---------------------------- MODULE MCAuthenticator ----------------------------
(* Instances of Authenticator for TLC.                                     *)
EXTENDS Authenticator, TLC

CONSTANTS right, wrong
=============================================================================
