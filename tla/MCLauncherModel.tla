--------------------------- MODULE MCLauncherModel ---------------------------
(* Instances of LauncherModel for TLC.                                     *)
EXTENDS LauncherModel, TLC

CONSTANTS f, g

Names == (f :> 2) @@ (g :> 1)
=============================================================================
