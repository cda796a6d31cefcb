------------------------------ MODULE MCAppMotor ------------------------------
(* Instances of AppMotor for TLC.                                          *)
EXTENDS AppMotor, TLC

CONSTANTS i1, i2, i3, a1, a2

OneApp  == [i \in Invoker |-> a1]
TwoApps == [i \in Invoker |-> IF i = i1 THEN a1 ELSE a2]
=============================================================================
