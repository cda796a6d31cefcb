----------------------------- MODULE UnlockService -----------------------------
(***************************************************************************)
(* What the screen locker promises whoever types passwords (the slot and   *)
(* the signals of class Authenticator, and the program's end): an attempt  *)
(* succeeds or fails, at most once, and only a success lets the program    *)
(* end, which is what opens the screen.  Nothing is said of how a password *)
(* is checked.                                                             *)
(***************************************************************************)
CONSTANTS Password, Right, NoPassword

VARIABLES
    last,      \* the password of the last attempt
    pending,   \* it waits for its outcome
    success,   \* there was a success
    life       \* the program runs, has ended by itself, or was ended

vars == <<last, pending, success, life>>

(* tryUnlock(p): it takes the place of an attempt that waits.  An attempt  *)
(* that cannot be made has failed.                                         *)
Attempt(p) ==
    /\ life = "running"
    /\ last' = p /\ pending' \in BOOLEAN
    /\ UNCHANGED <<success, life>>

(* succeeded().                                                            *)
Succeed ==
    /\ life = "running" /\ pending /\ last = Right
    /\ pending' = FALSE /\ success' = TRUE
    /\ UNCHANGED <<last, life>>

(* failed().                                                               *)
Fail ==
    /\ life = "running" /\ pending
    /\ pending' = FALSE
    /\ UNCHANGED <<last, success, life>>

(* The program ends.                                                       *)
Open ==
    /\ life = "running" /\ success
    /\ life' = "over"
    /\ UNCHANGED <<last, pending, success>>

(* Something ends the program: a signal, or an error of its own.           *)
Lose ==
    /\ life = "running"
    /\ life' = "lost"
    /\ UNCHANGED <<last, pending, success>>

Init == last = NoPassword /\ pending = FALSE /\ success = FALSE
        /\ life = "running"

Next == Succeed \/ Fail \/ Open \/ Lose \/ \E p \in Password : Attempt(p)

Spec == Init /\ [][Next]_vars
=============================================================================
