----------------------------- MODULE MCSystemTray -----------------------------
(* Instances of SystemTray for TLC.                                        *)
EXTENDS SystemTray, TLC

CONSTANTS a, b, s

OneService == (a :> s) @@ (b :> s)

(* Four watcher events, two of each kind, for a list to be overtaken; two  *)
(* of an application and a watcher that dies; three of an application.     *)
UpTo(n, m) == [app |-> n, watcher |-> m]
FewEvents == {UpTo(1, 4), UpTo(2, 1), UpTo(3, 0)}
=============================================================================
