-------------------------- MODULE MCApplicationModel --------------------------
(* Instances of ApplicationModel for TLC.                                  *)
EXTENDS ApplicationModel, TLC

CONSTANTS u, v, x, y, z, d, e

Classes == (u :> x) @@ (v :> y)
BaseNames == (d :> x) @@ (e :> z)
=============================================================================
