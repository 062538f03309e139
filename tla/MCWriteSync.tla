----------------------------- MODULE MCWriteSync -----------------------------
(* Instances of WriteSync for model checking.                              *)
EXTENDS WriteSync, TLC

CONSTANTS w1, w2, w3, c1, c2

\* Two threads on the control client, one on a client of its own.
TwoAndOne == w1 :> c1 @@ w2 :> c1 @@ w3 :> c2
=============================================================================
