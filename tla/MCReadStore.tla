---------------------------- MODULE MCReadStore ----------------------------
(* Instances of ReadStore for model checking.                              *)
EXTENDS ReadStore, TLC

CONSTANTS r1, r2, r3

\* Threads sharing one userspace file: UserspaceRead always asks for any.
AnyTransaction == [r \in Readers |-> 0]

\* Threads using the driver's control client: each has its own request open.
OwnTransactions == r1 :> 1 @@ r2 :> 2 @@ r3 :> 3
=============================================================================
