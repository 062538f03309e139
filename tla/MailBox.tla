------------------------------- MODULE MailBox -------------------------------
(***************************************************************************)
(* What ReadSync promises its callers, without notify lists, semaphores    *)
(* and locks: one client's mail box.  Messages are put in; a reader takes  *)
(* the oldest message it wants at once, or blocks until there is one; a    *)
(* closed box is empty and sends every reader away.                        *)
(***************************************************************************)
EXTENDS SequencesExt

CONSTANTS Readers, TransactionOf, Tids, Interruptible

VARIABLES open, box, blocked

vars == <<open, box, blocked>>

Wanted(r, m) == TransactionOf[r] \in {0, m}

HasMail(r) == \E i \in DOMAIN box : Wanted(r, box[i])

Init == open = TRUE /\ box = <<>> /\ blocked = {}

Put(m) ==
    /\ open
    /\ box' = Append(box, m)
    /\ UNCHANGED <<open, blocked>>

Take(r) ==
    /\ HasMail(r)
    /\ box' = RemoveFirstMatch(box, LAMBDA m : Wanted(r, m))
    /\ blocked' = blocked \ {r}
    /\ UNCHANGED open

Block(r) ==
    /\ open /\ ~HasMail(r)
    /\ blocked' = blocked \cup {r}
    /\ UNCHANGED <<open, box>>

\* Out of memory, or the box was closed.
GiveUp(r) ==
    /\ ~HasMail(r)
    /\ blocked' = blocked \ {r}
    /\ UNCHANGED <<open, box>>

\* A signal sends a reader away, whether there is mail for it or not.
Leave(r) ==
    /\ r \in Interruptible
    /\ blocked' = blocked \ {r}
    /\ UNCHANGED <<open, box>>

Close ==
    /\ open
    /\ open' = FALSE /\ box' = <<>>
    /\ UNCHANGED blocked

Next ==
    \/ \E m \in Tids : Put(m)
    \/ \E r \in Readers : Take(r) \/ Block(r) \/ GiveUp(r) \/ Leave(r)
    \/ Close

\* A blocked reader is served: mail that stays in the box while someone who
\* wants it is blocked reaches one of them.
Serve == \E r \in blocked : Take(r)

\* A closed box keeps nobody.
Dismiss(r) == ~open /\ r \in blocked /\ GiveUp(r)

Safety == Init /\ [][Next]_vars

Spec ==
    /\ Safety
    /\ WF_vars(Serve)
    /\ \A r \in Readers : WF_vars(Dismiss(r))
=============================================================================
