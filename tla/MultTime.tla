------------------------------ MODULE MultTime ------------------------------
(***************************************************************************)
(* mult_time.c: timers behind a misc device.  A start puts an entry on a   *)
(* list and starts a kernel timer, every expiry is counted, and a read     *)
(* waits for a count and takes the oldest entry as the timer that ran out. *)
(* Callers use the device at the same time; a step ends where the code     *)
(* takes or drops a lock, or may be interrupted between two accesses.      *)
(*                                                                         *)
(* A caller opens the device once; its requests are valid (time_id below   *)
(* 48) and it does not start a timer that is pending, for which add_timer  *)
(* stops the kernel.                                                       *)
(***************************************************************************)
EXTENDS Integers, Sequences, SequencesExt, FiniteSets

CONSTANTS
    Callers,        \* processes that use /dev/mult_time
    Timers,         \* mult_timer
    MaxStarts,      \* bound: starts
    Nobody          \* no entry

VARIABLES
    timer_list_head,    \* the entries, newest first: numbers of starts
    idOf,               \* data of every entry
    pending,            \* the entry with which a timer was started, by timer
    firing,             \* expired timers whose mult_timer_process has not run
    timer_status,
    pc, id, entry,      \* of every caller: where it is, and with what
    expired,            \* history: entries
    wrong,              \* history: a read reported a timer that had not run
    odd                 \* history: what misleads a read, and "shared" closes

vars == <<timer_list_head, idOf, pending, firing, timer_status, pc, id, entry,
          expired, wrong, odd>>

list == <<timer_list_head, idOf>>
timers == <<pending, firing, timer_status, expired>>
caller == <<pc, id, entry>>
history == <<wrong, odd>>

Starts == DOMAIN idOf
OnList == ToSet(timer_list_head)
Goes(c, to) == pc' = [pc EXCEPT ![c] = to]
Returns(c) ==
    /\ Goes(c, "open")
    /\ id' = [id EXCEPT ![c] = Nobody]
    /\ entry' = [entry EXCEPT ![c] = Nobody]

Init ==
    /\ timer_list_head = <<>>
    /\ idOf = <<>>
    /\ pending = [t \in Timers |-> Nobody]
    /\ firing = {}
    /\ timer_status = 0
    /\ pc = [c \in Callers |-> "closed"]
    /\ id = [c \in Callers |-> Nobody]
    /\ entry = [c \in Callers |-> Nobody]
    /\ expired = {}
    /\ wrong = FALSE
    /\ odd = {}

Closing(c) == pc[c] \in {"empty?", "first", "delete", "free"}
Sharing(others) == IF others = {} THEN odd ELSE odd \cup {"shared"}

misc_open(c) ==
    /\ pc[c] = "closed"
    /\ odd' = Sharing({d \in Callers : Closing(d)})
    /\ Goes(c, "open")
    /\ UNCHANGED <<list, timers, id, entry, wrong>>

-----------------------------------------------------------------------------
(* misc_ioctl. *)

Starting(t) == \E c \in Callers : pc[c] = "add" /\ id[c] = t

\* Variant: list_add_tail.
MULT_TIME_START_Tail(c, t) ==
    /\ pc[c] = "open"
    /\ pending[t] = Nobody
    /\ ~Starting(t)
    /\ Len(idOf) < MaxStarts
    /\ idOf' = Append(idOf, t)
    /\ timer_list_head' = Append(timer_list_head, Len(idOf'))
    /\ id' = [id EXCEPT ![c] = t]
    /\ entry' = [entry EXCEPT ![c] = Len(idOf')]
    /\ Goes(c, "add")
    /\ UNCHANGED <<timers, history>>

\* kmem_cache_alloc may fail, and nothing has happened then.
MULT_TIME_START(c, t) ==
    /\ pc[c] = "open"
    /\ pending[t] = Nobody
    /\ ~Starting(t)
    /\ Len(idOf) < MaxStarts
    /\ idOf' = Append(idOf, t)
    /\ timer_list_head' = <<Len(idOf')>> \o timer_list_head
    /\ id' = [id EXCEPT ![c] = t]
    /\ entry' = [entry EXCEPT ![c] = Len(idOf')]
    /\ Goes(c, "add")
    /\ UNCHANGED <<timers, history>>

add_timer(c) ==
    /\ pc[c] = "add"
    /\ pending' = [pending EXCEPT ![id[c]] = entry[c]]
    /\ Returns(c)
    /\ UNCHANGED <<list, firing, timer_status, expired, history>>

MULT_TIME_STOP(c, t) ==
    /\ pc[c] = "open"
    /\ pending' = [pending EXCEPT ![t] = Nobody]
    /\ id' = [id EXCEPT ![c] = t]
    /\ Goes(c, "remove")
    /\ UNCHANGED <<list, firing, timer_status, expired, entry, history>>

Newest(t) ==
    LET at == {i \in DOMAIN timer_list_head : idOf[timer_list_head[i]] = t}
    IN  IF at = {} THEN Nobody
        ELSE timer_list_head[CHOOSE i \in at : \A j \in at : i <= j]

Stale(e) == IF e \in expired THEN odd \cup {"stale"} ELSE odd

(* list_del.  misc_close may find its entry gone, taken by a read, a stop  *)
(* or another close; the code then deletes and frees it again, or frees    *)
(* the head of the list.  What that does to the memory is not modelled:    *)
(* the list stays as it is, and odd holds "shared" by then.                *)
ListDel(e) ==
    timer_list_head' =
        IF e \notin OnList THEN timer_list_head
        ELSE RemoveAt(timer_list_head, CHOOSE i \in DOMAIN timer_list_head :
                                           timer_list_head[i] = e)

\* The count of a timer that has run out stays behind.
RemoveEntry(c) ==
    LET e == Newest(id[c])
    IN  /\ pc[c] = "remove"
        /\ ListDel(e)
        /\ odd' = Stale(e)
        /\ Returns(c)
        /\ UNCHANGED <<idOf, timers, wrong>>

-----------------------------------------------------------------------------
(* The timers. Those of different length run out in any order. *)

Expire(t) ==
    /\ pending[t] # Nobody
    /\ firing' = firing \cup {pending[t]}
    /\ expired' = expired \cup {pending[t]}
    /\ odd' = odd \cup {o \in {"order", "stale"} :
                  IF o = "order" THEN \E e \in OnList \ expired : e < pending[t]
                  ELSE pending[t] \notin OnList}
    /\ pending' = [pending EXCEPT ![t] = Nobody]
    /\ UNCHANGED <<list, timer_status, caller, wrong>>

mult_timer_process(e) ==
    /\ e \in firing
    /\ firing' = firing \ {e}
    /\ timer_status' = timer_status + 1
    /\ UNCHANGED <<list, pending, expired, caller, history>>

-----------------------------------------------------------------------------
(* misc_read. *)

Read(c) ==
    /\ pc[c] = "open"
    /\ timer_status > 0
    /\ Goes(c, "count")
    /\ UNCHANGED <<list, timers, id, entry, history>>

\* The result of wait_event_interruptible is not looked at.
Signal(c) ==
    /\ pc[c] = "open"
    /\ odd' = odd \cup {"signal"}
    /\ Goes(c, "count")
    /\ UNCHANGED <<list, timers, id, entry, wrong>>

\* Two readers may have seen the same count.
Count(c) ==
    /\ pc[c] = "count"
    /\ timer_status' = IF timer_status > 0 THEN timer_status - 1 ELSE 0
    /\ odd' = IF timer_status = 0 THEN odd \cup {"signal"} ELSE odd
    /\ Goes(c, "take")
    /\ UNCHANGED <<list, pending, firing, expired, id, entry, wrong>>

Take(c) ==
    /\ pc[c] = "take"
    /\ IF timer_list_head = <<>> THEN UNCHANGED <<list, wrong>>
       ELSE /\ timer_list_head' = Front(timer_list_head)
            /\ wrong' = (wrong \/ Last(timer_list_head) \notin expired)
            /\ idOf' = idOf
    /\ Goes(c, "open")
    /\ UNCHANGED <<timers, id, entry, odd>>

-----------------------------------------------------------------------------
(* misc_close, which empties the list without the lock between the steps.  *)

misc_close(c) ==
    /\ pc[c] = "open"
    /\ pending' = [t \in Timers |-> Nobody]
    /\ odd' = Sharing({d \in Callers \ {c} : pc[d] # "closed"})
    /\ Goes(c, "empty?")
    /\ UNCHANGED <<list, firing, timer_status, expired, id, entry, wrong>>

list_empty(c) ==
    /\ pc[c] = "empty?"
    /\ Goes(c, IF timer_list_head = <<>> THEN "closed" ELSE "first")
    /\ UNCHANGED <<list, timers, id, entry, history>>

First(c) ==
    /\ pc[c] = "first"
    /\ entry' = [entry EXCEPT ![c] = IF timer_list_head = <<>> THEN Nobody
                                     ELSE Head(timer_list_head)]
    /\ Goes(c, "delete")
    /\ UNCHANGED <<list, timers, id, history>>

\* Here too the count of a timer that has run out stays behind.
list_del_init(c) ==
    /\ pc[c] = "delete"
    /\ odd' = Stale(entry[c])
    /\ ListDel(entry[c])
    /\ Goes(c, "free")
    /\ UNCHANGED <<idOf, timers, id, entry, wrong>>

Free(c) ==
    /\ pc[c] = "free"
    /\ entry' = [entry EXCEPT ![c] = Nobody]
    /\ Goes(c, "empty?")
    /\ UNCHANGED <<timer_list_head, idOf, timers, id, wrong, odd>>

-----------------------------------------------------------------------------

Next ==
    \/ \E c \in Callers, t \in Timers :
           MULT_TIME_START(c, t) \/ MULT_TIME_STOP(c, t)
    \/ \E c \in Callers :
           \/ misc_open(c)
           \/ add_timer(c)
           \/ RemoveEntry(c)
           \/ Read(c)
           \/ Signal(c)
           \/ Count(c)
           \/ Take(c)
           \/ misc_close(c)
           \/ list_empty(c)
           \/ First(c)
           \/ list_del_init(c)
           \/ Free(c)
    \/ \E t \in Timers : Expire(t)
    \/ \E e \in Starts : mult_timer_process(e)

Spec == Init /\ [][Next]_vars

-----------------------------------------------------------------------------
(* Properties. *)

(* A read reports a timer that has run out, unless a timer ran out before  *)
(* an older one, a signal or a second reader let a read go on without an   *)
(* expiry of its own, the device was closed by one of two callers, or an   *)
(* entry was taken from the list by a stop or a close and its timer ran    *)
(* out, before or after, and was counted: mult_time.c reports the oldest   *)
(* entry, whatever timer it was that woke the reader (129).                *)
ReportsExpired == wrong => odd # {}
=============================================================================
