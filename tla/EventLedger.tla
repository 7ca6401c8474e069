------------------------------- MODULE EventLedger -------------------------------
(* What ingestion promises for the events it takes in, whatever buffers, batches   *)
(* and timers stand between the HTTP handler and the events table: an event taken  *)
(* in is pending until it is stored or lost, once, for good, and a batch moves as  *)
(* a whole.                                                                        *)
CONSTANT Events                  \* the identities of the events ever taken in

VARIABLES pending,               \* taken in, in memory only
          stored,                \* committed to the events table
          lost                   \* will never be stored

ledger == <<pending, stored, lost>>

Init == pending = {} /\ stored = {} /\ lost = {}

New(e) == e \notin pending \union stored \union lost

Take(e) == /\ New(e)
           /\ pending' = pending \union {e}
           /\ UNCHANGED <<stored, lost>>

\* An event is refused by a failing store before it ever becomes pending.
Drop(e) == /\ New(e)
           /\ lost' = lost \union {e}
           /\ UNCHANGED <<pending, stored>>

Store(batch) == /\ batch # {}
                /\ pending' = pending \ batch
                /\ stored' = stored \union batch
                /\ UNCHANGED lost

Lose(batch) == /\ batch # {}
               /\ pending' = pending \ batch
               /\ lost' = lost \union batch
               /\ UNCHANGED stored

Next == \/ \E e \in Events : Take(e) \/ Drop(e)
        \/ \E batch \in SUBSET pending : Store(batch) \/ Lose(batch)

Spec == Init /\ [][Next]_ledger

(* Every event has one fate: the three columns never share an event. *)
OneFate == /\ pending \intersect stored = {}
           /\ pending \intersect lost = {}
           /\ stored \intersect lost = {}
=============================================================================
