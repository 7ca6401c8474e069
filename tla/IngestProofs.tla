------------------------------- MODULE IngestProofs -------------------------------
(* Proofs about Ingest for every number of clients, every batch and turn size and  *)
(* every bound.                                                                    *)
EXTENDS Ingest, FoldProofs, SequenceTheorems, FiniteSetTheorems, TLAPS

-----------------------------------------------------------------------------
(* What the sequence operators do to the set of elements and to distinctness. *)

(* Appending adds one element to what a sequence holds. *)
LEMMA RangeOfAppend ==
  ASSUME NEW S, NEW s \in Seq(S), NEW e \in S
  PROVE  Range(Append(s, e)) = Range(s) \union {e}
<1>1. /\ DOMAIN Append(s, e) = 1..Len(s)+1
      /\ \A i \in 1..Len(s) : Append(s, e)[i] = s[i]
      /\ Append(s, e)[Len(s)+1] = e
  OBVIOUS
<1>2. DOMAIN s = 1..Len(s) /\ Len(s) \in Nat
  OBVIOUS
<1>3. QED BY <1>1, <1>2 DEF Range

(* A concatenation holds what its two parts hold. *)
LEMMA RangeOfConcat ==
  ASSUME NEW S, NEW s \in Seq(S), NEW t \in Seq(S)
  PROVE  Range(s \o t) = Range(s) \union Range(t)
<1> DEFINE c == s \o t
<1>1. /\ Len(s) \in Nat /\ Len(t) \in Nat
      /\ DOMAIN s = 1..Len(s) /\ DOMAIN t = 1..Len(t) /\ DOMAIN c = 1..Len(s)+Len(t)
  OBVIOUS
<1>2. /\ \A i \in 1..Len(s) : c[i] = s[i]
      /\ \A i \in Len(s)+1..Len(s)+Len(t) : c[i] = t[i - Len(s)]
  OBVIOUS
<1>3. \A i \in 1..Len(t) : c[i + Len(s)] = t[i] /\ i + Len(s) \in Len(s)+1..Len(s)+Len(t)
  BY <1>1, <1>2
<1>4. Range(c) \subseteq Range(s) \union Range(t)
  <2> SUFFICES ASSUME NEW i \in DOMAIN c PROVE c[i] \in Range(s) \union Range(t)
    BY DEF Range
  <2>1. CASE i \in 1..Len(s)  BY <2>1, <1>1, <1>2 DEF Range
  <2>2. CASE i \in Len(s)+1..Len(s)+Len(t)
    <3>1. i - Len(s) \in 1..Len(t)  BY <2>2, <1>1
    <3>2. QED BY <2>2, <3>1, <1>1, <1>2 DEF Range
  <2>3. QED BY <2>1, <2>2, <1>1
<1>5. Range(s) \subseteq Range(c)
  BY <1>1, <1>2 DEF Range
<1>6. Range(t) \subseteq Range(c)
  <2> SUFFICES ASSUME NEW i \in DOMAIN t PROVE t[i] \in Range(c)
    BY DEF Range
  <2>1. i + Len(s) \in DOMAIN c /\ c[i + Len(s)] = t[i]  BY <1>1, <1>3
  <2>2. QED BY <2>1 DEF Range
<1>7. QED BY <1>4, <1>5, <1>6

(* A sequence holds its head and what its tail holds. *)
LEMMA RangeOfTail ==
  ASSUME NEW S, NEW s \in Seq(S), s # <<>>
  PROVE  /\ Head(s) \in S /\ Tail(s) \in Seq(S)
         /\ Range(s) = {Head(s)} \union Range(Tail(s))
<1>1. /\ Len(s) \in Nat \ {0} /\ DOMAIN s = 1..Len(s) /\ Head(s) = s[1]
      /\ Tail(s) \in Seq(S) /\ Len(Tail(s)) = Len(s) - 1
      /\ DOMAIN Tail(s) = 1..Len(s)-1
      /\ \A i \in 1..Len(s)-1 : Tail(s)[i] = s[i+1]
  OBVIOUS
<1>2. \A i \in DOMAIN s : s[i] \in {Head(s)} \union Range(Tail(s))
  <2> TAKE i \in DOMAIN s
  <2>1. CASE i = 1  BY <2>1, <1>1
  <2>2. CASE i # 1
    <3>1. i - 1 \in 1..Len(s)-1 /\ Tail(s)[i-1] = s[i]  BY <2>2, <1>1
    <3>2. QED BY <3>1, <1>1 DEF Range
  <2>3. QED BY <2>1, <2>2
<1>3. \A i \in DOMAIN Tail(s) : i+1 \in DOMAIN s /\ Tail(s)[i] = s[i+1]
  BY <1>1
<1>4. Range(s) \subseteq {Head(s)} \union Range(Tail(s))
  BY <1>2 DEF Range
<1>5. Range(Tail(s)) \subseteq Range(s)
  BY <1>3 DEF Range
<1>6. Head(s) \in Range(s) /\ Head(s) \in S
  <2>1. 1 \in DOMAIN s /\ s[1] \in S  BY <1>1
  <2>2. QED BY <1>1, <2>1 DEF Range
<1>7. QED BY <1>1, <1>4, <1>5, <1>6

-----------------------------------------------------------------------------
(* Identities of events and of continuations are natural numbers. *)
LEMMA IdsTyped ==
  ASSUME NEW s, s \in Seq(Event) \/ s \in Seq(Task)
  PROVE  Ids(s) \subseteq Nat
<1> SUFFICES ASSUME NEW i \in DOMAIN s PROVE s[i].id \in Nat
  BY DEF Ids, Range
<1>1. CASE s \in Seq(Event)
  <2>1. s[i] \in Event  BY <1>1
  <2>2. QED BY <2>1 DEF Event
<1>2. CASE s \in Seq(Task)
  <2>1. s[i] \in Task  BY <1>2
  <2>2. QED BY <2>1 DEF Task
<1>3. QED BY <1>1, <1>2

(* A flush, stored or failed, keeps the table and the losses typed. *)
LEMMA FlushTyped ==
  ASSUME TypeOK, NEW events \in Seq(Event), FlushStored(events) \/ FlushFailed(events)
  PROVE  db' \in Seq(Event) /\ lost' \subseteq Nat /\ faults' \in Nat
<1>1. CASE FlushStored(events)  BY <1>1 DEF FlushStored, TypeOK
<1>2. CASE FlushFailed(events)
  <2>1. Ids(events) \subseteq Nat  BY IdsTyped
  <2>2. lost \subseteq Nat /\ faults \in Nat /\ db \in Seq(Event)  BY DEF TypeOK
  <2>3. faults' \in Nat  BY <1>2, <2>2 DEF FlushFailed, Fault
  <2>4. lost' \subseteq Nat  BY <1>2, <2>1, <2>2 DEF FlushFailed
  <2>5. QED BY <1>2, <2>2, <2>3, <2>4 DEF FlushFailed
<1>3. QED BY <1>1, <1>2

(* The end of the process leaves its memory empty and typed. *)
LEMMA GoneTyped ==
  ASSUME Gone
  PROVE  /\ proc' = "down" /\ open' \in 0..MaxOpen /\ slots' \in 0..TurnSize
         /\ micro' = <<>> /\ micro' \in Seq(Task)
         /\ buffer' = <<>> /\ buffer' \in Seq(Event) /\ timer' = "unset"
BY IngestAssumption DEF IngestAssumption, Gone, Emptied

\* A continuation leaves the queue, and perhaps a typed one enters at its end.
LEMMA QueueTyped ==
  ASSUME TypeOK, NEW tasks \in Seq(Task), Queue(tasks)
  PROVE  micro' \in Seq(Task) /\ slots' \in 0..TurnSize
BY IngestAssumption DEF IngestAssumption, Queue

\* The last event found for a visitor was recorded for that visitor.
LEMMA LastEventFound ==
  ASSUME TypeOK, NEW v, NEW e \in LastEvent(v)
  PROVE  /\ e \in Event /\ e.visitor = v
         /\ e \in Range(db) \union Range(buffer)
<1>1. CASE Buffered(v) # {}
  <2>1. PICK i \in Buffered(v) : e = buffer[i]  BY <1>1 DEF LastEvent
  <2>2. i \in DOMAIN buffer /\ buffer[i].visitor = v  BY <2>1 DEF Buffered
  <2>3. buffer[i] \in Event  BY <2>2 DEF TypeOK
  <2>4. QED BY <2>1, <2>2, <2>3 DEF Range
<1>2. CASE Buffered(v) = {}
  <2>1. PICK i \in Stored(v) : e = db[i]  BY <1>2 DEF LastEvent, LastStoredEvent
  <2>2. i \in DOMAIN db /\ db[i].visitor = v  BY <2>1 DEF Stored
  <2>3. db[i] \in Event  BY <2>2 DEF TypeOK
  <2>4. QED BY <2>1, <2>2, <2>3 DEF Range
<1>3. QED BY <1>1, <1>2

\* Lookup passes its task on to save, under a session found or its own; or drops it.
LEMMA LookupResult ==
  ASSUME TypeOK, Lookup
  PROVE  /\ micro # <<>> /\ Head(micro) \in Task /\ Head(micro).stage = "lookup"
         /\ Tail(micro) \in Seq(Task)
         /\ \/ /\ UNCHANGED <<lost, faults>>
               /\ \E u \in Task :
                    /\ Queue(Append(Tail(micro), u))
                    /\ u.id = Head(micro).id /\ u.visitor = Head(micro).visitor
                    /\ u.stage = "save"
                    /\ \/ u.session = u.id
                       \/ \E e \in Range(db) \union Range(buffer) :
                            u.session = e.session /\ u.visitor = e.visitor
            \/ /\ Fault
               /\ lost' = lost \union {Head(micro).id}
               /\ Queue(Tail(micro))
<1> DEFINE t == Head(micro)
<1>1. micro # <<>> /\ t \in Task /\ t.stage = "lookup" /\ Tail(micro) \in Seq(Task)
  BY RangeOfTail DEF Lookup, TypeOK
<1>2. CASE /\ Queue(Append(Tail(micro), [t EXCEPT !.stage = "save", !.at = now, !.session = t.id]))
           /\ UNCHANGED <<lost, faults>>
  <2> DEFINE u == [t EXCEPT !.stage = "save", !.at = now, !.session = t.id]
  <2>1. u \in Task /\ u.id = t.id /\ u.visitor = t.visitor /\ u.stage = "save" /\ u.session = u.id
    BY <1>1 DEF Task, TypeOK
  <2>2. QED BY <1>1, <1>2, <2>1
<1>3. ASSUME NEW e \in LastEvent(t.visitor),
             Queue(Append(Tail(micro), ResolveSession(t, e))), UNCHANGED <<lost, faults>>
      PROVE  \E u \in Task :
                    /\ Queue(Append(Tail(micro), u))
                    /\ u.id = t.id /\ u.visitor = t.visitor
                    /\ u.stage = "save"
                    /\ \/ u.session = u.id
                       \/ \E f \in Range(db) \union Range(buffer) :
                            u.session = f.session /\ u.visitor = f.visitor
  <2> DEFINE u == ResolveSession(t, e)
  <2>1. e \in Event /\ e.visitor = t.visitor /\ e \in Range(db) \union Range(buffer)
    BY LastEventFound
  <2>2. /\ u \in Task /\ u.id = t.id /\ u.visitor = t.visitor /\ u.stage = "save"
        /\ u.session = e.session \/ u.session = t.id
    BY <1>1, <2>1 DEF ResolveSession, Task, Event, TypeOK
  <2>3. QED BY <1>3, <2>1, <2>2
<1>4. QED BY <1>1, <1>2, <1>3 DEF Lookup

(* The event built from a continuation is typed and keeps its identity. *)
LEMMA SavedEvent ==
  ASSUME NEW t \in Task
  PROVE  /\ TrackedEvent(t) \in Event
         /\ TrackedEvent(t).id = t.id /\ TrackedEvent(t).visitor = t.visitor
         /\ TrackedEvent(t).session = t.session
<1>1. t.at \div TicksPerSecond \in Nat
  BY IngestAssumption DEF IngestAssumption, Task
<1>2. QED BY <1>1 DEF TrackedEvent, Task, Event

-----------------------------------------------------------------------------
(* Every step of ingestion keeps its variables in their types. *)
LEMMA TypeOKStep ==
  ASSUME TypeOK, [Next]_vars
  PROVE  TypeOK'
<1> USE DEF mem, disk, turn
<1>1. CASE Open  BY <1>1, IngestAssumption DEF Open, Macrotask, TypeOK, IngestAssumption
<1>2. CASE Refuse  BY <1>2, IngestAssumption DEF Refuse, Macrotask, TypeOK, IngestAssumption
<1>3. ASSUME NEW c \in Clients, Dispatch(c) PROVE TypeOK'
  <2>1. open' \in 0..MaxOpen /\ nextId' \in Nat
    BY <1>3, IngestAssumption DEF Dispatch, TypeOK, IngestAssumption
  <2>2. CASE /\ salt' = IF salt = 0 THEN 1 ELSE salt
             /\ micro' = Append(micro, [id |-> nextId, visitor |-> <<salt', c>>, session |-> 0,
                                        at |-> 0, stage |-> "lookup"])
             /\ slots' = slots - 1
             /\ UNCHANGED <<lost, faults>>
    <3>1. salt' \in Nat /\ slots' \in 0..TurnSize
      BY <1>3, <2>2, IngestAssumption DEF Dispatch, TypeOK, IngestAssumption
    <3>2. [id |-> nextId, visitor |-> <<salt', c>>, session |-> 0, at |-> 0,
           stage |-> "lookup"] \in Task
      BY <3>1 DEF Task, TypeOK
    <3>3. QED BY <1>3, <2>1, <2>2, <3>1, <3>2 DEF Dispatch, TypeOK
  <2>3. CASE Fault /\ lost' = lost \union {nextId} /\ UNCHANGED <<turn, salt>>
    BY <1>3, <2>1, <2>3 DEF Dispatch, Fault, TypeOK
  <2>4. QED BY <1>3, <2>2, <2>3 DEF Dispatch
<1>4. CASE Lookup
  <2>1. micro' \in Seq(Task) /\ slots' \in 0..TurnSize
    <3>1. Tail(micro) \in Seq(Task) /\ \A u \in Task : Append(Tail(micro), u) \in Seq(Task)
      BY <1>4, LookupResult
    <3>2. QED BY <1>4, <3>1, LookupResult, QueueTyped
  <2>2. lost' \subseteq Nat /\ faults' \in Nat
    <3>1. Head(micro).id \in Nat  BY <1>4, LookupResult DEF Task
    <3>2. CASE UNCHANGED <<lost, faults>>  BY <3>2 DEF TypeOK
    <3>3. CASE Fault /\ lost' = lost \union {Head(micro).id}
      <4>1. lost \subseteq Nat /\ faults \in Nat  BY DEF TypeOK
      <4>2. faults' \in Nat  BY <3>3, <4>1 DEF Fault
      <4>3. QED BY <3>1, <3>3, <4>1, <4>2
    <3>4. QED BY <1>4, <3>2, <3>3, LookupResult
  <2>3. QED BY <1>4, <2>1, <2>2 DEF Lookup, TypeOK
<1>5. CASE Save
  <2> DEFINE pushed == Append(buffer, TrackedEvent(Head(micro)))
  <2>1. /\ Head(micro) \in Task /\ Tail(micro) \in Seq(Task)
        /\ pushed \in Seq(Event)
    BY <1>5, RangeOfTail, SavedEvent DEF Save, TypeOK
  <2>2. micro' \in Seq(Task) /\ slots' \in 0..TurnSize
    BY <1>5, <2>1, QueueTyped DEF Save
  <2>3. CASE Emptied /\ (FlushStored(pushed) \/ FlushFailed(pushed))
    <3>1. db' \in Seq(Event) /\ lost' \subseteq Nat /\ faults' \in Nat
      BY <2>1, <2>3, FlushTyped
    <3>2. QED BY <1>5, <2>2, <2>3, <3>1 DEF Save, Emptied, TypeOK
  <2>4. CASE buffer' = pushed /\ Scheduled /\ UNCHANGED <<db, lost, faults>>
    BY <1>5, <2>1, <2>2, <2>4 DEF Save, Scheduled, TypeOK
  <2>5. QED BY <1>5, <2>3, <2>4 DEF Save
<1>6. CASE FlushTimer
  <2>1. db' \in Seq(Event) /\ lost' \subseteq Nat /\ faults' \in Nat
    BY <1>6, FlushTyped DEF FlushTimer, TypeOK
  <2>2. CASE FlushStored(buffer) /\ Emptied /\ UNCHANGED <<proc, open, turn>>
    BY <1>6, <2>1, <2>2 DEF FlushTimer, Emptied, TypeOK
  <2>3. CASE Gone
    <3>1. proc' \in {"up", "draining", "down"} /\ timer' \in {"unset", "set"}
      BY <2>3, GoneTyped
    <3>2. QED BY <1>6, <2>1, <2>3, <3>1, GoneTyped DEF FlushTimer, TypeOK
  <2>4. QED BY <1>6, <2>2, <2>3 DEF FlushTimer
<1>7. CASE RotateSalt  BY <1>7 DEF RotateSalt, TypeOK
<1>8. CASE Terminate
  <2>1. db' \in Seq(Event) /\ lost' \subseteq Nat /\ faults' \in Nat
    BY <1>8, FlushTyped DEF Terminate, TypeOK
  <2>2. CASE FlushStored(buffer) /\ Emptied /\ proc' = "draining" /\ UNCHANGED <<open, turn>>
    BY <1>8, <2>1, <2>2 DEF Terminate, Emptied, TypeOK
  <2>3. CASE Gone
    <3>1. proc' \in {"up", "draining", "down"} /\ timer' \in {"unset", "set"}
      BY <2>3, GoneTyped
    <3>2. QED BY <1>8, <2>1, <2>3, <3>1, GoneTyped DEF Terminate, TypeOK
  <2>4. QED BY <1>8, <2>2, <2>3 DEF Terminate
<1>9. CASE Exit
  <2>1. lost' \subseteq Nat  BY <1>9, IdsTyped DEF Exit, TypeOK
  <2>2. QED BY <1>9, <2>1, GoneTyped DEF Exit, TypeOK
<1>10. CASE Kill
  <2>1. lost' \subseteq Nat  BY <1>10, IdsTyped DEF Kill, TypeOK
  <2>2. QED BY <1>10, <2>1, GoneTyped DEF Kill, TypeOK
<1>11. CASE Boot  BY <1>11 DEF Boot, TypeOK
<1>12. CASE Tick  BY <1>12 DEF Tick, TypeOK
<1>13. CASE UNCHANGED vars  BY <1>13 DEF vars, TypeOK
<1>14. QED
  BY <1>1, <1>2, <1>3, <1>4, <1>5, <1>6, <1>7, <1>8, <1>9, <1>10, <1>11, <1>12, <1>13 DEF Next

(* Ingestion keeps its variables in their types. *)
THEOREM TypeCorrect == Spec => []TypeOK
<1>1. Init => TypeOK
  <2>1. <<>> \in Seq(Task) /\ <<>> \in Seq(Event)  OBVIOUS
  <2>2. QED BY <2>1, IngestAssumption DEF Init, TypeOK, IngestAssumption
<1>2. QED BY <1>1, TypeOKStep, PTL DEF Spec
-----------------------------------------------------------------------------
(* The identities and the distinctness of the rows, through the sequence operators. *)

(* Appending adds one identity. *)
LEMMA IdsOfAppend ==
  ASSUME NEW S, NEW s \in Seq(S), NEW e \in S
  PROVE  Ids(Append(s, e)) = Ids(s) \union {e.id}
BY RangeOfAppend DEF Ids

(* A concatenation has the identities of both parts. *)
LEMMA IdsOfConcat ==
  ASSUME NEW S, NEW s \in Seq(S), NEW t \in Seq(S)
  PROVE  Ids(s \o t) = Ids(s) \union Ids(t)
BY RangeOfConcat DEF Ids

(* The identities of a sequence are those of its head and of its tail. *)
LEMMA IdsOfTail ==
  ASSUME NEW S, NEW s \in Seq(S), s # <<>>
  PROVE  Ids(s) = Ids(Tail(s)) \union {Head(s).id}
BY RangeOfTail DEF Ids

\* The two instances the actions need.
LEMMA IdsOfTasks ==
  \A q \in Seq(Task), u \in Task : Ids(Append(q, u)) = Ids(q) \union {u.id}
BY IdsOfAppend

(* Concatenating, for the buffer and the table. *)
LEMMA IdsOfRows ==
  \A s, t \in Seq(Event) : Ids(s \o t) = Ids(s) \union Ids(t)
BY IdsOfConcat

(* An empty sequence has no identities. *)
LEMMA IdsOfEmpty == Ids(<<>>) = {}
BY DEF Ids, Range

(* A sequence that is not empty has some identity. *)
LEMMA IdsNonEmpty ==
  ASSUME NEW S, NEW s \in Seq(S), s # <<>>
  PROVE  Ids(s) # {}
BY IdsOfTail

(* Every index has its identity among those of the sequence. *)
LEMMA IdOfIndex ==
  ASSUME NEW s, NEW i \in DOMAIN s
  PROVE  s[i].id \in Ids(s)
BY DEF Ids, Range

(* A new identity at the end keeps the identities distinct. *)
LEMMA DistinctAppend ==
  ASSUME NEW S, NEW s \in Seq(S), NEW e \in S, Distinct(s), e.id \notin Ids(s)
  PROVE  Distinct(Append(s, e))
<1> DEFINE a == Append(s, e)
<1>1. /\ Len(s) \in Nat /\ DOMAIN s = 1..Len(s) /\ DOMAIN a = 1..Len(s)+1
      /\ \A i \in 1..Len(s) : a[i] = s[i]
      /\ a[Len(s)+1] = e
  OBVIOUS
<1>2. \A i \in 1..Len(s) : s[i].id # e.id
  BY <1>1, IdOfIndex
<1> SUFFICES ASSUME NEW i \in DOMAIN a, NEW j \in DOMAIN a, a[i].id = a[j].id PROVE i = j
  BY DEF Distinct
<1>3. CASE i \in 1..Len(s) /\ j \in 1..Len(s)
  BY <1>1, <1>3 DEF Distinct
<1>4. CASE i = Len(s)+1 \/ j = Len(s)+1
  BY <1>1, <1>2, <1>4
<1>5. QED BY <1>1, <1>3, <1>4

(* Two sequences that share no identity concatenate to distinct ones. *)
LEMMA DistinctConcat ==
  ASSUME NEW S, NEW s \in Seq(S), NEW t \in Seq(S), Distinct(s), Distinct(t),
         Ids(s) \intersect Ids(t) = {}
  PROVE  Distinct(s \o t)
<1> DEFINE c == s \o t
<1>1. /\ Len(s) \in Nat /\ Len(t) \in Nat
      /\ DOMAIN s = 1..Len(s) /\ DOMAIN t = 1..Len(t) /\ DOMAIN c = 1..Len(s)+Len(t)
  OBVIOUS
<1>2. /\ \A i \in 1..Len(s) : c[i] = s[i]
      /\ \A i \in Len(s)+1..Len(s)+Len(t) : c[i] = t[i - Len(s)] /\ i - Len(s) \in 1..Len(t)
  BY <1>1
<1>3. \A i \in 1..Len(s), j \in 1..Len(t) : s[i].id # t[j].id
  BY <1>1, IdOfIndex
<1> SUFFICES ASSUME NEW i \in DOMAIN c, NEW j \in DOMAIN c, c[i].id = c[j].id PROVE i = j
  BY DEF Distinct
<1>4. CASE i \in 1..Len(s) /\ j \in 1..Len(s)
  BY <1>1, <1>2, <1>4 DEF Distinct
<1>5. CASE i \in Len(s)+1..Len(s)+Len(t) /\ j \in Len(s)+1..Len(s)+Len(t)
  <2>1. i - Len(s) = j - Len(s)  BY <1>1, <1>2, <1>5 DEF Distinct
  <2>2. QED BY <1>1, <1>5, <2>1
<1>6. CASE i \in 1..Len(s) /\ j \in Len(s)+1..Len(s)+Len(t)
  BY <1>2, <1>3, <1>6, SMTT(30)
<1>7. CASE j \in 1..Len(s) /\ i \in Len(s)+1..Len(s)+Len(t)
  BY <1>2, <1>3, <1>7
<1>8. QED BY <1>1, <1>4, <1>5, <1>6, <1>7

(* The tail of distinct identities is distinct, and lacks the head. *)
LEMMA DistinctTail ==
  ASSUME NEW S, NEW s \in Seq(S), s # <<>>, Distinct(s)
  PROVE  Distinct(Tail(s)) /\ Head(s).id \notin Ids(Tail(s))
<1>1. /\ Len(s) \in Nat \ {0} /\ DOMAIN s = 1..Len(s) /\ Head(s) = s[1]
      /\ DOMAIN Tail(s) = 1..Len(s)-1
      /\ \A i \in 1..Len(s)-1 : Tail(s)[i] = s[i+1] /\ i+1 \in 1..Len(s) /\ i+1 # 1
  OBVIOUS
<1>2. \A i \in DOMAIN Tail(s) : Tail(s)[i].id # Head(s).id
  BY <1>1 DEF Distinct
<1>3. Head(s).id \notin Ids(Tail(s))
  BY <1>2 DEF Ids, Range
<1>4. Distinct(Tail(s))
  <2> SUFFICES ASSUME NEW i \in DOMAIN Tail(s), NEW j \in DOMAIN Tail(s),
                      Tail(s)[i].id = Tail(s)[j].id
               PROVE i = j
    BY DEF Distinct
  <2>1. i + 1 = j + 1  BY <1>1 DEF Distinct
  <2>2. QED BY <1>1, <2>1
<1>5. QED BY <1>3, <1>4

(* An empty sequence repeats nothing. *)
LEMMA DistinctEmpty == Distinct(<<>>)
BY DEF Distinct

-----------------------------------------------------------------------------
(* What each action does to the identities in flight, stored and lost. *)

Same == UNCHANGED <<micro, buffer, db, lost, nextId>>

(* What execute() does to the ledger up to its first await. *)
LEMMA DispatchEffect ==
  ASSUME TypeOK, NEW c \in Clients, Dispatch(c)
  PROVE  /\ nextId \in Nat /\ nextId <= MaxEvents /\ nextId' = nextId + 1
         /\ UNCHANGED <<buffer, db>>
         /\ \/ /\ \E t \in Task : /\ micro' = Append(micro, t)
                                  /\ t.id = nextId /\ t.stage = "lookup"
               /\ UNCHANGED lost
            \/ /\ UNCHANGED micro
               /\ lost' = lost \union {nextId}
<1>1. CASE /\ salt' = IF salt = 0 THEN 1 ELSE salt
           /\ micro' = Append(micro, [id |-> nextId, visitor |-> <<salt', c>>, session |-> 0,
                                      at |-> 0, stage |-> "lookup"])
           /\ UNCHANGED <<lost, faults>>
  <2> DEFINE t == [id |-> nextId, visitor |-> <<salt', c>>, session |-> 0, at |-> 0,
                   stage |-> "lookup"]
  <2>1. t \in Task /\ t.id = nextId /\ t.stage = "lookup"
    BY <1>1 DEF Task, TypeOK
  <2>2. QED BY <1>1, <2>1 DEF Dispatch, TypeOK, mem
<1>2. CASE lost' = lost \union {nextId} /\ UNCHANGED <<turn, salt>>
  BY <1>2 DEF Dispatch, TypeOK, mem, turn
<1>3. QED BY <1>1, <1>2 DEF Dispatch

\* A recorded task is buffered, stored with its batch, or lost with its batch.
LEMMA SaveEffect ==
  ASSUME TypeOK, Save
  PROVE  /\ micro # <<>> /\ Head(micro) \in Task /\ Head(micro).stage = "save"
         /\ micro' = Tail(micro) /\ micro' \in Seq(Task) /\ UNCHANGED nextId
         /\ \E e \in Event :
              /\ e.id = Head(micro).id /\ e.visitor = Head(micro).visitor
              /\ e.session = Head(micro).session
              /\ Append(buffer, e) \in Seq(Event) /\ Append(buffer, e) # <<>>
              /\ \/ buffer' = Append(buffer, e) /\ UNCHANGED <<db, lost>>
                 \/ buffer' = <<>> /\ db' = db \o Append(buffer, e) /\ UNCHANGED lost
                 \/ buffer' = <<>> /\ UNCHANGED db /\ lost' = lost \union Ids(Append(buffer, e))
<1>1. /\ micro # <<>> /\ Head(micro) \in Task /\ Head(micro).stage = "save"
      /\ micro' = Tail(micro) /\ Tail(micro) \in Seq(Task) /\ UNCHANGED nextId
  BY RangeOfTail DEF Save, Queue, TypeOK
<1> DEFINE e == TrackedEvent(Head(micro))
<1>2. /\ e \in Event /\ e.id = Head(micro).id /\ e.visitor = Head(micro).visitor
      /\ e.session = Head(micro).session
  BY <1>1, SavedEvent
<1>3. Append(buffer, e) \in Seq(Event) /\ Append(buffer, e) # <<>>
  BY <1>2 DEF TypeOK
<1>4. \/ buffer' = Append(buffer, e) /\ UNCHANGED <<db, lost>>
      \/ buffer' = <<>> /\ db' = db \o Append(buffer, e) /\ UNCHANGED lost
      \/ buffer' = <<>> /\ UNCHANGED db /\ lost' = lost \union Ids(Append(buffer, e))
  BY DEF Save, Emptied, FlushStored, FlushFailed
<1>5. QED BY <1>1, <1>2, <1>3, <1>4

\* The timer and SIGTERM store the buffer, or lose it with the process.
LEMMA FlushEffect ==
  ASSUME TypeOK, FlushTimer \/ Terminate
  PROVE  /\ micro = <<>> /\ micro' = <<>> /\ buffer' = <<>> /\ UNCHANGED nextId
         /\ \/ db' = db \o buffer /\ UNCHANGED lost
            \/ UNCHANGED db /\ lost' = lost \union Ids(buffer)
<1>1. CASE FlushTimer
  BY <1>1 DEF FlushTimer, Macrotask, Gone, Emptied, FlushStored, FlushFailed, turn
<1>2. CASE Terminate
  BY <1>2 DEF Terminate, Macrotask, Gone, Emptied, FlushStored, FlushFailed, turn
<1>3. QED BY <1>1, <1>2

\* Exit and Kill lose whatever is still in memory.
LEMMA EndEffect ==
  ASSUME TypeOK, Exit \/ Kill
  PROVE  /\ micro' = <<>> /\ buffer' = <<>> /\ UNCHANGED <<db, nextId>>
         /\ lost' = lost \union Ids(buffer) \union Ids(micro)
<1>1. CASE Exit
  BY <1>1, IdsOfEmpty DEF Exit, Macrotask, Gone, Emptied, disk
<1>2. CASE Kill
  BY <1>2 DEF Kill, Gone, Emptied, disk
<1>3. QED BY <1>1, <1>2

(* What leaves the ledger alone. *)
LEMMA IdleEffect ==
  ASSUME Open \/ Refuse \/ RotateSalt \/ Boot \/ Tick \/ UNCHANGED vars
  PROVE  Same
BY DEF Open, Refuse, RotateSalt, Boot, Tick, vars, turn, mem, disk, Same
-----------------------------------------------------------------------------
(* A flush stays scheduled while something is buffered, and the buffer stays below *)
(* its limit, whatever the order of requests, timers, signals and failures.        *)
THEOREM BufferIsGuarded == Spec => []FlushArmed
<1>1. Init => FlushArmed
  BY IngestAssumption DEF IngestAssumption, Init, FlushArmed
<1>2. TypeOK /\ FlushArmed /\ [Next]_vars => FlushArmed'
  <2> SUFFICES ASSUME TypeOK, FlushArmed, [Next]_vars PROVE FlushArmed'
    OBVIOUS
  <2>idle. CASE UNCHANGED mem
    BY <2>idle DEF mem, FlushArmed
  <2>emptied. CASE Emptied
    BY <2>emptied, IngestAssumption DEF IngestAssumption, Emptied, FlushArmed
  <2>save. CASE Save
    <3> DEFINE pushed == Append(buffer, TrackedEvent(Head(micro)))
    <3>1. CASE Full(pushed)  BY <2>emptied, <2>save, <3>1 DEF Save
    <3>2. CASE ~Full(pushed)
      <4>1. buffer' = pushed /\ timer' = "set"  BY <2>save, <3>2 DEF Save, Scheduled
      <4>2. pushed # <<>> /\ Len(pushed) \in Nat
        <5>1. buffer \in Seq(Event) /\ micro \in Seq(Task) /\ micro # <<>>
          BY <2>save DEF Save, TypeOK
        <5>2. TrackedEvent(Head(micro)) \in Event  BY <5>1, RangeOfTail, SavedEvent
        <5>3. QED BY <5>1, <5>2
      <4>3. Len(pushed) < MaxBatch
        BY <3>2, <4>2, IngestAssumption DEF Full, IngestAssumption
      <4>4. QED BY <4>1, <4>2, <4>3 DEF FlushArmed
    <3>3. QED BY <3>1, <3>2
  <2>moves. Next => UNCHANGED mem \/ Emptied \/ Save
    BY DEF Next, Open, Refuse, Dispatch, Lookup, FlushTimer, RotateSalt, Terminate, Exit, Kill,
           Boot, Tick, Gone
  <2> QED BY <2>idle, <2>emptied, <2>save, <2>moves DEF vars, mem
<1>3. QED BY <1>1, <1>2, TypeCorrect, PTL DEF Spec

-----------------------------------------------------------------------------
(* The strengthening behind the ledger: identities are issued in order, and the    *)
(* queue, the buffer, the table and the losses never share one.                    *)
LedgerInv ==
  /\ EveryRowOnce
  /\ \A e \in InFlight \union Ids(db) \union lost : e < nextId
  /\ Ids(micro) \intersect Ids(buffer) = {}
  /\ InFlight \intersect Ids(db) = {}
  /\ InFlight \intersect lost = {}
  /\ Ids(db) \intersect lost = {}

(* Every step keeps identities apart. *)
LEMMA LedgerInvStep ==
  ASSUME TypeOK, LedgerInv, [Next]_vars
  PROVE  LedgerInv'
<1> USE DEF LedgerInv, EveryRowOnce, InFlight
<1>t. micro \in Seq(Task) /\ buffer \in Seq(Event) /\ db \in Seq(Event) /\ nextId \in Nat
  BY DEF TypeOK
<1>n. lost \subseteq Nat /\ InFlight \subseteq Nat /\ Ids(db) \subseteq Nat
  BY <1>t, IdsTyped DEF TypeOK
<1>1. CASE Same  BY <1>1 DEF Same
<1>2. ASSUME NEW c \in Clients, Dispatch(c) PROVE LedgerInv'
  <2>1. UNCHANGED <<buffer, db>> /\ nextId' = nextId + 1
    BY <1>2, DispatchEffect
  <2>2. ASSUME NEW t \in Task, micro' = Append(micro, t), t.id = nextId, UNCHANGED lost
        PROVE  LedgerInv'
    <3>1. Ids(micro') = Ids(micro) \union {nextId}  BY <1>t, <2>2, IdsOfAppend
    <3>2. nextId \notin InFlight \union Ids(db) \union lost  BY <1>t
    <3>3. Distinct(micro')  BY <1>t, <2>2, <3>2, DistinctAppend
    <3>4. \A e \in (InFlight \union Ids(db) \union lost)' : e < nextId'
      <4>1. (InFlight \union Ids(db) \union lost)'
               = InFlight \union Ids(db) \union lost \union {nextId}
        BY <2>1, <2>2, <3>1
      <4>2. \A e \in InFlight \union Ids(db) \union lost : e \in Nat /\ e < nextId
        BY <1>n
      <4>3. \A e \in InFlight \union Ids(db) \union lost : e < nextId + 1
        BY <1>t, <4>2
      <4>4. QED BY <1>t, <2>1, <4>1, <4>3
    <3>5. QED BY <2>1, <2>2, <3>1, <3>2, <3>3, <3>4
  <2>3. CASE UNCHANGED micro /\ lost' = lost \union {nextId}
    <3>1. nextId \notin InFlight \union Ids(db) \union lost  BY <1>t
    <3>2. \A e \in (InFlight \union Ids(db) \union lost)' : e < nextId'
      <4>1. (InFlight \union Ids(db) \union lost)'
               = InFlight \union Ids(db) \union lost \union {nextId}
        BY <2>1, <2>3
      <4>2. \A e \in InFlight \union Ids(db) \union lost : e \in Nat /\ e < nextId
        BY <1>n
      <4>3. \A e \in InFlight \union Ids(db) \union lost : e < nextId + 1
        BY <1>t, <4>2
      <4>4. QED BY <1>t, <2>1, <4>1, <4>3
    <3>3. QED BY <2>1, <2>3, <3>1, <3>2
  <2>4. QED BY <1>2, <2>2, <2>3, DispatchEffect
<1>3. CASE Lookup
  <2> DEFINE t == Head(micro)
  <2>1. /\ Ids(micro) = Ids(Tail(micro)) \union {t.id} /\ Tail(micro) \in Seq(Task)
        /\ Distinct(Tail(micro)) /\ t.id \notin Ids(Tail(micro))
        /\ UNCHANGED <<buffer, db, nextId>>
    BY <1>t, <1>3, LookupResult, IdsOfTail, DistinctTail DEF Lookup, mem, disk
  <2>2. ASSUME NEW u \in Task, Queue(Append(Tail(micro), u)), u.id = t.id, UNCHANGED lost
        PROVE  LedgerInv'
    <3>1. micro' = Append(Tail(micro), u)  BY <2>2 DEF Queue
    <3>2. Ids(micro') = Ids(micro)
      <4>1. Ids(Append(Tail(micro), u)) = Ids(Tail(micro)) \union {u.id}
        BY <2>1, IdsOfTasks
      <4>2. QED BY <2>1, <2>2, <3>1, <4>1
    <3>3. Distinct(micro')  BY <2>1, <2>2, <3>1, DistinctAppend
    <3>4. QED BY <2>1, <2>2, <3>2, <3>3
  <2>3. CASE lost' = lost \union {t.id} /\ Queue(Tail(micro))
    <3>1. micro' = Tail(micro)  BY <2>3 DEF Queue
    <3>2. QED BY <2>1, <2>3, <3>1
  <2>4. QED BY <1>3, <2>2, <2>3, LookupResult
<1>4. CASE Save
  <2>1. PICK e \in Event :
              /\ e.id = Head(micro).id
              /\ Append(buffer, e) \in Seq(Event) /\ Append(buffer, e) # <<>>
              /\ \/ buffer' = Append(buffer, e) /\ UNCHANGED <<db, lost>>
                 \/ buffer' = <<>> /\ db' = db \o Append(buffer, e) /\ UNCHANGED lost
                 \/ buffer' = <<>> /\ UNCHANGED db /\ lost' = lost \union Ids(Append(buffer, e))
    BY <1>4, SaveEffect
  <2> DEFINE pushed == Append(buffer, e)
  <2>2. /\ Ids(micro) = Ids(micro') \union {e.id} /\ e.id \notin Ids(micro')
        /\ Distinct(micro') /\ UNCHANGED nextId
    BY <1>t, <1>4, <2>1, SaveEffect, IdsOfTail, DistinctTail
  <2>3. Ids(pushed) = Ids(buffer) \union {e.id} /\ Distinct(pushed)
    BY <1>t, <2>1, <2>2, IdsOfAppend, DistinctAppend
  <2>4. Ids(<<>>) = {} /\ Distinct(<<>>)  BY IdsOfEmpty, DistinctEmpty
  <2>5. CASE buffer' = pushed /\ UNCHANGED <<db, lost>>
    BY <2>2, <2>3, <2>5
  <2>6. CASE buffer' = <<>> /\ db' = db \o pushed /\ UNCHANGED lost
    <3>1. Ids(db') = Ids(db) \union Ids(buffer) \union {e.id}
      <4>1. Ids(db \o pushed) = Ids(db) \union Ids(pushed)  BY <1>t, <2>1, IdsOfRows
      <4>2. QED BY <2>3, <2>6, <4>1
    <3>2. Distinct(db')  BY <1>t, <2>1, <2>2, <2>3, <2>6, DistinctConcat
    <3>3. QED BY <2>2, <2>4, <2>6, <3>1, <3>2
  <2>7. CASE buffer' = <<>> /\ UNCHANGED db /\ lost' = lost \union Ids(pushed)
    BY <2>2, <2>3, <2>4, <2>7
  <2>8. QED BY <2>1, <2>5, <2>6, <2>7
<1>5. CASE FlushTimer \/ Terminate
  <2>1. Ids(<<>>) = {} /\ Distinct(<<>>)  BY IdsOfEmpty, DistinctEmpty
  <2>2. CASE db' = db \o buffer /\ UNCHANGED lost
    <3>1. Ids(db') = Ids(db) \union Ids(buffer)  BY <1>t, <2>2, IdsOfConcat
    <3>2. Distinct(db')  BY <1>t, <2>2, DistinctConcat
    <3>3. QED BY <1>5, <2>1, <2>2, <3>1, <3>2, FlushEffect
  <2>3. CASE UNCHANGED db /\ lost' = lost \union Ids(buffer)
    BY <1>5, <2>1, <2>3, FlushEffect
  <2>4. QED BY <1>5, <2>2, <2>3, FlushEffect
<1>6. CASE Exit \/ Kill
  <2>1. Ids(<<>>) = {} /\ Distinct(<<>>)  BY IdsOfEmpty, DistinctEmpty
  <2>2. QED BY <1>6, <2>1, EndEffect
<1>7. QED BY <1>1, <1>2, <1>3, <1>4, <1>5, <1>6, IdleEffect DEF Next

(* The identities of events stay apart: in flight, stored and lost are disjoint,   *)
(* and new identities are unused.                                                  *)
THEOREM LedgerInvariant == Spec => []LedgerInv
<1>1. Init => LedgerInv
  BY IdsOfEmpty, DistinctEmpty DEF Init, LedgerInv, EveryRowOnce, InFlight
<1>2. TypeOK /\ LedgerInv /\ [Next]_vars => LedgerInv'
  BY LedgerInvStep
<1>3. QED BY <1>1, <1>2, TypeCorrect, PTL DEF Spec

(* No event becomes two rows: whatever fails, crashes or restarts, neither the     *)
(* table nor the buffer nor the queue ever holds an event twice.                   *)
THEOREM RowsAreUnique == Spec => []EveryRowOnce
<1>1. LedgerInv => EveryRowOnce  BY DEF LedgerInv
<1>2. QED BY <1>1, LedgerInvariant, PTL

(* Every event taken in has one fate: it is in flight, stored or lost, never two.   *)
THEOREM EventsHaveOneFate == Spec => []Ledger!OneFate
<1>1. LedgerInv => Ledger!OneFate  BY DEF LedgerInv, Ledger!OneFate
<1>2. QED BY <1>1, LedgerInvariant, PTL

(* Ingestion implements the ledger: each step takes an event in, refuses it,       *)
(* stores a batch, loses a batch, or leaves the ledger alone.                      *)
THEOREM IngestImplementsLedger == Spec => LedgerSpec
<1> USE DEF InFlight, Ledger!ledger
<1>1. Init => Ledger!Init
  BY IdsOfEmpty DEF Init, Ledger!Init
<1>2. TypeOK /\ LedgerInv /\ [Next]_vars => [Ledger!Next]_(Ledger!ledger)
  <2> SUFFICES ASSUME TypeOK, LedgerInv, [Next]_vars
               PROVE  Ledger!Next \/ UNCHANGED Ledger!ledger
    OBVIOUS
  <2>t. /\ micro \in Seq(Task) /\ buffer \in Seq(Event) /\ db \in Seq(Event)
        /\ nextId \in Nat \ {0}
    BY DEF TypeOK
  <2>e. Ids(<<>>) = {}  BY IdsOfEmpty
  <2>b. ASSUME NEW batch \in SUBSET InFlight, Ledger!Store(batch) \/ Ledger!Lose(batch)
        PROVE  Ledger!Next
    BY <2>b DEF Ledger!Next
  <2>same. CASE Same  BY <2>same DEF Same
  <2>dispatch. ASSUME NEW c \in Clients, Dispatch(c) PROVE Ledger!Next
    <3>1. nextId \in 1..MaxEvents
      BY <2>t, <2>dispatch, IngestAssumption DEF Dispatch, IngestAssumption
    <3>2. Ledger!New(nextId)  BY <2>t DEF Ledger!New, LedgerInv
    <3>3. ASSUME NEW t \in Task, micro' = Append(micro, t), t.id = nextId, UNCHANGED lost
          PROVE  Ledger!Take(nextId)
      <4>1. Ids(micro') = Ids(micro) \union {nextId}  BY <2>t, <3>3, IdsOfAppend
      <4>2. QED BY <2>dispatch, <3>2, <3>3, <4>1, DispatchEffect DEF Ledger!Take
    <3>4. CASE UNCHANGED micro /\ lost' = lost \union {nextId}
      <4>1. Ledger!Drop(nextId)  BY <2>dispatch, <3>2, <3>4, DispatchEffect DEF Ledger!Drop
      <4>2. QED BY <3>1, <4>1 DEF Ledger!Next
    <3>5. QED BY <2>dispatch, <3>1, <3>3, <3>4, DispatchEffect DEF Ledger!Next
  <2>lookup. CASE Lookup
    <3> DEFINE t == Head(micro)
    <3>1. /\ Ids(micro) = Ids(Tail(micro)) \union {t.id} /\ Tail(micro) \in Seq(Task)
          /\ t.id \notin Ids(Tail(micro))
          /\ UNCHANGED <<buffer, db, nextId>>
      BY <2>t, <2>lookup, LookupResult, IdsOfTail, DistinctTail
         DEF Lookup, mem, disk, LedgerInv, EveryRowOnce
    <3>2. ASSUME NEW u \in Task, Queue(Append(Tail(micro), u)), u.id = t.id, UNCHANGED lost
          PROVE  UNCHANGED Ledger!ledger
      <4>1. Ids(Append(Tail(micro), u)) = Ids(Tail(micro)) \union {u.id}
        BY <3>1, IdsOfTasks
      <4>2. QED BY <3>1, <3>2, <4>1 DEF Queue
    <3>3. ASSUME lost' = lost \union {t.id}, Queue(Tail(micro))
          PROVE  Ledger!Next
      <4>1. t.id \in InFlight /\ t.id \notin Ids(buffer)  BY <3>1 DEF LedgerInv
      <4>2. Ledger!Lose({t.id})  BY <3>1, <3>3, <4>1 DEF Queue, Ledger!Lose
      <4>3. QED BY <2>b, <4>1, <4>2
    <3>4. QED BY <2>lookup, <3>2, <3>3, LookupResult
  <2>save. CASE Save
    <3>1. PICK e \in Event :
                /\ e.id = Head(micro).id
                /\ Append(buffer, e) \in Seq(Event) /\ Append(buffer, e) # <<>>
                /\ \/ buffer' = Append(buffer, e) /\ UNCHANGED <<db, lost>>
                   \/ buffer' = <<>> /\ db' = db \o Append(buffer, e) /\ UNCHANGED lost
                   \/ buffer' = <<>> /\ UNCHANGED db /\ lost' = lost \union Ids(Append(buffer, e))
      BY <2>save, SaveEffect
    <3> DEFINE pushed == Append(buffer, e)
    <3>2. Ids(micro) = Ids(micro') \union {e.id} /\ e.id \notin Ids(micro')
      BY <2>t, <2>save, <3>1, SaveEffect, IdsOfTail, DistinctTail DEF LedgerInv, EveryRowOnce
    <3>3. Ids(pushed) = Ids(buffer) \union {e.id}
      BY <2>t, <3>1, IdsOfAppend
    <3>4. /\ Ids(pushed) \in SUBSET InFlight /\ Ids(pushed) # {}
          /\ InFlight \ Ids(pushed) = Ids(micro')
      BY <3>2, <3>3 DEF LedgerInv
    <3>5. CASE buffer' = pushed /\ UNCHANGED <<db, lost>>
      BY <3>2, <3>3, <3>5
    <3>6. CASE buffer' = <<>> /\ db' = db \o pushed /\ UNCHANGED lost
      <4>1. Ids(db \o pushed) = Ids(db) \union Ids(pushed)  BY <2>t, <3>1, IdsOfRows
      <4>2. Ledger!Store(Ids(pushed))  BY <2>e, <3>4, <3>6, <4>1 DEF Ledger!Store
      <4>3. QED BY <2>b, <3>4, <4>2
    <3>7. CASE buffer' = <<>> /\ UNCHANGED db /\ lost' = lost \union Ids(pushed)
      <4>1. Ledger!Lose(Ids(pushed))  BY <2>e, <3>4, <3>7 DEF Ledger!Lose
      <4>2. QED BY <2>b, <3>4, <4>1
    <3>8. QED BY <3>1, <3>5, <3>6, <3>7
  <2>flush. CASE FlushTimer \/ Terminate
    <3>1. micro = <<>> /\ micro' = <<>> /\ buffer' = <<>>  BY <2>flush, FlushEffect
    <3>2. InFlight = Ids(buffer) /\ InFlight' = {}  BY <2>e, <3>1
    <3>3. Ids(db \o buffer) = Ids(db) \union Ids(buffer)  BY <2>t, IdsOfConcat
    <3>4. CASE Ids(buffer) = {}
      BY <2>flush, <3>2, <3>3, <3>4, FlushEffect
    <3>5. CASE Ids(buffer) # {}
      <4>1. Ledger!Store(InFlight) \/ Ledger!Lose(InFlight)
        BY <2>flush, <3>2, <3>3, <3>5, FlushEffect DEF Ledger!Store, Ledger!Lose
      <4>2. QED BY <2>b, <4>1
    <3>6. QED BY <3>4, <3>5
  <2>stop. CASE Exit \/ Kill
    <3>1. InFlight' = {} /\ UNCHANGED db /\ lost' = lost \union InFlight
      BY <2>e, <2>stop, EndEffect
    <3>2. CASE InFlight = {}  BY <3>1, <3>2
    <3>3. CASE InFlight # {}
      <4>1. Ledger!Lose(InFlight)  BY <3>1, <3>3 DEF Ledger!Lose
      <4>2. QED BY <2>b, <4>1
    <3>4. QED BY <3>2, <3>3
  <2> QED BY <2>same, <2>dispatch, <2>lookup, <2>save, <2>flush, <2>stop, IdleEffect DEF Next
<1>3. QED BY <1>1, <1>2, TypeCorrect, LedgerInvariant, PTL DEF Spec, LedgerSpec, Ledger!Spec
-----------------------------------------------------------------------------
(* The strengthening behind one visitor per session.  A session is claimed by the  *)
(* rows and the tasks that carry it; an unresolved task's identity is the session  *)
(* it may still open, so nobody has claimed it.                                    *)
Claims == {<<e.session, e.visitor>> : e \in Range(db) \union Range(buffer)}
            \union {<<t.session, t.visitor>> : t \in {u \in Range(micro) : u.stage = "save"}}
Unresolved == {t.id : t \in {u \in Range(micro) : u.stage = "lookup"}}

SessionInv ==
  /\ \A p, q \in Claims : p[1] = q[1] => p[2] = q[2]
  /\ \A p \in Claims : p[1] < nextId /\ p[1] \notin Unresolved

\* Fewer claims and fewer unresolved tasks keep the invariant.
LEMMA FewerClaims ==
  ASSUME SessionInv, Claims' \subseteq Claims, Unresolved' \subseteq Unresolved, UNCHANGED nextId
  PROVE  SessionInv'
BY DEF SessionInv

(* Claims on sessions are typed. *)
LEMMA ClaimsTyped ==
  ASSUME TypeOK
  PROVE  Claims \subseteq Nat \X (Nat \X Clients)
<1>1. Range(db) \subseteq Event /\ Range(buffer) \subseteq Event /\ Range(micro) \subseteq Task
  <2>1. \A i \in DOMAIN db : db[i] \in Event  BY DEF TypeOK
  <2>2. \A i \in DOMAIN buffer : buffer[i] \in Event  BY DEF TypeOK
  <2>3. \A i \in DOMAIN micro : micro[i] \in Task  BY DEF TypeOK
  <2>4. QED BY <2>1, <2>2, <2>3 DEF Range
<1>2. \A e \in Event : <<e.session, e.visitor>> \in Nat \X (Nat \X Clients)
  BY DEF Event
<1>3. \A t \in Task : <<t.session, t.visitor>> \in Nat \X (Nat \X Clients)
  BY DEF Task
<1>4. QED BY <1>1, <1>2, <1>3 DEF Claims

(* No step lets two visitors claim one session. *)
LEMMA SessionInvStep ==
  ASSUME TypeOK, LedgerInv, SessionInv, [Next]_vars
  PROVE  SessionInv'
<1>t. /\ micro \in Seq(Task) /\ buffer \in Seq(Event) /\ db \in Seq(Event) /\ nextId \in Nat
      /\ Distinct(micro) /\ \A t \in Range(micro) : t.id < nextId
  BY DEF TypeOK, LedgerInv, EveryRowOnce, InFlight, Ids
<1>c. \A p \in Claims : p[1] \in Nat
  BY ClaimsTyped
<1>e. Range(<<>>) = {}
  BY DEF Range
<1>1. CASE Same  BY <1>1 DEF Same, SessionInv, Claims, Unresolved
<1>2. ASSUME NEW c \in Clients, Dispatch(c) PROVE SessionInv'
  <2>1. UNCHANGED <<buffer, db>> /\ nextId' = nextId + 1
    BY <1>2, DispatchEffect
  <2>2. Range(micro') = Range(micro) \/ \E t \in Task :
          Range(micro') = Range(micro) \union {t} /\ t.id = nextId /\ t.stage = "lookup"
    <3>1. \A t \in Task : Range(Append(micro, t)) = Range(micro) \union {t}
      BY <1>t, RangeOfAppend
    <3>2. QED BY <1>2, <3>1, DispatchEffect
  <2>3. Claims' = Claims /\ Unresolved' \subseteq Unresolved \union {nextId}
    BY <2>1, <2>2 DEF Claims, Unresolved
  <2>4. \A p \in Claims : p[1] < nextId + 1 /\ p[1] # nextId
    BY <1>t, <1>c DEF SessionInv
  <2>5. QED BY <2>1, <2>3, <2>4 DEF SessionInv
<1>3. CASE Lookup
  <2> DEFINE t == Head(micro)
  <2>1. /\ Range(micro) = {t} \union Range(Tail(micro)) /\ Tail(micro) \in Seq(Task)
        /\ t.stage = "lookup" /\ t.id \notin Ids(Tail(micro))
        /\ UNCHANGED <<buffer, db, nextId>>
    BY <1>t, <1>3, LookupResult, RangeOfTail, DistinctTail DEF Lookup, mem, disk
  <2>2. t.id \in Unresolved /\ t.id < nextId
    BY <1>t, <2>1 DEF Unresolved
  <2>3. ASSUME NEW u \in Task, Queue(Append(Tail(micro), u)), u.id = t.id, u.visitor = t.visitor,
               u.stage = "save",
               \/ u.session = u.id
               \/ \E e \in Range(db) \union Range(buffer) :
                    u.session = e.session /\ u.visitor = e.visitor
        PROVE  SessionInv'
    <3>1. Range(micro') = Range(Tail(micro)) \union {u}
      <4>1. \A q \in Seq(Task) : Range(Append(q, u)) = Range(q) \union {u}
        BY RangeOfAppend
      <4>2. Range(Append(Tail(micro), u)) = Range(Tail(micro)) \union {u}
        BY <2>1, <4>1
      <4>3. QED BY <2>3, <4>2 DEF Queue
    <3>2. Claims' = Claims \union {<<u.session, u.visitor>>}
      BY <2>1, <2>3, <3>1 DEF Claims
    <3>3. Unresolved' = Unresolved \ {t.id}
      BY <2>1, <2>3, <3>1 DEF Unresolved, Ids
    <3>4. CASE u.session = u.id
      <4>1. \A p \in Claims : p[1] # u.session  BY <2>2, <2>3, <3>4 DEF SessionInv
      <4>2. QED BY <2>1, <2>2, <2>3, <3>2, <3>3, <3>4, <4>1 DEF SessionInv
    <3>5. CASE \E e \in Range(db) \union Range(buffer) :
                 u.session = e.session /\ u.visitor = e.visitor
      <4>1. <<u.session, u.visitor>> \in Claims  BY <3>5 DEF Claims
      <4>2. QED BY <2>1, <3>2, <3>3, <4>1, FewerClaims
    <3>6. QED BY <2>3, <3>4, <3>5
  <2>4. CASE Queue(Tail(micro))
    <3>1. Claims' \subseteq Claims /\ Unresolved' \subseteq Unresolved
      BY <2>1, <2>4 DEF Queue, Claims, Unresolved
    <3>2. QED BY <2>1, <3>1, FewerClaims
  <2>5. QED BY <1>3, <2>3, <2>4, LookupResult
<1>4. CASE Save
  <2>1. PICK e \in Event :
          /\ e.visitor = Head(micro).visitor /\ e.session = Head(micro).session
          /\ Append(buffer, e) \in Seq(Event)
          /\ \/ buffer' = Append(buffer, e) /\ UNCHANGED <<db, lost>>
             \/ buffer' = <<>> /\ db' = db \o Append(buffer, e) /\ UNCHANGED lost
             \/ buffer' = <<>> /\ UNCHANGED db /\ lost' = lost \union Ids(Append(buffer, e))
    BY <1>4, SaveEffect
  <2>2. /\ Range(micro) = {Head(micro)} \union Range(micro') /\ Head(micro).stage = "save"
        /\ UNCHANGED nextId
    BY <1>t, <1>4, SaveEffect, RangeOfTail
  <2>3. /\ Range(Append(buffer, e)) = Range(buffer) \union {e}
        /\ Range(db \o Append(buffer, e)) = Range(db) \union Range(buffer) \union {e}
    <3>1. Range(Append(buffer, e)) = Range(buffer) \union {e}  BY <1>t, RangeOfAppend
    <3>2. Range(db \o Append(buffer, e)) = Range(db) \union Range(Append(buffer, e))
      <4>1. Append(buffer, e) \in Seq(Event)  BY <2>1
      <4>2. QED BY <1>t, <4>1, RangeOfConcat, ZenonT(60)
    <3>3. QED BY <3>1, <3>2
  <2>4. Range(db') \union Range(buffer') \subseteq Range(db) \union Range(buffer) \union {e}
    BY <1>e, <2>1, <2>3
  <2>5. <<e.session, e.visitor>> \in Claims  BY <2>1, <2>2 DEF Claims
  <2>6. Claims' \subseteq Claims /\ Unresolved' \subseteq Unresolved
    BY <2>2, <2>4, <2>5 DEF Claims, Unresolved
  <2>7. QED BY <2>2, <2>6, FewerClaims
<1>5. CASE FlushTimer \/ Terminate
  <2>1. Range(db \o buffer) = Range(db) \union Range(buffer)  BY <1>t, RangeOfConcat
  <2>2. micro' = <<>> /\ UNCHANGED nextId
        /\ Range(db') \union Range(buffer') \subseteq Range(db) \union Range(buffer)
    BY <1>5, <1>e, <2>1, FlushEffect
  <2>3. Claims' \subseteq Claims /\ Unresolved' \subseteq Unresolved
    BY <1>e, <2>2 DEF Claims, Unresolved
  <2>4. QED BY <2>2, <2>3, FewerClaims
<1>6. CASE Exit \/ Kill
  <2>1. Claims' \subseteq Claims /\ Unresolved' \subseteq Unresolved /\ UNCHANGED nextId
    BY <1>6, <1>e, EndEffect DEF Claims, Unresolved
  <2>2. QED BY <2>1, FewerClaims
<1>7. QED BY <1>1, <1>2, <1>3, <1>4, <1>5, <1>6, IdleEffect DEF Next

(* No session id that a continuation, the buffer or the table carries belongs to two *)
(* visitors, and none that a continuation may still open is taken.                   *)
THEOREM SessionInvariant == Spec => []SessionInv
<1>1. Init => SessionInv
  BY DEF Init, SessionInv, Claims, Unresolved, Range
<1>2. TypeOK /\ LedgerInv /\ SessionInv /\ [Next]_vars => SessionInv'
  BY SessionInvStep
<1> QED BY <1>1, <1>2, TypeCorrect, LedgerInvariant, PTL DEF Spec

(* No session id ever joins two visitor identities, however requests interleave    *)
(* within a turn and whatever flushes, failures and rotations come between them:   *)
(* a rotation of the salt closes every session.                                    *)
THEOREM SessionsHaveOneVisitor == Spec => []SessionHasOneVisitor
<1>1. TypeOK /\ SessionInv => SessionHasOneVisitor
  <2> SUFFICES ASSUME TypeOK, SessionInv, NEW i \in DOMAIN Log, NEW j \in DOMAIN Log,
                      Log[i].session = Log[j].session
               PROVE  Log[i].visitor = Log[j].visitor
    BY DEF SessionHasOneVisitor
  <2>1. Range(Log) = Range(db) \union Range(buffer)
    BY RangeOfConcat DEF Log, TypeOK
  <2>2. Log[i] \in Range(Log) /\ Log[j] \in Range(Log)
    BY DEF Range
  <2>3. /\ <<Log[i].session, Log[i].visitor>> \in Claims
        /\ <<Log[j].session, Log[j].visitor>> \in Claims
    BY <2>1, <2>2 DEF Claims
  <2>4. QED BY <2>3 DEF SessionInv
<1> QED BY <1>1, TypeCorrect, SessionInvariant, PTL

-----------------------------------------------------------------------------
(* A rotation is a macrotask: it waits until no continuation is left, so those that *)
(* are hold the salt that is current.                                               *)
SaltInv == \A t \in Range(micro) : t.visitor[1] = salt /\ salt # 0

\* A step that leaves the salt alone and adds no continuation keeps this.
LEMMA SaltUnread ==
  ASSUME SaltInv, UNCHANGED salt,
         \A t \in Range(micro') : \E u \in Range(micro) : t.visitor = u.visitor
  PROVE  SaltInv'
BY DEF SaltInv

\* What is left of the queue, and a continuation that replaces the first, hold its salt.
LEMMA SaltOfRest ==
  ASSUME TypeOK, Lookup \/ Save
  PROVE  \A t \in Range(micro') : \E u \in Range(micro) : t.visitor = u.visitor
<1>1. /\ micro # <<>> /\ Tail(micro) \in Seq(Task)
      /\ Range(micro) = {Head(micro)} \union Range(Tail(micro))
  <2>1. micro # <<>>
    BY DEF Lookup, Save
  <2> QED BY <2>1, RangeOfTail DEF TypeOK
<1>2. CASE Save
  BY <1>1, <1>2, SaveEffect
<1>3. CASE Lookup
  <2>1. CASE Queue(Tail(micro))
    BY <1>1, <2>1 DEF Queue
  <2>2. ASSUME NEW u \in Task, Queue(Append(Tail(micro), u)), u.visitor = Head(micro).visitor
        PROVE  \A t \in Range(micro') : \E v \in Range(micro) : t.visitor = v.visitor
    <3>1. Range(Append(Tail(micro), u)) = Range(Tail(micro)) \union {u}
      <4>1. \A q \in Seq(Task) : Range(Append(q, u)) = Range(q) \union {u}
        BY RangeOfAppend
      <4> QED BY <1>1, <4>1
    <3> QED BY <1>1, <2>2, <3>1 DEF Queue
  <2> QED BY <1>3, <2>1, <2>2, LookupResult
<1> QED BY <1>2, <1>3

\* Every step keeps the salt of those under way.
LEMMA SaltInvStep ==
  ASSUME TypeOK, SaltInv, [Next]_vars
  PROVE  SaltInv'
<1>e. Range(<<>>) = {}
  BY DEF Range
<1>1. CASE Open \/ Refuse \/ Boot \/ Tick \/ UNCHANGED vars
  BY <1>1, SaltUnread DEF Open, Refuse, Boot, Tick, vars, turn, disk
<1>2. CASE Lookup \/ Save
  <2>1. UNCHANGED salt
    BY <1>2 DEF Lookup, Save, disk
  <2> QED BY <1>2, <2>1, SaltOfRest, SaltUnread
<1>3. CASE FlushTimer \/ Terminate \/ Exit \/ Kill
  <2>1. micro' = <<>>
    BY <1>3, FlushEffect, EndEffect
  <2> QED BY <1>e, <2>1 DEF SaltInv
<1>4. CASE RotateSalt
  BY <1>4, <1>e DEF RotateSalt, Macrotask, turn, SaltInv
<1>5. ASSUME NEW c \in Clients, Dispatch(c) PROVE SaltInv'
  <2>1. CASE UNCHANGED <<turn, salt>>
    BY <2>1, SaltUnread DEF turn
  <2> DEFINE t == [id |-> nextId, visitor |-> <<salt', c>>, session |-> 0, at |-> 0,
                   stage |-> "lookup"]
  <2>2. CASE salt' = (IF salt = 0 THEN 1 ELSE salt) /\ micro' = Append(micro, t)
    <3>1. t \in Task /\ t.visitor[1] = salt' /\ salt' # 0
      BY <1>5, <2>2 DEF Dispatch, Task, TypeOK
    <3>2. Range(micro') = Range(micro) \union {t}
      <4>1. \A u \in Task : Range(Append(micro, u)) = Range(micro) \union {u}
        BY RangeOfAppend DEF TypeOK
      <4> QED BY <2>2, <3>1, <4>1
    <3>3. Range(micro) # {} => salt' = salt
      BY <2>2 DEF SaltInv
    <3> QED BY <3>1, <3>2, <3>3 DEF SaltInv
  <2> QED BY <1>5, <2>1, <2>2 DEF Dispatch
<1> QED BY <1>1, <1>2, <1>3, <1>4, <1>5 DEF Next

\* Only a continuation adds to what has been recorded, and only its own event.
LEMMA RecordedNow ==
  ASSUME TypeOK, [Next]_vars
  PROVE  \/ Range(Log') \subseteq Range(Log)
         \/ Save /\ \E e \in Event : /\ e.visitor = Head(micro).visitor
                                     /\ Range(Log') \subseteq Range(Log) \union {e}
<1>t. buffer \in Seq(Event) /\ db \in Seq(Event) /\ buffer' \in Seq(Event) /\ db' \in Seq(Event)
  BY TypeOKStep DEF TypeOK
<1>e. Range(<<>>) = {}
  BY DEF Range
<1>l. /\ Range(Log) = Range(db) \union Range(buffer)
      /\ Range(Log') = Range(db') \union Range(buffer')
  <2>1. Range(db \o buffer) = Range(db) \union Range(buffer)
    BY <1>t, RangeOfConcat
  <2>2. Range(db' \o buffer') = Range(db') \union Range(buffer')
    BY <1>t, RangeOfConcat
  <2> QED BY <2>1, <2>2 DEF Log
<1>1. CASE Same
  BY <1>1, <1>l DEF Same
<1>2. CASE Lookup \/ \E c \in Clients : Dispatch(c)
  <2>1. UNCHANGED <<buffer, db>>
    BY <1>2, DispatchEffect DEF Lookup, mem, disk
  <2> QED BY <1>l, <2>1
<1>3. CASE FlushTimer \/ Terminate
  <2>1. Range(db \o buffer) = Range(db) \union Range(buffer)
    BY <1>t, RangeOfConcat
  <2> QED BY <1>3, <1>e, <1>l, <2>1, FlushEffect
<1>4. CASE Exit \/ Kill
  BY <1>4, <1>e, <1>l, EndEffect
<1>5. CASE Save
  <2>1. PICK e \in Event :
          /\ e.visitor = Head(micro).visitor
          /\ Append(buffer, e) \in Seq(Event)
          /\ \/ buffer' = Append(buffer, e) /\ UNCHANGED db
             \/ buffer' = <<>> /\ db' = db \o Append(buffer, e)
             \/ buffer' = <<>> /\ UNCHANGED db
    BY <1>5, SaveEffect
  <2>2. Range(Append(buffer, e)) = Range(buffer) \union {e}
    BY <1>t, RangeOfAppend
  <2>3. Range(db \o Append(buffer, e)) = Range(db) \union Range(buffer) \union {e}
    <3>1. Append(buffer, e) \in Seq(Event)
      BY <2>1
    <3>2. Range(db \o Append(buffer, e)) = Range(db) \union Range(Append(buffer, e))
      BY <1>t, <3>1, RangeOfConcat, ZenonT(60)
    <3> QED BY <2>2, <3>2
  <2>4. Range(Log') \subseteq Range(Log) \union {e}
    BY <1>e, <1>l, <2>1, <2>2, <2>3
  <2> QED BY <1>5, <2>1, <2>4
<1> QED BY <1>1, <1>2, <1>3, <1>4, <1>5, IdleEffect DEF Next

(* No event is recorded under a salt that has been replaced meanwhile: a rotation    *)
(* never comes between the two awaits of execute() and the end of it, for any number *)
(* of requests in a turn.                                                            *)
THEOREM SaltsAreCurrent == Spec => RecordsUseCurrentSalt
<1>1. Init => SaltInv
  BY DEF Init, SaltInv, Range
<1>2. ASSUME TypeOK, SaltInv, [Next]_vars
      PROVE  [\A i \in DOMAIN Log' :
                Log'[i].id \notin Ids(Log) => Log'[i].visitor[1] = salt']_vars
  <2>1. SUFFICES ASSUME NEW i \in DOMAIN Log', Log'[i].id \notin Ids(Log)
                 PROVE  Log'[i].visitor[1] = salt'
    OBVIOUS
  <2>2. Log'[i] \in Range(Log') /\ Log'[i] \notin Range(Log)
    BY <2>1 DEF Range, Ids
  <2>3. Save /\ Log'[i].visitor = Head(micro).visitor
    BY <1>2, <2>2, RecordedNow
  <2>4. Head(micro) \in Range(micro) /\ UNCHANGED salt
    <3>1. micro # <<>> /\ UNCHANGED salt
      BY <2>3 DEF Save
    <3> QED BY <1>2, <3>1, RangeOfTail DEF TypeOK
  <2> QED BY <1>2, <2>3, <2>4 DEF SaltInv
<1> QED BY <1>1, <1>2, SaltInvStep, TypeCorrect, PTL DEF Spec, RecordsUseCurrentSalt

-----------------------------------------------------------------------------
(* Losses.  What has been paid for is every failure, kill and shutdown, except the   *)
(* shutdown that is under way: its own loss comes when the process exits.            *)
Batch == MaxBatch + TurnSize - 1
Paid == faults + kills + signals - (IF proc = "draining" THEN 1 ELSE 0)

LossInv ==
  /\ Len(micro) + slots <= TurnSize
  /\ proc = "draining" => signals >= 1
  /\ IsFiniteSet(lost) /\ Cardinality(lost) <= Paid * Batch

\* What has been paid for, before and after a step.
LEMMA PaidIs ==
  /\ proc = "draining" => Paid = faults + kills + signals - 1
  /\ proc # "draining" /\ faults \in Nat /\ kills \in Nat /\ signals \in Nat
       => Paid = faults + kills + signals
  /\ proc' = "draining" => Paid' = faults' + kills' + signals' - 1
  /\ proc' # "draining" /\ faults' \in Nat /\ kills' \in Nat /\ signals' \in Nat
       => Paid' = faults' + kills' + signals'
BY DEF Paid

\* A longer list of failures pays for more, and one more pays for one more batch.
LEMMA Multiples ==
  ASSUME NEW a \in Nat, NEW b \in Nat, NEW c \in Nat
  PROVE  /\ a * c \in Nat
         /\ (a + 1) * c = a * c + c
         /\ a <= b => a * c <= b * c
<1>1. (a + 1) * c = a * c + c /\ a * c \in Nat
  OBVIOUS
<1>2. ASSUME a <= b PROVE a * c <= b * c
  <2>1. PICK d \in Nat : b = a + d
    <3>1. b - a \in Nat /\ b = a + (b - a)
      BY <1>2
    <3> QED BY <3>1
  <2>2. b * c = a * c + d * c /\ d * c >= 0 /\ a * c \in Int /\ d * c \in Int
    BY <2>1
  <2> QED BY <2>2
<1> QED BY <1>1, <1>2

\* A sequence has at most as many identities as elements.
LEMMA IdsAreFew ==
  ASSUME NEW S, NEW s \in Seq(S)
  PROVE  IsFiniteSet(Ids(s)) /\ Cardinality(Ids(s)) \in Nat /\ Cardinality(Ids(s)) <= Len(s)
<1> DEFINE f == [i \in 1..Len(s) |-> s[i].id]
<1>1. Len(s) \in Nat /\ DOMAIN s = 1..Len(s)
  OBVIOUS
<1>2. f \in Surjection(1..Len(s), Ids(s))
  BY <1>1 DEF Surjection, Ids, Range
<1>3. IsFiniteSet(1..Len(s)) /\ Cardinality(1..Len(s)) = Len(s)
  BY <1>1, FS_Interval, SMTT(30)
<1>4. IsFiniteSet(Ids(s)) /\ Cardinality(Ids(s)) <= Cardinality(1..Len(s))
  BY <1>2, <1>3, FS_Surjection
<1> QED BY <1>3, <1>4, FS_CardinalityType

\* Two sets of losses together are at most the sum.
LEMMA LossesAdd ==
  ASSUME NEW S, NEW T, IsFiniteSet(S), IsFiniteSet(T)
  PROVE  /\ IsFiniteSet(S \union T) /\ Cardinality(S \union T) \in Nat
         /\ Cardinality(S \union T) <= Cardinality(S) + Cardinality(T)
<1>1. /\ IsFiniteSet(S \union T)
      /\ Cardinality(S \union T) = Cardinality(S) + Cardinality(T) - Cardinality(S \cap T)
  BY FS_Union
<1>2. /\ Cardinality(S) \in Nat /\ Cardinality(T) \in Nat /\ Cardinality(S \cap T) \in Nat
      /\ Cardinality(S \union T) \in Nat
  BY <1>1, FS_CardinalityType, FS_Intersection
<1> QED BY <1>1, <1>2

\* A batch lost for one more failure, and nothing lost, stay within what is paid for.
LEMMA LossPaid ==
  ASSUME TypeOK, LossInv, TypeOK', proc' = "draining" => signals' >= 1,
         NEW L, IsFiniteSet(L), lost' = lost \union L,
         \/ L = {} /\ Paid <= Paid'
         \/ Cardinality(L) <= Batch /\ Paid + 1 <= Paid'
  PROVE  IsFiniteSet(lost') /\ Cardinality(lost') <= Paid' * Batch
<1>1. Paid \in Nat /\ Paid' \in Nat /\ Batch \in Nat
  <2>1. /\ faults \in Nat /\ kills \in Nat /\ signals \in Nat
        /\ faults' \in Nat /\ kills' \in Nat /\ signals' \in Nat
        /\ MaxBatch \in Nat \ {0} /\ TurnSize \in Nat \ {0}
    BY IngestAssumption DEF IngestAssumption, TypeOK
  <2>2. proc = "draining" => signals >= 1
    BY DEF LossInv
  <2>3. Paid \in Nat
    BY <2>1, <2>2, PaidIs
  <2>4. Paid' \in Nat
    BY <2>1, PaidIs
  <2>5. Batch \in Nat
    BY <2>1 DEF Batch
  <2> QED BY <2>3, <2>4, <2>5
<1>2. /\ Cardinality(lost) \in Nat /\ Cardinality(L) \in Nat /\ Cardinality(lost') \in Nat
      /\ IsFiniteSet(lost') /\ Cardinality(lost') <= Cardinality(lost) + Cardinality(L)
  BY LossesAdd, FS_CardinalityType DEF LossInv
<1>3. Cardinality(lost) <= Paid * Batch /\ Paid * Batch \in Nat /\ Paid' * Batch \in Nat
  BY <1>1, Multiples DEF LossInv
<1>4. CASE L = {} /\ Paid <= Paid'
  <2>1. lost' = lost /\ Paid * Batch <= Paid' * Batch
    BY <1>1, <1>4, Multiples
  <2> QED BY <1>2, <1>3, <2>1
<1>5. CASE Cardinality(L) <= Batch /\ Paid + 1 <= Paid'
  <2>1. (Paid + 1) * Batch <= Paid' * Batch
    <3>1. Paid + 1 \in Nat
      BY <1>1
    <3> QED BY <1>1, <1>5, <3>1, Multiples
  <2>3. (Paid + 1) * Batch = Paid * Batch + Batch
    BY <1>1, Multiples
  <2>2. Paid * Batch + Batch <= Paid' * Batch
    BY <2>1, <2>3
  <2> QED BY <1>1, <1>2, <1>3, <1>5, <2>2
<1> QED BY <1>4, <1>5

\* The losses of a step: at most a batch, for one more failure, kill or shutdown.
Losing ==
  \E L \in SUBSET Nat :
    /\ IsFiniteSet(L) /\ lost' = lost \union L
    /\ \/ L = {} /\ Paid <= Paid'
       \/ Cardinality(L) <= Batch /\ Paid + 1 <= Paid'

\* Nothing lost is no loss.
LEMMA NothingLost ==
  ASSUME UNCHANGED lost, Paid <= Paid'
  PROVE  Losing
BY FS_EmptySet DEF Losing

\* One event is no more than a batch.
LEMMA OneLost ==
  ASSUME NEW id \in Nat, lost' = lost \union {id}, Paid + 1 <= Paid'
  PROVE  Losing
<1>1. IsFiniteSet({id}) /\ Cardinality({id}) = 1
  BY FS_Singleton
<1>2. 1 <= Batch
  BY IngestAssumption DEF IngestAssumption, Batch
<1> QED BY <1>1, <1>2 DEF Losing

\* Neither is a buffer, nor a buffer that has just become full.
LEMMA BufferLost ==
  ASSUME NEW events \in Seq(Event), Len(events) <= MaxBatch,
         lost' = lost \union Ids(events), Paid + 1 <= Paid'
  PROVE  Losing
<1>1. /\ IsFiniteSet(Ids(events)) /\ Cardinality(Ids(events)) \in Nat
      /\ Cardinality(Ids(events)) <= Len(events) /\ Len(events) \in Nat
  BY IdsAreFew
<1>2. MaxBatch <= Batch /\ Batch \in Nat /\ MaxBatch \in Nat
  BY IngestAssumption DEF IngestAssumption, Batch
<1>3. Ids(events) \subseteq Nat
  BY IdsTyped
<1>4. Cardinality(Ids(events)) <= Batch
  BY <1>1, <1>2
<1> QED BY <1>1, <1>3, <1>4 DEF Losing

\* Neither is everything in memory, which is a buffer below its limit and one turn.
LEMMA MemoryLost ==
  ASSUME TypeOK, FlushArmed, LossInv,
         lost' = lost \union Ids(buffer) \union Ids(micro), Paid + 1 <= Paid'
  PROVE  Losing
<1>1. /\ IsFiniteSet(Ids(buffer)) /\ Cardinality(Ids(buffer)) \in Nat
      /\ Cardinality(Ids(buffer)) <= Len(buffer) /\ Len(buffer) \in Nat
  BY IdsAreFew DEF TypeOK
<1>2. /\ IsFiniteSet(Ids(micro)) /\ Cardinality(Ids(micro)) \in Nat
      /\ Cardinality(Ids(micro)) <= Len(micro) /\ Len(micro) \in Nat
  BY IdsAreFew DEF TypeOK
<1>3. Len(buffer) + 1 <= MaxBatch
  BY <1>1, IngestAssumption DEF IngestAssumption, FlushArmed
<1>4. Len(micro) <= TurnSize
  <2>1. Len(micro) + slots <= TurnSize /\ slots \in Nat /\ TurnSize \in Nat
    BY IngestAssumption DEF IngestAssumption, LossInv, TypeOK
  <2> QED BY <1>2, <2>1
<1> DEFINE L == Ids(buffer) \union Ids(micro)
<1>5. /\ IsFiniteSet(L) /\ Cardinality(L) \in Nat
      /\ Cardinality(L) <= Cardinality(Ids(buffer)) + Cardinality(Ids(micro))
  BY <1>1, <1>2, LossesAdd
<1>6. Cardinality(L) <= Batch
  <2>1. MaxBatch \in Nat /\ TurnSize \in Nat
    BY IngestAssumption DEF IngestAssumption
  <2> HIDE DEF L
  <2> QED BY <1>1, <1>2, <1>3, <1>4, <1>5, <2>1 DEF Batch
<1>7. L \subseteq Nat /\ lost' = lost \union L
  BY IdsTyped DEF TypeOK
<1> QED BY <1>5, <1>6, <1>7 DEF Losing

\* The continuations and the slots of a turn are never more than the turn's requests.
LEMMA TurnIsBounded ==
  ASSUME TypeOK, LossInv, [Next]_vars
  PROVE  Len(micro') + slots' <= TurnSize
<1>t. /\ micro \in Seq(Task) /\ Len(micro) \in Nat /\ slots \in Nat /\ TurnSize \in Nat
      /\ Len(micro) + slots <= TurnSize
  BY IngestAssumption DEF IngestAssumption, TypeOK, LossInv
<1>1. CASE UNCHANGED turn
  BY <1>1, <1>t DEF turn
<1>2. CASE micro' = <<>> /\ slots' \in 0..TurnSize
  <2>1. Len(micro') = 0
    BY <1>2
  <2>2. slots' \in Int /\ slots' <= TurnSize
    BY <1>2, <1>t
  <2>3. 0 + slots' <= TurnSize
    BY <2>2
  <2> QED BY <2>1, <2>3
<1>3. ASSUME NEW tasks \in Seq(Task), Queue(tasks), Len(tasks) <= Len(micro)
      PROVE  Len(micro') + slots' <= TurnSize
  <2>1. Len(tasks) \in Nat /\ Len(<<>>) = 0
    OBVIOUS
  <2> QED BY <1>3, <1>t, <2>1 DEF Queue
<1>4. CASE Lookup \/ Save
  <2>1. micro # <<>> /\ Tail(micro) \in Seq(Task) /\ Len(Tail(micro)) + 1 = Len(micro)
        /\ \A u \in Task : Append(Tail(micro), u) \in Seq(Task)
                           /\ Len(Append(Tail(micro), u)) = Len(micro)
    BY <1>4, <1>t DEF Lookup, Save
  <2>2. Len(Tail(micro)) <= Len(micro)
    BY <2>1, <1>t
  <2>3. Queue(Tail(micro)) \/ \E u \in Task : Queue(Append(Tail(micro), u))
    BY <1>4, LookupResult DEF Save
  <2>4. CASE Queue(Tail(micro))
    BY <1>3, <2>1, <2>2, <2>4
  <2>5. ASSUME NEW u \in Task, Queue(Append(Tail(micro), u))
        PROVE  Len(micro') + slots' <= TurnSize
    <3>1. Len(Append(Tail(micro), u)) <= Len(micro)
      BY <2>1, <1>t
    <3> QED BY <1>3, <2>1, <2>5, <3>1
  <2> QED BY <2>3, <2>4, <2>5
<1>5. ASSUME NEW c \in Clients, Dispatch(c) PROVE Len(micro') + slots' <= TurnSize
  <2>1. UNCHANGED turn \/ \E t \in Task : micro' = Append(micro, t) /\ slots' = slots - 1
    BY <1>5, DispatchEffect DEF Dispatch, turn
  <2>2. \A t \in Task : Len(Append(micro, t)) = Len(micro) + 1
    BY <1>t
  <2> QED BY <1>1, <1>t, <2>1, <2>2
<1>6. CASE FlushTimer \/ Terminate
  <2>1. UNCHANGED turn \/ Gone
    BY <1>6 DEF FlushTimer, Terminate
  <2> QED BY <1>1, <1>2, <2>1, GoneTyped
<1>7. CASE Exit \/ Kill
  BY <1>2, <1>7, GoneTyped DEF Exit, Kill
<1>8. CASE Open \/ Refuse \/ RotateSalt \/ Boot \/ Tick \/ UNCHANGED vars
  BY <1>1, <1>8 DEF Open, Refuse, RotateSalt, Boot, Tick, vars, turn
<1> QED BY <1>4, <1>5, <1>6, <1>7, <1>8 DEF Next

\* Every step pays for what it loses.
LEMMA StepsPay ==
  ASSUME TypeOK, FlushArmed, LossInv, [Next]_vars
  PROVE  Losing /\ (proc' = "draining" => signals' >= 1)
<1>t. /\ faults \in Nat /\ kills \in Nat /\ signals \in Nat /\ buffer \in Seq(Event)
      /\ proc = "draining" => signals >= 1
      /\ MaxBatch \in Nat
      /\ Len(buffer) <= MaxBatch /\ Len(buffer) + 1 <= MaxBatch
  BY IngestAssumption DEF IngestAssumption, TypeOK, LossInv, FlushArmed
<1>1. CASE Open \/ Refuse \/ RotateSalt \/ Boot \/ Tick \/ UNCHANGED vars
  <2>1. UNCHANGED <<faults, kills, signals, lost>>
    BY <1>1 DEF Open, Refuse, RotateSalt, Boot, Tick, vars
  <2>2. (UNCHANGED proc) \/ (proc = "down" /\ proc' = "up")
    BY <1>1 DEF Open, Refuse, RotateSalt, Boot, Tick, vars
  <2>3. Paid <= Paid'
    BY <1>t, <2>1, <2>2, PaidIs
  <2> QED BY <1>t, <2>1, <2>2, <2>3, NothingLost
<1>2. ASSUME NEW c \in Clients, Dispatch(c) PROVE Losing /\ UNCHANGED <<proc, signals>>
  <2>1. UNCHANGED <<proc, kills, signals>> /\ nextId \in Nat
    BY <1>2 DEF Dispatch, TypeOK
  <2>2. CASE UNCHANGED <<lost, faults>>
    BY <1>t, <2>1, <2>2, NothingLost, PaidIs
  <2>3. CASE Fault /\ lost' = lost \union {nextId}
    BY <1>t, <2>1, <2>3, OneLost, PaidIs DEF Fault
  <2> QED BY <1>2, <2>1, <2>2, <2>3 DEF Dispatch
<1>3. CASE Lookup
  <2>1. UNCHANGED <<proc, kills, signals>>
    BY <1>3 DEF Lookup
  <2>2. CASE UNCHANGED <<lost, faults>>
    BY <1>t, <2>1, <2>2, NothingLost, PaidIs
  <2>3. CASE Fault /\ lost' = lost \union {Head(micro).id}
    <3>1. Head(micro).id \in Nat
      BY <1>3, LookupResult DEF Task
    <3>2. Paid + 1 <= Paid'
      BY <1>t, <2>1, <2>3, PaidIs DEF Fault
    <3> QED BY <1>t, <2>1, <2>3, <3>1, <3>2, OneLost
  <2>4. (UNCHANGED <<lost, faults>>) \/ (Fault /\ lost' = lost \union {Head(micro).id})
    BY <1>3, LookupResult
  <2> QED BY <1>t, <2>1, <2>2, <2>3, <2>4
<1>4. CASE Save
  <2> DEFINE pushed == Append(buffer, TrackedEvent(Head(micro)))
  <2>1. UNCHANGED <<proc, kills, signals>>
    BY <1>4 DEF Save
  <2>2. pushed \in Seq(Event) /\ Len(pushed) <= MaxBatch
    <3>1. TrackedEvent(Head(micro)) \in Event
      BY <1>4, SaveEffect, SavedEvent
    <3>2. Len(pushed) = Len(buffer) + 1
      BY <1>t, <3>1
    <3> QED BY <1>t, <3>1, <3>2
  <2>3. (UNCHANGED <<lost, faults>>) \/ FlushFailed(pushed)
    BY <1>4 DEF Save, FlushStored
  <2>4. CASE UNCHANGED <<lost, faults>>
    BY <1>t, <2>1, <2>4, NothingLost, PaidIs
  <2>5. CASE FlushFailed(pushed)
    <3>1. Paid + 1 <= Paid' /\ lost' = lost \union Ids(pushed)
      BY <1>t, <2>1, <2>5, PaidIs DEF FlushFailed, Fault
    <3> HIDE DEF pushed
    <3> QED BY <1>t, <2>1, <2>2, <3>1, BufferLost
  <2> QED BY <1>t, <2>1, <2>3, <2>4, <2>5
<1>5. CASE FlushTimer \/ Terminate
  <2>1. UNCHANGED kills /\ signals' \in {signals, signals + 1}
    BY <1>5 DEF FlushTimer, Terminate
  <2>2. CASE FlushFailed(buffer) /\ Gone
    <3>1. proc' = "down" /\ faults' = faults + 1 /\ lost' = lost \union Ids(buffer)
      BY <2>2, GoneTyped DEF FlushFailed, Fault
    <3>2. Paid + 1 <= Paid'
      BY <1>t, <2>1, <3>1, PaidIs
    <3> QED BY <1>t, <3>1, <3>2, BufferLost
  <2>3. CASE FlushStored(buffer) /\ \/ UNCHANGED <<proc, signals>>
                                    \/ /\ proc = "up" /\ proc' = "draining"
                                       /\ signals' = signals + 1
    <3>1. UNCHANGED <<lost, faults>>
      BY <2>3 DEF FlushStored
    <3>2. Paid <= Paid' /\ (proc' = "draining" => signals' >= 1)
      BY <1>t, <2>1, <2>3, <3>1, PaidIs
    <3> QED BY <3>1, <3>2, NothingLost
  <2> QED BY <1>5, <2>2, <2>3 DEF FlushTimer, Terminate
<1>6. CASE Exit
  <2>1. /\ proc = "draining" /\ proc' = "down" /\ UNCHANGED <<faults, kills, signals>>
        /\ lost' = lost \union Ids(buffer)
    BY <1>6, GoneTyped DEF Exit
  <2>2. Paid + 1 <= Paid'
    BY <1>t, <2>1, PaidIs
  <2> QED BY <1>t, <2>1, <2>2, BufferLost
<1>7. CASE Kill
  <2>1. /\ proc' = "down" /\ kills' = kills + 1 /\ UNCHANGED <<faults, signals>>
        /\ lost' = lost \union Ids(buffer) \union Ids(micro)
    BY <1>7, GoneTyped DEF Kill
  <2>2. Paid + 1 <= Paid'
    BY <1>t, <2>1, PaidIs
  <2> QED BY <2>1, <2>2, MemoryLost
<1> QED BY <1>t, <1>1, <1>2, <1>3, <1>4, <1>5, <1>6, <1>7 DEF Next

(* What is lost is paid for, and a turn has no more continuations than requests.     *)
THEOREM LossInvariant == Spec => []LossInv
<1>1. Init => LossInv
  <2> SUFFICES ASSUME Init PROVE LossInv
    OBVIOUS
  <2>1. Len(micro) + slots <= TurnSize
    BY IngestAssumption DEF IngestAssumption, Init
  <2>2. Paid = 0 /\ Batch \in Nat
    BY IngestAssumption DEF IngestAssumption, Init, Paid, Batch
  <2>3. IsFiniteSet(lost) /\ Cardinality(lost) = 0
    BY FS_EmptySet DEF Init
  <2>4. Paid * Batch = 0
    BY <2>2
  <2> QED BY <2>1, <2>3, <2>4 DEF Init, LossInv
<1>2. ASSUME TypeOK, FlushArmed, LossInv, [Next]_vars PROVE LossInv'
  <2>1. TypeOK' /\ Losing /\ (proc' = "draining" => signals' >= 1)
    BY <1>2, TypeOKStep, StepsPay
  <2>2. IsFiniteSet(lost') /\ Cardinality(lost') <= Paid' * Batch
    BY <1>2, <2>1, LossPaid DEF Losing
  <2> QED BY <1>2, <2>1, <2>2, TurnIsBounded DEF LossInv, Batch
<1> QED BY <1>1, <1>2, TypeCorrect, BufferIsGuarded, PTL DEF Spec

(* Each failed database call, kill or shutdown costs at most one batch and what one  *)
(* turn had in flight; nothing else loses an event, whatever the size of either.     *)
THEOREM LossesAreBounded == Spec => []LossIsBounded
<1>1. TypeOK /\ LossInv => LossIsBounded
  <2> SUFFICES ASSUME TypeOK, LossInv PROVE LossIsBounded
    OBVIOUS
  <2> DEFINE all == faults + kills + signals
  <2>1. Paid \in Nat /\ all \in Nat /\ Paid <= all
    BY DEF Paid, TypeOK, LossInv
  <2>2. Batch \in Nat
    BY IngestAssumption DEF IngestAssumption, Batch
  <2>3. Paid * Batch <= all * Batch /\ Paid * Batch \in Nat /\ all * Batch \in Nat
    BY <2>1, <2>2, Multiples
  <2>4. Cardinality(lost) \in Nat /\ Cardinality(lost) <= Paid * Batch
    BY FS_CardinalityType DEF LossInv
  <2>5. Cardinality(lost) <= all * Batch
    BY <2>3, <2>4
  <2> QED BY <2>5 DEF LossIsBounded, Batch
<1> QED BY <1>1, TypeCorrect, LossInvariant, PTL

-----------------------------------------------------------------------------
(* Sessions follow the gaps between events, for any number of clients, any batch     *)
(* size and any inactivity window, when a turn of the event loop serves one request  *)
(* and the clock counts in seconds.  Both conditions are needed: two requests of one *)
(* turn may each open a session, and a stored second is compared with milliseconds.  *)

(* A log in which sessions follow the gaps. *)

Chronicle(log) ==
  /\ \A i \in DOMAIN log : log[i].ts = log[i].at
  /\ \A i, j \in DOMAIN log : i < j => log[i].at <= log[j].at
  /\ \A i, j \in DOMAIN log :
       log[i].visitor = log[j].visitor /\ log[i].at = log[j].at
         => log[i].session = log[j].session
  /\ \A i, j \in DOMAIN log :
       /\ i < j /\ log[i].visitor = log[j].visitor
       /\ ~ \E k \in i+1..j-1 : log[k].visitor = log[j].visitor
       => (log[i].session = log[j].session <=> log[j].at - log[i].at <= Window)

\* Of a visitor, the session that an event at this moment carries goes on from a log.
Follows(log, visitor, session, at) ==
  /\ \A i \in DOMAIN log : log[i].at <= at
  /\ \A i \in DOMAIN log :
       log[i].visitor = visitor /\ log[i].at = at => log[i].session = session
  /\ \A i \in DOMAIN log :
       /\ log[i].visitor = visitor
       /\ ~ \E k \in i+1..Len(log) : log[k].visitor = visitor
       => (log[i].session = session <=> at - log[i].at <= Window)

\* What a log starts with is a log of this kind.
LEMMA PrefixOfChronicle ==
  ASSUME NEW log \in Seq(Event), NEW part \in Seq(Event), Len(part) <= Len(log),
         \A i \in 1..Len(part) : part[i] = log[i], Chronicle(log)
  PROVE  Chronicle(part)
<1>1. /\ Len(part) \in Nat /\ Len(log) \in Nat
      /\ DOMAIN part = 1..Len(part) /\ DOMAIN log = 1..Len(log)
      /\ DOMAIN part \subseteq DOMAIN log
      /\ \A i \in DOMAIN part : part[i] = log[i]
  OBVIOUS
<1>2. \A i, j \in DOMAIN part : \A k \in i+1..j-1 : part[k] = log[k]
  BY <1>1
<1>3. \A i \in DOMAIN part : part[i].ts = part[i].at
  BY <1>1 DEF Chronicle
<1>4. \A i, j \in DOMAIN part : i < j => part[i].at <= part[j].at
  BY <1>1 DEF Chronicle
<1>5. \A i, j \in DOMAIN part :
        part[i].visitor = part[j].visitor /\ part[i].at = part[j].at
          => part[i].session = part[j].session
  BY <1>1 DEF Chronicle
<1>6. ASSUME NEW i \in DOMAIN part, NEW j \in DOMAIN part,
             i < j, part[i].visitor = part[j].visitor,
             ~ \E k \in i+1..j-1 : part[k].visitor = part[j].visitor
      PROVE  part[i].session = part[j].session <=> part[j].at - part[i].at <= Window
  <2>1. ~ \E k \in i+1..j-1 : log[k].visitor = log[j].visitor
    BY <1>1, <1>2, <1>6
  <2> QED BY <1>1, <1>6, <2>1 DEF Chronicle
<1> QED BY <1>3, <1>4, <1>5, <1>6 DEF Chronicle

\* An event that goes on from a log makes one with it.
LEMMA AppendToChronicle ==
  ASSUME NEW log \in Seq(Event), NEW e \in Event, Chronicle(log), e.ts = e.at,
         Follows(log, e.visitor, e.session, e.at)
  PROVE  Chronicle(Append(log, e))
<1> DEFINE new == Append(log, e)
           n == Len(log) + 1
<1>1. /\ Len(log) \in Nat /\ DOMAIN log = 1..Len(log) /\ DOMAIN new = 1..n
      /\ new[n] = e /\ \A i \in DOMAIN log : new[i] = log[i]
      /\ DOMAIN new = DOMAIN log \union {n} /\ n \notin DOMAIN log /\ n \in Nat
      /\ \A i \in DOMAIN log : i < n /\ i \in Nat
      /\ \A i \in DOMAIN log : i+1..n-1 = i+1..Len(log)
      /\ \A i \in DOMAIN log : i+1..Len(log) \subseteq DOMAIN log
      /\ \A i, j \in DOMAIN log : i+1..j-1 \subseteq DOMAIN log
  OBVIOUS
<1>0. DOMAIN new = DOMAIN log \union {n}
  BY <1>1
<1> HIDE DEF new, n
<1>2. \A i \in DOMAIN new : new[i].ts = new[i].at
  BY <1>1 DEF Chronicle
<1>3. ASSUME NEW i \in DOMAIN new, NEW j \in DOMAIN new, i < j PROVE new[i].at <= new[j].at
  <2>1. i \in DOMAIN log
    BY <1>1, <1>3
  <2> QED BY <1>1, <1>3, <2>1 DEF Chronicle, Follows
<1>4. ASSUME NEW i \in DOMAIN new, NEW j \in DOMAIN new,
             new[i].visitor = new[j].visitor, new[i].at = new[j].at
      PROVE  new[i].session = new[j].session
  <2>1. CASE i \in DOMAIN log /\ j \in DOMAIN log
    BY <1>1, <1>4, <2>1 DEF Chronicle
  <2>2. CASE i \in DOMAIN log /\ j = n
    BY <1>1, <1>4, <2>2 DEF Follows
  <2>3. CASE i = n /\ j \in DOMAIN log
    BY <1>1, <1>4, <2>3 DEF Follows
  <2>4. CASE i = n /\ j = n
    BY <2>4
  <2> QED BY <1>0, <2>1, <2>2, <2>3, <2>4
<1>5. ASSUME NEW i \in DOMAIN new, NEW j \in DOMAIN new,
             i < j, new[i].visitor = new[j].visitor,
             ~ \E k \in i+1..j-1 : new[k].visitor = new[j].visitor
      PROVE  new[i].session = new[j].session <=> new[j].at - new[i].at <= Window
  <2>1. i \in DOMAIN log
    BY <1>1, <1>5
  <2>2. CASE j = n
    <3>1. ~ \E k \in i+1..Len(log) : log[k].visitor = e.visitor
      BY <1>1, <1>5, <2>1, <2>2
    <3> QED BY <1>1, <1>5, <2>1, <2>2, <3>1 DEF Follows
  <2>3. CASE j \in DOMAIN log
    <3>1. ~ \E k \in i+1..j-1 : log[k].visitor = log[j].visitor
      BY <1>1, <1>5, <2>1, <2>3
    <3> QED BY <1>1, <1>5, <2>1, <2>3, <3>1 DEF Chronicle
  <2>4. j = n \/ j \in DOMAIN log
    BY <1>0
  <2> QED BY <2>2, <2>3, <2>4
<1>6. Chronicle(new)
  BY <1>2, <1>3, <1>4, <1>5 DEF Chronicle
<1> QED BY <1>6 DEF new

-----------------------------------------------------------------------------
(* The strengthening: the log is such a chronicle, and a continuation that has looked *)
(* up its session goes on from it.                                                    *)
Simple == TurnSize = 1 /\ TicksPerSecond = 1

GapInv ==
  /\ Chronicle(Log)
  /\ \A i \in DOMAIN Log : Log[i].at <= now
  /\ \A t \in Range(micro) :
       t.stage = "save" => t.at <= now /\ Follows(Log, t.visitor, t.session, t.at)

\* The parts of the log.
LEMMA LogIndex ==
  ASSUME TypeOK
  PROVE  /\ Log \in Seq(Event) /\ Len(Log) = Len(db) + Len(buffer)
         /\ Len(db) \in Nat /\ Len(buffer) \in Nat /\ Len(Log) \in Nat
         /\ DOMAIN db = 1..Len(db) /\ DOMAIN buffer = 1..Len(buffer) /\ DOMAIN Log = 1..Len(Log)
         /\ \A i \in DOMAIN db : i \in DOMAIN Log /\ Log[i] = db[i]
         /\ \A i \in DOMAIN buffer : Len(db) + i \in DOMAIN Log /\ Log[Len(db) + i] = buffer[i]
         /\ \A i \in DOMAIN Log : i \in DOMAIN db \/ i - Len(db) \in DOMAIN buffer
BY DEF Log, TypeOK

\* What execute() finds of a visitor is no earlier than any of its events.
LEMMA FoundIsLatest ==
  ASSUME TypeOK, GapInv, NEW v, NEW found \in LastEvent(v)
  PROVE  \E k \in DOMAIN Log :
           /\ found = Log[k] /\ Log[k].visitor = v
           /\ \A i \in DOMAIN Log : Log[i].visitor = v => Log[i].at <= Log[k].at
<1>t. /\ \A i \in DOMAIN Log : Log[i].at \in Nat /\ Log[i].ts = Log[i].at
      /\ \A i, j \in DOMAIN Log : i < j => Log[i].at <= Log[j].at
  <2>1. \A i \in DOMAIN Log : Log[i] \in Event
    BY LogIndex
  <2>2. \A i \in DOMAIN Log : Log[i].at \in Nat
    BY <2>1 DEF Event
  <2> QED BY <2>2 DEF GapInv, Chronicle
<1>1. CASE Buffered(v) # {}
  <2>1. PICK n \in Buffered(v) : found = buffer[n] /\ \A m \in Buffered(v) : m <= n
    BY <1>1 DEF LastEvent
  <2> DEFINE k == Len(db) + n
  <2>2. n \in DOMAIN buffer /\ k \in DOMAIN Log /\ Log[k] = buffer[n] /\ buffer[n].visitor = v
    BY <2>1, LogIndex DEF Buffered
  <2>3. ASSUME NEW i \in DOMAIN Log, Log[i].visitor = v PROVE i <= k
    <3>1. CASE i \in DOMAIN db
      BY <2>2, <3>1, LogIndex
    <3>2. CASE i - Len(db) \in DOMAIN buffer
      <4>1. buffer[i - Len(db)] = Log[i]
        <5>1. Len(db) + (i - Len(db)) = i
          BY LogIndex
        <5> QED BY <3>2, <5>1, LogIndex
      <4>2. i - Len(db) <= n
        BY <2>1, <2>3, <3>2, <4>1 DEF Buffered
      <4> QED BY <2>2, <4>2, LogIndex
    <3> QED BY <3>1, <3>2, LogIndex
  <2>4. ASSUME NEW i \in DOMAIN Log, Log[i].visitor = v PROVE Log[i].at <= Log[k].at
    <3>1. i <= k /\ i \in Nat /\ k \in Nat
      BY <2>2, <2>3, <2>4, LogIndex
    <3>2. i = k \/ i < k
      BY <3>1
    <3>3. Log[i].at \in Nat
      BY <1>t
    <3> HIDE DEF k
    <3> QED BY <1>t, <2>2, <3>2, <3>3
  <2> QED BY <2>1, <2>2, <2>4
<1>2. CASE Buffered(v) = {}
  <2>1. PICK k \in Stored(v) : found = db[k] /\ \A m \in Stored(v) : db[m].ts <= db[k].ts
    BY <1>2 DEF LastEvent, LastStoredEvent
  <2>2. k \in DOMAIN db /\ k \in DOMAIN Log /\ Log[k] = db[k] /\ db[k].visitor = v
    BY <2>1, LogIndex DEF Stored
  <2>3. ASSUME NEW i \in DOMAIN Log, Log[i].visitor = v PROVE Log[i].at <= Log[k].at
    <3>1. i \in DOMAIN db
      <4>1. SUFFICES ASSUME i - Len(db) \in DOMAIN buffer PROVE FALSE
        BY LogIndex
      <4>2. buffer[i - Len(db)] = Log[i]
        <5>1. Len(db) + (i - Len(db)) = i
          BY LogIndex
        <5> QED BY <4>1, <5>1, LogIndex
      <4> QED BY <1>2, <2>3, <4>1, <4>2 DEF Buffered
    <3>2. db[i].ts <= db[k].ts
      BY <2>1, <2>3, <3>1, LogIndex DEF Stored
    <3>3. Log[i] = db[i] /\ Log[i].ts = Log[i].at /\ Log[k].ts = Log[k].at
      BY <1>t, <2>2, <3>1, LogIndex
    <3> QED BY <2>2, <3>2, <3>3
  <2> QED BY <2>1, <2>2, <2>3
<1> QED BY <1>1, <1>2

\* And it finds nothing only if there is nothing.
LEMMA NothingFound ==
  ASSUME TypeOK, GapInv, NEW v, LastEvent(v) = {}
  PROVE  \A i \in DOMAIN Log : Log[i].visitor # v
<1>1. Buffered(v) = {}
  <2> SUFFICES ASSUME Buffered(v) # {} PROVE FALSE
    OBVIOUS
  <2>1. Buffered(v) \in SUBSET Nat /\ \A i \in Buffered(v) : i <= Len(buffer)
    BY LogIndex DEF Buffered
  <2>2. PICK n \in Buffered(v) : \A m \in Buffered(v) : m <= n
    BY <2>1, LogIndex, Greatest
  <2>3. buffer[n] \in LastEvent(v)
    BY <2>2 DEF LastEvent
  <2> QED BY <2>3
<1>2. Stored(v) = {}
  <2> SUFFICES ASSUME Stored(v) # {} PROVE FALSE
    OBVIOUS
  <2> DEFINE times == {db[i].ts : i \in Stored(v)}
  <2>1. times \in SUBSET Nat /\ times # {} /\ \A at \in times : at <= now
    <3>1. \A i \in Stored(v) : i \in DOMAIN db /\ db[i] \in Event
      BY DEF Stored, TypeOK
    <3>2. \A i \in Stored(v) : db[i].ts \in Nat /\ db[i].ts <= now
      BY <3>1, LogIndex, SMTT(30) DEF GapInv, Chronicle, Event
    <3> QED BY <3>2
  <2>2. PICK at \in times : \A other \in times : other <= at
    <3> HIDE DEF times
    <3>1. now \in Nat
      BY DEF TypeOK
    <3> QED BY <2>1, <3>1, Greatest
  <2>3. PICK n \in Stored(v) : \A m \in Stored(v) : db[m].ts <= db[n].ts
    BY <2>2
  <2>4. db[n] \in LastEvent(v)
    BY <1>1, <2>3 DEF LastEvent, LastStoredEvent
  <2> QED BY <2>4
<1> QED BY <1>1, <1>2, LogIndex DEF Buffered, Stored

\* What a continuation resolves to goes on from the log.
LEMMA ResolvedFollows ==
  ASSUME TypeOK, LedgerInv, SessionInv, GapInv, Simple, NEW t \in Range(micro), t.stage = "lookup",
         NEW session,
         \/ LastEvent(t.visitor) = {} /\ session = t.id
         \/ \E found \in LastEvent(t.visitor) :
              session = IF BelongsToSameSession(found.ts, now) THEN found.session ELSE t.id
  PROVE  Follows(Log, t.visitor, session, now)
<1>1. /\ \A i \in DOMAIN Log : Log[i] \in Event /\ Log[i].at \in Nat /\ Log[i].at <= now
      /\ now \in Nat /\ Window \in Nat
  <2>1. \A i \in DOMAIN Log : Log[i] \in Event
    BY LogIndex
  <2>2. \A i \in DOMAIN Log : Log[i].at \in Nat
    BY <2>1 DEF Event
  <2> QED BY <2>1, <2>2, IngestAssumption DEF IngestAssumption, GapInv, TypeOK
<1>2. \A i \in DOMAIN Log : Log[i].session # t.id
  <2> SUFFICES ASSUME NEW i \in DOMAIN Log, Log[i].session = t.id PROVE FALSE
    OBVIOUS
  <2>1. Log[i] \in Range(db) \union Range(buffer)
    BY RangeOfConcat DEF Log, TypeOK, Range
  <2>2. <<Log[i].session, Log[i].visitor>> \in Claims
    BY <2>1 DEF Claims
  <2>3. t.id \in Unresolved
    BY DEF Unresolved
  <2> QED BY <2>2, <2>3 DEF SessionInv
<1>3. CASE LastEvent(t.visitor) = {}
  BY <1>1, <1>3, NothingFound DEF Follows
<1>4. ASSUME NEW found \in LastEvent(t.visitor),
             session = IF BelongsToSameSession(found.ts, now) THEN found.session ELSE t.id
      PROVE  Follows(Log, t.visitor, session, now)
  <2>1. PICK k \in DOMAIN Log :
          /\ found = Log[k] /\ Log[k].visitor = t.visitor
          /\ \A i \in DOMAIN Log : Log[i].visitor = t.visitor => Log[i].at <= Log[k].at
    BY FoundIsLatest
  <2>2. session = IF now - Log[k].at <= Window THEN Log[k].session ELSE t.id
    <3>1. found.ts = Log[k].at
      BY <2>1 DEF GapInv, Chronicle
    <3>2. found.ts * TicksPerSecond = found.ts /\ Window * TicksPerSecond = Window
      BY <1>1, <2>1, <3>1 DEF Simple
    <3> QED BY <1>4, <2>1, <3>1, <3>2 DEF BelongsToSameSession
  <2>3. ASSUME NEW i \in DOMAIN Log, Log[i].visitor = t.visitor, Log[i].at = Log[k].at
        PROVE  Log[i].session = Log[k].session
    BY <2>1, <2>3 DEF GapInv, Chronicle
  <2>4. ASSUME NEW i \in DOMAIN Log, Log[i].visitor = t.visitor, Log[i].at = now
        PROVE  Log[i].session = session
    <3>1. Log[i].at = Log[k].at
      BY <1>1, <2>1, <2>4
    <3> QED BY <1>1, <2>2, <2>3, <2>4, <3>1
  <2>5. ASSUME NEW i \in DOMAIN Log, Log[i].visitor = t.visitor,
               ~ \E m \in i+1..Len(Log) : Log[m].visitor = t.visitor
        PROVE  Log[i].session = session <=> now - Log[i].at <= Window
    <3>1. k \notin i+1..Len(Log)
      BY <2>1, <2>5
    <3>2. i \in Nat /\ k \in Nat /\ k <= Len(Log) /\ Len(Log) \in Nat
      BY LogIndex
    <3>3. k < i \/ k = i
      BY <3>1, <3>2
    <3>4. Log[k].at <= Log[i].at
      BY <1>1, <3>3 DEF GapInv, Chronicle
    <3>5. Log[i].at = Log[k].at
      BY <1>1, <2>1, <2>5, <3>4
    <3> QED BY <1>2, <2>2, <2>3, <2>5, <3>5
  <2> QED BY <1>1, <2>4, <2>5 DEF Follows
<1> QED BY <1>3, <1>4

\* One request per turn: one continuation, and none beside a request dispatched.
LEMMA OneTask ==
  ASSUME TypeOK, LossInv, Simple, micro # <<>>
  PROVE  slots = 0 /\ Tail(micro) = <<>> /\ Range(micro) = {Head(micro)}
<1>1. Len(micro) \in Nat /\ Len(micro) # 0 /\ slots \in Nat /\ Len(micro) + slots <= 1
  <2>1. micro \in Seq(Task) /\ slots \in 0..1 /\ Len(micro) + slots <= 1
    BY DEF TypeOK, LossInv, Simple
  <2>2. Len(micro) \in Nat /\ Len(micro) # 0
    BY <2>1
  <2> QED BY <2>1, <2>2
<1>2. Len(micro) = 1 /\ slots = 0
  <2>1. \A a, b \in Nat : a # 0 /\ a + b <= 1 => a = 1 /\ b = 0
    OBVIOUS
  <2> QED BY <1>1, <2>1
<1>3. Tail(micro) = <<>>
  <2>1. \A q \in Seq(Task) : Len(q) = 1 => Tail(q) \in Seq(Task) /\ Len(Tail(q)) = 0
    OBVIOUS
  <2>2. \A q \in Seq(Task) : Len(q) = 0 => q = <<>>
    OBVIOUS
  <2> QED BY <1>2, <2>1, <2>2 DEF TypeOK
<1>4. Range(micro) = {Head(micro)} \union Range(Tail(micro)) /\ Range(<<>>) = {}
  <2>1. \A q \in Seq(Task) : q # <<>> => Range(q) = {Head(q)} \union Range(Tail(q))
    BY RangeOfTail
  <2>2. Range(<<>>) = {}
    BY DEF Range
  <2> QED BY <2>1, <2>2 DEF TypeOK
<1> QED BY <1>2, <1>3, <1>4

\* A queue that gets its first continuation holds only that.
LEMMA OneIsAlone ==
  ASSUME NEW u \in Task
  PROVE  Range(Append(<<>>, u)) = {u}
<1>1. /\ DOMAIN Append(<<>>, u) = {1}
      /\ Append(<<>>, u)[1] = u
  <2>1. Append(<<>>, u) = <<u>>
    OBVIOUS
  <2> QED BY <2>1
<1> QED BY <1>1 DEF Range

\* How the log changes: it stays, it loses the buffer, or it gains the saved event.
LEMMA LogChange ==
  ASSUME TypeOK, [Next]_vars
  PROVE  /\ Log' \in Seq(Event) /\ Log \in Seq(Event) /\ db \in Seq(Event)
         /\ \/ Log' = Log
            \/ Log' = db /\ (Save \/ micro' = <<>>)
            \/ Save /\ Log' = Append(Log, TrackedEvent(Head(micro)))
<1>t. /\ buffer \in Seq(Event) /\ db \in Seq(Event) /\ buffer' \in Seq(Event) /\ db' \in Seq(Event)
      /\ Log \in Seq(Event) /\ Log' \in Seq(Event)
  BY TypeOKStep DEF TypeOK, Log
<1>e. db \o <<>> = db /\ (db \o buffer) \o <<>> = db \o buffer
  BY <1>t
<1>1. CASE Same
  BY <1>1, <1>t DEF Same, Log
<1>2. CASE Lookup \/ \E c \in Clients : Dispatch(c)
  BY <1>2, <1>t, DispatchEffect DEF Lookup, mem, disk, Log
<1>3. CASE FlushTimer \/ Terminate
  BY <1>3, <1>e, <1>t, FlushEffect DEF Log
<1>4. CASE Exit \/ Kill
  BY <1>4, <1>e, <1>t, EndEffect DEF Log
<1>5. CASE Save
  <2> DEFINE e == TrackedEvent(Head(micro))
             pushed == Append(buffer, e)
  <2>1. e \in Event
    BY <1>5, SaveEffect, SavedEvent
  <2>2. \/ buffer' = pushed /\ db' = db
        \/ buffer' = <<>> /\ db' = db \o pushed
        \/ buffer' = <<>> /\ db' = db
    BY <1>5 DEF Save, Emptied, FlushStored, FlushFailed
  <2>3. db \o pushed = Append(db \o buffer, e) /\ (db \o pushed) \o <<>> = db \o pushed
    BY <1>t, <2>1
  <2> HIDE DEF e, pushed
  <2>4. Log' = Append(Log, e) \/ Log' = db
    BY <1>e, <2>2, <2>3 DEF Log
  <2> QED BY <1>5, <1>t, <2>4 DEF e
<1> QED BY <1>1, <1>2, <1>3, <1>4, <1>5, IdleEffect DEF Next

\* Without its buffer, the log is still a chronicle.
LEMMA StoredChronicle ==
  ASSUME TypeOK, GapInv
  PROVE  Chronicle(db) /\ \A i \in DOMAIN db : db[i].at <= now
<1>1. Len(db) <= Len(Log) /\ \A i \in 1..Len(db) : db[i] = Log[i]
  BY LogIndex
<1>2. Chronicle(db)
  BY <1>1, LogIndex, PrefixOfChronicle DEF GapInv, TypeOK
<1> QED BY <1>2, LogIndex DEF GapInv

\* Every step keeps the sessions to the gaps.
LEMMA GapInvStep ==
  ASSUME TypeOK, LedgerInv, SessionInv, LossInv, GapInv, Simple, [Next]_vars
  PROVE  GapInv'
<1>t. /\ now \in Nat /\ now' \in Nat /\ now <= now' /\ Range(<<>>) = {}
      /\ \A i \in DOMAIN Log : Log[i].at \in Nat
  <2>1. now \in Nat /\ Range(<<>>) = {} /\ \A i \in DOMAIN Log : Log[i] \in Event
    BY LogIndex DEF TypeOK, Range
  <2>2. UNCHANGED now \/ now' = now + 1
    BY DEF Next, Open, Refuse, Dispatch, Lookup, Save, FlushTimer, RotateSalt, Terminate, Exit,
           Kill, Boot, Tick, vars
  <2> QED BY <2>1, <2>2 DEF Event
<1>1. CASE Save
  <2> DEFINE t == Head(micro)
             e == TrackedEvent(t)
  <2>1. micro' = <<>> /\ t \in Range(micro) /\ t \in Task /\ t.stage = "save"
    BY <1>1, OneTask, SaveEffect
  <2>2. e \in Event /\ e.visitor = t.visitor /\ e.session = t.session /\ e.at = t.at /\ e.ts = t.at
    <3>1. t.at \in Nat /\ t.at \div TicksPerSecond = t.at
      BY <2>1 DEF Task, Simple
    <3> QED BY <2>1, <3>1, SavedEvent DEF TrackedEvent
  <2>3. t.at <= now /\ Follows(Log, t.visitor, t.session, t.at)
    BY <2>1 DEF GapInv
  <2> HIDE DEF e, t
  <2>4. CASE Log' = Append(Log, e)
    <3>1. Chronicle(Append(Log, e))
      BY <2>2, <2>3, LogIndex, AppendToChronicle DEF GapInv
    <3>2. \A i \in DOMAIN Append(Log, e) :
            \/ i \in DOMAIN Log /\ Append(Log, e)[i] = Log[i]
            \/ Append(Log, e)[i] = e
      BY LogIndex
    <3>3. \A i \in DOMAIN Log : Log[i].at <= now'
      BY <1>t DEF GapInv
    <3>4. e.at <= now'
      BY <1>t, <2>2, <2>3 DEF Event
    <3>5. \A i \in DOMAIN Log' : Log'[i].at <= now'
      BY <2>4, <3>2, <3>3, <3>4
    <3> QED BY <1>t, <2>1, <2>4, <3>1, <3>5 DEF GapInv
  <2>5. CASE Log' = db
    <3>1. \A i \in DOMAIN db : db[i].at <= now'
      BY <1>1, StoredChronicle DEF Save
    <3> QED BY <1>t, <2>1, <2>5, <3>1, StoredChronicle DEF GapInv
  <2>6. CASE Log' = Log
    <3>1. \A i \in DOMAIN Log : Log[i].at <= now'
      BY <1>t DEF GapInv
    <3> QED BY <1>t, <2>1, <2>6, <3>1 DEF GapInv
  <2> QED BY <2>4, <2>5, <2>6, LogChange DEF e, t
<1>2. CASE Log' = db /\ micro' = <<>> /\ ~Save
  <2>1. \A i \in DOMAIN db : db[i].at \in Nat /\ db[i].at <= now
    BY <1>t, LogIndex, StoredChronicle
  <2>2. \A i \in DOMAIN db : db[i].at <= now'
    BY <1>t, <2>1
  <2> QED BY <1>t, <1>2, <2>2, StoredChronicle DEF GapInv
<1>3. CASE Log' = Log /\ ~Save
  <2>1. \A i \in DOMAIN Log' : Log'[i].at <= now'
    BY <1>t, <1>3 DEF GapInv
  <2>2. ASSUME NEW t \in Range(micro'), t.stage = "save"
        PROVE  t.at <= now' /\ Follows(Log, t.visitor, t.session, t.at)
    <3>1. CASE UNCHANGED micro
      <4>1. t \in Range(micro) /\ t.at \in Nat
        <5>1. t \in Range(micro)
          BY <2>2, <3>1
        <5>2. Range(micro) \subseteq Task
          BY DEF TypeOK, Range
        <5> QED BY <5>1, <5>2 DEF Task
      <4>2. t.at <= now /\ Follows(Log, t.visitor, t.session, t.at)
        BY <2>2, <4>1 DEF GapInv
      <4> QED BY <1>t, <4>1, <4>2
    <3>2. CASE micro' = <<>>
      BY <1>t, <3>2
    <3>3. CASE \E c \in Clients : Dispatch(c)
      <4>1. micro = <<>>
        BY <3>3, OneTask DEF Dispatch
      <4>2. ASSUME NEW u \in Task, micro' = Append(micro, u) PROVE Range(micro') = {u}
        <5>1. Range(Append(<<>>, u)) = {u}
          BY OneIsAlone
        <5> QED BY <4>1, <4>2, <5>1
      <4>3. \/ \E u \in Task : micro' = Append(micro, u) /\ u.stage = "lookup"
            \/ UNCHANGED micro
        BY <3>3, DispatchEffect
      <4> QED BY <2>2, <3>1, <4>2, <4>3
    <3>4. CASE Lookup
      <4> DEFINE h == Head(micro)
      <4>1. h \in Range(micro) /\ h.stage = "lookup" /\ Tail(micro) = <<>> /\ h \in Task
        BY <3>4, LookupResult, OneTask
      <4>2. ASSUME NEW u \in Task, Queue(Append(Tail(micro), u)) PROVE Range(micro') = {u}
        <5>1. Range(Append(<<>>, u)) = {u}
          BY OneIsAlone
        <5> QED BY <4>1, <4>2, <5>1 DEF Queue
      <4>3. CASE LastEvent(h.visitor) = {} /\ Queue(Append(Tail(micro),
                     [h EXCEPT !.stage = "save", !.at = now, !.session = h.id]))
        <5> DEFINE u == [h EXCEPT !.stage = "save", !.at = now, !.session = h.id]
        <5>1. u \in Task /\ u.visitor = h.visitor /\ u.session = h.id /\ u.at = now
          BY <1>t, <4>1 DEF Task
        <5>2. Follows(Log, h.visitor, h.id, now)
          BY <4>1, <4>3, ResolvedFollows
        <5>3. t = u
          BY <4>2, <4>3, <5>1
        <5> HIDE DEF u
        <5> QED BY <1>t, <5>1, <5>2, <5>3
      <4>4. ASSUME NEW found \in LastEvent(h.visitor),
                   Queue(Append(Tail(micro), ResolveSession(h, found)))
            PROVE  t.at <= now' /\ Follows(Log, t.visitor, t.session, t.at)
        <5> DEFINE s == IF BelongsToSameSession(found.ts, now) THEN found.session ELSE h.id
                   u == ResolveSession(h, found)
        <5>1. found \in Event
          BY LastEventFound
        <5>2. u \in Task /\ u.visitor = h.visitor /\ u.session = s /\ u.at = now
          BY <1>t, <4>1, <5>1 DEF ResolveSession, Task, Event
        <5>3. Follows(Log, h.visitor, s, now)
          BY <4>1, <4>4, ResolvedFollows
        <5>4. t = u
          BY <4>2, <4>4, <5>2
        <5> HIDE DEF u, s
        <5> QED BY <1>t, <5>2, <5>3, <5>4
      <4>5. CASE Queue(Tail(micro))
        BY <1>t, <4>1, <4>5 DEF Queue
      <4> QED BY <3>4, <4>3, <4>4, <4>5 DEF Lookup
    <3>5. Open \/ Refuse \/ RotateSalt \/ Boot \/ Tick \/ UNCHANGED vars => UNCHANGED micro
      BY IdleEffect DEF Same
    <3>6. FlushTimer \/ Terminate \/ Exit \/ Kill => micro' = <<>>
      BY FlushEffect, EndEffect
    <3> QED BY <1>3, <3>1, <3>2, <3>3, <3>4, <3>5, <3>6 DEF Next
  <2> QED BY <1>3, <2>1, <2>2 DEF GapInv
<1> QED BY <1>1, <1>2, <1>3, LogChange

(* Where a turn serves one request, two consecutive recorded events of a visitor     *)
(* share their session exactly when the gap is within the window, whether the first  *)
(* was still buffered, stored, or lost with those after it.                          *)
THEOREM SessionsFollowGaps ==
  ASSUME TurnSize = 1, TicksPerSecond = 1
  PROVE  Spec => []SessionsMatchGaps
<1>1. Simple
  BY DEF Simple
<1>2. Init => GapInv
  BY DEF Init, GapInv, Chronicle, Log, Range
<1>3. TypeOK /\ LedgerInv /\ SessionInv /\ LossInv /\ GapInv /\ [Next]_vars => GapInv'
  BY <1>1, GapInvStep
<1>4. TypeOK /\ GapInv => SessionsMatchGaps
  <2>1. Window * TicksPerSecond = Window
    BY <1>1, IngestAssumption DEF IngestAssumption, Simple
  <2> QED BY <2>1, LogIndex, SMTT(30) DEF GapInv, Chronicle, SessionsMatchGaps
<1> QED BY <1>2, <1>3, <1>4, TypeCorrect, LedgerInvariant, SessionInvariant, LossInvariant,
           PTL DEF Spec
=============================================================================
