---------------------------------- MODULE Ingest ----------------------------------
(* Event ingestion inside one server process: the collect routes hand a request to *)
(* RecordEvent.execute, which awaits the salt and the visitor's last event and     *)
(* saves into BatchingEventRepository, whose buffer is flushed to SQLite by size,  *)
(* by timer or at shutdown.  Every adapter answers synchronously, so an await only *)
(* yields to the other handlers that the same event-loop turn dispatched: micro is *)
(* the FIFO queue of their continuations, and timers, signals and jobs run only    *)
(* when it is empty.                                                               *)
EXTENDS Integers, Sequences, FiniteSets, Functions

CONSTANTS Clients,       \* (site, ip, user agent) triples on an allowed site
          TurnSize,      \* requests one event-loop turn may dispatch
          MaxBatch,      \* maxBatchSize of the buffer
          Window,        \* session inactivity window, in seconds
          TicksPerSecond \* clock readings per stored second

CONSTANTS MaxEvents, MaxNow, MaxOpen, MaxSalt, MaxFaults, MaxKills, MaxSignals  \* bounds

ASSUME IngestAssumption ==
  /\ TurnSize \in Nat \ {0} /\ MaxBatch \in Nat \ {0} /\ TicksPerSecond \in Nat \ {0}
  /\ Window \in Nat /\ MaxEvents \in Nat /\ MaxNow \in Nat /\ MaxOpen \in Nat
  /\ MaxSalt \in Nat /\ MaxFaults \in Nat /\ MaxKills \in Nat /\ MaxSignals \in Nat

VARIABLES
  proc,      \* the process: "up", "draining" (close() under way) or "down"
  open,      \* requests whose headers have arrived and whose handler has not run
  slots,     \* requests the current event-loop turn may still dispatch
  micro,     \* continuations of RecordEvent.execute, oldest first
  buffer,    \* BatchingEventRepository.#buffer
  timer,     \* BatchingEventRepository.#flushTimer
  db,        \* the rows of the events table, in insertion order
  salt,      \* the salt row: 0 when there is none, otherwise its generation
  now,       \* the clock
  nextId,    \* identity of the next event (history)
  lost,      \* events that will never be stored (history)
  faults,    \* failed database calls (history)
  kills,     \* abrupt deaths of the process by an outside cause (history)
  signals    \* SIGTERM or SIGINT received (history)

mem == <<buffer, timer>>
disk == <<db, salt>>
turn == <<slots, micro>>
vars == <<proc, open, slots, micro, buffer, timer, db, salt, now, nextId, lost,
          faults, kills, signals>>

Ids(events) == {e.id : e \in Range(events)}

\* A session id is random bytes: the identity of the event that opens it.
\* at is the reading of the clock that ts keeps only the second of (history).
Event == [id : Nat, visitor : Nat \X Clients, session : Nat, ts : Nat, at : Nat]
Task  == [id : Nat, visitor : Nat \X Clients, session : Nat, at : Nat,
          stage : {"lookup", "save"}]

TypeOK ==
  /\ proc \in {"up", "draining", "down"}
  /\ open \in 0..MaxOpen
  /\ slots \in 0..TurnSize
  /\ micro \in Seq(Task)
  /\ buffer \in Seq(Event)
  /\ timer \in {"unset", "set"}
  /\ db \in Seq(Event)
  /\ now \in Nat /\ salt \in Nat /\ nextId \in Nat \ {0}
  /\ faults \in Nat /\ kills \in Nat /\ signals \in Nat
  /\ lost \subseteq Nat

Init ==
  /\ proc = "up" /\ open = 0 /\ slots = TurnSize /\ micro = <<>>
  /\ buffer = <<>> /\ timer = "unset"
  /\ db = <<>> /\ salt = 0
  /\ now = 0 /\ nextId = 1
  /\ lost = {} /\ faults = 0 /\ kills = 0 /\ signals = 0

Fault == faults < MaxFaults /\ faults' = faults + 1

\* Microtasks drain before the event loop takes its next callback.
Queue(tasks) == /\ micro' = tasks
                /\ slots' = IF tasks = <<>> THEN TurnSize ELSE 0

\* Deliberate fault: jobs and timers run between two continuations.
MacrotaskAnytime == proc # "down"
Macrotask == proc # "down" /\ micro = <<>>

-----------------------------------------------------------------------------
\* The HTTP side.  Requests are accepted only until close() begins.

Open == /\ Macrotask /\ proc = "up" /\ open < MaxOpen
        /\ open' = open + 1
        /\ UNCHANGED <<proc, turn, mem, disk, now, nextId, lost, faults, kills, signals>>

\* No site header, not enough tokens, a site off the allow-list, an unknown type.
Refuse == /\ Macrotask /\ open > 0
          /\ open' = open - 1
          /\ UNCHANGED <<proc, turn, mem, disk, now, nextId, lost, faults, kills, signals>>

\* execute() up to its first await: the salt is read, and created if there is none.
Dispatch(c) ==
  /\ proc # "down" /\ slots > 0 /\ open > 0 /\ nextId <= MaxEvents
  /\ open' = open - 1
  /\ nextId' = nextId + 1
  /\ \/ /\ salt' = IF salt = 0 THEN 1 ELSE salt
        /\ micro' = Append(micro, [id |-> nextId, visitor |-> <<salt', c>>, session |-> 0,
                                   at |-> 0, stage |-> "lookup"])
        /\ slots' = slots - 1
        /\ UNCHANGED <<lost, faults>>
     \/ /\ Fault
        /\ lost' = lost \union {nextId}
        /\ UNCHANGED <<turn, salt>>
  /\ UNCHANGED <<proc, mem, db, now, kills, signals>>

-----------------------------------------------------------------------------
\* RecordEvent.execute after its first await.

BelongsToSameSession(ts, at) == at - ts * TicksPerSecond <= Window * TicksPerSecond

\* Deliberate fault: the buffer is searched for the client, whatever the salt.
BufferedClient(v) == {i \in DOMAIN buffer : buffer[i].visitor[2] = v[2]}
Buffered(v) == {i \in DOMAIN buffer : buffer[i].visitor = v}
Stored(v) == {i \in DOMAIN db : db[i].visitor = v}

\* A latest stored event of a visitor; asking only for it, and not the buffer, is the
\* deliberate fault in LastEvent.
LastStoredEvent(v) ==
  {db[i] : i \in {j \in Stored(v) : \A k \in Stored(v) : db[k].ts <= db[j].ts}}
\* The newest buffered event of a visitor or, failing that, a latest stored one.
LastEvent(v) ==
  IF Buffered(v) # {}
  THEN {buffer[i] : i \in {j \in Buffered(v) : \A k \in Buffered(v) : k <= j}}
  ELSE LastStoredEvent(v)

\* The session the event will carry is settled by what this continuation reads.
ResolveSession(t, found) ==
  [t EXCEPT !.stage = "save", !.at = now,
            !.session = IF BelongsToSameSession(found.ts, now) THEN found.session ELSE t.id]

Lookup ==
  /\ proc # "down" /\ micro # <<>> /\ Head(micro).stage = "lookup"
  /\ LET t == Head(micro) IN
     \/ /\ \/ /\ LastEvent(t.visitor) = {}
              /\ Queue(Append(Tail(micro), [t EXCEPT !.stage = "save", !.at = now,
                                                     !.session = t.id]))
           \/ \E found \in LastEvent(t.visitor) :
                Queue(Append(Tail(micro), ResolveSession(t, found)))
        /\ UNCHANGED <<lost, faults>>
     \/ /\ Buffered(t.visitor) = {}              \* the SELECT throws
        /\ Fault
        /\ lost' = lost \union {t.id}
        /\ Queue(Tail(micro))
  /\ UNCHANGED <<proc, open, mem, disk, now, nextId, kills, signals>>

\* Deliberate fault: the continuation's own record is saved.
UnconvertedEvent(t) == t
TrackedEvent(t) == [id |-> t.id, visitor |-> t.visitor, session |-> t.session,
                    ts |-> t.at \div TicksPerSecond, at |-> t.at]

\* flush(): the buffer is emptied first; the batch is one transaction.
FlushStored(events) == /\ db' = db \o events
                       /\ UNCHANGED <<lost, faults>>
\* Deliberate fault: without a transaction the first row stays.
FlushHalfFailed(events) == /\ events # <<>>
                           /\ Fault
                           /\ lost' = lost \union Ids(events)
                           /\ db' = Append(db, events[1])
FlushFailed(events) == /\ events # <<>>
                       /\ Fault
                       /\ lost' = lost \union Ids(events)
                       /\ UNCHANGED db
Emptied == buffer' = <<>> /\ timer' = "unset"

\* Deliberate faults: the limit is off by one; a pushed event arms no timer.
OverFull(events) == Len(events) > MaxBatch
Full(events) == Len(events) >= MaxBatch
Unscheduled == UNCHANGED timer
Scheduled == timer' = "set"

\* saveBatch([event]): push, schedule, and flush at the size limit.  A failing flush
\* rejects this request's execute() alone, and fireAndForget logs it.
Save ==
  /\ proc # "down" /\ micro # <<>> /\ Head(micro).stage = "save"
  /\ LET pushed == Append(buffer, TrackedEvent(Head(micro))) IN
     IF Full(pushed)
     THEN Emptied /\ (FlushStored(pushed) \/ FlushFailed(pushed))
     ELSE buffer' = pushed /\ Scheduled /\ UNCHANGED <<db, lost, faults>>
  /\ Queue(Tail(micro))
  /\ UNCHANGED <<proc, open, salt, now, nextId, kills, signals>>

-----------------------------------------------------------------------------
\* Timers, jobs, signals.

\* The process is gone: what it held in memory goes with it.
Gone == /\ proc' = "down" /\ open' = 0
        /\ micro' = <<>> /\ slots' = TurnSize
        /\ Emptied

\* The timer's callback is void this.flush(): nobody handles the rejection, and an
\* unhandled rejection ends a Node process.
FlushTimer ==
  /\ Macrotask /\ timer = "set"
  /\ \/ FlushStored(buffer) /\ Emptied /\ UNCHANGED <<proc, open, turn>>
     \/ FlushFailed(buffer) /\ Gone
  /\ UNCHANGED <<salt, now, nextId, kills, signals>>

\* The scheduler's saltRotation job; the scheduler is stopped before draining.
\* A failing UPDATE changes nothing and is caught.
RotateSalt ==
  /\ Macrotask /\ proc = "up" /\ salt < MaxSalt
  /\ salt' = salt + 1
  /\ UNCHANGED <<proc, open, turn, mem, db, now, nextId, lost, faults, kills, signals>>

\* close(): the scheduler stops and the buffer is flushed in the signal's own turn;
\* then fastify waits for the requests it has already accepted.  A failing flush
\* rejects close(), and the process exits at once.
Terminate ==
  /\ Macrotask /\ proc = "up" /\ signals < MaxSignals
  /\ signals' = signals + 1
  /\ \/ FlushStored(buffer) /\ Emptied /\ proc' = "draining" /\ UNCHANGED <<open, turn>>
     \/ FlushFailed(buffer) /\ Gone
  /\ UNCHANGED <<salt, now, nextId, kills>>

\* fastify is closed, then the database, then process.exit.
Exit ==
  /\ Macrotask /\ proc = "draining" /\ open = 0
  /\ Gone
  /\ lost' = lost \union Ids(buffer)
  /\ UNCHANGED <<disk, now, nextId, faults, kills, signals>>

Kill ==
  /\ proc # "down" /\ kills < MaxKills
  /\ kills' = kills + 1
  /\ Gone
  /\ lost' = lost \union Ids(buffer) \union Ids(micro)
  /\ UNCHANGED <<disk, now, nextId, faults, signals>>

Boot == /\ proc = "down"
        /\ proc' = "up"
        /\ UNCHANGED <<open, turn, mem, disk, now, nextId, lost, faults, kills, signals>>

Tick == /\ now < MaxNow
        /\ now' = now + 1
        /\ UNCHANGED <<proc, open, turn, mem, disk, nextId, lost, faults, kills, signals>>

Next == \/ Open \/ Refuse \/ (\E c \in Clients : Dispatch(c))
        \/ Lookup \/ Save
        \/ FlushTimer \/ RotateSalt \/ Terminate \/ Exit
        \/ Kill \/ Boot \/ Tick

Spec == Init /\ [][Next]_vars

\* The engine drains microtasks, and the event loop serves due timers in each turn.
FairSpec == Spec /\ WF_vars(Lookup \/ Save) /\ SF_vars(FlushTimer)
-----------------------------------------------------------------------------
(* Properties *)

\* What ingestion has recorded, in the order of recording.
Log == db \o buffer
InFlight == Ids(micro) \union Ids(buffer)

(* Buffering, batching, failing flushes, crashes and restarts keep to the ledger:  *)
(* each event taken in is stored once or lost once, and batches move whole.        *)
Ledger == INSTANCE EventLedger WITH
            Events <- 1..MaxEvents, pending <- InFlight, stored <- Ids(db)
LedgerSpec == Ledger!Spec

Distinct(events) == \A i, j \in DOMAIN events : events[i].id = events[j].id => i = j

(* No event becomes two rows, nor will: neither the table, nor the buffer, nor the *)
(* continuations hold an event twice (flush() empties the buffer before it saves). *)
EveryRowOnce == Distinct(db) /\ Distinct(buffer) /\ Distinct(micro)

(* A flush is scheduled exactly while something is buffered, and the buffer stays  *)
(* below its limit: saveBatch, flush and the timer's callback keep #buffer and     *)
(* #flushTimer in step whatever order they run in.                                 *)
FlushArmed == /\ timer = "set" <=> buffer # <<>>
              /\ Len(buffer) < MaxBatch

(* Two consecutive recorded events of a visitor share their session exactly when   *)
(* the gap is within the inactivity window, bounds included, wherever flushes,     *)
(* failed flushes, crashes and rotations fall between them.                        *)
SessionsMatchGaps ==
  \A i, j \in DOMAIN Log :
    /\ i < j /\ Log[i].visitor = Log[j].visitor
    /\ ~ \E k \in i+1..j-1 : Log[k].visitor = Log[j].visitor
    => (Log[i].session = Log[j].session <=> Log[j].at - Log[i].at <= Window * TicksPerSecond)

(* A session belongs to one visitor identity, so it never outlives the salt: what  *)
(* a rotation separates, no session id links again.                                *)
SessionHasOneVisitor ==
  \A i, j \in DOMAIN Log : Log[i].session = Log[j].session => Log[i].visitor = Log[j].visitor

(* No event is recorded under a salt that has already been replaced: a rotation    *)
(* finds no handler holding the salt it read before its await.                     *)
RecordsUseCurrentSalt ==
  [][\A i \in DOMAIN Log' :
       Log'[i].id \notin Ids(Log) => Log'[i].visitor[1] = salt']_vars

(* Each failed call, kill or shutdown costs at most one batch and what the current *)
(* turn had in flight; nothing else loses an event.                                *)
LossIsBounded ==
  Cardinality(lost) <= (faults + kills + signals) * (MaxBatch + TurnSize - 1)

(* Every event taken in is stored or lost in the end: none stays in the buffer.    *)
Settles == \A e \in 1..MaxEvents : e < nextId ~> e \in Ids(db) \union lost

(* A persistence failure is logged and survived: the process only goes down when   *)
(* it is killed or told to stop.                                                   *)
FailureIsSurvived == proc = "down" => kills > 0 \/ signals > 0
=============================================================================
