---------------------------------- MODULE Daily ----------------------------------
(* What the server's three jobs do to the database over days of uptime, failures   *)
(* and restarts: saltRotation and retentionPurge every day, rollupBuild every hour,*)
(* each counted from the start of the process.  A tick is the coarsest time that   *)
(* tells the jobs apart; an event is the tick it happened in.  A job's run awaits  *)
(* only synchronous adapters, so nothing but its own continuation runs before it   *)
(* settles, and timers are served within their tick.                               *)
EXTENDS Scheduler, FiniteSets

CONSTANTS DayLength,  \* ticks per UTC day
          Retention,  \* rawEventMonths, in ticks
          Slip        \* the three days that a month may lack, in ticks

CONSTANTS MaxRows, MaxFaults, MaxStops  \* bounds

\* The retention is configured in months, so it is longer than the two days the rollup
\* job looks back on; an hour divides the day.
ASSUME DailyAssumption ==
  /\ Jobs = {"saltRotation", "rollupBuild", "retentionPurge"}
  /\ DayLength \in Nat /\ DayLength > Interval["rollupBuild"]
  /\ Interval["saltRotation"] = DayLength /\ Interval["retentionPurge"] = DayLength
  /\ Retention \in Nat /\ Slip \in Nat /\ Retention - Slip >= 2 * DayLength
  /\ MaxStarts = 1
  /\ MaxRows \in Nat /\ MaxFaults \in Nat /\ MaxStops \in Nat

VARIABLES
  process,    \* "up" or "down"
  buffered,   \* events waiting for the flush, which comes within seconds
  rows,       \* the events table
  rollup,     \* the events that the rollup tables count, each under its own day
  salt,       \* when the current salt was made, Never if there is none
  collected,  \* every event ever stored (history)
  streak,     \* each job's latest failures in a row, up to 3 (history)
  outages,    \* days on which the process was down or a rollup failed (history)
  faults,     \* jobs that threw (history)
  stops       \* ends of the process (history)

events == <<buffered, rows, rollup, collected>>
past == <<streak, outages, faults, stops>>
dailyVars == <<vars, process, events, salt, past>>

Day(t) == t \div DayLength
Of(d, S) == {t \in S : Day(t) = d}

DailyTypeOK ==
  /\ TypeOK
  /\ process \in {"up", "down"}
  /\ buffered \subseteq {now, now - 1}
  /\ rows \subseteq collected /\ rollup \subseteq collected
  /\ collected \subseteq 0..now
  /\ salt \in Nat \union {Never}
  /\ streak \in [Jobs -> 0..3] /\ outages \subseteq 0..Day(now)
  /\ faults \in 0..MaxFaults /\ stops \in 0..MaxStops

DailyInit ==
  /\ now = 0 /\ Fresh
  /\ process = "down"
  /\ buffered = {} /\ rows = {} /\ rollup = {} /\ collected = {}
  /\ salt = Never
  /\ streak = [j \in Jobs |-> 0] /\ outages = {} /\ faults = 0 /\ stops = 0

\* Callbacks of the event loop run when no job is between two of its awaits.
Idle == process = "up" /\ inflight = {}

-----------------------------------------------------------------------------
\* The process.

\* buildServer makes a new Scheduler and starts it.
Boot ==
  /\ process = "down" /\ Start
  /\ process' = "up"
  /\ outages' = outages \union {Day(now)}
  /\ streak' = [j \in Jobs |-> 0]
  /\ UNCHANGED <<events, salt, faults, stops>>

\* The scheduler's memory goes with the process.
Discarded ==
  /\ status' = "stopped" /\ startedAt' = Never
  /\ timers' = {} /\ handles' = [j \in Jobs |-> NoTimer] /\ inflight' = {}
  /\ lastRunAt' = [j \in Jobs |-> Never] /\ hasRun' = {} /\ failed' = {}
  /\ starts' = 0 /\ overtaken' = {}

\* close() flushes what is buffered before the process exits; a kill does not.
Down ==
  /\ Idle /\ stops < MaxStops
  /\ process' = "down" /\ Discarded
  /\ buffered' = {}
  /\ \/ rows' = rows \union buffered /\ collected' = collected \union buffered
     \/ UNCHANGED <<rows, collected>>
  /\ stops' = stops + 1
  /\ outages' = outages \union {Day(now)}
  /\ UNCHANGED <<now, rollup, salt, streak, faults>>

\* An event is buffered, and the first one makes the salt.
Collect ==
  /\ Idle /\ now \notin buffered \union collected
  /\ Cardinality(buffered \union collected) < MaxRows
  /\ buffered' = buffered \union {now}
  /\ salt' = IF salt = Never THEN now ELSE salt
  /\ UNCHANGED <<vars, process, rows, rollup, collected, past>>

Flush ==
  /\ Idle /\ buffered # {}
  /\ rows' = rows \union buffered /\ collected' = collected \union buffered
  /\ buffered' = {}
  /\ UNCHANGED <<vars, process, rollup, salt, past>>

\* Timers are served promptly, and the buffer is flushed within a tick.
Pass ==
  /\ process = "up" => /\ Idle /\ \A t \in timers : t.due > now
                       /\ buffered \subseteq {now}
  /\ Tick
  /\ outages' = IF process = "down" THEN outages \union {Day(now)} ELSE outages
  /\ UNCHANGED <<process, events, salt, streak, faults, stops>>

-----------------------------------------------------------------------------
\* The jobs.

Begin == /\ Idle /\ \E t \in timers : Fire(t)
         /\ UNCHANGED <<process, events, salt, past>>

\* Deliberate fault: the day that is still open is rolled up instead.
LatestDay == Day(now)
RolledUpDay == Day(now) - 1

\* The day's rows are deleted from the rollup tables and computed again.
RollupBuild ==
  /\ rollup' = (rollup \ Of(RolledUpDay, rollup)) \union Of(RolledUpDay, rows)
  /\ UNCHANGED <<buffered, rows, collected, salt>>

\* Deliberate fault: a salt is kept as long as it exists.
KeptSalt == salt' = IF salt = Never THEN now ELSE salt
NewSalt == salt' = now

\* Deliberate fault: the cutoff falls a day too late besides.
EarlierCutoffs == {now - Retention + slip : slip \in 0..Slip + DayLength}
\* setUTCMonth counts months back and keeps the day of the month: where the month
\* it reaches is too short for that day, the surplus runs into the next month.
Cutoffs == {now - Retention + slip : slip \in 0..Slip}

SaltRotation == NewSalt /\ UNCHANGED events
RetentionPurge == /\ \E cutoff \in Cutoffs : rows' = {t \in rows : t >= cutoff}
                  /\ UNCHANGED <<buffered, rollup, collected, salt>>

Finish(r) ==
  /\ Succeed(r)
  /\ \/ r.job = "saltRotation" /\ SaltRotation
     \/ r.job = "rollupBuild" /\ RollupBuild
     \/ r.job = "retentionPurge" /\ RetentionPurge
  /\ streak' = [streak EXCEPT ![r.job] = 0]
  /\ UNCHANGED <<process, outages, faults, stops>>

\* Each job is one statement or one transaction: a failing one changes nothing.
Fail(r) ==
  /\ Throw(r)
  /\ faults < MaxFaults /\ faults' = faults + 1
  /\ streak' = [streak EXCEPT ![r.job] = IF @ = 3 THEN 3 ELSE @ + 1]
  /\ outages' = IF r.job = "rollupBuild" THEN outages \union {Day(now)} ELSE outages
  /\ UNCHANGED <<process, events, salt, stops>>

DailyNext == \/ Boot \/ Down \/ Collect \/ Flush \/ Pass \/ Begin
             \/ \E r \in inflight : Finish(r) \/ Fail(r)

DailySpec == DailyInit /\ [][DailyNext]_dailyVars

-----------------------------------------------------------------------------
\* GET /health.

\* Deliberate fault: two intervals to the tick are already too many.
SoonStale(reference, interval) == now - reference >= 2 * interval
Overdue(reference, interval) == now - reference > 2 * interval

IsJobStale(j) ==
  LET reference == IF lastRunAt[j] # Never THEN lastRunAt[j] ELSE startedAt
  IN  reference # Never /\ Overdue(reference, Interval[j])

\* The answer to a request, by whether the probe's SELECT comes back.
Health(reachable) ==
  [status |-> IF ~ reachable THEN "error"
              ELSE IF \E j \in Jobs : IsJobStale(j) THEN "degraded" ELSE "ok",
   code |-> IF reachable THEN 200 ELSE 503,
   jobs |-> [j \in Jobs |-> [lastRunAt |-> lastRunAt[j], hasRun |-> j \in hasRun,
                             lastRunFailed |-> j \in failed, stale |-> IsJobStale(j)]]]

-----------------------------------------------------------------------------
(* Properties *)

(* A day's rollup is what was collected on it once the next day is over, however   *)
(* late its last flush came, whatever was purged and whatever other jobs failed:   *)
(* only an outage on the very day that should have built it leaves a gap.          *)
ClosedDayIsRolledUp ==
  \A d \in 0..Day(now) :
    d + 1 < Day(now) /\ d + 1 \notin outages => Of(d, rollup) = Of(d, collected)

(* In a process that has been up for a day, and whose last rotation did not fail,  *)
(* the salt is at most a day old.                                                  *)
SaltFollowsUptime ==
  process = "up" /\ now - startedAt > DayLength /\ streak["saltRotation"] = 0 /\ salt # Never
  => now - salt <= DayLength

(* In a process that has been up for a day, and whose last purge did not fail, no  *)
(* raw event outlives the retention by more than the purge's interval; and no      *)
(* event, of any process, is purged more than the calendar's slip before its time. *)
RetentionHolds ==
  /\ process = "up" /\ now - startedAt > DayLength /\ streak["retentionPurge"] = 0
     => \A t \in rows : now - t <= Retention + DayLength
  /\ \A t \in collected \ rows : now - t > Retention - Slip

(* What /health answers between two runs is what the jobs have lived through: one   *)
(* failed run is never an outage, three in a row always are, a database that does  *)
(* not answer is an error whatever the jobs did, and a job is reported as failed   *)
(* exactly while its latest run of this process failed.                            *)
HealthIsHonest ==
  process = "up" /\ inflight = {} =>
    \A reachable \in BOOLEAN :
      LET health == Health(reachable) IN
      /\ health.status = "ok" => reachable /\ \A j \in Jobs : streak[j] < 3
      /\ health.status = "degraded" => reachable /\ \E j \in Jobs : streak[j] >= 2
      /\ health.code = 200 <=> health.status # "error"
      /\ \A j \in Jobs : health.jobs[j].lastRunFailed <=> streak[j] > 0
=============================================================================
