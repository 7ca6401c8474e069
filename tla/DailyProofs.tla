------------------------------- MODULE DailyProofs -------------------------------
(* What the scheduler and its three jobs guarantee, for every length of a day,      *)
(* every retention and every bound.  First the scheduler, for every set of jobs and *)
(* every interval: it keeps one handle per job, and the argument is that this one   *)
(* handle is always the job's pending timer, which is what makes stop() cancel      *)
(* everything.  Then the jobs: the invariant is an account of each, which has       *)
(* exactly one timer or run, and whose next run is due one interval after its       *)
(* reference -- its latest success or, before that, the start -- for each failure   *)
(* since, and one more.                                                             *)
EXTENDS Daily, TLAPS

-----------------------------------------------------------------------------------
(* The scheduler. *)

(* #handles knows the pending timer of every job that was not started over a run. *)
HandleIsTimer == \A j \in Jobs \ overtaken : \A t \in Pending(j) : handles[j] = t

(* A run in flight has been noted as an attempt. *)
RunIsAttempt == \A r \in inflight : r.job \in hasRun

SchedulerInv ==
  /\ TypeOK /\ NoOverlap /\ NoJobIsDropped /\ StopIsQuiet /\ OutcomeIsReported
  /\ HandleIsTimer /\ RunIsAttempt

-----------------------------------------------------------------------------
(* The timer set for a job belongs to that job and is a timer of its chain. *)
LEMMA NextTimerType ==
  ASSUME TypeOK, NEW j \in Jobs, NEW c \in 1..MaxStarts
  PROVE  NextTimer(j, c) \in Timer /\ NextTimer(j, c).job = j
<1>1. now \in Nat /\ Interval[j] \in Nat
  BY SchedulerAssumption, SMT DEF TypeOK, SchedulerAssumption
<1>2. now + Interval[j] \in Nat
  BY <1>1, SMT
<1> QED BY <1>2, SMT DEF NextTimer, Timer

(* A new Scheduler keeps the invariant. *)
LEMMA InitHolds == Init => SchedulerInv
<1> SUFFICES ASSUME Init PROVE SchedulerInv
  OBVIOUS
<1> USE DEF Init, Fresh
<1>1. TypeOK
  <2>1. now \in Nat /\ 0 \in 0..MaxStarts
    BY SchedulerAssumption, SMT DEF SchedulerAssumption
  <2>2. handles \in [Jobs -> Timer \union {NoTimer}]
        /\ lastRunAt \in [Jobs -> Nat \union {Never}]
    OBVIOUS
  <2> QED BY <2>1, <2>2 DEF TypeOK
<1>2. \A j \in Jobs : Pending(j) = {} /\ Running(j) = {}
  BY DEF Pending, Running
<1> QED BY <1>1, <1>2, SMT DEF SchedulerInv, NoOverlap, AtMostOne, NoJobIsDropped, StopIsQuiet,
                         OutcomeIsReported, HandleIsTimer, RunIsAttempt

(* start() finds no timer left over from an earlier chain, except for the jobs it *)
(* overtakes.                                                                     *)
LEMMA StartPreserves == SchedulerInv /\ Start => SchedulerInv'
<1> SUFFICES ASSUME SchedulerInv, Start PROVE SchedulerInv'
  OBVIOUS
<1>1. starts' \in 1..MaxStarts /\ starts' \in 0..MaxStarts /\ now' = now /\ now \in Nat
  BY SchedulerAssumption, SMT DEF SchedulerInv, TypeOK, Start, Startable, SchedulerAssumption
<1>2. \A j \in Jobs : /\ handles'[j] = NextTimer(j, starts')
                      /\ NextTimer(j, starts') \in Timer
                      /\ NextTimer(j, starts').job = j
  BY <1>1, NextTimerType DEF SchedulerInv, Start
<1>3. timers' = timers \union {handles'[j] : j \in Jobs}
  BY DEF Start
<1>4. TypeOK'
  <2>1. handles' \in [Jobs -> Timer]
    BY <1>2 DEF Start
  <2>2. timers' \subseteq Timer
    BY <1>2, <1>3 DEF SchedulerInv, TypeOK
  <2> QED BY <1>1, <2>1, <2>2 DEF SchedulerInv, TypeOK, Start, report
<1>5. \A j \in Jobs : Running(j)' = Running(j)
  BY DEF Start, Running
<1>6. \A j \in Jobs : Pending(j)' = Pending(j) \union {handles'[j]}
  BY <1>2, <1>3, SMT DEF Pending
<1>7. \A j \in Jobs \ overtaken' : /\ j \notin overtaken
                                   /\ Running(j) = {} /\ Pending(j) = {}
  BY DEF SchedulerInv, StopIsQuiet, Start, Startable
<1>8. NoOverlap' /\ HandleIsTimer'
  BY <1>5, <1>6, <1>7, SMT DEF NoOverlap, AtMostOne, HandleIsTimer
<1>9. NoJobIsDropped' /\ StopIsQuiet'
  BY <1>6, SMT DEF NoJobIsDropped, StopIsQuiet, Start
<1>10. OutcomeIsReported' /\ RunIsAttempt'
  BY <1>4, <1>5 DEF SchedulerInv, TypeOK, OutcomeIsReported, RunIsAttempt, Start, report
<1> QED BY <1>4, <1>8, <1>9, <1>10 DEF SchedulerInv

(* stop() cancels the one timer each job has. *)
LEMMA StopPreserves == SchedulerInv /\ Stop => SchedulerInv'
<1> SUFFICES ASSUME SchedulerInv, Stop PROVE SchedulerInv'
  OBVIOUS
<1>1. TypeOK'
  <2>1. handles' \in [Jobs -> Timer \union {NoTimer}] /\ timers' \subseteq Timer
    BY DEF SchedulerInv, TypeOK, Stop
  <2> QED BY <2>1 DEF SchedulerInv, TypeOK, Stop, report, history
<1>2. overtaken' = overtaken /\ \A j \in Jobs : Running(j)' = Running(j)
  BY DEF Stop, Running, history
<1>3. \A j \in Jobs \ overtaken : Pending(j)' = {}
  BY SMT DEF SchedulerInv, HandleIsTimer, Stop, Pending
<1>4. NoOverlap' /\ StopIsQuiet' /\ HandleIsTimer'
  BY <1>2, <1>3, SMT DEF SchedulerInv, NoOverlap, AtMostOne, StopIsQuiet, HandleIsTimer
<1>5. NoJobIsDropped'
  BY SMT DEF NoJobIsDropped, Stop
<1>6. OutcomeIsReported' /\ RunIsAttempt'
  BY <1>1, <1>2 DEF SchedulerInv, TypeOK, OutcomeIsReported, RunIsAttempt, Stop, report
<1> QED BY <1>1, <1>4, <1>5, <1>6 DEF SchedulerInv

(* A timer that fires becomes a run of its job: the job is still in one place. *)
LEMMA FirePreserves == ASSUME SchedulerInv, NEW t \in timers, Fire(t) PROVE SchedulerInv'
<1>1. t \in Timer /\ t.job \in Jobs /\ t.chain \in 1..MaxStarts
  BY SMT DEF SchedulerInv, TypeOK, Timer
<1> DEFINE r == [job |-> t.job, chain |-> t.chain]
<1>2. r \in Run /\ r.job = t.job
  BY <1>1, SMT DEF Run
<1>3. inflight' = inflight \union {r} /\ timers' = timers \ {t}
      /\ hasRun' = hasRun \union {t.job}
  BY DEF Fire, Attempted
<1> HIDE DEF r
<1>4. UNCHANGED <<now, status, startedAt, handles, lastRunAt, failed, starts, overtaken>>
  BY DEF Fire, history
<1>5. TypeOK'
  BY <1>1, <1>2, <1>3, <1>4 DEF SchedulerInv, TypeOK
<1>6. \A j \in Jobs : Pending(j)' = IF j = t.job THEN Pending(j) \ {t} ELSE Pending(j)
  BY <1>3 DEF Pending
<1>7. \A j \in Jobs : Running(j)' = IF j = t.job THEN Running(j) \union {r} ELSE Running(j)
  BY <1>2, <1>3 DEF Running
<1>8. t \in Pending(t.job)
  BY DEF Pending
<1>9. NoOverlap' /\ HandleIsTimer' /\ StopIsQuiet'
  BY <1>4, <1>6, <1>7, <1>8, SMT
     DEF SchedulerInv, NoOverlap, AtMostOne, HandleIsTimer, StopIsQuiet
<1>10. NoJobIsDropped'
  BY <1>4, <1>6, <1>7, SMT DEF SchedulerInv, NoJobIsDropped
<1>11. OutcomeIsReported'
  BY <1>1, <1>3, <1>4, <1>7, SMT DEF SchedulerInv, TypeOK, OutcomeIsReported
<1>12. RunIsAttempt'
  BY <1>2, <1>3 DEF SchedulerInv, RunIsAttempt
<1> QED BY <1>5, <1>9, <1>10, <1>11, <1>12 DEF SchedulerInv

(* What a settling run does to the timers and the handles: it sets its job's next *)
(* timer, which is then the only thing the job has, unless stop() came first.     *)
LEMMA SettlePreserves ==
  ASSUME SchedulerInv, NEW r \in inflight, ScheduledNext(r), inflight' = inflight \ {r},
         UNCHANGED <<now, status, startedAt, hasRun, starts, overtaken>>
  PROVE  /\ timers' \subseteq Timer /\ handles' \in [Jobs -> Timer \union {NoTimer}]
         /\ inflight' \subseteq Run
         /\ \A j \in Jobs : Running(j)' = Running(j) \ {r}
         /\ \A j \in Jobs \ {r.job} : Running(j)' = Running(j)
         /\ NoOverlap' /\ NoJobIsDropped' /\ StopIsQuiet' /\ HandleIsTimer' /\ RunIsAttempt'
<1>1. r \in Run /\ r.job \in Jobs /\ r.chain \in 1..MaxStarts
  BY SMT DEF SchedulerInv, TypeOK, Run
<1> DEFINE t == NextTimer(r.job, r.chain)
<1>2. t \in Timer /\ t.job = r.job
  BY <1>1, NextTimerType DEF SchedulerInv
<1>3. \/ status = "running" /\ timers' = timers \union {t}
         /\ handles' = [handles EXCEPT ![r.job] = t]
      \/ status = "stopped" /\ timers' = timers /\ handles' = handles
  BY DEF ScheduledNext, SchedulerInv, TypeOK
<1> HIDE DEF t
<1>4. timers' \subseteq Timer /\ handles' \in [Jobs -> Timer \union {NoTimer}]
      /\ inflight' \subseteq Run
  BY <1>1, <1>2, <1>3 DEF SchedulerInv, TypeOK
<1>5. /\ \A j \in Jobs : Running(j)' = Running(j) \ {r}
      /\ \A j \in Jobs \ {r.job} : Running(j)' = Running(j)
  BY DEF Running
<1>6. \A j \in Jobs : r.job = j => r \in Running(j)
  BY DEF Running
<1>7. RunIsAttempt'
  BY DEF SchedulerInv, RunIsAttempt
<1>8. CASE status = "stopped" /\ timers' = timers /\ handles' = handles
  <2>1. \A j \in Jobs : Pending(j)' = Pending(j)
    BY <1>8 DEF Pending
  <2>2. NoOverlap' /\ StopIsQuiet' /\ HandleIsTimer'
    BY <1>5, <1>8, <2>1, SMT
       DEF SchedulerInv, NoOverlap, AtMostOne, StopIsQuiet, HandleIsTimer
  <2>3. NoJobIsDropped'
    BY <1>8, SMT DEF NoJobIsDropped
  <2> QED BY <1>4, <1>5, <1>7, <2>2, <2>3
<1>9. CASE /\ status = "running" /\ timers' = timers \union {t}
           /\ handles' = [handles EXCEPT ![r.job] = t]
  <2>1. \A j \in Jobs : Pending(j)' = IF j = r.job THEN Pending(j) \union {t} ELSE Pending(j)
    BY <1>2, <1>9 DEF Pending
  <2>2. handles'[r.job] = t /\ \A j \in Jobs \ {r.job} : handles'[j] = handles[j]
    BY <1>1, <1>9 DEF SchedulerInv, TypeOK
  <2>3. r.job \notin overtaken => Pending(r.job) = {} /\ Running(r.job)' = {}
    BY <1>1, <1>5, <1>6, SMT DEF SchedulerInv, NoOverlap, AtMostOne
  <2>4. NoOverlap'
    BY <1>5, <2>1, <2>3, SMT DEF SchedulerInv, NoOverlap, AtMostOne
  <2>5. HandleIsTimer'
    BY <2>1, <2>2, <2>3, SMT DEF SchedulerInv, HandleIsTimer
  <2>6. NoJobIsDropped' /\ StopIsQuiet'
    BY <1>5, <1>9, <2>1, SMT DEF SchedulerInv, NoJobIsDropped, StopIsQuiet
  <2> QED BY <1>4, <1>5, <1>7, <2>4, <2>5, <2>6
<1> QED BY <1>3, <1>8, <1>9

(* A run that succeeds. *)
LEMMA SucceedPreserves == ASSUME SchedulerInv, NEW r \in inflight, Succeed(r) PROVE SchedulerInv'
<1>1. r.job \in Jobs /\ now \in Nat
  BY SMT DEF SchedulerInv, TypeOK, Run
<1>2. UNCHANGED <<now, status, startedAt, hasRun, starts, overtaken>>
      /\ lastRunAt' = [lastRunAt EXCEPT ![r.job] = now] /\ failed' = failed \ {r.job}
      /\ inflight' = inflight \ {r} /\ ScheduledNext(r)
  BY DEF Succeed, history
<1>3. /\ timers' \subseteq Timer /\ handles' \in [Jobs -> Timer \union {NoTimer}]
      /\ inflight' \subseteq Run
      /\ \A j \in Jobs \ {r.job} : Running(j)' = Running(j)
      /\ NoOverlap' /\ NoJobIsDropped' /\ StopIsQuiet' /\ HandleIsTimer' /\ RunIsAttempt'
  BY <1>2, SettlePreserves
<1>4. lastRunAt' \in [Jobs -> Nat \union {Never}]
  BY <1>1, <1>2 DEF SchedulerInv, TypeOK
<1>5. TypeOK'
  BY <1>2, <1>3, <1>4 DEF SchedulerInv, TypeOK
<1>6. lastRunAt'[r.job] = now /\ \A j \in Jobs \ {r.job} : lastRunAt'[j] = lastRunAt[j]
  BY <1>1, <1>2 DEF SchedulerInv, TypeOK
<1>7. now # Never /\ hasRun' \subseteq Jobs
  BY <1>1, <1>5, SMT DEF Never, TypeOK
<1>8. OutcomeIsReported'
  BY <1>2, <1>3, <1>6, <1>7 DEF SchedulerInv, OutcomeIsReported
<1> QED BY <1>3, <1>5, <1>8 DEF SchedulerInv

(* A run that throws leaves the trace that /health reports. *)
LEMMA ThrowPreserves == ASSUME SchedulerInv, NEW r \in inflight, Throw(r) PROVE SchedulerInv'
<1>1. r.job \in hasRun /\ r.job \in Jobs
  BY DEF SchedulerInv, TypeOK, RunIsAttempt
<1>2. UNCHANGED <<now, status, startedAt, hasRun, lastRunAt, starts, overtaken>>
      /\ failed' = failed \union {r.job}
      /\ inflight' = inflight \ {r} /\ ScheduledNext(r)
  BY DEF Throw, Recorded, history
<1>3. /\ timers' \subseteq Timer /\ handles' \in [Jobs -> Timer \union {NoTimer}]
      /\ inflight' \subseteq Run
      /\ \A j \in Jobs \ {r.job} : Running(j)' = Running(j)
      /\ NoOverlap' /\ NoJobIsDropped' /\ StopIsQuiet' /\ HandleIsTimer' /\ RunIsAttempt'
  BY <1>2, SettlePreserves
<1>4. TypeOK'
  BY <1>1, <1>2, <1>3 DEF SchedulerInv, TypeOK
<1>5. OutcomeIsReported'
  BY <1>2, <1>3 DEF SchedulerInv, TypeOK, OutcomeIsReported
<1> QED BY <1>3, <1>4, <1>5 DEF SchedulerInv

(* Time passes. *)
LEMMA TickPreserves == SchedulerInv /\ Tick => SchedulerInv'
<1> SUFFICES ASSUME SchedulerInv, Tick PROVE SchedulerInv'
  OBVIOUS
<1> USE DEF Tick, schedulerVars
<1>1. now' \in Nat
  BY SMT DEF SchedulerInv, TypeOK
<1>2. TypeOK'
  BY <1>1 DEF SchedulerInv, TypeOK
<1>3. \A j \in Jobs : Pending(j)' = Pending(j) /\ Running(j)' = Running(j)
  BY DEF Pending, Running
<1>4. NoOverlap' /\ NoJobIsDropped' /\ StopIsQuiet'
  BY <1>3 DEF SchedulerInv, NoOverlap, NoJobIsDropped, StopIsQuiet, AtMostOne
<1>5. OutcomeIsReported' /\ HandleIsTimer' /\ RunIsAttempt'
  BY <1>2, <1>3 DEF SchedulerInv, TypeOK, OutcomeIsReported, HandleIsTimer, RunIsAttempt
<1> QED BY <1>2, <1>4, <1>5 DEF SchedulerInv

(* Every step of the scheduler keeps the invariant. *)
LEMMA NextPreserves == SchedulerInv /\ [Next]_vars => SchedulerInv'
<1> SUFFICES ASSUME SchedulerInv, [Next]_vars PROVE SchedulerInv'
  OBVIOUS
<1>1. CASE UNCHANGED vars
  <2> USE <1>1 DEF vars, schedulerVars
  <2>1. TypeOK' /\ \A j \in Jobs : Pending(j)' = Pending(j) /\ Running(j)' = Running(j)
    BY DEF SchedulerInv, TypeOK, Pending, Running
  <2>2. NoOverlap' /\ NoJobIsDropped' /\ StopIsQuiet'
    BY <2>1 DEF SchedulerInv, NoOverlap, NoJobIsDropped, StopIsQuiet, AtMostOne
  <2>3. OutcomeIsReported' /\ HandleIsTimer' /\ RunIsAttempt'
    BY <2>1 DEF SchedulerInv, TypeOK, OutcomeIsReported, HandleIsTimer, RunIsAttempt
  <2> QED BY <2>1, <2>2, <2>3 DEF SchedulerInv
<1>2. CASE Start
  BY <1>2, StartPreserves
<1>3. CASE Stop
  BY <1>3, StopPreserves
<1>4. CASE Tick
  BY <1>4, TickPreserves
<1>5. CASE \E t \in timers : Fire(t)
  BY <1>5, FirePreserves
<1>6. CASE \E r \in inflight : Succeed(r) \/ Throw(r)
  BY <1>6, SucceedPreserves, ThrowPreserves
<1> QED BY <1>1, <1>2, <1>3, <1>4, <1>5, <1>6 DEF Next

(* The inductive invariant: one handle per job is enough to know all its timers. *)
THEOREM SchedulerInvariant == Spec => []SchedulerInv
  BY InitHolds, NextPreserves, PTL DEF Spec

(* Type correctness; a job is reported as failed only after an attempt. *)
THEOREM SchedulerTypeCorrect == Spec => []TypeOK
<1>1. SchedulerInv => TypeOK
  BY DEF SchedulerInv
<1> QED BY <1>1, SchedulerInvariant, PTL

(* The doc comment of Scheduler: a slow or failing run never causes overlapping *)
(* executions of the same job, as long as start() does not overtake a run.      *)
THEOREM RunsNeverOverlap == Spec => []NoOverlap
<1>1. SchedulerInv => NoOverlap
  BY DEF SchedulerInv
<1> QED BY <1>1, SchedulerInvariant, PTL

(* Whatever a run does, the finally block of #runJob sets the job's next timer. *)
THEOREM JobsAreKept == Spec => []NoJobIsDropped
<1>1. SchedulerInv => NoJobIsDropped
  BY DEF SchedulerInv
<1> QED BY <1>1, SchedulerInvariant, PTL

(* stop() leaves nothing that can fire, and nothing sets a timer after it. *)
THEOREM StoppedIsQuiet == Spec => []StopIsQuiet
<1>1. SchedulerInv => StopIsQuiet
  BY DEF SchedulerInv
<1> QED BY <1>1, SchedulerInvariant, PTL

(* getJobStatuses() never hides that a job has only ever failed. *)
THEOREM FailuresAreReported == Spec => []OutcomeIsReported
<1>1. SchedulerInv => OutcomeIsReported
  BY DEF SchedulerInv
<1> QED BY <1>1, SchedulerInvariant, PTL

-----------------------------------------------------------------------------------
(* The jobs. *)

\* A process that is down keeps nothing; one that is up runs its scheduler's one start.
Lifecycle ==
  /\ process = "down" => /\ status = "stopped" /\ starts = 0 /\ timers = {}
                         /\ inflight = {} /\ buffered = {} /\ failed = {} /\ hasRun = {}
                         /\ lastRunAt = [j \in Jobs |-> Never]
  /\ process = "up" => status = "running" /\ startedAt \in 0..now
  /\ \A j \in Jobs : lastRunAt[j] <= now
  /\ \A r \in inflight : r.job \in hasRun
  /\ buffered \subseteq Nat

OneTimerOrRun ==
  /\ \A t, u \in timers : t.job = u.job => t = u
  /\ \A r, q \in inflight : r = q
  /\ \A t \in timers, r \in inflight : t.job # r.job
  /\ process = "up" =>
       \A j \in Jobs : (\E t \in timers : t.job = j) \/ (\E r \in inflight : r.job = j)

Reference(j) == IF lastRunAt[j] # Never THEN lastRunAt[j] ELSE startedAt

\* A run of j at time due comes after streak[j] failures, one interval apart.
Owed(j, due) ==
  \/ streak[j] = 0 /\ due = Reference(j) + Interval[j]
  \/ streak[j] = 1 /\ due = Reference(j) + 2 * Interval[j]
  \/ streak[j] = 2 /\ due = Reference(j) + 3 * Interval[j]
  \/ streak[j] = 3 /\ due >= Reference(j) + 4 * Interval[j]

OnTime ==
  /\ \A t \in timers : /\ now <= t.due /\ t.due <= now + Interval[t.job]
                       /\ Owed(t.job, t.due)
  /\ \A r \in inflight : Owed(r.job, now)

FailuresShow == process = "up" => \A j \in Jobs : j \in failed <=> streak[j] > 0

RotationShows ==
  lastRunAt["saltRotation"] # Never => salt # Never /\ salt >= lastRunAt["saltRotation"]

PurgeShows ==
  lastRunAt["retentionPurge"] # Never =>
    \A t \in rows : t >= lastRunAt["retentionPurge"] - Retention

NothingPurgedEarly == \A t \in collected \ rows : now - t > Retention - Slip

DailyInv == /\ DailyTypeOK /\ Lifecycle /\ OneTimerOrRun /\ OnTime
            /\ FailuresShow /\ RotationShows /\ PurgeShows /\ NothingPurgedEarly

(* The UTC day of a later moment is no earlier. *)
LEMMA DayGrows == ASSUME NEW n \in Nat PROVE Day(n) \in Nat /\ Day(n) <= Day(n + 1)
  BY DailyAssumption, SchedulerAssumption DEF Day
(* An outage is noted on the day it falls on. *)
LEMMA OutagesArePast ==
  ASSUME now \in Nat, now' = now \/ now' = now + 1, outages \subseteq 0..Day(now),
         outages' \subseteq outages \union {Day(now)}
  PROVE  outages' \subseteq 0..Day(now')
<1>1. now' \in Nat
  OBVIOUS
<1>2. Day(now) \in Nat /\ Day(now') \in Nat /\ Day(now) <= Day(now')
  BY <1>1, DayGrows
<1> DEFINE d == Day(now)
<1> DEFINE e == Day(now')
<1>3. d \in Nat /\ e \in Nat /\ d <= e
  BY <1>2
<1>4. outages \subseteq 0..d /\ outages' \subseteq outages \union {d}
  OBVIOUS
<1> HIDE DEF d, e
<1>5. outages' \subseteq 0..e
  BY <1>3, <1>4
<1> QED BY <1>5 DEF e

(* The process starts with an account that balances. *)
LEMMA InitDailyInv == DailyInit => DailyInv
  BY DailyAssumption, SchedulerAssumption, DayGrows
  DEF DailyInit, Fresh, DailyInv, DailyTypeOK, TypeOK, Lifecycle, OneTimerOrRun, OnTime,
      FailuresShow, RotationShows, PurgeShows, NothingPurgedEarly, Day, Never

(* Starting the scheduler gives every job one timer, an interval from now. *)
LEMMA BootKeepsInv == DailyInv /\ Boot => DailyInv'
<1> SUFFICES ASSUME DailyInv, Boot PROVE DailyInv'
  OBVIOUS
<1> USE DailyAssumption, SchedulerAssumption
<1>1. /\ timers' = {NextTimer(j, 1) : j \in Jobs}
      /\ \A j \in Jobs : NextTimer(j, 1) \in Timer
      /\ handles' = [j \in Jobs |-> NextTimer(j, 1)]
      /\ starts = 0 /\ starts' = 1
  BY DEF DailyInv, Lifecycle, DailyTypeOK, TypeOK, Boot, Start, Startable, NextTimer, Timer
<1>2. DailyTypeOK'
  <2>1. TypeOK'
    BY <1>1 DEF DailyInv, Lifecycle, DailyTypeOK, TypeOK, Boot, Start, Startable, report
  <2>2. outages' \subseteq 0..Day(now')
    BY OutagesArePast DEF DailyInv, DailyTypeOK, TypeOK, Boot, Start
  <2> QED BY <2>1, <2>2 DEF DailyInv, DailyTypeOK, TypeOK, Boot, Start, events
<1>3. Lifecycle'
  BY DEF DailyInv, Lifecycle, DailyTypeOK, TypeOK, Boot, Start, report, events
<1>4. OneTimerOrRun'
  BY <1>1 DEF DailyInv, Lifecycle, Boot, Start, OneTimerOrRun, NextTimer
<1>5. OnTime'
  <2>1. \A j \in Jobs : Owed(j, now + Interval[j])'
    BY DEF DailyInv, Lifecycle, DailyTypeOK, TypeOK, Boot, Start, report, Owed, Reference, Never
  <2>2. inflight' = {} /\ now' = now /\ now \in Nat
    BY DEF DailyInv, Lifecycle, DailyTypeOK, TypeOK, Boot, Start
  <2>3. \A t \in timers' : t.job \in Jobs /\ t.due = now + Interval[t.job]
    BY <1>1 DEF NextTimer
  <2> QED BY <2>1, <2>2, <2>3 DEF OnTime
<1>6. FailuresShow' /\ RotationShows' /\ PurgeShows' /\ NothingPurgedEarly'
  BY DEF DailyInv, Lifecycle, Boot, Start, report, events, FailuresShow, RotationShows,
         PurgeShows, NothingPurgedEarly
<1> QED BY <1>2, <1>3, <1>4, <1>5, <1>6 DEF DailyInv

(* A process that ends leaves the database and nothing else. *)
LEMMA DownKeepsInv == DailyInv /\ Down => DailyInv'
<1> SUFFICES ASSUME DailyInv, Down PROVE DailyInv'
  OBVIOUS
<1> USE DailyAssumption, SchedulerAssumption
<1>1. DailyTypeOK'
  <2>1. TypeOK'
    BY DEF DailyInv, DailyTypeOK, TypeOK, Down, Discarded
  <2>2. outages' \subseteq 0..Day(now')
    BY OutagesArePast DEF DailyInv, DailyTypeOK, TypeOK, Down
  <2>3. now \in Nat /\ now' = now /\ buffered \subseteq 0..now
    BY DEF DailyInv, Lifecycle, DailyTypeOK, TypeOK, Down
  <2>4. rows' \subseteq collected' /\ rollup' \subseteq collected' /\ collected' \subseteq 0..now'
    BY <2>3 DEF DailyInv, DailyTypeOK, Down
  <2>5. stops' \in 0..MaxStops
    BY DEF DailyInv, DailyTypeOK, Down
  <2> QED BY <2>1, <2>2, <2>4, <2>5 DEF DailyInv, DailyTypeOK, Down
<1>2. Lifecycle' /\ OneTimerOrRun' /\ OnTime'
  BY DEF DailyInv, DailyTypeOK, TypeOK, Down, Discarded, Lifecycle, OneTimerOrRun, OnTime, Never
<1>3. FailuresShow' /\ RotationShows' /\ PurgeShows'
  BY DEF Down, Discarded, FailuresShow, RotationShows, PurgeShows
<1>4. NothingPurgedEarly'
  BY DEF DailyInv, Down, NothingPurgedEarly
<1> QED BY <1>1, <1>2, <1>3, <1>4 DEF DailyInv

(* Collecting an event and flushing the buffer leave the jobs alone, and what is   *)
(* flushed is at most a tick old.                                                  *)
LEMMA EventsKeepInv == DailyInv /\ (Collect \/ Flush) => DailyInv'
<1> SUFFICES ASSUME DailyInv, Collect \/ Flush PROVE DailyInv'
  OBVIOUS
<1> USE DailyAssumption, SchedulerAssumption
<1>1. UNCHANGED <<vars, process, past, rollup>> /\ process = "up"
  BY DEF Collect, Flush, Idle
<1>2. /\ now \in Nat /\ buffered' \subseteq {now, now - 1} /\ buffered' \subseteq Nat
      /\ rows' \subseteq collected' /\ collected \subseteq collected'
      /\ collected' \subseteq 0..now
      /\ salt' \in Nat \union {Never} /\ (salt # Never => salt' = salt)
      /\ \A t \in rows' \ rows : t >= now - 1
      /\ collected' \ rows' \subseteq collected \ rows
  <2>1. now \in Nat /\ buffered \subseteq {now, now - 1} /\ buffered \subseteq 0..now
    BY DEF DailyInv, DailyTypeOK, TypeOK, Lifecycle
  <2>2. rows \subseteq collected /\ collected \subseteq 0..now /\ salt \in Nat \union {Never}
    BY DEF DailyInv, DailyTypeOK
  <2>3. CASE Collect
    BY <2>1, <2>2, <2>3 DEF Collect
  <2>4. CASE Flush
    BY <2>1, <2>2, <2>4 DEF Flush
  <2> QED BY <2>3, <2>4
<1>3. DailyTypeOK'
  <2>1. TypeOK'
    BY <1>1 DEF DailyInv, DailyTypeOK, TypeOK, vars, schedulerVars
  <2>2. outages' \subseteq 0..Day(now')
    BY <1>1 DEF DailyInv, DailyTypeOK, vars, past, Day
  <2> QED BY <1>1, <1>2, <2>1, <2>2 DEF DailyInv, DailyTypeOK, vars, past
<1>4. Lifecycle' /\ OneTimerOrRun' /\ OnTime' /\ FailuresShow'
  BY <1>1, <1>2 DEF DailyInv, vars, schedulerVars, past, Lifecycle, OneTimerOrRun, OnTime,
     Owed, Reference, FailuresShow
<1>5. RotationShows' /\ NothingPurgedEarly'
  BY <1>1, <1>2 DEF DailyInv, vars, schedulerVars, RotationShows, NothingPurgedEarly
<1>6. PurgeShows'
  <2>1. lastRunAt["retentionPurge"] \in Nat \union {Never}
        /\ lastRunAt["retentionPurge"] <= now /\ lastRunAt' = lastRunAt
    BY <1>1 DEF DailyInv, DailyTypeOK, TypeOK, Lifecycle, vars, schedulerVars
  <2>2. Retention \in Nat /\ Retention >= 1 /\ Retention \in Int
    OBVIOUS
  <2>3. rows' \subseteq Int
    BY <1>2
  <2> QED BY <1>2, <2>1, <2>2, <2>3 DEF DailyInv, PurgeShows, Never
<1> QED BY <1>3, <1>4, <1>5, <1>6 DEF DailyInv

(* Time passes only when no timer is due. *)
LEMMA PassKeepsInv == DailyInv /\ Pass => DailyInv'
<1> SUFFICES ASSUME DailyInv, Pass PROVE DailyInv'
  OBVIOUS
<1> USE DailyAssumption, SchedulerAssumption
<1>1. /\ now \in Nat /\ now' = now + 1
      /\ UNCHANGED <<schedulerVars, process, events, salt, streak, faults, stops>>
      /\ inflight = {} /\ buffered \subseteq {now} /\ \A t \in timers : t.due > now
  BY DEF DailyInv, DailyTypeOK, TypeOK, Lifecycle, Pass, Tick, Idle
<1>2. DailyTypeOK'
  <2>1. TypeOK'
    BY <1>1 DEF DailyInv, DailyTypeOK, TypeOK, schedulerVars
  <2>2. outages' \subseteq 0..Day(now')
    <3>1. outages' \subseteq outages \union {Day(now)} /\ outages \subseteq 0..Day(now)
      BY DEF DailyInv, DailyTypeOK, Pass
    <3> QED BY <1>1, <3>1, OutagesArePast
  <2> QED BY <1>1, <2>1, <2>2 DEF DailyInv, DailyTypeOK, events
<1>3. Lifecycle' /\ OneTimerOrRun' /\ FailuresShow' /\ RotationShows' /\ PurgeShows'
  BY <1>1 DEF DailyInv, DailyTypeOK, TypeOK, schedulerVars, events, Lifecycle, OneTimerOrRun,
     FailuresShow, RotationShows, PurgeShows, Never
<1>4. OnTime'
  <2>1. \A t \in timers : t.due \in Nat /\ Interval[t.job] \in Nat /\ t.job \in Jobs
    BY DEF DailyInv, DailyTypeOK, TypeOK, Timer
  <2>2. \A j \in Jobs : \A due \in Nat : Owed(j, due)' <=> Owed(j, due)
    BY <1>1 DEF schedulerVars, Owed, Reference
  <2> QED BY <1>1, <2>1, <2>2 DEF DailyInv, OnTime, schedulerVars
<1>5. NothingPurgedEarly'
  <2>1. collected \subseteq Int
    BY DEF DailyInv, DailyTypeOK
  <2> QED BY <1>1, <2>1 DEF DailyInv, NothingPurgedEarly, events
<1> QED BY <1>2, <1>3, <1>4, <1>5 DEF DailyInv

(* A timer that fires is due at that very moment. *)
LEMMA BeginKeepsInv == DailyInv /\ Begin => DailyInv'
<1> SUFFICES ASSUME DailyInv, Begin PROVE DailyInv'
  OBVIOUS
<1> USE DailyAssumption, SchedulerAssumption
<1>1. PICK t \in timers : Fire(t)
  BY DEF Begin
<1>2. /\ t \in Timer /\ t.job \in Jobs /\ t.chain \in 1..MaxStarts /\ t.due = now
      /\ process = "up" /\ inflight = {}
      /\ inflight' = {[job |-> t.job, chain |-> t.chain]} /\ timers' = timers \ {t}
      /\ hasRun' = hasRun \union {t.job}
      /\ UNCHANGED <<now, status, startedAt, handles, lastRunAt, failed, history>>
      /\ UNCHANGED <<process, events, salt, past>>
  BY <1>1 DEF DailyInv, DailyTypeOK, TypeOK, OnTime, Begin, Fire, Attempted, Idle, Timer
<1>3. DailyTypeOK'
  <2>1. TypeOK'
    <3>1. inflight' \subseteq Run /\ timers' \subseteq Timer
      BY <1>2 DEF DailyInv, DailyTypeOK, TypeOK, Run
    <3>2. hasRun' \subseteq Jobs /\ failed' \subseteq hasRun'
      BY <1>2 DEF DailyInv, DailyTypeOK, TypeOK
    <3> QED BY <1>2, <3>1, <3>2 DEF DailyInv, DailyTypeOK, TypeOK, history
  <2>2. outages' \subseteq 0..Day(now')
    BY <1>2 DEF DailyInv, DailyTypeOK, past, Day
  <2> QED BY <1>2, <2>1, <2>2 DEF DailyInv, DailyTypeOK, events, past
<1>4. Lifecycle' /\ FailuresShow' /\ RotationShows' /\ PurgeShows' /\ NothingPurgedEarly'
  BY <1>2 DEF DailyInv, Lifecycle, FailuresShow, RotationShows, PurgeShows,
     NothingPurgedEarly, events, past
<1>5. OneTimerOrRun'
  BY <1>2 DEF DailyInv, OneTimerOrRun
<1>6. OnTime'
  <2>1. \A j \in Jobs : \A due \in Nat : Owed(j, due)' <=> Owed(j, due)
    BY <1>2 DEF past, Owed, Reference
  <2>2. \A u \in timers : u.job \in Jobs /\ u.due \in Nat
    BY DEF DailyInv, DailyTypeOK, TypeOK, Timer
  <2>3. now \in Nat
    BY DEF DailyInv, DailyTypeOK, TypeOK
  <2> QED BY <1>2, <2>1, <2>2, <2>3 DEF DailyInv, OnTime
<1> QED BY <1>3, <1>4, <1>5, <1>6 DEF DailyInv

\* What the end of a run does to the scheduler, however it ends.
Settled(r) ==
  /\ r \in inflight /\ inflight' = {}
  /\ timers' = timers \union {NextTimer(r.job, r.chain)}
  /\ handles' = [handles EXCEPT ![r.job] = NextTimer(r.job, r.chain)]
  /\ UNCHANGED <<now, status, startedAt, hasRun, history, process, buffered, stops>>

(* A run that settles leaves its job with one timer, due an interval from now. *)
LEMMA SettledKeepsChain ==
  ASSUME DailyInv, NEW r \in inflight, Settled(r),
         [j \in Jobs \ {r.job} |-> <<lastRunAt[j], streak[j]>>]'
           = [j \in Jobs \ {r.job} |-> <<lastRunAt[j], streak[j]>>],
         Owed(r.job, now + Interval[r.job])'
  PROVE  /\ OneTimerOrRun' /\ OnTime'
         /\ timers' \subseteq Timer /\ handles' \in [Jobs -> Timer \union {NoTimer}]
<1> USE DailyAssumption, SchedulerAssumption
<1>1. /\ r.job \in Jobs /\ r.chain \in 1..MaxStarts /\ now \in Nat
      /\ NextTimer(r.job, r.chain) \in Timer
  BY DEF DailyInv, DailyTypeOK, TypeOK, Run, Timer, NextTimer
<1>2. \A t \in timers : t.job \in Jobs /\ t.due \in Nat /\ t.job # r.job
  BY DEF DailyInv, DailyTypeOK, TypeOK, Timer, OneTimerOrRun
<1>3. OneTimerOrRun'
  <2>1. NextTimer(r.job, r.chain).job = r.job
    BY DEF NextTimer
  <2> QED BY <1>2, <2>1 DEF DailyInv, OneTimerOrRun, Settled
<1>4. OnTime'
  <2>1. \A t \in timers : Owed(t.job, t.due)'
    <3> SUFFICES ASSUME NEW t \in timers PROVE Owed(t.job, t.due)'
      OBVIOUS
    <3>1. lastRunAt'[t.job] = lastRunAt[t.job] /\ streak'[t.job] = streak[t.job]
      BY <1>2
    <3> QED BY <3>1 DEF DailyInv, OnTime, Owed, Reference, Settled
  <2>2. \A t \in timers : now <= t.due /\ t.due <= now + Interval[t.job]
    BY DEF DailyInv, OnTime
  <2>3. /\ NextTimer(r.job, r.chain).job = r.job
        /\ NextTimer(r.job, r.chain).due = now + Interval[r.job]
    BY DEF NextTimer
  <2> QED BY <1>1, <2>1, <2>2, <2>3 DEF OnTime, Settled
<1>5. timers' \subseteq Timer /\ handles' \in [Jobs -> Timer \union {NoTimer}]
  BY <1>1 DEF DailyInv, DailyTypeOK, TypeOK, Settled
<1> QED BY <1>3, <1>4, <1>5

(* A run settles into exactly one new timer of its job. *)
LEMMA RunsSettle ==
  ASSUME DailyInv, NEW r \in inflight, Finish(r) \/ Fail(r)
  PROVE  Settled(r) /\ r.job \in Jobs /\ process = "up"
<1>1. process = "up" /\ status = "running" /\ inflight \ {r} = {} /\ r.job \in Jobs
  BY DEF DailyInv, Lifecycle, OneTimerOrRun, DailyTypeOK, TypeOK, Run
<1>2. ScheduledNext(r) /\ inflight' = {}
      /\ UNCHANGED <<now, status, startedAt, hasRun, history, process, stops>>
  BY <1>1 DEF Finish, Fail, Succeed, Throw
<1>3. buffered' = buffered
  BY DEF Finish, Fail, events, SaltRotation, RollupBuild, RetentionPurge
<1> QED BY <1>1, <1>2, <1>3 DEF ScheduledNext, Settled

(* A run that succeeds settles its job's account, and does what the job is for. *)
LEMMA FinishKeepsInv ==
  ASSUME DailyInv, NEW r \in inflight, Finish(r)
  PROVE  DailyInv'
<1> USE DailyAssumption, SchedulerAssumption
<1>1. Settled(r) /\ r.job \in Jobs /\ process = "up"
  BY RunsSettle
<1>2. /\ lastRunAt' = [lastRunAt EXCEPT ![r.job] = now]
      /\ failed' = failed \ {r.job}
      /\ streak' = [streak EXCEPT ![r.job] = 0]
      /\ UNCHANGED <<outages, faults>>
  BY DEF Finish, Succeed
<1>3. now \in Nat /\ lastRunAt \in [Jobs -> Nat \union {Never}] /\ streak \in [Jobs -> 0..3]
  BY DEF DailyInv, DailyTypeOK, TypeOK
<1>4. /\ OneTimerOrRun' /\ OnTime'
      /\ timers' \subseteq Timer /\ handles' \in [Jobs -> Timer \union {NoTimer}]
  <2>1. Owed(r.job, now + Interval[r.job])'
    BY <1>1, <1>2, <1>3 DEF Owed, Reference, Never, Settled
  <2>2. [j \in Jobs \ {r.job} |-> <<lastRunAt[j], streak[j]>>]'
          = [j \in Jobs \ {r.job} |-> <<lastRunAt[j], streak[j]>>]
    BY <1>2, <1>3
  <2> QED BY <1>1, <2>1, <2>2, SettledKeepsChain
<1>5. /\ rows' \subseteq rows /\ collected' = collected /\ rollup' \subseteq collected
      /\ salt' \in Nat \union {Never}
  BY <1>3 DEF DailyInv, DailyTypeOK, Finish, SaltRotation, RollupBuild, RetentionPurge,
     NewSalt, events, Of
<1>6. DailyTypeOK'
  <2>1. TypeOK'
    BY <1>1, <1>2, <1>3, <1>4 DEF DailyInv, DailyTypeOK, TypeOK, Settled, history
  <2>2. outages' \subseteq 0..Day(now')
    BY <1>1, <1>2 DEF DailyInv, DailyTypeOK, Settled, Day
  <2> QED BY <1>1, <1>2, <1>3, <1>5, <2>1, <2>2 DEF DailyInv, DailyTypeOK, Settled
<1>7. Lifecycle' /\ FailuresShow'
  BY <1>1, <1>2, <1>3 DEF DailyInv, Lifecycle, FailuresShow, Settled
<1>8. RotationShows'
  <2>1. CASE r.job = "saltRotation"
    BY <1>2, <1>3, <2>1 DEF Finish, SaltRotation, NewSalt, RotationShows, Never
  <2>2. CASE r.job # "saltRotation"
    BY <1>2, <1>3, <2>2 DEF DailyInv, Finish, RollupBuild, RetentionPurge, RotationShows
  <2> QED BY <2>1, <2>2
<1>9. PurgeShows' /\ NothingPurgedEarly'
  <2>1. CASE r.job = "retentionPurge"
    <3>1. PICK cutoff \in Cutoffs : rows' = {t \in rows : t >= cutoff}
      BY <2>1 DEF Finish, RetentionPurge
    <3>2. PICK slip \in 0..Slip : cutoff = now - Retention + slip
      BY DEF Cutoffs
    <3>3. /\ Retention \in Nat /\ Slip \in Nat /\ collected \subseteq Int /\ rows \subseteq Int
          /\ cutoff \in Int /\ now - Retention <= cutoff /\ cutoff <= now - Retention + Slip
      BY <1>3, <3>2 DEF DailyInv, DailyTypeOK
    <3>4. lastRunAt'["retentionPurge"] = now
      BY <1>1, <1>2, <1>3, <2>1
    <3>5. PurgeShows'
      BY <1>3, <3>1, <3>3, <3>4 DEF PurgeShows
    <3>6. NothingPurgedEarly'
      BY <1>1, <1>3, <1>5, <3>1, <3>3 DEF DailyInv, NothingPurgedEarly, Settled
    <3> QED BY <3>5, <3>6
  <2>2. CASE r.job # "retentionPurge"
    <3>1. rows' = rows /\ lastRunAt'["retentionPurge"] = lastRunAt["retentionPurge"]
      BY <1>2, <1>3, <2>2 DEF Finish, SaltRotation, RollupBuild, events
    <3> QED BY <1>1, <1>5, <3>1 DEF DailyInv, PurgeShows, NothingPurgedEarly, Settled
  <2> QED BY <2>1, <2>2
<1> QED BY <1>4, <1>6, <1>7, <1>8, <1>9 DEF DailyInv

(* A run that throws adds a failure to its job's account, and nothing else. *)
LEMMA FailKeepsInv ==
  ASSUME DailyInv, NEW r \in inflight, Fail(r)
  PROVE  DailyInv'
<1> USE DailyAssumption, SchedulerAssumption
<1>1. Settled(r) /\ r.job \in Jobs /\ process = "up"
  BY RunsSettle
<1>2. /\ lastRunAt' = lastRunAt /\ failed' = failed \union {r.job}
      /\ streak' = [streak EXCEPT ![r.job] = IF @ = 3 THEN 3 ELSE @ + 1]
      /\ faults < MaxFaults /\ faults' = faults + 1
      /\ outages' \subseteq outages \union {Day(now)}
      /\ UNCHANGED <<rows, rollup, collected, salt>>
  BY DEF Fail, Throw, Recorded, events
<1>3. /\ now \in Nat /\ lastRunAt \in [Jobs -> Nat \union {Never}] /\ streak \in [Jobs -> 0..3]
      /\ Interval[r.job] \in Nat /\ startedAt \in Nat
  BY <1>1 DEF DailyInv, DailyTypeOK, TypeOK, Lifecycle
<1>4. /\ OneTimerOrRun' /\ OnTime'
      /\ timers' \subseteq Timer /\ handles' \in [Jobs -> Timer \union {NoTimer}]
  <2>1. Owed(r.job, now + Interval[r.job])'
    <3>1. Owed(r.job, now)
      BY DEF DailyInv, OnTime
    <3>2. Reference(r.job) \in Nat /\ Reference(r.job)' = Reference(r.job)
      BY <1>1, <1>2, <1>3 DEF Reference, Settled
    <3>3. streak'[r.job] = IF streak[r.job] = 3 THEN 3 ELSE streak[r.job] + 1
      BY <1>1, <1>2, <1>3
    <3>4. streak[r.job] \in 0..3 /\ now' = now
      BY <1>1, <1>3 DEF Settled
    <3> QED BY <1>3, <3>1, <3>2, <3>3, <3>4 DEF Owed
  <2>2. [j \in Jobs \ {r.job} |-> <<lastRunAt[j], streak[j]>>]'
          = [j \in Jobs \ {r.job} |-> <<lastRunAt[j], streak[j]>>]
    BY <1>2, <1>3
  <2> QED BY <1>1, <2>1, <2>2, SettledKeepsChain
<1>5. r.job \in hasRun
  BY DEF DailyInv, Lifecycle
<1>6. DailyTypeOK'
  <2>1. TypeOK'
    BY <1>1, <1>2, <1>3, <1>4, <1>5, ZenonT(60) DEF DailyInv, DailyTypeOK, TypeOK, Settled, history
  <2>2. outages' \subseteq 0..Day(now')
    BY <1>1, <1>2, <1>3, OutagesArePast DEF DailyInv, DailyTypeOK, Settled
  <2> QED BY <1>1, <1>2, <1>3, <2>1, <2>2 DEF DailyInv, DailyTypeOK, Settled
<1>7. Lifecycle' /\ FailuresShow'
  BY <1>1, <1>2, <1>3 DEF DailyInv, Lifecycle, FailuresShow, Settled
<1>8. RotationShows' /\ PurgeShows' /\ NothingPurgedEarly'
  BY <1>1, <1>2 DEF DailyInv, RotationShows, PurgeShows, NothingPurgedEarly, Settled
<1> QED BY <1>4, <1>6, <1>7, <1>8 DEF DailyInv
(* Every step keeps the account of every job. *)
LEMMA NextDailyInv == DailyInv /\ [DailyNext]_dailyVars => DailyInv'
<1> SUFFICES ASSUME DailyInv, [DailyNext]_dailyVars PROVE DailyInv'
  OBVIOUS
<1>1. CASE Boot BY <1>1, BootKeepsInv
<1>2. CASE Down BY <1>2, DownKeepsInv
<1>3. CASE Collect \/ Flush BY <1>3, EventsKeepInv
<1>4. CASE Pass BY <1>4, PassKeepsInv
<1>5. CASE Begin BY <1>5, BeginKeepsInv
<1>6. ASSUME NEW r \in inflight, Finish(r) \/ Fail(r) PROVE DailyInv'
  BY <1>6, FinishKeepsInv, FailKeepsInv
<1>7. CASE UNCHANGED dailyVars
  <2>1. UNCHANGED <<vars, process, events, salt, past>>
    BY <1>7 DEF dailyVars
  <2> QED BY <2>1 DEF vars, schedulerVars, events, past, DailyInv, DailyTypeOK, TypeOK,
        Lifecycle, OneTimerOrRun, OnTime, Owed, Reference, FailuresShow, RotationShows,
        PurgeShows, NothingPurgedEarly, Day
<1> QED BY <1>1, <1>2, <1>3, <1>4, <1>5, <1>6, <1>7 DEF DailyNext

(* The account of every job balances at all times. *)
THEOREM DailyInvariant == DailySpec => []DailyInv
BY InitDailyInv, NextDailyInv, PTL DEF DailySpec

(* The jobs' bookkeeping and the tables stay well-typed over any number of days,   *)
(* failures and restarts: what is rolled up or stored was collected.               *)
THEOREM DailyTypeCorrect == DailySpec => []DailyTypeOK
<1>1. DailyInv => DailyTypeOK
  BY DEF DailyInv
<1> QED BY <1>1, DailyInvariant, PTL

(* While a process is up, a job's next run is never further away than its account. *)
LEMMA NextRunIsNear ==
  ASSUME DailyInv, process = "up", NEW j \in Jobs
  PROVE  \E due \in Nat : now <= due /\ due <= now + Interval[j] /\ Owed(j, due)
<1>1. now \in Nat /\ Interval[j] \in Nat
  BY SchedulerAssumption DEF DailyInv, DailyTypeOK, TypeOK
<1>2. CASE \E t \in timers : t.job = j
  <2>1. PICK t \in timers : t.job = j
    BY <1>2
  <2>2. t.due \in Nat /\ now <= t.due /\ t.due <= now + Interval[j] /\ Owed(j, t.due)
    BY <2>1 DEF DailyInv, DailyTypeOK, TypeOK, Timer, OnTime
  <2> QED BY <2>2
<1>3. CASE \E r \in inflight : r.job = j
  <2>1. Owed(j, now)
    BY <1>3 DEF DailyInv, OnTime
  <2> QED BY <1>1, <2>1
<1> QED BY <1>2, <1>3 DEF DailyInv, OneTimerOrRun

(* The salt is at most a day old in a process that has been up for a day, unless   *)
(* the latest rotation failed: RotateSalt is called once a day of uptime.          *)
THEOREM SaltIsRenewed == DailySpec => []SaltFollowsUptime
<1>1. DailyInv => SaltFollowsUptime
  <2> SUFFICES ASSUME DailyInv, process = "up", now - startedAt > DayLength,
                      streak["saltRotation"] = 0, salt # Never
               PROVE  now - salt <= DayLength
    BY DEF SaltFollowsUptime
  <2>owed. PICK due \in Nat : now <= due /\ Owed("saltRotation", due)
    BY NextRunIsNear, DailyAssumption
  <2>types. /\ now \in Nat /\ startedAt \in Nat /\ salt \in Nat /\ DayLength \in Nat
            /\ lastRunAt["saltRotation"] \in Nat \union {Never}
            /\ Interval["saltRotation"] = DayLength
    BY DailyAssumption DEF DailyInv, DailyTypeOK, TypeOK, Lifecycle
  <2>due. due = Reference("saltRotation") + DayLength
    BY <2>owed, <2>types DEF Owed
  <2>rotated. lastRunAt["saltRotation"] # Never /\ Reference("saltRotation") <= salt
    BY <2>owed, <2>types, <2>due DEF DailyInv, RotationShows, Reference
  <2> QED BY <2>owed, <2>types, <2>due, <2>rotated DEF Reference
<1> QED BY <1>1, DailyInvariant, PTL

(* No raw event outlives its retention by more than a day of an uptime whose last  *)
(* purge did not fail, and none goes before its time but for the days the calendar *)
(* lacks: deleteOlderThan never reaches further.                                   *)
THEOREM RetentionIsKept == DailySpec => []RetentionHolds
<1>1. DailyInv => RetentionHolds
  <2> SUFFICES ASSUME DailyInv PROVE RetentionHolds
    OBVIOUS
  <2>1. ASSUME process = "up", now - startedAt > DayLength, streak["retentionPurge"] = 0,
               NEW t \in rows
        PROVE  now - t <= Retention + DayLength
    <3>1. PICK due \in Nat : now <= due /\ Owed("retentionPurge", due)
      BY <2>1, NextRunIsNear, DailyAssumption
    <3>2. /\ now \in Nat /\ startedAt \in Nat /\ DayLength \in Nat /\ Retention \in Nat
          /\ lastRunAt["retentionPurge"] \in Nat \union {Never} /\ t \in Int
          /\ Interval["retentionPurge"] = DayLength
      BY <2>1, DailyAssumption DEF DailyInv, DailyTypeOK, TypeOK, Lifecycle
    <3>3. due = Reference("retentionPurge") + DayLength
      BY <2>1, <3>1, <3>2 DEF Owed
    <3>4. lastRunAt["retentionPurge"] # Never /\ t >= Reference("retentionPurge") - Retention
      BY <2>1, <3>1, <3>2, <3>3 DEF DailyInv, PurgeShows, Reference
    <3> QED BY <3>1, <3>2, <3>3, <3>4 DEF Reference
  <2> QED BY <2>1 DEF RetentionHolds, DailyInv, NothingPurgedEarly
<1> QED BY <1>1, DailyInvariant, PTL

(* What /health answers between two runs is what the jobs have lived through:      *)
(* isJobStale's two intervals tell one failure from three, whatever the intervals. *)
THEOREM HealthTellsTheTruth == DailySpec => []HealthIsHonest
<1>1. DailyInv => HealthIsHonest
  <2> SUFFICES ASSUME DailyInv, process = "up", inflight = {}, NEW reachable \in BOOLEAN
               PROVE  LET health == Health(reachable) IN
                      /\ health.status = "ok" => reachable /\ \A j \in Jobs : streak[j] < 3
                      /\ health.status = "degraded" => reachable /\ \E j \in Jobs : streak[j] >= 2
                      /\ health.code = 200 <=> health.status # "error"
                      /\ \A j \in Jobs : health.jobs[j].lastRunFailed <=> streak[j] > 0
    BY DEF HealthIsHonest
  <2>stale. \A j \in Jobs : (IsJobStale(j) => streak[j] >= 2) /\ (streak[j] = 3 => IsJobStale(j))
    <3> SUFFICES ASSUME NEW j \in Jobs
                 PROVE  (IsJobStale(j) => streak[j] >= 2) /\ (streak[j] = 3 => IsJobStale(j))
      OBVIOUS
    <3>1. PICK due \in Nat : now <= due /\ due <= now + Interval[j] /\ Owed(j, due)
      BY NextRunIsNear
    <3>2. /\ now \in Nat /\ Interval[j] \in Nat \ {0} /\ startedAt \in Nat /\ streak[j] \in 0..3
          /\ lastRunAt[j] \in Nat \union {Never}
      BY SchedulerAssumption DEF DailyInv, DailyTypeOK, TypeOK, Lifecycle
    <3>3. IsJobStale(j) <=> now - Reference(j) > 2 * Interval[j]
      BY <3>2 DEF IsJobStale, Overdue, Reference, Never
    <3>4. Reference(j) \in Nat
      BY <3>2 DEF Reference
    <3> QED BY <3>1, <3>2, <3>3, <3>4 DEF Owed
  <2>streaks. \A j \in Jobs : streak[j] \in 0..3 /\ (j \in failed <=> streak[j] > 0)
    BY DEF DailyInv, DailyTypeOK, FailuresShow
  <2>shown. \A j \in Jobs : Health(reachable).jobs[j].lastRunFailed <=> j \in failed
    BY DEF Health
  <2>codes. /\ Health(reachable).status = "ok" => reachable /\ \A j \in Jobs : ~ IsJobStale(j)
            /\ Health(reachable).status = "degraded" => reachable /\ \E j \in Jobs : IsJobStale(j)
            /\ Health(reachable).code = 200 <=> Health(reachable).status # "error"
    BY DEF Health
  <2> QED BY <2>stale, <2>streaks, <2>shown, <2>codes
<1> QED BY <1>1, DailyInvariant, PTL
-----------------------------------------------------------------------------
(* Rollups *)

FirstTick(d) == d * DayLength
Today == Day(now)
LastRollup == lastRunAt["rollupBuild"]

\* A rollup after the day's first tick finds the whole of the day before.
YesterdayIsRolledUp ==
  LastRollup > FirstTick(Today) => Of(Today - 1, rollup) = Of(Today - 1, collected)

\* On a day without an outage the next rollup falls on the day, after its first tick.
RollupIsDueToday ==
  process = "up" /\ Today \notin outages =>
    \/ LastRollup > FirstTick(Today)
    \/ \A t \in timers : t.job = "rollupBuild"
                         => t.due <= FirstTick(Today) + Interval["rollupBuild"]

RollupInv == YesterdayIsRolledUp /\ RollupIsDueToday /\ ClosedDayIsRolledUp

(* A day is the ticks from its first one to the next day's. *)
LEMMA DayBounds ==
  ASSUME NEW n \in Nat
  PROVE  /\ Day(n) \in Nat /\ FirstTick(Day(n)) \in Nat
         /\ FirstTick(Day(n)) <= n /\ n < FirstTick(Day(n)) + DayLength
  BY DailyAssumption, SchedulerAssumption DEF Day, FirstTick

(* Days begin a day's length apart. *)
LEMMA NextDayBegins ==
  ASSUME NEW d \in Nat
  PROVE  FirstTick(d) \in Nat /\ FirstTick(d + 1) = FirstTick(d) + DayLength
  BY DailyAssumption, SchedulerAssumption DEF FirstTick

(* Later days begin later. *)
LEMMA DaysAreOrdered ==
  ASSUME NEW d \in Nat, NEW e \in Nat, d < e
  PROVE  FirstTick(d) + DayLength <= FirstTick(e)
<1>1. DayLength \in Nat
  BY DailyAssumption
<1>2. PICK k \in Nat : e = d + 1 + k
  OBVIOUS
<1>3. FirstTick(e) = FirstTick(d) + DayLength + k * DayLength /\ k * DayLength \in Nat
  BY <1>1, <1>2 DEF FirstTick
<1> QED BY <1>1, <1>3 DEF FirstTick

(* What is at least two days older is of a day before yesterday. *)
LEMMA OldDays ==
  ASSUME NEW n \in Nat, NEW m \in Nat, n - m >= 2 * DayLength
  PROVE  Day(m) # Day(n) - 1
<1>1. DayLength \in Nat /\ DayLength > 0
  BY DailyAssumption, SchedulerAssumption
<1>2. SUFFICES ASSUME Day(m) = Day(n) - 1 PROVE FALSE
  OBVIOUS
<1>3. FirstTick(Day(n)) = FirstTick(Day(m)) + DayLength
  BY <1>2, DayBounds, NextDayBegins
<1> QED BY <1>1, <1>3, DayBounds

(* The tick after n is of the same day, or the first of the next. *)
LEMMA TickOfDay ==
  ASSUME NEW n \in Nat
  PROVE  \/ Day(n + 1) = Day(n)
         \/ Day(n + 1) = Day(n) + 1 /\ FirstTick(Day(n + 1)) = n + 1
                                    /\ n + 1 = FirstTick(Day(n)) + DayLength
<1>1. DayLength \in Nat /\ DayLength > 0 /\ n + 1 \in Nat
  BY DailyAssumption, SchedulerAssumption
<1>2. Day(n) \in Nat /\ Day(n + 1) \in Nat
  BY <1>1, DayBounds
<1>3. CASE Day(n + 1) < Day(n)
  BY <1>1, <1>2, <1>3, DayBounds, DaysAreOrdered
<1>4. CASE Day(n + 1) > Day(n) + 1
  BY <1>1, <1>2, <1>4, DayBounds, DaysAreOrdered, NextDayBegins
<1>5. CASE Day(n + 1) = Day(n) + 1
  BY <1>1, <1>2, <1>5, DayBounds, NextDayBegins
<1> QED BY <1>2, <1>3, <1>4, <1>5

(* A flush adds only what was collected now or a tick ago. *)
LEMMA FlushIsRecent ==
  ASSUME NEW n \in Nat, NEW t \in Nat, t = n \/ t = n - 1
  PROVE  /\ Day(t) >= Day(n) - 1
         /\ n > FirstTick(Day(n)) => Day(t) = Day(n)
<1>1. CASE t = n
  BY <1>1, DayBounds
<1>2. CASE t = n - 1
  <2>1. n = t + 1
    BY <1>2
  <2>2. Day(n) \in Nat /\ Day(t) \in Nat
    BY DayBounds
  <2> QED BY <2>1, <2>2, TickOfDay
<1> QED BY <1>1, <1>2

(* Rollups are behind by no more than they may be, in the initial states. *)
LEMMA InitRollupInv == DailyInit => RollupInv
<1> SUFFICES ASSUME DailyInit PROVE RollupInv
  OBVIOUS
<1>1. now \in Nat /\ FirstTick(Today) \in Nat /\ Day(now) = 0
  BY DayBounds, DailyAssumption, SchedulerAssumption DEF DailyInit, Today, Day
<1>2. LastRollup = Never
  BY DailyAssumption DEF DailyInit, Fresh, LastRollup
<1> QED BY <1>1, <1>2 DEF DailyInit, RollupInv, YesterdayIsRolledUp, RollupIsDueToday,
        ClosedDayIsRolledUp, Never

(* A step that leaves the clock, the rollups and the rollup job alone keeps the    *)
(* invariant, whatever recent events it flushes.                                   *)
LEMMA QuietKeepsRollups ==
  ASSUME DailyInv, RollupInv, now' = now, rollup' = rollup,
         LastRollup' = LastRollup \/ LastRollup' = Never,
         collected' = collected \/ collected' = collected \union buffered,
         outages \subseteq outages',
         \/ process' = "down" \/ (now \in Nat /\ Today \in outages')
         \/ /\ process' = process /\ LastRollup' = LastRollup
            /\ \A t \in timers' \ timers : t.job # "rollupBuild"
  PROVE  RollupInv'
<1>1. /\ now \in Nat /\ Today \in Nat /\ FirstTick(Today) \in Nat /\ Today' = Today
      /\ FirstTick(Today)' = FirstTick(Today)
      /\ LastRollup \in Nat \union {Never} /\ LastRollup <= now
      /\ buffered \subseteq {now, now - 1} /\ buffered \subseteq Nat
  <2>1. now \in Nat /\ buffered \subseteq {now, now - 1} /\ buffered \subseteq Nat
        /\ LastRollup \in Nat \union {Never} /\ LastRollup <= now
    BY DailyAssumption DEF DailyInv, DailyTypeOK, TypeOK, Lifecycle, LastRollup
  <2> QED BY <2>1, DayBounds DEF Today, FirstTick
<1>2. \A t \in buffered : Day(t) >= Today - 1 /\ (now > FirstTick(Today) => Day(t) = Today)
  BY <1>1, FlushIsRecent DEF Today
<1>3. YesterdayIsRolledUp'
  <2> SUFFICES ASSUME LastRollup' > FirstTick(Today)
               PROVE  Of(Today - 1, rollup)' = Of(Today - 1, collected)'
    BY <1>1 DEF YesterdayIsRolledUp
  <2>1. LastRollup > FirstTick(Today) /\ now > FirstTick(Today)
    BY <1>1 DEF Never
  <2>2. Of(Today - 1, rollup) = Of(Today - 1, collected)
    BY <2>1 DEF RollupInv, YesterdayIsRolledUp
  <2>3. \A t \in buffered : Day(t) # Today - 1
    BY <1>1, <1>2, <2>1
  <2>4. Of(Today - 1, collected') = Of(Today - 1, collected)
    BY <2>3 DEF Of
  <2> QED BY <1>1, <2>2, <2>4 DEF Of
<1>4. RollupIsDueToday'
  BY <1>1 DEF RollupInv, RollupIsDueToday
<1>5. ClosedDayIsRolledUp'
  <2> SUFFICES ASSUME NEW d \in 0..Today, d + 1 < Today, d + 1 \notin outages
               PROVE  Of(d, rollup) = Of(d, collected')
    BY <1>1 DEF ClosedDayIsRolledUp, Today, Of
  <2>1. Of(d, rollup) = Of(d, collected)
    BY DEF RollupInv, ClosedDayIsRolledUp, Today
  <2>2. \A t \in buffered : Day(t) # d
    BY <1>1, <1>2
  <2>3. Of(d, collected') = Of(d, collected)
    BY <2>2 DEF Of
  <2> QED BY <2>1, <2>3
<1> QED BY <1>3, <1>4, <1>5 DEF RollupInv

(* A day ends only after the rollup that completes the day before it. *)
LEMMA PassKeepsRollups ==
  ASSUME DailyInv, RollupInv, Pass
  PROVE  RollupInv'
<1> USE DailyAssumption, SchedulerAssumption
<1>1. /\ now \in Nat /\ now' = now + 1 /\ process' = process
      /\ UNCHANGED <<rollup, collected, timers>> /\ LastRollup' = LastRollup
      /\ outages \subseteq outages' /\ (process = "down" => Today \in outages')
      /\ \A t \in timers : t.due > now /\ t.due <= now + Interval[t.job] /\ t.due \in Nat
      /\ LastRollup <= now /\ LastRollup \in Nat \union {Never}
  BY DEF DailyInv, DailyTypeOK, TypeOK, Timer, OnTime, Lifecycle, Pass, Tick, schedulerVars,
         events, LastRollup, Today
<1>2. /\ Today \in Nat /\ FirstTick(Today) \in Nat
      /\ FirstTick(Today) <= now /\ now < FirstTick(Today) + DayLength
      /\ Interval["rollupBuild"] \in Nat /\ Interval["rollupBuild"] < DayLength
      /\ DayLength \in Nat
  BY <1>1, DayBounds DEF Today
<1>3. CASE Today' = Today
  <2>1. FirstTick(Today)' = FirstTick(Today)
    BY <1>3 DEF FirstTick
  <2>2. YesterdayIsRolledUp' /\ RollupIsDueToday'
    BY <1>1, <1>3, <2>1 DEF RollupInv, YesterdayIsRolledUp, RollupIsDueToday, Of
  <2>3. ClosedDayIsRolledUp'
    BY <1>1, <1>3 DEF RollupInv, ClosedDayIsRolledUp, Today, Of
  <2> QED BY <2>2, <2>3 DEF RollupInv
<1>4. CASE Today' # Today
  <2>1. Today' = Today + 1 /\ FirstTick(Today)' = now + 1
        /\ now + 1 = FirstTick(Today) + DayLength
    <3>1. /\ Day(now + 1) = Day(now) + 1 /\ FirstTick(Day(now + 1)) = now + 1
          /\ now + 1 = FirstTick(Day(now)) + DayLength
      BY <1>1, <1>4, TickOfDay DEF Today
    <3> QED BY <1>1, <3>1 DEF Today, FirstTick
  <2>2. YesterdayIsRolledUp'
    BY <1>1, <2>1 DEF YesterdayIsRolledUp, Never
  <2>3. RollupIsDueToday'
    <3>1. \A t \in timers : t.job = "rollupBuild" => t.due <= now + 1 + Interval["rollupBuild"]
      BY <1>1, <1>2
    <3> QED BY <1>1, <2>1, <3>1 DEF RollupIsDueToday
  <2>4. Today \notin outages' => Of(Today - 1, rollup) = Of(Today - 1, collected)
    <3> SUFFICES ASSUME Today \notin outages'
                 PROVE  Of(Today - 1, rollup) = Of(Today - 1, collected)
      OBVIOUS
    <3>1. process = "up" /\ Today \notin outages /\ inflight = {}
      BY <1>1 DEF DailyInv, DailyTypeOK, Pass, Idle
    <3>2. PICK t \in timers : t.job = "rollupBuild"
      BY <3>1 DEF DailyInv, OneTimerOrRun
    <3>3. ~ (t.due <= FirstTick(Today) + Interval["rollupBuild"])
      BY <1>1, <1>2, <2>1
    <3>4. LastRollup > FirstTick(Today)
      BY <3>1, <3>2, <3>3 DEF RollupInv, RollupIsDueToday
    <3> QED BY <3>4 DEF RollupInv, YesterdayIsRolledUp
  <2>5. ClosedDayIsRolledUp'
    <3> SUFFICES ASSUME NEW d \in 0..(Today + 1), d + 1 < Today + 1, d + 1 \notin outages'
                 PROVE  Of(d, rollup) = Of(d, collected)
      BY <1>1, <2>1 DEF ClosedDayIsRolledUp, Today, Of
    <3>1. CASE d + 1 = Today
      <4>1. d = Today - 1
        BY <1>2, <3>1
      <4> QED BY <2>4, <3>1, <4>1
    <3>2. CASE d + 1 < Today
      BY <1>1, <1>2, <3>2 DEF RollupInv, ClosedDayIsRolledUp, Today
    <3> QED BY <1>2, <3>1, <3>2
  <2> QED BY <2>2, <2>3, <2>5 DEF RollupInv
<1> QED BY <1>3, <1>4

(* A rollup run computes yesterday from raw events none of which is purged yet. *)
LEMMA RollupKeepsRollups ==
  ASSUME DailyInv, RollupInv, NEW r \in inflight, r.job = "rollupBuild", Finish(r)
  PROVE  RollupInv'
<1> USE DailyAssumption, SchedulerAssumption
<1>1. Settled(r)
  BY RunsSettle
<1>2. /\ now \in Nat /\ now' = now /\ Today' = Today /\ FirstTick(Today)' = FirstTick(Today)
      /\ Today \in Nat /\ FirstTick(Today) \in Nat /\ FirstTick(Today) <= now
  BY <1>1, DayBounds DEF DailyInv, DailyTypeOK, TypeOK, Settled, Today, FirstTick
<1>3. /\ LastRollup' = now
      /\ rollup' = (rollup \ Of(Today - 1, rollup)) \union Of(Today - 1, rows)
      /\ collected' = collected /\ outages' = outages
  BY DEF Finish, Succeed, RollupBuild, RolledUpDay, LastRollup, Today, DailyInv, DailyTypeOK,
         TypeOK
<1>4. Of(Today - 1, rows) = Of(Today - 1, collected)
  <2>1. rows \subseteq collected /\ collected \subseteq Nat
        /\ \A t \in collected \ rows : now - t > Retention - Slip
        /\ Retention - Slip >= 2 * DayLength /\ Retention \in Nat /\ Slip \in Nat
        /\ DayLength \in Nat
    BY DEF DailyInv, DailyTypeOK, NothingPurgedEarly
  <2>2. \A t \in collected \ rows : Day(t) # Today - 1
    BY <1>2, <2>1, OldDays DEF Today
  <2>3. \A t : t \in Of(Today - 1, rows) <=> t \in rows /\ Day(t) = Today - 1
    BY DEF Of
  <2>4. \A t : t \in Of(Today - 1, collected) <=> t \in collected /\ Day(t) = Today - 1
    BY DEF Of
  <2>5. Of(Today - 1, rows) \subseteq Of(Today - 1, collected)
    BY <2>1, <2>3, <2>4
  <2>6. Of(Today - 1, collected) \subseteq Of(Today - 1, rows)
    BY <2>2, <2>3, <2>4
  <2> QED BY <2>5, <2>6
<1>5. /\ Of(Today - 1, rollup') = Of(Today - 1, rows)
      /\ \A d \in Nat : d # Today - 1 => Of(d, rollup') = Of(d, rollup)
  BY <1>3 DEF Of
<1>6. YesterdayIsRolledUp'
  BY <1>2, <1>3, <1>4, <1>5 DEF YesterdayIsRolledUp, Of
<1>7. RollupIsDueToday'
  <2>1. \A t \in timers' : t.job = "rollupBuild" => t.due = now + Interval["rollupBuild"]
    BY <1>1 DEF Settled, NextTimer, DailyInv, OneTimerOrRun
  <2>2. Interval["rollupBuild"] \in Nat
    OBVIOUS
  <2> QED BY <1>2, <1>3, <2>1, <2>2 DEF RollupIsDueToday
<1>8. ClosedDayIsRolledUp'
  <2> SUFFICES ASSUME NEW d \in 0..Today, d + 1 < Today, d + 1 \notin outages
               PROVE  Of(d, rollup') = Of(d, collected)
    BY <1>2, <1>3 DEF ClosedDayIsRolledUp, Today, Of
  <2>1. Of(d, rollup) = Of(d, collected)
    BY DEF RollupInv, ClosedDayIsRolledUp, Today
  <2>2. d \in Nat /\ d # Today - 1
    BY <1>2
  <2> QED BY <1>5, <2>1, <2>2
<1> QED BY <1>6, <1>7, <1>8 DEF RollupInv

(* Every step keeps the rollups as far as they must be. *)
LEMMA NextRollupInv == DailyInv /\ RollupInv /\ [DailyNext]_dailyVars => RollupInv'
<1> SUFFICES ASSUME DailyInv, RollupInv, [DailyNext]_dailyVars PROVE RollupInv'
  OBVIOUS
<1> USE DailyAssumption, SchedulerAssumption
<1>1. CASE Boot
  BY <1>1, QuietKeepsRollups DEF Boot, Start, report, events, LastRollup, Today, DailyInv,
     DailyTypeOK, TypeOK
<1>2. CASE Down
  <2>1. LastRollup' = Never
    BY <1>2 DEF Down, Discarded, LastRollup
  <2>2. process' = "down" /\ now' = now /\ rollup' = rollup
    BY <1>2 DEF Down
  <2>3. collected' = collected \/ collected' = collected \union buffered
    BY <1>2 DEF Down
  <2>4. outages \subseteq outages'
    BY <1>2 DEF Down
  <2>5. \/ process' = "down" \/ (now \in Nat /\ Today \in outages')
        \/ /\ process' = process /\ LastRollup' = LastRollup
           /\ \A t \in timers' \ timers : t.job # "rollupBuild"
    BY <2>2
  <2>6. LastRollup' = LastRollup \/ LastRollup' = Never
    BY <2>1
  <2> QED BY <2>2, <2>3, <2>4, <2>5, <2>6, QuietKeepsRollups
<1>3. CASE Collect \/ Flush
  BY <1>3, QuietKeepsRollups DEF Collect, Flush, vars, schedulerVars, past, events, LastRollup
<1>4. CASE Pass
  BY <1>4, PassKeepsRollups
<1>5. CASE Begin
  <2>1. \E t \in timers : Fire(t)
    BY <1>5 DEF Begin
  <2> QED BY <1>5, <2>1, QuietKeepsRollups DEF Begin, Fire, events, past, LastRollup
<1>6. ASSUME NEW r \in inflight, Finish(r), r.job = "rollupBuild" PROVE RollupInv'
  BY <1>6, RollupKeepsRollups
<1>7. ASSUME NEW r \in inflight, Fail(r) \/ (Finish(r) /\ r.job # "rollupBuild")
      PROVE  RollupInv'
  <2>settled. Settled(r) /\ r.job \in Jobs
    BY <1>7, RunsSettle
  <2>rows. rollup' = rollup /\ collected' = collected /\ outages \subseteq outages'
    BY <1>7 DEF Fail, Finish, SaltRotation, RetentionPurge, events
  <2>last. LastRollup' = LastRollup
    BY <1>7, <2>settled DEF Fail, Throw, Finish, Succeed, LastRollup, DailyInv, DailyTypeOK, TypeOK
  <2>quiet. \/ now \in Nat /\ Today \in outages'
            \/ \A t \in timers' \ timers : t.job # "rollupBuild"
    <3>1. CASE r.job = "rollupBuild"
      BY <1>7, <3>1 DEF Fail, Today, DailyInv, DailyTypeOK, TypeOK
    <3>2. CASE r.job # "rollupBuild"
      BY <2>settled, <3>2 DEF Settled, NextTimer
    <3> QED BY <3>1, <3>2
  <2> QED BY <2>settled, <2>rows, <2>last, <2>quiet, QuietKeepsRollups DEF Settled
<1>8. CASE UNCHANGED dailyVars
  BY <1>8, QuietKeepsRollups DEF dailyVars, vars, schedulerVars, events, past, LastRollup
<1>9. CASE \E r \in inflight : Finish(r) \/ Fail(r)
  <2>1. PICK r \in inflight : Finish(r) \/ Fail(r)
    BY <1>9
  <2>2. CASE Finish(r) /\ r.job = "rollupBuild"
    BY <1>6, <2>2
  <2>3. CASE Fail(r) \/ (Finish(r) /\ r.job # "rollupBuild")
    BY <1>7, <2>3
  <2> QED BY <2>1, <2>2, <2>3
<1>10. \/ Boot \/ Down \/ Collect \/ Flush \/ Pass \/ Begin
       \/ \E r \in inflight : Finish(r) \/ Fail(r)
       \/ UNCHANGED dailyVars
  BY DEF DailyNext
<1> QED BY <1>1, <1>2, <1>3, <1>4, <1>5, <1>8, <1>9, <1>10

(* Once the next day is over, a day's rollup counts exactly what was collected on  *)
(* it, however late the last flush came and whatever was purged or failed since,   *)
(* unless the process was down or a rollup failed on that very next day.           *)
THEOREM ClosedDaysAreRolledUp == DailySpec => []ClosedDayIsRolledUp
<1>1. RollupInv => ClosedDayIsRolledUp
  BY DEF RollupInv
<1> QED BY <1>1, DailyInvariant, InitRollupInv, NextRollupInv, PTL DEF DailySpec
=============================================================================
