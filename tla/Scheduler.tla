-------------------------------- MODULE Scheduler --------------------------------
(* The in-process Scheduler: one chain of timer, run, timer, ... per job.  A run   *)
(* is asynchronous: it begins when its timer fires and settles later, and only     *)
(* then is the next timer set.  Timers fire at their due time or after it.         *)
EXTENDS Integers

CONSTANTS Jobs, Interval       \* Interval[j] is the job's intervalMs, in ticks

CONSTANTS MaxTime, MaxStarts   \* bounds

ASSUME SchedulerAssumption ==
  /\ Interval \in [Jobs -> Nat \ {0}]
  /\ MaxTime \in Nat /\ MaxStarts \in Nat

VARIABLES
  now,        \* the clock
  status,     \* #running: "running" or "stopped"
  startedAt,  \* #startedAt, Never if undefined
  timers,     \* pending timers; chain is the start() call they descend from (history)
  handles,    \* #handles: the latest timer of each job, NoTimer if there is none
  inflight,   \* runs that have begun and not settled
  lastRunAt,  \* #lastRunAt, Never if undefined
  hasRun,     \* #hasRun
  failed,     \* the jobs that #lastRunFailed maps to true
  starts,     \* start() calls that had an effect (history)
  overtaken   \* jobs that start() began again while a run was in flight (history)

report == <<lastRunAt, hasRun, failed>>
history == <<starts, overtaken>>
schedulerVars == <<status, startedAt, timers, handles, inflight, lastRunAt, hasRun,
                   failed, starts, overtaken>>
vars == <<now, schedulerVars>>

Never == -1
NoTimer == [job |-> "none"]
Timer == [job : Jobs, due : Nat, chain : 1..MaxStarts]
Run == [job : Jobs, chain : 1..MaxStarts]

TypeOK ==
  /\ now \in Nat /\ startedAt \in Nat \union {Never}
  /\ status \in {"running", "stopped"}
  /\ timers \subseteq Timer /\ inflight \subseteq Run
  /\ handles \in [Jobs -> Timer \union {NoTimer}]
  /\ lastRunAt \in [Jobs -> Nat \union {Never}]
  /\ hasRun \subseteq Jobs /\ failed \subseteq hasRun
  /\ starts \in 0..MaxStarts /\ overtaken \subseteq Jobs

\* A new Scheduler.
Fresh == /\ status = "stopped" /\ startedAt = Never
         /\ timers = {} /\ handles = [j \in Jobs |-> NoTimer] /\ inflight = {}
         /\ lastRunAt = [j \in Jobs |-> Never] /\ hasRun = {} /\ failed = {}
         /\ starts = 0 /\ overtaken = {}

Init == now = 0 /\ Fresh

Pending(j) == {t \in timers : t.job = j}
Running(j) == {r \in inflight : r.job = j}

\* Deliberate fault: the delay is counted twice.
LateTimer(j, chain) == [job |-> j, due |-> now + 2 * Interval[j], chain |-> chain]
NextTimer(j, chain) == [job |-> j, due |-> now + Interval[j], chain |-> chain]

\* Deliberate fault: start() does not return early when the scheduler is running.
StartableAgain == starts < MaxStarts
Startable == status = "stopped" /\ starts < MaxStarts

Start ==
  /\ Startable
  /\ status' = "running" /\ startedAt' = now
  /\ starts' = starts + 1
  /\ overtaken' = overtaken \union {j \in Jobs : Running(j) # {}}
  /\ handles' = [j \in Jobs |-> NextTimer(j, starts')]
  /\ timers' = timers \union {handles'[j] : j \in Jobs}
  /\ UNCHANGED <<now, inflight, report>>

\* stop() cancels what #handles knows; cancelling a timer that has fired does nothing.
Stop ==
  /\ status' = "stopped"
  /\ timers' = timers \ {handles[j] : j \in Jobs}
  /\ handles' = [j \in Jobs |-> NoTimer]
  /\ UNCHANGED <<now, startedAt, inflight, report, history>>

\* Deliberate fault: an attempt is only noted when it settles.
AttemptedLater(t) == UNCHANGED hasRun
Attempted(t) == hasRun' = hasRun \union {t.job}

Fire(t) ==
  /\ t \in timers /\ t.due <= now
  /\ timers' = timers \ {t}
  /\ inflight' = inflight \union {[job |-> t.job, chain |-> t.chain]}
  /\ Attempted(t)
  /\ UNCHANGED <<now, status, startedAt, handles, lastRunAt, failed, history>>

\* Deliberate faults: a failing run is not scheduled again; neither is #running asked.
Unscheduled(r) == UNCHANGED <<timers, handles>>
AlwaysScheduled(r) ==
  LET t == NextTimer(r.job, r.chain)
  IN  timers' = timers \union {t} /\ handles' = [handles EXCEPT ![r.job] = t]
\* #scheduleNext in the finally block, asked only while #running.
ScheduledNext(r) ==
  IF status = "running"
  THEN LET t == NextTimer(r.job, r.chain)
       IN  timers' = timers \union {t} /\ handles' = [handles EXCEPT ![r.job] = t]
  ELSE UNCHANGED <<timers, handles>>

Succeed(r) ==
  /\ r \in inflight
  /\ inflight' = inflight \ {r}
  /\ lastRunAt' = [lastRunAt EXCEPT ![r.job] = now]
  /\ failed' = failed \ {r.job}
  /\ ScheduledNext(r)
  /\ UNCHANGED <<now, status, startedAt, hasRun, history>>

Recorded(r) == failed' = failed \union {r.job}

Throw(r) ==
  /\ r \in inflight
  /\ inflight' = inflight \ {r}
  /\ Recorded(r)
  /\ ScheduledNext(r)
  /\ UNCHANGED <<now, status, startedAt, lastRunAt, hasRun, history>>

Tick == /\ now < MaxTime
        /\ now' = now + 1
        /\ UNCHANGED schedulerVars

Next == \/ Start \/ Stop \/ Tick
        \/ \E t \in timers : Fire(t)
        \/ \E r \in inflight : Succeed(r) \/ Throw(r)

Spec == Init /\ [][Next]_vars

\* Time passes, the event loop serves due timers, and every run settles.
FireFor(j) == \E t \in timers : t.job = j /\ Fire(t)
SettleFor(j) == \E r \in inflight : r.job = j /\ (Succeed(r) \/ Throw(r))
FairSpec == /\ Spec /\ WF_vars(Tick)
            /\ \A j \in Jobs : WF_vars(FireFor(j)) /\ WF_vars(SettleFor(j))

-----------------------------------------------------------------------------
(* Properties *)

AtMostOne(S) == \A x, y \in S : x = y

(* A job is waiting for one timer or executing once, never both and never twice,   *)
(* unless start() was called again while its run was still in flight.              *)
NoOverlap ==
  \A j \in Jobs \ overtaken :
    /\ AtMostOne(Pending(j)) /\ AtMostOne(Running(j))
    /\ Pending(j) = {} \/ Running(j) = {}

(* A job that runs slowly, or throws, is never dropped: while the scheduler is     *)
(* running, every job has a timer pending or a run in flight.                      *)
NoJobIsDropped ==
  status = "running" => \A j \in Jobs : Pending(j) # {} \/ Running(j) # {}

(* stop() is clean: nothing is left to fire, and no run in flight when it was      *)
(* called sets a timer when it settles.                                            *)
StopIsQuiet == status = "stopped" => \A j \in Jobs \ overtaken : Pending(j) = {}

(* Every job runs again and again, also after runs that threw and restarts of the  *)
(* scheduler, until stop(): whatever the state, its next run is at most an         *)
(* interval away.  A run due after the end of the model's time is not waited for.  *)
EveryJobRunsAgain ==
  \A j \in Jobs :
    status = "running" /\ now + Interval[j] <= MaxTime
    ~> Running(j) # {} \/ status = "stopped"

(* /health can tell a job that has never succeeded from one that has not failed:   *)
(* a job attempted, not executing and without a success is reported as failed.     *)
OutcomeIsReported ==
  \A j \in hasRun : Running(j) = {} /\ lastRunAt[j] = Never => j \in failed
=============================================================================
