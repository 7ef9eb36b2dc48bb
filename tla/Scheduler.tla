------------------------------ MODULE Scheduler -----------------------------
(***************************************************************************)
(* The job scheduler (platform/scheduler): beats that tick, claim due fire *)
(* times in the run ledger and run them as one task per job; the advisory  *)
(* lock that keeps the beats apart and the boot sweep.  A tick and a task  *)
(* interleave at their awaits.  Time is in units of which every period is  *)
(* a multiple; every schedule is anchored at 0.                            *)
(***************************************************************************)
EXTENDS Integers, FiniteSets

CONSTANTS
  Beats,         \* processes that may run a beat against one database
  Jobs,          \* job ids
  Order,         \* the catalogue: 1..Cardinality(Jobs) -> Jobs
  Policy,        \* misfire policy, per job
  Period,        \* per job
  MaxCatchUp,    \* max_catch_up_runs, per job
  MaxConcurrent, \* max_concurrent_jobs of a beat
  NoBeat,        \* nobody holds the advisory lock
  MaxTime,       \* bound on the clock
  MaxFailures,   \* bound on crashes and on ticks and runs that the database fails
  MaxDrops       \* bound on lock connections dropped under a live beat

Policies == {"SKIP_TO_LATEST", "RUN_EVERY_MISSED", "RUN_NOW"}
Times == 0..MaxTime

ASSUME SchedulerAssumption ==
  /\ IsFiniteSet(Jobs) /\ Jobs # {} /\ NoBeat \notin Beats
  /\ Order \in [1..Cardinality(Jobs) -> Jobs]
  /\ Policy \in [Jobs -> Policies]
  /\ Period \in [Jobs -> Nat \ {0}]
  /\ MaxCatchUp \in [Jobs -> Nat]
  /\ MaxConcurrent \in Nat /\ MaxTime \in Nat /\ MaxFailures \in Nat /\ MaxDrops \in Nat

Specs == 1..Cardinality(Jobs)
(* SUCCEEDED and FAILED are recorded alike: "FINISHED" is either. *)
Outcomes == {"FINISHED", "ABANDONED"}

VARIABLES
  nowUtc,   \* the clock
  ledger,   \* scheduler_job_run: state of each job's fire times
  timesRun, \* how often the job was run for a fire time
  lock,     \* the beat whose session holds the advisory lock
  beat,     \* per beat: "down", "boot", "sleep", "tick" or "unwind"
  pos,      \* the catalogue entry a tick has come to
  at,       \* now_utc of the tick
  due,      \* fire times of that entry still to be claimed
  got,      \* fire times of that entry claimed by this tick
  stage,    \* _in_flight: per beat and job, what its task is doing
  fires,    \* fire times the task has left, the running one included
  failures, \* crashes and failures so far
  drops     \* lock connections dropped so far

tickVars == <<beat, pos, at, due, got>>
taskVars == <<stage, fires>>
vars == <<nowUtc, ledger, timesRun, lock, tickVars, taskVars, failures, drops>>

Alive(b) == beat[b] # "down"
Claimed(j) == {t \in Times : ledger[j][t] # "none"}
Least(S, t) == t \in S /\ \A u \in S : t <= u
Greatest(S) == CHOOSE t \in S : \A u \in S : u <= t

(* Fire times of job j in (after, through]. *)
FireTimesIn(j, after, through) == {t \in (after + 1)..through : t % Period[j] = 0}

(* The cursor: the last fire time claimed, or for a job that has never run *)
(* the one before the most recent fire time.                               *)
After(j, n) == IF Claimed(j) # {} THEN Greatest(Claimed(j))
               ELSE (n \div Period[j] - 1) * Period[j]

Missed(j, n) == FireTimesIn(j, After(j, n), n)

(* Mutation of DueFireTimes: a backlog is collapsed to its latest fire time. *)
DueFireTimes_Collapsed(j, n) ==
  IF Missed(j, n) = {} THEN {}
  ELSE {IF Policy[j] = "RUN_NOW" THEN n ELSE Greatest(Missed(j, n))}

(* due_fire_times, where it does not raise. *)
DueFireTimes(j, n) ==
  IF Missed(j, n) = {} THEN {}
  ELSE CASE Policy[j] = "SKIP_TO_LATEST" -> {Greatest(Missed(j, n))}
         [] Policy[j] = "RUN_NOW" -> {n}
         [] OTHER -> Missed(j, n)

(* CatchUpBacklogTooLargeError *)
TooLarge(j, n) == /\ Policy[j] = "RUN_EVERY_MISSED"
                  /\ Cardinality(Missed(j, n)) > MaxCatchUp[j]

-----------------------------------------------------------------------------
Init ==
  /\ nowUtc = 0 /\ lock = NoBeat /\ failures = 0 /\ drops = 0
  /\ ledger = [j \in Jobs |-> [t \in Times |-> "none"]]
  /\ timesRun = [j \in Jobs |-> [t \in Times |-> 0]]
  /\ beat = [b \in Beats |-> "down"] /\ pos = [b \in Beats |-> 1]
  /\ at = [b \in Beats |-> 0]
  /\ due = [b \in Beats |-> {}] /\ got = [b \in Beats |-> {}]
  /\ stage = [b \in Beats |-> [j \in Jobs |-> "none"]]
  /\ fires = [b \in Beats |-> [j \in Jobs |-> {}]]

Clock ==
  /\ nowUtc < MaxTime /\ nowUtc' = nowUtc + 1
  /\ UNCHANGED <<ledger, timesRun, lock, tickVars, taskVars, failures, drops>>

(* Mutation of Boot: a beat starts without the advisory lock. *)
Boot_Unlocked(b) ==
  /\ beat[b] = "down"
  /\ lock' = b
  /\ beat' = [beat EXCEPT ![b] = "boot"]
  /\ UNCHANGED <<nowUtc, ledger, timesRun, pos, at, due, got, taskVars, failures, drops>>

(* single_instance: pg_try_advisory_lock, refused while another session    *)
(* holds it (SchedulerAlreadyRunningError: the process does not start).    *)
Boot(b) ==
  /\ beat[b] = "down" /\ lock = NoBeat
  /\ lock' = b
  /\ beat' = [beat EXCEPT ![b] = "boot"]
  /\ UNCHANGED <<nowUtc, ledger, timesRun, pos, at, due, got, taskVars, failures, drops>>

(* Mutation of Sweep: nothing is swept. *)
Sweep_Nothing(b) ==
  /\ beat[b] = "boot"
  /\ beat' = [beat EXCEPT ![b] = "sleep"]
  /\ UNCHANGED <<nowUtc, ledger, timesRun, lock, pos, at, due, got, taskVars, failures, drops>>

(* _sweep_abandoned: close every run left open. *)
Sweep(b) ==
  /\ beat[b] = "boot"
  /\ ledger' = [j \in Jobs |-> [t \in Times |->
                  IF ledger[j][t] = "open" THEN "ABANDONED" ELSE ledger[j][t]]]
  /\ beat' = [beat EXCEPT ![b] = "sleep"]
  /\ UNCHANGED <<nowUtc, timesRun, lock, pos, at, due, got, taskVars, failures, drops>>

(* The process of beat b ends: its tasks are cancelled where they stand,   *)
(* and PostgreSQL drops the session lock it held.                          *)
Stopped(b) ==
  /\ beat' = [beat EXCEPT ![b] = "down"]
  /\ lock' = IF lock = b THEN NoBeat ELSE lock
  /\ stage' = [stage EXCEPT ![b] = [j \in Jobs |-> "none"]]
  /\ fires' = [fires EXCEPT ![b] = [j \in Jobs |-> {}]]
  /\ due' = [due EXCEPT ![b] = {}] /\ got' = [got EXCEPT ![b] = {}]
  /\ pos' = [pos EXCEPT ![b] = 1] /\ at' = [at EXCEPT ![b] = 0]
  /\ UNCHANGED <<nowUtc, ledger, timesRun, drops>>

Crash(b) == /\ Alive(b) /\ failures < MaxFailures
            /\ Stopped(b) /\ failures' = failures + 1

(* A tick raised: what it had still to claim, and had claimed without a    *)
(* task, is forgotten, and run_forever leaves single_instance, which       *)
(* unlocks, while the tasks the beat created are still running.            *)
Unwind(b) ==
  /\ lock' = IF lock = b THEN NoBeat ELSE lock
  /\ beat' = [beat EXCEPT ![b] = "unwind"]
  /\ due' = [due EXCEPT ![b] = {}] /\ got' = [got EXCEPT ![b] = {}]
  /\ UNCHANGED <<nowUtc, ledger, timesRun, pos, at, taskVars, drops>>

(* The event loop closes and cancels them. *)
Unwound(b) == beat[b] = "unwind" /\ Stopped(b) /\ UNCHANGED failures

(* The lock's connection drops under a live beat, which does not notice.   *)
LockLost(b) ==
  /\ lock = b /\ drops < MaxDrops
  /\ lock' = NoBeat /\ drops' = drops + 1
  /\ UNCHANGED <<nowUtc, ledger, timesRun, tickVars, taskVars, failures>>

-----------------------------------------------------------------------------
(* tick: _reap retires finished tasks, and the iteration starts. *)
TickStart(b) ==
  /\ beat[b] = "sleep"
  /\ \A j \in Jobs : stage[b][j] # "broken"
  /\ stage' = [stage EXCEPT ![b] = [j \in Jobs |-> IF @[j] = "done" THEN "none" ELSE @[j]]]
  /\ beat' = [beat EXCEPT ![b] = "tick"]
  /\ pos' = [pos EXCEPT ![b] = 1] /\ at' = [at EXCEPT ![b] = nowUtc]
  /\ UNCHANGED <<nowUtc, ledger, timesRun, lock, due, got, fires, failures, drops>>

(* _reap re-raises what ended a task outside the taxonomy. *)
ReapRaises(b) ==
  /\ beat[b] = "sleep"
  /\ \E j \in Jobs : stage[b][j] = "broken"
  /\ Unwind(b) /\ UNCHANGED failures

NextEntry(b) ==
  IF pos[b] = Cardinality(Jobs)
    THEN /\ beat' = [beat EXCEPT ![b] = "sleep"]
         /\ pos' = [pos EXCEPT ![b] = 1] /\ at' = [at EXCEPT ![b] = 0]
    ELSE pos' = [pos EXCEPT ![b] = @ + 1] /\ UNCHANGED <<beat, at>>

(* The next catalogue entry: refused while its task is in flight, passed   *)
(* over when nothing is due, else its due fire times are to be claimed.    *)
Consider(b) ==
  LET j == Order[pos[b]] IN
  /\ beat[b] = "tick" /\ due[b] = {} /\ got[b] = {}
  /\ \/ /\ stage[b][j] # "none"
        /\ NextEntry(b) /\ UNCHANGED due
     \/ /\ stage[b][j] = "none" /\ ~TooLarge(j, at[b])
        /\ IF DueFireTimes(j, at[b]) = {}
             THEN NextEntry(b) /\ UNCHANGED due
             ELSE due' = [due EXCEPT ![b] = DueFireTimes(j, at[b])] /\ UNCHANGED <<pos, beat, at>>
  /\ UNCHANGED <<nowUtc, ledger, timesRun, lock, got, taskVars, failures, drops>>

(* A backlog too large raises out of tick and stops every job. *)
BacklogRaises(b) ==
  LET j == Order[pos[b]] IN
  /\ beat[b] = "tick" /\ due[b] = {} /\ got[b] = {}
  /\ stage[b][j] = "none" /\ TooLarge(j, at[b])
  /\ Unwind(b) /\ UNCHANGED failures

(* The database fails a read of the cursor or a claim in mid-tick.         *)
LedgerRaises(b) ==
  /\ beat[b] = "tick" /\ failures < MaxFailures
  /\ Unwind(b) /\ failures' = failures + 1

(* Mutation of Tried: a task is created even if every fire was lost.       *)
Tried_EmptyTask(b, j, t, won) ==
  IF due[b] # {t}
    THEN /\ due' = [due EXCEPT ![b] = @ \ {t}]
         /\ got' = [got EXCEPT ![b] = won]
         /\ UNCHANGED <<pos, beat, at, taskVars>>
    ELSE /\ due' = [due EXCEPT ![b] = {}] /\ got' = [got EXCEPT ![b] = {}]
         /\ NextEntry(b)
         /\ stage' = [stage EXCEPT ![b][j] = "queued"]
         /\ fires' = [fires EXCEPT ![b][j] = won]

(* The task of the fires this tick won, if any, once t is the last due.    *)
Tried(b, j, t, won) ==
  IF due[b] # {t}
    THEN /\ due' = [due EXCEPT ![b] = @ \ {t}]
         /\ got' = [got EXCEPT ![b] = won]
         /\ UNCHANGED <<pos, beat, at, taskVars>>
    ELSE /\ due' = [due EXCEPT ![b] = {}] /\ got' = [got EXCEPT ![b] = {}]
         /\ NextEntry(b)
         /\ IF won = {} THEN UNCHANGED taskVars
            ELSE /\ stage' = [stage EXCEPT ![b][j] = "queued"]
                 /\ fires' = [fires EXCEPT ![b][j] = won]

(* Mutation of Claim: DO UPDATE, so that a conflict is won as well. *)
Claim_Upsert(b) ==
  LET j == Order[pos[b]] IN
  /\ beat[b] = "tick"
  /\ \E t \in due[b] :
       /\ Least(due[b], t)
       /\ ledger' = [ledger EXCEPT ![j][t] = "open"]
       /\ Tried(b, j, t, got[b] \cup {t})
  /\ UNCHANGED <<nowUtc, timesRun, lock, failures, drops>>

(* claim: INSERT ... ON CONFLICT DO NOTHING for the due fire times in      *)
(* ascending order; the task is created once all have been tried.          *)
Claim(b) ==
  LET j == Order[pos[b]] IN
  /\ beat[b] = "tick"
  /\ \E t \in due[b] :
       /\ Least(due[b], t)
       /\ LET wins == ledger[j][t] = "none" IN
          /\ ledger' = IF wins THEN [ledger EXCEPT ![j][t] = "open"] ELSE ledger
          /\ Tried(b, j, t, IF wins THEN got[b] \cup {t} ELSE got[b])
  /\ UNCHANGED <<nowUtc, timesRun, lock, failures, drops>>

-----------------------------------------------------------------------------
(* A task gets a permit of the semaphore, and keeps it for all its fires.  *)
Acquire(b, j) ==
  /\ stage[b][j] = "queued"
  /\ Cardinality({k \in Jobs : stage[b][k] \in {"ready", "running"}}) < MaxConcurrent
  /\ stage' = [stage EXCEPT ![b][j] = "ready"]
  /\ UNCHANGED <<nowUtc, ledger, timesRun, lock, tickVars, fires, failures, drops>>

(* _run_one: await spec.run of the earliest fire. *)
StartFire(b, j) ==
  /\ stage[b][j] = "ready"
  /\ stage' = [stage EXCEPT ![b][j] = "running"]
  /\ \E t \in fires[b][j] : Least(fires[b][j], t) /\ timesRun' = [timesRun EXCEPT ![j][t] = @ + 1]
  /\ UNCHANGED <<nowUtc, ledger, lock, tickVars, fires, failures, drops>>

(* Mutation of Finished: the update does not ask for an open run. *)
Finished_Overwrites(j, t) == [ledger EXCEPT ![j][t] = "FINISHED"]

(* The ledger after finish: zero rows updated if the run was closed.       *)
Finished(j, t) ==
  IF ledger[j][t] = "open" THEN [ledger EXCEPT ![j][t] = "FINISHED"] ELSE ledger

(* The run returns or raises an FkingError and is recorded; then the next  *)
(* fire, or the task is done and waits to be reaped.                       *)
EndFire(b, j) ==
  /\ stage[b][j] = "running"
  /\ \E t \in fires[b][j] :
       /\ Least(fires[b][j], t)
       /\ ledger' = Finished(j, t)
       /\ fires' = [fires EXCEPT ![b][j] = @ \ {t}]
       /\ stage' = [stage EXCEPT ![b][j] = IF fires[b][j] = {t} THEN "done" ELSE "ready"]
  /\ UNCHANGED <<nowUtc, timesRun, lock, tickVars, failures, drops>>

(* Anything else the run, or its recording, raises ends the task. *)
BreakRun(b, j) ==
  /\ stage[b][j] = "running"
  /\ stage' = [stage EXCEPT ![b][j] = "broken"]
  /\ failures < MaxFailures /\ failures' = failures + 1
  /\ UNCHANGED <<nowUtc, ledger, timesRun, lock, tickVars, fires, drops>>

TickStep(b) == TickStart(b) \/ ReapRaises(b) \/ Consider(b) \/ BacklogRaises(b) \/ Claim(b) \/ Unwound(b)
Task(b, j) == Acquire(b, j) \/ StartFire(b, j) \/ EndFire(b, j)

Next ==
  \/ Clock
  \/ \E b \in Beats : \/ Boot(b) \/ Sweep(b) \/ Crash(b) \/ LedgerRaises(b) \/ LockLost(b)
                      \/ TickStep(b)
                      \/ \E j \in Jobs : Task(b, j) \/ BreakRun(b, j)

Spec == Init /\ [][Next]_vars

(* A stopped beat is restarted, a tick and a run come to their end. *)
Fairness ==
  \A b \in Beats : /\ WF_vars(Boot(b) \/ Sweep(b)) /\ WF_vars(TickStep(b))
                   /\ \A j \in Jobs : WF_vars(Task(b, j))

FairSpec == Spec /\ Fairness

-----------------------------------------------------------------------------
(* Every variable keeps its type; a task has fires as long as it is not    *)
(* done, and they are rows of the ledger.                                  *)
TypeOK ==
  /\ nowUtc \in Times /\ lock \in Beats \cup {NoBeat}
  /\ ledger \in [Jobs -> [Times -> {"none", "open"} \cup Outcomes]]
  /\ timesRun \in [Jobs -> [Times -> Nat]]
  /\ beat \in [Beats -> {"down", "boot", "sleep", "tick", "unwind"}]
  /\ pos \in [Beats -> Specs] /\ at \in [Beats -> Times]
  /\ due \in [Beats -> SUBSET Times] /\ got \in [Beats -> SUBSET Times]
  /\ stage \in [Beats -> [Jobs -> {"none", "queued", "ready", "running", "done", "broken"}]]
  /\ fires \in [Beats -> [Jobs -> SUBSET Times]]
  /\ \A b \in Beats, j \in Jobs : fires[b][j] \subseteq Claimed(j)
  /\ \A b \in Beats, j \in Jobs : (stage[b][j] \in {"none", "done"}) <=> (fires[b][j] = {})
  /\ failures \in 0..MaxFailures /\ drops \in 0..MaxDrops

(* A fire time is run at most once, ever: across ticks, restarts and two   *)
(* beats that both believe they hold the lock (claim).                     *)
RunAtMostOnce == \A j \in Jobs : \A t \in Times : timesRun[j][t] <= 1

(* Under RUN_EVERY_MISSED no fire time is skipped, whoever claimed its     *)
(* neighbours and wherever a claim loop was cut short: the cursor never    *)
(* passes a window nothing covered (due_fire_times).  A dropped lock takes *)
(* this away: two beats that find no cursor take different first windows.  *)
NoHoles ==
  drops = 0 => \A j \in Jobs : Policy[j] = "RUN_EVERY_MISSED" =>
    \A s, t \in Claimed(j) : FireTimesIn(j, s, t) \subseteq Claimed(j)

(* A verdict in the ledger is never rewritten, even when a live run was    *)
(* swept by another beat and ends afterwards (finish).                     *)
VerdictsStand ==
  [][\A j \in Jobs : \A t \in Times :
       ledger[j][t] \in Outcomes => ledger'[j][t] = ledger[j][t]]_vars

(* As long as no lock connection has dropped under a live beat, a job runs *)
(* in one ticking beat at a time and nobody sweeps a run such a beat is    *)
(* executing (single_instance).  Not so of a beat that is unwinding: it    *)
(* has unlocked before its tasks are cancelled.                            *)
SoleRunner ==
  drops = 0 => \A b \in Beats : \A j \in Jobs :
    stage[b][j] = "running" /\ beat[b] # "unwind" =>
      /\ \A t \in fires[b][j] : ledger[j][t] = "open"
      /\ \A c \in Beats \ {b} : stage[c][j] = "running" => beat[c] = "unwind"

(* A claimed run does not stay open: it ends, or its process stopped and   *)
(* the next boot sweeps it (_sweep_abandoned); unless a lock dropped, for  *)
(* then a beat may die while another holds the lock and has swept already. *)
EventuallyClosed ==
  \A j \in Jobs : \A t \in Times :
    (ledger[j][t] = "open") ~> (ledger[j][t] \in Outcomes \/ drops > 0)
=============================================================================
