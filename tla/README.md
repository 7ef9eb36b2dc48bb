# financeKing in TLA+

A model of the parts of financeKing whose correctness depends on order, interleaving,
crashes and retries, checked with TLC and, where it matters most, proved with TLAPS.
Paths below are relative to the repository's package, `src/fking/`.

Contents: [inventory](#inventory) · [modules](#modules) · [runs](#runs) ·
[bounds](#bounds) · [fairness](#fairness) · [proofs](#proofs) ·
[disagreements](#where-code-and-documents-disagree) · [not modelled](#not-modelled) ·
[plan](#plan)

## Inventory

Components, the state each keeps, and what has to hold of it.

| Component | State | Operations | What is hard | What must hold |
|---|---|---|---|---|
| **Event bus** `platform/bus` | a Redis stream with a consumer group and its pending list; Postgres `processed_events`; a dead-letter stream | publish, read, reclaim, claim-and-apply, acknowledge, dead-letter | several consumers, at-least-once delivery, crashes between commit and XACK, trimming | an effect at most once, nothing retained is lost, every entry decided in the end |
| **Kill switch** `risk/_killswitch`, `risk/_state`, `execution/killswitch_journal` | an append-only journal; an in-memory gate | trip (block, record, remediate), arm, resume, restore at boot | two incidents at once, crash inside a trip, tied or stepped-back clocks, unreadable journal | no trading over an incident no human resumed; evidence before remediation |
| **Supervisor** `platform/supervisor` | halted reason, degraded modes, exit code | start, adopt a reading, enter/leave a mode, the fatal handler | restarts, remediation that fails half-way | no signal under a halt; a tidy fatal exit only with a flat book |
| **Scheduler** `platform/scheduler` | the `job_run` ledger, an advisory lock, in-flight tasks | tick, claim, run, record, reap, sweep | two beats, a lost lock, crash between claim and run, missed windows | each fire once; no window skipped that a job must run; every claimed run closed |
| **Degraded modes** `risk/degraded` | per-mode counters, entry and blocked symbols | observe | redelivered and reordered observations | a mode is entered and left only on evidence its rule asks for |
| **Venue calls** `execution/throttle`, `platform/safety/exchange` | rate windows, last headers, cooldown, ban; one slot each for the last body and the last metadata | admit, send, observe | callers interleaved across an await, responses overwriting each other | order rate and weight shares held; a ban obeyed |
| **Loss limits and triggers** `risk/drawdown`, `risk/triggers` | peak, day's opening equity, trailing window, ladder rung and latch, and the row they are restored from | sample equity, evaluate the triggers, restart | day boundaries, pruning, a restart between two samples | a loss taken within a limit's window is seen; a latch stays; a rung never eases early |
| **Risk desk** `risk/engine`, `netting`, `exposure`, `sizing`, `contribution` | none; the book between batches | decide a batch: halts, sizing, headrooms, netting, rounding, attribution | several strategies in one batch, clipping order, rounding to lots | the book stays inside the mandate; shares add up to the orders |
| **Pre-flight** `execution/preflight`, `venue_profile`, `universe` | verdicts, the sampled clock skew | eleven checks in order | a slow round trip, a venue that moves while it is read | nothing starts before every check passed |
| **Live ingest** `data/live`, `data/backfill/kline_gaps`, `trade_gaps` | per-series watermarks, pending gap, spool files, partitions, gap rows | route a frame, poll, disconnect, seal a day, repair | a seal thread beside appends, a cancelled poller, a failed write, a crash while disconnected | every hole has a gap row (while a session stands: see disagreement 6); a resolved gap is held; a print is never lost |
| **Backfill** `data/backfill/runner`, `plan`, `registry` | registry rows, Parquet files | plan, fetch, write, register, find gaps | crash between file and row, archives published late or withdrawn | a finished run holds what it was asked for; a file never narrows |
| **Trial ledger, lifecycle, audit chain** `evolution`, `persistence/chain` | append-only ledger, genomes, lifecycle events, hash chain and its tip | charge, execute, record a genome, append a transition, verify | concurrent charges, stale reads, identity order against lock order | no charge is lost; a chain verifies; only legal transitions |
| **Archive intake and point-in-time data** `data/archive`, `loaders`, `quality`, `features`, `alt` | cache with checksum siblings, partitions, feature values, availability snapshot | fetch, parse, gate, write, compute, read as of | republication, rot, format cutover, a snapshot read in two parts | what is read was published, whole and knowable |
| **Schema** `migrations`, `platform/persistence` | tables, grants, guards | upgrade, downgrade | default privileges on re-created tables, rows an older schema cannot hold | append-only tables stay append-only, up and down |
| **Backtest** `backtest` | event heap, clock, resting book, recording, portfolio | run, match, replay, settle, partition | equal timestamps, latency, queue position, purging | no look-ahead, no unearned fill; cash and positions agree; train and test never overlap |
| **Strategies** `strategy` | runner's state: bars consumed, window, feature values | register, hand a bar, evaluate | warm-up, withheld features, refused bars, a clock read twice | a signal stands on what was available, with the declared level |
| **Positions** `domain/position` | quantity, entry price, profit, fees | apply a fill | redelivery, flips, partial closes | quantity and cost agree with the fills |
| Risk statistics, agents, configuration, safety kernel, logging, telemetry | little or none | estimates, validation, output | – | – |

How they interact: detectors publish facts on the **bus**; the **degraded modes** consume
some of them, and some modes trip the **kill switch**; the **supervisor** reads the kill
switch's journal at start and admits signals only when it is clear; **strategies** emit signals
from feature values; the **risk desk** turns batches of them into orders inside the **loss
limits**; the order path calls the **venue** through the rate governor, after the **pre-flight**;
fills become **positions**. Ingestion jobs are run by the **scheduler**; **live ingest** and
**backfill** write one corpus and one gap registry; features and **backtests** read it; a search
charges the **ledger** for every trial, and the **validation protocols** judge what it found.

Components that share state are composed (the three writers of the corpus; the books of a
backtest over positions; the simulated venue inside the run). Others take one another's
influence as an environment action: in `Supervisor`, `HumanResume` is the whole of the kill
switch's resume procedure; in `DegradedModes`, `Measure` is every detector.

## Modules

### EventBus, ExactlyOnceEffect

`EventBus` has one stream and one group. A message id is an index of `log`; two publishes of
one event are two ids, as the content digest is the idempotency key. `pel` and `idle` are the
group's pending list, `processed` and `effects` are the database, `half`/`batch`/`pc` say where
each consumer stands in `run_once` and `handle_one`. The transaction of `_claim_and_apply` is
two actions, `Claim` (which waits on the row lock another consumer's uncommitted claim holds,
as `INSERT … ON CONFLICT` does) and `Commit`; `Ack` follows. `Abort` is an exception or a crash
anywhere. `Publish` trims as `MAXLEN ~` may. `ExactlyOnceEffect` is what a caller is promised:
an accepted, valid event is applied at most once, a malformed one never; `PromiseKept` says the
bus implements it.

### KillSwitch, JournalFold

`journal` is the table; a row has a kind, an incident, an operator and a stamp, and rows are
ordered by stamp and then by event id, which is random. A trip is three actions, one per
`TripStep` group, so that a crash or another trip falls between them. The resume procedure
reads (`Gather`) before it acts (`Resume`), so what it decides on may be stale; `Accepted` is
`resume_refusals`. `Derived` says declaratively which state a journal means (the earliest trip
no later resume of its incident closes); `JournalFold` is `derive_state`'s loop as the code
writes it, a fold over the rows in journal order that keeps a dictionary of open incidents, and
`FoldIsEarliestOpenTrip` compares the two on every reachable journal.

### Supervisor

`phase` is the program counter of `run`: serving, then the three steps of the fatal handler,
each of which may raise. `halted` and `degraded` are `SupervisorState`. `tripped` stands for
the journal (module KillSwitch), `exposed` remembers a fatal error whose book has not been
flattened, `owed` a halt that documents say only a human lifts.

### Scheduler

A beat is a process: `beat`, `pos`, `at`, `due`, `got` are the locals of `tick` and
`_claim_due`; `stage` and `fires` are its tasks. Each claim is its own transaction. The lock is
a variable; `LockLost` is the loss of its connection while the beat lives. An exception out of
`tick` (a broken task, a backlog over its limit, a database error at a read of the cursor or at a
claim: `ReapRaises`, `BacklogRaises`, `LedgerRaises`) first releases the lock and then ends the
process (`Unwind`, `Unwound`), in that order; what the tick had claimed by then stays open.
`DueFireTimes` is `due_fire_times`, `Finished` the conditional update of `finish`.

### DegradedModes

Observations are measured, and then delivered any number of times in any order. `Superseded`,
`Faulted` and `Cleared` are `_superseded` and the two branches of `_observe`. `rows` counts the
audit rows each measurement caused.

### VenueCalls

A call is `Admit` (up to the await), `Headers` (the trace hook files the metadata) and `Answer`
or `Fail`; the `finally` observes whatever metadata the one shared slot then holds, its own or
another's. Expiry drops a head of each deque, as the code's loop does. `body` is ccxt's `last_http_response`. `sent` is a history of admitted requests,
used only by the properties. Callers share one exchange, as two `ThrottledExchange` views of
one `GuardedCcxtExchange` do.

### GapRegistry, LiveIngest, TapeCorpus, ArchiveBackfill

`GapRegistry` is the table `coverage_gap`: a row is known by its bounds, kept for ever and
resolved at most once; the other three write to it. `LiveIngest` is the bar series: sessions,
the watermark a poll moves before its gaps are written, an outage that waits in memory for the
next session to open, repairers. A session ends in one of three ways. `Drop` is an error of
`TRANSPORT_ERRORS`, the socket's or, an `OSError` all the same, that of a database which refuses
the connection of a write: what was about to be written is not, and the session is retried, as it
is after an attempt that fails (`FailConnect`). `PollerFails` ends the poller alone; the session is
read on without it (`unpolled`). `Die` is everything else. The history
`expected` holds the minutes a session is to account for, those its detector had neither settled
nor seen when it opened, and is emptied when the session ends. `TapeCorpus` is the trade tape: the socket appends to a day's spool
while a thread seals it (read, compare, write, unlink are separate actions; `SpoolGone` is a
read of a spool that another seal has removed) and the trade
repair, another process, rewrites partitions; a cancelled poller leaves its thread running.
`ArchiveBackfill` walks a plan, a partition file before its registry row, over archives that are
published late, spoiled or withdrawn. Histories (`noticed`, `finished`, `received`) record what
was owed in the other two; `early` records the days a repair reached before their first seal.

### RiskDesk

One action decides a whole batch, stage by stage in the order of `decide`: who may trade, sizing
with its ceilings, flattening requests, exposure headrooms, concentration, netting to one order
per instrument, rounding, attribution. Between batches the orders fill wholly, partly or not at
all. Amounts are whole numbers in the policy's proportions.

### DrawdownMonitor, PositionFills, BacktestBooks

`DrawdownMonitor` keeps the monitor's state beside the row it is restored from, and `seen`, the
samples the state stands on, against which the marks are judged. A sample may carry the instant
of the one before it: `with_equity` refuses only an earlier one. `PositionFills` delivers the
venue's fills any number of times and in any order. `BacktestBooks` adds the backtest's cash over
those fills: funding is charged on what is held at its instant, and nothing is booked backwards
in time; `settled` remembers what was booked before each settlement.

### Preflight

Checks run in order and stop at the first failure; three of them take several steps while the
venue's clock, balances and orders move. `MeasuredSkew` is the midpoint estimate.

### SimulatedVenue, BacktestRun

`SimulatedVenue` is the fill simulation as a value and pure functions on it: observing a bar,
submitting, resolving an acknowledgement, queue position, marketable walks, filters. It is the
state of `BacktestRun`, which loads the feed, pops the event queue, lets a session decide, and
records the venue's answers, which a replay then serves.

### TrialLedger, LineageStore, SchemaMigrations

Transactions are split at their reads, locks and commits; a sequence number is drawn before the
lock and lost on rollback. `TrialLedger` counts trials as a set, so that a total is a cardinality,
and takes a backup and verifies a restored one. `SchemaMigrations` has the tables, references,
grants and guards after each migration, in both directions, and the rows that make a downgrade fail.

### ValidationProtocols, PointInTime, ArchiveIntake, StrategyRun

`ValidationProtocols` computes partitions, purges, embargoes and walk-forward schedules as sets
of ticks and runs them against the ledger, part by part, with failures. `PointInTime` holds
observations with holes, values stamped with the instant they became knowable, an availability
snapshot taken in two reads, and as-of reads. `ArchiveIntake` is one partition from the host to
the corpus with crashes, rot and republication between the steps. `StrategyRun` registers a
catalogue, then hands bars to one strategy: refusals, warm-up, withheld features, the four
shipped beliefs, the invalidation level, and a clock that may move between the runner's read of
it and the strategy's.

`MC*` modules give the constants values; every definition whose name carries a suffix such as
`Claim_AckFirst` is a mutation, a plausible bug of the definition it precedes, which shows that
the property named for it in `PROJECT.json` would notice. `MCCorpus`, `MCDesk` and `MCResearch`
follow one component per behaviour (`series`, `part`, `study`), those they compose together: it
costs the sum of their state spaces and not the product. `MCCorpus` also follows the schedule
of two jobs (`Scheduler`) as long as its lock is kept; `MCScheduler` has one job and a lock that can
be lost.

## Runs

| Run | Question | Result |
|---|---|---|
| `bus` | Does exactly-once survive two consumers, a repeated publish, trimming and one crash? | `TypeOK`, `EffectAtMostOnce`, `NoEventLost`, `HandlerExclusive`, `PromiseKept`, `EventuallyDecided` hold |
| `killswitch` | Can any order of two incidents, two operators, crashes and tied stamps open the gate wrongly? | `TypeOK`, `OpenGateMeansClear`, `RemediationLeavesEvidence`, `ResumeFollowsProcedure`, `FoldIsEarliestOpenTrip` hold |
| `scheduler` | Is a fire time run twice, an outcome rewritten when the lock is lost, or a claimed run left open? | `TypeOK`, `RunAtMostOnce`, `VerdictsStand`, `EventuallyClosed` hold |
| `corpus` | Do live bars, the tape and backfill, with their repairs, crashes and leftover threads, lose data, or, while a session stands, leave a hole it has settled unrecorded? With the lock never lost, does the schedule of their jobs skip a window that a job must run, or run a job in two beats at once? | `CorpusTypeOK`, `HolesRecorded`, `ResolvedMeansHeld`, `NoPrintLost`, `FinishedRunHolds`, `ArchiveNeverNarrows`, `NoHoles`, `SoleRunner` hold |
| `desk` | Do the parts that meet at an order keep the mandate, their books, budgets, bans and halts? | `DeskTypeOK`, `BookingsAreReality`, `BookInsideMandate`, `LossesStaySeen`, `StartIsProved`, `BudgetsHeld`, `EntryNeedsDistinctFaults`, `HaltsAndExitsHold`, `BanSeen`, `IncidentHolds` hold |
| `research` | Is what research reads, runs, charges and records honest? | `ResearchTypeOK`, `RunIsHonest`, `LedgerHolds`, `EvolutionRecordHolds`, `SchemaHolds`, `ValidationHolds`, `DataHolds` hold |
| `supervisor_halt` | Is a halt by a mode lifted by a human only? | `ModeHaltNeedsHuman` is violated |
| `degraded_redelivery` | Does a redelivery ever write a second row? | `OneRowPerMeasurement` is violated |
| `corpus_shrink` | Can a rewrite shrink a partition of the tape? | `NeverShrinks` is violated |
| `holes_forgotten` | Is a minute that was found missing, or is part of an outage, remembered until it is recorded, whatever ends the session? | `GapsNeverForgotten` is violated |
| `lifecycle_race` | Can two writers record a transition the strategy could not make? | `OneHistory` is violated |
| `event_chain` | Does the chain of lifecycle events verify whatever the order of its writers? | `EventChainVerifies` is violated |

A property of a composed run is the conjunction of its components' properties:

- `BookingsAreReality`: the desk's attribution adds up to its orders and crosses; a position is
  what its fills come to; a backtest's cash, profit, fees and funding are one identity, and each
  funding was charged on the position of its instant.
- `HaltsAndExitsHold`: an active mode halts, a trip outlives the process, a fatal exit code of
  success means a flat book. `IncidentHolds`: a mode that needs a clean reconciliation is not
  left without one, and an incident's blocked symbols only accumulate. `BudgetsHeld`: the order
  rate and the weight shares of the request classes.
- `DataHolds`: an admitted partition is one publication, whole, in order, within its rejection
  ceilings and with its gaps exact; values computed for an instant do not change with what is
  observed later; an as-of read serves nothing unknowable and no window with a hole; a signal
  stands on closed bars and at least its deepest lookback, with every feature it declares, at a
  level between the declared floor and cap on the losing side.
- `RunIsHonest`: decisions use only bars closed before them, volume eats the queue before it
  fills, a fill has its print in the tape, a replay repeats the run. `LedgerHolds`: totals count
  every charge, and a verified backup holds every row up to its recorded tip. `EvolutionRecordHolds`, `SchemaHolds`, `ValidationHolds`:
  lineage and lifecycle records, privileges after any path of migrations, partitions that do
  not leak and parts that are charged before they are evaluated.

## Bounds

Every bound is a constant named for what it limits, and appears in a guard.

- `bus`: two consumers, one valid and one malformed event, three entries (`MaxPublish`), of
  which two are kept (`MaxLen`), batches of two and one fault. Three entries are enough for an
  event to be published twice and for trimming to overtake a lagging group; every race of the
  group is between two consumers.
- `killswitch`: two incidents, two operators, two trippers, few rows and instants: a resume of
  one incident while the other is open needs three rows, an arm a fourth; two instants make
  ties and steps back.
- `scheduler`: two beats, one job that must run every missed window, one drop and one fault, which is
  a crash, a broken task or a database error in mid-tick: the lock is lost, taken over, and either
  beat then dies or breaks; times 0..3 give a backlog above the catch-up limit of two.
- `corpus`: a clock of three ticks with one of grace for live bars, two repairers racing in two
  passes, one connection that fails (to the venue or to the database, in a session, before one or under
  the poller) and one crash; a tape of five prints over two days of three instants, three of which share an
  instant (so that a repair can mistake one side of a gap for the other) and one of which falls on
  the last instant of its day, arriving late, with two faults (a drop that leaves a gap and a crash
  among the writes that follow) and one repair; a backfill over nine days of four-day months (a whole month, a partial one and the recent
  window), one archive published late, two runs. A fault can fall between any two writes, and
  a second pass of the bars, or a second run, sees what the first left. The schedule has two
  beats and two jobs, one that must run every missed window and one that runs at the present instant,
  one permit for both, and one fault; times 0..2 give two missed windows, so that a catch-up can be cut
  short between them.
- `corpus_shrink`: the tape alone, one fault, one repair.
- `holes_forgotten`: the bar series alone, without repairs, two instants after the start, and one
  failed connection: enough for the shortest of three ways (disagreement 6), the other two being found
  with the bounds named there.
- `desk`: three strategies on three instruments, two of them one asset, in two rounds over a flat, a long and a
  short book, every statement of the first strategy with one of the second; four samples of four
  equities over two days of two ticks with one restart, several at one instant among them; three
  fills of two instruments, one or two lots bought or two sold, so that a position is opened,
  added to, reduced, closed and flipped either way, two of them with two settlements in a
  backtest's books; a drift of one tick against a clock of four; two callers and three calls, an
  order window of one tick taking two orders and a weight window of two; three measurements of
  two modes and two symbols in two instants, one mode that needs two faults and a reconciliation
  and one that needs two clears; three process starts, so that a mode halt, a restart and a
  further restart all occur.
- `research`: five bars and three orders of eight shapes, acknowledged at the very instant the next bar
  closes, with a queue eaten over several bars; two clerks, three specifications, five
  ledger rows; three genomes and eight decisions, one curator (two in the violation runs); all
  twenty-one migrations in both directions; some thirty protocol declarations, several
  of them refused; four ticks of prices and availability, two
  rows of rates, so that an event can have two vintages; two archive days on either side
  of the microsecond cutover in nine versions with one change, two runs; strategies over bars
  of one and two ticks on two instruments, with warm-ups of two and three, so that the window
  overflows, levels hit floor, cap and tick, and every refusal occurs.

The desk, the corpus and the research runs follow many components, so each component gets the
smallest bounds at which its hazard occurs and its mutant is found; the theorems below state
most of the same properties with no bound at all. Every passing run ends within two minutes.

Symmetry is used over incidents, operators, trippers, symbols, beats, clerks and repairers, and in no run
with a liveness property. Deadlock is checked in `bus`, `killswitch` and
`scheduler`. In `corpus`, `desk` and `research` the bounds on clocks, rounds and rows end
every behaviour, so it is not checked there.

## Fairness

`bus`: each consumer keeps calling `run_once` (`WF` on its steps; its caller loops for ever)
and the idle time of a pending entry passes (`WF` on `IdleElapses`). Publishing, crashes and
failing handlers get none, and faults are finite: a handler that fails for ever is the
operator's (see hazards). `scheduler`: a stopped beat is restarted (the process manager's
restart policy, `Boot`/`Sweep`), a tick goes on, and a task's steps happen (the event loop). No
fairness is assumed of faults, of the loss of the lock, or of the clock.

## Proofs

TLAPS proves, for every value of the constants and with no bound on the state space:

**EventBusProofs**, from `BusAssumption`.
`TypeCorrect` is the type invariant. `NothingLost` needs `AckAfterDecision` (a consumer about
to acknowledge has made the outcome durable), together with the fact that decisions are never
undone (`DecidedStable`). `AtMostOnce` and `Exclusive` come from one inductive invariant,
`DedupInv`: the effects of an event are as many as its rows, and a claim in progress excludes
a row and another claim. `Refinement` is `PromiseKept`, step by step, under the same invariant.

**KillSwitchProofs**, from the assumption on the constants.
`OrderIsPosition` … `DerivedState` are about `derive_state`: the order of rows is total, so the
earliest open trip exists, and the state is halted exactly when some trip is open.
`NeverOpenOverIncident`, `EvidenceFirst` and `ResumeByProcedure` follow from `SwitchInv`: an
open gate means no open trip *and no trip already blocked and about to be recorded*, a trip
that is to be remediated and an incident about to be resumed are on record. The first is why
`OpenGateMeansClear` is not inductive alone: without it, a resume could open the gate between
a trip's block and its row. `FoldIsDerived` joins these to the code's loop: after every prefix of
the ordered rows the dictionary holds, of each incident with an open trip, the earliest of them
(`Owns`, kept by `StepOwns`), so its minimum is the earliest open trip of all. The induction is
over the positions of the rows, by the least counterexample (`FoldSteps`, `LoopOwns`).

**SchedulerProofs**, from `SchedulerAssumption`, with faults and lost locks without bound.
`TypeCorrect` rests on `TypeInv`: a claim loop is only open during a tick, for a job that has no
task, and what it has won is in the ledger; what is due is a time on the clock (`DueInTime`,
with the integer division of the cursor in `NoEarlierMultiple`). `OncePerFire` needs `Own`: an
unclaimed fire time has not run, a claimed one is held (`Hold`) by a single beat's tick or task
until it is recorded, and of what a task holds only the fire it is in the middle of has run.
The advisory lock appears nowhere in that argument: the ledger's key alone carries it, so it
survives two beats that each believe they hold the lock. `OutcomeStands` is the case
analysis of the three writers of the ledger. The lock matters for the other two, which hold
while it has not been lost. `OneRunnerUntilLockLost` is from `SoleInv`: a beat that has not swept
has no task, a beat that is up holds the lock, and the fires it holds are open unless it is
unwinding, so a second beat can neither run nor sweep beside it. A beat that unwinds has released
the lock and not yet ended its tasks; the next one may sweep and run meanwhile, and the theorem
leaves that beat out. `EveryMissedRunClaimedUntilLockLost` puts `NoHolesInv` on top of it: the
claimed times of a job under `RUN_EVERY_MISSED` have no hole between them, and neither would they if
the beat claimed all that is still due, which lies after them in ascending order. The other policies
skip windows on purpose, and of them it says nothing. Both statements are `drops = 0 => …`: once a
lock's connection has been lost, two beats may run at once and, finding no cursor, begin at different
windows. What holds then as well is that a fire time is run at most once (`OncePerFire`) and that an
outcome stands (`OutcomeStands`).

**GateProofs** is what stands between a fault and an order, in three parts.
*The process*, from `SupervisorAssumption`: `HaltsHold` needs `ProcessInv`, that a serving process
without a halt has neither a trip on record nor a tripping mode, and that the handler about to
record its exit has flattened the book. *The modes*, from `DegradedAssumption` and
`EnterAssumption`: `EntryProved` and `IncidentsHold` need `ModeRemembers`, that the last applied
measurement is one of the mode's with its stamp, that it was a fault while faults are being
counted, and that an active mode has been measured faulted as often as its rule asks.
`EnterAssumption` (`Enter[m] <= 2`) is what every shipped rule satisfies and it cannot be dropped:
see below. *The start*, from `PreflightAssumption`: `StartProved` needs what each check that has
not failed `Established` and left true while the venue moves, the clock reading bracketed by two
readings of the host's clock (`ClockRead`), and a required universe that stays tradable
(`UniverseKept`).

**LiveIngestProofs**, from `LiveAssumption`, with any number of repairers, failures, crashes and
passes. `HolesStayRecorded` and `ResolvedRowsAreHeld` are proved together, as each step of a repair
needs both, from `LiveInv`: what a session is to account for and has seen is in the table or in the
frame being written (`SeenIsKept`); rows not yet written are open; rows of one kind are told apart by
their bounds; a pass about to resolve a row has written every minute it found of it (`RepairOK`).
`HolesStayRecorded` is about the minutes in `expected`, so about a session that stands with its poller:
its end, or a poller that fails, empties that set, and what is lost then is what `holes_forgotten` shows
(`GapsNeverForgotten` has no such limit and is false). It begins with
the lemmas on the gap rows, which CorpusProofs uses too: least and greatest elements of non-empty
bounded sets of numbers (`LeastExists`, `MostExists`), and that the rows made from a set of missing
times cover it (`RunsCover`) and nothing outside it (`RunsWithin`).

**CorpusProofs** is about the two series that share their files with another writer.
*The tape*, from `TapeAssumption`: `PrintsKept` needs `TapeInv`. Of every day the delivered prints
stand together, in the spool until the day may be sealed (the assumption `MaxLate < SealGrace` is
what makes a delivered print precede the seal) and from then on in the partition *and in every
copy of it that a seal's thread or a repair has in hand*, which is why a second seal, a leftover
thread or a repair that writes an old copy loses nothing. *The backfill*, from
`ArchiveAssumption`: `FinishedRunsKept` and `NeverNarrows` need `ArchiveInv`. A registered row stands
for days that are in its file and whose archives the host or the cache still has (`Retained`);
the days a run holds between its reads and its writes contain those of the row it replaces; a
row without a missing day has none between its ends, so a partition `_is_complete` skips covers
what the run owes of it. `NeverNarrows` shows that `_require_no_narrowing`, which compares the two
ends only, is enough *because* the cache is never pruned.

**DeskProofs**, from `VenueAssumption`, with any number of callers and requests. `BudgetsKept` needs
`CallsInv`: the governor's two deques are tails of what was sent, so that every order of the
current window has its slot (`SlotsKnown`) and every charge that was dropped lies outside the
weight window (`ChargesKnown`). The orders of a window that a new order ends are then as many as
the slots at most (`RecentBounded`, an injection), and the weight of a window at most the
governor's own total (`TailBounds`), whatever the header claims, as `used_request_weight` takes the
larger count. `RunningSteps` gives the running total its two equations: the prover has no induction
principle it can instantiate, so these lemmas argue by the least counterexample. `BansObeyed` is
the case analysis of the ends of a call.

`LossesKept`, from `MonitorAssumption`, holds for every list of samples, day length, budgets and
any number of restarts. Its invariant `MonitorInv` reads the monitor's state off the samples it
stands on, and the saved row's off those saved with it (`Follows`): the peak is the highest equity,
the day's opening equity is that of the first sample of its day, and the marks are the tail of the
samples that begins at the last one outside the window (`PruneLeavesATail`), so the three
references are those of the samples (`ReferencesAgree`). A later sample changes no earlier verdict
(`EarlierSamplesStand`), so the latch is the disjunction of them all; `SizeLeft` is the arithmetic
of the taper, which leaves some size under every budget that is not used up.

*The risk desk*, from `DeskAssumption`: any policy, universe, clusters, records, batches and books.
`BookAlwaysInsideMandate` and `AttributionAlwaysReal` come from one invariant, `DeskInv`, of the book, the
marks, the orders and the last decision; the work is in what one decision leaves (`DecideSound`).
Its loops are recursive functions of which the prover knows nothing, so each gets an invariant
of its stages (`StagesExist`, `StepsUnique`): `Sizing` is what the signals looked at so far have left,
one request or one audit each, no pair of strategy and instrument twice, and of those that flatten
one holding exactly one that asks for it, the others for nothing; `Absorbing` is what the requests asked so far
have given of the cut that quantising made, and shows that nothing is left of it at the end, so the error
`netting.py:317` calls arithmetically impossible is; `Places` says that a group holds each request
of its instrument once and in order, so what is booked to the signals is the plan's net
(`PlanBooked`). `PermittedInside` and `SizedInside` carry the limits from the headrooms through the terms of
the size, the derisk multiplier and the lot. The sums are over sequences (`AddUpAppend`, `AddUpConcat`,
`AddUpSplit`), and that a sum over a set is one is `TotalTyped` and `TotalOne`.

**ResearchProofs**, from `LedgerAssumption`. `LedgerKept` needs `LedgerInv`: numbers and running totals
order the rows alike, and each row but the first names the one before it (`OneChain`), whatever
numbers were lost to rollbacks between them; whoever is at work holds the advisory lock, and what it
has staged was made of the ledger *as it still is* (`LockInv`), which is what makes the running total
and the link right when they are committed. Without the lock this part fails at once. A dump is a
chain and the tip recorded before it is one of its rows (`BackupInv`), so it passes for complete
exactly when it ends there (`Judged`). The sums are stated as numbers of trials, the cardinality of
what the rows charged for, so the order of summation plays no part.

*The evolution record*, from `LineageAssumption`. For any number of curators: `LineageStaysTyped`, and
`FundedOnceKept`, which needs that whoever is about to commit holds the lock of the event chain since
its keys were checked (`CuratorsInv`). `SerialRecordKept` is `EvolutionRecordHolds` under `OneCurator`,
as the runs `lifecycle_race` and `event_chain` refute it for two. Its invariant `SerialInv` says that
what a transaction has read still stands when it appends (`StillTrue`), and that a state which earns
capital has its backtest and validation on record (`Earned`). `AncestorsAre` shows that the bounded walk
of `would_create_cycle` is deep enough: it ends at the least set with everyone's parents, as every
step but the last meets another genome with a parent (`WalkGrows`). Hence a record that passes the
walk closes no cycle (`NoCycleAdded`), and a quarantine reaches every descendant (`QuarantineReaches`).

*Validation*, from `ProtocolAssumption` (lengths, windows and horizons are natural numbers, a score is
an integer; what a declaration must satisfy beyond that is checked by the code and is no assumption).
`ValidationKept` holds for every declaration. That nothing leaks (`LeaksNothing`) is arithmetic on the
windows of a split: a training tick that stays is further from every test block than its label reaches,
on the one side by the purge and on the other by the embargo, and a fold's training ends a gap before
its test. That the test is even (`TestsAreEven`) is a count: exchanging one group for another is
one-to-one on the choices of `size` groups, so every group is tested in equally many parts
(`TestedEvenly`), and counting the pairs of a part and a group of it both ways says in how many. The
folds of a walk-forward schedule leave no tick between their tests (`FoldsUnbroken`). That no part is
evaluated unpaid and no spread is stated of fewer than two needs `ProtocolInv`: what is scored or
has failed is paid for, never both, and a run that has finished accounts for every part.

*Point-in-time data*, from `ClockAssumption` and `FeatureAssumption` (what `FeatureSpec` and the
registry refuse otherwise). `PointInTimeKept` has two halves. That a value does not change with what
comes later holds of every set of observations, with or without holes: the window of an instant is
that of the observations up to it (`PastOf`, `PrefixAgrees`), for each of the shipped computations, and a
label is entered after its decision (`LabelsAfter`). That an answered read holds nothing unknowable and
spans bars that are all held is an invariant of the *order of two reads*: a contract that has read
only its coverage bounds ticks that are held **or recorded as missing** (`ContractInv`), and a hole
recorded or repaired between that read and the one of the gaps can only leave a gap too many in the
contract, which refuses, never one too few. It would fail with the reads the other way round.

*The backtest*, from `VenueSimulationAssumption` and `RunAssumption` (bars of whole prices, an end, a
positive interval). `NoLookAheadKept` holds for every tape, latency, depth, filter, set of order shapes
and budget. Its invariant is `SimulationInv`, of the run that is simulated: of the bars inside the
replay, those dispatched precede those that wait, with no hole between them (`QueueInv`); the quote is
that of the last one dispatched (`QuoteInv`); orders were decided on dispatched bars and their
numbers tell them apart (`OrdersInv`); and an order that rests was acknowledged before any bar that
still waits closes, while every print says what it was priced on (`BookInv`). At an
acknowledgement, the bars that close by then have all been dispatched, as a bar comes before an
acknowledgement of the same instant (`Priority`): the touch it crosses is the last closed bar's, and
whatever pays an order that comes to rest closes later. With the two priorities exchanged, the
second half fails.

*Strategies*, from `StrategyAssumption` (what `StrategySpec` and `InvalidationRule` refuse otherwise, and
the bounds of the shipped parameters). The invariant `StrategySound` says that what runs was admitted,
what has not run is fresh and the window is made of bars that were handed over. `SignalsAlwaysStand` needs
of it that a window one bar longer ends in that bar and holds nothing new besides (`AdvancedSays`), and
that a price snapped away from its entry stays within a tick (`SnappedIs`, `LevelIs`).
`OnlyMovedClocksMismatch` is that the newest bar a strategy sees, if it read the runner's clock, is the
one handed over (`SameClockMatches`). `WarmUpAlwaysCovers` needs `Aged`, which counts: bars that come in
order open at least the shortest interval apart. It is proved where every interval is a multiple of the
shortest (`IntervalsNest`), as where one is declared, which is all the shipped strategies do. Without
it the statement fails: bars of two and three ticks open at 0, 2, 3 and 4, so four of them end after
six ticks and `warm_up_duration` has counted eight.

Only model-checked, and why:

- liveness (`EventuallyDecided`, `EventuallyClosed`): beyond the prover;
- of `BookingsAreReality`, the parts about fills and about a backtest's books
  (`PositionIsItsFills`, `BooksBalance`): its first part is `AttributionAlwaysReal`. The others speak of
  average prices, which the model divides exactly: they hold for prices of which every average is a
  whole number, a hypothesis on `Prices` that the code's decimals do not need;
- of `DataHolds`, the intake (`IntakeHolds`): its second part is `PointInTimeKept` and its third
  `SignalsAlwaysStand`, `WarmUpAlwaysCovers` and `OnlyMovedClocksMismatch`. The intake's rows must lie in
  the day of their file and on the bars' lattice; those of the shipped sources do, but no code enforces
  it, so that a theorem would need it as a hypothesis on the constants;
- of `RunIsHonest`, that fills are earned and that a replay agrees (`FillsEarned`, `ReplayAgrees`): its
  first conjunct is `NoLookAheadKept`. What an order got against the volume that traded is a sum over
  the bars of its life, and the recorder is a fold over the venue's answers; of neither do the provers know
  the equations, and the sets the sums run over change with each bar;
- `SchemaHolds` is about a fixed list of migrations, which the run goes through completely;
- the composed `CorpusTypeOK`, `DeskTypeOK`, `ResearchTypeOK`: their parts are proved where the
  component is (`TapeTyped`, `ArchiveTyped`, `LiveTyped`, `ProcessTyped`, `ModesTypeCorrect`,
  `BootTyped`, `CallsTyped`, `MonitorKept`, `DeskAlwaysTyped`, `LedgerStaysTyped`,
  `LineageStaysTyped`, `ValidationStaysTyped`, `PitStaysTyped`).

## Where code and documents disagree

1. *A mode's halt is not sticky* (`supervisor_halt`). `enter_degraded`'s docstring and
   `FAILSAFE.md` 2.6 and 3.4 say a tripping mode trips the kill switch and only a human clears
   it. The function sets a reason in memory and writes no row, so a restart, or adopting a
   reading after the mode was left, admits signals.
2. *A redelivery can write a second row* (`degraded_redelivery`). `_superseded` knows only the
   last id and strictly earlier stamps; two measurements with one stamp, the earlier of which
   is delivered again, are both applied twice.
3. *A partition can shrink* (`corpus_shrink`). The seal compares row counts and writes later;
   nothing excludes the trade repair in between, nor a second seal by a thread left over from
   a cancelled poller.
4. *Two histories of one strategy* (`lifecycle_race`). `append_lifecycle_event` reads the current
   state without a lock and inserts afterwards.
5. *The event chain can fail to verify* (`event_chain`). The identity value is drawn before the
   trigger's advisory lock; migration 0018 explains and repairs this for the trial ledger only.
6. *A hole that was known is forgotten* (`holes_forgotten`). `DATA_PIPELINE.md` section 5 and
   `router.py:9` say that a minute with no closed bar is a gap once its grace is over, and
   `supervisor.py:17` "A gap per outage, always". Three ways lose one, and `GapsNeverForgotten` is
   violated in each.
   (a) The run: a poll moves the watermark and then writes; a session that ends in between cancels
   the poller (`supervisor.py:234`), and no poll looks at the minute again. So does a poller that
   fails at its write.
   (b) With `MaxFaults = 2` and `Grace = 2`: `close_pending_gaps` clears the pending outage
   (`router.py:222`) and hands out its row; if the database refuses the connection of that write, an
   `OSError` and so one of `TRANSPORT_ERRORS` (`platform/safety/client.py:48`), the session is retried
   and the row is gone.
   (c) With `MaxCrashes = 1` and `Grace = 2`: `mark_disconnected` (`router.py:181`) keeps the outage in
   memory, so the registry does not make it "visible while it lasts" (`supervisor.py:158`), and a
   process that ends while disconnected leaves no row: `close_open_gaps` (`supervisor.py:270`), written
   for a shutdown, is called by nothing but a test.
   A late bar that was noted and whose write then failed counts as arrived as well; of that no property
   speaks.

Seen while modelling and checked by no run:

- `data/backfill/trade_gaps.py:392`, `_left_bracket_id`, takes the newest print at the gap's left
  instant for the one the gap was measured from, as nothing with a higher id can carry that
  instant. Where the prints on both sides of the gap share it, the right-hand print is taken for
  the left one and the ids derived from it run past the gap: the repair can close the row over
  prints that are still absent, or reach a day that is not sealed, against `trade_gaps.py:29` ("Only a
  sealed day is repaired"), where its rewrite races the seal and delivered prints are lost. An
  invariant that did not say so could not be proved; `NoPrintLost` excepts such days (`early`).
  The right side of a residual that no one holds is a `KeyError` (`trade_gaps.py:478`) that ends
  the pass.
- `risk/degraded` counts a measurement again when it is redelivered (finding 2): a rule that
  asked for three faults could be entered on two. No shipped rule asks for more than two, which
  is `EnterAssumption`; the proof attempt without it found this.
- `risk/engine.py:928` and `exposure.py:483` grant headroom per signal of a batch, where
  `RISK_PHILOSOPHY.md:152` and `:160` speak of the book (`RiskDesk!BatchInsideLimits`); a
  reduce-only request can be refused on paths that `exposure.py:30` calls exempt
  (`ReduceOnlyNeverRefused`); the daily halt of `RISK_PHILOSOPHY.md` section 7 is a permanent
  latch in the code.
- `strategy/_runner.py` reads the injected clock and the strategy reads it again: under a clock
  that runs, unlike a replay's frozen one, the two differ and every signal is refused
  (`OnlyAMovedClockMismatches` says nothing else does it). One state serves all of a strategy's
  instruments, so the second instrument's bar of an instant is refused as going backwards.
- `strategy/_spec.py:126` calls the shortest interval conservative for every declared one. It is for
  bars of one length; where two lengths that do not divide one another interleave, the bars
  consumed take less time than the warm-up claims (no shipped strategy declares two).
- `backtest/venue/_simulation.py:22` promises a print on the bar it is stamped in; resolving an
  acknowledgement late prices it on a bar closed after its stamp. A marketable limit walk is
  clamped to the bar's range only. A replay serves resting prints in order of client order id.
- `platform/safety/exchange.py:403`: one slot holds the last body, so a caller may be handed
  another's answer (`VenueCalls!AnswerIsOwn`). `execution/throttle.py:466`: a later, shorter
  Retry-After replaces a longer cooldown. `platform/bus/_consumer.py:211`: an entry that fails
  every time holds up its batch, and `:382`: a crash before XACK dead-letters it twice.
  `platform/scheduler/_policy.py:107`: one job's backlog over its limit stops the whole tick.
- `platform/persistence/schema.py:332` lists three gap kinds where migration 0011 allows five;
  the downgrades of 0009, 0013 and 0017 drop rows without refusing; the downgrade of 0008 leaves
  default grants under which re-created tables are writable; `tools/release/migrations.py:130`
  calls 0011 reversible although its downgrade fails once a live gap is recorded
  (`SchemaMigrations!RollbackAsAdvertised`).
- `evolution/store.py:291`: two concurrent genomes may make a cycle of parents.
- `backtest/cpcv`: the embargo has no floor at the purge although `_partition.py:188` says so; a
  duplicated bar passes `data/quality/gates.py:296`, which accepts equal times.
- `data/backfill/runner.py:313` compares the covered end only; a refused narrowing of the tape
  is retried for ever; `data/features` checks the read window for holes and not the lookback
  behind it, and a value computed across a hole is kept after the repair.

## Not modelled

Row formats, JSON and SQL text, columns, logging, metrics; statistics over market data
(covariance, calibration, bootstraps' figures, cost models, the equity grid's ratios, tear sheets);
genome grammar and the contract gate's statistics; parameter binding of strategies; parsing of
venue payloads and request signing; cross-source comparison and the standing report of data
quality, the manifest; REST paging of klines and trades; text handling for agents;
configuration, allow-list checks and the telemetry registry, which are stateless or
declarations. In `ArchiveIntake`, bars missing before the first or after the last of a file are
no gap of the partition, as in the code; gaps of rows off the lattice are approximate. In
`EventBus`, duplicates on the dead-letter stream are counted but not bounded: it is
at-least-once.

Branches left out of modelled operations, each a refusal or an error that no property turns on:

- `VenueCalls!Admit`: a profile without a weight per minute, for which only the order rate is charged
  (`execution/throttle.py:573`).
- `RiskDesk!PortfolioHalted`: three more reasons to refuse a whole batch, a held instrument that has no
  market state or lies outside the risk universe and a book without a drawdown state
  (`risk/engine.py:790-827`); `PassesPreTrade`: no usable mark (`exposure.py:600`);
  `FixedFractional`: a distance of zero, which sizes nothing (`sizing.py:415-419`). The desk's
  positions are always priced and covered, and its stops lie away from the entry.
- `Preflight!Verdict`: a tick or step of 0 raises a `ValidationError` (`models.py:152`) that the check,
  which catches `PermanentExchangeError` alone (`preflight.py:701`), lets out of the gate. The model
  records a failed check; there is no start either way.
- `TapeCorpus!LoseLink`: the disconnect row of the tape series. The trade repair takes sequence gaps
  only; where both rows have the same bounds the registry keeps the first (`router.py:26`).
  A failed poller of the tape is polled on, which only adds seals.
- `ArchiveIntake!InsidePartition`: compares days; `parquet/writer.py:269-294` compares the day or the
  month, by the grain of the dataset.
- `StrategyRun!Distance`: a negative value of the scaling feature, which raises
  (`_invalidation.py:140-145`). The model takes the floor and signals, so it has more signals than the
  code.
- `SchemaMigrations!View`: views are without rights of the application from the start; 0009:255 and
  0018:325 revoke from `PUBLIC` and the ingest role only. By then 0008 has reset the default
  privileges, so the two are the same.

## Plan

Done, modelled and proved about: the event bus, kill switch and scheduler; the supervisor, degraded
modes and pre-flight; live ingest, the tape and the backfill; venue calls and the loss limits; the trial
ledger and the evolution record; the risk desk; validation and point-in-time data; backtests' freedom from
look-ahead; strategies. Done, modelled and checked: positions and books, fills and replays, schema and
intake.

Left, theorems, in this order: that an order is never filled beyond its size, from its remainder in
the book; the intake under hypotheses on its files.

Then, if the model is to grow: paging of the REST walks against a reference, the equity grid over
`BacktestBooks`, calibration's monotone fit, and one run that joins the kill switch, the
supervisor and the venue calls.
