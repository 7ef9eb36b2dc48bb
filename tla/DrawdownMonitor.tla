---------------------------- MODULE DrawdownMonitor ----------------------------
(* The loss limits of one portfolio (risk/drawdown) and the conditions that    *)
(* trip the kill switch (risk/triggers).  The monitor keeps a peak, the equity *)
(* the day opened at and the marks of the trailing window, and is restored     *)
(* from the row it was last saved to.  Ratios are in thousandths.              *)
EXTENDS Integers, Sequences, SequencesExt, FiniteSets, FiniteSetsExt

CONSTANTS EquityMarks,   \* the equities a sample may show
          Budget,        \* drawdown, daily loss, rolling loss
          TicksPerDay,   \* also the length of the rolling window
          VelocityTicks, VelocityRatio,
          Observations,  \* what else a round of observation may report
          Thresholds,    \* and when each of those trips
          MaxInstant, MaxSamples, MaxRestarts

ASSUME MonitorAssumption ==
  /\ EquityMarks \subseteq Nat \ {0} /\ TicksPerDay \in Nat \ {0}
  /\ Budget \in [{"drawdown", "daily", "rolling"} -> Nat \ {0}]  \* a subject without one is halted at once
  /\ Budget.rolling >= Budget.daily   \* _ROLLING_MULTIPLE
  /\ MaxInstant \in Nat /\ MaxSamples \in Nat \ {0} /\ MaxRestarts \in Nat

VARIABLES instant, monitor, saved, seen, savedSeen, firing, restarts
          \* seen: every sample the monitor's state stands on (history)

monitorVars == <<instant, monitor, saved, seen, savedSeen, firing, restarts>>

Limits == {"drawdown", "daily", "rolling"}
DayStart(t) == (t \div TicksPerDay) * TicksPerDay
Mark(t, e) == [at |-> t, equity |-> e]
Highest(marks) == Max({m.equity : m \in ToSet(marks)})

\* Thousandths of the reference lost, compared without rounding.
LosesAtLeast(reference, now, ratio) == (reference - now) * 1000 >= ratio * reference

OpenFirstTime(t, e) ==
  [peak |-> e, current |-> e, dayStart |-> DayStart(t), dayOpen |-> e, marks |-> <<Mark(t, e)>>,
   at |-> t, breach |-> "none"]

\* Mutation of Prune: the window begins at midnight.
Prune_AtMidnight(marks, t) == SelectSeq(marks, LAMBDA m : m.at >= DayStart(t))

\* _prune keeps the newest mark outside the window: the equity it opened at.
Prune(marks, t) ==
  LET before == {n \in DOMAIN marks : marks[n].at <= t - TicksPerDay}   \* they are ordered
  IN  SubSeq(marks, Max(before \cup {1}), Len(marks))

WithEquity(s, e, t) ==
  [s EXCEPT !.peak = Max({@, e}), !.current = e, !.at = t,
            !.dayStart = DayStart(t),
            !.dayOpen = IF DayStart(t) > s.dayStart THEN e ELSE @,
            !.marks = Prune(Append(@, Mark(t, e)), t)]

Reference(s, limit) ==
  CASE limit = "drawdown" -> s.peak
    [] limit = "daily"    -> s.dayOpen
    [] limit = "rolling"  -> Highest(s.marks)

Broken(s) == {l \in Limits : LosesAtLeast(Reference(s, l), s.current, Budget[l])}

\* evaluate: a latched breach stays; else the first limit in order.
Evaluate(s) ==
  IF s.breach # "none" \/ Broken(s) = {} THEN s
  ELSE [s EXCEPT !.breach = IF "drawdown" \in Broken(s) THEN "drawdown"
                            ELSE IF "daily" \in Broken(s) THEN "daily" ELSE "rolling"]

\* derisk_scalar, in percent: full size to six tenths of a budget, none at it.
UsedPercent(s, limit) ==
  ((Reference(s, limit) - s.current) * 100000) \div (Budget[limit] * Reference(s, limit))
DeriskPercent(s, limit) ==
  Min({100, Max({0, 100 - ((Max({UsedPercent(s, limit), 0}) - 60) * 100) \div 40})})
Multiplier(s) == IF s.breach # "none" THEN 0 ELSE Min({DeriskPercent(s, l) : l \in Limits})

------------------------------------------------------------------------------
\* evaluate_triggers, in the order of FAILSAFE's table.
LossVelocity(s) ==
  LET inside == SelectSeq(s.marks, LAMBDA m : m.at >= s.at - VelocityTicks)
  IN  LosesAtLeast(Highest(Append(inside, Mark(s.at, s.current))), s.current, VelocityRatio)
DrawdownTriggers(s) == Broken(s)
Diverged(o) == o.beyondDust /\ o.attempts >= Thresholds.attempts
TooManyRejected(o) ==   \* a full sample, and strictly more than the ratio of it
  o.outcomes >= Thresholds.sample /\ 100 * o.rejected > Thresholds.rejection * Thresholds.sample
Stale(o) == o.holding /\ o.age > Thresholds.staleness * o.p99
Skewed(o) == o.skew > Thresholds.skew \/ -o.skew > Thresholds.skew
CeilingBroken(o) == o.exposure > Thresholds.exposure \/ o.positions > Thresholds.positions

EvaluateTriggers(s, o) ==
  DrawdownTriggers(s)
    \cup {t \in {"velocity", "divergence", "rejections", "staleness", "skew", "exception",
                 "ceiling", "audit", "manual"} :
           CASE t = "velocity"   -> LossVelocity(s)
             [] t = "divergence" -> Diverged(o)
             [] t = "rejections" -> TooManyRejected(o)
             [] t = "staleness"  -> Stale(o)
             [] t = "skew"       -> Skewed(o)
             [] t = "ceiling"    -> CeilingBroken(o)
             [] OTHER            -> o.event = t}

------------------------------------------------------------------------------
MonitorInit ==
  /\ instant = 0 /\ firing = {} /\ restarts = 0
  /\ \E e \in EquityMarks : /\ monitor = OpenFirstTime(0, e) /\ seen = <<Mark(0, e)>>
  /\ saved = monitor /\ savedSeen = seen

InstantPasses ==
  /\ instant < MaxInstant /\ instant' = instant + 1
  /\ UNCHANGED <<monitor, saved, seen, savedSeen, firing, restarts>>

\* An equity sample: the state moves on, is evaluated, and the round of
\* observations it is part of is held against the triggers.
SampleEquity ==
  /\ monitor.at <= instant /\ Len(seen) < MaxSamples
  /\ \E e \in EquityMarks, o \in Observations :
       LET next == WithEquity(monitor, e, instant)
       IN  /\ monitor' = Evaluate(next)
           /\ firing' = EvaluateTriggers(next, o)
           /\ seen' = Append(seen, Mark(instant, e))
  /\ UNCHANGED <<instant, saved, savedSeen, restarts>>

\* to_row, and a process that comes back from the row: from_row, restore.
SaveRow ==
  /\ saved # monitor
  /\ saved' = monitor /\ savedSeen' = seen
  /\ UNCHANGED <<instant, monitor, seen, firing, restarts>>

FromRow(row) == row
RestartMonitor ==
  /\ restarts < MaxRestarts
  /\ monitor' = FromRow(saved) /\ seen' = savedSeen /\ firing' = {} /\ restarts' = restarts + 1
  /\ UNCHANGED <<instant, saved, savedSeen>>

MonitorNext == InstantPasses \/ SampleEquity \/ SaveRow \/ RestartMonitor

MonitorSpec == MonitorInit /\ [][MonitorNext]_monitorVars

------------------------------------------------------------------------------
\* Type invariant.
MonitorTyped ==
  /\ instant \in 0 .. MaxInstant /\ monitor.at <= instant /\ monitor.current <= monitor.peak
  /\ monitor.marks # <<>> /\ monitor.dayStart = DayStart(monitor.dayStart)
  /\ \A n \in 2 .. Len(monitor.marks) : monitor.marks[n - 1].at <= monitor.marks[n].at

\* What the samples up to the n-th say, without the monitor's state.
ReferenceOf(samples, n, limit) ==
  LET day    == {k \in 1 .. n : DayStart(samples[k].at) = DayStart(samples[n].at)}
      window == {k \in 1 .. n : k = n \/ samples[k + 1].at > samples[n].at - TicksPerDay}
  IN  CASE limit = "drawdown" -> Max({samples[k].equity : k \in 1 .. n})
        [] limit = "daily"    -> samples[Min(day)].equity
        [] limit = "rolling"  -> Max({samples[k].equity : k \in window})
BrokenAt(samples, n) ==
  \E l \in Limits : LosesAtLeast(ReferenceOf(samples, n, l), samples[n].equity, Budget[l])

\* A breach is in force exactly when some sample broke a limit: neither
\* midnight, nor pruning, nor a recovery, nor a restart forgets a loss.  The
\* sample that breaks it also trips the switch, and size has gone to nothing.
LossesStaySeen ==
  /\ monitor.breach # "none" <=> \E n \in 2 .. Len(seen) : BrokenAt(seen, n)
  /\ monitor.breach # "none" => Multiplier(monitor) = 0
  /\ monitor.breach = "none" => firing \cap Limits = {} /\ Multiplier(monitor) > 0
=============================================================================
