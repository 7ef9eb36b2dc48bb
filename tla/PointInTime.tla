------------------------------- MODULE PointInTime -------------------------------
(* What a feature or an alternative series may be read as (data/features,      *)
(* data/alt, migrations 0010 and 0014): observations held with their holes,    *)
(* values computed over a trailing window and stamped with the instant they    *)
(* became knowable, rows appended and never rewritten, the availability        *)
(* contract snapshotted from the ingestion registry in two reads, and the as-of *)
(* reads it admits or refuses. A bar is named by the tick it opens at and is   *)
(* known at the next one; a settlement by the tick it settles at.              *)
EXTENDS Integers, FiniteSets, FiniteSetsExt, Functions

CONSTANTS Features,   \* declared features: kind, input, lookback, lag
          Marks,      \* prices and rates
          Lookbacks,  \* windows a reader asks for
          SourceLag,  \* the alternative source's declared availability lag
          Tolerance,  \* how far into the future a row may be stamped (one day)
          MaxTick,    \* bound on the clock
          MaxRates    \* bound on the rows of alt_observations

\* AltSourceSpec.__post_init__; the stores refuse an empty window (load).
ASSUME ClockAssumption ==
  /\ SourceLag \in Nat \ {0} /\ Tolerance > 0 /\ MaxTick \in Nat /\ MaxRates \in Nat
  /\ Lookbacks \subseteq Nat \ {0}
\* FeatureSpec.__post_init__, and the registry's lag of a feature over a lagged source.
ASSUME FeatureAssumption ==
  \A f \in Features :
    /\ f.input \in {"bars", "rates"} /\ f.lookback \in Nat \ {0}
    /\ f.lag \in Nat /\ f.lag >= (IF f.input = "rates" THEN SourceLag ELSE 0)

VARIABLES feature,   \* the feature under way
          clock,
          bars,      \* open tick -> close of every bar held
          holes,     \* open ticks of the recorded cadence gaps
          rates,     \* rows of alt_observations
          points,    \* rows of feature_values, with the observations each came from
          contract,  \* the availability snapshot; its coverage is read before its gaps
          served     \* the last as-of read that was answered

pitVars == <<feature, clock, bars, holes, rates, points, contract, served>>

NoContract == [step |-> "none"]
NotServed == [of |-> "none"]

PitInit ==
  /\ feature \in Features
  /\ clock = 0 /\ bars = <<>> /\ holes = {} /\ rates = {} /\ points = {}
  /\ contract = NoContract /\ served = NotServed

------------------------------------------------------------------------------
\* A computation sees observations ascending strictly in event time.
BarEvents == [tick \in {open + 1 : open \in DOMAIN bars} |-> bars[tick - 1]]
RateEvents ==
  LET latest(e) == CHOOSE r \in rates : r.event = e /\ \A o \in rates : o.event = e => o.available <= r.available
  IN [e \in {r.event : r \in rates} |-> latest(e).mark]
Observed == IF feature.input = "bars" THEN BarEvents ELSE RateEvents

Inside(obs, t, lookback) == {e \in DOMAIN obs : t - lookback < e /\ e <= t}
Before(obs, t, lookback) == {e \in DOMAIN obs : e <= t - lookback}
Window(obs, t, lookback) == Restrict(obs, Inside(obs, t, lookback))
Base(obs, t, lookback) == Max(Before(obs, t, lookback))

\* No partial window is ever emitted, and a statistic needs two observations.
Emits(kind, obs, t, lookback) ==
  /\ Before(obs, t, lookback) # {}
  /\ kind \in {"volatility", "z_score", "band_width"} => Cardinality(Inside(obs, t, lookback)) >= 2
  /\ kind = "z_score" => Cardinality(Range(Window(obs, t, lookback))) > 1

TrailingReturn(obs, t, lookback) == <<obs[t], obs[Base(obs, t, lookback)]>>
RealisedVolatility(obs, t, lookback) ==
  Restrict(obs, Inside(obs, t, lookback) \cup {Base(obs, t, lookback)})
DonchianState(obs, t, lookback) ==
  LET closes == Range(Window(obs, t, lookback))
  IN CASE Max(closes) = Min(closes) -> 0
       [] obs[t] = Max(closes) /\ Max(closes) # Min(closes) -> 1
       [] obs[t] = Min(closes) /\ Max(closes) # Min(closes) -> -1
       [] OTHER -> 0
BollingerZ(obs, t, lookback) == <<obs[t], Window(obs, t, lookback)>>
BollingerWidth(obs, t, lookback) == Window(obs, t, lookback)
SettledRate(obs, t) == obs[t]
MeanMagnitude(window) ==
  LET magnitude(rate) == IF rate < 0 THEN -rate ELSE rate
  IN <<FoldSet(LAMBDA e, sum : magnitude(window[e]) + sum, 0, DOMAIN window), Cardinality(DOMAIN window)>>
MeanAbsoluteRate(obs, t, lookback) == MeanMagnitude(Window(obs, t, lookback))

ValueOf(kind, obs, t, lookback) ==
  CASE kind = "return" -> TrailingReturn(obs, t, lookback)
    [] kind = "volatility" -> RealisedVolatility(obs, t, lookback)
    [] kind = "breakout" -> DonchianState(obs, t, lookback)
    [] kind = "z_score" -> BollingerZ(obs, t, lookback)
    [] kind = "band_width" -> BollingerWidth(obs, t, lookback)
    [] kind = "settled" -> SettledRate(obs, t)
    [] OTHER -> MeanAbsoluteRate(obs, t, lookback)

PointsOver(f, obs) ==
  {[event |-> t, available |-> t + f.lag, mark |-> ValueOf(f.kind, obs, t, f.lookback)] :
     t \in {e \in DOMAIN obs : Emits(f.kind, obs, e, f.lookback)}}

\* forward_return_label: entered at the bar after the decision, out by the horizon.
LabelsOver(obs, horizon) ==
  LET after(t) == {e \in DOMAIN obs : t < e}
      within(t) == {e \in after(t) : e <= t + horizon}
  IN {[decision |-> t, entry |-> Min(after(t)), exit |-> Max(within(t))] : t \in {e \in DOMAIN obs : within(e) # {}}}

------------------------------------------------------------------------------
PassTime ==
  /\ clock < MaxTick /\ clock' = clock + 1
  /\ UNCHANGED <<feature, bars, holes, rates, points, contract, served>>

FirstOpen == Min(DOMAIN bars)
LastOpen == Max(DOMAIN bars)
\* A partition of closed bars: what it lacks between its records, or before them, is a gap.
IngestBars(present, mark) ==
  /\ feature.input = "bars" /\ Max(present) = clock - 1
  /\ LET from == IF bars = <<>> THEN 0 ELSE LastOpen + 1
     IN /\ from <= Min(present) /\ (bars = <<>> => Min(present) = 0)
        /\ bars' = [open \in DOMAIN bars \cup present |-> IF open \in present THEN mark[open] ELSE bars[open]]
        /\ holes' = holes \cup ((from..clock - 1) \ present)
  /\ UNCHANGED <<feature, clock, rates, points, contract, served>>

\* KlineGapBackfiller recovers one missing bar and the gap is resolved.
RepairBar(open, mark) ==
  /\ open \in holes
  /\ bars' = [o \in DOMAIN bars \cup {open} |-> IF o = open THEN mark ELSE bars[o]]
  /\ holes' = holes \ {open}
  /\ UNCHANGED <<feature, clock, rates, points, contract, served>>

\* AltSourceSpec.point, or nothing when a publication precedes the declared lag.
Knowable(event) == event + SourceLag
StampedAt(event, published) == IF published = 0 THEN Knowable(event) ELSE published
Stampable(event, published) ==
  /\ event < clock + Tolerance
  /\ published # 0 => published >= Knowable(event)
\* The parser and point refuse the whole member; the writer appends in one transaction.
IngestRates(events, published, mark) ==
  /\ feature.input = "rates" /\ \A e \in events : Stampable(e, published)
  /\ LET rows == {[event |-> e, available |-> StampedAt(e, published), mark |-> mark[e]] : e \in events}
         fresh == {r \in rows : ~\E o \in rates : o.event = r.event /\ o.available = r.available}
     IN /\ fresh # {} /\ rates' = rates \cup fresh
        /\ Cardinality(rates') <= MaxRates
  /\ UNCHANGED <<feature, clock, bars, holes, points, contract, served>>

\* FeatureValueWriter.append: a key that holds a value keeps it.
AppendPoints ==
  /\ LET keyed(p) == \E o \in points : o.event = p.event /\ o.available = p.available
         fresh == {p \in PointsOver(feature, Observed) : ~keyed(p)}
     IN fresh # {} /\ points' = points \cup fresh
  /\ UNCHANGED <<feature, clock, bars, holes, rates, contract, served>>

SnapshotCoverage ==
  /\ feature.input = "bars" /\ bars # <<>>
  /\ contract' = [step |-> "coverage", first |-> FirstOpen, last |-> LastOpen]
  /\ UNCHANGED <<feature, clock, bars, holes, rates, points, served>>
SnapshotGaps ==
  /\ contract.step = "coverage"
  /\ contract' = [step |-> "taken", first |-> contract.first, last |-> contract.last, gaps |-> holes]
  /\ UNCHANGED <<feature, clock, bars, holes, rates, points, served>>

\* Mutation of Admits: a window is refused only when a gap lies wholly inside it.
Admits_Inside(c, from, until) ==
  c.step = "taken" /\ c.first <= from /\ until <= c.last /\ \A o \in c.gaps : ~(from <= o /\ o + 1 < until)
\* AvailabilityContract.require over (from, until].
Admits(c, from, until) ==
  c.step = "taken" /\ c.first <= from /\ until <= c.last /\ \A o \in c.gaps : ~(o < until /\ from < o + 1)

\* fking_feature_as_of, fking_alt_as_of: the latest vintage available at the instant.
Visible(rows, asOf) == {r \in rows : r.available <= asOf}
AsOf(rows, asOf, lookback) ==
  {r \in Visible(rows, asOf) :
     /\ asOf - lookback < r.event
     /\ \A o \in Visible(rows, asOf) : o.event = r.event => o.available <= r.available}

LoadFeature(asOf, lookback) ==
  /\ feature.input = "bars" /\ asOf <= clock /\ Admits(contract, asOf - lookback, asOf)
  /\ served' = [of |-> "feature", asOf |-> asOf, lookback |-> lookback, rows |-> AsOf(points, asOf, lookback)]
  /\ UNCHANGED <<feature, clock, bars, holes, rates, points, contract>>
LoadAlt(asOf, lookback) ==
  /\ feature.input = "rates" /\ asOf <= clock
  /\ served' = [of |-> "alt", asOf |-> asOf, lookback |-> lookback, rows |-> AsOf(rates, asOf, lookback)]
  /\ UNCHANGED <<feature, clock, bars, holes, rates, points, contract>>

PitNext ==
  \/ PassTime \/ AppendPoints \/ SnapshotCoverage \/ SnapshotGaps
  \/ \E present \in (SUBSET (0..clock - 1)) \ {{}} : \E mark \in [present -> Marks] : IngestBars(present, mark)
  \/ \E open \in holes, mark \in Marks : RepairBar(open, mark)
  \/ \E events \in (SUBSET (0..clock)) \ {{}}, published \in {0, clock}, mark \in Marks :
       IngestRates(events, published, [e \in events |-> mark])
  \/ \E asOf \in 0..clock, lookback \in Lookbacks : LoadFeature(asOf, lookback) \/ LoadAlt(asOf, lookback)

PitSpec == PitInit /\ [][PitNext]_pitVars

------------------------------------------------------------------------------
\* Type invariant.
PitTyped ==
  /\ feature \in Features /\ clock \in 0..MaxTick
  /\ DOMAIN bars \subseteq 0..MaxTick /\ holes \subseteq 0..MaxTick /\ holes \cap DOMAIN bars = {}
  /\ \A r \in rates : r.event <= r.available
  /\ \A p \in points : p.event <= p.available
  /\ contract.step \in {"none", "coverage", "taken"} /\ served.of \in {"none", "feature", "alt"}

\* A value computed for an instant does not change with what is observed after it: the
\* prefix up to the instant gives the same points (the look-ahead probe's statement of
\* every function of features/compute), and a label is entered strictly after it.
NoPeeking ==
  LET obs == Observed
      upTo(t) == Restrict(obs, {e \in DOMAIN obs : e <= t})
  IN /\ \A t \in DOMAIN obs :
          {p \in PointsOver(feature, obs) : p.event <= t} = PointsOver(feature, upTo(t))
     /\ \A l \in LabelsOver(obs, feature.lookback) : l.decision < l.entry /\ l.entry <= l.exit

\* An answered read holds one value per event, none of which was knowable after the instant
\* asked for, and every bar its window spans is held, even when the corpus was being
\* ingested between the snapshot's two reads.
AsOfHolds ==
  served # NotServed =>
    /\ \A r \in served.rows : r.available <= served.asOf /\ r.event <= served.asOf
    /\ \A r, o \in served.rows : r.event = o.event => r = o
    /\ served.of = "feature" =>
         \A t \in served.asOf - served.lookback + 1..served.asOf : t - 1 \in DOMAIN bars

DataIsPointInTime == NoPeeking /\ AsOfHolds
==============================================================================
