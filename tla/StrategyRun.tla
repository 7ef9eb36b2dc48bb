------------------------------ MODULE StrategyRun ------------------------------
(* A strategy under the runner (strategy/_registry, _spec, _contract, _runner,  *)
(* _invalidation) and the beliefs of the four shipped strategies.  A catalogue  *)
(* is registered whole or refused; then bars are handed to one strategy with    *)
(* the feature values the engine could and could not compute.  Fractions are in *)
(* percent, and the injected clock may move between two reads of it.            *)
EXTENDS Integers, Sequences, SequencesExt, FiniteSets, FiniteSetsExt

CONSTANTS Catalogues,   \* sequences of declarations (StrategySpec)
          Lookback,     \* the feature registry: name -> lookback
          Quotes, TickSize,
          Symbols,      \* the instruments whose bars may be handed over
          Lengths,      \* the intervals those bars may have
          Offered,      \* Offered[kind]: feature values and withheld features
          MaxBarTime    \* bound on the instants explored

\* StrategySpec.__post_init__ and InvalidationRule.__post_init__ refuse the rest.
WellDeclared(spec) ==
  /\ spec.instruments # {} /\ spec.intervals # {} /\ spec.intervals \subseteq Nat \ {0} /\ spec.warmUp > 0
Bounded(spec) ==
  /\ spec.scaling \in spec.requires \cup {"none"} /\ (spec.scaling # "none" => spec.multiple > 0)
  /\ 0 < spec.floor /\ spec.floor <= spec.cap /\ spec.cap < 100
\* The parameters of the shipped strategies, and the feature the first of them reads.
Parameterised(spec) ==
  /\ {spec.warmUp, spec.floor, spec.cap, spec.multiple, spec.entry} \subseteq Nat /\ spec.span \in 1..10
  /\ spec.kind = "continuation" => "return" \in spec.requires

Declarations == UNION {{c[i] : i \in DOMAIN c} : c \in Catalogues}

ASSUME StrategyAssumption ==
  /\ TickSize \in Nat \ {0} /\ Quotes \subseteq Nat \ {0} /\ Lengths \subseteq Nat \ {0} /\ MaxBarTime \in Nat
  /\ \A c \in Catalogues : Len(c) \in Nat /\ DOMAIN c = 1..Len(c)
  /\ \A f \in DOMAIN Lookback : Lookback[f] \in Nat
  /\ \A d \in Declarations :
       /\ WellDeclared(d) /\ Bounded(d) /\ Parameterised(d)
       /\ \A offer \in Offered[d.kind] : \A f \in DOMAIN offer.values : offer.values[f] \in Int

VARIABLES catalogue, registry,  \* registry: the admitted declarations, in order
          runner,    \* the declaration handed bars, and whether it is
          strategyState,    \* StrategyState: consumed, recent bars, feature values
          verdict,   \* what the last bar led to
          since      \* history: when the first bar of the run opened

strategyVars == <<catalogue, registry, runner, strategyState, verdict, since>>

Idle == [on |-> FALSE]
Fresh == [consumed |-> 0, recent |-> <<>>, values |-> <<>>]
StrategyInit ==
  /\ catalogue \in Catalogues
  /\ registry = <<>> /\ runner = Idle /\ strategyState = Fresh
  /\ verdict = [is |-> "unregistered"] /\ since = 0

------------------------------------------------------------------------------
WarmUpDuration(spec) == Min(spec.intervals) * spec.warmUp

\* _require_available_features, _require_warm_up_covers_lookbacks
Covers(spec) == \A f \in spec.requires : Lookback[f] <= WarmUpDuration(spec)
Admissible(spec) == spec.requires \subseteq DOMAIN Lookback /\ Covers(spec)

\* build_registry: one declaration after another; a refusal raises.
Register ==
  /\ verdict.is = "unregistered" /\ Len(registry) < Len(catalogue)
  /\ LET spec == catalogue[Len(registry) + 1]
         taken == \E i \in DOMAIN registry : registry[i].key = spec.key
     IN IF ~taken /\ Admissible(spec)
        THEN registry' = Append(registry, spec) /\ UNCHANGED verdict
        ELSE verdict' = [is |-> "invalid"] /\ UNCHANGED registry
  /\ UNCHANGED <<catalogue, runner, strategyState, since>>

\* resolve, initial_state
ResolveStrategy(i) ==
  /\ verdict.is = "unregistered" /\ Len(registry) = Len(catalogue) /\ i \in DOMAIN registry
  /\ runner' = [on |-> TRUE, spec |-> registry[i]]
  /\ verdict' = [is |-> "ready"]
  /\ UNCHANGED <<catalogue, registry, strategyState, since>>

------------------------------------------------------------------------------
\* A bar is [symbol, open, length, close]; it closes at its end.
Ends(bar) == bar.open + bar.length

\* _require_declared_observation
Observable(spec, bar, asOf) ==
  /\ bar.symbol \in spec.instruments /\ bar.length \in spec.intervals /\ Ends(bar) <= asOf
  /\ strategyState.recent # <<>> => Last(strategyState.recent).open < bar.open
\* _require_known_requirements, _require_declarable_unavailability
Consistent(spec, offer) ==
  /\ DOMAIN offer.values \subseteq spec.requires /\ offer.withheld \subseteq spec.requires
  /\ DOMAIN offer.values \cap offer.withheld = {}

\* advanced_with, over warm_up_bars + 1
Advanced(spec, bar, values) ==
  LET all == Append(strategyState.recent, bar)
      excess == Max({0, Len(all) - (spec.warmUp + 1)})
  IN [consumed |-> strategyState.consumed + 1, recent |-> SubSeq(all, excess + 1, Len(all)), values |-> values]
VisibleBars(state, asOf) == {i \in DOMAIN state.recent : Ends(state.recent[i]) <= asOf}
NewestVisible(state, asOf) == state.recent[Max(VisibleBars(state, asOf))]

\* adverse_move_fraction_for: the scaled distance between its floor and its cap.
Distance(spec, values) ==
  IF spec.scaling = "none" THEN spec.floor
  ELSE Max({spec.floor, Min({spec.cap, spec.multiple * values[spec.scaling]})})
\* quantize_quote_price, of a price in hundredths: a bid down, an ask up.
Snapped(hundredths, side) ==
  LET grain == 100 * TickSize
  IN TickSize * (IF side = "BUY" THEN hundredths \div grain ELSE (hundredths + grain - 1) \div grain)
\* level_for: both sides snap away from the entry.
LevelFor(spec, direction, price, values) ==
  LET d == Distance(spec, values)
  IN IF direction = "LONG" THEN Snapped(price * (100 - d), "BUY") ELSE Snapped(price * (100 + d), "SELL")

Magnitude(x) == IF x < 0 THEN -x ELSE x
Facing(rising) == IF rising THEN "LONG" ELSE "SHORT"
\* evaluate of the shipped strategies, up to the direction: trailing_return,
\* donchian_breakout, bollinger_reversion and funding_carry.
Continuation(spec, v) == IF Magnitude(v["return"]) < spec.entry THEN "NONE" ELSE Facing(v["return"] > 0)
Breakout(spec, v) == IF v["breakout"] \in {1, -1} THEN Facing(v["breakout"] = 1) ELSE "NONE"
Reversion(spec, v) ==
  IF v["breakout"] # 0 \/ Magnitude(v["z_score"]) < spec.entry THEN "NONE" ELSE Facing(v["z_score"] < 0)
Carry(spec, v) ==
  IF v["mean_rate"] <= spec.entry \/ Magnitude(v["settled"]) <= spec.entry THEN "NONE" ELSE Facing(v["settled"] <= 0)
Belief(spec, v) ==
  CASE spec.kind = "continuation" -> Continuation(spec, v)
    [] spec.kind = "breakout" -> Breakout(spec, v)
    [] spec.kind = "reversion" -> Reversion(spec, v)
    [] spec.kind = "carry" -> Carry(spec, v)
Conviction(spec, v) ==
  LET full == spec.entry * spec.span
  IN IF spec.kind # "continuation" \/ Magnitude(v["return"]) >= full THEN 100
     ELSE (100 * Magnitude(v["return"])) \div full

\* The signal, stamped by the strategy's own read of the clock.
SignalOf(spec, state, bar, asOf) ==
  LET blind     == VisibleBars(state, asOf) = {}
      direction == IF blind THEN "NONE" ELSE Belief(spec, state.values)
  IN [symbol |-> bar.symbol, direction |-> direction, at |-> asOf,
      conviction |-> Conviction(spec, state.values),
      level |-> IF blind THEN 0 ELSE LevelFor(spec, direction, NewestVisible(state, asOf).close, state.values)]

\* _require_signal_matches_spec, _require_declared_invalidation
Matches(spec, signal, bar, asOf, values) ==
  /\ signal.symbol = bar.symbol /\ signal.at = asOf
  /\ signal.level = LevelFor(spec, signal.direction, bar.close, values)

\* What step returns, or raises, for one bar. An exception leaves the caller the old state.
Outcome(spec, bar, asOf, again, offer) ==
  LET next   == Advanced(spec, bar, offer.values)
      signal == SignalOf(spec, next, bar, again)
      quiet(why) == [is |-> why, state |-> next]
      raised(why) == [is |-> why, state |-> strategyState]
  IN IF ~Observable(spec, bar, asOf) \/ ~Consistent(spec, offer) THEN raised("refused")
     ELSE IF next.consumed < spec.warmUp THEN quiet("warming")
     ELSE IF offer.withheld # {} THEN quiet("withheld")
     ELSE IF DOMAIN offer.values # spec.requires THEN raised("refused")
     ELSE IF signal.direction = "NONE" THEN quiet("silent")
     ELSE IF signal.level <= 0 THEN raised("inexpressible")
     ELSE IF ~Matches(spec, signal, bar, asOf, offer.values) THEN raised("mismatched")
     ELSE [is |-> "signal", state |-> next, signal |-> signal]

\* The clock never runs back behind a close it has already been read at.
LastClose == Max({0} \cup {Ends(strategyState.recent[i]) : i \in DOMAIN strategyState.recent})
\* step: the clock is read at asOf by the runner and again by the strategy.
HandBar(bar, asOf, again, offer) ==
  /\ runner.on /\ LastClose <= asOf /\ asOf <= again
  /\ LET out == Outcome(runner.spec, bar, asOf, again, offer)
     IN /\ strategyState' = out.state
        /\ verdict' = [is |-> out.is, signal |-> IF out.is = "signal" THEN out.signal ELSE <<>>,
                       withheld |-> IF out.is = "signal" THEN offer.withheld ELSE {},
                       moved |-> out.is = "mismatched" /\ asOf < again]
        /\ since' = IF strategyState.consumed = 0 /\ out.state # strategyState THEN bar.open ELSE since
  /\ UNCHANGED <<catalogue, registry, runner>>

BarsHanded == {b \in [symbol : Symbols, open : 0..MaxBarTime, length : Lengths, close : Quotes] :
                 b.open % b.length = 0 /\ Ends(b) <= MaxBarTime}
Reads(bar) == LET now == Max({Ends(bar), LastClose}) IN {<<Ends(bar) - 1, Ends(bar) - 1>>, <<now, now>>, <<now, now + 1>>}
StrategyNext ==
  \/ Register
  \/ \E i \in 1..Len(catalogue) : ResolveStrategy(i)
  \/ /\ runner.on
     /\ \E bar \in BarsHanded, offer \in Offered[runner.spec.kind] :
          \E reads \in Reads(bar) : HandBar(bar, reads[1], reads[2], offer)

StrategyRuns == StrategyInit /\ [][StrategyNext]_strategyVars

------------------------------------------------------------------------------
\* Type invariant.
StrategyTyped ==
  /\ catalogue \in Catalogues /\ Len(registry) <= Len(catalogue)
  /\ \A i \in DOMAIN registry : registry[i] = catalogue[i]
  /\ strategyState.consumed \in Nat /\ since \in 0..MaxBarTime
  /\ \A i \in DOMAIN strategyState.recent : strategyState.recent[i] \in BarsHanded

\* What a signal stands on (strategy/_runner, _registry): every bar in the state had closed
\* when it was decided and none lies beyond the declared window; no feature it needed was
\* withheld. The level is one the position can be sized on: on the losing side of the close,
\* no nearer than the declared floor and no farther than the cap by more than a tick.
SignalsStand ==
  verdict.is = "signal" =>
    LET spec == runner.spec
        s    == verdict.signal
        c    == Last(strategyState.recent).close
        away == IF s.direction = "LONG" THEN c - s.level ELSE s.level - c
    IN /\ \A i \in DOMAIN strategyState.recent : Ends(strategyState.recent[i]) <= s.at
       /\ Len(strategyState.recent) <= spec.warmUp + 1
       /\ verdict.withheld = {} /\ DOMAIN strategyState.values = spec.requires
       /\ 100 * away >= spec.floor * c /\ 100 * away <= spec.cap * c + 100 * TickSize
       /\ s.conviction \in 1..100

\* A run that signals is older than the deepest of its features looks back, however its
\* bars were spaced or refused on the way (strategy/_registry, _spec).
WarmUpCovers ==
  verdict.is = "signal" => \A f \in runner.spec.requires : verdict.signal.at - since >= Lookback[f]
SignalsAreGrounded == SignalsStand /\ WarmUpCovers

\* A signal is thrown away by the runner only when the clock moved between the two reads of
\* it: the level a strategy computes from its newest visible bar is the one the runner
\* recomputes from the bar it handed over.
OnlyAMovedClockMismatches ==
  verdict.is = "mismatched" => verdict.moved

DecisionsHold == SignalsAreGrounded /\ OnlyAMovedClockMismatches
=============================================================================
