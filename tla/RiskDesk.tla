------------------------------- MODULE RiskDesk -------------------------------
(* The desk between the strategies and the venue: risk/engine decides each     *)
(* batch of signals against one book, with exposure, sizing, netting and       *)
(* contribution; the orders it constructs then fill, wholly, in part or not at *)
(* all, before the next batch.  Amounts are whole units of base or quote.      *)
EXTENDS Integers, Sequences, SequencesExt, FiniteSets, FiniteSetsExt, Functions

CONSTANTS Strategies,   \* strategy ids, an interval of numbers: ids order ties
          Instruments,
          Asset,        \* the base asset of each instrument
          Clusters,     \* the correlation clusters of the risk model
          Covariance,   \* the risk model: an integer per pair of instruments
          Policy,       \* RiskPolicy: one record of limits and parameters
          Records,      \* StrategyState of each strategy that has one
          Volatility,   \* ewma, slow and floor estimates of each instrument
          Equity, Lot, MinNotional,
          Books,        \* the books the desk may start from
          Batches,      \* the batches of signals that may arrive
          MaxRounds     \* bound on batches decided and changes around the desk

PolicyFields ==
  {"position", "positionUsd", "asset", "gross", "portfolioUsd", "net", "freeMargin", "leverage",
   "singleOrderUsd", "riskMinUsd", "riskStepUsd", "atrMultiple", "atr", "targetVolatility",
   "minTradesForKelly", "kelly", "convictionFloor", "assetShare", "clusterShare"}
Signals == [strategy : Strategies, instrument : DOMAIN Asset, direction : {"LONG", "SHORT", "FLAT"},
            conviction : Nat, stop : Nat, future : BOOLEAN]

PolicyTyped == Policy \in [PolicyFields -> Nat] /\ Policy.atrMultiple > 0 /\ Policy.atr > 0
RecordsTyped ==
  /\ DOMAIN Records \subseteq Strategies
  /\ \A s \in DOMAIN Records :
       /\ Records[s].trades \in Nat /\ Records[s].mean \in Int /\ Records[s].variance \in Int
       /\ \A c \in DOMAIN Records[s].calibrated : Records[s].calibrated[c] \in Nat
VolatilityTyped == Volatility \in [Instruments -> [ewma : Nat, slow : Nat, floor : Nat \ {0}]]
BatchesTyped ==
  \A batch \in Batches :
    /\ batch \in Seq(Signals)
    /\ \A n \in DOMAIN batch : batch[n].strategy \in DOMAIN Records =>
         batch[n].conviction \in DOMAIN Records[batch[n].strategy].calibrated

ASSUME DeskAssumption ==
  /\ Strategies \subseteq Nat \ {0} /\ Equity \in Nat \ {0} /\ Lot \in Nat \ {0} /\ MinNotional \in Nat
  /\ IsFiniteSet(Instruments) /\ Instruments \subseteq DOMAIN Asset /\ UNION Clusters = Instruments
  /\ \A i, j \in Instruments : Covariance[<<i, j>>] = Covariance[<<j, i>>]
  /\ PolicyTyped /\ RecordsTyped /\ VolatilityTyped /\ BatchesTyped /\ Books \subseteq [Instruments -> Int]

VARIABLES book, mark, gate, standing, tradable, orders, decision, round, upsets
          \* standing: derisk multiplier in quarters, 0 a breach, of the
          \* portfolio and of each strategy

deskVars == <<book, mark, gate, standing, tradable, orders, decision, round, upsets>>

Portfolio == 0
Magnitude(q) == IF q < 0 THEN -q ELSE q
Notional(i, q) == Magnitude(q) * mark[i]

\* The sum of a sequence of amounts, and of what f gives the members of its domain.
AddUp(s) == LET sum[n \in 0 .. Len(s)] == IF n = 0 THEN 0 ELSE sum[n - 1] + s[n] IN sum[Len(s)]
Total(f) ==
  IF DOMAIN f = {} THEN 0
  ELSE LET each == SetToSeq(DOMAIN f) IN AddUp([n \in 1 .. Cardinality(DOMAIN f) |-> f[each[n]]])

Percent(p) == (p * Equity) \div 100
Open == {i \in Instruments : book[i] # 0}

\* quantize_base_quantity: toward zero.
Quantise(q) == IF q < 0 THEN -(Lot * ((-q) \div Lot)) ELSE Lot * (q \div Lot)
Sellable(i, q) == q # 0 /\ Notional(i, q) >= MinNotional

NoDecision ==
  [signals |-> <<>>, audits |-> <<>>, plans |-> {},
   before |-> [i \in Instruments |-> 0], mark |-> [i \in Instruments |-> 1]]

DeskInit ==
  /\ book \in Books /\ mark = [i \in Instruments |-> 1] /\ gate = "trading"
  /\ standing = [s \in {Portfolio} \cup Strategies |-> 4]
  /\ tradable = Instruments /\ orders = {} /\ round = 0 /\ upsets = 0
  /\ decision = NoDecision

------------------------------------------------------------------------------
\* Pre-trade exposure: every limit's headroom over the held book.
Gross == Total([i \in Open |-> Notional(i, book[i])])
Net == Total([i \in Open |-> book[i] * mark[i]])
AssetNotional(a) == Total([i \in {j \in Open : Asset[j] = a} |-> Notional(i, book[i])])
Toward(direction) == IF direction = "LONG" THEN 1 ELSE -1

Headrooms(s) ==
  {Percent(Policy.position) - Notional(s.instrument, book[s.instrument]),
   Policy.positionUsd - Notional(s.instrument, book[s.instrument]),
   Percent(Policy.asset) - AssetNotional(Asset[s.instrument]),
   Percent(Policy.gross) - Gross,
   Policy.portfolioUsd - Gross,
   Percent(Policy.net) - Toward(s.direction) * Net,
   Policy.leverage * (Equity - Percent(Policy.freeMargin)) - Gross,
   Policy.singleOrderUsd}

Permitted(s) == Max({Min(Headrooms(s)), 0})
PermittedQuantity(s) == Quantise(Permitted(s) \div mark[s.instrument])

\* validate_pre_trade: a signal to flatten meets no limit.
PassesPreTrade(s) ==
  /\ s.instrument \in tradable
  /\ s.direction # "FLAT" => Sellable(s.instrument, PermittedQuantity(s))

------------------------------------------------------------------------------
\* Sizing: the smallest of the terms that apply, then the venue's filters.
RiskUsd(s) == Policy.riskMinUsd + Records[s.strategy].calibrated[s.conviction] * Policy.riskStepUsd
FixedFractional(s) ==
  IF s.stop # 0 THEN RiskUsd(s) \div s.stop
  ELSE RiskUsd(s) \div (2 * Policy.atrMultiple * Policy.atr)   \* half, on the fallback stop
VolatilityUsed(i) == Max({Volatility[i].ewma, Volatility[i].slow, Volatility[i].floor})
VolatilityTarget(s) ==
  (Policy.targetVolatility * Equity) \div (VolatilityUsed(s.instrument) * mark[s.instrument])
Kelly(s) ==
  LET r    == Records[s.strategy]
      full == IF r.variance <= 0 THEN 0 ELSE Max({r.mean \div r.variance, 0})
  IN  IF r.trades < Policy.minTradesForKelly THEN {}
      ELSE {(Min({Policy.kelly * full, Policy.kelly}) * Equity) \div (100 * mark[s.instrument])}

SizePosition(s) ==
  LET q == Quantise(Min({FixedFractional(s), VolatilityTarget(s),
                         Permitted(s) \div mark[s.instrument]} \cup Kelly(s)))
  IN  IF Sellable(s.instrument, q) THEN q ELSE 0

Derisk(s) == Min({standing[Portfolio], standing[s.strategy]})
Sized(s) == Quantise((SizePosition(s) * Derisk(s)) \div 4)

\* _size_signals: one signal after another, against the same book.  closing
\* holds, per instrument somebody flattened, what is left to close.
Admissible(acc, s) ==
  /\ <<s.strategy, s.instrument>> \notin acc.seen
  /\ ~s.future /\ s.strategy \in DOMAIN Records /\ s.instrument \in Instruments

\* Mutation of ToFlatten: every flat signal asks for the whole position.
ToFlatten_EachWhole(acc, s) == book[s.instrument]

ToFlatten(acc, s) == IF s.instrument \in acc.closing THEN 0 ELSE book[s.instrument]

Audit(s, stage, approved, booked) ==
  [strategy |-> s.strategy, instrument |-> s.instrument, direction |-> s.direction,
   stage |-> stage, approved |-> approved, booked |-> booked]
Refused(s, stage) == Audit(s, stage, FALSE, 0)

StageReached(acc, s) ==
  IF ~Admissible(acc, s) \/ standing[s.strategy] = 0 THEN "signal_admission"
  ELSE IF ~PassesPreTrade(s) THEN "exposure"
  ELSE IF s.direction = "FLAT" THEN "flattened"
  ELSE IF s.conviction < Policy.convictionFloor THEN "conviction"
  ELSE IF ~Sellable(s.instrument, Sized(s)) THEN "sizing" ELSE "sized"

Request(s, q) == [signal |-> s, strategy |-> s.strategy, q |-> q]

SizeSignal(acc, s) ==
  LET stage == StageReached(acc, s)
      met   == [acc EXCEPT !.seen = IF Admissible(acc, s) THEN @ \cup {<<s.strategy, s.instrument>>}
                                    ELSE @]
  IN  CASE stage = "flattened" ->
             [met EXCEPT !.admitted = Append(@, Request(s, -ToFlatten(acc, s))),
                         !.closing = @ \cup {s.instrument}]
        [] stage = "sized" ->
             [met EXCEPT !.admitted = Append(@, Request(s, Toward(s.direction) * Sized(s)))]
        [] OTHER -> [met EXCEPT !.audits = Append(@, Refused(s, stage))]

SizeSignals(signals) ==
  LET after[n \in 0 .. Len(signals)] ==
        IF n = 0 THEN [admitted |-> <<>>, audits |-> <<>>, seen |-> {}, closing |-> {}]
        ELSE SizeSignal(after[n - 1], signals[n])
  IN  after[Len(signals)]

------------------------------------------------------------------------------
\* Netting: the opposing requests on one instrument cross inside, the net goes
\* to the venue, and what quantising it cut off is taken from the larger side.
Sum(requests) == AddUp([n \in DOMAIN requests |-> requests[n].q])
Bought(requests) == AddUp([n \in DOMAIN requests |-> Max({requests[n].q, 0})])
Sold(requests) == AddUp([n \in DOMAIN requests |-> Max({-requests[n].q, 0})])

\* Mutation of SurplusSide: the cut is taken from the smaller side.
SurplusSide_Swapped(requests, adjustment) ==
  {n \in DOMAIN requests : IF adjustment < 0 THEN requests[n].q < 0 ELSE requests[n].q > 0}

SurplusSide(requests, adjustment) ==
  {n \in DOMAIN requests : IF adjustment < 0 THEN requests[n].q > 0 ELSE requests[n].q < 0}

\* Which of these requests gives next: the largest, the strategy id breaking ties.
Before(requests, m, n) ==
  LET a == Magnitude(requests[m].q) b == Magnitude(requests[n].q)
  IN  a > b \/ (a = b /\ requests[m].strategy < requests[n].strategy)
Largest(requests, of) == CHOOSE n \in of : \A m \in of : ~Before(requests, m, n)

Take(requests, adjustment, acc) ==
  LET n     == Largest(requests, acc.side)
      taken == Min({Magnitude(acc.of[n].q), acc.left})
  IN  [of   |-> [acc.of EXCEPT ![n].q = IF adjustment < 0 THEN @ - taken ELSE @ + taken],
       left |-> acc.left - taken,
       side |-> acc.side \ {n}]

AbsorbQuantization(requests, adjustment) ==
  LET side == SurplusSide(requests, adjustment)
      after[k \in 0 .. Cardinality(side)] ==
        IF k = 0 THEN [of |-> requests, left |-> Magnitude(adjustment), side |-> side]
        ELSE Take(requests, adjustment, after[k - 1])
  IN  after[Cardinality(side)].of

NetRequests(i, requests) ==
  LET raw   == Sum(requests)
      net   == Quantise(raw)
      slices == AbsorbQuantization(requests, net - raw)
  IN  [instrument |-> i, net |-> net, requests |-> requests, attributions |-> slices,
       crossed |-> Min({Bought(slices), Sold(slices)}),
       basis |-> IF net = 0 THEN "decision_mid" ELSE "venue_vwap"]

Group(admitted, i) ==
  LET of[n \in 0 .. Len(admitted)] ==
        IF n = 0 THEN <<>>
        ELSE IF admitted[n].signal.instrument = i THEN Append(of[n - 1], admitted[n]) ELSE of[n - 1]
  IN  of[Len(admitted)]
Grouped(admitted) == {admitted[n].signal.instrument : n \in DOMAIN admitted}
BelowMinimum(plan) == plan.net # 0 /\ ~Sellable(plan.instrument, plan.net)
Plans(admitted) ==
  {plan \in {NetRequests(i, Group(admitted, i)) : i \in Grouped(admitted)} : ~BelowMinimum(plan)}

\* Concentration of the book the plans would leave: the share of its variance
\* each holding, and each cluster, accounts for.
Prospective(plans, i) ==
  (book[i] + Total([p \in {x \in plans : x.instrument = i} |-> p.net])) * mark[i]
Weighted(plans, i) ==
  Total([j \in Instruments |-> Covariance[<<i, j>>] * Prospective(plans, j)])
Contribution(plans, i) == Prospective(plans, i) * Weighted(plans, i)
Variance(plans) == Total([i \in Instruments |-> Contribution(plans, i)])
TooMuch(part, limit, whole) == whole > 0 /\ 100 * part > limit * whole
Concentrated(plans) ==
  LET held == {i \in Instruments : Prospective(plans, i) # 0}
      all  == Variance(plans)
  IN  \/ \E i \in held : TooMuch(Contribution(plans, i), Policy.assetShare, all)
      \/ \E c \in Clusters : /\ c \cap held # {}
                             /\ TooMuch(Total([i \in c |-> Contribution(plans, i)]),
                                        Policy.clusterShare, all)

------------------------------------------------------------------------------
\* _portfolio_halt_reason: what refuses a batch before any signal is looked at.
PortfolioHalted == Equity <= 0 \/ standing[Portfolio] = 0

Outcome(signals, audits, plans) ==
  [signals |-> signals, audits |-> audits, plans |-> plans, before |-> book, mark |-> mark]
RefuseBatch(signals, stage) ==
  Outcome(signals, [n \in DOMAIN signals |-> Refused(signals[n], stage)], {})

AuditAdmitted(acc, plans, stage, approved) ==
  LET booked(r) == LET p == CHOOSE x \in plans : x.instrument = r.signal.instrument
                       n == CHOOSE k \in DOMAIN p.attributions : p.attributions[k].strategy = r.strategy
                   IN  p.attributions[n].q
      inPlan(r) == \E p \in plans : p.instrument = r.signal.instrument
  IN  acc.audits \o [n \in DOMAIN acc.admitted |->
        LET r == acc.admitted[n]
        IN  IF ~inPlan(r) THEN Refused(r.signal, "netting")
            ELSE Audit(r.signal, stage, approved, IF approved THEN booked(r) ELSE 0)]

Decide(signals) ==
  IF gate # "trading" THEN RefuseBatch(signals, "kill_switch")
  ELSE IF PortfolioHalted THEN RefuseBatch(signals, "portfolio_drawdown")
  ELSE LET acc   == SizeSignals(signals)
           plans == Plans(acc.admitted)
       IN  IF Concentrated(plans)
           THEN Outcome(signals, AuditAdmitted(acc, plans, "concentration", FALSE), {})
           ELSE Outcome(signals, AuditAdmitted(acc, plans, "order_construction", TRUE), plans)

\* _construct_orders: one market order per plan that reaches the venue; its id
\* is a digest of what it is made of.
OrderOf(plan) == [instrument |-> plan.instrument, q |-> plan.net, id |-> <<round, plan.net>>]
ConstructOrders(plans) == {OrderOf(p) : p \in {x \in plans : x.net # 0}}

DecideBatch ==
  /\ round + upsets < MaxRounds /\ orders = {}
  /\ \E signals \in Batches :
       LET outcome == Decide(signals)
       IN  /\ decision' = outcome
           /\ orders' = ConstructOrders(outcome.plans)
  /\ round' = round + 1
  /\ UNCHANGED <<book, mark, gate, standing, tradable, upsets>>

\* The venue takes an immediate-or-cancel order wholly, in part, or not at all.
Settle ==
  /\ orders # {}
  /\ \E part \in {0, Lot} : \E whole \in SUBSET orders :
       book' = [i \in Instruments |->
         book[i] + Total([o \in {x \in orders : x.instrument = i} |->
           IF o \in whole THEN o.q ELSE IF o.q > 0 THEN part ELSE -part])]
  /\ orders' = {} /\ decision' = NoDecision
  /\ UNCHANGED <<mark, gate, standing, tradable, round, upsets>>

\* What the decisions are made against, and what moves under them.
Upset == orders = {} /\ round + upsets < MaxRounds /\ upsets' = upsets + 1

MarkMoves ==
  /\ Upset /\ \E i \in Instruments : mark' = [mark EXCEPT ![i] = @ + 1]
  /\ UNCHANGED <<book, gate, standing, tradable, orders, decision, round>>
LoseMoney ==
  /\ Upset /\ \E s \in DOMAIN standing : standing' = [standing EXCEPT ![s] = IF @ = 4 THEN 2 ELSE 0]
  /\ UNCHANGED <<book, mark, gate, tradable, orders, decision, round>>
TripGate ==
  /\ Upset /\ gate' = "halted"
  /\ UNCHANGED <<book, mark, standing, tradable, orders, decision, round>>
Delist ==
  /\ Upset /\ \E i \in tradable : tradable' = tradable \ {i}
  /\ UNCHANGED <<book, mark, gate, standing, orders, decision, round>>

DeskNext == DecideBatch \/ Settle \/ MarkMoves \/ LoseMoney \/ TripGate \/ Delist
DeskSpec == DeskInit /\ [][DeskNext]_deskVars

------------------------------------------------------------------------------
\* Type invariant.
DeskTyped ==
  /\ DOMAIN book = Instruments /\ (\A i \in Instruments : mark[i] > 0)
  /\ \A s \in DOMAIN standing : standing[s] \in 0 .. 4
  /\ \A o \in orders : o.instrument \in Instruments /\ o.q # 0 /\ o.q % Lot = 0

\* What is booked to the strategies is what goes to the venue plus what crossed
\* inside: slices add up to the net, none is larger than what was asked or of
\* the other sign, and every signal gets one audit that says so.
AddsUp(p) ==
  /\ Sum(p.attributions) = p.net /\ p.net % Lot = 0
  /\ \A n \in DOMAIN p.requests :
       LET asked == p.requests[n].q given == p.attributions[n].q
       IN  Magnitude(given) <= Magnitude(asked) /\ given * asked >= 0
  /\ Bought(p.attributions) = p.crossed + Max({p.net, 0})
BookedTo(audits, i) ==
  AddUp([n \in DOMAIN audits |-> IF audits[n].instrument = i THEN audits[n].booked ELSE 0])
Attributed(d) ==
  /\ \A p \in d.plans : AddsUp(p)
  /\ Len(d.audits) = Len(d.signals)
  /\ \A i \in Instruments :
       BookedTo(d.audits, i) = Total([p \in {x \in d.plans : x.instrument = i} |-> p.net])
AttributionIsReality == Attributed(decision)

After(d, p) == d.before[p.instrument] + p.net
Valued(d, i, q) == Magnitude(q) * d.mark[i]

\* However many strategies ask to flatten a position at once, what they send
\* only shrinks it; and one signal alone never takes a holding past its limit.
FlattenNeverFlips(d) ==
  \A p \in d.plans :
    (\A n \in DOMAIN d.audits :
       d.audits[n].instrument = p.instrument /\ d.audits[n].approved => d.audits[n].direction = "FLAT")
    => LET was == d.before[p.instrument]
       IN  Magnitude(After(d, p)) <= Magnitude(was) /\ After(d, p) * was >= 0
LoneSignalInsideLimits(d) ==
  Len(d.signals) = 1 =>
    \A p \in d.plans :
      LET i == p.instrument was == Valued(d, i, d.before[i]) is == Valued(d, i, After(d, p))
      IN  is > was => is <= Min({Percent(Policy.position), Policy.positionUsd}) /\
                      Valued(d, i, p.net) <= Policy.singleOrderUsd
BookInsideMandate == FlattenNeverFlips(decision) /\ LoneSignalInsideLimits(decision)

\* RISK_PHILOSOPHY.md:160, "Max exposure to one asset (all strategies)": what
\* one batch adds to an asset stays inside its limit.
BatchInsideLimits ==
  \A a \in {Asset[i] : i \in Instruments} :
    LET of     == {i \in Instruments : Asset[i] = a}
        before == Total([i \in of |-> Valued(decision, i, decision.before[i])])
        after  == Total([i \in of |-> Valued(decision, i, decision.before[i] +
                    Total([p \in {x \in decision.plans : x.instrument = i} |-> p.net]))])
    IN  after > before => after <= Percent(Policy.asset)

\* exposure.py:30, "Reduce-only is never refused": a lone signal that shrinks a
\* tradable holding is approved, with no halt in force and an order to send.
ReduceOnlyNeverRefused ==
  \A n \in DOMAIN decision.audits :
    LET a == decision.audits[n]
    IN  a.direction = "FLAT" /\ Len(decision.signals) = 1
        => a.stage \notin {"exposure", "netting", "concentration"}
=============================================================================
