-------------------------- MODULE ValidationProtocols --------------------------
(* How a searched strategy is validated (backtest/cpcv, backtest/walkforward,  *)
(* backtest/montecarlo, backtest/validation): the partition of the window into *)
(* training and test samples with their purge and embargo, the run that        *)
(* charges a trial for each part before it evaluates it, the distribution over *)
(* the parts that finished and the gate that calls the result evidence. Time   *)
(* is a line of ticks; an interval is the set of the ticks in it, so merging   *)
(* adjacent intervals is a union. Returns and Sharpes are small integers.      *)
EXTENDS Integers, Sequences, FiniteSets, FiniteSetsExt

CONSTANTS Protocols,  \* the declarations a run may be made from, one record each
          Gradings,   \* Sharpes [in, out] of the configurations, per split, given to the gate
          MaxFailures \* bound on the parts of a run that fail

\* Spans are whole ticks and counts are not negative; a grading is one row per split.
ASSUME ProtocolAssumption ==
  /\ MaxFailures \in Nat
  /\ \A p \in Protocols :
       CASE p.kind = "cpcv" ->
              {p.label, p.lag, p.lookback, p.holding, p.embargo, p.length, p.groups, p.size} \subseteq Nat
         [] p.kind = "walk_forward" ->
              /\ {p.label, p.lag, p.lookback, p.holding, p.length, p.train, p.test, p.step} \subseteq Nat
              /\ p.anchored \in BOOLEAN
         [] p.kind = "perturbation" -> p.parameters \in Nat
         [] OTHER -> p.paths \in Nat
  /\ \A splits \in Gradings : splits \in Seq([in : Seq(Int), out : Seq(Int)])

VARIABLES protocol,
          stage,      \* "declared", "running", "refused", "raised", "reported", "judged"
          paid,       \* the parts charged to the trial ledger
          baseline,   \* whether the unperturbed configuration was evaluated
          scores,     \* part -> [trades, edge] of those evaluated
          failed,     \* the parts that failed and stay counted
          spread,     \* what the report says of the distribution
          grading     \* what the gate was given and what it answered

protocolVars == <<protocol, stage, paid, baseline, scores, failed, spread, grading>>

------------------------------------------------------------------------------
\* The declaration's horizons.
Purge(p) == p.label + p.lag
EmbargoFloor(p) == p.lookback + p.holding
FoldGap(p) == Purge(p) + Max({EmbargoFloor(p), Purge(p)})

\* The combinatorial partition. A part is the set of the groups it tests.
PartitionAccepted(p) ==
  /\ p.groups >= 3 /\ p.size \in 1..p.groups - 1
  /\ p.embargo >= EmbargoFloor(p) /\ p.length >= p.groups
Boundary(p, group) == (p.length * group) \div p.groups
GroupTicks(p, group) == Boundary(p, group)..Boundary(p, group + 1) - 1
Chosen(p) == {part \in SUBSET (0..p.groups - 1) : Cardinality(part) = p.size}
\* Mutation of Purged: the purge stops one sample short of the test block.
Purged_Short(p, tests) ==
  {t \in 0..p.length - 1 : \A u \in tests : t < u - Purge(p) + 1 \/ u + p.embargo < t}
Purged(p, tests) == {t \in 0..p.length - 1 : \A u \in tests : t < u - Purge(p) \/ u + p.embargo < t}
SplitOf(p, part) ==
  LET tests == UNION {GroupTicks(p, group) : group \in part}
  IN [tests |-> tests, trains |-> Purged(p, tests)]

\* The walk-forward schedule. A part is the set holding the fold's index.
ScheduleAccepted(p) ==
  /\ p.label > 0 /\ p.holding > 0 /\ p.train > 0 /\ p.test > 0 /\ p.step > 0
  /\ p.step <= p.test
FoldStart(p, fold) == p.train + FoldGap(p) + fold * p.step
Folds(p) == {{fold} : fold \in {f \in 0..p.length : FoldStart(p, f) + p.test <= p.length}}
FoldOf(p, part) ==
  LET from == FoldStart(p, Max(part))
      trained == from - FoldGap(p)
  IN [tests |-> from..from + p.test - 1,
      trains |-> (IF p.anchored THEN 0 ELSE trained - p.train)..trained - 1]

\* The resampled paths and the perturbed grid have no windows.
Windowed(p) == p.kind \in {"cpcv", "walk_forward"}
Parts(p) ==
  CASE p.kind = "cpcv" -> Chosen(p)
    [] p.kind = "walk_forward" -> Folds(p)
    [] p.kind = "perturbation" -> {{point} : point \in 1..2 * p.parameters}
    [] OTHER -> {{path} : path \in 1..p.paths}
SamplesOf(p, part) == IF p.kind = "cpcv" THEN SplitOf(p, part) ELSE FoldOf(p, part)

\* Fold workers are bounded by memory, never by what was asked for.
PermittedWorkers(p) == (p.memory - p.reserve) \div p.peak
WorkersAccepted(p) ==
  \/ p.workers = 1 /\ p.memory = 0
  \/ /\ p.memory > p.reserve /\ p.peak > 0
     /\ p.workers \in 1..PermittedWorkers(p)
     /\ p.workers = 1 \/ p.picklable

\* What is resampled: closed trades, or blocks of a series of returns.
TradesAccepted(p) == p.observations >= 30 /\ p.paths >= 1
BlocksAccepted(p) == p.observations >= 1 /\ p.block \in 1..p.observations /\ p.paths >= 1

\* What is refused before anything is charged.
Startable(p) ==
  CASE p.kind = "cpcv" ->
         /\ PartitionAccepted(p) /\ WorkersAccepted(p)
         /\ \A part \in Chosen(p) : SplitOf(p, part).trains # {}
    [] p.kind = "walk_forward" -> ScheduleAccepted(p) /\ Cardinality(Folds(p)) >= 2
    [] p.kind = "perturbation" -> p.parameters >= 1
    [] p.kind = "trade_bootstrap" -> TradesAccepted(p)
    [] OTHER -> BlocksAccepted(p)

------------------------------------------------------------------------------
ProtocolInit ==
  /\ protocol \in Protocols /\ stage = "declared"
  /\ paid = {} /\ baseline = FALSE /\ scores = <<>> /\ failed = {}
  /\ spread = "none" /\ grading = <<>>

Start ==
  /\ stage = "declared"
  /\ stage' = IF Startable(protocol) THEN "running" ELSE "refused"
  /\ UNCHANGED <<protocol, paid, baseline, scores, failed, spread, grading>>

\* run_perturbation evaluates the baseline itself first, and refuses one without an edge.
EvaluateBaseline(edge) ==
  /\ stage = "running" /\ protocol.kind = "perturbation" /\ ~baseline
  /\ baseline' = TRUE
  /\ stage' = IF edge > 0 THEN stage ELSE "refused"
  /\ UNCHANGED <<protocol, paid, scores, failed, spread, grading>>

Accounted == DOMAIN scores \cup failed
\* The order of `combinations` and of the folds.
EarliestPart(parts) ==
  CHOOSE c \in parts : \A d \in parts \ {c} : Min((c \ d) \cup (d \ c)) \in c
Parallel == protocol.kind = "cpcv" /\ protocol.workers > 1
Ready == stage = "running" /\ (protocol.kind = "perturbation" => baseline)

MayCharge(part) == Parallel \/ paid = Accounted

Charge(succeeds) ==
  /\ Ready /\ paid # Parts(protocol)
  /\ LET part == EarliestPart(Parts(protocol) \ paid)
     IN /\ MayCharge(part)
        /\ paid' = IF succeeds THEN paid \cup {part} ELSE paid
        /\ stage' = IF succeeds THEN stage ELSE "raised"
  /\ UNCHANGED <<protocol, baseline, scores, failed, spread, grading>>

NextPart == EarliestPart(Parts(protocol) \ Accounted)
MayEvaluate ==
  /\ Ready /\ Accounted # Parts(protocol)
  /\ IF Parallel THEN paid = Parts(protocol) ELSE NextPart \in paid
Evaluate(trades, edge) ==
  /\ MayEvaluate
  /\ scores' = [part \in DOMAIN scores \cup {NextPart} |->
                  IF part = NextPart THEN [trades |-> trades, edge |-> edge] ELSE scores[part]]
  /\ UNCHANGED <<protocol, stage, paid, baseline, failed, spread, grading>>
\* CpcvPathEvaluationError or WalkForwardError: recorded, and it keeps its charge.
FailPart ==
  /\ MayEvaluate /\ Windowed(protocol) /\ Cardinality(failed) < MaxFailures
  /\ failed' = failed \cup {NextPart}
  /\ UNCHANGED <<protocol, stage, paid, baseline, scores, spread, grading>>
\* Any other exception propagates and kills the run; no report is made.
RaisePart ==
  /\ MayEvaluate
  /\ stage' = "raised"
  /\ UNCHANGED <<protocol, paid, baseline, scores, failed, spread, grading>>

\* A path with too few trades is excluded from the distribution. A fold scored as a whole
\* sits at the one distance every fold has; a slope needs segments of its test window.
Included == {part \in DOMAIN scores : scores[part].trades >= 30}
Segments(p) == p.test \div p.segment
SlopeStateable == scores # <<>> /\ Segments(protocol) >= 2
Stateable ==
  CASE protocol.kind = "cpcv" -> Cardinality(Included) >= 2
    [] protocol.kind = "walk_forward" -> SlopeStateable
    [] OTHER -> TRUE
Report ==
  /\ Ready /\ Accounted = Parts(protocol)
  /\ stage' = "reported"
  /\ spread' = IF Stateable THEN "stated" ELSE "withheld"
  /\ UNCHANGED <<protocol, paid, baseline, scores, failed, grading>>

------------------------------------------------------------------------------
\* Probability of overfitting: the winner in sample, ranked out of sample, ties by index.
Winner(sharpes) ==
  CHOOSE c \in DOMAIN sharpes :
    \A d \in DOMAIN sharpes \ {c} : sharpes[d] < sharpes[c] \/ (sharpes[d] = sharpes[c] /\ c < d)
RankOf(sharpes, config) ==
  1 + Cardinality({d \in DOMAIN sharpes :
        sharpes[d] < sharpes[config] \/ (sharpes[d] = sharpes[config] /\ d < config)})
Underperforms(split) ==
  2 * RankOf(split.out, Winner(split.in)) <= Cardinality(DOMAIN split.out) + 1

\* assess_validation; whether the deflated Sharpe cleared its floor is an input.
Assess(splits, deflatedClears) ==
  LET lost == Cardinality({n \in DOMAIN splits : Underperforms(splits[n])})
  IN IF \/ DOMAIN splits = {}
        \/ \E n \in DOMAIN splits : \/ Cardinality(DOMAIN splits[n].in) < 2
                                    \/ DOMAIN splits[n].in # DOMAIN splits[n].out
                                    \/ DOMAIN splits[n].in # DOMAIN splits[1].in
     THEN "raised"
     ELSE IF ~deflatedClears \/ 10 * lost > 3 * Cardinality(DOMAIN splits)
     THEN "refused" ELSE "evidence"

Judge(splits, deflatedClears) ==
  /\ stage = "reported" /\ protocol.kind = "cpcv"
  /\ grading' = <<splits, Assess(splits, deflatedClears)>>
  /\ stage' = "judged"
  /\ UNCHANGED <<protocol, paid, baseline, scores, failed, spread>>

ProtocolDone ==
  /\ stage \in {"refused", "raised", "reported", "judged"}
  /\ UNCHANGED protocolVars

ProtocolNext ==
  \/ Start \/ FailPart \/ RaisePart \/ Report \/ ProtocolDone
  \/ \E edge \in {0, 1} : EvaluateBaseline(edge)
  \/ \E succeeds \in BOOLEAN : Charge(succeeds)
  \/ \E trades \in {29, 30} : Evaluate(trades, 1)
  \/ \E splits \in Gradings, clears \in BOOLEAN : Judge(splits, clears)

ProtocolSpec == ProtocolInit /\ [][ProtocolNext]_protocolVars

------------------------------------------------------------------------------
\* Type invariant.
ProtocolTyped ==
  /\ protocol \in Protocols
  /\ stage \in {"declared", "running", "refused", "raised", "reported", "judged"}
  /\ paid \subseteq Parts(protocol) /\ failed \subseteq Parts(protocol)
  /\ DOMAIN scores \subseteq Parts(protocol) /\ spread \in {"none", "stated", "withheld"}

\* No training sample of any part that runs knows its test: its label has resolved before
\* the test opens, or its features do not reach back into it (purged_train_intervals,
\* WalkForwardDeclaration.gap).
NothingLeaks ==
  stage = "running" /\ Accounted = {} /\ Windowed(protocol) =>
    \A part \in Parts(protocol) :
      LET samples == SamplesOf(protocol, part)
      IN /\ samples.trains # {} /\ samples.tests # {}
         /\ \A s \in samples.trains, u \in samples.tests :
              \/ s + Purge(protocol) < u
              \/ u < s - protocol.lookback

\* The design measures every sample it claims to: each is out of sample in the same number
\* of combinatorial paths, and the folds' test windows leave no hole between them.
TestsAreEven ==
  stage = "running" /\ Accounted = {} /\ Windowed(protocol) =>
    LET tested(t) == {part \in Parts(protocol) : t \in SamplesOf(protocol, part).tests}
        all == UNION {SamplesOf(protocol, part).tests : part \in Parts(protocol)}
    IN IF protocol.kind = "cpcv"
       THEN \A t \in 0..protocol.length - 1 :
              Cardinality(tested(t)) * protocol.groups = Cardinality(Parts(protocol)) * protocol.size
       ELSE all = Min(all)..Max(all)

\* No part is looked at for free, whatever fails: what was evaluated has been charged, and a
\* report accounts for every planned part and charged them all (run_cpcv, run_walk_forward).
NothingIsFree ==
  /\ Accounted \subseteq paid
  /\ stage \in {"reported", "judged"} =>
       /\ paid = Parts(protocol) /\ Accounted = Parts(protocol)
       /\ DOMAIN scores \cap failed = {}
  /\ spread = "stated" /\ protocol.kind = "cpcv" => Cardinality(Included) >= 2

\* A search whose winner does not beat half of its rivals out of sample, in seven splits of
\* ten, is never called evidence (assess_validation).
NoiseIsNotEvidence ==
  grading # <<>> /\ grading[2] = "evidence" =>
    LET splits == grading[1]
        beats(split) == LET w == Winner(split.in)
                        IN 2 * Cardinality({d \in DOMAIN split.out \ {w} : split.out[d] <= split.out[w]})
                             >= Cardinality(DOMAIN split.out)
    IN 10 * Cardinality({n \in DOMAIN splits : beats(splits[n])}) >= 7 * Cardinality(DOMAIN splits)

ValidationHolds == NothingLeaks /\ TestsAreEven /\ NothingIsFree /\ NoiseIsNotEvidence
==============================================================================
