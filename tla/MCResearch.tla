------------------------------ MODULE MCResearch ------------------------------
(* The research path, one component at a time: a backtest run, the ledger its  *)
(* trials are charged to, the record of what evolution did, the validation     *)
(* protocols, the point-in-time data they read, the archive it comes from and  *)
(* the schema it is kept in.  They share no variable: what one is to another   *)
(* is an input of its model.                                                   *)
EXTENDS BacktestRun, TrialLedger, LineageStore, SchemaMigrations, ValidationProtocols, PointInTime,
        ArchiveIntake, StrategyRun

CONSTANTS clerk1, clerk2

VARIABLE study  \* the component followed

allVars == <<runVars, ledgerVars, lineageVars, schemaVars, protocolVars, pitVars, intakeVars, strategyVars, study>>

------------------------------------------------------------------------------
\* Backtests over five bars, after a warm-up of one;
\* an acknowledgement comes at the instant the next bar closes.
Bar(low, high, last, volume) == [low |-> low, high |-> high, last |-> last, volume |-> volume]
Quiet == Bar(99, 101, 100, 8)
Rally == Bar(100, 104, 103, 12)
Drop  == Bar(95, 99, 96, 8)
MCTapes == {<<Quiet, Quiet, Drop, d, e>> : d \in {Rally, Drop}, e \in {Rally, Drop}}
Shape(side, type, tif, size, limit) == [side |-> side, type |-> type, tif |-> tif, size |-> size, limit |-> limit]
MCShapes ==
  {Shape("BUY", "MARKET", "IOC", 4, 0), Shape("SELL", "MARKET", "IOC", 8, 0), Shape("BUY", "LIMIT", "GTC", 6, 98),
   Shape("SELL", "LIMIT", "GTC", 4, 103), Shape("SELL", "LIMIT", "IOC", 4, 104),
   Shape("BUY", "LIMIT", "GTC", 2, 120), Shape("BUY", "LIMIT", "GTC", 3, 98), Shape("BUY", "MARKET", "IOC", 10, 0)}
MCLatency == [send |-> 1, ack |-> 3, fill |-> 1]
MCDepth   == [touch |-> 4, band |-> 8]
MCFilters == [lot |-> 2, least |-> 2, notional |-> 200, priceBand |-> 10]

MCClerks   == {clerk1, clerk2}
MCSymmetry == Permutations(MCClerks)
\* Specifications: two of one lineage in different contexts, one with a holdout
\* that was authorised and one whose holdout was not.
Declared(id, values, context, lineage, holdout, authorised) ==
  [id |-> id, values |-> values, symbols |-> 1, variants |-> 1, context |-> context, lineage |-> lineage,
   holdout |-> holdout, authorised |-> authorised]
MCSpecifications ==
  {Declared("s1", <<2>>, "x", "l1", FALSE, FALSE), Declared("s2", <<>>, "x", "l2", TRUE, TRUE),
   Declared("s3", <<1, 3>>, "y", "l1", TRUE, FALSE)}

\* Three genomes, one of them bred from another; two strategies.
Bred(genome, strategy, parents) == [genome |-> genome, strategy |-> strategy, parents |-> parents]
MCRecords ==
  {Bred("g1", "a", <<>>), Bred("g2", "none", <<"g1">>), Bred("g1", "none", <<"g3">>), Bred("g3", "b", <<"g2">>),
   Bred("g3", "none", <<>>)}
Decided(id, s, from, to) == [id |-> id, strategy |-> s, from |-> from, to |-> to]
MCDecisions ==
  {Decided(1, "a", "proposed", "backtested"), Decided(2, "a", "proposed", "retired"),
   Decided(3, "a", "backtested", "quarantined"), Decided(4, "a", "backtested", "validated"),
   Decided(5, "a", "retired", "backtested"), Decided(6, "b", "proposed", "retired"),
   Decided(7, "a", "quarantined", "backtested"), Decided(8, "a", "validated", "paper")}

\* Validation runs that start and ones that are refused.
Cpcv(length, groups, size, embargo, workers, memory, picklable) ==
  [kind |-> "cpcv", label |-> 1, lag |-> 0, lookback |-> 1, holding |-> 1, length |-> length, groups |-> groups,
   size |-> size, embargo |-> embargo, workers |-> workers, memory |-> memory, reserve |-> 1, peak |-> 2,
   picklable |-> picklable]
WalkForward(train, test, step, anchored, lag) ==
  [kind |-> "walk_forward", label |-> 1, lag |-> lag, lookback |-> 1, holding |-> 1, length |-> 16,
   train |-> train, test |-> test, step |-> step, anchored |-> anchored, segment |-> 1 + lag]
MCProtocols ==
  {Cpcv(14, 3, 1, 2, 1, 0, TRUE), Cpcv(23, 4, 2, 2, 1, 0, TRUE), Cpcv(17, 4, 1, 3, 2, 5, TRUE),
   Cpcv(17, 4, 1, 2, 2, 5, FALSE), Cpcv(17, 4, 1, 2, 2, 4, TRUE), Cpcv(14, 3, 1, 1, 1, 0, TRUE),
   Cpcv(9, 4, 2, 2, 1, 0, TRUE), Cpcv(9, 2, 1, 2, 1, 0, TRUE)}
    \cup {WalkForward(3, 2, 2, anchored, lag) : anchored \in BOOLEAN, lag \in 0..2}
    \cup {WalkForward(3, 3, 1, TRUE, 0), WalkForward(3, 2, 3, TRUE, 0)}
    \cup {[kind |-> "perturbation", parameters |-> n] : n \in 0..1}
    \cup {[kind |-> k, observations |-> o, block |-> 2, paths |-> 2] :
            k \in {"block_bootstrap", "trade_bootstrap"}, o \in {1, 30}}
Graded(in, out) == [in |-> in, out |-> out]
Good   == Graded(<<1, 3, 2>>, <<1, 3, 2>>)
Median == Graded(<<1, 3, 2>>, <<1, 2, 3>>)
Tied   == Graded(<<2, 2>>, <<1, 1>>)
MCGradings ==
  {<<>>, <<Good, Good>>, <<Good, Good, Median>>, <<Good, Good, Good, Median>>, <<Tied, Tied>>, <<Good, Tied>>,
   <<Graded(<<1>>, <<1>>)>>, <<Graded(<<1, 2>>, <<1, 2, 3>>)>>}

\* Every feature of the library over bars, and the two over settled rates.
MCFeatures ==
  {[kind |-> k, input |-> "bars", lookback |-> 2, lag |-> 0] :
     k \in {"return", "volatility", "breakout", "z_score", "band_width"}}
    \cup {[kind |-> k, input |-> "rates", lookback |-> 2, lag |-> 1] : k \in {"settled", "mean_rate"}}

\* Two days of four bars on either side of the microsecond cutover; each day has
\* publications that are sound and ones with a row or a format gone wrong.
Line(event, unit, flaw) == [event |-> event, unit |-> unit, flaw |-> flaw, mark |-> 1]
File(header, rows) == [header |-> header, rows |-> rows]
MCFiles ==
  [a1 |-> File(FALSE, <<Line(44, "ms", "none"), Line(45, "ms", "none"), Line(46, "ms", "none"), Line(47, "ms", "none")>>),
   a2 |-> File(FALSE, <<[Line(44, "ms", "none") EXCEPT !.mark = 2], Line(45, "ms", "ohlc_not_bracketing"),
                        Line(46, "ms", "none"), Line(47, "ms", "boolean_unrecognised")>>),
   a3 |-> File(FALSE, <<Line(44, "ms", "none"), Line(45, "ms", "none"), Line(46, "us", "none")>>),
   a4 |-> File(FALSE, <<Line(44, "ms", "none"), Line(45, "us", "none"), Line(46, "us", "none")>>),
   a5 |-> File(FALSE, <<Line(45, "ms", "none"), Line(44, "ms", "none")>>),
   b1 |-> File(FALSE, <<Line(50, "us", "none"), Line(51, "us", "none")>>),
   b2 |-> File(FALSE, <<Line(48, "ms", "none"), Line(49, "ms", "none")>>),
   b3 |-> File(TRUE, <<Line(48, "us", "none"), Line(49, "us", "none")>>),
   b4 |-> File(FALSE, <<Line(48, "us", "none"), Line(49, "us", "volume_negative"), Line(50, "us", "none")>>)]
MCVersions == (11 :> {"a1", "a2", "a3", "a4", "a5"}) @@ (12 :> {"b1", "b2", "b3", "b4"})
MCScale == [ms |-> 1, us |-> 1000]

\* The shipped strategies on one or two instruments, and catalogues that are refused.
Declares(key, kind, requires, warmUp, scaling, entry) ==
  [key |-> key, kind |-> kind, instruments |-> {"btc"}, intervals |-> {1}, requires |-> requires,
   warmUp |-> warmUp, floor |-> 5, cap |-> 20, scaling |-> scaling, multiple |-> 4, entry |-> entry, span |-> 3]
Trend(entry) ==
  [Declares("trend", "continuation", {"return"}, 2, "none", entry) EXCEPT !.instruments = {"btc", "eth"}]
Channel == Declares("channel", "breakout", {"breakout", "volatility"}, 3, "volatility", 0)
Bands   == [Declares("bands", "reversion", {"z_score", "band_width", "breakout"}, 3, "band_width", 2)
              EXCEPT !.intervals = {1, 2}]
Funding == [Declares("funding", "carry", {"settled", "mean_rate"}, 2, "mean_rate", 1) EXCEPT !.intervals = {2}]
MCLookback == [return |-> 2, breakout |-> 3, volatility |-> 2, z_score |-> 2, band_width |-> 2, settled |-> 1, mean_rate |-> 4]
MCCatalogues ==
  {<<Trend(5), Channel>>, <<Bands, Funding>>, <<Trend(5), Trend(6)>>, <<[Channel EXCEPT !.warmUp = 2]>>,
   <<[Bands EXCEPT !.requires = @ \cup {"sentiment"}]>>}
Given(values, withheld) == [values |-> values, withheld |-> withheld]
MCOffered ==
  [continuation |-> {Given([return |-> r], {}) : r \in {-15, 3, 7}}
                      \cup {Given(<<>>, {}), Given(<<>>, {"return"}), Given([return |-> 7], {"return"}),
                            Given([return |-> 7, volatility |-> 1], {})},
   breakout |-> {Given([breakout |-> b, volatility |-> 2], {}) : b \in {-1, 0}}
                  \cup {Given([breakout |-> 1, volatility |-> v], {}) : v \in {0, 9}}
                  \cup {Given([breakout |-> 1], {"volatility"})},
   reversion |-> {Given([z_score |-> z, band_width |-> 2, breakout |-> 0], {}) : z \in {-2, 1, 3}}
                   \cup {Given([z_score |-> 3, band_width |-> 2, breakout |-> 1], {}),
                         Given([band_width |-> 2, breakout |-> 0], {"z_score"})},
   carry |-> {Given([settled |-> r, mean_rate |-> 2], {}) : r \in {-2, 1, 2}}
               \cup {Given([settled |-> 2, mean_rate |-> 1], {}), Given([settled |-> 2], {"mean_rate"})}]

------------------------------------------------------------------------------
\* The components not followed start in one of their initial states.
Init ==
  /\ study \in {"run", "ledger", "lineage", "schema", "protocol", "data", "intake", "strategy"}
  /\ study = "run"      \/ (study # "run" /\ tape = <<Quiet, Quiet, Drop, Drop, Drop>> /\ charged = 1 /\ stored = Lattice)
  /\ study = "protocol" \/ (study # "protocol" /\ protocol = Cpcv(14, 3, 1, 2, 1, 0, TRUE))
  /\ study = "data"     \/ (study # "data" /\ feature = CHOOSE f \in Features : f.kind = "return")
  /\ study = "intake"   \/ (study # "intake" /\ dataset = "klines" /\ published = [d \in Dates |-> Absent])
  /\ study = "strategy" \/ (study # "strategy" /\ catalogue = <<Trend(5), Channel>>)
  /\ RunInit /\ LedgerInit /\ LineageInit /\ SchemaInit /\ ProtocolInit /\ PitInit /\ IntakeInit
  /\ StrategyInit

Next ==
  \/ study = "run"      /\ RunNext      /\ UNCHANGED <<ledgerVars, lineageVars, schemaVars, protocolVars, pitVars, intakeVars, strategyVars, study>>
  \/ study = "ledger"   /\ LedgerNext   /\ UNCHANGED <<runVars, lineageVars, schemaVars, protocolVars, pitVars, intakeVars, strategyVars, study>>
  \/ study = "lineage"  /\ LineageNext  /\ UNCHANGED <<runVars, ledgerVars, schemaVars, protocolVars, pitVars, intakeVars, strategyVars, study>>
  \/ study = "schema"   /\ SchemaNext   /\ UNCHANGED <<runVars, ledgerVars, lineageVars, protocolVars, pitVars, intakeVars, strategyVars, study>>
  \/ study = "protocol" /\ ProtocolNext /\ UNCHANGED <<runVars, ledgerVars, lineageVars, schemaVars, pitVars, intakeVars, strategyVars, study>>
  \/ study = "data"     /\ PitNext      /\ UNCHANGED <<runVars, ledgerVars, lineageVars, schemaVars, protocolVars, intakeVars, strategyVars, study>>
  \/ study = "intake"   /\ IntakeNext   /\ UNCHANGED <<runVars, ledgerVars, lineageVars, schemaVars, protocolVars, pitVars, strategyVars, study>>
  \/ study = "strategy" /\ StrategyNext /\ UNCHANGED <<runVars, ledgerVars, lineageVars, schemaVars, protocolVars, pitVars, intakeVars, study>>

Spec == Init /\ [][Next]_allVars

\* The evolution record on its own, for several curators.
LineageSpec == Init /\ study = "lineage" /\ [][Next]_allVars

\* Type invariant: every component keeps its state in the shape the code gives it.
ResearchTypeOK ==
  /\ study = "run" => RunTyped
  /\ study = "ledger" => LedgerTyped
  /\ study = "lineage" => LineageTyped
  /\ study = "schema" => SchemaTyped
  /\ study = "protocol" => ProtocolTyped
  /\ study = "data" => PitTyped
  /\ study = "intake" => IntakeTyped
  /\ study = "strategy" => StrategyTyped

\* What research reads is what was published, at the instant it was knowable, and a
\* strategy's belief stands on nothing else (data/archive, data/quality,
\* data/features, strategy).
DataHolds == IntakeHolds /\ DataIsPointInTime /\ DecisionsHold
=============================================================================
