-------------------------------- MODULE MCDesk --------------------------------
(* The trading path at run time, one component at a time: the risk desk, the   *)
(* loss limits, the positions kept from fills and a backtest's books over them, *)
(* the boot checklist, the calls to the venue, the degraded modes and the      *)
(* supervised process.  They share no variable but the fills: what one is to   *)
(* another is an input of its model.                                           *)
EXTENDS RiskDesk, DrawdownMonitor, BacktestBooks, Preflight, VenueCalls, DegradedModes, Supervisor

CONSTANTS trader, reconciler, stale, unreachable, btc, eth, DATABASE_UNAVAILABLE, DATA_STALE

VARIABLE part  \* the component followed

allVars == <<deskVars, monitorVars, fillVars, bookVars, preflightVars, callVars, degradedVars,
             supervisorVars, part>>

------------------------------------------------------------------------------
\* The risk desk: two strategies with records and one without, three
\* instruments of which two share an asset; ratios in percent of equity.
MCInstruments == {"BTCUSDT", "BTCUSDC", "ETHUSDT"}
MCAsset == [i \in MCInstruments |-> IF i = "ETHUSDT" THEN "ETH" ELSE "BTC"]
MCClusters == {{i} : i \in MCInstruments}
MCCovariance == [p \in MCInstruments \X MCInstruments |-> IF p[1] = p[2] THEN 2 ELSE 1]
MCPolicy ==
  [position |-> 10, positionUsd |-> 9, asset |-> 15, gross |-> 28, portfolioUsd |-> 30,
   net |-> 26, freeMargin |-> 40, leverage |-> 1, singleOrderUsd |-> 8,
   riskMinUsd |-> 2, riskStepUsd |-> 2, atrMultiple |-> 1, atr |-> 1, targetVolatility |-> 15,
   minTradesForKelly |-> 100, kelly |-> 6, convictionFloor |-> 1,
   assetShare |-> 50, clusterShare |-> 40]
MCRecords == [s \in {1, 2} |->
  [calibrated |-> [c \in 0..2 |-> c], trades |-> IF s = 1 THEN 50 ELSE 150, mean |-> 3, variance |-> 2]]
MCVolatility == [i \in MCInstruments |->
  [ewma |-> 100, slow |-> IF i = "ETHUSDT" THEN 150 ELSE 90, floor |-> 50]]
Flat == [i \in MCInstruments |-> 0]
MCBooks == {Flat, [i \in MCInstruments |-> IF i = "ETHUSDT" THEN 4 ELSE 5],
            [i \in MCInstruments |-> IF i = "BTCUSDT" THEN -3 ELSE 0]}
MCSignal(s, i, d, c) == [strategy |-> s, instrument |-> i, direction |-> d, conviction |-> c,
                         stop |-> IF c = 2 THEN 0 ELSE 1, future |-> FALSE]
Listed == <<"BTCUSDT", "BTCUSDC", "ETHUSDT">>
Single(s, over) == {<<MCSignal(s, i, d, 1)>> : i \in over, d \in {"LONG", "SHORT", "FLAT"}}
Rebalance(s) ==
  {[n \in 1..3 |-> MCSignal(s, Listed[n], d, 1)] : d \in {"LONG", "SHORT", "FLAT"}}
    \cup {[n \in 1..3 |-> MCSignal(s, Listed[n], "LONG", 2)] : x \in {1} \cap {s}}
Statement(s, over) == {<<>>} \cup Single(s, over) \cup Rebalance(s)
MCBatches == {x \o y : x \in Statement(1, {"BTCUSDT", "ETHUSDT"}), y \in Statement(2, {"BTCUSDT"})}
  \cup {<<MCSignal(1, "BTCUSDT", "LONG", 0)>>, <<MCSignal(3, "BTCUSDT", "LONG", 1)>>,
        <<MCSignal(1, "BTCUSDT", "FLAT", 1), MCSignal(1, "BTCUSDT", "LONG", 1)>>,
        <<[MCSignal(1, "BTCUSDT", "LONG", 1) EXCEPT !.future = TRUE]>>}

\* The loss limits, in thousandths.
MCBudget == [drawdown |-> 50, daily |-> 30, rolling |-> 45]
MCCalm == [beyondDust |-> FALSE, attempts |-> 0, outcomes |-> 3, rejected |-> 3, holding |-> TRUE, age |-> 10,
           p99 |-> 1, skew |-> 1, exposure |-> 10, positions |-> 2, event |-> "none"]
MCObservations == {MCCalm, [MCCalm EXCEPT !.beyondDust = TRUE, !.attempts = 2, !.outcomes = 4,
                                          !.skew = -2, !.event = "manual"]}
MCThresholds == [attempts |-> 2, sample |-> 4, rejection |-> 20, staleness |-> 10, skew |-> 1,
                 exposure |-> 10, positions |-> 2]

\* Fills of one lot and of two, bought, and of two, sold.
MCSizes == {1, 2, -2}

\* One good boot, and that boot with one thing wrong.
Sym(n, size, clean, trading, survives) ==
  [name |-> n, tick |-> size, step |-> 1, clean |-> clean, trading |-> trading, survives |-> survives]
MCProfile == [hosts |-> "permitted", mechanism |-> "session_logon", keepalive |-> FALSE,
              prefixFits |-> TRUE, market |-> "spot", rate |-> 50]
MCBoot ==
  [profile |-> MCProfile, unvalidated |-> FALSE, journal |-> "clear", skew |-> 0, key |-> "ed25519",
   signs |-> TRUE, required |-> {"btc"}, archive |-> {"btc", "old"}, expects |-> TRUE, refuses |-> FALSE,
   info |-> {Sym("btc", 1, TRUE, TRUE, TRUE), Sym("odd", 1, FALSE, TRUE, TRUE), Sym("old", 1, TRUE, FALSE, TRUE)},
   funds |-> [free |-> 0, locked |-> 1], resting |-> 1, wiped |-> FALSE, rate |-> 50,
   userData |-> "event", provenance |-> "production"]
MCOdd ==
  [journal |-> {"open", "unreadable"}, skew |-> {-2, -1, 1, 2}, key |-> {"hmac"}, signs |-> {FALSE},
   info |-> {{Sym("btc", 0, TRUE, TRUE, TRUE)}, {Sym("btc", 1, TRUE, TRUE, TRUE), Sym("odd", 1, FALSE, TRUE, FALSE)}},
   required |-> {{}, {"old"}, {"odd"}}, archive |-> {{}}, expects |-> {FALSE}, refuses |-> {TRUE},
   wiped |-> {TRUE}, rate |-> {100}, userData |-> {"none", "silent", "closed"},
   provenance |-> {"blank", "testnet"}, unvalidated |-> {TRUE},
   profile |-> {[MCProfile EXCEPT !.mechanism = "listen_key", !.keepalive = TRUE], [MCProfile EXCEPT !.rate = 100],
                [MCProfile EXCEPT !.keepalive = TRUE], [MCProfile EXCEPT !.prefixFits = FALSE]}]
MCSetups ==
  {MCBoot, [MCBoot EXCEPT !.profile.hosts = "foreign", !.unvalidated = TRUE],
   [MCBoot EXCEPT !.wiped = TRUE, !.skew = 2]}
    \cup UNION {{[MCBoot EXCEPT ![f] = v] : v \in MCOdd[f]} : f \in DOMAIN MCOdd}

\* The order path and a reconciliation read on one exchange.
MCCallers     == {trader, reconciler}
MCClass       == [k \in MCCallers |-> IF k = trader THEN "ORDER" ELSE "RECONCILIATION"]
MCWeight      == [k \in MCCallers |-> IF k = trader THEN 1 ELSE 2]
MCPlacing     == {trader}
MCUsedWeights == {0, 5}
MCRetryAfters == {1}

\* Two of MODE_RULES' rows: the one that restricts symbols and leaves on two
\* clears, and the one that enters on two faults and leaves on a reconciliation.
MCModes       == {stale, unreachable}
MCSymbols     == {btc, eth}
MCEnter       == [m \in MCModes |-> IF m = unreachable THEN 2 ELSE 1]
MCLeave       == [m \in MCModes |-> IF m = stale THEN 2 ELSE 1]
MCReconciled  == {unreachable}
MCRestricting == {stale}
MCSymmetry    == Permutations(MCSymbols)

\* The supervisor: one mode that trips, one that does not.
MCProcessModes == {DATABASE_UNAVAILABLE, DATA_STALE}
MCTripping     == {DATABASE_UNAVAILABLE}

------------------------------------------------------------------------------
\* The components not followed start in one of their initial states.
Init ==
  /\ part \in {"desk", "monitor", "fills", "books", "boot", "calls", "modes", "process"}
  /\ part = "desk"    \/ (part # "desk" /\ book = Flat)
  /\ part = "monitor" \/ (part # "monitor" /\ monitor = OpenFirstTime(0, Max(EquityMarks)))
  /\ part = "boot"    \/ (part # "boot" /\ setup = MCBoot)
  /\ part = "process" \/ (part # "process" /\ tripped = FALSE /\ reachable = TRUE)
  /\ DeskInit /\ MonitorInit /\ FillsInit /\ BooksInit /\ PreflightInit /\ CallsInit /\ DegradedInit /\ SupervisorInit

Next ==
  \/ part = "desk"    /\ DeskNext       /\ UNCHANGED <<monitorVars, fillVars, bookVars, preflightVars, callVars, degradedVars, supervisorVars, part>>
  \/ part = "monitor" /\ MonitorNext    /\ UNCHANGED <<deskVars, fillVars, bookVars, preflightVars, callVars, degradedVars, supervisorVars, part>>
  \/ part = "fills"   /\ FillsNext      /\ UNCHANGED <<deskVars, monitorVars, bookVars, preflightVars, callVars, degradedVars, supervisorVars, part>>
  \/ part = "books"   /\ BooksNext      /\ UNCHANGED <<deskVars, monitorVars, preflightVars, callVars, degradedVars, supervisorVars, part>>
  \/ part = "boot"    /\ PreflightNext  /\ UNCHANGED <<deskVars, monitorVars, fillVars, bookVars, callVars, degradedVars, supervisorVars, part>>
  \/ part = "calls"   /\ CallsNext      /\ UNCHANGED <<deskVars, monitorVars, fillVars, bookVars, preflightVars, degradedVars, supervisorVars, part>>
  \/ part = "modes"   /\ DegradedNext   /\ UNCHANGED <<deskVars, monitorVars, fillVars, bookVars, preflightVars, callVars, supervisorVars, part>>
  \/ part = "process" /\ SupervisorNext /\ UNCHANGED <<deskVars, monitorVars, fillVars, bookVars, preflightVars, callVars, degradedVars, part>>

Spec == Init /\ [][Next]_allVars

\* Type invariant: every component keeps its state in the shape the code gives it.
DeskTypeOK ==
  /\ part = "desk" => DeskTyped
  /\ part = "monitor" => MonitorTyped
  /\ part = "fills" => FillsTyped
  /\ part = "books" => BooksTyped
  /\ part = "boot" => PreflightTyped
  /\ part = "calls" => CallsTypeOK
  /\ part = "modes" => DegradedTypeOK
  /\ part = "process" => SupervisorTypeOK

\* Two bookings of one trade: what the desk attributes to the strategies is
\* what it sends and crosses, a position is what its fills come to, and a
\* backtest's cash agrees with its positions (risk/netting, domain/position,
\* backtest/portfolio).
BookingsAreReality == AttributionIsReality /\ PositionIsItsFills /\ (part = "books" => BooksBalance)
=============================================================================
