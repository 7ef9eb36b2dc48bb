------------------------------ MODULE Preflight ------------------------------
(* The boot checklist (execution/preflight) over a venue profile              *)
(* (execution/venue_profile), and the symbol universe resolved after it       *)
(* (execution/universe).  Eleven checks run in order and stop at the first    *)
(* that fails; three of them read a venue that keeps moving meanwhile.        *)
EXTENDS Integers, Sequences, FiniteSets

CONSTANTS Setups,    \* configurations and environments of one boot
          MaxDrift,  \* max_clock_drift, in ticks
          MaxTick    \* bound on the clock

VARIABLES setup,             \* the boot's configuration, fixed
          item,              \* the check running, 1 .. 11
          reading,           \* what the check running has read so far, or {}
          outcomes,          \* the verdicts so far
          ending,            \* "running", "ready", "aborted" or "violation"
          tick, skewed,      \* the venue's clock, and the host's wall clock minus it
          funds, resting,    \* the venue's account: free, locked; open orders
          gateHalted,        \* the kill-switch gate
          sampled, universe  \* history: the skew sampled; the universe resolved

\* The journal is read or it is not, an account is two balances (an order locks
\* one unit), and a listing is keyed by its symbol's name.
ASSUME PreflightAssumption ==
  /\ MaxDrift \in Nat /\ MaxTick \in Nat
  /\ \A s \in Setups :
       /\ s.journal \in {"clear", "open", "unreadable"} /\ s.skew \in Int
       /\ s.funds \in [free : Nat, locked : Nat] /\ s.resting = s.funds.locked
       /\ \A x, y \in s.info : x.name = y.name => x = y

preflightVars == <<setup, item, reading, outcomes, ending, tick, skewed, funds, resting, gateHalted, sampled, universe>>

ItemCount == 11

\* The profile's validators: constructing a profile that fails one raises.
ProfileAccepted(p) ==
  /\ p.hosts = "permitted"
  /\ p.mechanism = "listen_key" <=> p.keepalive
  /\ p.prefixFits

RequiredKey(p) == IF p.mechanism = "session_logon" THEN "ed25519" ELSE "hmac"

SpotOrderRate == 50

Trading(info) == {s \in info : s.trading}
Tradable(info) == {s.name : s \in {x \in Trading(info) : x.clean}}
Quarantined(info) == {s \in info : ~(s.clean /\ s.trading)}

HasFilters(info, name) == \E s \in info : s.name = name /\ s.tick > 0 /\ s.step > 0

PassedIf(holds) == IF holds THEN "passed" ELSE "failed"

\* The checks that read nothing that moves, by their place in the list.
Verdict(s, i) ==
  CASE i = 1  -> CASE s.journal = "unreadable" -> "failed"
                   [] s.journal = "open"       -> "routed"
                   [] OTHER                    -> "passed"
    [] i = 2  -> "passed"
    [] i = 4  -> PassedIf(s.key = RequiredKey(s.profile) /\ s.signs)
    [] i = 5  -> PassedIf(s.required # {} /\ s.required \subseteq Tradable(s.info))
    [] i = 6  -> PassedIf(\A x \in Trading(s.info) : x.survives)
    [] i = 7  -> PassedIf(\A n \in s.required : HasFilters(s.info, n))
    [] i = 9  -> PassedIf(/\ s.rate = s.profile.rate
                          /\ s.profile.market = "spot" => s.profile.rate = SpotOrderRate)
    [] i = 10 -> PassedIf(s.userData = "event")
    [] i = 11 -> PassedIf(s.provenance = "production")

ClockItem == 3
AccountItem == 8

PreflightInit ==
  /\ setup \in {s \in Setups : ProfileAccepted(s.profile) \/ s.unvalidated}
  /\ item = 1 /\ reading = {} /\ outcomes = <<>> /\ ending = "running"
  /\ tick = 0 /\ skewed = setup.skew
  /\ funds = setup.funds /\ resting = setup.resting
  /\ gateHalted = TRUE /\ universe = {}
  /\ sampled = [skew |-> 0, trip |-> 0, empty |-> FALSE]

venueVars == <<tick, skewed, funds, resting>>

\* A verdict is recorded: a failed one ends the run.  With all eleven recorded
\* the report is ready.
SettleItem(verdict) ==
  /\ outcomes' = Append(outcomes, verdict)
  /\ item' = item + 1
  /\ ending' = IF verdict = "failed" THEN "aborted"
               ELSE IF item = ItemCount THEN "ready" ELSE "running"

\* restore_kill_switch adopts what the journal says; not knowing is halted.
CheckStatic ==
  /\ ending = "running" /\ item \notin {ClockItem, AccountItem}
  /\ item = 2 => setup.profile.hosts = "permitted"
  /\ SettleItem(Verdict(setup, item))
  /\ gateHalted' = IF item = 1 THEN setup.journal # "clear" ELSE gateHalted
  /\ UNCHANGED <<setup, reading, sampled, universe>> /\ UNCHANGED venueVars

\* assert_host_permitted raises past the checklist: no outcome is recorded.
CheckForeignHost ==
  /\ ending = "running" /\ item = 2 /\ setup.profile.hosts # "permitted"
  /\ ending' = "violation"
  /\ UNCHANGED <<setup, item, reading, outcomes, gateHalted, sampled, universe>> /\ UNCHANGED venueVars

\* sample: the host's wall clock, before the request leaves ...
ReadWall ==
  /\ ending = "running" /\ item = ClockItem /\ reading = {}
  /\ reading' = {[wall |-> tick + skewed, mono |-> tick, server |-> -1]}
  /\ sampled' = [sampled EXCEPT !.skew = skewed]
  /\ UNCHANGED <<setup, item, outcomes, ending, gateHalted, universe>> /\ UNCHANGED venueVars

\* ... the server's clock, when it answers ...
ServerAnswers ==
  /\ ending = "running" /\ item = ClockItem
  /\ \E r \in reading :
       /\ r.server = -1
       /\ reading' = {[r EXCEPT !.server = tick]}
  /\ UNCHANGED <<setup, item, outcomes, ending, gateHalted, sampled, universe>> /\ UNCHANGED venueVars

\* Mutation of MeasuredSkew: the answer is compared with the request's start.
MeasuredSkew_NoMidpoint(r, after) == 2 * (r.server - r.wall)

\* measure_clock_skew, in half ticks: against the midpoint of the round trip.
MeasuredSkew(r, after) == 2 * r.server - (2 * r.wall + (after - r.mono))

\* ... and the monotonic clock, when the answer arrives.
JudgeClock ==
  /\ ending = "running" /\ item = ClockItem
  /\ \E r \in reading :
       /\ r.server # -1
       /\ SettleItem(PassedIf(MeasuredSkew(r, tick) \in -(2 * MaxDrift) .. 2 * MaxDrift))
       /\ sampled' = [sampled EXCEPT !.trip = tick - r.mono]
  /\ reading' = {}
  /\ UNCHANGED <<setup, gateHalted, universe>> /\ UNCHANGED venueVars

NonZero(balance) == balance.free # 0 \/ balance.locked # 0

ReadBalances ==
  /\ ending = "running" /\ item = AccountItem /\ reading = {}
  /\ reading' = {[held |-> NonZero(funds), empty |-> funds.free + funds.locked = 0]}
  /\ UNCHANGED <<setup, item, outcomes, ending, gateHalted, sampled, universe>> /\ UNCHANGED venueVars

\* _check_exchange_state: nothing held and nothing open, where local state
\* expected something, is routed to the wipe handler.
ReadOrders ==
  /\ ending = "running" /\ item = AccountItem
  /\ \E r \in reading :
       /\ SettleItem(IF ~r.held /\ resting = 0 /\ setup.expects THEN "routed" ELSE "passed")
       /\ sampled' = [sampled EXCEPT !.empty = r.empty]
  /\ reading' = {}
  /\ UNCHANGED <<setup, gateHalted, universe>> /\ UNCHANGED venueVars

\* The venue refuses the state read.
AccountRefused ==
  /\ ending = "running" /\ item = AccountItem /\ setup.refuses
  /\ SettleItem("failed")
  /\ reading' = {}
  /\ UNCHANGED <<setup, gateHalted, sampled, universe>> /\ UNCHANGED venueVars

\* resolve_universe: listed, clean, trading and in the archive; a requested
\* symbol outside raises, and so does one whose filters do not load.
ResolveUniverse ==
  /\ ending = "ready" /\ universe = {}
  /\ LET intersected == Tradable(setup.info) \cap setup.archive
     IN  /\ setup.required \subseteq intersected
         /\ \A n \in intersected : HasFilters(setup.info, n)
         /\ universe' = intersected
  /\ UNCHANGED <<setup, item, reading, outcomes, ending, gateHalted, sampled>> /\ UNCHANGED venueVars

----------------------------------------------------------------------------
\* The world: time passes, the host's clock is stepped, orders fill or are
\* wiped with the account.

PreflightTick ==
  /\ tick < MaxTick /\ tick' = tick + 1
  /\ UNCHANGED <<setup, item, reading, outcomes, ending, skewed, funds, resting, gateHalted, sampled, universe>>

ClockStepped ==
  /\ skewed # 0 /\ skewed' = 0
  /\ UNCHANGED <<setup, item, reading, outcomes, ending, tick, funds, resting, gateHalted, sampled, universe>>

OrderFills ==
  /\ resting > 0 /\ resting' = resting - 1
  /\ funds' = [free |-> funds.free + 1, locked |-> funds.locked - 1]
  /\ UNCHANGED <<setup, item, reading, outcomes, ending, tick, skewed, gateHalted, sampled, universe>>

VenueWiped ==
  /\ setup.wiped /\ funds # [free |-> 0, locked |-> 0]
  /\ funds' = [free |-> 0, locked |-> 0] /\ resting' = 0
  /\ UNCHANGED <<setup, item, reading, outcomes, ending, tick, skewed, gateHalted, sampled, universe>>

PreflightNext ==
  \/ CheckStatic \/ CheckForeignHost \/ ReadWall \/ ServerAnswers \/ JudgeClock
  \/ ReadBalances \/ ReadOrders \/ AccountRefused \/ ResolveUniverse
  \/ PreflightTick \/ ClockStepped \/ OrderFills \/ VenueWiped

PreflightSpec == PreflightInit /\ [][PreflightNext]_preflightVars

----------------------------------------------------------------------------
\* Type invariant.
PreflightTyped ==
  /\ setup \in Setups /\ item \in 1 .. ItemCount + 1
  /\ Cardinality(reading) <= 1
  /\ outcomes \in Seq({"passed", "failed", "routed"}) /\ Len(outcomes) = item - 1
  /\ ending \in {"running", "ready", "aborted", "violation"}
  /\ resting = funds.locked /\ funds.free >= 0

\* A started runtime has had every check settled and none failed: its host clock
\* was within the budget plus half a round trip when sampled, its keys are of the kind the
\* profile signs with, every required symbol is tradable with filters, the kill
\* switch is halted exactly when the journal holds an open trip, and the wipe
\* handler was chosen only for an account that was empty.
StartIsProved ==
  ending = "ready" =>
    /\ Len(outcomes) = ItemCount
    /\ \A i \in 1 .. ItemCount : outcomes[i] # "failed"
    /\ setup.profile.hosts = "permitted" /\ setup.key = RequiredKey(setup.profile)
    /\ setup.userData = "event" /\ setup.provenance = "production"
    /\ gateHalted <=> setup.journal = "open"
    /\ setup.required # {}
    /\ \A n \in setup.required : \E s \in setup.info : s.name = n /\ s.clean /\ s.trading /\ s.tick > 0
    /\ 2 * sampled.skew \in -(2 * MaxDrift + sampled.trip) .. 2 * MaxDrift + sampled.trip
    /\ outcomes[AccountItem] = "routed" => sampled.empty
    /\ universe # {} => setup.required \subseteq universe /\ universe \cap {s.name : s \in Quarantined(setup.info)} = {}
=============================================================================
