------------------------------ MODULE LiveIngest ------------------------------
(* The live kline path: data/live/supervisor.py opens a session, its router    *)
(* notes what arrives, the cadence detector turns what did not arrive into gap *)
(* rows, and data/backfill/gaps.py repairs those rows from REST.  One series;  *)
(* time is counted in bar intervals, so a bar is named by its open time.       *)
(*                                                                             *)
(* The steps of the session and of its poller interleave at every await: a bar *)
(* is noted before it is written, a poll takes its gaps from the detector      *)
(* before it writes them, an outage is forgotten before its row is written, and *)
(* a lost connection, the venue's or the database's, falls between the two.    *)
EXTENDS GapRegistry, FiniteSets

CONSTANTS MaxNow,      \* the last instant explored
          Grace,       \* CADENCE_GRACE, in intervals
          Repairers,   \* passes of the kline repair, which may overlap
          MaxFaults,   \* how often a connection fails: to the venue or to the database
          MaxCrashes,  \* how often the process ends
          MaxPasses    \* how often a repair pass starts

\* The grace is longer than an interval: a bar is closed before it is missed.
ASSUME LiveAssumption ==
  MaxNow \in Nat \ {0} /\ Grace \in Nat \ {0} /\ MaxFaults \in Nat
  /\ MaxCrashes \in Nat /\ MaxPasses \in Nat

VARIABLES now, session, watermark, observed, lastBar, droppedAt,
          bars, arriving, opening, report, repair, faults, crashes, passes,
          expected    \* history, for the properties only

liveState == <<session, watermark, observed, lastBar, droppedAt, arriving, opening, report>>
liveVars == <<gaps, now, session, watermark, observed, lastBar, droppedAt, bars, arriving,
              opening, report, repair, faults, crashes, passes, expected>>

None == MaxNow + 1      \* no instant
Minutes == 0 .. MaxNow
Idle == [stage |-> "idle"]

LiveInit ==
  /\ gaps = {} /\ now = 1 /\ bars = {} /\ session = "off"
  /\ watermark = 0 /\ observed = {} /\ lastBar = None /\ droppedAt = None
  /\ arriving = None /\ opening = {} /\ report = {}
  /\ repair = [r \in Repairers |-> Idle] /\ faults = 0 /\ crashes = 0 /\ passes = 0
  /\ expected = {}

Tick == /\ now < MaxNow
        /\ now' = now + 1
        /\ UNCHANGED <<gaps, liveState, bars, repair, faults, crashes, passes, expected>>

\* LiveRouter and CadenceGapDetector start empty; the watermark is one interval
\* before the process start.
BootLive ==
  /\ session = "off"
  /\ session' = "connecting" /\ watermark' = now - 1
  /\ UNCHANGED <<gaps, now, observed, lastBar, droppedAt, bars, arriving, opening, report,
                 repair, faults, crashes, passes, expected>>

\* run_once opening a session: close_pending_gaps forgets the outage and hands
\* its row to the first write of the session.  The session is expected to account
\* for the minutes the detector has neither settled nor seen.
Connect ==
  /\ session = "connecting"
  /\ droppedAt = None \/ droppedAt < now
  /\ session' = "live" /\ droppedAt' = None
  /\ opening' = IF droppedAt = None THEN {} ELSE {Gap(droppedAt, now, "disconnect", 0)}
  /\ expected' = {m \in Minutes : m > watermark} \ observed
  /\ UNCHANGED <<gaps, now, watermark, observed, lastBar, bars, arriving, report, repair,
                 faults, crashes, passes>>

\* The session is read for as long as its connections stand, with its poller or,
\* once that has failed, without.
Streaming == session \in {"live", "unpolled"}

WriteOpening ==
  /\ Streaming /\ opening # {}
  /\ gaps' = InsertGaps(gaps, opening) /\ opening' = {}
  /\ UNCHANGED <<now, session, watermark, observed, lastBar, droppedAt, bars, arriving,
                 report, repair, faults, crashes, passes, expected>>

\* A frame carries the minute while it forms and once when it has closed; only
\* the closed one becomes a record.
Closed(m) == m < now

\* _route_kline; a minute may come late, out of order or twice.
RouteKline(m) ==
  /\ Streaming /\ opening = {} /\ arriving = None
  /\ Closed(m)
  /\ lastBar' = IF lastBar = None \/ lastBar < m THEN m ELSE lastBar
  /\ observed' = IF m > watermark THEN observed \cup {m} ELSE observed
  /\ arriving' = m
  /\ UNCHANGED <<gaps, now, session, watermark, droppedAt, bars, opening, report, repair,
                 faults, crashes, passes, expected>>

\* INSERT_BAR: a bar is never rewritten, so of a bar only its presence matters.
InsertBars(held, found) == held \cup found

WriteBar ==
  /\ Streaming /\ arriving # None
  /\ bars' = InsertBars(bars, {arriving}) /\ arriving' = None
  /\ UNCHANGED <<gaps, now, session, watermark, observed, lastBar, droppedAt, opening,
                 report, repair, faults, crashes, passes, expected>>

\* CadenceGapDetector.poll: every candidate at or before now - grace is settled,
\* and the watermark and the observed set move with it.
Due == {m \in Minutes : watermark < m /\ m + Grace <= now}
\* Mutation of PollFinds: the run still open at the deadline is not reported.
PollFinds_ClosedRunsOnly ==
  {Gap(run[1], run[2] + 1, "cadence", run[2] - run[1] + 1) :
     run \in {x \in Runs(Due \ observed, watermark + 1, now - Grace) : x[2] < now - Grace}}

PollFinds ==
  {Gap(run[1], run[2] + 1, "cadence", run[2] - run[1] + 1) :
     run \in Runs(Due \ observed, watermark + 1, now - Grace)}

Poll ==
  /\ session = "live" /\ report = {} /\ Due # {}
  /\ report' = PollFinds
  /\ watermark' = now - Grace /\ observed' = observed \ Due
  /\ UNCHANGED <<gaps, now, session, lastBar, droppedAt, bars, arriving, opening, repair,
                 faults, crashes, passes, expected>>

WriteReport ==
  /\ session = "live" /\ report # {}
  /\ gaps' = InsertGaps(gaps, report) /\ report' = {}
  /\ UNCHANGED <<now, session, watermark, observed, lastBar, droppedAt, bars, arriving,
                 opening, repair, faults, crashes, passes, expected>>

\* mark_disconnected: the outage runs from an earlier drop, from the last bar
\* seen, or from now.
OutageFrom == IF droppedAt # None THEN droppedAt ELSE IF lastBar # None THEN lastBar ELSE now

\* A connection attempt fails: no session opens.
FailConnect ==
  /\ session = "connecting" /\ faults < MaxFaults
  /\ faults' = faults + 1 /\ droppedAt' = OutageFrom
  /\ UNCHANGED <<gaps, now, session, watermark, observed, lastBar, bars, arriving, opening,
                 report, repair, crashes, passes, expected>>

\* One of TRANSPORT_ERRORS ends the session: the venue's socket while a frame is
\* awaited, or, an OSError all the same, the database refusing the connection of
\* a write, which then is not made.  The poller is cancelled where it stands.
Drop ==
  /\ session = "live" /\ faults < MaxFaults
  /\ session' = "connecting" /\ faults' = faults + 1
  /\ droppedAt' = OutageFrom
  /\ arriving' = None /\ opening' = {} /\ report' = {} /\ expected' = {}
  /\ UNCHANGED <<gaps, now, watermark, observed, lastBar, bars, repair, crashes, passes>>

\* The poller raises, at its write or in its seal: nobody awaits it before the
\* session ends, which is read on without it; then it ends the process.
PollerFails ==
  /\ session = "live" /\ faults < MaxFaults
  /\ session' = "unpolled" /\ faults' = faults + 1 /\ report' = {} /\ expected' = {}
  /\ UNCHANGED <<gaps, now, watermark, observed, lastBar, droppedAt, bars, arriving, opening,
                 repair, crashes, passes>>

\* Any other error, a clock that did not pass the drop, a failed poller at the end
\* of its session, or a crash: the process ends and everything in memory with it.
Die ==
  /\ session # "off" /\ crashes < MaxCrashes
  /\ session' = "off" /\ crashes' = crashes + 1
  /\ watermark' = 0 /\ observed' = {} /\ lastBar' = None /\ droppedAt' = None
  /\ arriving' = None /\ opening' = {} /\ report' = {}
  /\ expected' = {}
  /\ UNCHANGED <<gaps, now, bars, repair, faults, passes>>

------------------------------------------------------------------------------
\* KlineGapBackfiller: a pass takes the open rows it can repair, then for each
\* fetches, reads what is held, reconciles, writes and resolves.
Repairable(rows) == {g \in OpenGaps(rows) : g.kind \in {"cadence", "seam"}}

BeginPass(r) ==
  /\ repair[r] = Idle /\ passes < MaxPasses /\ Repairable(gaps) # {}
  /\ repair' = [repair EXCEPT ![r] = [stage |-> "next", queue |-> Repairable(gaps)]]
  /\ passes' = passes + 1
  /\ UNCHANGED <<gaps, now, liveState, bars, faults, crashes, expected>>

\* The endpoint is paged through and serves closed bars only, perhaps not all.
\* The interval fetched past either side, which only tests the seam, is left out.
CanServe(gap) == {m \in Minutes : Closed(m) /\ Inside(m, gap)}

\* reconcile_klines: two views that agree are merged; a disagreement raises.
Merged(held, served) == held \cup served

Fetch(r, served) ==
  /\ repair[r].stage = "next" /\ repair[r].queue # {}
  /\ LET gap == CHOOSE g \in repair[r].queue : \A h \in repair[r].queue : g.from <= h.from
     IN  /\ served \subseteq CanServe(gap)
         /\ repair' = [repair EXCEPT ![r] =
              [stage |-> "write", queue |-> repair[r].queue \ {gap}, gap |-> gap,
               inside |-> {m \in Merged(bars, served) : Inside(m, gap)}]]
  /\ UNCHANGED <<gaps, now, liveState, bars, faults, crashes, passes, expected>>

WriteRecovered(r) ==
  /\ repair[r].stage = "write"
  /\ bars' = InsertBars(bars, repair[r].inside)
  /\ repair' = [repair EXCEPT ![r].stage = "resolve"]
  /\ UNCHANGED <<gaps, now, liveState, faults, crashes, passes, expected>>

\* _residual_gaps: the maximal runs of minutes still missing, with the gap's kind.
Residuals(gap, inside) ==
  {Gap(run[1], run[2] + 1, gap.kind, run[2] - run[1] + 1) :
     run \in Runs({m \in Minutes : Inside(m, gap)} \ inside, gap.from, gap.upto - 1)}

\* _narrows_nothing: the repair would reproduce the row.
NarrowsNothing(gap, left) == \E g \in left : SameBounds(g, gap)

\* A repair that narrows nothing leaves the row alone; a refused resolution
\* raises and ends the pass.
ResolveRow(r) ==
  /\ repair[r].stage = "resolve"
  /\ LET gap  == repair[r].gap
         left == Residuals(gap, repair[r].inside)
         more == [stage |-> "next", queue |-> repair[r].queue]
     IN  \/ /\ NarrowsNothing(gap, left)
            /\ repair' = [repair EXCEPT ![r] = more] /\ UNCHANGED gaps
         \/ /\ ~NarrowsNothing(gap, left)
            /\ CanResolve(gaps, gap, left)
            /\ gaps' = Resolved(gaps, gap, left)
            /\ repair' = [repair EXCEPT ![r] = more]
         \/ /\ ~NarrowsNothing(gap, left)
            /\ ~CanResolve(gaps, gap, left)
            /\ repair' = [repair EXCEPT ![r] = Idle] /\ UNCHANGED gaps
  /\ UNCHANGED <<now, liveState, bars, faults, crashes, passes, expected>>

\* The pass is done, or a disagreement, an endpoint refusal or a kill ends it.
EndPass(r) ==
  /\ repair[r] # Idle
  /\ repair' = [repair EXCEPT ![r] = Idle]
  /\ UNCHANGED <<gaps, now, liveState, bars, faults, crashes, passes, expected>>

LiveNext ==
  \/ Tick \/ BootLive \/ Connect \/ WriteOpening \/ WriteBar \/ Poll \/ WriteReport
  \/ FailConnect \/ Drop \/ PollerFails \/ Die
  \/ \E m \in Minutes : RouteKline(m)
  \/ \E r \in Repairers : BeginPass(r) \/ WriteRecovered(r) \/ ResolveRow(r) \/ EndPass(r)
  \/ \E r \in Repairers, served \in SUBSET Minutes : Fetch(r, served)

LiveSpec == LiveInit /\ [][LiveNext]_liveVars

------------------------------------------------------------------------------
\* Type invariant.  The minutes held and the gaps on record are minutes there were, and every actor is at a step of its own.
LiveTypeOK ==
  /\ now \in Minutes /\ session \in {"off", "connecting", "live", "unpolled"}
  /\ watermark \in Minutes /\ observed \subseteq watermark + 1 .. now
  /\ {lastBar, droppedAt, arriving} \subseteq Minutes \cup {None}
  /\ bars \subseteq 0 .. now /\ expected \subseteq Minutes
  /\ \A g \in gaps \cup opening \cup report :
       /\ g.kind \in {"cadence", "disconnect"} /\ g.resolution \in Resolutions
       /\ g.from < g.upto /\ g.upto <= now

\* A minute that is held, on its way into the table, or in a row that is open or
\* being written.
OnRecord(m) == \/ m \in bars \/ m = arriving
               \/ \E g \in OpenGaps(gaps) \cup report : Inside(m, g)

\* Of the minutes a session is expected to account for, each one its detector has
\* settled is on record, whatever the order bars, polls, writes and repairs come
\* in (CadenceGapDetector.poll, _poll_cadence).  It speaks of one session while
\* it stands; what the end of a session costs is GapsNeverForgotten.
HolesRecorded == \A m \in expected : m <= watermark => OnRecord(m)

\* A minute of an outage that is still to be recorded.
OutagePending(m) == \/ droppedAt # None /\ droppedAt <= m /\ m < now
                    \/ \E g \in opening : Inside(m, g)

\* "A gap per outage, always" (supervisor.py), and a minute with no closed bar "is a
\* gap" (DATA_PIPELINE.md): no step forgets a minute that was found missing or is
\* part of an outage, and none drops a held bar or a row.  It is not so when a session
\* ends, or its poller fails, between a poll and the write of its rows, when the write
\* of an outage fails, nor when the process ends in an outage (_poll_cadence,
\* close_pending_gaps, mark_disconnected).
Known(m) == m \in bars \/ OutagePending(m) \/ \E g \in gaps \cup report : Inside(m, g)
GapsNeverForgotten == [][\A m \in Minutes : Known(m) => Known(m)']_liveVars

\* A row is marked resolved only when each minute of it is held or lies in a row
\* that is still open: two overlapping passes, an endpoint that serves part of
\* the range and a pass killed between its writes lose no hole.
ResolvedMeansHeld ==
  \A g \in gaps : g.kind = "cadence" /\ g.resolution # "open" =>
    \A m \in Minutes : Inside(m, g) => m \in bars \/ \E h \in OpenGaps(gaps) : Inside(m, h)
=============================================================================
