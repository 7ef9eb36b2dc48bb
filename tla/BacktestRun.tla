----------------------------- MODULE BacktestRun ------------------------------
(* One backtest: a feed loaded from the corpus, the event loop with its queue  *)
(* and clock, a session that submits orders to the simulated venue, and the    *)
(* recording of what the venue said, served back to a second run              *)
(* (backtest/_engine, _queue, _clock, feed, venue/_replay).                    *)
EXTENDS SimulatedVenue

CONSTANTS Tapes,         \* sequences of bars, one per interval
          OrderShapes,   \* what a session may submit
          Interval, WarmUpBars, EndAt,
          EventBudget,
          MaxOrders      \* bound on orders per run

ASSUME RunAssumption ==
  /\ Interval \in Nat \ {0} /\ WarmUpBars \in Nat /\ EndAt \in Nat
  /\ Tapes \subseteq Seq([low : Int, high : Int, last : Int, volume : Nat])

VARIABLES phase,      \* "loading", "simulated", "replayed", "refused", "failed", "done"
          tape, stored,     \* the bars there are, and those the corpus holds
          charged,          \* trials charged to the specification
          simNow, queue, nextSeq, entries, beyond,
          venue,            \* the simulated venue, or what the replay has served
          decisions,        \* bar number -> order, or none
          recording,        \* client order id -> response
          delivered,        \* fills and rejects dispatched in this run
          original          \* what the simulated run delivered (history)

runVars == <<phase, tape, stored, charged, simNow, queue, nextSeq, entries, beyond, venue,
             decisions, recording, delivered, original>>

\* A bar: low, high, last, volume; bar n closes at n * Interval.
CloseOf(n) == n * Interval
BarAt(n) == [kind |-> "bar", n |-> n, close |-> CloseOf(n), low |-> tape[n].low, high |-> tape[n].high,
             last |-> tape[n].last, volume |-> tape[n].volume]

------------------------------------------------------------------------------
\* gaps_against: the runs of lattice points the corpus does not hold.
Lattice == 1 .. Len(tape)
Gaps == {g \in Lattice \X Lattice :
           /\ g[1] <= g[2] /\ (g[1] .. g[2]) \cap stored = {}
           /\ g[1] - 1 \in stored \cup {0} /\ g[2] + 1 \in stored \cup {Len(tape) + 1}}
IsServable == Gaps = {}

Priority(e) == IF e.kind = "bar" THEN 0 ELSE 2
InOrder(a, b) ==
  /\ a.at <= b.at
  /\ (a.at = b.at => a.priority <= b.priority)
  /\ (a.at = b.at /\ a.priority = b.priority => a.seq < b.seq)

EarliestEvent(e, q) == e \in q /\ \A f \in q \ {e} : InOrder(e, f)

\* What does not lie beyond the end of the replay is queued, numbered in the order scheduled.
InsideReplay(events) == {n \in DOMAIN events : events[n].at <= EndAt}
Queued(events, from) ==
  {[at |-> events[n].at, priority |-> Priority(events[n]), event |-> events[n],
    seq |-> from + Cardinality({m \in InsideReplay(events) : m < n})] : n \in InsideReplay(events)}

\* schedule: nothing before the instant being dispatched, nothing after the end.
Schedule(rest, events) ==
  IF \A n \in DOMAIN events : simNow' <= events[n].at
  THEN /\ queue' = rest \cup Queued(events, nextSeq)
       /\ nextSeq' = nextSeq + Cardinality(InsideReplay(events))
       /\ beyond' = beyond + Len(events) - Cardinality(InsideReplay(events))
       /\ UNCHANGED phase
  ELSE /\ phase' = "failed" /\ queue' = {} /\ UNCHANGED <<nextSeq, beyond>>

FeedEvents == [n \in Lattice |-> [kind |-> "bar", n |-> n, at |-> CloseOf(n)]]
Started(v) ==
  /\ simNow' = 0 /\ entries' = 0 /\ delivered' = {} /\ venue' = v
  /\ queue' = Queued(FeedEvents, 0) /\ nextSeq' = Cardinality(InsideReplay(FeedEvents))
  /\ beyond' = Len(tape) - Cardinality(InsideReplay(FeedEvents))

RunInit ==
  /\ phase = "loading" /\ tape \in Tapes /\ charged \in {0, 1}
  /\ \E lost \in {{}} \cup {{n} : n \in Lattice} : stored = Lattice \ lost
  /\ simNow = 0 /\ queue = {} /\ nextSeq = 0 /\ entries = 0 /\ beyond = 0
  /\ venue = EmptyVenue /\ decisions = [n \in Lattice |-> <<>>]
  /\ recording = {} /\ delivered = {} /\ original = {}

\* run refuses a specification no trial was charged for; load refuses a window
\* with a gap.
StartBacktest ==
  /\ phase = "loading"
  /\ IF charged = 0 \/ ~IsServable
     THEN phase' = "refused" /\ UNCHANGED <<simNow, queue, nextSeq, entries, beyond, venue, delivered>>
     ELSE phase' = "simulated" /\ Started(EmptyVenue)
  /\ UNCHANGED <<tape, stored, charged, decisions, recording, original>>

------------------------------------------------------------------------------
\* The recorder: one response per client order id.
Answered(response, e) ==
  CASE e.kind = "ack"    -> [response EXCEPT !.ackedAt = e.at]
    [] e.kind = "reject" -> [response EXCEPT !.refusal = [at |-> e.at, reason |-> e.reason]]
    [] e.kind = "fill"   -> [response EXCEPT !.fills = @ \cup {e.fill}]
NoResponse(o) == [order |-> o.id, ackedAt |-> -1, refusal |-> [at |-> -1, reason |-> "none"], fills |-> {}]
OrderIn(e) == IF e.kind = "fill" THEN e.fill.order ELSE e.order.id
RecordAnswers(rec, events) ==
  {FoldLeft(LAMBDA r, e : IF OrderIn(e) = r.order THEN Answered(r, e) ELSE r, response, events) :
     response \in rec}

\* ReplayVenue: what it serves is read off the recording.
ResponseFor(id) == CHOOSE r \in recording : r.order = id
ReplaySubmit(v, o) ==
  LET r == ResponseFor(o.id)
  IN  IF r.ackedAt = -1
      THEN [venue |-> v, events |-> <<[kind |-> "reject", order |-> o, at |-> r.refusal.at,
                                       reason |-> r.refusal.reason]>>]
      ELSE [venue |-> [v EXCEPT !.pending = @ \cup {o}],
            events |-> <<[kind |-> "ack", order |-> o, at |-> r.ackedAt]>>]
Served(fills) ==
  LET inTradeOrder(f, g) == f.order < g.order \/ (f.order = g.order /\ f.n < g.n)
      sorted == SetToSortSeq(fills, inTradeOrder)
  IN  [n \in DOMAIN sorted |-> [kind |-> "fill", fill |-> sorted[n], at |-> sorted[n].at]]
ReplayBar(v, bar) ==
  [venue  |-> v,
   events |-> Served({f \in UNION {ResponseFor(o.id).fills : o \in v.pending} :
                        f.passive /\ f.at = bar.close})]
ReplayAck(v, o) ==
  LET r == ResponseFor(o.id)
  IN  [venue  |-> v,
       events |-> Served({f \in r.fills : ~f.passive})
                  \o IF r.refusal.at = -1 THEN <<>>
                     ELSE <<[kind |-> "reject", order |-> o, at |-> r.refusal.at,
                             reason |-> r.refusal.reason]>>]

\* The venue of the run in progress.
Observing(v, bar) == IF phase = "simulated" THEN ObserveBar(v, bar) ELSE ReplayBar(v, bar)
Submitting(v, o)  == IF phase = "simulated" THEN Submit(v, o, simNow') ELSE ReplaySubmit(v, o)
Resolving(v, e)   == IF phase = "simulated" THEN ResolveAck(v, e.order, e.at) ELSE ReplayAck(v, e.order)

Recorded(rec, events) == IF phase = "simulated" THEN RecordAnswers(rec, events) ELSE rec

------------------------------------------------------------------------------
Running == phase \in {"simulated", "replayed"}
Ordered == {n \in Lattice : decisions[n] # <<>>}

\* One order of those a session may submit, numbered in the order it submits
\* them; rank is the place of its order id among the others'.
Numbered(shape) ==
  LET id == Cardinality(Ordered) + 1
  IN  [id |-> id, rank |-> MaxOrders - id, side |-> shape.side, type |-> shape.type, tif |-> shape.tif,
       size |-> shape.size, limit |-> shape.limit]

\* WarmupGate: a bar that closes before the exposed window is not acted on.
Exposed(n) == n > WarmUpBars
MayDecide(n) ==
  IF phase = "replayed" THEN {decisions[n]}
  ELSE {<<>>} \cup (IF Exposed(n) /\ Cardinality(Ordered) < MaxOrders
                    THEN {<<Numbered(s)>> : s \in OrderShapes} ELSE {})

\* The loop pops the earliest event, advances the clock and dispatches it.
Pop(e) ==
  /\ Running /\ queue # {} /\ entries < EventBudget
  /\ EarliestEvent(e, queue)
  /\ simNow' = e.at /\ entries' = entries + 1
  /\ UNCHANGED <<tape, stored, charged, original>>

DispatchBar ==
  \E e \in queue :
    /\ e.event.kind = "bar" /\ Pop(e)
    /\ LET bar      == BarAt(e.event.n)
           observed == Observing(venue, bar)
           recorded == Recorded(recording, observed.events)
       IN  \E d \in MayDecide(e.event.n) :
             /\ decisions' = [decisions EXCEPT ![e.event.n] = d]
             /\ IF d = <<>>
                THEN /\ venue' = observed.venue /\ recording' = recorded
                     /\ Schedule(queue \ {e}, observed.events)
                ELSE LET answer == Submitting(observed.venue, d[1])
                     IN  /\ venue' = answer.venue
                         /\ recording' = IF phase = "replayed" THEN recorded
                                         ELSE Recorded(recorded \cup {NoResponse(d[1])}, answer.events)
                         /\ Schedule(queue \ {e}, observed.events \o answer.events)
    /\ UNCHANGED delivered

DispatchAck ==
  \E e \in queue :
    /\ e.event.kind = "ack" /\ Pop(e)
    /\ LET resolved == Resolving(venue, e.event)
       IN  /\ venue' = resolved.venue
           /\ recording' = Recorded(recording, resolved.events)
           /\ Schedule(queue \ {e}, resolved.events)
    /\ UNCHANGED <<decisions, delivered>>

DispatchOutcome ==
  \E e \in queue :
    /\ e.event.kind \in {"fill", "reject"} /\ Pop(e)
    /\ delivered' = delivered \cup {IF e.event.kind = "fill" THEN e.event.fill
                                    ELSE [order |-> e.event.order.id, reason |-> e.event.reason]}
    /\ Schedule(queue \ {e}, <<>>)
    /\ UNCHANGED <<decisions, venue, recording>>

\* The queue is empty: the run completed; the recording is replayed.
CompleteRun ==
  /\ Running /\ queue = {}
  /\ IF phase = "simulated"
     THEN phase' = "replayed" /\ original' = delivered /\ Started(EmptyVenue)
     ELSE /\ phase' = "done"
          /\ UNCHANGED <<simNow, queue, nextSeq, entries, beyond, venue, delivered, original>>
  /\ UNCHANGED <<tape, stored, charged, decisions, recording>>

\* The event budget ran out with events still queued: the run failed.
ExhaustBudget ==
  /\ Running /\ queue # {} /\ entries >= EventBudget
  /\ phase' = "failed" /\ queue' = {}
  /\ UNCHANGED <<tape, stored, charged, simNow, nextSeq, entries, beyond, venue, decisions,
                 recording, delivered, original>>

RunNext == StartBacktest \/ DispatchBar \/ DispatchAck \/ DispatchOutcome \/ CompleteRun \/ ExhaustBudget

RunSpec == RunInit /\ [][RunNext]_runVars

------------------------------------------------------------------------------
\* Type invariant.
RunTyped ==
  /\ phase \in {"loading", "simulated", "replayed", "refused", "failed", "done"}
  /\ (\A e \in queue : e.seq < nextSeq /\ e.at <= EndAt) /\ entries <= EventBudget
  /\ Cardinality({e.seq : e \in queue}) = Cardinality(queue)
  /\ \A n \in Lattice : decisions[n] # <<>> => Exposed(n)

OrderOfDay(n) == decisions[n][1]
PrintsOf(o) == {p \in venue.prints : p.order = o.id}
TotalPrinted(o) == FoldSet(LAMBDA p, sum : sum + p.size, 0, PrintsOf(o))
ClosesUpTo(t) == {CloseOf(n) : n \in {m \in Lattice : CloseOf(m) <= t}}

\* No event is ever dispatched before its cause, and no print uses a bar that
\* closed after it: a crossing order is priced on the last bar closed when it
\* was acknowledged, after the whole latency; a resting one only on a bar that
\* closed after it was acknowledged.  Nothing runs on a corpus with a hole or
\* a specification no trial was charged for.
NoLookAhead ==
  /\ \A e \in queue : simNow <= e.at
  /\ phase \in {"simulated", "replayed", "done"} => charged > 0 /\ stored = Lattice
  /\ phase = "simulated" => \A n \in Ordered : LET ack == AckAt(CloseOf(n)) IN
       \A p \in PrintsOf(OrderOfDay(n)) :
         IF p.passive THEN p.at > ack /\ p.pricedOn = p.at
         ELSE p.at >= ack + Latency.fill /\ p.pricedOn = Max(ClosesUpTo(ack))

\* An order is never filled beyond its size, is accounted for in one place, and
\* what it got while resting is volume that traded at its limit or better after
\* the queue it joined.
FillsEarned ==
  phase = "simulated" => \A n \in Ordered :
    LET o        == OrderOfDay(n)
        resting  == {r \in venue.resting : r.order = o}
        refused  == {k \in DOMAIN venue.refusals : venue.refusals[k].order = o.id}
        passive  == {p \in PrintsOf(o) : p.passive}
        traded   == FoldSet(LAMBDA m, sum : sum + VolumeAtOrBeyond(BarAt(m), o), 0,
                            {m \in Lattice : CloseOf(m) <= simNow /\ CloseOf(m) > AckAt(CloseOf(n))})
    IN  /\ TotalPrinted(o) <= o.size
        /\ Cardinality({p.n : p \in PrintsOf(o)}) = Cardinality(PrintsOf(o))
        /\ (IF o \in venue.pending THEN 1 ELSE 0) + Cardinality(resting) + Cardinality(refused)
             + (IF TotalPrinted(o) = o.size THEN 1 ELSE 0) = 1
        /\ passive # {} => TotalPrinted(o) + Depth.touch <= traded
        /\ \A p \in PrintsOf(o) : LET bar == BarAt(p.pricedOn \div Interval) IN
             /\ bar.low <= p.price /\ p.price <= bar.high
             /\ p.passive => IF o.side = "BUY" THEN p.price <= o.limit ELSE p.price >= o.limit

\* A run served from its own recording delivers the fills and refusals of the
\* original, whatever order the venue printed them in.
ReplayAgrees ==
  /\ phase = "done" => delivered = original
  /\ phase = "failed" => entries = EventBudget

RunIsHonest == NoLookAhead /\ FillsEarned /\ ReplayAgrees
=============================================================================
