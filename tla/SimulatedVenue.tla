---------------------------- MODULE SimulatedVenue ----------------------------
(* The fill simulator (backtest/venue/_simulation, _resting, _filters, _book,  *)
(* costs/_depth, costs/_latency) as a value and the functions that change it:  *)
(* a closed bar is observed, an order is submitted, its ack is resolved.       *)
(* Prices and sizes are whole ticks and lots; times are whole instants.        *)
EXTENDS Integers, Sequences, SequencesExt, FiniteSets, FiniteSetsExt

CONSTANTS Latency,      \* send, ack, fill: the three stages
          FillGap,      \* between the two prints of one walk
          RateBudget, RateWindow,
          Depth,        \* touch and band: quantity at the touch, within one percent
          BandTicks,    \* one percent of the price
          HalfSpread,
          Filters       \* lot, least size, least notional, price band around the mid

ASSUME VenueSimulationAssumption ==
  /\ {Latency.send, Latency.ack, Latency.fill, FillGap} \subseteq Nat
  /\ RateBudget \in Nat \ {0} /\ RateWindow \in Nat \ {0}
  /\ Depth.touch \in Nat \ {0} /\ Depth.band >= Depth.touch

NoQuote == [asOf |-> -1]
EmptyVenue == [quote |-> NoQuote, resting |-> {}, pending |-> {}, recent |-> <<>>,
               prints |-> {}, refusals |-> <<>>]

\* quote_from_bar: the modelled touch around the close.
QuoteFrom(bar) ==
  [asOf |-> bar.close, bid |-> bar.last - HalfSpread, ask |-> bar.last + HalfSpread,
   low |-> bar.low, high |-> bar.high]
TouchFor(q, side) == IF side = "BUY" THEN q.ask ELSE q.bid
ClampIntoRange(q, price) == Max({q.low, Min({q.high, price})})

AckAt(decided) == decided + Latency.send + Latency.ack

------------------------------------------------------------------------------
\* screen_order, behind the order-rate budget; "none" when nothing objects.
Screened(v, o, recent) ==
  LET mid == (v.quote.bid + v.quote.ask) \div 2
      at  == IF o.type = "LIMIT" THEN o.limit ELSE mid
  IN  IF Len(recent) >= RateBudget THEN "order_rate_budget"
      ELSE IF o.type = "LIMIT" /\ (o.limit < mid - Filters.priceBand \/ o.limit > mid + Filters.priceBand)
      THEN "percent_price"
      ELSE IF o.size < Filters.least \/ o.size % Filters.lot # 0 THEN "lot_size"
      ELSE IF o.size * at < Filters.notional THEN "min_notional"
      ELSE "none"

Refuse(v, o, at, reason) ==
  [venue |-> [v EXCEPT !.refusals = Append(@, [order |-> o.id, reason |-> reason])],
   events |-> <<[kind |-> "reject", order |-> o, at |-> at, reason |-> reason]>>]

\* _within_order_rate_budget: the arrivals the window still holds.
Recent(sent, arrives) == SelectSeq(sent, LAMBDA at : at > arrives - RateWindow)

\* submit: screened at arrival; what is refused by a filter has used the budget.
Submit(v, o, decided) ==
  LET arrives == decided + Latency.send
      recent  == Recent(v.recent, arrives)
      reason  == Screened(v, o, recent)
      met     == [v EXCEPT !.recent = IF Len(recent) < RateBudget THEN Append(recent, arrives) ELSE recent]
  IN  IF reason # "none" THEN Refuse(met, o, AckAt(decided), reason)
      ELSE [venue |-> [met EXCEPT !.pending = @ \cup {o}],
            events |-> <<[kind |-> "ack", order |-> o, at |-> AckAt(decided)]>>]

FillOf(v, o, n, at, price, size, passive) ==
  [order |-> o.id, n |-> n, at |-> at, price |-> price, size |-> size, passive |-> passive,
   pricedOn |-> v.quote.asOf]
Announced(fills) == [n \in DOMAIN fills |-> [kind |-> "fill", fill |-> fills[n], at |-> fills[n].at]]

------------------------------------------------------------------------------
Marketable(v, o) ==
  o.type = "MARKET" \/ (IF o.side = "BUY" THEN o.limit >= v.quote.ask ELSE o.limit <= v.quote.bid)

\* _cross with walk_depth: one print at the touch, one for the rest at the
\* average price of the band it walks into; nothing beyond the band.
Cross(v, o, at) ==
  LET touch  == TouchFor(v.quote, o.side)
      front  == Min({o.size, Depth.touch})
      beyond == o.size - front
      walked == (BandTicks * beyond) \div (2 * (Depth.band - Depth.touch))
      worse  == IF o.side = "BUY" THEN touch + walked ELSE touch - walked
      first  == FillOf(v, o, 0, at, ClampIntoRange(v.quote, touch), front, FALSE)
      second == FillOf(v, o, 1, at + FillGap, ClampIntoRange(v.quote, worse), beyond, FALSE)
  IN  IF o.size > Depth.band THEN Refuse(v, o, at, "unfillable_depth")
      ELSE IF beyond = 0 THEN [venue |-> [v EXCEPT !.prints = @ \cup {first}], events |-> Announced(<<first>>)]
      ELSE [venue |-> [v EXCEPT !.prints = @ \cup {first, second}], events |-> Announced(<<first, second>>)]

\* resolve_ack: against the book as it is now; what does not cross rests at
\* the back of the touch, unless it may not wait.
ResolveAck(v, o, ackedAt) ==
  LET held == [v EXCEPT !.pending = @ \ {o}]
      at   == ackedAt + Latency.fill
  IN  IF Marketable(v, o) THEN Cross(held, o, at)
      ELSE IF o.tif # "GTC" THEN Refuse(held, o, at, "unfillable_depth")
      ELSE [venue |-> [held EXCEPT !.resting = @ \cup
                         {[order |-> o, ahead |-> Depth.touch, left |-> o.size, count |-> 0]}],
            events |-> <<>>]

\* volume_at_or_beyond: the share of the bar's range at the limit or better.
VolumeAtOrBeyond(bar, o) ==
  LET span    == bar.high - bar.low
      reached == IF o.side = "BUY" THEN bar.low <= o.limit ELSE bar.high >= o.limit
      inside  == IF o.side = "BUY" THEN o.limit - bar.low ELSE bar.high - o.limit
  IN  IF ~reached THEN 0 ELSE IF span = 0 THEN bar.volume
      ELSE (bar.volume * Min({inside, span})) \div span

RestingPrice(bar, o) == IF o.side = "BUY" THEN Min({o.limit, bar.high}) ELSE Max({o.limit, bar.low})

\* Mutation of Consume: the queue ahead is worked off by every bar anew.
Consume_QueueKept(r, bar) ==
  LET volume == VolumeAtOrBeyond(bar, r.order)
      filled == Min({Max({volume - r.ahead + Depth.touch, 0}), r.left})
  IN  IF filled <= 0 THEN [rest |-> r, filled |-> 0]
      ELSE [rest |-> [r EXCEPT !.ahead = 0, !.left = @ - filled, !.count = @ + 1], filled |-> filled]

\* consume: first the quantity ahead, then the order, in whole lots.
Consume(r, bar) ==
  LET volume  == VolumeAtOrBeyond(bar, r.order)
      surplus == Min({volume - r.ahead, r.left})
      filled  == Filters.lot * (surplus \div Filters.lot)
  IN  IF volume <= r.ahead THEN [rest |-> [r EXCEPT !.ahead = @ - volume], filled |-> 0]
      ELSE IF filled = 0 THEN [rest |-> [r EXCEPT !.ahead = 0], filled |-> 0]
      ELSE [rest |-> [r EXCEPT !.ahead = 0, !.left = @ - filled, !.count = @ + 1], filled |-> filled]

\* observe: a closed bar renews the quote and pays the queue, in the order of
\* the order ids.
InIdOrder(paid) ==
  LET before(p) == {q \in paid : q.was.order.rank < p.was.order.rank}
  IN  [n \in 1 .. Cardinality(paid) |-> CHOOSE p \in paid : Cardinality(before(p)) = n - 1]
PrintOf(v, bar, p) ==
  FillOf(v, p.was.order, p.now.rest.count, bar.close, RestingPrice(bar, p.was.order), p.now.filled, TRUE)
ObserveBar(v, bar) ==
  LET quoted == [v EXCEPT !.quote = QuoteFrom(bar)]
      paid   == {[was |-> r, now |-> Consume(r, bar)] : r \in v.resting}
      filled == {p \in paid : p.now.filled > 0}
      inTurn == InIdOrder(filled)
  IN  [venue  |-> [quoted EXCEPT !.resting = {p.now.rest : p \in {x \in paid : x.now.rest.left > 0}},
                                 !.prints = @ \cup {PrintOf(quoted, bar, p) : p \in filled}],
       events |-> Announced([n \in DOMAIN inTurn |-> PrintOf(quoted, bar, inTurn[n])])]
=============================================================================
