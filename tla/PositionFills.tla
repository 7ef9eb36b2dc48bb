---------------------------- MODULE PositionFills ----------------------------
(* A portfolio of positions built from fills (domain/position, domain/order,  *)
(* domain/portfolio).  The venue executes orders; its fills are delivered any *)
(* number of times and in any order.  Prices are multiples of a unit that     *)
(* every average of a few fills divides.                                      *)
EXTENDS Integers, FiniteSets, FiniteSetsExt

CONSTANTS Held,       \* the instruments of the portfolio
          Sizes,      \* signed base quantities of a fill
          Prices, Fees,
          MaxFills    \* bound on fills executed

ASSUME FillsAssumption == Prices \subseteq Nat \ {0} /\ Fees \subseteq Nat /\ 0 \notin Sizes

VARIABLES positions, executed, crossings   \* crossings: ids of fills that crossed flat

fillVars == <<positions, executed, crossings>>

Abs(q) == IF q < 0 THEN -q ELSE q
Sign(q) == IF q > 0 THEN 1 ELSE -1

FlatPosition == [quantity |-> 0, average |-> 0, realised |-> 0, fees |-> 0, opened |-> 0, applied |-> {}]

\* _opened: the average moves, nothing is realised.
Opened(p, f) ==
  [p EXCEPT !.quantity = @ + f.quantity,
            !.average = (Abs(p.quantity) * @ + Abs(f.quantity) * f.price) \div Abs(p.quantity + f.quantity),
            !.fees = @ + f.fee,
            !.opened = IF @ = 0 THEN f.at ELSE @,
            !.applied = @ \cup {f.id}]

Crosses(p, f) == Abs(f.quantity) > Abs(p.quantity)

\* _reduced: what is closed is realised at the old entry; what is left of a
\* fill that crosses flat is a new position at the fill's price.
Reduced(p, f) ==
  LET closed == Min({Abs(f.quantity), Abs(p.quantity)})
      flat   == p.quantity + f.quantity = 0
  IN  [p EXCEPT !.quantity = @ + f.quantity,
                !.average = IF Crosses(p, f) THEN f.price ELSE IF flat THEN 0 ELSE @,
                !.realised = @ + closed * (f.price - p.average) * Sign(p.quantity),
                !.fees = @ + f.fee,
                !.opened = IF flat THEN 0 ELSE IF Crosses(p, f) THEN f.at ELSE @,
                !.applied = @ \cup {f.id}]

Opens(p, f) == p.quantity = 0 \/ Sign(p.quantity) = Sign(f.quantity)

\* with_fill: a fill already applied changes nothing.
WithFill(p, f) ==
  IF f.id \in p.applied THEN p ELSE IF Opens(p, f) THEN Opened(p, f) ELSE Reduced(p, f)

FillsInit ==
  positions = [i \in Held |-> FlatPosition] /\ executed = {} /\ crossings = {}

\* The venue executes an order, or a part of one.
Execute ==
  /\ Cardinality(executed) < MaxFills
  /\ \E i \in Held, q \in Sizes, price \in Prices, fee \in Fees :
       executed' = executed \cup {[id |-> Cardinality(executed) + 1, instrument |-> i, quantity |-> q,
                                   price |-> price, fee |-> fee, at |-> Cardinality(executed) + 1]}
  /\ UNCHANGED <<positions, crossings>>

\* A fill is delivered, for the first time or again: with_position(with_fill).
Deliver ==
  \E f \in executed :
    LET p == positions[f.instrument]
    IN  /\ positions' = [positions EXCEPT ![f.instrument] = WithFill(p, f)]
        /\ crossings' = IF f.id \notin p.applied /\ ~Opens(p, f) /\ Crosses(p, f)
                        THEN crossings \cup {f.id} ELSE crossings
        /\ UNCHANGED executed

FillsNext == Execute \/ Deliver

\* Every position is valid: only an open one has an entry price and an open time.
FillsTyped ==
  \A i \in Held : LET p == positions[i] IN
    /\ p.quantity = 0 <=> p.average = 0
    /\ p.quantity = 0 <=> p.opened = 0
    /\ p.fees >= 0 /\ p.applied \subseteq {f.id : f \in executed}

SumOf(S, f(_)) == FoldSet(LAMBDA x, sum : sum + f(x), 0, S)

\* A position is what its fills come to, each counted once however often and in
\* whatever order it was delivered: the quantity, the fees, and the cash: what
\* was realised and what the open quantity cost add up to what was paid.  The
\* open time is that of a fill on the side of the position.
PositionIsItsFills ==
  \A i \in Held :
    LET p    == positions[i]
        mine == {f \in executed : f.instrument = i /\ f.id \in p.applied}
    IN  /\ p.quantity = SumOf(mine, LAMBDA f : f.quantity)
        /\ p.fees = SumOf(mine, LAMBDA f : f.fee)
        /\ p.realised - p.quantity * p.average = -SumOf(mine, LAMBDA f : f.quantity * f.price)
        /\ p.opened # 0 =>
             \E f \in mine : f.at = p.opened /\ Sign(f.quantity) = Sign(p.quantity)
        /\ p.quantity # 0 /\ (\A f \in mine : Sign(f.quantity) = Sign(p.quantity))
             => crossings \cap {f.id : f \in mine} = {}
=============================================================================
