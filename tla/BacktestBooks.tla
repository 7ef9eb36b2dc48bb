----------------------------- MODULE BacktestBooks -----------------------------
(* The books of a backtest (backtest/portfolio/_state): cash, positions built  *)
(* from the fills of PositionFills, funding settled on what is held at the     *)
(* settlement's instant, and limit breaches, all advanced in time order and    *)
(* fed at least once.  A funding rate is an integer, a fraction of the mark.   *)
EXTENDS PositionFills

CONSTANTS StartingCash, FundingRates,
          MaxBooked, MaxSettlements   \* bounds on the fills of a run and on its settlements

ASSUME BooksAssumption ==
  /\ StartingCash \in Nat \ {0} /\ FundingRates \subseteq Int
  /\ MaxBooked \in 0..MaxFills /\ MaxSettlements \in Nat

VARIABLES books,     \* PortfolioState
          settled    \* history: each settlement with the fills booked before it

bookVars == <<books, settled>>

\* PortfolioState.opening
Opening == [asOf |-> 0, cash |-> StartingCash, held |-> [i \in Held |-> FlatPosition],
            fills |-> {}, fundings |-> {}, paid |-> 0, breaches |-> 0]
BooksInit == books = Opening /\ settled = {}

Instants == 0..MaxBooked

\* _advanced_to: the books cannot be advanced backwards.
AdvancedTo(instant) == books.asOf <= instant

\* with_fill: a repeat changes nothing, one that is late is refused.
BookFill(f) ==
  /\ f.id \notin books.fills /\ AdvancedTo(f.at)
  /\ books' = [books EXCEPT !.asOf = f.at, !.cash = @ - f.quantity * f.price - f.fee,
                            !.held[f.instrument] = WithFill(@, f), !.fills = @ \cup {f.id}]
  /\ UNCHANGED <<settled, fillVars>>

\* with_funding: settled once per instrument and instant, on the quantity held now.
SettleFunding(i, instant, rate, mark) ==
  /\ Cardinality(settled) < MaxSettlements /\ <<i, instant>> \notin books.fundings /\ AdvancedTo(instant)
  /\ LET payment == books.held[i].quantity * mark * rate
     IN /\ books' = [books EXCEPT !.asOf = instant, !.cash = @ - payment, !.paid = @ + payment,
                                  !.fundings = @ \cup {<<i, instant>>}]
        /\ settled' = settled \cup {[of |-> i, at |-> instant, payment |-> payment, perUnit |-> mark * rate,
                                     booked |-> books.fills]}
  /\ UNCHANGED fillVars

\* with_risk_limit_breach
RecordBreach(instant) ==
  /\ AdvancedTo(instant) /\ books.breaches = 0
  /\ books' = [books EXCEPT !.asOf = instant, !.breaches = @ + 1]
  /\ UNCHANGED <<settled, fillVars>>

BooksNext ==
  \/ Cardinality(executed) < MaxBooked /\ Execute /\ UNCHANGED bookVars
  \/ \E f \in executed : BookFill(f)
  \/ \E i \in Held, instant \in Instants, rate \in FundingRates, mark \in Prices : SettleFunding(i, instant, rate, mark)
  \/ \E instant \in Instants : RecordBreach(instant)

\* Type invariant.
BooksTyped ==
  /\ books.asOf \in Instants /\ books.fills \subseteq {f.id : f \in executed}
  /\ books.fundings \subseteq Held \X Instants /\ books.breaches \in {0, 1}

Booked == {f \in executed : f.id \in books.fills}
EquityAt(marks) == books.cash + SumOf(Held, LAMBDA i : books.held[i].quantity * marks[i])

\* The books say one thing twice (PortfolioState, realised_pnl_usd, fee_paid_usd, equity_usd):
\* at any marks the equity is the opening cash, what was realised and what is unrealised over
\* the entry prices, less fees and funding.  And funding was charged on the position of its
\* instant: on every booked fill stamped earlier and on none stamped later, in whatever order
\* fills, settlements and breaches reached the books.
BooksBalance ==
  /\ \A marks \in [Held -> Prices] :
       EquityAt(marks) = StartingCash - books.paid
         + SumOf(Held, LAMBDA i : LET p == books.held[i]
                                  IN p.realised - p.fees + p.quantity * (marks[i] - p.average))
  /\ \A s \in settled :
       LET mine == {f \in Booked : f.instrument = s.of}
       IN /\ {f \in mine : f.at < s.at} \subseteq {f \in mine : f.id \in s.booked}
          /\ \A f \in mine : f.id \in s.booked => f.at <= s.at
          /\ s.payment = s.perUnit * SumOf({f \in mine : f.id \in s.booked}, LAMBDA f : f.quantity)
  /\ books.paid = SumOf(settled, LAMBDA s : s.payment)
=============================================================================
