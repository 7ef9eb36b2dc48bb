----------------------------- MODULE DeskProofs -----------------------------
(***************************************************************************)
(* That the callers of one venue keep inside its budgets together, for     *)
(* every number of callers, calls in flight and header a venue may send;   *)
(* that the drawdown monitor forgets no loss, for every sequence of        *)
(* samples, saves and restarts; and that the desk books to the strategies  *)
(* what it sends and keeps the book inside the mandate, for every policy,  *)
(* universe, batch and fill.                                               *)
(***************************************************************************)
EXTENDS VenueCalls, DrawdownMonitor, RiskDesk, FiniteSetTheorems, NaturalsInduction, WellFoundedInduction, TLAPS

-----------------------------------------------------------------------------
(* Numbers: induction is by the least counterexample.                      *)
LEMMA LeastExists ==
  ASSUME NEW S \in SUBSET Nat, S # {}
  PROVE  \E x \in S : \A y \in S : x <= y
<1>1. PICK x \in S : \A y \in S : ~(<<y, x>> \in OpToRel(<, Nat))
  BY NatLessThanWellFounded, WFMin
<1>2. \A y \in S : ~(y < x)
  BY <1>1 DEF OpToRel
<1> QED BY <1>2

-----------------------------------------------------------------------------
(* The running total of a sequence of charges, and its two equations.      *)
Charge == [at : Nat, weight : Nat]
Counted(c, from) == IF c.at >= from THEN c.weight ELSE 0

Running(cs, from) ==
  LET sum[n \in 0 .. Len(cs)] ==
        IF n = 0 THEN 0 ELSE sum[n - 1] + (IF cs[n].at >= from THEN cs[n].weight ELSE 0)
  IN  sum

LEMMA TotalIsLast ==
  ASSUME NEW cs, NEW from
  PROVE  TotalSince(cs, from) = Running(cs, from)[Len(cs)]
BY DEF TotalSince, Running

LEMMA CountedTyped ==
  ASSUME NEW c \in Charge, NEW from \in Int
  PROVE  Counted(c, from) \in Nat /\ Counted(c, from) <= c.weight
BY DEF Counted, Charge

LEMMA RunningSteps ==
  ASSUME NEW cs \in Seq(Charge), NEW from \in Int
  PROVE  /\ Running(cs, from) \in [0 .. Len(cs) -> Nat]
         /\ Running(cs, from)[0] = 0
         /\ \A n \in 1 .. Len(cs) :
              Running(cs, from)[n] = Running(cs, from)[n - 1] + Counted(cs[n], from)
<1> DEFINE L == Len(cs)
           w(n) == Counted(cs[n], from)
           Sums(N, g) == /\ g \in [0 .. N -> Nat] /\ g[0] = 0
                         /\ \A n \in 1 .. N : g[n] = g[n - 1] + w(n)
           Bad == {N \in 0 .. L : ~\E g : Sums(N, g)}
<1>1. L \in Nat
  OBVIOUS
<1>2. \A n \in 1 .. L : w(n) \in Nat
  <2> TAKE n \in 1 .. L
  <2>1. cs[n] \in Charge
    OBVIOUS
  <2> QED BY <2>1, CountedTyped
<1> HIDE DEF L, w
<1>3. Bad = {}
  <2>1. SUFFICES ASSUME Bad # {} PROVE FALSE
    OBVIOUS
  <2>2. PICK N \in Bad : \A M \in Bad : N <= M
    <3>1. Bad \in SUBSET Nat
      BY <1>1
    <3> HIDE DEF Bad
    <3> QED BY <2>1, <3>1, LeastExists
  <2>3. N \in 0 .. L /\ ~\E g : Sums(N, g)
    BY <2>2
  <2>4. N # 0
    <3>1. SUFFICES ASSUME N = 0 PROVE FALSE
      OBVIOUS
    <3>2. Sums(0, [n \in 0 .. 0 |-> 0])
      OBVIOUS
    <3> QED BY <2>3, <3>1, <3>2
  <2>5. N - 1 \in 0 .. L /\ N - 1 \notin Bad
    <3>1. N \in Nat /\ N - 1 \in 0 .. L
      BY <1>1, <2>3, <2>4
    <3> HIDE DEF Bad
    <3>2. N - 1 \notin Bad
      BY <2>2, <3>1
    <3> QED BY <3>1, <3>2
  <2>6. PICK g : Sums(N - 1, g)
    BY <2>5
  <2> DEFINE h == [n \in 0 .. N |-> IF n = N THEN g[N - 1] + w(N) ELSE g[n]]
  <2>7. w(N) \in Nat /\ g[N - 1] \in Nat
    BY <1>2, <2>3, <2>4, <2>6
  <2>8. h \in [0 .. N -> Nat]
    BY <2>3, <2>4, <2>6, <2>7
  <2>9. h[0] = 0
    BY <2>3, <2>4, <2>6
  <2>10. ASSUME NEW n \in 1 .. N PROVE h[n] = h[n - 1] + w(n)
    <3>1. CASE n = N
      BY <2>3, <2>4, <3>1
    <3>2. CASE n # N
      BY <2>3, <2>4, <2>6, <3>2
    <3> QED BY <3>1, <3>2
  <2>11. Sums(N, h)
    <3> HIDE DEF h
    <3> QED BY <2>8, <2>9, <2>10
  <2> QED BY <2>3, <2>11
<1>4. PICK g : Sums(L, g)
  <2>1. L \in 0 .. L /\ L \notin Bad
    <3> HIDE DEF Bad
    <3> QED BY <1>1, <1>3
  <2> QED BY <2>1
<1> DEFINE Body(f) == [n \in 0 .. L |-> IF n = 0 THEN 0 ELSE f[n - 1] + w(n)]
<1>5. g = Body(g)
  <2>1. \A n \in 0 .. L : g[n] = Body(g)[n]
    BY <1>1, <1>4
  <2>2. g = [n \in 0 .. L |-> g[n]]
    BY <1>4
  <2> QED BY <2>1, <2>2
<1> DEFINE r == Running(cs, from)
<1>6. r = CHOOSE f : f = Body(f)
  BY DEF Running, Counted, L, w
<1>7. r = Body(r)
  <2> HIDE DEF Body, r
  <2> QED BY <1>5, <1>6
<1> HIDE DEF r
<1>8. r[0] = 0 /\ \A n \in 1 .. L : r[n] = r[n - 1] + w(n)
  BY <1>1, <1>7
<1>9. \A n \in 0 .. L : r[n] \in Nat
  <2> DEFINE Off == {n \in 0 .. L : r[n] \notin Nat}
  <2>1. SUFFICES ASSUME Off # {} PROVE FALSE
    OBVIOUS
  <2>2. PICK n \in Off : \A m \in Off : n <= m
    <3>1. Off \in SUBSET Nat
      BY <1>1
    <3> HIDE DEF Off
    <3> QED BY <2>1, <3>1, LeastExists
  <2>3. n # 0
    BY <1>8, <2>2
  <2>4. n - 1 \in 0 .. L /\ n - 1 \notin Off
    BY <1>1, <2>2, <2>3
  <2> QED BY <1>1, <1>2, <1>8, <2>2, <2>3, <2>4
<1>10. r \in [0 .. L -> Nat]
  BY <1>7, <1>9
<1> QED BY <1>8, <1>10 DEF r, L, w

(* What is charged before an instant adds nothing from it on, and a later  *)
(* instant counts less: the tail of a record bounds its total.             *)
LEMMA NothingEarlier ==
  ASSUME NEW cs \in Seq(Charge), NEW from \in Int, NEW s \in 0 .. Len(cs),
         \A n \in 1 .. s : cs[n].at < from
  PROVE  Running(cs, from)[s] = 0
<1> DEFINE r == Running(cs, from)
           Off == {n \in 0 .. s : r[n] # 0}
<1>1. /\ r \in [0 .. Len(cs) -> Nat] /\ r[0] = 0
      /\ \A n \in 1 .. Len(cs) : r[n] = r[n - 1] + Counted(cs[n], from)
  BY RunningSteps
<1>2. Len(cs) \in Nat /\ s \in Nat /\ s <= Len(cs)
  OBVIOUS
<1>3. ASSUME NEW n \in 1 .. s PROVE Counted(cs[n], from) = 0
  <2>1. cs[n] \in Charge /\ cs[n].at < from
    BY <1>2
  <2>2. cs[n].at \in Nat
    BY <2>1 DEF Charge
  <2>3. ~(cs[n].at >= from)
    BY <2>1, <2>2
  <2> QED BY <2>3 DEF Counted
<1> HIDE DEF r
<1>4. SUFFICES ASSUME Off # {} PROVE FALSE
  BY <1>2 DEF r
<1>5. PICK n \in Off : \A m \in Off : n <= m
  <2>1. Off \in SUBSET Nat
    BY <1>2
  <2> HIDE DEF Off
  <2> QED BY <1>4, <2>1, LeastExists
<1>6. n \in 1 .. s
  BY <1>1, <1>2, <1>5
<1>7. r[n - 1] = 0
  <2>1. n - 1 \notin Off /\ n - 1 \in 0 .. s
    <3> HIDE DEF Off
    <3> QED BY <1>2, <1>5, <1>6
  <2> QED BY <2>1
<1> QED BY <1>1, <1>2, <1>3, <1>5, <1>6, <1>7

LEMMA TailBounds ==
  ASSUME NEW A \in Seq(Charge), NEW B \in Seq(Charge), NEW s \in Nat,
         s + Len(B) <= Len(A), \A n \in 1 .. Len(B) : A[s + n] = B[n],
         NEW from \in Int, \A n \in 1 .. s : A[n].at < from
  PROVE  Running(A, from)[s + Len(B)] <= TotalSince(B, 0)
<1> DEFINE a == Running(A, from)
           b == Running(B, 0)
           Off == {n \in 0 .. Len(B) : ~(a[s + n] <= b[n])}
<1>1. /\ a \in [0 .. Len(A) -> Nat]
      /\ \A n \in 1 .. Len(A) : a[n] = a[n - 1] + Counted(A[n], from)
  BY RunningSteps
<1>2. /\ b \in [0 .. Len(B) -> Nat] /\ b[0] = 0
      /\ \A n \in 1 .. Len(B) : b[n] = b[n - 1] + Counted(B[n], 0)
  BY RunningSteps
<1>3. Len(A) \in Nat /\ Len(B) \in Nat
  OBVIOUS
<1>4. a[s] = 0
  <2>1. s \in 0 .. Len(A)
    BY <1>3
  <2> QED BY <2>1, NothingEarlier
<1>5. ASSUME NEW n \in 1 .. Len(B)
      PROVE  /\ Counted(A[s + n], from) \in Nat /\ Counted(B[n], 0) \in Nat
             /\ Counted(A[s + n], from) <= Counted(B[n], 0)
  <2>1. A[s + n] = B[n] /\ B[n] \in Charge
    BY <1>3
  <2>2. B[n].at \in Nat /\ B[n].weight \in Nat
    BY <2>1 DEF Charge
  <2>3. B[n].at >= 0
    BY <2>2
  <2> QED BY <2>1, <2>2, <2>3 DEF Counted
<1>6. TotalSince(B, 0) = b[Len(B)]
  BY TotalIsLast
<1> HIDE DEF a, b
<1>7. SUFFICES ASSUME Off # {} PROVE FALSE
  BY <1>3, <1>6 DEF a
<1>8. PICK n \in Off : \A m \in Off : n <= m
  <2>1. Off \in SUBSET Nat
    BY <1>3
  <2> HIDE DEF Off
  <2> QED BY <1>7, <2>1, LeastExists
<1>9. n \in 1 .. Len(B)
  BY <1>2, <1>3, <1>4, <1>8
<1>10. a[s + (n - 1)] <= b[n - 1]
  <2>1. n - 1 \notin Off /\ n - 1 \in 0 .. Len(B)
    <3> HIDE DEF Off
    <3> QED BY <1>3, <1>8, <1>9
  <2> QED BY <2>1
<1>11. a[s + n] = a[s + (n - 1)] + Counted(A[s + n], from)
  <2>1. s + n \in 1 .. Len(A) /\ s + (n - 1) = (s + n) - 1
    BY <1>3, <1>9
  <2> QED BY <1>1, <2>1
<1>12. a[s + (n - 1)] \in Nat /\ b[n - 1] \in Nat
  <2>1. s + (n - 1) \in 0 .. Len(A) /\ n - 1 \in 0 .. Len(B)
    BY <1>3, <1>9
  <2> QED BY <1>1, <1>2, <2>1
<1> QED BY <1>2, <1>5, <1>8, <1>9, <1>10, <1>11, <1>12, SMTT(30)

-----------------------------------------------------------------------------
(* What _expire drops is a head of stale entries.                          *)
LEMMA DropsHead ==
  ASSUME NEW T, NEW entries \in Seq(T), NEW stale \in SUBSET (1 .. Len(entries))
  PROVE  \E p \in 0 .. Len(entries) :
           /\ 1 .. p \subseteq stale
           /\ DropHead(entries, stale) \in Seq(T)
           /\ Len(DropHead(entries, stale)) = Len(entries) - p
           /\ \A n \in 1 .. Len(entries) - p : DropHead(entries, stale)[n] = entries[p + n]
<1> DEFINE L == Len(entries)
           Fresh == (1 .. L + 1) \ stale
<1>1. L \in Nat
  OBVIOUS
<1>2. PICK m \in Fresh : \A n \in Fresh : m <= n
  <2>1. Fresh \in SUBSET Nat /\ L + 1 \in Fresh
    BY <1>1
  <2> HIDE DEF Fresh
  <2> QED BY <2>1, LeastExists
<1>3. m \in 1 .. L + 1 /\ m \notin stale /\ 1 .. m - 1 \subseteq stale
  BY <1>1, <1>2
<1> DEFINE f == FirstFresh(entries, stale)
<1>4. f \in 1 .. L + 1 /\ 1 .. f - 1 \subseteq stale
  BY <1>3 DEF FirstFresh
<1> DEFINE kept == DropHead(entries, stale)
<1>5. kept = SubSeq(entries, f, L)
  BY DEF DropHead
<1> HIDE DEF f, kept
<1>6. kept \in Seq(T) /\ Len(kept) = L - (f - 1) /\ \A n \in 1 .. L - (f - 1) : kept[n] = entries[(f - 1) + n]
  BY <1>1, <1>4, <1>5
<1>7. f - 1 \in 0 .. L
  BY <1>1, <1>4
<1> QED BY <1>4, <1>6, <1>7 DEF kept, L

-----------------------------------------------------------------------------
(* The governor's two deques are tails of what was sent: every order of the *)
(* window has its slot, and only charges out of the window were dropped.    *)
SlotsKnown ==
  \E g \in [1 .. Len(orderSlots) -> 1 .. Len(sent)] :
    /\ \A n \in 1 .. Len(orderSlots) : orderSlots[n] = sent[g[n]].at
    /\ \A i \in 1 .. Len(sent) :
         sent[i].by \in Placing /\ sent[i].at > callNow - OrderWindow =>
           \E n \in 1 .. Len(orderSlots) : g[n] = i

ChargesKnown ==
  \E s \in 0 .. Len(sent) :
    /\ Len(charged) = Len(sent) - s
    /\ \A n \in 1 .. Len(charged) : charged[n] = ChargeOf(sent[s + n])
    /\ \A n \in 1 .. s : sent[n].at <= callNow - WeightWindow

CallsInv == CallsTypeOK /\ SlotsKnown /\ ChargesKnown /\ BudgetsHeld

USE VenueAssumption

LEMMA SentTyped ==
  ASSUME CallsTypeOK
  PROVE  /\ Len(sent) \in Nat /\ callNow \in Nat
         /\ \A i \in 1 .. Len(sent) : sent[i].by \in Callers /\ sent[i].at \in CallTimes /\ sent[i].at \in Nat
<1> DEFINE R == [by : Callers, at : CallTimes]
<1>1. sent \in Seq(R) /\ callNow \in CallTimes
  BY DEF CallsTypeOK
<1>2. \A r \in R : r.by \in Callers /\ r.at \in CallTimes
  OBVIOUS
<1> HIDE DEF R
<1>3. Len(sent) \in Nat /\ \A i \in 1 .. Len(sent) : sent[i] \in R
  BY <1>1
<1>4. CallTimes \subseteq Nat
  BY DEF CallTimes
<1> QED BY <1>1, <1>2, <1>3, <1>4

LEMMA CallsInitHolds == CallsInit => CallsInv
<1> SUFFICES ASSUME CallsInit PROVE CallsInv
  OBVIOUS
<1>1. /\ callNow = 0 /\ orderSlots = <<>> /\ charged = <<>> /\ sent = <<>>
      /\ Len(sent) = 0 /\ Len(orderSlots) = 0 /\ Len(charged) = 0
  BY DEF CallsInit
<1>2. CallsTypeOK
  <2>1. callNow \in CallTimes /\ refuseUntil \in Nat
    BY <1>1 DEF CallsInit, CallTimes
  <2>4. banned = FALSE /\ misread = FALSE
    BY DEF CallsInit
  <2>2. /\ orderSlots \in Seq(CallTimes) /\ Len(orderSlots) <= OrderRate
        /\ charged \in Seq([at : CallTimes, weight : Nat])
        /\ sent \in Seq([by : Callers, at : CallTimes]) /\ Len(sent) <= MaxCalls
    BY <1>1
  <2>3. observed = None /\ latest = None /\ body = None /\ stage = [k \in Callers |-> "idle"]
    BY DEF CallsInit
  <2> QED BY <2>1, <2>2, <2>3, <2>4 DEF CallsTypeOK
<1>3. SlotsKnown
  <2>1. PICK g : g = [n \in 1 .. Len(orderSlots) |-> 0]
    OBVIOUS
  <2>2. 1 .. Len(orderSlots) = {} /\ 1 .. Len(sent) = {}
    BY <1>1
  <2>3. g \in [1 .. Len(orderSlots) -> 1 .. Len(sent)]
    BY <2>1, <2>2
  <2> QED BY <2>2, <2>3 DEF SlotsKnown
<1>4. ChargesKnown
  BY <1>1 DEF ChargesKnown
<1>5. OrderRateHeld
  <2>1. SUFFICES ASSUME NEW t \in CallTimes
                 PROVE  Cardinality(SentWithin(Placing, t, t + OrderWindow - 1)) <= OrderRate
    BY DEF OrderRateHeld
  <2>2. SentWithin(Placing, t, t + OrderWindow - 1) = {}
    BY <1>1 DEF SentWithin
  <2> QED BY <2>2, FS_EmptySet
<1>6. ShareHeld
  BY <1>1 DEF ShareHeld
<1> QED BY <1>2, <1>3, <1>4, <1>5, <1>6 DEF CallsInv, BudgetsHeld

(* The histories matter to the invariant through the clock only.           *)
LEMMA BudgetsStand ==
  ASSUME CallsInv, CallsTypeOK', UNCHANGED <<orderSlots, charged, sent>>, callNow <= callNow'
  PROVE  CallsInv'
<1>1. callNow \in Nat /\ callNow' \in Nat
  BY DEF CallsInv, CallsTypeOK, CallTimes
<1>2. Len(sent) \in Nat /\ \A i \in 1 .. Len(sent) : sent[i].at \in Nat
  BY SentTyped DEF CallsInv
<1>3. SlotsKnown'
  <2>1. PICK g \in [1 .. Len(orderSlots) -> 1 .. Len(sent)] :
          /\ \A n \in 1 .. Len(orderSlots) : orderSlots[n] = sent[g[n]].at
          /\ \A i \in 1 .. Len(sent) :
               sent[i].by \in Placing /\ sent[i].at > callNow - OrderWindow =>
                 \E n \in 1 .. Len(orderSlots) : g[n] = i
    BY DEF CallsInv, SlotsKnown
  <2>2. \A i \in 1 .. Len(sent) :
          sent[i].at > callNow' - OrderWindow => sent[i].at > callNow - OrderWindow
    BY <1>1, <1>2
  <2> QED BY <2>1, <2>2 DEF SlotsKnown
<1>4. ChargesKnown'
  <2>1. PICK s \in 0 .. Len(sent) :
           /\ Len(charged) = Len(sent) - s
           /\ \A n \in 1 .. Len(charged) : charged[n] = ChargeOf(sent[s + n])
           /\ \A n \in 1 .. s : sent[n].at <= callNow - WeightWindow
    BY DEF CallsInv, ChargesKnown
  <2>2. \A n \in 1 .. s : sent[n].at <= callNow' - WeightWindow
    BY <1>1, <1>2, <2>1
  <2> QED BY <2>1, <2>2 DEF ChargesKnown, ChargeOf
<1>5. BudgetsHeld'
  BY DEF CallsInv, BudgetsHeld, OrderRateHeld, ShareHeld, SentWithin, ChargeOf
<1> QED BY <1>3, <1>4, <1>5 DEF CallsInv

LEMMA ObservedTyped ==
  ASSUME CallsTypeOK, ObserveResponse(latest)
  PROVE  /\ observed' \in {None} \cup [used : UsedWeights, at : CallTimes]
         /\ refuseUntil' \in Nat /\ banned' \in BOOLEAN
<1>1. CASE latest = None
  BY <1>1 DEF CallsTypeOK, ObserveResponse
<1>2. CASE latest # None
  <2>1. latest \in Metadata
    BY <1>2 DEF CallsTypeOK
  <2>2. latest.used \in {None} \cup UsedWeights /\ latest.retry \in {None} \cup RetryAfters
    BY <2>1 DEF Metadata
  <2>3. callNow \in CallTimes /\ callNow \in Nat
    BY DEF CallsTypeOK, CallTimes
  <2>4. observed' \in {None} \cup [used : UsedWeights, at : CallTimes]
    BY <1>2, <2>2, <2>3 DEF CallsTypeOK, ObserveResponse
  <2>5. refuseUntil' \in Nat
    BY <1>2, <2>2, <2>3, SMTT(30) DEF CallsTypeOK, ObserveResponse
  <2>6. banned' \in BOOLEAN
    BY <1>2 DEF CallsTypeOK, ObserveResponse
  <2> QED BY <2>4, <2>5, <2>6
<1> QED BY <1>1, <1>2

LEMMA CallClockKeeps == CallsInv /\ CallClock => CallsInv'
<1> SUFFICES ASSUME CallsInv, CallClock PROVE CallsInv'
  OBVIOUS
<1>1. CallsTypeOK'
  BY DEF CallsInv, CallsTypeOK, CallClock, CallTimes, governor
<1>2. callNow <= callNow' /\ UNCHANGED <<orderSlots, charged, sent>>
  BY DEF CallsInv, CallsTypeOK, CallClock, CallTimes, governor
<1> QED BY <1>1, <1>2, BudgetsStand

LEMMA CallEndsKeep ==
  ASSUME CallsInv, NEW k \in Callers, Headers(k) \/ Answer(k) \/ Fail(k)
  PROVE  CallsInv'
<1>1. callNow <= callNow' /\ UNCHANGED <<orderSlots, charged, sent>>
  BY DEF CallsInv, CallsTypeOK, CallTimes, Headers, Answer, Fail, governor
<1>2. CASE Headers(k)
  <2>1. CallsTypeOK'
    BY <1>2 DEF CallsInv, CallsTypeOK, Headers, governor
  <2> QED BY <1>1, <2>1, BudgetsStand
<1>3. CASE Answer(k) \/ Fail(k)
  <2>1. /\ observed' \in {None} \cup [used : UsedWeights, at : CallTimes]
        /\ refuseUntil' \in Nat /\ banned' \in BOOLEAN
    BY <1>3, ObservedTyped DEF CallsInv, Answer, Fail
  <2>2. misread' \in BOOLEAN /\ body' \in {None} \cup Callers
    BY <1>3 DEF CallsInv, CallsTypeOK, Answer, Fail
  <2>3. stage' \in [Callers -> {"idle", "sent", "headers"}] /\ latest' \in {None} \cup Metadata
    BY <1>3 DEF CallsInv, CallsTypeOK, Answer, Fail
  <2>4. callNow' = callNow
    BY <1>3 DEF Answer, Fail
  <2>5. CallsTypeOK'
    BY <1>1, <2>1, <2>2, <2>3, <2>4 DEF CallsInv, CallsTypeOK
  <2> QED BY <1>1, <2>5, BudgetsStand
<1> QED BY <1>2, <1>3

-----------------------------------------------------------------------------
(* Admission.  The orders of the window each have a slot that survives     *)
(* _expire, so the slots bound them.                                       *)
Recent == {i \in 1 .. Len(sent) : sent[i].by \in Placing /\ sent[i].at > callNow - OrderWindow}

LEMMA SlotsAfterExpiry ==
  ASSUME CallsInv
  PROVE  /\ Slots \in Seq(CallTimes) /\ Len(Slots) <= OrderRate
         /\ \E g \in [1 .. Len(Slots) -> 1 .. Len(sent)] :
              /\ \A n \in 1 .. Len(Slots) : Slots[n] = sent[g[n]].at
              /\ \A i \in Recent : \E n \in 1 .. Len(Slots) : g[n] = i
<1> DEFINE stale == {n \in DOMAIN orderSlots : Expired(orderSlots[n], OrderWindow)}
           L == Len(orderSlots)
<1>1. orderSlots \in Seq(CallTimes) /\ Slots = DropHead(orderSlots, stale)
  BY DEF CallsInv, CallsTypeOK, Slots
<1>2. DOMAIN orderSlots = 1 .. L /\ L \in Nat /\ L <= OrderRate
  BY <1>1 DEF CallsInv, CallsTypeOK
<1>3. stale \in SUBSET (1 .. L)
  BY <1>2
<1>4. PICK p \in 0 .. L : /\ 1 .. p \subseteq stale
                          /\ Slots \in Seq(CallTimes) /\ Len(Slots) = L - p
                          /\ \A n \in 1 .. L - p : Slots[n] = orderSlots[p + n]
  <2>1. PICK S : S = stale
    OBVIOUS
  <2> HIDE DEF stale
  <2>2. S \in SUBSET (1 .. Len(orderSlots)) /\ orderSlots \in Seq(CallTimes)
    BY <1>1, <1>3, <2>1
  <2>3. \E p \in 0 .. Len(orderSlots) :
          /\ 1 .. p \subseteq S
          /\ DropHead(orderSlots, S) \in Seq(CallTimes)
          /\ Len(DropHead(orderSlots, S)) = Len(orderSlots) - p
          /\ \A n \in 1 .. Len(orderSlots) - p : DropHead(orderSlots, S)[n] = orderSlots[p + n]
    BY ONLY <2>2, DropsHead
  <2>4. DropHead(orderSlots, S) = Slots
    BY <1>1, <2>1
  <2> QED BY <2>1, <2>3, <2>4
<1>5. PICK g \in [1 .. L -> 1 .. Len(sent)] :
        /\ \A n \in 1 .. L : orderSlots[n] = sent[g[n]].at
        /\ \A i \in Recent : \E n \in 1 .. L : g[n] = i
  BY DEF CallsInv, SlotsKnown, Recent
<1> DEFINE h == [n \in 1 .. L - p |-> g[p + n]]
<1>6. h \in [1 .. L - p -> 1 .. Len(sent)]
  BY <1>2, <1>4, <1>5
<1>7. ASSUME NEW n \in 1 .. L - p PROVE Slots[n] = sent[h[n]].at
  <2>1. p + n \in 1 .. L
    BY <1>2, <1>4
  <2> QED BY <1>4, <1>5, <2>1
<1>8. ASSUME NEW i \in Recent PROVE \E n \in 1 .. L - p : h[n] = i
  <2>1. PICK n \in 1 .. L : g[n] = i
    BY <1>5
  <2>2. orderSlots[n] > callNow - OrderWindow /\ i \in 1 .. Len(sent)
    BY <1>5, <2>1 DEF Recent
  <2>3. orderSlots[n] \in Nat /\ callNow \in Nat
    BY <1>5, <2>1, <2>2, SentTyped DEF CallsInv
  <2>4. n \notin stale
    BY <2>2, <2>3 DEF Expired
  <2>5. n \notin 1 .. p
    BY <1>4, <2>4
  <2>6. n - p \in 1 .. L - p /\ n = p + (n - p)
    BY <1>2, <1>4, <2>1, <2>5
  <2> QED BY <2>1, <2>6
<1>9. Len(Slots) <= OrderRate
  BY <1>2, <1>4
<1>10. h \in [1 .. Len(Slots) -> 1 .. Len(sent)]
  BY <1>4, <1>6
<1>11. \A n \in 1 .. Len(Slots) : Slots[n] = sent[h[n]].at
  BY <1>4, <1>7
<1>12. \A i \in Recent : \E n \in 1 .. Len(Slots) : h[n] = i
  BY <1>4, <1>8
<1> HIDE DEF h, L
<1>13. Slots \in Seq(CallTimes)
  BY <1>4
<1> QED BY <1>9, <1>10, <1>11, <1>12, <1>13

LEMMA RecentBounded ==
  ASSUME CallsInv
  PROVE  IsFiniteSet(Recent) /\ Cardinality(Recent) <= Len(Slots) /\ Len(Slots) \in Nat
<1>1. PICK g \in [1 .. Len(Slots) -> 1 .. Len(sent)] :
        \A i \in Recent : \E n \in 1 .. Len(Slots) : g[n] = i
  BY SlotsAfterExpiry
<1>2. Len(Slots) \in Nat
  BY SlotsAfterExpiry
<1> DEFINE h == [i \in Recent |-> CHOOSE n \in 1 .. Len(Slots) : g[n] = i]
<1>3. \A i \in Recent : h[i] \in 1 .. Len(Slots) /\ g[h[i]] = i
  BY <1>1
<1>4. h \in [Recent -> 1 .. Len(Slots)]
  BY <1>3
<1>5. h \in Injection(Recent, 1 .. Len(Slots))
  <2> HIDE DEF h
  <2> QED BY <1>3, <1>4 DEF Injection, IsInjective
<1>6. IsFiniteSet(1 .. Len(Slots)) /\ Cardinality(1 .. Len(Slots)) = Len(Slots)
  <2>1. ASSUME NEW n \in Nat PROVE IsFiniteSet(1 .. n) /\ Cardinality(1 .. n) = n
    <3>1. IsFiniteSet(1 .. n) /\ Cardinality(1 .. n) = IF 1 > n THEN 0 ELSE n - 1 + 1
      BY ONLY n \in Nat, FS_Interval
    <3> QED BY <3>1
  <2> QED BY <1>2, <2>1
<1> QED BY <1>2, <1>5, <1>6, FS_Injection

(* The charges that survive are the tail of the record of what was sent.   *)
LEMMA ChargesAfterExpiry ==
  ASSUME CallsInv
  PROVE  /\ Charges \in Seq([at : CallTimes, weight : Nat])
         /\ \E s \in 0 .. Len(sent) :
              /\ Len(Charges) = Len(sent) - s
              /\ \A n \in 1 .. Len(Charges) : Charges[n] = ChargeOf(sent[s + n])
              /\ \A n \in 1 .. s : sent[n].at <= callNow - WeightWindow
<1> DEFINE stale == {n \in DOMAIN charged : Expired(charged[n].at, WeightWindow)}
           L == Len(charged)
           C == [at : CallTimes, weight : Nat]
<1> HIDE DEF C
<1>1. charged \in Seq(C) /\ Charges = DropHead(charged, stale)
  BY DEF CallsInv, CallsTypeOK, Charges, C
<1>2. DOMAIN charged = 1 .. L /\ L \in Nat
  BY <1>1
<1>3. stale \in SUBSET (1 .. L)
  BY <1>2
<1>4. PICK p \in 0 .. L : /\ 1 .. p \subseteq stale
                          /\ Charges \in Seq(C) /\ Len(Charges) = L - p
                          /\ \A n \in 1 .. L - p : Charges[n] = charged[p + n]
  <2> HIDE DEF stale
  <2> QED BY <1>1, <1>3, DropsHead
<1>5. PICK s \in 0 .. Len(sent) : /\ L = Len(sent) - s
                                  /\ \A n \in 1 .. L : charged[n] = ChargeOf(sent[s + n])
                                  /\ \A n \in 1 .. s : sent[n].at <= callNow - WeightWindow
  BY DEF CallsInv, ChargesKnown
<1>6. Len(sent) \in Nat
  BY SentTyped DEF CallsInv
<1>7. s + p \in 0 .. Len(sent) /\ Len(Charges) = Len(sent) - (s + p)
  BY <1>2, <1>4, <1>5, <1>6
<1>8. ASSUME NEW n \in 1 .. Len(Charges) PROVE Charges[n] = ChargeOf(sent[(s + p) + n])
  <2>1. n \in 1 .. L - p /\ p + n \in 1 .. L /\ s + (p + n) = (s + p) + n
    BY <1>2, <1>4, <1>5, <1>6
  <2> QED BY <1>4, <1>5, <2>1
<1>9. ASSUME NEW n \in 1 .. s + p PROVE sent[n].at <= callNow - WeightWindow
  <2>1. CASE n \in 1 .. s
    BY <1>5, <2>1
  <2>2. CASE n \notin 1 .. s
    <3>1. n - s \in 1 .. p /\ n - s \in 1 .. L /\ s + (n - s) = n
      BY <1>2, <1>4, <1>5, <1>6, <2>2
    <3>2. charged[n - s].at <= callNow - WeightWindow
      BY <1>4, <3>1 DEF Expired
    <3>3. charged[n - s].at = sent[n].at
      BY <1>5, <3>1 DEF ChargeOf
    <3> QED BY <3>2, <3>3
  <2> QED BY <2>1, <2>2
<1> QED BY <1>4, <1>7, <1>8, <1>9 DEF C

LEMMA CeilingTyped ==
  ASSUME NEW k \in Callers
  PROVE  Weight[k] \in Nat /\ Ceiling(k) \in Int
<1>1. Class[k] \in DOMAIN ShareOf /\ Weight[k] \in Nat
  OBVIOUS
<1>2. ShareOf[Class[k]] \in Nat
  BY <1>1 DEF ShareOf
<1>3. WeightPerMinute * ShareOf[Class[k]] \in Int
  BY <1>2
<1> QED BY <1>1, <1>3 DEF Ceiling

LEMMA UsedCountsCharges ==
  ASSUME CallsInv, NEW k \in Callers, UsedWeight + Weight[k] <= Ceiling(k)
  PROVE  TotalSince(Charges, 0) \in Nat /\ TotalSince(Charges, 0) + Weight[k] <= Ceiling(k)
<1> DEFINE C == [at : CallTimes, weight : Nat]
<1>1. Charges \in Seq(Charge)
  <2>1. Charges \in Seq(C)
    BY ChargesAfterExpiry
  <2>2. C \subseteq Charge
    BY DEF Charge, CallTimes
  <2> HIDE DEF C
  <2> QED BY <2>1, <2>2
<1>2. ASSUME NEW from \in Nat PROVE TotalSince(Charges, from) \in Nat
  <2>1. Len(Charges) \in 0 .. Len(Charges) /\ from \in Int
    BY <1>1
  <2> QED BY <1>1, <2>1, RunningSteps, TotalIsLast
<1>3. TotalSince(Charges, 0) \in Nat
  BY <1>2
<1>4. Weight[k] \in Nat /\ Ceiling(k) \in Int
  BY CeilingTyped
<1>5. TotalSince(Charges, 0) <= UsedWeight /\ UsedWeight \in Nat
  <2>1. CASE observed = None \/ Expired(observed.at, WeightWindow)
    BY <1>3, <2>1 DEF UsedWeight
  <2>2. CASE ~(observed = None \/ Expired(observed.at, WeightWindow))
    <3>1. observed.used \in Nat /\ observed.at \in Nat
      <4>1. observed \in [used : UsedWeights, at : CallTimes]
        BY <2>2 DEF CallsInv, CallsTypeOK
      <4>2. CallTimes \subseteq Nat /\ UsedWeights \subseteq Nat
        BY DEF CallTimes
      <4> QED BY <4>1, <4>2
    <3>2. TotalSince(Charges, observed.at) \in Nat
      BY <1>2, <3>1
    <3> QED BY <1>3, <2>2, <3>1, <3>2 DEF UsedWeight
  <2> QED BY <2>1, <2>2
<1> QED BY <1>3, <1>4, <1>5

(* The request admitted: what the record and the deques are afterwards.    *)
LEMMA Admitted ==
  ASSUME CallsInv, NEW k \in Callers, Admit(k)
  PROVE  /\ Len(sent') = Len(sent) + 1 /\ Len(sent) \in Nat
         /\ sent'[Len(sent) + 1] = [by |-> k, at |-> callNow]
         /\ \A i \in 1 .. Len(sent) : sent'[i] = sent[i]
         /\ callNow' = callNow /\ callNow \in Nat
<1> DEFINE R == [by : Callers, at : CallTimes]
           new == [by |-> k, at |-> callNow]
<1>1. sent \in Seq(R) /\ new \in R /\ sent' = Append(sent, new) /\ callNow' = callNow
  BY DEF CallsInv, CallsTypeOK, Admit
<1>2. callNow \in Nat
  BY DEF CallsInv, CallsTypeOK, CallTimes
<1> HIDE DEF R, new
<1>3. Len(sent') = Len(sent) + 1 /\ Len(sent) \in Nat /\ sent'[Len(sent) + 1] = new
      /\ \A i \in 1 .. Len(sent) : sent'[i] = sent[i]
  BY <1>1
<1> QED BY <1>1, <1>2, <1>3 DEF new

LEMMA AdmitTyped ==
  ASSUME CallsInv, NEW k \in Callers, Admit(k)
  PROVE  CallsTypeOK'
<1>1. callNow' \in CallTimes /\ refuseUntil' \in Nat /\ body' \in {None} \cup Callers
      /\ latest' \in {None} \cup Metadata
  BY DEF CallsInv, CallsTypeOK, Admit
<1>2. banned' \in BOOLEAN /\ misread' \in BOOLEAN
  BY DEF CallsInv, CallsTypeOK, Admit
<1>3. observed' \in {None} \cup [used : UsedWeights, at : CallTimes]
  BY DEF CallsInv, CallsTypeOK, Admit
<1>4. stage' \in [Callers -> {"idle", "sent", "headers"}]
  BY DEF CallsInv, CallsTypeOK, Admit
<1>5. sent' \in Seq([by : Callers, at : CallTimes]) /\ Len(sent') <= MaxCalls
  <2>1. Len(sent) < MaxCalls /\ Len(sent') = Len(sent) + 1 /\ Len(sent) \in Nat
    BY Admitted DEF Admit
  <2> DEFINE R == [by : Callers, at : CallTimes]
  <2>2. sent \in Seq(R) /\ [by |-> k, at |-> callNow] \in R
        /\ sent' = Append(sent, [by |-> k, at |-> callNow])
    BY DEF CallsInv, CallsTypeOK, Admit
  <2>3. sent' \in Seq(R)
    <3> HIDE DEF R
    <3> QED BY <2>2
  <2> QED BY <2>1, <2>3
<1>6. charged' \in Seq([at : CallTimes, weight : Nat])
  <2> DEFINE C == [at : CallTimes, weight : Nat]
  <2>1. [at |-> callNow, weight |-> Weight[k]] \in C
    BY DEF CallsInv, CallsTypeOK
  <2>2. Charges \in Seq(C) /\ charged' = Append(Charges, [at |-> callNow, weight |-> Weight[k]])
    BY ChargesAfterExpiry DEF Admit
  <2> HIDE DEF C
  <2>3. charged' \in Seq(C)
    BY <2>1, <2>2
  <2> QED BY <2>3 DEF C
<1>7. orderSlots' \in Seq(CallTimes) /\ Len(orderSlots') <= OrderRate
  <2>1. Slots \in Seq(CallTimes) /\ Len(Slots) <= OrderRate /\ callNow \in CallTimes
    BY SlotsAfterExpiry DEF CallsInv, CallsTypeOK
  <2>2. CASE k \in Placing
    <3>1. orderSlots' = Append(Slots, callNow) /\ Len(Slots) < OrderRate
      BY <2>2 DEF Admit, CallAdmissible
    <3>2. Len(orderSlots') = Len(Slots) + 1 /\ orderSlots' \in Seq(CallTimes) /\ Len(Slots) \in Nat
      BY <2>1, <3>1
    <3> QED BY <3>1, <3>2
  <2>3. CASE k \notin Placing
    BY <2>1, <2>3 DEF Admit
  <2> QED BY <2>2, <2>3
<1> QED BY <1>1, <1>2, <1>3, <1>4, <1>5, <1>6, <1>7 DEF CallsTypeOK

LEMMA AdmitKeepsSlots ==
  ASSUME CallsInv, NEW k \in Callers, Admit(k)
  PROVE  SlotsKnown'
<1> DEFINE N == Len(sent)
           L == Len(Slots)
<1>1. /\ Len(sent') = N + 1 /\ N \in Nat /\ sent'[N + 1] = [by |-> k, at |-> callNow]
      /\ \A i \in 1 .. N : sent'[i] = sent[i]
      /\ callNow' = callNow
  BY Admitted
<1>2. PICK g \in [1 .. L -> 1 .. N] :
        /\ \A n \in 1 .. L : Slots[n] = sent[g[n]].at
        /\ \A i \in Recent : \E n \in 1 .. L : g[n] = i
  BY SlotsAfterExpiry
<1>3. Slots \in Seq(CallTimes) /\ L \in Nat /\ callNow \in CallTimes
  BY SlotsAfterExpiry DEF CallsInv, CallsTypeOK
<1>4. \A i \in 1 .. N : sent'[i].by \in Placing /\ sent'[i].at > callNow' - OrderWindow => i \in Recent
  BY <1>1 DEF Recent
<1> HIDE DEF N, L
<1>5. CASE k \notin Placing
  <2>1. orderSlots' = Slots /\ Len(orderSlots') = L
    BY <1>5 DEF Admit, L
  <2>2. g \in [1 .. Len(orderSlots') -> 1 .. Len(sent')]
    BY <1>1, <1>2, <2>1
  <2>3. \A n \in 1 .. Len(orderSlots') : orderSlots'[n] = sent'[g[n]].at
    BY <1>1, <1>2, <2>1
  <2>4. ASSUME NEW i \in 1 .. Len(sent'), sent'[i].by \in Placing, sent'[i].at > callNow' - OrderWindow
        PROVE  \E n \in 1 .. Len(orderSlots') : g[n] = i
    <3>1. i # N + 1
      BY <1>1, <1>5, <2>4
    <3>2. i \in 1 .. N
      BY <1>1, <3>1
    <3> QED BY <1>2, <1>4, <2>1, <2>4, <3>2
  <2> QED BY <2>2, <2>3, <2>4 DEF SlotsKnown
<1>6. CASE k \in Placing
  <2>1. orderSlots' = Append(Slots, callNow)
    BY <1>6 DEF Admit
  <2>2. Len(orderSlots') = L + 1 /\ orderSlots'[L + 1] = callNow
        /\ \A n \in 1 .. L : orderSlots'[n] = Slots[n]
    BY <1>3, <2>1 DEF L
  <2>3. PICK h : h = [n \in 1 .. L + 1 |-> IF n = L + 1 THEN N + 1 ELSE g[n]]
    OBVIOUS
  <2>4. h \in [1 .. L + 1 -> 1 .. N + 1] /\ h[L + 1] = N + 1 /\ \A n \in 1 .. L : h[n] = g[n]
    BY <1>1, <1>2, <1>3, <2>3
  <2>5. ASSUME NEW n \in 1 .. L + 1 PROVE orderSlots'[n] = sent'[h[n]].at
    <3>1. CASE n = L + 1
      BY <1>1, <2>2, <2>4, <3>1
    <3>2. CASE n # L + 1
      <4>1. n \in 1 .. L
        BY <1>3, <3>2
      <4>2. h[n] = g[n] /\ g[n] \in 1 .. N
        BY <1>2, <2>4, <4>1
      <4>3. sent'[h[n]] = sent[g[n]]
        BY <1>1, <4>2
      <4> QED BY <1>2, <2>2, <4>1, <4>3
    <3> QED BY <3>1, <3>2
  <2>6. ASSUME NEW i \in 1 .. N + 1, sent'[i].by \in Placing, sent'[i].at > callNow' - OrderWindow
        PROVE  \E n \in 1 .. L + 1 : h[n] = i
    <3>1. CASE i = N + 1
      BY <1>3, <2>4, <3>1
    <3>2. CASE i # N + 1
      <4>1. i \in Recent
        BY <1>1, <1>4, <2>6, <3>2
      <4>2. PICK n \in 1 .. L : g[n] = i
        BY <1>2, <4>1
      <4> QED BY <1>3, <2>4, <4>2
    <3> QED BY <3>1, <3>2
  <2>7. h \in [1 .. Len(orderSlots') -> 1 .. Len(sent')]
    BY <1>1, <2>2, <2>4
  <2>8. \A n \in 1 .. Len(orderSlots') : orderSlots'[n] = sent'[h[n]].at
    BY <2>2, <2>5
  <2>9. \A i \in 1 .. Len(sent') :
          sent'[i].by \in Placing /\ sent'[i].at > callNow' - OrderWindow =>
            \E n \in 1 .. Len(orderSlots') : h[n] = i
    BY <1>1, <2>2, <2>6
  <2> QED BY <2>7, <2>8, <2>9 DEF SlotsKnown
<1> QED BY <1>5, <1>6

LEMMA AdmitKeepsCharges ==
  ASSUME CallsInv, NEW k \in Callers, Admit(k)
  PROVE  ChargesKnown'
<1> DEFINE N == Len(sent)
           L == Len(Charges)
<1>1. /\ Len(sent') = N + 1 /\ N \in Nat /\ sent'[N + 1] = [by |-> k, at |-> callNow]
      /\ \A i \in 1 .. N : sent'[i] = sent[i]
      /\ callNow' = callNow
  BY Admitted
<1>2. PICK s \in 0 .. N : /\ L = N - s
                          /\ \A n \in 1 .. L : Charges[n] = ChargeOf(sent[s + n])
                          /\ \A n \in 1 .. s : sent[n].at <= callNow - WeightWindow
  BY ChargesAfterExpiry
<1>3. Len(charged') = L + 1 /\ charged'[L + 1] = [at |-> callNow, weight |-> Weight[k]]
      /\ \A n \in 1 .. L : charged'[n] = Charges[n]
  <2> DEFINE C == [at : CallTimes, weight : Nat]
  <2>1. [at |-> callNow, weight |-> Weight[k]] \in C
    BY DEF CallsInv, CallsTypeOK
  <2>2. Charges \in Seq(C) /\ charged' = Append(Charges, [at |-> callNow, weight |-> Weight[k]])
    BY ChargesAfterExpiry DEF Admit
  <2> HIDE DEF C
  <2> QED BY <2>1, <2>2
<1> HIDE DEF N, L
<1>4. s \in 0 .. Len(sent') /\ Len(charged') = Len(sent') - s /\ L \in Nat
  BY <1>1, <1>2, <1>3
<1>5. ASSUME NEW n \in 1 .. L + 1 PROVE charged'[n] = ChargeOf(sent'[s + n])
  <2>1. CASE n = L + 1
    <3>1. s + n = N + 1
      BY <1>1, <1>2, <2>1
    <3> QED BY <1>1, <1>3, <2>1, <3>1 DEF ChargeOf
  <2>2. CASE n # L + 1
    <3>1. n \in 1 .. L /\ s + n \in 1 .. N
      BY <1>1, <1>2, <1>4, <2>2
    <3> QED BY <1>1, <1>2, <1>3, <3>1
  <2> QED BY <2>1, <2>2
<1>6. ASSUME NEW n \in 1 .. s PROVE sent'[n].at <= callNow' - WeightWindow
  <2>1. n \in 1 .. N
    BY <1>1, <1>2
  <2> QED BY <1>1, <1>2, <2>1
<1> QED BY <1>3, <1>4, <1>5, <1>6 DEF ChargesKnown, ChargeOf

LEMMA AdmitKeepsOrderRate ==
  ASSUME CallsInv, NEW k \in Callers, Admit(k)
  PROVE  OrderRateHeld'
<1> DEFINE N == Len(sent)
<1>1. /\ Len(sent') = N + 1 /\ N \in Nat /\ sent'[N + 1] = [by |-> k, at |-> callNow]
      /\ \A i \in 1 .. N : sent'[i] = sent[i]
      /\ callNow \in Nat
  BY Admitted
<1>2. \A i \in 1 .. N : sent[i].at \in Nat
  BY SentTyped DEF CallsInv
<1>3. SUFFICES ASSUME NEW t \in CallTimes
               PROVE  Cardinality(SentWithin(Placing, t, t + OrderWindow - 1)') <= OrderRate
  BY DEF OrderRateHeld, SentWithin
<1> DEFINE W == SentWithin(Placing, t, t + OrderWindow - 1)
<1>4. t \in Nat
  BY DEF CallTimes
<1> HIDE DEF N
<1>5. W = {i \in 1 .. N : sent[i].by \in Placing /\ t <= sent[i].at /\ sent[i].at <= t + OrderWindow - 1}
  BY DEF SentWithin, N
<1>6. W' = {i \in 1 .. N + 1 :
              sent'[i].by \in Placing /\ t <= sent'[i].at /\ sent'[i].at <= t + OrderWindow - 1}
  BY <1>1 DEF SentWithin
<1>7. Cardinality(W) <= OrderRate
  BY DEF CallsInv, BudgetsHeld, OrderRateHeld
<1> HIDE DEF W
<1>8. CASE N + 1 \notin W'
  <2>1. W' = W
    BY <1>1, <1>5, <1>6, <1>8
  <2> QED BY <1>7, <2>1 DEF W
<1>9. CASE N + 1 \in W'
  <2>1. k \in Placing /\ t <= callNow /\ callNow <= t + OrderWindow - 1
    BY <1>1, <1>6, <1>9
  <2>2. Len(Slots) < OrderRate
    BY <2>1 DEF Admit, CallAdmissible
  <2>3. W' \subseteq Recent \cup {N + 1}
    <3>1. SUFFICES ASSUME NEW i \in W', i # N + 1 PROVE i \in Recent
      OBVIOUS
    <3>2. i \in 1 .. N /\ sent[i].by \in Placing /\ t <= sent[i].at
      BY <1>1, <1>6, <3>1
    <3>3. sent[i].at > callNow - OrderWindow
      BY <1>1, <1>2, <1>4, <2>1, <3>2
    <3> QED BY <3>2, <3>3 DEF Recent, N
  <2>4. IsFiniteSet(Recent) /\ Cardinality(Recent) <= Len(Slots) /\ Len(Slots) \in Nat
        /\ Cardinality(Recent) \in Nat
    BY RecentBounded, FS_CardinalityType
  <2>5. IsFiniteSet(Recent \cup {N + 1}) /\ Cardinality(Recent \cup {N + 1}) <= Cardinality(Recent) + 1
        /\ Cardinality(Recent \cup {N + 1}) \in Nat
    <3>1. Cardinality(Recent \cup {N + 1}) = IF N + 1 \in Recent THEN Cardinality(Recent) ELSE Cardinality(Recent) + 1
      BY <2>4, FS_AddElement
    <3>2. IsFiniteSet(Recent \cup {N + 1})
      BY <2>4, FS_AddElement
    <3> QED BY <2>4, <3>1, <3>2
  <2>6. Cardinality(W') <= Cardinality(Recent \cup {N + 1}) /\ Cardinality(W') \in Nat
    BY <2>3, <2>5, FS_Subset, FS_CardinalityType
  <2>7. Cardinality(W') <= OrderRate
    BY <2>2, <2>4, <2>5, <2>6
  <2> QED BY <2>7 DEF W
<1> QED BY <1>8, <1>9

LEMMA AdmitKeepsShare ==
  ASSUME CallsInv, NEW k \in Callers, Admit(k)
  PROVE  ShareHeld'
<1> DEFINE N == Len(sent)
           from == callNow - WeightWindow + 1
           A == [n \in 1 .. N + 1 |-> ChargeOf(sent'[n])]
<1>1. /\ Len(sent') = N + 1 /\ N \in Nat /\ sent'[N + 1] = [by |-> k, at |-> callNow]
      /\ \A i \in 1 .. N : sent'[i] = sent[i]
      /\ callNow \in Nat
  BY Admitted
<1> HIDE DEF N
<1>2. ASSUME NEW i \in 1 .. N
      PROVE  TotalSince([n \in 1 .. i |-> ChargeOf(sent'[n])], sent'[i].at - WeightWindow + 1)
               <= Ceiling(sent'[i].by)
  <2>1. [n \in 1 .. i |-> ChargeOf(sent'[n])] = [n \in 1 .. i |-> ChargeOf(sent[n])]
    <3>1. \A n \in 1 .. i : sent'[n] = sent[n]
      BY <1>1
    <3>2. \A n \in 1 .. i : ChargeOf(sent'[n]) = ChargeOf(sent[n])
      BY <3>1
    <3> QED BY <3>2
  <2>2. sent'[i] = sent[i]
    BY <1>1
  <2> QED BY <2>1, <2>2 DEF CallsInv, BudgetsHeld, ShareHeld, N
<1>3. TotalSince(A, from) <= Ceiling(k)
  <2>1. A \in Seq(Charge) /\ Len(A) = N + 1
    <3>1. \A n \in 1 .. N + 1 : sent'[n].by \in Callers /\ sent'[n].at \in Nat
      BY <1>1, SentTyped DEF CallsInv, N
    <3>2. \A n \in 1 .. N + 1 : ChargeOf(sent'[n]) \in Charge
      BY <3>1 DEF ChargeOf, Charge
    <3> QED BY <1>1, <3>2
  <2>2. PICK s \in 0 .. N : /\ Len(Charges) = N - s
                            /\ \A n \in 1 .. Len(Charges) : Charges[n] = ChargeOf(sent[s + n])
                            /\ \A n \in 1 .. s : sent[n].at <= callNow - WeightWindow
    BY ChargesAfterExpiry DEF N
  <2>3. Charges \in Seq(Charge)
    <3> DEFINE C == [at : CallTimes, weight : Nat]
    <3>1. Charges \in Seq(C)
      BY ChargesAfterExpiry
    <3>2. C \subseteq Charge
      BY DEF Charge, CallTimes
    <3> HIDE DEF C
    <3> QED BY <3>1, <3>2
  <2>4. from \in Int
    BY <1>1
  <2>5. \A n \in 1 .. N : A[n] = ChargeOf(sent[n])
    BY <1>1 DEF ChargeOf
  <2>6. A[N + 1] = [at |-> callNow, weight |-> Weight[k]]
    BY <1>1 DEF ChargeOf
  <2> HIDE DEF A
  <2>7. \A n \in 1 .. Len(Charges) : A[s + n] = Charges[n]
    <3>1. ASSUME NEW n \in 1 .. Len(Charges) PROVE A[s + n] = Charges[n]
      <4>1. s + n \in 1 .. N
        BY <1>1, <2>2
      <4> QED BY <2>2, <2>5, <4>1
    <3> QED BY <3>1
  <2>8. \A n \in 1 .. s : A[n].at < from
    <3>1. ASSUME NEW n \in 1 .. s PROVE A[n].at < from
      <4>1. n \in 1 .. N /\ A[n].at = sent[n].at
        <5>1. n \in 1 .. N
          BY <1>1, <2>2
        <5>2. A[n] = ChargeOf(sent[n])
          BY <2>5, <5>1
        <5>3. ChargeOf(sent[n]).at = sent[n].at
          BY DEF ChargeOf
        <5> QED BY <5>1, <5>2, <5>3
      <4>2. sent[n].at \in Nat
        BY <4>1, SentTyped DEF CallsInv, N
      <4> QED BY <1>1, <2>2, <4>1, <4>2
    <3> QED BY <3>1
  <2> HIDE DEF from
  <2>9. Running(A, from)[N] <= TotalSince(Charges, 0)
    <3>1. s \in Nat /\ s + Len(Charges) = N /\ N <= Len(A)
      BY <1>1, <2>1, <2>2
    <3> QED BY <2>1, <2>3, <2>4, <2>7, <2>8, <3>1, TailBounds
  <2>10. Running(A, from)[N] \in Nat
         /\ TotalSince(A, from) = Running(A, from)[N] + Counted(A[N + 1], from)
    <3>1. Running(A, from) \in [0 .. N + 1 -> Nat]
          /\ \A n \in 1 .. N + 1 : Running(A, from)[n] = Running(A, from)[n - 1] + Counted(A[n], from)
      BY <2>1, <2>4, RunningSteps
    <3>2. TotalSince(A, from) = Running(A, from)[N + 1]
      BY <2>1, TotalIsLast
    <3> QED BY <1>1, <3>1, <3>2
  <2>11. Counted(A[N + 1], from) \in Nat /\ Counted(A[N + 1], from) <= Weight[k]
    BY <1>1, <2>4, <2>6 DEF Counted
  <2>12. TotalSince(Charges, 0) \in Nat /\ TotalSince(Charges, 0) + Weight[k] <= Ceiling(k)
    BY UsedCountsCharges DEF Admit, CallAdmissible
  <2>13. Weight[k] \in Nat /\ Ceiling(k) \in Int
    BY CeilingTyped
  <2> QED BY <2>9, <2>10, <2>11, <2>12, <2>13
<1>4. ASSUME NEW i \in 1 .. N + 1
      PROVE  TotalSince([n \in 1 .. i |-> ChargeOf(sent'[n])], sent'[i].at - WeightWindow + 1)
               <= Ceiling(sent'[i].by)
  <2>1. CASE i = N + 1
    BY <1>1, <1>3, <2>1
  <2>2. CASE i # N + 1
    BY <1>1, <1>2, <2>2
  <2> QED BY <2>1, <2>2
<1> QED BY <1>1, <1>4 DEF ShareHeld, Ceiling, ChargeOf

LEMMA CallsInvKept == CallsInv /\ [CallsNext]_callVars => CallsInv'
<1> SUFFICES ASSUME CallsInv, [CallsNext]_callVars PROVE CallsInv'
  OBVIOUS
<1>1. CASE CallClock
  BY <1>1, CallClockKeeps
<1>2. CASE \E k \in Callers : Headers(k) \/ Answer(k) \/ Fail(k)
  BY <1>2, CallEndsKeep
<1>3. ASSUME NEW k \in Callers, Admit(k) PROVE CallsInv'
  BY <1>3, AdmitTyped, AdmitKeepsSlots, AdmitKeepsCharges, AdmitKeepsOrderRate, AdmitKeepsShare
  DEF CallsInv, BudgetsHeld
<1>4. CASE UNCHANGED callVars
  <2>1. CallsTypeOK'
    BY <1>4 DEF CallsInv, CallsTypeOK, callVars, governor
  <2>2. UNCHANGED <<orderSlots, charged, sent>> /\ callNow <= callNow'
    BY <1>4, SentTyped DEF CallsInv, callVars, governor
  <2> QED BY <2>1, <2>2, BudgetsStand
<1> QED BY <1>1, <1>2, <1>3, <1>4 DEF CallsNext

LEMMA CallsInvHolds == CallsSpec => []CallsInv
BY CallsInitHolds, CallsInvKept, PTL DEF CallsSpec

(***************************************************************************)
(* The governor's windows and counters keep their types, and it never      *)
(* holds more order slots than the venue takes in a window                 *)
(* (VenueRateGovernor.admit).                                              *)
(***************************************************************************)
THEOREM CallsTyped == CallsSpec => []CallsTypeOK
<1>1. CallsInv => CallsTypeOK
  BY DEF CallsInv
<1> QED BY <1>1, CallsInvHolds, PTL

(***************************************************************************)
(* No window of ten seconds, wherever it begins, holds more orders than    *)
(* the venue takes, and a request is admitted only while its own class's   *)
(* share of the minute's weight covers all that was sent, whatever the     *)
(* venue's headers say and however late or misfiled they are observed.     *)
(***************************************************************************)
THEOREM BudgetsKept == CallsSpec => []BudgetsHeld
<1>1. CallsInv => BudgetsHeld
  BY DEF CallsInv
<1> QED BY <1>1, CallsInvHolds, PTL

(***************************************************************************)
(* A call that ends, by an answer or by a failure, stops the governor if   *)
(* the metadata it left in the shared slot are still there and say the     *)
(* address is banned (the finally clause of ThrottledExchange.call).       *)
(***************************************************************************)
THEOREM BansObeyed == CallsSpec => BanSeen
<1>1. CallsTypeOK /\ [CallsNext]_callVars =>
        [\A k \in Callers :
           stage[k] # "idle" /\ stage'[k] = "idle" /\ latest # None =>
             (latest.of = k /\ latest.status = 418 => banned')]_callVars
  <2> SUFFICES ASSUME CallsTypeOK, CallsNext, NEW k \in Callers,
                      stage[k] # "idle", stage'[k] = "idle", latest # None,
                      latest.status = 418
               PROVE  banned'
    OBVIOUS
  <2>1. PICK c \in Callers : Answer(c) \/ Fail(c)
    <3>1. ~CallClock
      BY DEF CallClock
    <3>2. ASSUME NEW c \in Callers, Admit(c) \/ Headers(c) PROVE FALSE
      BY <3>2 DEF Admit, Headers, CallsTypeOK
    <3> QED BY <3>1, <3>2 DEF CallsNext
  <2>2. ObserveResponse(latest)
    BY <2>1 DEF Answer, Fail
  <2> QED BY <2>2 DEF ObserveResponse
<1> QED BY <1>1, CallsTyped, PTL DEF CallsSpec, BanSeen

HIDE VenueAssumption

-----------------------------------------------------------------------------
(* What the monitor's state is, read off the samples it stands on: the     *)
(* peak of them, the first of the day, and a tail of them as its marks,    *)
(* which begins at the last sample outside the window.                     *)
Samples == [at : Nat, equity : EquityMarks]
States == [peak : Nat, current : Nat, dayStart : Nat, dayOpen : Nat, marks : Seq(Samples),
           at : Nat, breach : {"none"} \cup Limits]

Ordered(sn) == \A i \in 1 .. Len(sn) : \A j \in 1 .. i : sn[j].at <= sn[i].at

PeakOf(sn, e) == (\E k \in 1 .. Len(sn) : sn[k].equity = e) /\ \A k \in 1 .. Len(sn) : sn[k].equity <= e

FirstOfDay(sn, d) ==
  /\ DayStart(sn[d].at) = DayStart(sn[Len(sn)].at)
  /\ \A k \in 1 .. d - 1 : DayStart(sn[k].at) # DayStart(sn[Len(sn)].at)

WindowFrom(sn, s) ==
  /\ s = 1 \/ sn[s].at <= sn[Len(sn)].at - TicksPerDay
  /\ \A k \in s + 1 .. Len(sn) : sn[k].at > sn[Len(sn)].at - TicksPerDay

MarksFrom(marks, sn, s) ==
  Len(marks) = Len(sn) - s + 1 /\ \A i \in 1 .. Len(marks) : marks[i] = sn[s + i - 1]

Follows(m, sn) ==
  /\ m \in States /\ sn \in Seq(Samples) /\ Len(sn) >= 1 /\ Ordered(sn)
  /\ m.at = sn[Len(sn)].at /\ m.current = sn[Len(sn)].equity
  /\ PeakOf(sn, m.peak)
  /\ m.dayStart = DayStart(m.at)
  /\ \E d \in 1 .. Len(sn) : FirstOfDay(sn, d) /\ m.dayOpen = sn[d].equity
  /\ \E s \in 1 .. Len(sn) : WindowFrom(sn, s) /\ MarksFrom(m.marks, sn, s)

Stands(m, sn) ==
  /\ Follows(m, sn)
  /\ m.breach # "none" <=> \E n \in 2 .. Len(sn) : BrokenAt(sn, n)
  /\ m.breach = "none" => Broken(m) = {}

MonitorInv ==
  /\ instant \in 0 .. MaxInstant /\ monitor.at <= instant /\ saved.at <= instant
  /\ Stands(monitor, seen) /\ Stands(saved, savedSeen)
  /\ monitor.breach = "none" => firing \cap Limits = {}

-----------------------------------------------------------------------------
(* Greatest, least, and the start of a day.                                *)
LEMMA MaxIs ==
  ASSUME NEW S \in SUBSET Int, NEW x \in S, \A y \in S : y <= x
  PROVE  Max(S) = x
<1>1. \A z \in S : (\A y \in S : z >= y) => z = x
  OBVIOUS
<1> QED BY <1>1 DEF Max

LEMMA MinIs ==
  ASSUME NEW S \in SUBSET Int, NEW x \in S, \A y \in S : x <= y
  PROVE  Min(S) = x
<1>1. \A z \in S : (\A y \in S : z <= y) => z = x
  OBVIOUS
<1> QED BY <1>1 DEF Min

LEMMA MostExists ==
  ASSUME NEW n \in Nat, NEW S \in SUBSET (0 .. n), S # {}
  PROVE  \E x \in S : \A y \in S : y <= x
<1> DEFINE Below == {n - u : u \in S}
<1>1. Below \in SUBSET Nat
  OBVIOUS
<1>2. Below # {}
  OBVIOUS
<1>3. PICK z \in Below : \A y \in Below : z <= y
  <2> HIDE DEF Below
  <2> QED BY <1>1, <1>2, LeastExists
<1>4. PICK x \in S : z = n - x
  OBVIOUS
<1>5. \A y \in S : n - x <= n - y
  BY <1>3, <1>4
<1> QED BY <1>5

LEMMA MaxExists ==
  ASSUME NEW n \in Nat, NEW S \in SUBSET (0 .. n), S # {}
  PROVE  Max(S) \in S /\ \A y \in S : y <= Max(S)
<1>1. PICK x \in S : \A y \in S : y <= x
  BY MostExists
<1>2. Max(S) = x
  BY <1>1, MaxIs
<1> QED BY <1>1, <1>2

LEMMA DayStarts ==
  ASSUME NEW a \in Nat, NEW b \in Nat, a <= b
  PROVE  DayStart(a) \in Nat /\ DayStart(a) <= DayStart(b)
<1>1. PICK D \in Nat \ {0} : D = TicksPerDay
  BY MonitorAssumption
<1>2. a \div D \in Nat /\ b \div D \in Nat
  BY <1>1
<1>3. a \div D <= b \div D
  BY <1>1
<1>4. (a \div D) * D <= (b \div D) * D
  BY <1>1, <1>2, <1>3
<1>5. (a \div D) * D \in Nat
  BY <1>1, <1>2
<1> QED BY <1>1, <1>4, <1>5 DEF DayStart

LEMMA DayStartStands ==
  ASSUME NEW a \in Nat
  PROVE  DayStart(DayStart(a)) = DayStart(a)
<1>1. PICK D \in Nat \ {0} : D = TicksPerDay
  BY MonitorAssumption
<1>2. PICK q \in Nat : q = a \div D
  BY <1>1
<1>3. (q * D) \div D = q
  BY <1>1, <1>2
<1> QED BY <1>1, <1>2, <1>3 DEF DayStart

-----------------------------------------------------------------------------
(* The three references are those of the samples.                          *)
LEMMA WindowIsTail ==
  ASSUME NEW sn \in Seq(Samples), Ordered(sn), NEW s \in 1 .. Len(sn), WindowFrom(sn, s)
  PROVE  {k \in 1 .. Len(sn) : k = Len(sn) \/ sn[k + 1].at > sn[Len(sn)].at - TicksPerDay}
           = s .. Len(sn)
<1> DEFINE n == Len(sn)
<1>1. n \in Nat /\ \A k \in 1 .. n : sn[k] \in Samples
  OBVIOUS
<1>2. \A k \in 1 .. n : sn[k].at \in Nat
  BY <1>1 DEF Samples
<1>3. TicksPerDay \in Nat
  BY MonitorAssumption
<1> HIDE DEF n
<1>4. ASSUME NEW k \in s .. n, k # n PROVE sn[k + 1].at > sn[n].at - TicksPerDay
  <2>1. k + 1 \in s + 1 .. n
    BY <1>1, <1>4
  <2> QED BY <2>1 DEF WindowFrom, n
<1>5. ASSUME NEW k \in 1 .. n, k < s PROVE k # n /\ ~(sn[k + 1].at > sn[n].at - TicksPerDay)
  <2>1. sn[s].at <= sn[n].at - TicksPerDay
    BY <1>1, <1>5 DEF WindowFrom, n
  <2>2. k + 1 \in 1 .. s /\ s \in 1 .. n /\ k + 1 \in 1 .. n
    BY <1>1, <1>5 DEF n
  <2>3. sn[k + 1].at <= sn[s].at
    BY <2>2 DEF Ordered, n
  <2>4. sn[k + 1].at \in Nat /\ sn[s].at \in Nat /\ sn[n].at \in Nat
    BY <1>1, <1>2, <2>2
  <2>5. k # n
    BY <1>1, <1>5, <2>2
  <2>6. sn[k + 1].at <= sn[n].at - TicksPerDay
    BY <1>3, <2>1, <2>3, <2>4, SMTT(30)
  <2> QED BY <1>3, <2>4, <2>5, <2>6, SMTT(30)
<1> QED BY <1>1, <1>4, <1>5 DEF n

LEMMA ReferencesAgree ==
  ASSUME NEW m, NEW sn, Follows(m, sn), NEW l \in Limits
  PROVE  Reference(m, l) = ReferenceOf(sn, Len(sn), l)
<1> DEFINE n == Len(sn)
<1>1. n \in Nat /\ n \in 1 .. n /\ sn \in Seq(Samples) /\ Ordered(sn)
  BY DEF Follows
<1>2. \A k \in 1 .. n : sn[k] \in Samples
  BY <1>1
<1>2a. \A k \in 1 .. n : sn[k].at \in Nat /\ sn[k].equity \in EquityMarks
  BY <1>2 DEF Samples
<1>2b. \A k \in 1 .. n : sn[k].equity \in Nat
  BY <1>2a, MonitorAssumption
<1> HIDE DEF n
<1>3. CASE l = "drawdown"
  <2> DEFINE E == {sn[k].equity : k \in 1 .. n}
  <2>1. E \in SUBSET Int /\ m.peak \in E /\ \A y \in E : y <= m.peak
    BY <1>2b DEF Follows, PeakOf, n
  <2>2. Max(E) = m.peak
    <3> HIDE DEF E
    <3> QED BY <2>1, MaxIs
  <2> QED BY <1>3, <2>2 DEF Reference, ReferenceOf, n
<1>4. CASE l = "daily"
  <2> DEFINE day == {k \in 1 .. n : DayStart(sn[k].at) = DayStart(sn[n].at)}
  <2>1. PICK d \in 1 .. n : FirstOfDay(sn, d) /\ m.dayOpen = sn[d].equity
    BY DEF Follows, n
  <2>2. day \in SUBSET Int /\ d \in day
    BY <1>1, <2>1 DEF FirstOfDay, n
  <2>3. \A k \in day : d <= k
    BY <1>1, <2>1 DEF FirstOfDay, n
  <2>4. Min(day) = d
    <3> HIDE DEF day
    <3> QED BY <2>2, <2>3, MinIs
  <2>5. ReferenceOf(sn, n, l) = sn[Min(day)].equity
    BY <1>4 DEF ReferenceOf
  <2> QED BY <1>4, <2>1, <2>4, <2>5 DEF Reference, n
<1>5. CASE l = "rolling"
  <2>1. PICK s \in 1 .. n : WindowFrom(sn, s) /\ MarksFrom(m.marks, sn, s)
    BY DEF Follows, n
  <2>2. ReferenceOf(sn, n, l) = Max({sn[k].equity : k \in s .. n})
    <3>1. {k \in 1 .. n : k = n \/ sn[k + 1].at > sn[n].at - TicksPerDay} = s .. n
      BY <1>1, <2>1, WindowIsTail DEF n
    <3> QED BY <1>5, <3>1 DEF ReferenceOf
  <2>3. m.marks \in Seq(Samples) /\ Len(m.marks) = n - s + 1
        /\ \A i \in 1 .. Len(m.marks) : m.marks[i] = sn[s + i - 1]
    BY <2>1 DEF Follows, States, MarksFrom, n
  <2>4. {q.equity : q \in ToSet(m.marks)} = {sn[k].equity : k \in s .. n}
    <3>1. ToSet(m.marks) = {m.marks[i] : i \in 1 .. Len(m.marks)}
      BY <2>3 DEF ToSet
    <3>2. \A i \in 1 .. Len(m.marks) : s + i - 1 \in s .. n
      BY <1>1, <2>3
    <3>3. \A k \in s .. n : k - s + 1 \in 1 .. Len(m.marks) /\ s + (k - s + 1) - 1 = k
      BY <1>1, <2>3
    <3>4. \A k \in s .. n : m.marks[k - s + 1] = sn[k]
      BY <2>3, <3>3
    <3>5. \A i \in 1 .. Len(m.marks) : m.marks[i].equity \in {sn[k].equity : k \in s .. n}
      BY <2>3, <3>2
    <3>6. \A k \in s .. n : sn[k].equity \in {q.equity : q \in ToSet(m.marks)}
      BY <3>1, <3>3, <3>4
    <3> DEFINE A == {q.equity : q \in ToSet(m.marks)}  B == {sn[k].equity : k \in s .. n}
    <3>7. \A y \in A : y \in B
      BY <3>1, <3>5
    <3>8. \A y \in B : y \in A
      BY <3>6
    <3> HIDE DEF A, B
    <3>9. A = B
      BY <3>7, <3>8
    <3> QED BY <3>9 DEF A, B
  <2>5. Reference(m, l) = Max({q.equity : q \in ToSet(m.marks)})
    BY <1>5 DEF Reference, Highest
  <2> QED BY <2>2, <2>4, <2>5 DEF n
<1> QED BY <1>3, <1>4, <1>5 DEF Limits

\* A later sample changes nothing of what the earlier ones say.
LEMMA EarlierSamplesStand ==
  ASSUME NEW sn \in Seq(Samples), NEW x \in Samples, NEW j \in 1 .. Len(sn)
  PROVE  BrokenAt(Append(sn, x), j) <=> BrokenAt(sn, j)
<1> DEFINE sn2 == Append(sn, x)
<1>1. \A k \in 1 .. j : sn2[k] = sn[k] /\ (k = j \/ sn2[k + 1] = sn[k + 1])
  OBVIOUS
<1>2. j \in 1 .. j
  OBVIOUS
<1> HIDE DEF sn2
<1>3. \A l \in Limits : ReferenceOf(sn2, j, l) = ReferenceOf(sn, j, l)
  <2> TAKE l \in Limits
  <2>1. {sn2[k].equity : k \in 1 .. j} = {sn[k].equity : k \in 1 .. j}
    BY <1>1
  <2> DEFINE day(s) == {k \in 1 .. j : DayStart(s[k].at) = DayStart(s[j].at)}
             window(s) == {k \in 1 .. j : k = j \/ s[k + 1].at > s[j].at - TicksPerDay}
  <2>2. day(sn2) = day(sn)
    BY <1>1, <1>2
  <2>3. window(sn2) = window(sn)
    BY <1>1, <1>2
  <2>4. {sn2[k].equity : k \in window(sn2)} = {sn[k].equity : k \in window(sn)}
    BY <1>1, <2>3
  <2>5. CASE l = "drawdown"
    BY <2>1, <2>5 DEF ReferenceOf
  <2>6. CASE l = "daily"
    <3>1. PICK d : d = Min(day(sn))
      OBVIOUS
    <3>2. \A y \in day(sn) : y \in 1 .. j
      OBVIOUS
    <3>3. j \in day(sn)
      BY <1>2
    <3>4. d \in 1 .. j
      <4>1. day(sn) \in SUBSET Nat /\ day(sn) # {}
        BY <3>3
      <4>2. PICK y \in day(sn) : \A z \in day(sn) : y <= z
        <5> HIDE DEF day
        <5> QED BY <4>1, LeastExists
      <4>3. Min(day(sn)) = y
        <5> HIDE DEF day
        <5> QED BY <4>1, <4>2, MinIs
      <4> QED BY <3>1, <3>2, <4>3
    <3>5. ReferenceOf(sn2, j, l) = sn2[Min(day(sn2))].equity
      BY <2>6 DEF ReferenceOf
    <3>6. ReferenceOf(sn, j, l) = sn[Min(day(sn))].equity
      BY <2>6 DEF ReferenceOf
    <3> HIDE DEF day
    <3> QED BY <1>1, <2>2, <3>1, <3>4, <3>5, <3>6
  <2>7. CASE l = "rolling"
    <3>1. ReferenceOf(sn2, j, l) = Max({sn2[k].equity : k \in window(sn2)})
      BY <2>7 DEF ReferenceOf
    <3>2. ReferenceOf(sn, j, l) = Max({sn[k].equity : k \in window(sn)})
      BY <2>7 DEF ReferenceOf
    <3> QED BY <2>4, <3>1, <3>2
  <2> QED BY <2>5, <2>6, <2>7 DEF Limits
<1>4. sn2[j].equity = sn[j].equity
  BY <1>1, <1>2
<1>5. BrokenAt(sn2, j) <=> BrokenAt(sn, j)
  BY <1>3, <1>4 DEF BrokenAt
<1> QED BY <1>5 DEF sn2

\* Pruning a tail of the samples leaves a tail of them: the one that begins at
\* the last sample outside the window.
LEMMA PruneLeavesATail ==
  ASSUME NEW sn \in Seq(Samples), Ordered(sn), NEW x \in Samples, Len(sn) >= 1,
         sn[Len(sn)].at <= x.at, NEW marks \in Seq(Samples),
         NEW s \in 1 .. Len(sn), WindowFrom(sn, s), MarksFrom(marks, sn, s)
  PROVE  /\ Prune(Append(marks, x), x.at) \in Seq(Samples)
         /\ \E b \in 1 .. Len(sn) + 1 :
              WindowFrom(Append(sn, x), b)
              /\ MarksFrom(Prune(Append(marks, x), x.at), Append(sn, x), b)
<1> DEFINE n == Len(sn)  M == Append(marks, x)  sn2 == Append(sn, x)  t == x.at
           before == {i \in DOMAIN M : M[i].at <= t - TicksPerDay}
           f == Max(before \cup {1})
           b == s + f - 1
<1>1. n \in Nat /\ n >= 1 /\ s \in 1 .. n /\ Len(sn2) = n + 1 /\ sn2 \in Seq(Samples)
      /\ sn2[n + 1] = x /\ \A k \in 1 .. n : sn2[k] = sn[k]
  OBVIOUS
<1>2. M \in Seq(Samples) /\ Len(M) = n - s + 2 /\ DOMAIN M = 1 .. Len(M)
  <2>1. Len(marks) \in Nat /\ Len(marks) = n - s + 1
    BY DEF MarksFrom
  <2> HIDE DEF n
  <2> QED BY <2>1, <1>1
<1>3. \A i \in 1 .. Len(M) : M[i] = sn2[s + i - 1]
  <2> TAKE i \in 1 .. Len(M)
  <2>1. CASE i = Len(M)
    BY <1>1, <1>2, <2>1
  <2>2. CASE i # Len(M)
    <3>1. i \in 1 .. Len(marks) /\ s + i - 1 \in 1 .. n
      BY <1>1, <1>2, <2>2 DEF MarksFrom
    <3>2. M[i] = marks[i] /\ marks[i] = sn[s + i - 1]
      BY <3>1 DEF MarksFrom
    <3> QED BY <1>1, <3>1, <3>2
  <2> QED BY <2>1, <2>2
<1>4. t \in Nat /\ TicksPerDay \in Nat \ {0} /\ \A k \in 1 .. n + 1 : sn2[k].at \in Nat
  <2>1. \A k \in 1 .. n + 1 : sn2[k] \in Samples
    BY <1>1
  <2> QED BY <2>1, MonitorAssumption DEF Samples
<1>5. f \in before \cup {1} /\ \A y \in before \cup {1} : y <= f
  <2>1. before \cup {1} \in SUBSET (0 .. Len(M)) /\ before \cup {1} # {} /\ Len(M) \in Nat
    BY <1>1, <1>2
  <2> HIDE DEF before, M
  <2> QED BY <2>1, MaxExists
<1>6. f \in 1 .. Len(M)
  <2>1. \A y \in before \cup {1} : y \in 1 .. Len(M)
    BY <1>1, <1>2
  <2> HIDE DEF f, before, M
  <2> QED BY <1>5, <2>1
<1>7. Prune(M, t) = SubSeq(M, f, Len(M))
  BY DEF Prune
<1> HIDE DEF n, M, sn2, t, before, f
<1>8. b \in 1 .. n + 1
  BY <1>1, <1>2, <1>6
<1>9. SubSeq(M, f, Len(M)) \in Seq(Samples)
      /\ Len(SubSeq(M, f, Len(M))) = Len(M) - f + 1
      /\ \A i \in 1 .. Len(M) - f + 1 : SubSeq(M, f, Len(M))[i] = M[f + i - 1]
  BY <1>2, <1>6
<1>10. MarksFrom(Prune(M, t), sn2, b)
  <2>1. \A i \in 1 .. Len(M) - f + 1 : f + i - 1 \in 1 .. Len(M) /\ s + (f + i - 1) - 1 = b + i - 1
    BY <1>1, <1>2, <1>6
  <2>2. \A i \in 1 .. Len(M) - f + 1 : M[f + i - 1] = sn2[b + i - 1]
    BY <1>3, <2>1
  <2>3. Len(M) - f + 1 = Len(sn2) - b + 1
    <3>1. n \in Int /\ s \in Int /\ f \in Int
      BY <1>1, <1>6
    <3>2. (n - s + 2) - f + 1 = (n + 1) - (s + f - 1) + 1
      BY <3>1
    <3> QED BY <1>1, <1>2, <3>2
  <2> QED BY <1>7, <1>9, <2>2, <2>3 DEF MarksFrom
<1>11. WindowFrom(sn2, b)
  <2>1. b = 1 \/ sn2[b].at <= t - TicksPerDay
    <3>1. CASE f \in before
      <4>1. sn2[b] = M[f]
        BY <1>3, <1>6
      <4> QED BY <3>1, <4>1 DEF before
    <3>2. CASE f = 1 /\ s = 1
      BY <3>2
    <3>3. CASE f = 1 /\ s # 1
      <4>1. sn[s].at <= sn[n].at - TicksPerDay
        BY <3>3 DEF WindowFrom, n
      <4>2. sn[n].at <= t
        BY DEF n, t
      <4>3. sn2[s] = sn[s] /\ sn2[n] = sn[n] /\ s \in 1 .. n + 1 /\ n \in 1 .. n + 1
        BY <1>1
      <4>4. b = s
        BY <1>1, <3>3
      <4>5. sn[s].at \in Nat /\ sn[n].at \in Nat
        BY <1>4, <4>3
      <4>6. sn[s].at <= t - TicksPerDay
        BY <1>4, <4>1, <4>2, <4>5, SMTT(30)
      <4>7. sn2[b] = sn[s]
        BY <4>3, <4>4
      <4> QED BY <4>6, <4>7
    <3> QED BY <1>5, <3>1, <3>2, <3>3
  <2>2. ASSUME NEW k \in b + 1 .. n + 1 PROVE sn2[k].at > t - TicksPerDay
    <3>1. k - s + 1 \in 1 .. Len(M) /\ k - s + 1 > f /\ s + (k - s + 1) - 1 = k /\ k \in 1 .. n + 1
      BY <1>1, <1>2, <1>6, <1>8
    <3>2. M[k - s + 1] = sn2[k]
      BY <1>3, <3>1
    <3>3. k - s + 1 \notin before
      BY <1>5, <1>6, <3>1
    <3>4. ~(M[k - s + 1].at <= t - TicksPerDay)
      BY <1>2, <3>1, <3>3 DEF before
    <3> QED BY <1>4, <3>1, <3>2, <3>4
  <2>3. sn2[Len(sn2)].at = t
    BY <1>1 DEF t
  <2> QED BY <1>1, <2>1, <2>2, <2>3 DEF WindowFrom
<1>12. Prune(M, t) \in Seq(Samples)
  BY <1>7, <1>9
<1> QED BY <1>8, <1>10, <1>11, <1>12 DEF n, M, sn2, t

\* The state a sample makes follows the samples, that one included.
LEMMA SampleFollows ==
  ASSUME NEW m, NEW sn, Follows(m, sn), NEW e \in EquityMarks, NEW t \in Nat, m.at <= t
  PROVE  /\ Follows(WithEquity(m, e, t), Append(sn, Mark(t, e)))
         /\ WithEquity(m, e, t).breach = m.breach
<1> DEFINE n == Len(sn)  x == Mark(t, e)  sn2 == Append(sn, x)
<1>w. PICK w : w = WithEquity(m, e, t)
  OBVIOUS
<1>1. m \in States /\ sn \in Seq(Samples) /\ n \in Nat /\ n >= 1 /\ Ordered(sn)
      /\ m.at = sn[n].at /\ PeakOf(sn, m.peak) /\ m.dayStart = DayStart(m.at)
  BY DEF Follows
<1>2. x \in Samples /\ x.at = t /\ x.equity = e /\ e \in Nat \ {0}
  BY MonitorAssumption DEF Samples, Mark
<1>3. sn2 \in Seq(Samples) /\ Len(sn2) = n + 1 /\ sn2[n + 1] = x
      /\ \A k \in 1 .. n : sn2[k] = sn[k]
  BY <1>1, <1>2
<1>4. \A k \in 1 .. n : sn[k].at \in Nat /\ sn[k].equity \in EquityMarks
  <2>1. \A k \in 1 .. n : sn[k] \in Samples
    BY <1>1
  <2> QED BY <2>1 DEF Samples
<1>5. n \in 1 .. n /\ \A k \in 1 .. n : sn[k].at <= sn[n].at
  BY <1>1 DEF Ordered
<1>m. PICK kept : kept = Prune(Append(m.marks, x), t)
  OBVIOUS
<1>v. /\ w.peak = Max({m.peak, e}) /\ w.current = e /\ w.at = t /\ w.dayStart = DayStart(t)
      /\ (DayStart(t) > m.dayStart => w.dayOpen = e)
      /\ (~(DayStart(t) > m.dayStart) => w.dayOpen = m.dayOpen)
      /\ w.marks = kept /\ w.breach = m.breach
      /\ w.peak \in Nat /\ kept \in Seq(Samples) => w \in States
  <2>1. PICK p : p = Max({m.peak, e})
    OBVIOUS
  <2>2. PICK o : o = IF DayStart(t) > m.dayStart THEN e ELSE m.dayOpen
    OBVIOUS
  <2>3. PICK d : d = DayStart(t)
    OBVIOUS
  <2>4. w = [m EXCEPT !.peak = p, !.current = e, !.at = t, !.dayStart = d, !.dayOpen = o,
                      !.marks = kept]
    BY <1>w, <1>m, <2>1, <2>2, <2>3, Zenon DEF WithEquity
  <2>5. w.peak = p /\ w.current = e /\ w.at = t /\ w.dayStart = d /\ w.dayOpen = o
        /\ w.marks = kept /\ w.breach = m.breach
    BY <1>1, <2>4 DEF States
  <2>6. d \in Nat /\ o \in Nat /\ e \in Nat
    BY <1>1, <2>2, <2>3, DayStarts, MonitorAssumption DEF States
  <2>7. p \in Nat /\ kept \in Seq(Samples) => w \in States
    BY <1>1, <2>4, <2>6 DEF States
  <2> QED BY <2>1, <2>2, <2>3, <2>5, <2>7
<1> HIDE DEF n, x, sn2
<1>6. Ordered(sn2)
  <2> SUFFICES ASSUME NEW i \in 1 .. n + 1, NEW j \in 1 .. i PROVE sn2[j].at <= sn2[i].at
    BY <1>3 DEF Ordered
  <2>1. CASE i \in 1 .. n
    <3>1. j \in 1 .. n
      BY <1>1, <2>1
    <3>2. sn[j].at <= sn[i].at
      BY <1>1, <2>1 DEF Ordered, n
    <3> QED BY <1>3, <2>1, <3>1, <3>2
  <2>2. CASE i = n + 1
    <3>1. CASE j = n + 1
      BY <1>2, <1>3, <2>2, <3>1
    <3>2. CASE j # n + 1
      <4>1. j \in 1 .. n
        BY <1>1, <2>2, <3>2
      <4> QED BY <1>1, <1>2, <1>3, <1>4, <1>5, <2>2, <4>1
    <3> QED BY <3>1, <3>2
  <2> QED BY <1>1, <2>1, <2>2
<1>7. w.peak \in Nat /\ PeakOf(sn2, w.peak)
  <2>1. PICK k \in 1 .. n : sn[k].equity = m.peak
    BY <1>1 DEF PeakOf, n
  <2>2. w.peak = Max({m.peak, e})
    BY <1>v
  <2>3. m.peak \in Nat
    BY <1>1 DEF States
  <2>4. \A i \in 1 .. n : sn[i].equity <= m.peak /\ sn[i].equity \in Nat
    BY <1>1, <1>4, MonitorAssumption DEF PeakOf, n
  <2>5. k \in 1 .. n + 1 /\ n + 1 \in 1 .. n + 1
    BY <1>1
  <2>6. CASE e <= m.peak
    <3>1. w.peak = m.peak
      <4>1. {m.peak, e} \in SUBSET Int /\ m.peak \in {m.peak, e}
            /\ \A y \in {m.peak, e} : y <= m.peak
        BY <1>2, <2>3, <2>6
      <4> QED BY <2>2, <4>1, MaxIs
    <3>2. \A i \in 1 .. n + 1 : sn2[i].equity <= m.peak
      BY <1>1, <1>2, <1>3, <2>4, <2>6
    <3>3. sn2[k].equity = m.peak
      BY <1>3, <2>1
    <3> QED BY <1>3, <2>3, <2>5, <3>1, <3>2, <3>3 DEF PeakOf
  <2>7. CASE m.peak < e
    <3>1. w.peak = e
      <4>1. {m.peak, e} \in SUBSET Int /\ e \in {m.peak, e} /\ \A y \in {m.peak, e} : y <= e
        BY <1>2, <2>3, <2>7
      <4> QED BY <2>2, <4>1, MaxIs
    <3>2. \A i \in 1 .. n + 1 : sn2[i].equity <= e
      BY <1>1, <1>2, <1>3, <2>3, <2>4, <2>7, SMTT(30)
    <3>3. sn2[n + 1].equity = e
      BY <1>2, <1>3
    <3> QED BY <1>2, <1>3, <2>5, <3>1, <3>2, <3>3 DEF PeakOf
  <2> QED BY <1>2, <2>3, <2>6, <2>7
<1>8. \E d \in 1 .. Len(sn2) : FirstOfDay(sn2, d) /\ w.dayOpen = sn2[d].equity
  <2>1. /\ DayStart(t) > m.dayStart => w.dayOpen = e
        /\ ~(DayStart(t) > m.dayStart) => w.dayOpen = m.dayOpen
    BY <1>v
  <2>2. \A k \in 1 .. n : DayStart(sn[k].at) \in Nat /\ DayStart(sn[k].at) <= m.dayStart
    BY <1>1, <1>4, <1>5, DayStarts
  <2>3. m.dayStart \in Nat /\ DayStart(t) \in Nat /\ m.dayStart <= DayStart(t)
    <3>1. m.at \in Nat /\ m.at <= t
      BY <1>1 DEF States
    <3> QED BY <1>1, <3>1, DayStarts, SMTT(30)
  <2>4. n + 1 \in 1 .. n + 1 /\ sn2[n + 1].at = t /\ sn2[n + 1].equity = e
    BY <1>1, <1>2, <1>3
  <2>5. CASE DayStart(t) > m.dayStart
    <3>1. \A k \in 1 .. (n + 1) - 1 : DayStart(sn2[k].at) # DayStart(sn2[n + 1].at)
      <4>1. \A k \in 1 .. n : DayStart(sn2[k].at) # DayStart(t)
        BY <1>3, <2>2, <2>3, <2>5
      <4> QED BY <1>1, <2>4, <4>1
    <3> QED BY <1>3, <2>1, <2>4, <2>5, <3>1 DEF FirstOfDay
  <2>6. CASE DayStart(t) = m.dayStart
    <3>1. PICK d \in 1 .. n : FirstOfDay(sn, d) /\ m.dayOpen = sn[d].equity
      BY DEF Follows, n
    <3>2. d \in 1 .. n + 1 /\ sn2[d] = sn[d] /\ \A k \in 1 .. d - 1 : k \in 1 .. n /\ sn2[k] = sn[k]
      BY <1>1, <1>3
    <3>3. DayStart(sn[n].at) = DayStart(t)
      BY <1>1, <2>6
    <3>4. DayStart(sn[d].at) = DayStart(t) /\ \A k \in 1 .. d - 1 : DayStart(sn[k].at) # DayStart(t)
      BY <3>1, <3>3 DEF FirstOfDay, n
    <3>5. FirstOfDay(sn2, d)
      BY <1>3, <2>4, <3>2, <3>4 DEF FirstOfDay
    <3>6. w.dayOpen = sn2[d].equity
      BY <2>1, <2>3, <2>6, <3>1, <3>2
    <3> QED BY <1>3, <3>2, <3>5, <3>6
  <2> QED BY <2>3, <2>5, <2>6
<1>9. /\ w.marks \in Seq(Samples)
      /\ \E s \in 1 .. Len(sn2) : WindowFrom(sn2, s) /\ MarksFrom(w.marks, sn2, s)
  <2>1. PICK s \in 1 .. n : WindowFrom(sn, s) /\ MarksFrom(m.marks, sn, s)
    BY DEF Follows, n
  <2>2. m.marks \in Seq(Samples)
    BY <1>1 DEF States
  <2>3. sn[Len(sn)].at <= x.at
    BY <1>1, <1>2 DEF n
  <2>4. w.marks = Prune(Append(m.marks, x), x.at)
    BY <1>2, <1>m, <1>v
  <2> QED BY <1>1, <1>2, <1>3, <2>1, <2>2, <2>3, <2>4, PruneLeavesATail DEF n, sn2
<1>10. w \in States /\ w.at = t /\ w.current = e /\ w.dayStart = DayStart(t)
  BY <1>7, <1>9, <1>v
<1>11. Follows(w, sn2)
  BY <1>1, <1>2, <1>3, <1>6, <1>7, <1>8, <1>9, <1>10 DEF Follows
<1> QED BY <1>w, <1>v, <1>11 DEF sn2, x

\* The equities losses are measured from are equities that were seen.
LEMMA ReferencesSeen ==
  ASSUME NEW m, NEW sn, Follows(m, sn), NEW l \in Limits
  PROVE  Reference(m, l) \in EquityMarks
<1> DEFINE n == Len(sn)
<1>1. sn \in Seq(Samples) /\ n \in Nat /\ n >= 1 /\ PeakOf(sn, m.peak) /\ m.peak \in Nat
      /\ m.marks \in Seq(Samples)
  BY DEF Follows, States
<1>2. \A k \in 1 .. n : sn[k].equity \in EquityMarks
  <2>1. \A k \in 1 .. n : sn[k] \in Samples
    BY <1>1
  <2> QED BY <2>1 DEF Samples
<1> HIDE DEF n
<1>3. CASE l = "drawdown"
  BY <1>1, <1>2, <1>3 DEF Reference, PeakOf, n
<1>4. CASE l = "daily"
  BY <1>2, <1>4 DEF Reference, Follows, n
<1>5. CASE l = "rolling"
  <2> DEFINE E == {q.equity : q \in ToSet(m.marks)}
  <2>1. PICK s \in 1 .. n : MarksFrom(m.marks, sn, s)
    BY DEF Follows, n
  <2>2. Len(m.marks) \in Nat /\ Len(m.marks) = n - s + 1
        /\ \A i \in 1 .. Len(m.marks) : s + i - 1 \in 1 .. n /\ m.marks[i] = sn[s + i - 1]
    <3>1. PICK N \in Nat : N = n /\ s \in 1 .. N
      BY <1>1, <2>1
    <3>2. Len(m.marks) = N - s + 1
      BY <2>1, <3>1 DEF MarksFrom, n
    <3>3. \A i \in 1 .. Len(m.marks) : s + i - 1 \in 1 .. N
      BY <3>1, <3>2
    <3>4. \A i \in 1 .. Len(m.marks) : m.marks[i] = sn[s + i - 1]
      BY <2>1 DEF MarksFrom
    <3>5. Len(m.marks) \in Nat
      BY <3>1, <3>2
    <3> QED BY <3>1, <3>2, <3>3, <3>4, <3>5
  <2>3. ToSet(m.marks) = {m.marks[i] : i \in 1 .. Len(m.marks)}
    BY <1>1 DEF ToSet
  <2>4. \A i \in 1 .. Len(m.marks) : m.marks[i].equity \in EquityMarks /\ m.marks[i].equity <= m.peak
    BY <1>1, <1>2, <2>2 DEF PeakOf, n
  <2>5. \A y \in E : y \in EquityMarks /\ y \in 0 .. m.peak
    <3>1. \A i \in 1 .. Len(m.marks) : m.marks[i].equity \in 0 .. m.peak
      <4>1. \A q \in EquityMarks : q \in Nat
        BY MonitorAssumption
      <4> QED BY <1>1, <2>4, <4>1
    <3> QED BY <2>3, <2>4, <3>1
  <2>6. 1 \in 1 .. Len(m.marks)
    BY <1>1, <2>2
  <2>7. E # {}
    BY <2>3, <2>6
  <2>8. Max(E) \in E
    <3> HIDE DEF E
    <3> QED BY <1>1, <2>5, <2>7, MaxExists
  <2>9. Reference(m, l) = Max(E)
    BY <1>5 DEF Reference, Highest
  <2> HIDE DEF E
  <2> QED BY <2>5, <2>8, <2>9
<1> QED BY <1>3, <1>4, <1>5 DEF Limits

-----------------------------------------------------------------------------
(* Size under a limit that is not broken, and under one that is.           *)
LEMMA SizeLeft ==
  ASSUME NEW m, NEW sn, Follows(m, sn), NEW l \in Limits, l \notin Broken(m)
  PROVE  DeriskPercent(m, l) \in Nat \ {0}
<1>1. PICK r \in Nat \ {0} : r = Reference(m, l)
  BY ReferencesSeen, MonitorAssumption
<1>2. PICK b \in Nat \ {0} : b = Budget[l]
  BY MonitorAssumption DEF Limits
<1>3. PICK c \in Nat : c = m.current
  BY DEF Follows, States
<1>4. ~((r - c) * 1000 >= b * r)
  BY <1>1, <1>2, <1>3 DEF Broken, LosesAtLeast
<1>5. PICK P \in Nat \ {0} : P = b * r
  BY <1>1, <1>2
<1>6. PICK a \in Int : a = (r - c) * 100000 /\ a < 100 * P
  BY <1>1, <1>2, <1>3, <1>4, <1>5
<1>7. PICK u \in Int : u = UsedPercent(m, l) /\ u <= 99
  <2>1. a \div P \in Int /\ P * (a \div P) <= a
    BY <1>5, <1>6
  <2>2. ASSUME a \div P >= 100 PROVE FALSE
    <3>1. P * (a \div P) >= P * 100
      BY <1>5, <2>1, <2>2
    <3> QED BY <1>5, <1>6, <2>1, <3>1
  <2>3. UsedPercent(m, l) = a \div P
    BY <1>1, <1>2, <1>3, <1>5, <1>6, SMT DEF UsedPercent
  <2> QED BY <2>1, <2>2, <2>3
<1>8. PICK v \in Nat : v = Max({u, 0}) /\ v <= 99
  <2>1. CASE u >= 0
    <3>1. {u, 0} \in SUBSET Int /\ u \in {u, 0} /\ \A y \in {u, 0} : y <= u
      BY <1>7, <2>1
    <3> QED BY <1>7, <2>1, <3>1, MaxIs
  <2>2. CASE u < 0
    <3>1. {u, 0} \in SUBSET Int /\ 0 \in {u, 0} /\ \A y \in {u, 0} : y <= 0
      BY <1>7, <2>2
    <3> QED BY <3>1, MaxIs
  <2> QED BY <1>7, <2>1, <2>2
<1>9. PICK x \in Int : x = 100 - ((v - 60) * 100) \div 40 /\ x >= 1
  BY <1>8
<1>10. Max({0, x}) = x
  <2>1. {0, x} \in SUBSET Int /\ x \in {0, x} /\ \A y \in {0, x} : y <= x
    BY <1>9
  <2> QED BY <2>1, MaxIs
<1>11. Min({100, x}) \in Nat \ {0}
  <2>1. CASE x <= 100
    <3>1. {100, x} \in SUBSET Int /\ x \in {100, x} /\ \A y \in {100, x} : x <= y
      BY <1>9, <2>1
    <3>2. Min({100, x}) = x
      BY <3>1, MinIs
    <3> QED BY <1>9, <3>2
  <2>2. CASE x > 100
    <3>1. {100, x} \in SUBSET Int /\ 100 \in {100, x} /\ \A y \in {100, x} : 100 <= y
      BY <1>9, <2>2
    <3>2. Min({100, x}) = 100
      BY <3>1, MinIs
    <3> QED BY <3>2
  <2> QED BY <1>9, <2>1, <2>2
<1>12. DeriskPercent(m, l) = Min({100, Max({0, x})})
  BY <1>7, <1>8, <1>9 DEF DeriskPercent
<1> QED BY <1>10, <1>11, <1>12

LEMMA SizeFollowsBreach ==
  ASSUME NEW m, NEW sn, Stands(m, sn)
  PROVE  /\ m.breach # "none" => Multiplier(m) = 0
         /\ m.breach = "none" => Multiplier(m) > 0
<1>1. CASE m.breach # "none"
  BY <1>1 DEF Multiplier
<1>2. CASE m.breach = "none"
  <2> DEFINE S == {DeriskPercent(m, l) : l \in Limits}
  <2>1. \A l \in Limits : DeriskPercent(m, l) \in Nat \ {0}
    BY <1>2, SizeLeft DEF Stands
  <2>2. S \in SUBSET Nat /\ 0 \notin S
    BY <2>1
  <2>3. S # {}
    BY DEF Limits
  <2>4. Multiplier(m) = Min(S)
    BY <1>2 DEF Multiplier
  <2> HIDE DEF S
  <2>5. PICK x \in S : \A y \in S : x <= y
    BY <2>2, <2>3, LeastExists
  <2>6. Min(S) = x
    BY <2>2, <2>5, MinIs
  <2> QED BY <1>2, <2>2, <2>4, <2>5, <2>6
<1> QED BY <1>1, <1>2

-----------------------------------------------------------------------------
(* A sample, evaluated.                                                    *)
LEMMA LastIsJudged ==
  ASSUME NEW m, NEW sn, Follows(m, sn)
  PROVE  BrokenAt(sn, Len(sn)) <=> Broken(m) # {}
<1>1. m.current = sn[Len(sn)].equity
  BY DEF Follows
<1>2. \A l \in Limits : Reference(m, l) = ReferenceOf(sn, Len(sn), l)
  BY ReferencesAgree
<1> QED BY <1>1, <1>2 DEF BrokenAt, Broken

LEMMA EvaluateOnlyLatches ==
  ASSUME NEW m, NEW sn, Follows(m, sn)
  PROVE  /\ Follows(Evaluate(m), sn) /\ Broken(Evaluate(m)) = Broken(m)
         /\ Evaluate(m).at = m.at
         /\ Evaluate(m).breach = "none" <=> m.breach = "none" /\ Broken(m) = {}
<1>1. m \in States
  BY DEF Follows
<1>2. CASE m.breach # "none" \/ Broken(m) = {}
  BY <1>2 DEF Evaluate
<1>3. CASE ~(m.breach # "none" \/ Broken(m) = {})
  <2>1. PICK b \in Limits : Evaluate(m) = [m EXCEPT !.breach = b]
    BY <1>3 DEF Evaluate, Limits
  <2>2. PICK w : w = Evaluate(m)
    OBVIOUS
  <2>3. w \in States /\ w.peak = m.peak /\ w.current = m.current /\ w.dayStart = m.dayStart
        /\ w.dayOpen = m.dayOpen /\ w.marks = m.marks /\ w.at = m.at /\ w.breach = b
    BY <1>1, <2>1, <2>2 DEF States
  <2>4. Follows(w, sn)
    BY <2>3 DEF Follows
  <2>5. \A l \in Limits : Reference(w, l) = Reference(m, l)
    BY <2>3 DEF Reference
  <2>6. Broken(w) = Broken(m)
    BY <2>3, <2>5 DEF Broken
  <2>7. b # "none"
    BY DEF Limits
  <2> QED BY <1>3, <2>2, <2>3, <2>4, <2>6, <2>7
<1> QED BY <1>2, <1>3

LEMMA SampleStands ==
  ASSUME NEW m, NEW sn, Stands(m, sn), NEW e \in EquityMarks, NEW t \in Nat, m.at <= t
  PROVE  /\ Stands(Evaluate(WithEquity(m, e, t)), Append(sn, Mark(t, e)))
         /\ Evaluate(WithEquity(m, e, t)).at = t
         /\ Evaluate(WithEquity(m, e, t)).breach = "none" => Broken(WithEquity(m, e, t)) = {}
<1> DEFINE n == Len(sn)
<1>1. PICK sn2 : sn2 = Append(sn, Mark(t, e))
  OBVIOUS
<1>2. PICK w : w = WithEquity(m, e, t)
  OBVIOUS
<1>3. PICK z : z = Evaluate(w)
  OBVIOUS
<1>4. sn \in Seq(Samples) /\ n \in Nat /\ n >= 1 /\ Follows(m, sn)
      /\ (m.breach # "none" <=> \E k \in 2 .. n : BrokenAt(sn, k))
  BY DEF Stands, Follows
<1>5. Mark(t, e) \in Samples /\ Mark(t, e).at = t
  BY DEF Samples, Mark
<1>6. Len(sn2) = n + 1 /\ sn2[n + 1] = Mark(t, e)
  BY <1>1, <1>4, <1>5
<1>7. \A k \in 1 .. n : BrokenAt(sn2, k) <=> BrokenAt(sn, k)
  BY <1>1, <1>4, <1>5, EarlierSamplesStand
<1> HIDE DEF n
<1>8. Follows(w, sn2) /\ w.breach = m.breach
  BY <1>1, <1>2, <1>4, SampleFollows
<1>9. BrokenAt(sn2, n + 1) <=> Broken(w) # {}
  BY <1>6, <1>8, LastIsJudged
<1>10. /\ Follows(z, sn2) /\ Broken(z) = Broken(w) /\ z.at = w.at
       /\ z.breach = "none" <=> w.breach = "none" /\ Broken(w) = {}
  BY <1>3, <1>8, EvaluateOnlyLatches
<1>11. (\E k \in 2 .. n + 1 : BrokenAt(sn2, k))
         <=> (\E k \in 2 .. n : BrokenAt(sn, k)) \/ BrokenAt(sn2, n + 1)
  <2>1. \A k \in 2 .. n : k \in 1 .. n /\ k \in 2 .. n + 1
    BY <1>4
  <2>2. n + 1 \in 2 .. n + 1 /\ \A k \in 2 .. n + 1 : k = n + 1 \/ k \in 2 .. n
    BY <1>4
  <2> QED BY <1>7, <2>1, <2>2
<1>12. z.breach # "none" <=> \E k \in 2 .. Len(sn2) : BrokenAt(sn2, k)
  BY <1>4, <1>6, <1>8, <1>9, <1>10, <1>11
<1>13. z.at = t
  BY <1>5, <1>6, <1>8, <1>10 DEF Follows
<1>14. Stands(z, sn2) /\ (z.breach = "none" => Broken(w) = {})
  BY <1>10, <1>12 DEF Stands
<1> QED BY <1>1, <1>2, <1>3, <1>13, <1>14

-----------------------------------------------------------------------------
(* The inductive invariant, and what it says.                              *)
LEMMA FirstStateStands ==
  ASSUME NEW e \in EquityMarks
  PROVE  Stands(OpenFirstTime(0, e), <<Mark(0, e)>>)
<1>1. PICK sn : sn = <<Mark(0, e)>>
  OBVIOUS
<1>2. PICK m : m = OpenFirstTime(0, e)
  OBVIOUS
<1>3. Mark(0, e) \in Samples /\ Mark(0, e).at = 0 /\ Mark(0, e).equity = e /\ e \in Nat \ {0}
  BY MonitorAssumption DEF Mark, Samples
<1>4. sn \in Seq(Samples) /\ Len(sn) = 1 /\ sn[1] = Mark(0, e) /\ 1 .. Len(sn) = {1}
  BY <1>1, <1>3
<1>5. DayStart(0) = 0
  <2>1. PICK D \in Nat \ {0} : D = TicksPerDay
    BY MonitorAssumption
  <2>2. (0 \div D) * D = 0
    BY <2>1
  <2> QED BY <2>1, <2>2 DEF DayStart
<1>6. m \in States /\ m.peak = e /\ m.current = e /\ m.dayStart = 0 /\ m.dayOpen = e
      /\ m.marks = sn /\ m.at = 0 /\ m.breach = "none"
  BY <1>1, <1>2, <1>3, <1>4, <1>5 DEF OpenFirstTime, States
<1>7. Ordered(sn) /\ PeakOf(sn, e) /\ FirstOfDay(sn, 1) /\ WindowFrom(sn, 1) /\ MarksFrom(sn, sn, 1)
  BY <1>3, <1>4 DEF Ordered, PeakOf, FirstOfDay, WindowFrom, MarksFrom
<1>8. Follows(m, sn)
  BY <1>3, <1>4, <1>5, <1>6, <1>7 DEF Follows
<1>9. Broken(m) = {}
  <2>1. \A l \in Limits : Reference(m, l) = e
    <3>1. Highest(m.marks) = e
      <4>1. ToSet(sn) = {Mark(0, e)}
        BY <1>4 DEF ToSet
      <4>2. {q.equity : q \in ToSet(sn)} = {e}
        BY <1>3, <4>1
      <4>3. Max({e}) = e
        BY <1>3, MaxIs
      <4> QED BY <1>6, <4>2, <4>3 DEF Highest
    <3> QED BY <1>6, <3>1 DEF Reference, Limits
  <2>2. \A l \in Limits : Budget[l] \in Nat \ {0}
    BY MonitorAssumption DEF Limits
  <2>3. \A b \in Nat \ {0} : ~((e - e) * 1000 >= b * e)
    BY <1>3
  <2> QED BY <1>6, <2>1, <2>2, <2>3 DEF Broken, LosesAtLeast
<1>10. ~\E k \in 2 .. Len(sn) : BrokenAt(sn, k)
  BY <1>4
<1> QED BY <1>1, <1>2, <1>6, <1>8, <1>9, <1>10 DEF Stands

LEMMA MonitorStarts == MonitorInit => MonitorInv
<1> SUFFICES ASSUME MonitorInit PROVE MonitorInv
  OBVIOUS
<1>1. PICK e \in EquityMarks : monitor = OpenFirstTime(0, e) /\ seen = <<Mark(0, e)>>
  BY DEF MonitorInit
<1>2. Stands(monitor, seen) /\ Stands(saved, savedSeen)
  BY <1>1, FirstStateStands DEF MonitorInit
<1>3. monitor.at = 0 /\ saved.at = 0 /\ instant = 0 /\ firing = {}
  BY <1>1 DEF MonitorInit, OpenFirstTime
<1> QED BY <1>2, <1>3, MonitorAssumption DEF MonitorInv

\* What trips the switch of the limits is what they say.
LEMMA LimitsFire ==
  ASSUME NEW s, NEW o
  PROVE  EvaluateTriggers(s, o) \cap Limits = Broken(s)
  BY DEF EvaluateTriggers, DrawdownTriggers, Broken, Limits

LEMMA MonitorKeeps == MonitorInv /\ [MonitorNext]_monitorVars => MonitorInv'
<1> SUFFICES ASSUME MonitorInv, [MonitorNext]_monitorVars PROVE MonitorInv'
  OBVIOUS
<1>1. CASE InstantPasses
  <2>1. instant' \in 0 .. MaxInstant /\ instant <= instant' /\ instant \in Nat
    BY <1>1, MonitorAssumption DEF MonitorInv, InstantPasses
  <2>2. monitor.at \in Nat /\ saved.at \in Nat
    BY DEF MonitorInv, Stands, Follows, States
  <2> QED BY <1>1, <2>1, <2>2 DEF MonitorInv, InstantPasses
<1>2. CASE SampleEquity
  <2>1. PICK e \in EquityMarks, o \in Observations :
          /\ monitor' = Evaluate(WithEquity(monitor, e, instant))
          /\ firing' = EvaluateTriggers(WithEquity(monitor, e, instant), o)
          /\ seen' = Append(seen, Mark(instant, e))
    BY <1>2 DEF SampleEquity
  <2>2. instant \in Nat /\ monitor.at <= instant /\ Stands(monitor, seen)
    BY MonitorAssumption DEF MonitorInv
  <2>3. Stands(monitor', seen') /\ monitor'.at = instant
    BY <2>1, <2>2, SampleStands
  <2>4. monitor'.breach = "none" => firing' \cap Limits = {}
    BY <2>1, <2>2, SampleStands, LimitsFire
  <2>5. UNCHANGED <<instant, saved, savedSeen>>
    BY <1>2 DEF SampleEquity
  <2> QED BY <2>2, <2>3, <2>4, <2>5 DEF MonitorInv
<1>3. CASE SaveRow
  BY <1>3 DEF MonitorInv, SaveRow
<1>4. CASE RestartMonitor
  BY <1>4 DEF MonitorInv, RestartMonitor, FromRow
<1>5. CASE UNCHANGED monitorVars
  BY <1>5 DEF MonitorInv, monitorVars
<1> QED BY <1>1, <1>2, <1>3, <1>4, <1>5 DEF MonitorNext

LEMMA MonitorStands == MonitorSpec => []MonitorInv
  BY MonitorStarts, MonitorKeeps, PTL DEF MonitorSpec

(***************************************************************************)
(* The state with_equity and _prune leave is well formed: a day start, a   *)
(* peak that is one, and the window's marks in the order of their times,   *)
(* never none.                                                             *)
(***************************************************************************)
THEOREM MonitorKept == MonitorSpec => []MonitorTyped
<1>1. MonitorInv => MonitorTyped
  <2> SUFFICES ASSUME MonitorInv PROVE MonitorTyped
    OBVIOUS
  <2> DEFINE n == Len(seen)
  <2>1. Follows(monitor, seen) /\ seen \in Seq(Samples) /\ n \in Nat /\ n >= 1
    BY DEF MonitorInv, Stands, Follows
  <2>2. PICK s \in 1 .. n : MarksFrom(monitor.marks, seen, s)
    BY <2>1 DEF Follows
  <2>3. Len(monitor.marks) \in Nat /\ Len(monitor.marks) = n - s + 1
        /\ \A i \in 1 .. Len(monitor.marks) : monitor.marks[i] = seen[s + i - 1]
    <3>1. /\ Len(monitor.marks) = n - s + 1
          /\ \A i \in 1 .. Len(monitor.marks) : monitor.marks[i] = seen[s + i - 1]
      BY <2>2 DEF MarksFrom
    <3>2. n - s + 1 \in Nat
      BY <2>1
    <3> QED BY <3>1, <3>2
  <2>4. monitor.marks # <<>>
    BY <2>1, <2>3
  <2>5. ASSUME NEW i \in 2 .. Len(monitor.marks)
        PROVE  monitor.marks[i - 1].at <= monitor.marks[i].at
    <3>1. i - 1 \in 1 .. Len(monitor.marks) /\ i \in 1 .. Len(monitor.marks)
          /\ s + i - 1 \in 1 .. n /\ s + (i - 1) - 1 \in 1 .. s + i - 1
      BY <2>1, <2>3
    <3>2. seen[s + (i - 1) - 1].at <= seen[s + i - 1].at
      BY <2>1, <3>1 DEF Follows, Ordered
    <3> QED BY <2>3, <3>1, <3>2
  <2>6. monitor.dayStart = DayStart(monitor.dayStart)
    BY <2>1, DayStartStands DEF Follows, States
  <2>7. monitor.current <= monitor.peak
    <3>1. n \in 1 .. n
      BY <2>1
    <3> QED BY <2>1, <3>1 DEF Follows, PeakOf
  <2> QED BY <2>4, <2>5, <2>6, <2>7 DEF MonitorInv, MonitorTyped
<1> QED BY <1>1, MonitorStands, PTL

(***************************************************************************)
(* A breach is in force exactly when some sample the state stands on broke *)
(* a limit, and size and the switch follow it: neither midnight            *)
(* (with_equity), nor pruning (_prune), nor a recovery (evaluate), nor a   *)
(* restart (restore) forgets a loss.                                       *)
(***************************************************************************)
THEOREM LossesKept == MonitorSpec => []LossesStaySeen
<1>1. MonitorInv => LossesStaySeen
  BY SizeFollowsBreach DEF MonitorInv, Stands, LossesStaySeen
<1> QED BY <1>1, MonitorStands, PTL

-----------------------------------------------------------------------------
(* The risk desk.  Recursive definitions first: what their stages keep, the *)
(* recursion keeps.                                                        *)
-----------------------------------------------------------------------------
(* A step applied once for each of L: what it yields from a start.         *)
Yields(g, S, L, start, F) ==
  g \in [0 .. L -> S] /\ g[0] = start /\ \A n \in 1 .. L : g[n] = F[n][g[n - 1]]

(* A recursive definition has the function its step yields.                *)
LEMMA StepsExist ==
  ASSUME NEW S, NEW L \in Nat, NEW start \in S, NEW F \in [1 .. L -> [S -> S]]
  PROVE  \E g : Yields(g, S, L, start, F)
<1> DEFINE Bad == {N \in 0 .. L : ~\E g : Yields(g, S, N, start, F)}
<1>1. SUFFICES ASSUME Bad # {} PROVE FALSE
  <2>1. L \in 0 .. L
    OBVIOUS
  <2> QED BY <2>1
<1>2. PICK N \in Bad : \A M \in Bad : N <= M
  <2>1. Bad \in SUBSET Nat
    OBVIOUS
  <2> HIDE DEF Bad
  <2> QED BY <1>1, <2>1, LeastExists
<1>3. N \in 0 .. L /\ ~\E g : Yields(g, S, N, start, F)
  BY <1>2
<1>4. N # 0
  <2>1. SUFFICES ASSUME N = 0 PROVE FALSE
    OBVIOUS
  <2>2. Yields([n \in 0 .. 0 |-> start], S, 0, start, F)
    BY DEF Yields
  <2> QED BY <1>3, <2>1, <2>2
<1>5. N - 1 \in 0 .. L /\ N - 1 \notin Bad
  <2>1. N \in Nat /\ N - 1 \in 0 .. L
    BY <1>3, <1>4
  <2> HIDE DEF Bad
  <2> QED BY <1>2, <2>1
<1>6. PICK g : Yields(g, S, N - 1, start, F)
  BY <1>5
<1>7. N \in 1 .. L /\ g[N - 1] \in S
  BY <1>3, <1>4, <1>6 DEF Yields
<1>8. F[N][g[N - 1]] \in S
  BY <1>7
<1> DEFINE h == [n \in 0 .. N |-> IF n = N THEN F[N][g[N - 1]] ELSE g[n]]
<1>9. h \in [0 .. N -> S]
  BY <1>3, <1>4, <1>6, <1>8 DEF Yields
<1>10. h[0] = start
  BY <1>3, <1>4, <1>6 DEF Yields
<1>11. ASSUME NEW n \in 1 .. N PROVE h[n] = F[n][h[n - 1]]
  <2>1. CASE n = N
    BY <1>3, <1>4, <2>1
  <2>2. CASE n # N
    BY <1>3, <1>4, <1>6, <2>2 DEF Yields
  <2> QED BY <2>1, <2>2
<1>12. Yields(h, S, N, start, F)
  <2> HIDE DEF h
  <2> QED BY <1>9, <1>10, <1>11 DEF Yields
<1> QED BY <1>3, <1>12

(* What 0 has and each number hands on, every number has.                  *)
LEMMA Upward ==
  ASSUME NEW L \in Nat, NEW S, 0 \in S, \A n \in 1 .. L : n - 1 \in S => n \in S
  PROVE  \A n \in 0 .. L : n \in S
<1> DEFINE Off == {n \in 0 .. L : n \notin S}
<1>1. SUFFICES ASSUME Off # {} PROVE FALSE
  OBVIOUS
<1>2. PICK n \in Off : \A m \in Off : n <= m
  <2>1. Off \in SUBSET Nat
    OBVIOUS
  <2> HIDE DEF Off
  <2> QED BY <1>1, <2>1, LeastExists
<1>3. n \in 1 .. L /\ n - 1 \in 0 .. L /\ n - 1 \notin Off
  BY <1>2
<1> QED BY <1>2, <1>3

(* What a recursive definition chooses is the function its step yields, if *)
(* that function answers the definition.                                   *)
Unfolds(r, g, L, start, F) ==
  /\ r = [n \in 0 .. L |-> r[n]] /\ r[0] = start
  /\ \A n \in 1 .. L : r[n - 1] = g[n - 1] => r[n] = F[n][g[n - 1]]

LEMMA StepsUnique ==
  ASSUME NEW S, NEW L \in Nat, NEW start, NEW F, NEW g, NEW r,
         Yields(g, S, L, start, F), Unfolds(r, g, L, start, F)
  PROVE  r = g
<1> DEFINE Same == {n \in 0 .. L : r[n] = g[n]}
<1>1. 0 \in Same
  BY DEF Yields, Unfolds
<1>2. \A n \in 1 .. L : n - 1 \in Same => n \in Same
  <2> TAKE n \in 1 .. L
  <2> HAVE n - 1 \in Same
  <2>1. n \in 0 .. L /\ r[n - 1] = g[n - 1]
    OBVIOUS
  <2>2. r[n] = F[n][g[n - 1]] /\ g[n] = F[n][g[n - 1]]
    BY <2>1 DEF Yields, Unfolds
  <2> QED BY <2>1, <2>2
<1>3. \A n \in 0 .. L : r[n] = g[n]
  <2>1. \A n \in 0 .. L : n \in Same
    <3> HIDE DEF Same
    <3> QED BY <1>1, <1>2, Upward
  <2> QED BY <2>1
<1>4. g = [n \in 0 .. L |-> g[n]]
  BY DEF Yields
<1>5. r = [n \in 0 .. L |-> r[n]]
  BY DEF Unfolds
<1> QED BY <1>3, <1>4, <1>5

-----------------------------------------------------------------------------
(* The running sum of a sequence of integers.                              *)
Added(s) == LET sum[n \in 0 .. Len(s)] == IF n = 0 THEN 0 ELSE sum[n - 1] + s[n] IN sum

LEMMA AddedSteps ==
  ASSUME NEW s \in Seq(Int)
  PROVE  /\ Added(s) \in [0 .. Len(s) -> Int] /\ Added(s)[0] = 0
         /\ \A n \in 1 .. Len(s) : Added(s)[n] = Added(s)[n - 1] + s[n]
         /\ AddUp(s) = Added(s)[Len(s)]
<1> DEFINE L == Len(s)
           F == [n \in 1 .. L |-> [x \in Int |-> x + s[n]]]
           Body(f) == [n \in 0 .. L |-> IF n = 0 THEN 0 ELSE f[n - 1] + s[n]]
           r == Added(s)
<1>1. L \in Nat /\ 0 \in Int /\ \A n \in 1 .. L : s[n] \in Int
  OBVIOUS
<1>2. F \in [1 .. L -> [Int -> Int]]
  BY <1>1
<1>3. PICK g : Yields(g, Int, L, 0, F)
  <2> HIDE DEF F, L
  <2> QED BY <1>1, <1>2, StepsExist
<1>4. \A n \in 1 .. L : \A x \in Int : F[n][x] = x + s[n]
  OBVIOUS
<1>5. g \in [0 .. L -> Int] /\ g[0] = 0 /\ \A n \in 1 .. L : g[n] = g[n - 1] + s[n]
  <2> HIDE DEF F, L
  <2>1. \A n \in 1 .. L : g[n - 1] \in Int
    BY <1>1, <1>3 DEF Yields
  <2> QED BY <1>3, <1>4, <2>1 DEF Yields
<1>6. g = Body(g)
  <2>1. \A n \in 0 .. L : g[n] = Body(g)[n]
    BY <1>1, <1>5
  <2>2. g = [n \in 0 .. L |-> g[n]]
    BY <1>5
  <2> QED BY <2>1, <2>2
<1>7. r = CHOOSE f : f = Body(f)
  BY DEF Added
<1>8. r = Body(r)
  <2> HIDE DEF Body, r
  <2> QED BY <1>6, <1>7
<1>9. AddUp(s) = r[L]
  BY DEF AddUp, Added
<1> HIDE DEF r
<1>10. r[0] = 0 /\ \A n \in 1 .. L : r[n] = r[n - 1] + s[n]
  BY <1>1, <1>8
<1>11. r = g
  <2>1. r = [n \in 0 .. L |-> r[n]]
    BY <1>8
  <2>2. \A n \in 1 .. L : r[n - 1] = g[n - 1] => r[n] = F[n][g[n - 1]]
    <3> TAKE n \in 1 .. L
    <3>1. n - 1 \in 0 .. L
      BY <1>1
    <3>2. g[n - 1] \in Int
      BY <1>5, <3>1
    <3> HIDE DEF F
    <3> QED BY <1>4, <1>10, <3>2
  <2>3. Unfolds(r, g, L, 0, F)
    <3> HIDE DEF F, Body, L
    <3> QED BY <1>10, <2>1, <2>2 DEF Unfolds
  <2> HIDE DEF F, Body, L
  <2> QED BY <1>1, <1>3, <2>3, StepsUnique
<1> QED BY <1>5, <1>9, <1>10, <1>11 DEF r, L

(* What the sums of netting and of the exposure obey: the sum is an        *)
(* amount.                                                                 *)
LEMMA AddUpTyped ==
  ASSUME NEW s \in Seq(Int)
  PROVE  AddUp(s) \in Int
BY AddedSteps

LEMMA AddUpEmpty == AddUp(<<>>) = 0
<1>1. <<>> \in Seq(Int) /\ Len(<<>>) = 0
  OBVIOUS
<1> QED BY <1>1, AddedSteps

(* One more member adds its amount.                                        *)
LEMMA AddUpAppend ==
  ASSUME NEW s \in Seq(Int), NEW x \in Int
  PROVE  AddUp(Append(s, x)) = AddUp(s) + x
<1> DEFINE t == Append(s, x)
           L == Len(s)
           S == {n \in 0 .. L : Added(t)[n] = Added(s)[n]}
<1>1. t \in Seq(Int) /\ L \in Nat /\ Len(t) = L + 1 /\ t[L + 1] = x /\ \A n \in 1 .. L : t[n] = s[n]
  OBVIOUS
<1> HIDE DEF t, L
<1>2. /\ Added(t)[0] = 0 /\ \A n \in 1 .. L + 1 : Added(t)[n] = Added(t)[n - 1] + t[n]
      /\ AddUp(t) = Added(t)[L + 1]
  BY <1>1, AddedSteps
<1>3. /\ Added(s)[0] = 0 /\ \A n \in 1 .. L : Added(s)[n] = Added(s)[n - 1] + s[n]
      /\ AddUp(s) = Added(s)[L]
  BY AddedSteps DEF L
<1>4. \A n \in 0 .. L : n \in S
  <2>1. 0 \in S
    BY <1>1, <1>2, <1>3
  <2>2. \A n \in 1 .. L : n - 1 \in S => n \in S
    BY <1>1, <1>2, <1>3
  <2> HIDE DEF S
  <2> QED BY <1>1, <2>1, <2>2, Upward
<1>5. Added(t)[L] = Added(s)[L]
  BY <1>1, <1>4
<1>6. L + 1 \in 1 .. L + 1 /\ (L + 1) - 1 = L
  BY <1>1
<1>7. Added(t)[L + 1] = Added(t)[L] + x
  BY <1>1, <1>2, <1>6
<1> QED BY <1>2, <1>3, <1>5, <1>7 DEF t

(* Two sequences of one length added member by member.                     *)
LEMMA AddUpSplit ==
  ASSUME NEW r \in Seq(Int), NEW s \in Seq(Int), NEW t \in Seq(Int), Len(s) = Len(r), Len(t) = Len(r),
         \A n \in 1 .. Len(r) : r[n] = s[n] + t[n]
  PROVE  AddUp(r) = AddUp(s) + AddUp(t)
<1>1. PICK L \in Nat : L = Len(r) /\ L = Len(s) /\ L = Len(t)
  OBVIOUS
<1>2. \A n \in 1 .. L : r[n] = s[n] + t[n] /\ s[n] \in Int /\ t[n] \in Int
  BY <1>1
<1>3. PICK a : a = Added(r)
  OBVIOUS
<1>4. PICK b : b = Added(s)
  OBVIOUS
<1>5. PICK c : c = Added(t)
  OBVIOUS
<1>6. a[0] = 0 /\ AddUp(r) = a[L] /\ \A n \in 1 .. L : a[n] = a[n - 1] + r[n]
  BY <1>1, <1>3, AddedSteps
<1>7. b \in [0 .. L -> Int] /\ b[0] = 0 /\ AddUp(s) = b[L] /\ \A n \in 1 .. L : b[n] = b[n - 1] + s[n]
  BY <1>1, <1>4, AddedSteps
<1>8. c \in [0 .. L -> Int] /\ c[0] = 0 /\ AddUp(t) = c[L] /\ \A n \in 1 .. L : c[n] = c[n - 1] + t[n]
  BY <1>1, <1>5, AddedSteps
<1> DEFINE S == {n \in 0 .. L : a[n] = b[n] + c[n]}
<1>9. 0 \in S
  <2>1. 0 \in 0 .. L /\ 0 = 0 + 0
    OBVIOUS
  <2>2. a[0] = b[0] + c[0]
    BY <1>6, <1>7, <1>8
  <2> QED BY <2>1, <2>2
<1>10. ASSUME NEW n \in 1 .. L, n - 1 \in S PROVE n \in S
  <2>1. n \in 0 .. L /\ n - 1 \in 0 .. L
    OBVIOUS
  <2>2. b[n - 1] \in Int /\ c[n - 1] \in Int
    BY <2>1, <1>7, <1>8
  <2>3. a[n - 1] = b[n - 1] + c[n - 1] /\ a[n] = a[n - 1] + r[n] /\ b[n] = b[n - 1] + s[n] /\ c[n] = c[n - 1] + t[n]
    BY <1>6, <1>7, <1>8, <1>10
  <2>4. a[n] = b[n] + c[n]
    BY <1>2, <2>2, <2>3, SMTT(30)
  <2> QED BY <2>1, <2>4
<1>11. L \in S
  <2>1. L \in 0 .. L
    OBVIOUS
  <2> HIDE DEF S
  <2> QED BY <1>9, <1>10, <2>1, Upward
<1> QED BY <1>6, <1>7, <1>8, <1>11

(* A sequence that differs from another in one member.                     *)
LEMMA AddUpOne ==
  ASSUME NEW s \in Seq(Int), NEW k \in 1 .. Len(s), \A n \in 1 .. Len(s) : n # k => s[n] = 0
  PROVE  AddUp(s) = s[k]
<1>1. PICK L \in Nat : L = Len(s)
  OBVIOUS
<1>2. PICK a : a = Added(s)
  OBVIOUS
<1>3. a[0] = 0 /\ AddUp(s) = a[L] /\ \A n \in 1 .. L : a[n] = a[n - 1] + s[n]
  BY <1>1, <1>2, AddedSteps
<1>4. k \in 1 .. L /\ s[k] \in Int /\ \A n \in 1 .. L : n # k => s[n] = 0
  BY <1>1
<1> DEFINE S == {n \in 0 .. L : a[n] = IF n < k THEN 0 ELSE s[k]}
<1>5. 0 \in S
  <2>1. 0 \in 0 .. L /\ 0 < k
    BY <1>4
  <2> QED BY <1>3, <2>1
<1>6. ASSUME NEW n \in 1 .. L, n - 1 \in S PROVE n \in S
  <2>0. n \in 0 .. L /\ a[n - 1] = (IF n - 1 < k THEN 0 ELSE s[k]) /\ a[n] = a[n - 1] + s[n]
    BY <1>3, <1>6
  <2>1. CASE n < k
    <3>1. s[n] = 0 /\ a[n - 1] = 0
      BY <1>4, <2>0, <2>1
    <3> QED BY <2>0, <2>1, <3>1
  <2>2. CASE n = k
    <3>1. a[n - 1] = 0
      BY <1>4, <2>0, <2>2
    <3> QED BY <1>4, <2>0, <2>2, <3>1
  <2>3. CASE n > k
    <3>1. s[n] = 0 /\ a[n - 1] = s[k]
      BY <1>4, <2>0, <2>3
    <3> QED BY <1>4, <2>0, <2>3, <3>1
  <2> QED BY <1>4, <2>1, <2>2, <2>3
<1>7. L \in S
  <2>1. L \in 0 .. L
    OBVIOUS
  <2> HIDE DEF S
  <2> QED BY <1>5, <1>6, <2>1, Upward
<1> QED BY <1>3, <1>4, <1>7

(* A sequence that differs in one member differs in sum by that much.      *)
LEMMA AddUpWith ==
  ASSUME NEW s \in Seq(Int), NEW t \in Seq(Int), Len(t) = Len(s), NEW k \in 1 .. Len(s),
         \A n \in 1 .. Len(s) : n # k => t[n] = s[n]
  PROVE  AddUp(t) = AddUp(s) + (t[k] - s[k])
<1>1. PICK L \in Nat : L = Len(s)
  OBVIOUS
<1> DEFINE d == [n \in 1 .. L |-> IF n = k THEN t[k] - s[k] ELSE 0]
<1>2. k \in 1 .. L /\ \A n \in 1 .. L : s[n] \in Int /\ t[n] \in Int
  BY <1>1
<1>3. d \in Seq(Int) /\ Len(d) = L
  <2>1. d \in [1 .. L -> Int]
    BY <1>2
  <2> HIDE DEF d
  <2> QED BY <2>1
<1>4. \A n \in 1 .. L : t[n] = s[n] + d[n] /\ (n # k => d[n] = 0)
  BY <1>1, <1>2
<1>5. d[k] = t[k] - s[k]
  BY <1>2
<1> HIDE DEF d
<1>6. AddUp(d) = d[k]
  BY <1>2, <1>3, <1>4, AddUpOne
<1>7. AddUp(t) = AddUp(s) + AddUp(d)
  <2>1. Len(s) = Len(t) /\ Len(d) = Len(t) /\ \A n \in 1 .. Len(t) : t[n] = s[n] + d[n]
    BY <1>1, <1>3, <1>4
  <2> QED BY <1>3, <2>1, AddUpSplit
<1> QED BY <1>5, <1>6, <1>7

(* The sum of two sequences joined.                                        *)
LEMMA AddUpConcat ==
  ASSUME NEW s \in Seq(Int), NEW t \in Seq(Int)
  PROVE  AddUp(s \o t) = AddUp(s) + AddUp(t)
<1>1. PICK L \in Nat, M \in Nat : L = Len(s) /\ M = Len(t)
  OBVIOUS
<1>2. PICK u \in Seq(Int) : /\ u = s \o t /\ Len(u) = L + M
                            /\ \A n \in 1 .. L : u[n] = s[n]
                            /\ \A n \in 1 .. M : u[L + n] = t[n]
  <2>1. s \o t \in Seq(Int) /\ Len(s \o t) = L + M
    BY <1>1
  <2>2. \A n \in 1 .. L : (s \o t)[n] = s[n]
    BY <1>1
  <2>3. \A n \in 1 .. M : (s \o t)[L + n] = t[n]
    BY <1>1
  <2> QED BY <2>1, <2>2, <2>3
<1>3. PICK a : a = Added(u)
  OBVIOUS
<1>4. PICK b : b = Added(s)
  OBVIOUS
<1>5. PICK c : c = Added(t)
  OBVIOUS
<1>6. a[0] = 0 /\ AddUp(u) = a[L + M] /\ \A n \in 1 .. L + M : a[n] = a[n - 1] + u[n]
  BY <1>2, <1>3, AddedSteps
<1>7. b \in [0 .. L -> Int] /\ b[0] = 0 /\ AddUp(s) = b[L] /\ \A n \in 1 .. L : b[n] = b[n - 1] + s[n]
  BY <1>1, <1>4, AddedSteps
<1>8. c \in [0 .. M -> Int] /\ c[0] = 0 /\ AddUp(t) = c[M] /\ \A n \in 1 .. M : c[n] = c[n - 1] + t[n]
  BY <1>1, <1>5, AddedSteps
<1> DEFINE S == {n \in 0 .. L : a[n] = b[n]}
           T == {n \in 0 .. M : a[L + n] = b[L] + c[n]}
<1>9. L \in S
  <2>1. 0 \in S
    BY <1>6, <1>7
  <2>2. ASSUME NEW n \in 1 .. L, n - 1 \in S PROVE n \in S
    <3>1. n \in 1 .. L + M /\ n \in 0 .. L
      OBVIOUS
    <3>2. a[n] = a[n - 1] + s[n] /\ b[n] = b[n - 1] + s[n]
      BY <1>2, <1>6, <1>7, <3>1
    <3> QED BY <2>2, <3>1, <3>2
  <2>3. L \in 0 .. L
    OBVIOUS
  <2> HIDE DEF S
  <2> QED BY <2>1, <2>2, <2>3, Upward
<1>10. M \in T
  <2>0. b[L] \in Int
    BY <1>7
  <2>1. 0 \in T
    <3>1. a[L + 0] = b[L] + c[0] /\ 0 \in 0 .. M
      BY <1>8, <1>9, <2>0
    <3> QED BY <3>1
  <2>2. ASSUME NEW n \in 1 .. M, n - 1 \in T PROVE n \in T
    <3>1. L + n \in 1 .. L + M /\ n \in 0 .. M /\ n - 1 \in 0 .. M /\ (L + n) - 1 = L + (n - 1)
      OBVIOUS
    <3>2. a[L + n] = a[L + (n - 1)] + t[n] /\ c[n] = c[n - 1] + t[n] /\ a[L + (n - 1)] = b[L] + c[n - 1]
      BY <1>2, <1>6, <1>8, <2>2, <3>1
    <3>3. c[n - 1] \in Int /\ t[n] \in Int
      <4>1. c[n - 1] \in Int
        BY <1>8, <3>1
      <4>2. n \in 1 .. Len(t)
        BY <1>1
      <4> QED BY <4>1, <4>2
    <3>4. a[L + n] = b[L] + c[n]
      BY <2>0, <3>2, <3>3
    <3> QED BY <3>1, <3>4
  <2>3. M \in 0 .. M
    OBVIOUS
  <2> HIDE DEF T
  <2> QED BY <2>1, <2>2, <2>3, Upward
<1> QED BY <1>2, <1>6, <1>7, <1>8, <1>10

(* Amounts of one sign add up to that sign.                                *)
LEMMA AddUpNat ==
  ASSUME NEW s \in Seq(Int), \A n \in 1 .. Len(s) : s[n] >= 0
  PROVE  AddUp(s) >= 0
<1> DEFINE S == {n \in 0 .. Len(s) : Added(s)[n] \in Nat}
<1>0. Len(s) \in Nat /\ \A n \in 1 .. Len(s) : s[n] \in Nat
  OBVIOUS
<1>1. /\ Added(s)[0] = 0 /\ \A n \in 1 .. Len(s) : Added(s)[n] = Added(s)[n - 1] + s[n]
      /\ AddUp(s) = Added(s)[Len(s)]
  BY <1>0, AddedSteps
<1>2. 0 \in S /\ \A n \in 1 .. Len(s) : n - 1 \in S => n \in S
  BY <1>0, <1>1, SMTT(30)
<1>3. \A n \in 0 .. Len(s) : n \in S
  <2> HIDE DEF S
  <2> QED BY <1>0, <1>2, Upward
<1> QED BY <1>0, <1>1, <1>3

LEMMA AddUpNone ==
  ASSUME NEW s \in Seq(Int), \A n \in 1 .. Len(s) : s[n] = 0
  PROVE  AddUp(s) = 0
<1> DEFINE S == {n \in 0 .. Len(s) : Added(s)[n] = 0}
<1>1. /\ Len(s) \in Nat /\ Added(s)[0] = 0 /\ \A n \in 1 .. Len(s) : Added(s)[n] = Added(s)[n - 1] + s[n]
      /\ AddUp(s) = Added(s)[Len(s)]
  BY AddedSteps
<1>2. 0 \in S /\ \A n \in 1 .. Len(s) : n - 1 \in S => n \in S
  BY <1>1
<1>3. \A n \in 0 .. Len(s) : n \in S
  <2> HIDE DEF S
  <2> QED BY <1>1, <1>2, Upward
<1> QED BY <1>1, <1>3

(* A finite set of amounts has a least one.                                *)
LEMMA MinOfFinite ==
  ASSUME NEW S \in SUBSET Int, IsFiniteSet(S), S # {}
  PROVE  Min(S) \in S /\ \A y \in S : Min(S) <= y
<1> DEFINE Bad == {n \in Nat : \E T \in SUBSET S : /\ T # {} /\ IsFiniteSet(T) /\ Cardinality(T) = n
                                                  /\ ~\E x \in T : \A y \in T : x <= y}
<1>1. Bad = {}
  <2>1. SUFFICES ASSUME Bad # {} PROVE FALSE
    OBVIOUS
  <2>2. PICK n \in Bad : \A m \in Bad : n <= m
    <3>1. Bad \in SUBSET Nat
      OBVIOUS
    <3> HIDE DEF Bad
    <3> QED BY <2>1, <3>1, LeastExists
  <2>3. PICK T \in SUBSET S : /\ T # {} /\ IsFiniteSet(T) /\ Cardinality(T) = n
                              /\ ~\E x \in T : \A y \in T : x <= y
    BY <2>2
  <2>4. PICK x \in T : TRUE
    BY <2>3
  <2> DEFINE R == T \ {x}
  <2>5. IsFiniteSet(R) /\ Cardinality(R) = n - 1 /\ n \in Nat
    BY <2>2, <2>3, <2>4, FS_RemoveElement
  <2>6. R # {}
    <3>1. SUFFICES ASSUME R = {} PROVE FALSE
      OBVIOUS
    <3>2. x \in Int /\ \A y \in T : y = x
      BY <2>4, <3>1
    <3> QED BY <2>3, <2>4, <3>2
  <2>7. n - 1 \in Nat
    BY <2>5, FS_CardinalityType
  <2>8. PICK z \in R : \A y \in R : z <= y
    <3>1. n - 1 \notin Bad
      <4> HIDE DEF Bad
      <4> QED BY <2>2, <2>5, <2>7
    <3>2. R \in SUBSET S
      BY <2>3
    <3> HIDE DEF R
    <3> QED BY <2>5, <2>6, <2>7, <3>1, <3>2
  <2>9. x \in Int /\ z \in Int /\ \A y \in T : y \in Int /\ (y = x \/ y \in R)
    BY <2>4
  <2>10. CASE x <= z
    <3>1. \A y \in T : x <= y
      BY <2>8, <2>9, <2>10
    <3> QED BY <2>3, <2>4, <3>1
  <2>11. CASE z <= x
    <3>1. z \in T /\ \A y \in T : z <= y
      BY <2>8, <2>9, <2>11
    <3> QED BY <2>3, <3>1
  <2> QED BY <2>9, <2>10, <2>11
<1>2. PICK x \in S : \A y \in S : x <= y
  <2>1. Cardinality(S) \in Nat /\ Cardinality(S) \notin Bad
    BY <1>1, FS_CardinalityType
  <2> QED BY <2>1
<1>3. Min(S) = x
  BY <1>2, MinIs
<1> QED BY <1>2, <1>3

(* The smaller and the larger of two amounts.                              *)
LEMMA MinOfTwo ==
  ASSUME NEW a \in Int, NEW b \in Int
  PROVE  Min({a, b}) = IF a <= b THEN a ELSE b
<1>1. CASE a <= b
  BY <1>1, MinIs
<1>2. CASE ~(a <= b)
  BY <1>2, MinIs
<1> QED BY <1>1, <1>2

LEMMA MaxOfTwo ==
  ASSUME NEW a \in Int, NEW b \in Int
  PROVE  Max({a, b}) = IF a >= b THEN a ELSE b
<1>1. CASE a >= b
  BY <1>1, MaxIs
<1>2. CASE ~(a >= b)
  BY <1>2, MaxIs
<1> QED BY <1>1, <1>2

(* The sum over a finite set is an amount; of one member, that member's.   *)
LEMMA TotalTyped ==
  ASSUME NEW f, IsFiniteSet(DOMAIN f), \A x \in DOMAIN f : f[x] \in Int
  PROVE  Total(f) \in Int
<1>1. PICK D : D = DOMAIN f
  OBVIOUS
<1>2. PICK n \in Nat : n = Cardinality(D)
  BY <1>1, FS_CardinalityType
<1>3. PICK g : g \in [1 .. n -> D] /\ IsInjective(g)
  <2>1. ExistsBijection(1 .. n, D)
    BY <1>1, <1>2, FS_CardinalityType
  <2> QED BY <2>1 DEF ExistsBijection, Bijection, Injection, IsInjective
<1>4. SetToSeq(D) \in [1 .. n -> D]
  BY <1>2, <1>3 DEF SetToSeq
<1> DEFINE each == SetToSeq(D)
           s == [k \in 1 .. n |-> f[each[k]]]
<1>5. s \in Seq(Int)
  <2>1. \A k \in 1 .. n : f[each[k]] \in Int
    <3> HIDE DEF each
    <3>1. each \in [1 .. n -> D]
      BY <1>4 DEF each
    <3> QED BY <1>1, <3>1
  <2>2. s \in [1 .. n -> Int]
    <3> HIDE DEF each
    <3> QED BY <2>1
  <2> HIDE DEF s
  <2> QED BY <2>2
<1>6. Total(f) = 0 \/ Total(f) = AddUp(s)
  BY <1>1, <1>2 DEF Total
<1> QED BY <1>5, <1>6, AddUpTyped

LEMMA TotalOne ==
  ASSUME NEW f, NEW x, DOMAIN f = {x}, f[x] \in Int
  PROVE  Total(f) = f[x]
<1>1. IsFiniteSet({x}) /\ Cardinality({x}) = 1
  BY FS_Singleton
<1>2. PICK g : g \in [1 .. 1 -> {x}] /\ IsInjective(g)
  <2> DEFINE h == [k \in 1 .. 1 |-> x]
  <2>1. h \in [1 .. 1 -> {x}] /\ IsInjective(h)
    BY DEF IsInjective
  <2> HIDE DEF h
  <2> QED BY <2>1
<1>3. SetToSeq({x}) \in [1 .. 1 -> {x}]
  BY <1>1, <1>2 DEF SetToSeq
<1>4. SetToSeq({x})[1] = x
  BY <1>3
<1> DEFINE s == [k \in 1 .. 1 |-> f[SetToSeq({x})[k]]]
<1>5. Total(f) = AddUp(s)
  BY <1>1 DEF Total
<1>6. s = <<f[x]>>
  BY <1>4
<1> HIDE DEF s
<1>7. AddUp(<<f[x]>>) = f[x]
  <2>1. <<>> \in Seq(Int) /\ Append(<<>>, f[x]) = <<f[x]>>
    OBVIOUS
  <2>2. AddUp(Append(<<>>, f[x])) = AddUp(<<>>) + f[x]
    BY <2>1, AddUpAppend
  <2> QED BY <2>1, <2>2, AddUpEmpty
<1> QED BY <1>5, <1>6, <1>7

LEMMA TotalNone ==
  ASSUME NEW f, DOMAIN f = {}
  PROVE  Total(f) = 0
BY DEF Total

(* quantize_base_quantity goes toward zero, to a multiple of the lot.      *)
LEMMA QuantiseShrinks ==
  ASSUME NEW q \in Int
  PROVE  /\ Quantise(q) \in Int /\ Quantise(q) % Lot = 0
         /\ q >= 0 => 0 <= Quantise(q) /\ Quantise(q) <= q
         /\ q <= 0 => q <= Quantise(q) /\ Quantise(q) <= 0
<1>1. PICK l \in Nat \ {0} : l = Lot
  BY DeskAssumption
<1>2. \A k \in Int : (l * k) % l = 0
  <2> TAKE k \in Int
  <2>1. PICK r \in Int, x \in Int : r = (l * k) % l /\ x = (l * k) \div l /\ l * k = l * x + r /\ 0 <= r /\ r < l
    BY <1>1
  <2>2. l * (k - x) = r
    BY <1>1, <2>1
  <2>3. CASE k - x >= 1
    <3>1. l * (k - x) >= l
      BY <1>1, <2>1, <2>3
    <3> QED BY <1>1, <2>1, <2>2, <3>1
  <2>4. CASE k - x <= -1
    <3>1. l * (k - x) <= -l
      BY <1>1, <2>1, <2>4
    <3> QED BY <1>1, <2>1, <2>2, <3>1
  <2>5. CASE k = x
    BY <1>1, <2>1, <2>2, <2>5
  <2> QED BY <2>1, <2>3, <2>4, <2>5
<1>3. CASE q >= 0
  <2>1. Quantise(q) = l * (q \div l)
    BY <1>1, <1>3 DEF Quantise
  <2>2. PICK x \in Nat : x = q \div l /\ l * x <= q
    BY <1>1, <1>3
  <2>3. l * x \in Nat
    BY <1>1, <2>2
  <2> QED BY <1>2, <1>1, <1>3, <2>1, <2>2, <2>3
<1>4. CASE q < 0
  <2>1. Quantise(q) = -(l * ((-q) \div l))
    BY <1>1, <1>4 DEF Quantise
  <2>2. PICK x \in Nat : x = (-q) \div l /\ l * x <= -q
    BY <1>1, <1>4
  <2>3. l * x \in Nat /\ -(l * x) = l * (-x)
    BY <1>1, <2>2
  <2>4. Quantise(q) = l * (-x) /\ -x \in Int
    BY <2>1, <2>2, <2>3
  <2>5. Quantise(q) % l = 0
    BY <1>2, <2>4
  <2> QED BY <1>1, <1>4, <2>1, <2>2, <2>3, <2>5
<1> QED BY <1>3, <1>4

(* What is a multiple of the lot already is kept.                          *)
LEMMA QuantiseKeeps ==
  ASSUME NEW q \in Int
  PROVE  Magnitude(Quantise(q)) <= Magnitude(q) /\ Quantise(q) * q >= 0
<1>1. PICK z \in Int : z = Quantise(q) /\ (q >= 0 => 0 <= z /\ z <= q) /\ (q <= 0 => q <= z /\ z <= 0)
  BY QuantiseShrinks
<1>2. z * q >= 0
  <2>1. CASE q >= 0
    BY <1>1, <2>1
  <2>2. CASE q <= 0
    <3>1. (-z) * (-q) >= 0 /\ (-z) * (-q) = z * q
      BY <1>1, <2>2
    <3> QED BY <3>1
  <2> QED BY <2>1, <2>2
<1> QED BY <1>1, <1>2 DEF Magnitude

-----------------------------------------------------------------------------
(* The exposure limits bound what one signal may ask.                      *)
Positioned ==
  book \in [Instruments -> Int] /\ mark \in [Instruments -> Nat \ {0}]
Standing == standing \in [{Portfolio} \cup Strategies -> 0 .. 4]

(* Notionals, exposures and limits are amounts, whatever the book holds.   *)
LEMMA NotionalTyped ==
  ASSUME Positioned, NEW i \in Instruments, NEW q \in Int
  PROVE  Notional(i, q) \in Nat
<1>1. mark[i] \in Nat
  BY DEF Positioned
<1> QED BY <1>1 DEF Notional, Magnitude

LEMMA ExposureTyped ==
  ASSUME Positioned
  PROVE  Gross \in Int /\ Net \in Int /\ \A a : AssetNotional(a) \in Int
<1>1. IsFiniteSet(Open) /\ \A i \in Open : i \in Instruments
  BY DeskAssumption, FS_Subset DEF Open
<1>2. \A i \in Open : Notional(i, book[i]) \in Int /\ book[i] * mark[i] \in Int
  <2> TAKE i \in Open
  <2>1. i \in Instruments /\ book[i] \in Int /\ mark[i] \in Int
    BY <1>1 DEF Positioned
  <2> QED BY <2>1, NotionalTyped
<1>3. Gross \in Int
  <2> DEFINE f == [i \in Open |-> Notional(i, book[i])]
  <2>1. IsFiniteSet(DOMAIN f) /\ \A x \in DOMAIN f : f[x] \in Int
    BY <1>1, <1>2
  <2>2. Total(f) \in Int
    <3> HIDE DEF f
    <3> QED BY <2>1, TotalTyped
  <2> QED BY <2>2 DEF Gross
<1>4. Net \in Int
  <2> DEFINE f == [i \in Open |-> book[i] * mark[i]]
  <2>1. IsFiniteSet(DOMAIN f) /\ \A x \in DOMAIN f : f[x] \in Int
    BY <1>1, <1>2
  <2>2. Total(f) \in Int
    <3> HIDE DEF f
    <3> QED BY <2>1, TotalTyped
  <2> QED BY <2>2 DEF Net
<1>5. ASSUME NEW a PROVE AssetNotional(a) \in Int
  <2> DEFINE f == [i \in {j \in Open : Asset[j] = a} |-> Notional(i, book[i])]
  <2>1. IsFiniteSet({j \in Open : Asset[j] = a})
    BY <1>1, FS_Subset
  <2>2. IsFiniteSet(DOMAIN f) /\ \A x \in DOMAIN f : f[x] \in Int
    BY <2>1, <1>2
  <2>3. Total(f) \in Int
    <3> HIDE DEF f
    <3> QED BY <2>2, TotalTyped
  <2> QED BY <2>3 DEF AssetNotional
<1> QED BY <1>3, <1>4, <1>5

LEMMA PolicyAmounts ==
  /\ \A f \in PolicyFields : Policy[f] \in Nat
  /\ Policy.atrMultiple > 0 /\ Policy.atr > 0
BY DeskAssumption DEF PolicyTyped

LEMMA PercentTyped ==
  ASSUME NEW p \in Nat
  PROVE  Percent(p) \in Nat
<1>1. PICK e \in Nat \ {0} : e = Equity
  BY DeskAssumption
<1>2. p * e \in Nat
  BY <1>1
<1> QED BY <1>1, <1>2 DEF Percent

(* The headrooms are a finite set of amounts, so they have a smallest.     *)
LEMMA HeadroomsTyped ==
  ASSUME Positioned, NEW s \in Signals, s.instrument \in Instruments
  PROVE  Headrooms(s) \in SUBSET Int /\ IsFiniteSet(Headrooms(s)) /\ Headrooms(s) # {}
<1>1. PICK i \in Instruments : i = s.instrument
  OBVIOUS
<1>2. PICK n \in Int : n = Notional(i, book[i])
  <2>1. book[i] \in Int
    BY DEF Positioned
  <2> QED BY <2>1, NotionalTyped
<1>3. PICK g \in Int : g = Gross
  BY ExposureTyped
<1>4. PICK a \in Int : a = AssetNotional(Asset[i])
  BY ExposureTyped
<1>5. PICK t \in Int : t = Toward(s.direction) * Net
  BY ExposureTyped DEF Toward
<1>6. /\ Policy.position \in Nat /\ Policy.positionUsd \in Nat /\ Policy.asset \in Nat /\ Policy.gross \in Nat
      /\ Policy.portfolioUsd \in Nat /\ Policy.net \in Nat /\ Policy.freeMargin \in Nat
      /\ Policy.leverage \in Nat /\ Policy.singleOrderUsd \in Nat
  BY PolicyAmounts DEF PolicyFields
<1>7. /\ Percent(Policy.position) \in Nat /\ Percent(Policy.asset) \in Nat /\ Percent(Policy.gross) \in Nat
      /\ Percent(Policy.net) \in Nat /\ Percent(Policy.freeMargin) \in Nat
  BY <1>6, PercentTyped
<1>8. PICK m \in Int : m = Policy.leverage * (Equity - Percent(Policy.freeMargin))
  <2>1. Equity - Percent(Policy.freeMargin) \in Int
    BY <1>7, DeskAssumption
  <2> QED BY <1>6, <2>1
<1>9. Headrooms(s) =
        {Percent(Policy.position) - n, Policy.positionUsd - n, Percent(Policy.asset) - a,
         Percent(Policy.gross) - g, Policy.portfolioUsd - g, Percent(Policy.net) - t, m - g,
         Policy.singleOrderUsd}
  BY <1>1, <1>2, <1>3, <1>4, <1>5, <1>8 DEF Headrooms
<1>10. Headrooms(s) \in SUBSET Int /\ Headrooms(s) # {}
  BY <1>6, <1>7, <1>9
<1>11. IsFiniteSet(Headrooms(s))
  <2> DEFINE A == {Percent(Policy.position) - n}
             B == A \cup {Policy.positionUsd - n}
             C == B \cup {Percent(Policy.asset) - a}
             D == C \cup {Percent(Policy.gross) - g}
             E == D \cup {Policy.portfolioUsd - g}
             F == E \cup {Percent(Policy.net) - t}
             G == F \cup {m - g}
             H == G \cup {Policy.singleOrderUsd}
  <2>1. Headrooms(s) = H
    BY <1>9
  <2>2. IsFiniteSet(A)
    BY FS_Singleton
  <2> HIDE DEF A
  <2>3. IsFiniteSet(B)
    BY <2>2, FS_AddElement
  <2> HIDE DEF B
  <2>4. IsFiniteSet(C)
    BY <2>3, FS_AddElement
  <2> HIDE DEF C
  <2>5. IsFiniteSet(D)
    BY <2>4, FS_AddElement
  <2> HIDE DEF D
  <2>6. IsFiniteSet(E)
    BY <2>5, FS_AddElement
  <2> HIDE DEF E
  <2>7. IsFiniteSet(F)
    BY <2>6, FS_AddElement
  <2> HIDE DEF F
  <2>8. IsFiniteSet(G)
    BY <2>7, FS_AddElement
  <2> HIDE DEF G
  <2>9. IsFiniteSet(H)
    BY <2>8, FS_AddElement
  <2> HIDE DEF H
  <2> QED BY <2>1, <2>9
<1> QED BY <1>10, <1>11

(* permitted_quantity: what is held and what is permitted stay inside the  *)
(* position limits together, and one order inside its own.                 *)
LEMMA PermittedInside ==
  ASSUME Positioned, NEW s \in Signals, s.instrument \in Instruments
  PROVE  /\ Permitted(s) \in Nat
         /\ Permitted(s) > 0 =>
              /\ Permitted(s) + Notional(s.instrument, book[s.instrument]) <= Percent(Policy.position)
              /\ Permitted(s) + Notional(s.instrument, book[s.instrument]) <= Policy.positionUsd
              /\ Permitted(s) <= Policy.singleOrderUsd
<1>1. PICK m \in Int : m = Min(Headrooms(s)) /\ \A h \in Headrooms(s) : m <= h
  BY HeadroomsTyped, MinOfFinite
<1>2. Permitted(s) = IF m >= 0 THEN m ELSE 0
  BY <1>1, MaxOfTwo DEF Permitted
<1>3. PICK n \in Nat : n = Notional(s.instrument, book[s.instrument])
  <2>1. PICK i \in Instruments : i = s.instrument
    OBVIOUS
  <2>2. book[i] \in Int
    BY DEF Positioned
  <2>3. Notional(i, book[i]) \in Nat
    BY <2>2, NotionalTyped
  <2> QED BY <2>1, <2>3
<1>4. /\ m <= Percent(Policy.position) - n /\ m <= Policy.positionUsd - n
      /\ m <= Policy.singleOrderUsd
  BY <1>1, <1>3 DEF Headrooms
<1>5. Policy.position \in Nat /\ Policy.positionUsd \in Nat /\ Policy.singleOrderUsd \in Nat
  BY PolicyAmounts DEF PolicyFields
<1>6. Percent(Policy.position) \in Nat
  BY <1>5, PercentTyped
<1> QED BY <1>1, <1>2, <1>3, <1>4, <1>5, <1>6

(* The terms of a size are amounts, and the size is inside what is         *)
(* permitted.                                                              *)
LEMMA QuotientTyped ==
  ASSUME NEW a \in Nat, NEW b \in Nat \ {0}
  PROVE  a \div b \in Nat /\ (a \div b) * b <= a
OBVIOUS

LEMMA ProductPositive ==
  ASSUME NEW a \in Nat \ {0}, NEW b \in Nat \ {0}
  PROVE  a * b \in Nat \ {0}
<1>1. a * b >= 1
  <2>1. a * b >= a * 1
    OBVIOUS
  <2> QED BY <2>1
<1> QED BY <1>1

Decidable(s) ==
  /\ s \in Signals /\ s.instrument \in Instruments /\ s.strategy \in DOMAIN Records
  /\ s.conviction \in DOMAIN Records[s.strategy].calibrated

(* Each term of compute_size is an amount that is not negative.            *)
LEMMA RiskTyped ==
  ASSUME NEW s, Decidable(s)
  PROVE  RiskUsd(s) \in Nat
<1>1. PICK c \in Nat : c = Records[s.strategy].calibrated[s.conviction]
  BY DeskAssumption DEF RecordsTyped, Decidable
<1>2. PICK m \in Nat, d \in Nat : m = Policy.riskMinUsd /\ d = Policy.riskStepUsd
  BY PolicyAmounts DEF PolicyFields
<1>3. c * d \in Nat
  BY <1>1, <1>2
<1> QED BY <1>1, <1>2, <1>3 DEF RiskUsd

LEMMA FixedFractionalTyped ==
  ASSUME NEW s, Decidable(s)
  PROVE  FixedFractional(s) \in Nat
<1>1. PICK r \in Nat : r = RiskUsd(s)
  BY RiskTyped
<1>2. s.stop \in Nat
  BY DEF Decidable, Signals
<1>3. PICK a \in Nat \ {0}, b \in Nat \ {0} : a = Policy.atrMultiple /\ b = Policy.atr
  BY PolicyAmounts DEF PolicyFields
<1>4. PICK d \in Nat \ {0} : d = 2 * Policy.atrMultiple * Policy.atr
  <2>1. 2 * a \in Nat \ {0}
    BY <1>3
  <2>2. (2 * a) * b \in Nat \ {0}
    BY <2>1, <1>3, ProductPositive
  <2> QED BY <1>3, <2>2
<1>5. CASE s.stop # 0
  <2>1. r \div s.stop \in Nat
    BY <1>1, <1>2, <1>5, QuotientTyped
  <2> QED BY <1>1, <1>5, <2>1 DEF FixedFractional
<1>6. CASE s.stop = 0
  <2>1. r \div d \in Nat
    BY <1>1, <1>4, QuotientTyped
  <2> QED BY <1>1, <1>4, <1>6, <2>1 DEF FixedFractional
<1> QED BY <1>5, <1>6

LEMMA VolatilityTargetTyped ==
  ASSUME Positioned, NEW s, Decidable(s)
  PROVE  VolatilityTarget(s) \in Nat
<1>1. PICK i \in Instruments : i = s.instrument
  BY DEF Decidable
<1>2. PICK a \in Nat, b \in Nat, c \in Nat \ {0} :
        a = Volatility[i].ewma /\ b = Volatility[i].slow /\ c = Volatility[i].floor
  BY DeskAssumption DEF VolatilityTyped
<1>3. PICK v \in Nat \ {0} : v = VolatilityUsed(i)
  <2>1. \E x \in {a, b, c} : \A y \in {a, b, c} : y <= x
    <3>1. CASE a <= c /\ b <= c
      BY <1>2, <3>1
    <3>2. CASE a <= b /\ c <= b
      BY <1>2, <3>2
    <3>3. CASE b <= a /\ c <= a
      BY <1>2, <3>3
    <3> QED BY <1>2, <3>1, <3>2, <3>3
  <2>2. PICK x \in {a, b, c} : \A y \in {a, b, c} : y <= x
    BY <2>1
  <2>3. x = Max({a, b, c}) /\ c <= x
    <3>1. {a, b, c} \in SUBSET Int /\ c \in {a, b, c}
      BY <1>2
    <3> QED BY <2>2, <3>1, MaxIs
  <2>4. x \in Nat \ {0}
    <3>1. x \in Nat
      BY <1>2, <2>2
    <3> QED BY <1>2, <2>3, <3>1
  <2> QED BY <1>2, <2>3, <2>4 DEF VolatilityUsed
<1>4. PICK m \in Nat \ {0} : m = mark[i]
  BY DEF Positioned
<1>5. PICK t \in Nat : t = Policy.targetVolatility * Equity
  BY PolicyAmounts, DeskAssumption DEF PolicyFields
<1>6. PICK d \in Nat \ {0} : d = v * m
  BY <1>3, <1>4, ProductPositive
<1>7. t \div d \in Nat
  BY <1>5, <1>6, QuotientTyped
<1> QED BY <1>1, <1>3, <1>4, <1>5, <1>6, <1>7 DEF VolatilityTarget

LEMMA KellyTyped ==
  ASSUME Positioned, NEW s, Decidable(s)
  PROVE  Kelly(s) \in SUBSET Nat /\ IsFiniteSet(Kelly(s))
<1>1. PICK i \in Instruments : i = s.instrument
  BY DEF Decidable
<1>2. PICK r : r = Records[s.strategy]
  OBVIOUS
<1>3. PICK u \in Int, v \in Int : u = r.mean /\ v = r.variance
  BY <1>2, DeskAssumption DEF Decidable, RecordsTyped
<1> DEFINE full == IF r.variance <= 0 THEN 0 ELSE Max({r.mean \div r.variance, 0})
           part == (Min({Policy.kelly * full, Policy.kelly}) * Equity) \div (100 * mark[i])
<1>4. full \in Nat
  <2>1. CASE v <= 0
    BY <1>3, <2>1
  <2>2. CASE v > 0
    <3>1. PICK w \in Int : w = u \div v
      BY <1>3, <2>2
    <3>2. Max({w, 0}) = IF w >= 0 THEN w ELSE 0
      BY <3>1, MaxOfTwo
    <3> QED BY <1>3, <2>2, <3>1, <3>2
  <2> QED BY <1>3, <2>1, <2>2
<1>5. part \in Nat
  <2>1. PICK k \in Nat : k = Policy.kelly
    BY PolicyAmounts DEF PolicyFields
  <2>2. PICK x \in Nat : x = Policy.kelly * full
    <3> HIDE DEF full
    <3> QED BY <1>4, <2>1
  <2>3. PICK y \in Nat : y = Min({Policy.kelly * full, Policy.kelly})
    <3> HIDE DEF full
    <3> QED BY <2>1, <2>2, MinOfTwo
  <2>4. PICK z \in Nat : z = y * Equity
    BY DeskAssumption
  <2>5. PICK d \in Nat \ {0} : d = 100 * mark[i]
    BY DEF Positioned
  <2>6. z \div d \in Nat
    BY <2>4, <2>5, QuotientTyped
  <2> HIDE DEF full
  <2> QED BY <2>3, <2>4, <2>5, <2>6
<1>6. Kelly(s) = IF r.trades < Policy.minTradesForKelly THEN {} ELSE {part}
  BY <1>1, <1>2 DEF Kelly
<1> HIDE DEF part
<1>7. Kelly(s) = {} \/ Kelly(s) = {part}
  BY <1>6
<1> QED BY <1>5, <1>7, FS_Singleton, FS_EmptySet

(* compute_size never asks for more than the exposure permits ...          *)
LEMMA SizeInside ==
  ASSUME Positioned, NEW s, Decidable(s)
  PROVE  SizePosition(s) \in Nat /\ SizePosition(s) * mark[s.instrument] <= Permitted(s)
<1>1. PICK i \in Instruments : i = s.instrument
  BY DEF Decidable
<1>2. PICK m \in Nat \ {0} : m = mark[i]
  BY DEF Positioned
<1>3. PICK p \in Nat : p = Permitted(s)
  BY PermittedInside DEF Decidable
<1>4. PICK w \in Nat : w = p \div m /\ w * m <= p
  BY <1>2, <1>3, QuotientTyped
<1>5. PICK f \in Nat, v \in Nat : f = FixedFractional(s) /\ v = VolatilityTarget(s)
  BY FixedFractionalTyped, VolatilityTargetTyped
<1> DEFINE terms == {f, v, w} \cup Kelly(s)
<1>6. terms \in SUBSET Int /\ IsFiniteSet(terms) /\ terms # {} /\ terms \subseteq Nat
  <2>1. IsFiniteSet({f})
    BY FS_Singleton
  <2>2. IsFiniteSet({f} \cup {v})
    BY <2>1, FS_AddElement
  <2>3. IsFiniteSet(({f} \cup {v}) \cup {w})
    BY <2>2, FS_AddElement
  <2>4. {f, v, w} = ({f} \cup {v}) \cup {w}
    OBVIOUS
  <2>5. IsFiniteSet({f, v, w})
    BY <2>3, <2>4
  <2>6. IsFiniteSet(terms)
    BY <2>5, KellyTyped, FS_Union
  <2> QED BY <2>6, KellyTyped
<1>7. PICK least \in Nat : least = Min(terms) /\ least <= w
  <2> w \in terms
    OBVIOUS
  <2> HIDE DEF terms
  <2> QED BY <1>6, MinOfFinite
<1>8. PICK q \in Nat : q = Quantise(least) /\ q <= least
  BY <1>7, QuantiseShrinks
<1>9. q * m <= p
  <2>1. q <= w /\ q * m <= w * m
    BY <1>2, <1>4, <1>7, <1>8
  <2>2. q * m \in Nat /\ w * m \in Nat
    BY <1>2, <1>4, <1>8
  <2> QED BY <1>3, <1>4, <2>1, <2>2
<1>10. SizePosition(s) = IF Sellable(i, q) THEN q ELSE 0
  BY <1>1, <1>2, <1>3, <1>4, <1>5, <1>7, <1>8 DEF SizePosition
<1>11. 0 * m = 0
  BY <1>2
<1> QED BY <1>1, <1>2, <1>3, <1>8, <1>9, <1>10, <1>11

(* ... nor does the derisk multiplier make it more.                        *)
LEMMA SizedInside ==
  ASSUME Positioned, Standing, NEW s, Decidable(s)
  PROVE  /\ Sized(s) \in Nat
         /\ Sized(s) * mark[s.instrument] <= Permitted(s)
<1>1. PICK q \in Nat : q = SizePosition(s) /\ q * mark[s.instrument] <= Permitted(s)
  BY SizeInside
<1>2. PICK d \in 0 .. 4 : d = Derisk(s)
  <2>1. PICK a \in 0 .. 4 : a = standing[Portfolio]
    BY DEF Standing
  <2>2. PICK b \in 0 .. 4 : b = standing[s.strategy]
    BY DEF Standing, Decidable, Signals
  <2> QED BY <2>1, <2>2, MinOfTwo DEF Derisk
<1>3. PICK x \in Nat : x = (q * d) \div 4 /\ x <= q
  <2>1. q * d \in Nat /\ q * d <= q * 4
    BY <1>1, <1>2
  <2> QED BY <1>1, <1>2, <2>1
<1>4. PICK y \in Nat : y = Sized(s) /\ y <= x
  BY <1>1, <1>2, <1>3, QuantiseShrinks DEF Sized
<1>5. PICK m \in Nat : m = mark[s.instrument]
  BY DEF Positioned, Decidable
<1>6. y * m <= q * m /\ y * m \in Nat /\ q * m \in Nat
  <2>1. y <= q
    BY <1>1, <1>3, <1>4
  <2> HIDE <1>1, <1>3, <1>4
  <2> QED BY <2>1, <1>5
<1>7. PICK p \in Nat : p = Permitted(s)
  BY PermittedInside DEF Decidable
<1> QED BY <1>1, <1>4, <1>5, <1>6, <1>7

Requests == [signal : Signals, strategy : Strategies, q : Int]
Asked(rs) == [n \in DOMAIN rs |-> rs[n].q]

(* What the requests of one instrument ask, and its sum.                   *)
LEMMA AskedTyped ==
  ASSUME NEW rs \in Seq(Requests)
  PROVE  Asked(rs) \in Seq(Int) /\ Len(Asked(rs)) = Len(rs) /\ (\A n \in 1 .. Len(rs) : Asked(rs)[n] = rs[n].q)
         /\ Sum(rs) = AddUp(Asked(rs)) /\ Sum(rs) \in Int
<1>1. PICK L \in Nat : L = Len(rs) /\ DOMAIN rs = 1 .. L /\ \A n \in 1 .. L : rs[n] \in Requests
  OBVIOUS
<1>2. \A n \in 1 .. L : rs[n].q \in Int
  BY <1>1 DEF Requests
<1>3. Asked(rs) \in [1 .. L -> Int] /\ \A n \in 1 .. L : Asked(rs)[n] = rs[n].q
  BY <1>1, <1>2 DEF Asked
<1>4. Asked(rs) \in Seq(Int) /\ Len(Asked(rs)) = L
  BY <1>3
<1>5. Sum(rs) = AddUp(Asked(rs))
  BY DEF Sum, Asked
<1> QED BY <1>1, <1>3, <1>4, <1>5, AddUpTyped

(* Finite sets of indices have a largest holding, ties broken by the id.   *)
LEMMA LargestExists ==
  ASSUME NEW rs \in Seq(Requests), NEW T \in SUBSET (1 .. Len(rs)), T # {}
  PROVE  Largest(rs, T) \in T
<1>1. IsFiniteSet(T)
  <2>1. IsFiniteSet(1 .. Len(rs))
    BY FS_Interval
  <2> QED BY <2>1, FS_Subset
<1>2. \A n \in T : rs[n] \in Requests /\ rs[n].q \in Int /\ rs[n].strategy \in Nat
  <2> TAKE n \in T
  <2>1. n \in 1 .. Len(rs)
    OBVIOUS
  <2>2. rs[n] \in Requests
    BY <2>1
  <2>3. rs[n].q \in Int /\ rs[n].strategy \in Strategies
    BY <2>2 DEF Requests
  <2>4. Strategies \subseteq Nat
    BY DeskAssumption
  <2> QED BY <2>2, <2>3, <2>4
<1> DEFINE size(n) == -Magnitude(rs[n].q)
           Sizes == {size(n) : n \in T}
<1>3. \A n \in T : size(n) \in Int
  BY <1>2 DEF Magnitude
<1>4. IsFiniteSet(Sizes)
  <2> DEFINE f == [n \in T |-> size(n)]
  <2>1. f \in Surjection(T, Sizes)
    BY DEF Surjection
  <2> HIDE DEF f, Sizes
  <2> QED BY <1>1, <2>1, FS_Surjection
<1>5. PICK big \in Sizes : \A y \in Sizes : big <= y
  <2>1. Sizes \in SUBSET Int /\ Sizes # {}
    BY <1>3
  <2> HIDE DEF Sizes
  <2> QED BY <1>4, <2>1, MinOfFinite
<1> DEFINE Top == {n \in T : size(n) = big}
           Ids == {rs[n].strategy : n \in Top}
<1>6. PICK id \in Ids : \A y \in Ids : id <= y
  <2>1. Ids \in SUBSET Nat
    BY <1>2
  <2>2. Ids # {}
    BY <1>5
  <2> HIDE DEF Ids
  <2> QED BY <2>1, <2>2, LeastExists
<1>7. PICK n \in Top : id = rs[n].strategy
  BY <1>6
<1>8. ASSUME NEW m \in T PROVE ~Before(rs, m, n)
  <2>1. PICK a \in Int, b \in Int : a = Magnitude(rs[m].q) /\ b = Magnitude(rs[n].q)
    <3>1. -size(m) \in Int /\ -size(n) \in Int
      BY <1>3, <1>7
    <3> QED BY <1>2, <1>7, SMTT(30) DEF Magnitude
  <2>2. -b <= -a
    BY <1>5, <1>7, <2>1
  <2>3. a = b => rs[n].strategy <= rs[m].strategy
    <3>1. SUFFICES ASSUME a = b PROVE rs[n].strategy <= rs[m].strategy
      OBVIOUS
    <3>2. size(m) = big
      BY <1>7, <2>1, <3>1
    <3> QED BY <1>6, <1>7, <3>2
  <2>4. rs[m].strategy \in Nat /\ rs[n].strategy \in Nat
    BY <1>2, <1>7
  <2> QED BY <2>1, <2>2, <2>3, <2>4, SMTT(30) DEF Before
<1>9. n \in T
  BY <1>7
<1> QED BY <1>8, <1>9 DEF Largest

(* The stages of a recursive definition, each in the set of its number.    *)
LEMMA StagesExist ==
  ASSUME NEW S, NEW L \in Nat, NEW I, NEW start, NEW F, start \in I[0],
         \A n \in 0 .. L : I[n] \subseteq S, \A n \in 1 .. L : F[n] \in [I[n - 1] -> I[n]]
  PROVE  \E g : Yields(g, S, L, start, F) /\ \A n \in 0 .. L : g[n] \in I[n]
<1> DEFINE G == [n \in 1 .. L |-> [x \in S |-> IF x \in I[n - 1] THEN F[n][x] ELSE x]]
<1>1. G \in [1 .. L -> [S -> S]]
  <2>1. ASSUME NEW n \in 1 .. L, NEW x \in S PROVE (IF x \in I[n - 1] THEN F[n][x] ELSE x) \in S
    <3>1. n \in 0 .. L
      OBVIOUS
    <3>2. x \in I[n - 1] => F[n][x] \in I[n]
      OBVIOUS
    <3>3. I[n] \subseteq S
      BY <3>1
    <3> QED BY <3>2, <3>3
  <2> QED BY <2>1
<1>2. start \in S
  <2>1. 0 \in 0 .. L
    OBVIOUS
  <2> QED BY <2>1
<1>3. \A n \in 1 .. L : \A x \in I[n - 1] : x \in S => G[n][x] = F[n][x]
  OBVIOUS
<1>4. PICK g : Yields(g, S, L, start, G)
  <2> HIDE DEF G
  <2> QED BY <1>1, <1>2, StepsExist
<1> HIDE DEF G
<1> DEFINE T == {n \in 0 .. L : g[n] \in I[n]}
<1>5. \A n \in 0 .. L : n \in T
  <2>1. 0 \in T
    BY <1>4 DEF Yields
  <2>2. ASSUME NEW n \in 1 .. L, n - 1 \in T PROVE n \in T
    <3>1. n \in 0 .. L /\ n - 1 \in 0 .. L
      OBVIOUS
    <3>2. g[n - 1] \in I[n - 1] /\ g[n - 1] \in S
      BY <2>2, <3>1
    <3>3. g[n] = F[n][g[n - 1]]
      BY <1>3, <1>4, <3>2 DEF Yields
    <3>4. g[n] \in I[n]
      BY <3>2, <3>3
    <3> QED BY <3>1, <3>4
  <2> HIDE DEF T
  <2> QED BY <2>1, <2>2, Upward
<1>6. \A n \in 0 .. L : g[n] \in I[n]
  BY <1>5
<1>7. \A n \in 1 .. L : g[n] = F[n][g[n - 1]]
  <2> TAKE n \in 1 .. L
  <2>1. n - 1 \in 0 .. L
    OBVIOUS
  <2>2. g[n - 1] \in I[n - 1] /\ g[n - 1] \in S
    BY <1>6, <2>1
  <2> QED BY <1>3, <1>4, <2>2 DEF Yields
<1>8. Yields(g, S, L, start, F)
  BY <1>4, <1>7 DEF Yields
<1> QED BY <1>6, <1>8

(* Amounts that are not positive add up to no more than nothing.           *)
LEMMA AddUpBelow ==
  ASSUME NEW s \in Seq(Int), \A n \in 1 .. Len(s) : s[n] <= 0
  PROVE  AddUp(s) <= 0
<1> DEFINE S == {n \in 0 .. Len(s) : Added(s)[n] \in Int /\ Added(s)[n] <= 0}
<1>0. Len(s) \in Nat /\ \A n \in 1 .. Len(s) : s[n] \in Int
  OBVIOUS
<1>1. /\ Added(s)[0] = 0 /\ \A n \in 1 .. Len(s) : Added(s)[n] = Added(s)[n - 1] + s[n]
      /\ AddUp(s) = Added(s)[Len(s)]
  BY <1>0, AddedSteps
<1>2. 0 \in S /\ \A n \in 1 .. Len(s) : n - 1 \in S => n \in S
  BY <1>0, <1>1, SMTT(30)
<1>3. \A n \in 0 .. Len(s) : n \in S
  <2> HIDE DEF S
  <2> QED BY <1>0, <1>2, Upward
<1> QED BY <1>0, <1>1, <1>3

-----------------------------------------------------------------------------
(* What absorbing the cut leaves after k requests have given: those of the *)
(* surplus side that gave are between nothing and what they asked.         *)
Gives(adj, asked, given) ==
  IF adj < 0 THEN 0 <= given /\ given <= asked ELSE asked <= given /\ given <= 0

Absorbing(rs, adj, k, x) ==
  LET from == SurplusSide(rs, adj)
  IN  /\ x.of \in Seq(Requests) /\ Len(x.of) = Len(rs)
      /\ x.side \in SUBSET from /\ Cardinality(x.side) = Cardinality(from) - k
      /\ x.left \in Nat /\ x.left <= Magnitude(adj)
      /\ \A n \in 1 .. Len(rs) :
           /\ x.of[n].signal = rs[n].signal /\ x.of[n].strategy = rs[n].strategy
           /\ n \notin from \ x.side => x.of[n].q = rs[n].q
           /\ n \in from \ x.side => Gives(adj, rs[n].q, x.of[n].q) /\ (x.left > 0 => x.of[n].q = 0)
      /\ Sum(x.of) = Sum(rs) + (IF adj < 0 THEN x.left - Magnitude(adj) ELSE Magnitude(adj) - x.left)

(* The side the cut is taken from is a finite set of the requests.         *)
LEMMA SurplusFinite ==
  ASSUME NEW rs \in Seq(Requests), NEW adj \in Int
  PROVE  /\ SurplusSide(rs, adj) \in SUBSET (1 .. Len(rs)) /\ IsFiniteSet(SurplusSide(rs, adj))
         /\ \A n \in 1 .. Len(rs) :
              n \in SurplusSide(rs, adj) <=> IF adj < 0 THEN rs[n].q > 0 ELSE rs[n].q < 0
<1>1. DOMAIN rs = 1 .. Len(rs) /\ Len(rs) \in Nat
  OBVIOUS
<1>2. SurplusSide(rs, adj) \in SUBSET (1 .. Len(rs))
  BY <1>1 DEF SurplusSide
<1>3. IsFiniteSet(1 .. Len(rs))
  BY <1>1, FS_Interval
<1> QED BY <1>1, <1>2, <1>3, FS_Subset DEF SurplusSide

(* _absorb_quantization, one step: the largest of those left gives what it *)
(* has or what is left of the cut, and nobody else's slice changes.        *)
LEMMA TakeStep ==
  ASSUME NEW rs \in Seq(Requests), NEW adj \in Int, NEW k \in 1 .. Cardinality(SurplusSide(rs, adj)),
         NEW x, Absorbing(rs, adj, k - 1, x)
  PROVE  Absorbing(rs, adj, k, Take(rs, adj, x))
<1>1. PICK from \in SUBSET (1 .. Len(rs)) :
        /\ from = SurplusSide(rs, adj) /\ IsFiniteSet(from)
        /\ \A n \in 1 .. Len(rs) : n \in from <=> IF adj < 0 THEN rs[n].q > 0 ELSE rs[n].q < 0
  BY SurplusFinite
<1>2. PICK of \in Seq(Requests) : of = x.of /\ Len(of) = Len(rs)
  BY DEF Absorbing
<1>3. PICK side \in SUBSET from : side = x.side /\ Cardinality(side) = Cardinality(from) - (k - 1)
  BY <1>1 DEF Absorbing
<1>4. PICK left \in Nat : left = x.left /\ left <= Magnitude(adj)
  BY DEF Absorbing
<1>5. PICK L \in Nat : L = Len(rs)
  OBVIOUS
<1>6. \A n \in 1 .. L :
        /\ of[n].signal = rs[n].signal /\ of[n].strategy = rs[n].strategy
        /\ n \notin from \ side => of[n].q = rs[n].q
        /\ n \in from \ side => Gives(adj, rs[n].q, of[n].q) /\ (left > 0 => of[n].q = 0)
  BY <1>1, <1>2, <1>3, <1>4, <1>5 DEF Absorbing
<1>7. Sum(of) = Sum(rs) + (IF adj < 0 THEN left - Magnitude(adj) ELSE Magnitude(adj) - left)
  BY <1>2, <1>4 DEF Absorbing
<1>8. IsFiniteSet(side) /\ Cardinality(from) \in Nat /\ k \in 1 .. Cardinality(from)
  BY <1>1, <1>3, FS_Subset, FS_CardinalityType
<1>9. side # {}
  <2>1. Cardinality(side) >= 1
    BY <1>3, <1>8
  <2>2. SUFFICES ASSUME side = {} PROVE FALSE
    OBVIOUS
  <2>3. Cardinality(side) = 0
    BY <2>2, FS_EmptySet
  <2> QED BY <2>1, <2>3
<1>10. PICK n \in side : n = Largest(rs, side)
  <2>1. side \in SUBSET (1 .. Len(rs))
    BY <1>1
  <2> QED BY <1>9, <2>1, LargestExists
<1>11. n \in 1 .. L /\ n \in from /\ rs[n] \in Requests /\ of[n] \in Requests /\ of[n].q = rs[n].q
  <2>1. n \in 1 .. L /\ n \in from
    BY <1>1, <1>5, <1>10
  <2>2. rs[n] \in Requests /\ of[n] \in Requests
    BY <1>2, <1>5, <2>1
  <2>3. n \notin from \ side
    BY <1>10
  <2> QED BY <1>6, <2>1, <2>2, <2>3
<1>12. PICK y \in Int : y = rs[n].q /\ IF adj < 0 THEN y > 0 ELSE y < 0
  BY <1>1, <1>5, <1>11 DEF Requests
<1>13. PICK taken \in Nat : taken = Min({Magnitude(of[n].q), left}) /\ taken <= left /\ taken <= Magnitude(y)
                            /\ (left - taken > 0 => taken = Magnitude(y))
  <2>1. PICK m \in Nat : m = Magnitude(y)
    BY DEF Magnitude
  <2>2. Min({m, left}) = IF m <= left THEN m ELSE left
    BY <2>1, MinOfTwo
  <2> QED BY <1>11, <1>12, <2>1, <2>2
<1>14. PICK z \in Int : z = (IF adj < 0 THEN y - taken ELSE y + taken) /\ Gives(adj, y, z) /\ (left - taken > 0 => z = 0)
  BY <1>12, <1>13, SMTT(30) DEF Gives, Magnitude
<1>15. PICK to : to = [of EXCEPT ![n].q = IF adj < 0 THEN @ - taken ELSE @ + taken]
  OBVIOUS
<1>16. to = [of EXCEPT ![n] = [of[n] EXCEPT !.q = z]]
  BY <1>11, <1>12, <1>14, <1>15
<1>17. Take(rs, adj, x) = [of |-> to, left |-> left - taken, side |-> side \ {n}]
  BY <1>2, <1>3, <1>4, <1>10, <1>13, <1>15 DEF Take
<1>18. PICK one \in Requests : one = [of[n] EXCEPT !.q = z] /\ one.q = z
                              /\ one.signal = of[n].signal /\ one.strategy = of[n].strategy
  <2>1. PICK o \in Requests : o = of[n]
    BY <1>11
  <2>2. [o EXCEPT !.q = z] \in Requests
    BY <2>1 DEF Requests
  <2> QED BY <2>1, <2>2 DEF Requests
<1>19. to \in Seq(Requests) /\ Len(to) = L /\ to[n] = one /\ \A m \in 1 .. L : m # n => to[m] = of[m]
  <2>1. to = [of EXCEPT ![n] = one]
    BY <1>16, <1>18
  <2> QED BY <1>2, <1>5, <1>11, <1>18, <2>1
<1>20. Sum(to) = Sum(of) + (z - y)
  <2>1. PICK u \in Seq(Int) : /\ Len(u) = L /\ Sum(of) = AddUp(u)
                              /\ \A m \in 1 .. L : u[m] = of[m].q
    BY <1>2, <1>5, AskedTyped
  <2>2. PICK v \in Seq(Int) : /\ Len(v) = L /\ Sum(to) = AddUp(v)
                              /\ \A m \in 1 .. L : v[m] = to[m].q
    BY <1>19, AskedTyped
  <2>3. \A m \in 1 .. L : m # n => v[m] = u[m]
    BY <1>19, <2>1, <2>2
  <2>4. v[n] = z /\ u[n] = y
    BY <1>11, <1>12, <1>18, <1>19, <2>1, <2>2
  <2>5. AddUp(v) = AddUp(u) + (v[n] - u[n])
    <3>1. Len(v) = Len(u) /\ n \in 1 .. Len(u) /\ \A m \in 1 .. Len(u) : m # n => v[m] = u[m]
      BY <1>11, <2>1, <2>2, <2>3
    <3> HIDE <2>1, <2>2, <2>3
    <3> QED BY <3>1, AddUpWith
  <2> QED BY <2>1, <2>2, <2>4, <2>5
<1>21. Cardinality(side \ {n}) = Cardinality(from) - k
  <2>1. Cardinality(side \ {n}) = Cardinality(side) - 1
    BY <1>8, <1>10, FS_RemoveElement
  <2> QED BY <1>3, <1>8, <2>1
<1>22. PICK rest \in Nat : rest = left - taken /\ rest <= Magnitude(adj) /\ rest <= left
  BY <1>4, <1>13 DEF Magnitude
<1>23. ASSUME NEW m \in 1 .. L
       PROVE  /\ to[m].signal = rs[m].signal /\ to[m].strategy = rs[m].strategy
              /\ m \notin from \ (side \ {n}) => to[m].q = rs[m].q
              /\ m \in from \ (side \ {n}) =>
                   Gives(adj, rs[m].q, to[m].q) /\ (rest > 0 => to[m].q = 0)
  <2>1. CASE m = n
    BY <1>6, <1>11, <1>12, <1>14, <1>18, <1>19, <1>22, <2>1
  <2>2. CASE m # n
    <3>1. m \in from \ (side \ {n}) <=> m \in from \ side
      BY <2>2
    <3>2. rest > 0 => left > 0
      BY <1>22
    <3> QED BY <1>6, <1>19, <2>2, <3>1, <3>2, SMTT(30)
  <2> QED BY <2>1, <2>2
<1>24. Sum(to) = Sum(rs) + (IF adj < 0 THEN rest - Magnitude(adj) ELSE Magnitude(adj) - rest)
  <2>1. Sum(rs) \in Int /\ Magnitude(adj) \in Int
    BY AskedTyped DEF Magnitude
  <2> QED BY <1>7, <1>14, <1>20, <1>22, <2>1, SMTT(30)
<1> DEFINE w == [of |-> to, left |-> rest, side |-> side \ {n}]
<1>25. w.of = to /\ w.left = rest /\ w.side = side \ {n}
  OBVIOUS
<1> HIDE DEF w
<1>26. Absorbing(rs, adj, k, w)
  BY <1>1, <1>3, <1>5, <1>19, <1>21, <1>22, <1>23, <1>24, <1>25 DEF Absorbing
<1> QED BY <1>17, <1>22, <1>26 DEF w

Absorbed(rs, adj, of, left) ==
  Absorbing(rs, adj, Cardinality(SurplusSide(rs, adj)), [of |-> of, left |-> left, side |-> {}])

(* After every request of the surplus side was asked, the stages end.      *)
LEMMA AbsorbEnds ==
  ASSUME NEW rs \in Seq(Requests), NEW adj \in Int
  PROVE  \E left : Absorbed(rs, adj, AbsorbQuantization(rs, adj), left)
<1>1. PICK from : from = SurplusSide(rs, adj)
  OBVIOUS
<1>2. PICK L \in Nat : L = Cardinality(from)
  BY <1>1, SurplusFinite, FS_CardinalityType
<1>3. PICK start : start = [of |-> rs, left |-> Magnitude(adj), side |-> from]
  OBVIOUS
<1> DEFINE S == [of : Seq(Requests), left : Nat, side : SUBSET from]
           I == [k \in 0 .. L |-> {x \in S : Absorbing(rs, adj, k, x)}]
           F == [k \in 1 .. L |-> [x \in I[k - 1] |-> Take(rs, adj, x)]]
           Body(f) == [k \in 0 .. L |-> IF k = 0 THEN start ELSE Take(rs, adj, f[k - 1])]
<1>4. start \in I[0]
  <2>1. Magnitude(adj) \in Nat
    BY DEF Magnitude
  <2>2. start \in S
    BY <1>3, <2>1
  <2>3. start.of = rs /\ start.left = Magnitude(adj) /\ start.side = from
    BY <1>3
  <2>4. Sum(rs) = Sum(rs) + (IF adj < 0 THEN start.left - Magnitude(adj) ELSE Magnitude(adj) - start.left)
    BY <2>1, <2>3, AskedTyped
  <2>5. Absorbing(rs, adj, 0, start)
    BY <1>1, <1>2, <2>1, <2>3, <2>4 DEF Absorbing
  <2> HIDE DEF S
  <2> QED BY <1>2, <2>2, <2>5
<1>5. \A k \in 0 .. L : I[k] \subseteq S
  <2> HIDE DEF S
  <2> QED OBVIOUS
<1>6. ASSUME NEW k \in 1 .. L, NEW x \in I[k - 1] PROVE Take(rs, adj, x) \in I[k]
  <2>1. k - 1 \in 0 .. L /\ k \in 0 .. L
    BY <1>2
  <2>2. x \in S /\ Absorbing(rs, adj, k - 1, x)
    <3> HIDE DEF S
    <3> QED BY <2>1
  <2>3. PICK y : y = Take(rs, adj, x)
    OBVIOUS
  <2>4. Absorbing(rs, adj, k, y)
    BY <1>1, <1>2, <2>2, <2>3, TakeStep
  <2>5. y \in S
    <3>1. y.of \in Seq(Requests) /\ y.left \in Nat /\ y.side \in SUBSET from
      BY <1>1, <2>4 DEF Absorbing
    <3>2. y = [of |-> y.of, left |-> y.left, side |-> y.side]
      BY <2>3 DEF Take
    <3> QED BY <3>1, <3>2
  <2> HIDE DEF S
  <2> QED BY <2>1, <2>3, <2>4, <2>5
<1>7. \A k \in 1 .. L : F[k] \in [I[k - 1] -> I[k]]
  <2> TAKE k \in 1 .. L
  <2>1. \A x \in I[k - 1] : Take(rs, adj, x) \in I[k]
    BY <1>6
  <2>2. F[k] = [x \in I[k - 1] |-> Take(rs, adj, x)]
    <3> HIDE DEF I
    <3> QED OBVIOUS
  <2> HIDE DEF I, F
  <2> QED BY <2>1, <2>2
<1>8. PICK g : Yields(g, S, L, start, F) /\ \A k \in 0 .. L : g[k] \in I[k]
  <2> HIDE DEF I, F, S
  <2> QED BY <1>2, <1>4, <1>5, <1>7, StagesExist
<1>9. \A k \in 1 .. L : \A x \in I[k - 1] : F[k][x] = Take(rs, adj, x)
  <2> HIDE DEF I
  <2> QED OBVIOUS
<1> HIDE DEF I, F, S
<1>10. g = [k \in 0 .. L |-> g[k]] /\ g[0] = start /\ \A k \in 1 .. L : g[k] = Take(rs, adj, g[k - 1])
  <2>1. g = [k \in 0 .. L |-> g[k]] /\ g[0] = start
    BY <1>8 DEF Yields
  <2>2. ASSUME NEW k \in 1 .. L PROVE g[k] = Take(rs, adj, g[k - 1])
    <3>1. k - 1 \in 0 .. L
      BY <1>2
    <3>2. g[k - 1] \in I[k - 1] /\ g[k] = F[k][g[k - 1]]
      BY <1>8, <3>1 DEF Yields
    <3> QED BY <1>9, <3>2
  <2> QED BY <2>1, <2>2
<1>11. g = Body(g)
  <2>1. \A k \in 0 .. L : g[k] = Body(g)[k]
    BY <1>2, <1>10
  <2> QED BY <1>10, <2>1
<1>12. PICK r : r = CHOOSE f : f = Body(f)
  OBVIOUS
<1>13. AbsorbQuantization(rs, adj) = r[L].of
  BY <1>1, <1>2, <1>3, <1>12 DEF AbsorbQuantization
<1>14. r = Body(r)
  <2> HIDE DEF Body
  <2> QED BY <1>11, <1>12
<1>15. r = g
  <2>1. r = [k \in 0 .. L |-> r[k]] /\ r[0] = start
    BY <1>2, <1>14
  <2>2. \A k \in 1 .. L : r[k] = Take(rs, adj, r[k - 1])
    BY <1>2, <1>14
  <2>3. \A k \in 1 .. L : r[k - 1] = g[k - 1] => r[k] = F[k][g[k - 1]]
    BY <1>8, <1>10, <2>2 DEF Yields
  <2>4. Unfolds(r, g, L, start, F)
    BY <2>1, <2>3 DEF Unfolds
  <2> HIDE DEF Body
  <2> QED BY <1>2, <1>4, <1>8, <2>4, StepsUnique
<1>16. PICK x \in S : x = g[L] /\ Absorbing(rs, adj, L, x)
  <2>1. g[L] \in I[L] /\ L \in 0 .. L
    BY <1>2, <1>8
  <2> QED BY <2>1 DEF I
<1>17. x.side = {}
  <2>1. x.side \in SUBSET from /\ Cardinality(x.side) = 0
    BY <1>1, <1>2, <1>16 DEF Absorbing
  <2>2. IsFiniteSet(x.side)
    BY <1>1, <2>1, SurplusFinite, FS_Subset
  <2> QED BY <2>1, <2>2, FS_EmptySet
<1>18. x = [of |-> x.of, left |-> x.left, side |-> {}]
  BY <1>16, <1>17 DEF S
<1>19. Absorbed(rs, adj, x.of, x.left)
  BY <1>1, <1>2, <1>16, <1>18 DEF Absorbed
<1> QED BY <1>13, <1>15, <1>16, <1>19

(* What an absorbed cut leaves, in the terms of the requests alone.        *)
LEMMA AbsorbedGives ==
  ASSUME NEW rs \in Seq(Requests), NEW adj \in Int, NEW of, NEW left, Absorbed(rs, adj, of, left)
  PROVE  /\ of \in Seq(Requests) /\ Len(of) = Len(rs)
         /\ left \in Nat /\ left <= Magnitude(adj)
         /\ \A n \in 1 .. Len(rs) :
              /\ of[n].signal = rs[n].signal /\ of[n].strategy = rs[n].strategy
              /\ n \notin SurplusSide(rs, adj) => of[n].q = rs[n].q
              /\ n \in SurplusSide(rs, adj) =>
                   Gives(adj, rs[n].q, of[n].q) /\ (left > 0 => of[n].q = 0)
         /\ Sum(of) = Sum(rs) + (IF adj < 0 THEN left - Magnitude(adj) ELSE Magnitude(adj) - left)
<1> DEFINE x == [of |-> of, left |-> left, side |-> {}]
<1>1. x.of = of /\ x.left = left /\ x.side = {}
  OBVIOUS
<1>2. Absorbing(rs, adj, Cardinality(SurplusSide(rs, adj)), x)
  BY DEF Absorbed
<1> HIDE DEF x
<1>3. PICK from : from = SurplusSide(rs, adj)
  OBVIOUS
<1>4. /\ of \in Seq(Requests) /\ Len(of) = Len(rs)
      /\ left \in Nat /\ left <= Magnitude(adj)
      /\ Sum(of) = Sum(rs) + (IF adj < 0 THEN left - Magnitude(adj) ELSE Magnitude(adj) - left)
  BY <1>1, <1>2 DEF Absorbing
<1>5. ASSUME NEW n \in 1 .. Len(rs)
      PROVE  /\ of[n].signal = rs[n].signal /\ of[n].strategy = rs[n].strategy
             /\ n \notin from => of[n].q = rs[n].q
             /\ n \in from => Gives(adj, rs[n].q, of[n].q) /\ (left > 0 => of[n].q = 0)
  BY <1>1, <1>2, <1>3 DEF Absorbing
<1> QED BY <1>3, <1>4, <1>5

(* The slices of a plan add up to its net, and none is more than was asked. *)
LEMMA SlicesAddUp ==
  ASSUME NEW rs \in Seq(Requests)
  PROVE  LET net == Quantise(Sum(rs))
             of  == AbsorbQuantization(rs, net - Sum(rs))
         IN  /\ of \in Seq(Requests) /\ Len(of) = Len(rs) /\ Sum(of) = net
             /\ \A n \in 1 .. Len(rs) :
                  /\ of[n].strategy = rs[n].strategy
                  /\ Magnitude(of[n].q) <= Magnitude(rs[n].q) /\ of[n].q * rs[n].q >= 0
<1>1. PICK raw \in Int : raw = Sum(rs)
  BY AskedTyped
<1>2. PICK net \in Int : /\ net = Quantise(raw)
                         /\ raw >= 0 => 0 <= net /\ net <= raw
                         /\ raw <= 0 => raw <= net /\ net <= 0
  BY QuantiseShrinks
<1>3. PICK adj \in Int : adj = net - raw
  OBVIOUS
<1>4. PICK of : of = AbsorbQuantization(rs, adj)
  OBVIOUS
<1>5. PICK left : Absorbed(rs, adj, of, left)
  BY <1>4, AbsorbEnds
<1>6. PICK L \in Nat : L = Len(rs)
  OBVIOUS
<1>7. /\ of \in Seq(Requests) /\ Len(of) = L
      /\ left \in Nat /\ left <= Magnitude(adj)
      /\ \A n \in 1 .. L :
           /\ of[n].signal = rs[n].signal /\ of[n].strategy = rs[n].strategy
           /\ n \notin SurplusSide(rs, adj) => of[n].q = rs[n].q
           /\ n \in SurplusSide(rs, adj) => Gives(adj, rs[n].q, of[n].q) /\ (left > 0 => of[n].q = 0)
      /\ Sum(of) = raw + (IF adj < 0 THEN left - Magnitude(adj) ELSE Magnitude(adj) - left)
  BY <1>1, <1>5, <1>6, AbsorbedGives
<1>8. \A n \in 1 .. L : n \in SurplusSide(rs, adj) <=> IF adj < 0 THEN rs[n].q > 0 ELSE rs[n].q < 0
  BY <1>6, SurplusFinite
<1>9. \A n \in 1 .. L : rs[n].q \in Int /\ of[n].q \in Int
  <2> TAKE n \in 1 .. L
  <2>1. rs[n] \in Requests /\ of[n] \in Requests
    BY <1>6, <1>7
  <2> QED BY <2>1 DEF Requests
<1>10. PICK u \in Seq(Int) : /\ Len(u) = L /\ Sum(of) = AddUp(u)
                             /\ \A n \in 1 .. L : u[n] = of[n].q
  BY <1>7, AskedTyped
<1>11. left = 0
  <2>1. SUFFICES ASSUME left > 0 PROVE FALSE
    BY <1>7
  <2>2. CASE adj < 0
    <3>1. \A n \in 1 .. L : u[n] <= 0
      <4> TAKE n \in 1 .. L
      <4>1. CASE n \in SurplusSide(rs, adj)
        <5>1. of[n].q = 0
          BY <1>7, <2>1, <4>1
        <5> QED BY <1>10, <5>1
      <4>2. CASE n \notin SurplusSide(rs, adj)
        <5>1. of[n].q = rs[n].q /\ ~(rs[n].q > 0)
          BY <1>7, <1>8, <2>2, <4>2
        <5> QED BY <1>9, <1>10, <5>1
      <4> QED BY <4>1, <4>2
    <3>2. AddUp(u) <= 0
      BY <1>10, <3>1, AddUpBelow
    <3>3. Sum(of) = net + left
      BY <1>3, <1>7, <2>2 DEF Magnitude
    <3>4. net >= 0
      BY <1>2, <1>3, <2>2
    <3> QED BY <1>7, <1>10, <2>1, <3>2, <3>3, <3>4
  <2>3. CASE adj > 0
    <3>1. \A n \in 1 .. L : u[n] >= 0
      <4> TAKE n \in 1 .. L
      <4>1. CASE n \in SurplusSide(rs, adj)
        <5>1. of[n].q = 0
          BY <1>7, <2>1, <4>1
        <5> QED BY <1>10, <5>1
      <4>2. CASE n \notin SurplusSide(rs, adj)
        <5>1. of[n].q = rs[n].q /\ ~(rs[n].q < 0)
          BY <1>7, <1>8, <2>3, <4>2
        <5> QED BY <1>9, <1>10, <5>1
      <4> QED BY <4>1, <4>2
    <3>2. AddUp(u) >= 0
      BY <1>10, <3>1, AddUpNat
    <3>3. Sum(of) = net - left
      BY <1>3, <1>7, <2>3 DEF Magnitude
    <3>4. net <= 0
      BY <1>2, <1>3, <2>3
    <3> QED BY <1>7, <1>10, <2>1, <3>2, <3>3, <3>4
  <2>4. CASE adj = 0
    BY <1>7, <2>1, <2>4 DEF Magnitude
  <2> QED BY <2>2, <2>3, <2>4
<1>12. Sum(of) = net
  BY <1>3, <1>7, <1>11 DEF Magnitude
<1>13. ASSUME NEW n \in 1 .. L
       PROVE  /\ of[n].strategy = rs[n].strategy
              /\ Magnitude(of[n].q) <= Magnitude(rs[n].q) /\ of[n].q * rs[n].q >= 0
  <2>1. PICK a \in Int, b \in Int : a = rs[n].q /\ b = of[n].q
    BY <1>9
  <2>2. (b = a) \/ (0 <= b /\ b <= a) \/ (a <= b /\ b <= 0)
    BY <1>7, <2>1 DEF Gives
  <2>3. Magnitude(b) <= Magnitude(a)
    BY <2>1, <2>2 DEF Magnitude
  <2>4. b * a >= 0
    <3>1. (a >= 0 /\ b >= 0) \/ (a <= 0 /\ b <= 0)
      BY <2>1, <2>2
    <3>2. CASE a >= 0 /\ b >= 0
      BY <3>2
    <3>3. CASE a <= 0 /\ b <= 0
      <4>1. (-b) * (-a) >= 0 /\ (-b) * (-a) = b * a
        BY <3>3
      <4> QED BY <4>1
    <3> QED BY <3>1, <3>2, <3>3
  <2> QED BY <1>7, <2>1, <2>3, <2>4
<1> QED BY <1>1, <1>2, <1>3, <1>4, <1>6, <1>7, <1>12, <1>13

(* What a plan buys and sells differ by its net: the rest crossed inside.  *)
LEMMA BoughtSold ==
  ASSUME NEW rs \in Seq(Requests)
  PROVE  Bought(rs) \in Int /\ Sold(rs) \in Int /\ Bought(rs) = Sum(rs) + Sold(rs)
<1>1. PICK L \in Nat : L = Len(rs) /\ DOMAIN rs = 1 .. L
  OBVIOUS
<1>2. PICK s \in Seq(Int) : Len(s) = L /\ (\A n \in 1 .. L : s[n] = rs[n].q) /\ Sum(rs) = AddUp(s)
  BY <1>1, AskedTyped
<1>3. \A n \in 1 .. L : s[n] \in Int
  BY <1>2
<1>4. PICK b \in Seq(Int) : /\ Len(b) = L /\ Bought(rs) = AddUp(b)
                            /\ \A n \in 1 .. L : b[n] = IF s[n] >= 0 THEN s[n] ELSE 0
  <2> DEFINE b == [n \in 1 .. L |-> Max({rs[n].q, 0})]
  <2>1. \A n \in 1 .. L : b[n] = IF s[n] >= 0 THEN s[n] ELSE 0
    BY <1>2, <1>3, MaxOfTwo
  <2>2. b \in [1 .. L -> Int]
    <3>1. b = [n \in 1 .. L |-> b[n]]
      OBVIOUS
    <3>2. \A n \in 1 .. L : b[n] \in Int
      <4> HIDE DEF b
      <4> QED BY <1>3, <2>1
    <3> HIDE DEF b
    <3> QED BY <3>1, <3>2
  <2>3. Bought(rs) = AddUp(b)
    BY <1>1 DEF Bought
  <2> HIDE DEF b
  <2>4. b \in Seq(Int) /\ Len(b) = L
    BY <2>2
  <2> QED BY <2>1, <2>3, <2>4
<1>5. PICK c \in Seq(Int) : /\ Len(c) = L /\ Sold(rs) = AddUp(c)
                            /\ \A n \in 1 .. L : c[n] = IF -s[n] >= 0 THEN -s[n] ELSE 0
  <2> DEFINE c == [n \in 1 .. L |-> Max({-rs[n].q, 0})]
  <2>1. \A n \in 1 .. L : c[n] = IF -s[n] >= 0 THEN -s[n] ELSE 0
    <3> TAKE n \in 1 .. L
    <3>1. PICK x \in Int : x = s[n] /\ x = rs[n].q
      BY <1>2, <1>3
    <3>2. c[n] = Max({-x, 0})
      BY <3>1
    <3>3. PICK y \in Int : y = -x
      OBVIOUS
    <3>4. Max({y, 0}) = IF y >= 0 THEN y ELSE 0
      BY MaxOfTwo
    <3> HIDE DEF c
    <3> QED BY <3>1, <3>2, <3>3, <3>4
  <2>2. c \in [1 .. L -> Int]
    <3>1. c = [n \in 1 .. L |-> c[n]]
      OBVIOUS
    <3>2. \A n \in 1 .. L : c[n] \in Int
      <4> HIDE DEF c
      <4> QED BY <1>3, <2>1
    <3> HIDE DEF c
    <3> QED BY <3>1, <3>2
  <2>3. Sold(rs) = AddUp(c)
    BY <1>1 DEF Sold
  <2> HIDE DEF c
  <2>4. c \in Seq(Int) /\ Len(c) = L
    BY <2>2
  <2> QED BY <2>1, <2>3, <2>4
<1>6. \A n \in 1 .. L : b[n] = s[n] + c[n]
  BY <1>3, <1>4, <1>5, SMTT(30)
<1>7. AddUp(b) = AddUp(s) + AddUp(c)
  <2>1. Len(s) = Len(b) /\ Len(c) = Len(b) /\ \A n \in 1 .. Len(b) : b[n] = s[n] + c[n]
    BY <1>2, <1>4, <1>5, <1>6
  <2> HIDE <1>2, <1>4, <1>5, <1>6
  <2> QED BY <2>1, AddUpSplit
<1> QED BY <1>2, <1>4, <1>5, <1>7, AddUpTyped

(* The plan of any requests on one instrument adds up.                     *)
LEMMA PlanAddsUp ==
  ASSUME NEW i, NEW rs \in Seq(Requests)
  PROVE  /\ AddsUp(NetRequests(i, rs))
         /\ NetRequests(i, rs).instrument = i /\ NetRequests(i, rs).net = Quantise(Sum(rs))
         /\ NetRequests(i, rs).attributions \in Seq(Requests)
         /\ Len(NetRequests(i, rs).attributions) = Len(rs)
         /\ \A n \in 1 .. Len(rs) : NetRequests(i, rs).attributions[n].strategy = rs[n].strategy
<1>1. PICK net \in Int : net = Quantise(Sum(rs)) /\ net % Lot = 0
  BY AskedTyped, QuantiseShrinks
<1>2. PICK of \in Seq(Requests) :
        /\ of = AbsorbQuantization(rs, net - Sum(rs)) /\ Len(of) = Len(rs) /\ Sum(of) = net
        /\ \A n \in 1 .. Len(rs) :
             /\ of[n].strategy = rs[n].strategy
             /\ Magnitude(of[n].q) <= Magnitude(rs[n].q) /\ of[n].q * rs[n].q >= 0
  BY <1>1, SlicesAddUp
<1>3. PICK b \in Int, c \in Int : b = Bought(of) /\ c = Sold(of) /\ b = net + c
  BY <1>2, BoughtSold
<1>4. PICK p : p = NetRequests(i, rs)
  OBVIOUS
<1>5. /\ p.net = net /\ p.requests = rs /\ p.attributions = of /\ p.instrument = i
      /\ p.crossed = Min({b, c})
  BY <1>1, <1>2, <1>3, <1>4 DEF NetRequests
<1>6. b = p.crossed + Max({net, 0})
  <2>1. Min({b, c}) = (IF b <= c THEN b ELSE c) /\ Max({net, 0}) = (IF net >= 0 THEN net ELSE 0)
    BY MinOfTwo, MaxOfTwo
  <2> QED BY <1>3, <1>5, <2>1
<1>7. DOMAIN rs = 1 .. Len(rs)
  OBVIOUS
<1>8. AddsUp(p)
  BY <1>1, <1>2, <1>3, <1>5, <1>6, <1>7 DEF AddsUp
<1> QED BY <1>1, <1>2, <1>4, <1>5, <1>8

(* Where the requests of one instrument stand among the admitted: at lists *)
(* their places among the first m, and amounts elsewhere do not count.     *)
On(adm, n, i) == adm[n].signal.instrument = i
Elsewhere(adm, i, w) ==
  w \in Seq(Int) /\ Len(w) = Len(adm) /\ \A n \in 1 .. Len(adm) : ~On(adm, n, i) => w[n] = 0
Picked(w, at) == [k \in 1 .. Len(at) |-> w[at[k]]]

Places(adm, i, m, x, at) ==
  /\ at \in Seq(Nat) /\ Len(at) = Len(x)
  /\ \A k \in 1 .. Len(x) : at[k] \in 1 .. m /\ x[k] = adm[at[k]] /\ On(adm, at[k], i)
  /\ \A k, l \in 1 .. Len(x) : at[k] = at[l] => k = l
  /\ \A n \in 1 .. m : On(adm, n, i) => \E k \in 1 .. Len(x) : at[k] = n
  /\ \A w : Elsewhere(adm, i, w) => Added(w)[m] = AddUp(Picked(w, at))

(* The amounts at those places are amounts.                                *)
LEMMA PickedTyped ==
  ASSUME NEW w \in Seq(Int), NEW at \in Seq(Nat), \A k \in 1 .. Len(at) : at[k] \in 1 .. Len(w)
  PROVE  Picked(w, at) \in Seq(Int) /\ Len(Picked(w, at)) = Len(at)
         /\ \A k \in 1 .. Len(at) : Picked(w, at)[k] = w[at[k]]
<1>1. PICK L \in Nat : L = Len(at)
  OBVIOUS
<1>2. \A k \in 1 .. L : w[at[k]] \in Int
  <2> TAKE k \in 1 .. L
  <2>1. at[k] \in 1 .. Len(w)
    BY <1>1
  <2> QED BY <2>1
<1>3. Picked(w, at) \in [1 .. L -> Int]
  BY <1>1, <1>2 DEF Picked
<1> QED BY <1>1, <1>3 DEF Picked

(* Grouping the next request puts it after the places found so far.        *)
LEMMA PlacesStep ==
  ASSUME NEW adm \in Seq(Requests), NEW i, NEW m \in 1 .. Len(adm), NEW x \in Seq(Requests),
         NEW at, Places(adm, i, m - 1, x, at)
  PROVE  IF On(adm, m, i) THEN Places(adm, i, m, Append(x, adm[m]), Append(at, m))
                          ELSE Places(adm, i, m, x, at)
<1>1. PICK L \in Nat, N \in Nat : L = Len(x) /\ N = Len(adm)
  OBVIOUS
<1>2. /\ at \in Seq(Nat) /\ Len(at) = L
      /\ \A k \in 1 .. L : at[k] \in 1 .. m - 1 /\ x[k] = adm[at[k]] /\ On(adm, at[k], i)
      /\ \A k, l \in 1 .. L : at[k] = at[l] => k = l
      /\ \A n \in 1 .. m - 1 : On(adm, n, i) => \E k \in 1 .. L : at[k] = n
  BY <1>1 DEF Places
<1>3. \A w : Elsewhere(adm, i, w) => Added(w)[m - 1] = AddUp(Picked(w, at))
  BY DEF Places
<1>4. ASSUME NEW w, Elsewhere(adm, i, w)
      PROVE  /\ Added(w)[m] = AddUp(Picked(w, at)) + w[m]
             /\ w \in Seq(Int) /\ w[m] \in Int /\ (~On(adm, m, i) => w[m] = 0)
             /\ \A k \in 1 .. L : at[k] \in 1 .. Len(w)
  <2>1. w \in Seq(Int) /\ Len(w) = N /\ (~On(adm, m, i) => w[m] = 0)
    BY <1>1, <1>4 DEF Elsewhere
  <2>2. m \in 1 .. Len(w) /\ w[m] \in Int
    BY <1>1, <2>1
  <2>3. Added(w)[m] = Added(w)[m - 1] + w[m]
    BY <2>1, <2>2, AddedSteps
  <2> QED BY <1>1, <1>2, <1>3, <1>4, <2>1, <2>2, <2>3
<1>5. ASSUME ~On(adm, m, i) PROVE Places(adm, i, m, x, at)
  <2>1. ASSUME NEW w, Elsewhere(adm, i, w) PROVE Added(w)[m] = AddUp(Picked(w, at))
    <3>1. Picked(w, at) \in Seq(Int)
      BY <1>2, <1>4, <2>1, PickedTyped
    <3>2. AddUp(Picked(w, at)) \in Int
      BY <3>1, AddUpTyped
    <3> QED BY <1>4, <1>5, <2>1, <3>2
  <2>2. \A k \in 1 .. L : at[k] \in 1 .. m
    BY <1>2
  <2>3. \A n \in 1 .. m : On(adm, n, i) => n \in 1 .. m - 1
    BY <1>5
  <2> QED BY <1>1, <1>2, <2>1, <2>2, <2>3 DEF Places
<1>6. ASSUME On(adm, m, i) PROVE Places(adm, i, m, Append(x, adm[m]), Append(at, m))
  <2>1. PICK y \in Seq(Requests) : /\ y = Append(x, adm[m]) /\ Len(y) = L + 1 /\ y[L + 1] = adm[m]
                                   /\ \A k \in 1 .. L : y[k] = x[k]
    <3>0. adm[m] \in Requests
      OBVIOUS
    <3>1. Append(x, adm[m]) \in Seq(Requests)
      BY <1>1, <3>0
    <3>2. Len(Append(x, adm[m])) = L + 1
      BY <1>1, <3>0
    <3>3. Append(x, adm[m])[L + 1] = adm[m]
      BY <1>1, <3>0
    <3>4. \A k \in 1 .. L : Append(x, adm[m])[k] = x[k]
      BY <1>1, <3>0
    <3> QED BY <3>1, <3>2, <3>3, <3>4
  <2>2. PICK to \in Seq(Nat) : /\ to = Append(at, m) /\ Len(to) = L + 1 /\ to[L + 1] = m
                               /\ \A k \in 1 .. L : to[k] = at[k]
    <3>1. Append(at, m) \in Seq(Nat)
      BY <1>2
    <3>2. Len(Append(at, m)) = L + 1
      BY <1>2
    <3>3. Append(at, m)[L + 1] = m
      BY <1>2
    <3>4. \A k \in 1 .. L : Append(at, m)[k] = at[k]
      BY <1>2
    <3> QED BY <3>1, <3>2, <3>3, <3>4
  <2>3. ASSUME NEW k \in 1 .. L + 1
        PROVE  to[k] \in 1 .. m /\ y[k] = adm[to[k]] /\ On(adm, to[k], i)
    BY <1>2, <1>6, <2>1, <2>2
  <2>4. ASSUME NEW k \in 1 .. L + 1, NEW l \in 1 .. L + 1, to[k] = to[l] PROVE k = l
    <3>1. (k \in 1 .. L \/ k = L + 1) /\ (l \in 1 .. L \/ l = L + 1)
      OBVIOUS
    <3>2. \A j \in 1 .. L : to[j] = at[j] /\ to[j] # m
      BY <1>2, <2>2
    <3> QED BY <1>2, <2>2, <2>4, <3>1, <3>2
  <2>5. ASSUME NEW n \in 1 .. m, On(adm, n, i) PROVE \E k \in 1 .. L + 1 : to[k] = n
    <3>1. CASE n = m
      BY <2>2, <3>1
    <3>2. CASE n # m
      <4>1. n \in 1 .. m - 1
        BY <3>2
      <4>2. PICK k \in 1 .. L : at[k] = n
        BY <1>2, <2>5, <4>1
      <4> QED BY <2>2, <4>2
    <3> QED BY <3>1, <3>2
  <2>6. ASSUME NEW w, Elsewhere(adm, i, w) PROVE Added(w)[m] = AddUp(Picked(w, to))
    <3>1. PICK u \in Seq(Int) : u = Picked(w, at) /\ Len(u) = L /\ \A k \in 1 .. L : u[k] = w[at[k]]
      <4>1. w \in Seq(Int) /\ \A k \in 1 .. Len(at) : at[k] \in 1 .. Len(w)
        BY <1>2, <1>4, <2>6
      <4>2. Picked(w, at) \in Seq(Int) /\ Len(Picked(w, at)) = Len(at)
            /\ \A k \in 1 .. Len(at) : Picked(w, at)[k] = w[at[k]]
        BY <1>2, <4>1, PickedTyped, ZenonT(60)
      <4> QED BY <1>2, <4>2
    <3>2. \A k \in 1 .. L + 1 : to[k] \in 1 .. Len(w)
      <4>1. Len(w) = N
        BY <1>1, <2>6 DEF Elsewhere
      <4> QED BY <1>1, <2>3, <4>1
    <3>3. PICK v \in Seq(Int) : v = Picked(w, to) /\ Len(v) = L + 1 /\ \A k \in 1 .. L + 1 : v[k] = w[to[k]]
      <4>1. w \in Seq(Int) /\ Len(to) = L + 1 /\ \A k \in 1 .. Len(to) : to[k] \in 1 .. Len(w)
        BY <1>4, <2>2, <2>6, <3>2
      <4>2. Picked(w, to) \in Seq(Int) /\ Len(Picked(w, to)) = Len(to)
            /\ \A k \in 1 .. Len(to) : Picked(w, to)[k] = w[to[k]]
        BY <4>1, PickedTyped
      <4> QED BY <4>1, <4>2
    <3>4. w[m] \in Int
      BY <1>4, <2>6
    <3>5. v = Append(u, w[m])
      <4>1. PICK z \in Seq(Int) : /\ z = Append(u, w[m]) /\ Len(z) = L + 1 /\ z[L + 1] = w[m]
                                  /\ \A k \in 1 .. L : z[k] = u[k]
        <5>1. Append(u, w[m]) \in Seq(Int)
          BY <3>1, <3>4
        <5>2. Len(Append(u, w[m])) = L + 1
          BY <3>1, <3>4
        <5>3. Append(u, w[m])[L + 1] = w[m]
          BY <3>1, <3>4
        <5>4. \A k \in 1 .. L : Append(u, w[m])[k] = u[k]
          BY <3>1, <3>4
        <5> QED BY <5>1, <5>2, <5>3, <5>4
      <4>2. ASSUME NEW k \in 1 .. L + 1 PROVE v[k] = z[k]
        <5>1. CASE k = L + 1
          BY <2>2, <3>3, <4>1, <5>1
        <5>2. CASE k # L + 1
          <6>1. k \in 1 .. L
            BY <5>2
          <6>2. v[k] = w[to[k]] /\ to[k] = at[k] /\ u[k] = w[at[k]] /\ z[k] = u[k]
            BY <2>2, <3>1, <3>3, <4>1, <6>1
          <6> QED BY <6>2
        <5> QED BY <5>1, <5>2
      <4> QED BY <3>3, <4>1, <4>2
    <3>6. AddUp(v) = AddUp(u) + w[m]
      BY <3>1, <3>4, <3>5, AddUpAppend
    <3> QED BY <1>4, <2>6, <3>1, <3>3, <3>6
  <2>7. Places(adm, i, m, y, to)
    BY <2>1, <2>2, <2>3, <2>4, <2>5, <2>6 DEF Places
  <2> QED BY <2>1, <2>2, <2>7
<1> QED BY <1>5, <1>6

(* _group_by_instrument finds each request of the instrument once, in      *)
(* order.                                                                  *)
LEMMA GroupPlaces ==
  ASSUME NEW adm \in Seq(Requests), NEW i
  PROVE  Group(adm, i) \in Seq(Requests) /\ \E at : Places(adm, i, Len(adm), Group(adm, i), at)
<1>1. PICK L \in Nat : L = Len(adm)
  OBVIOUS
<1> DEFINE S == Seq(Requests)
           I == [m \in 0 .. L |-> {x \in S : \E at : Places(adm, i, m, x, at)}]
           Step(m, x) == IF adm[m].signal.instrument = i THEN Append(x, adm[m]) ELSE x
           F == [m \in 1 .. L |-> [x \in I[m - 1] |-> Step(m, x)]]
           Body(f) == [m \in 0 .. L |-> IF m = 0 THEN <<>>
                                        ELSE IF adm[m].signal.instrument = i THEN Append(f[m - 1], adm[m])
                                        ELSE f[m - 1]]
<1>2. <<>> \in I[0]
  <2>1. <<>> \in S /\ 0 \in 0 .. L
    OBVIOUS
  <2>2. ASSUME NEW w, Elsewhere(adm, i, w) PROVE Added(w)[0] = AddUp(Picked(w, <<>>))
    <3>1. w \in Seq(Int)
      BY <2>2 DEF Elsewhere
    <3>2. Picked(w, <<>>) = <<>>
      BY DEF Picked
    <3> QED BY <3>1, <3>2, AddedSteps, AddUpEmpty
  <2>3. <<>> \in Seq(Nat) /\ Len(<<>>) = 0
    OBVIOUS
  <2>4. Places(adm, i, 0, <<>>, <<>>)
    BY <2>2, <2>3 DEF Places
  <2> QED BY <2>1, <2>4
<1>3. \A m \in 0 .. L : I[m] \subseteq S
  OBVIOUS
<1>4. ASSUME NEW m \in 1 .. L, NEW x \in I[m - 1] PROVE Step(m, x) \in I[m]
  <2>1. m - 1 \in 0 .. L /\ m \in 0 .. L /\ m \in 1 .. Len(adm)
    BY <1>1
  <2>2. x \in S /\ \E at : Places(adm, i, m - 1, x, at)
    BY <2>1
  <2>3. PICK at : Places(adm, i, m - 1, x, at)
    BY <2>2
  <2>4. PICK y : y = Step(m, x)
    OBVIOUS
  <2>5. IF On(adm, m, i) THEN y = Append(x, adm[m]) ELSE y = x
    BY <2>4 DEF On
  <2>6. \E to : Places(adm, i, m, y, to)
    <3> HIDE DEF I, Step
    <3>1. CASE On(adm, m, i)
      <4>1. Places(adm, i, m, Append(x, adm[m]), Append(at, m))
        BY <2>1, <2>2, <2>3, <3>1, PlacesStep
      <4> QED BY <2>5, <3>1, <4>1
    <3>2. CASE ~On(adm, m, i)
      <4>1. Places(adm, i, m, x, at)
        BY <2>1, <2>2, <2>3, <3>2, PlacesStep
      <4> QED BY <2>5, <3>2, <4>1
    <3> QED BY <3>1, <3>2
  <2>7. y \in S
    <3>1. adm[m] \in Requests
      BY <2>1
    <3> HIDE DEF I, Step
    <3> QED BY <2>2, <2>5, <3>1
  <2> HIDE DEF S, Step
  <2> QED BY <2>1, <2>4, <2>6, <2>7
<1>5. \A m \in 1 .. L : F[m] \in [I[m - 1] -> I[m]]
  <2> TAKE m \in 1 .. L
  <2>1. \A x \in I[m - 1] : Step(m, x) \in I[m]
    BY <1>4
  <2>2. F[m] = [x \in I[m - 1] |-> Step(m, x)]
    <3> HIDE DEF I
    <3> QED OBVIOUS
  <2> HIDE DEF I, F, Step
  <2> QED BY <2>1, <2>2
<1>6. PICK g : Yields(g, S, L, <<>>, F) /\ \A m \in 0 .. L : g[m] \in I[m]
  <2> HIDE DEF I, F, S
  <2> QED BY <1>1, <1>2, <1>3, <1>5, StagesExist
<1>7. \A m \in 1 .. L : \A x \in I[m - 1] : F[m][x] = Step(m, x)
  <2> HIDE DEF I, Step
  <2> QED OBVIOUS
<1> HIDE DEF I, F, S
<1>8. g = [m \in 0 .. L |-> g[m]] /\ g[0] = <<>> /\ \A m \in 1 .. L : g[m] = Step(m, g[m - 1])
  <2>1. g = [m \in 0 .. L |-> g[m]] /\ g[0] = <<>>
    BY <1>6 DEF Yields
  <2>2. ASSUME NEW m \in 1 .. L PROVE g[m] = Step(m, g[m - 1])
    <3>1. m - 1 \in 0 .. L
      BY <1>1
    <3>2. g[m - 1] \in I[m - 1] /\ g[m] = F[m][g[m - 1]]
      BY <1>6, <3>1 DEF Yields
    <3> HIDE DEF Step
    <3> QED BY <1>7, <3>2
  <2> QED BY <2>1, <2>2
<1>9. g = Body(g)
  <2>1. \A m \in 0 .. L : g[m] = Body(g)[m]
    BY <1>1, <1>8
  <2> QED BY <1>8, <2>1
<1>10. PICK r : r = CHOOSE f : f = Body(f)
  OBVIOUS
<1>11. Group(adm, i) = r[L]
  BY <1>1, <1>10 DEF Group
<1>12. r = Body(r)
  <2> HIDE DEF Body
  <2> QED BY <1>9, <1>10
<1>13. r = g
  <2>1. r = [m \in 0 .. L |-> r[m]] /\ r[0] = <<>>
    BY <1>1, <1>12
  <2>2. ASSUME NEW m \in 1 .. L PROVE r[m] = Step(m, r[m - 1])
    <3>1. m \in 0 .. L /\ m # 0
      BY <1>1
    <3>2. r[m] = Body(r)[m]
      <4> HIDE DEF Body
      <4> QED BY <1>12
    <3> HIDE <1>12
    <3> QED BY <3>1, <3>2
  <2>3. \A m \in 1 .. L : r[m - 1] = g[m - 1] => r[m] = F[m][g[m - 1]]
    <3> HIDE DEF Step
    <3> QED BY <1>6, <1>8, <2>2 DEF Yields
  <2>4. Unfolds(r, g, L, <<>>, F)
    BY <2>1, <2>3 DEF Unfolds
  <2> HIDE DEF Body
  <2> QED BY <1>1, <1>6, <2>4, StepsUnique
<1>14. g[L] \in I[L] /\ L \in 0 .. L
  BY <1>1, <1>6
<1>15. g[L] \in S /\ \E at : Places(adm, i, L, g[L], at)
  BY <1>14 DEF I
<1> QED BY <1>1, <1>11, <1>13, <1>15 DEF S

(* A signal per strategy and instrument: the requests of one group are of  *)
(* different strategies.                                                   *)
Apart(adm) ==
  \A m, n \in 1 .. Len(adm) :
    adm[m].strategy = adm[n].strategy /\ adm[m].signal.instrument = adm[n].signal.instrument => m = n

(* A plan is the netting of the group of its instrument.                   *)
LEMMA PlanOf ==
  ASSUME NEW adm \in Seq(Requests), NEW p \in Plans(adm)
  PROVE  /\ p = NetRequests(p.instrument, Group(adm, p.instrument))
         /\ p.instrument \in Grouped(adm)
<1>1. PICK i \in Grouped(adm) : p = NetRequests(i, Group(adm, i))
  BY DEF Plans
<1>2. p.instrument = i
  BY <1>1, GroupPlaces, PlanAddsUp
<1> QED BY <1>1, <1>2

AskedOn(adm, i) == [n \in 1 .. Len(adm) |-> IF On(adm, n, i) THEN adm[n].q ELSE 0]

LEMMA AskedOnTyped ==
  ASSUME NEW adm \in Seq(Requests), NEW i
  PROVE  Elsewhere(adm, i, AskedOn(adm, i))
<1>1. PICK N \in Nat : N = Len(adm)
  OBVIOUS
<1>2. \A n \in 1 .. N : adm[n].q \in Int
  <2> TAKE n \in 1 .. N
  <2>1. adm[n] \in Requests
    BY <1>1
  <2> QED BY <2>1 DEF Requests
<1>3. AskedOn(adm, i) \in [1 .. N -> Int]
  BY <1>1, <1>2 DEF AskedOn
<1> QED BY <1>1, <1>3 DEF AskedOn, Elsewhere

AsksOn(u, adm, i, N) ==
  /\ u = AskedOn(adm, i) /\ Len(u) = N
  /\ \A k \in 1 .. N : u[k] = IF On(adm, k, i) THEN adm[k].q ELSE 0

LEMMA AskedOnIs ==
  ASSUME NEW adm \in Seq(Requests), NEW i, NEW N \in Nat, N = Len(adm)
  PROVE  AskedOn(adm, i) \in Seq(Int) /\ AsksOn(AskedOn(adm, i), adm, i, N)
<1>1. AskedOn(adm, i) \in Seq(Int) /\ Len(AskedOn(adm, i)) = N
  BY AskedOnTyped DEF Elsewhere
<1>2. \A k \in 1 .. N : AskedOn(adm, i)[k] = IF On(adm, k, i) THEN adm[k].q ELSE 0
  BY DEF AskedOn
<1> QED BY <1>1, <1>2 DEF AsksOn

(* A group asks what the admitted requests on its instrument ask.          *)
LEMMA GroupSum ==
  ASSUME NEW adm \in Seq(Requests), NEW i
  PROVE  Sum(Group(adm, i)) = AddUp(AskedOn(adm, i))
<1>1. PICK G, at : G \in Seq(Requests) /\ G = Group(adm, i) /\ Places(adm, i, Len(adm), G, at)
  BY GroupPlaces
<1>2. PICK w : w = AskedOn(adm, i) /\ Elsewhere(adm, i, w)
  BY AskedOnTyped
<1>3. w \in Seq(Int) /\ Len(w) = Len(adm)
  BY <1>2 DEF Elsewhere
<1>4. Added(w)[Len(adm)] = AddUp(Picked(w, at))
  BY <1>1, <1>2 DEF Places
<1>5. AddUp(w) = Added(w)[Len(adm)]
  BY <1>3, AddedSteps
<1>6. PICK L \in Nat : L = Len(G)
  OBVIOUS
<1>7. at \in Seq(Nat) /\ Len(at) = L /\ \A k \in 1 .. L : at[k] \in 1 .. Len(adm) /\ G[k] = adm[at[k]] /\ On(adm, at[k], i)
  BY <1>1, <1>6 DEF Places
<1>8. \A k \in 1 .. L : w[at[k]] = G[k].q
  BY <1>2, <1>7 DEF AskedOn
<1>9. Picked(w, at) = Asked(G)
  <2>1. DOMAIN G = 1 .. L
    BY <1>6
  <2> QED BY <1>7, <1>8, <2>1 DEF Picked, Asked
<1>10. Sum(G) = AddUp(Asked(G))
  BY <1>1, AskedTyped
<1> QED BY <1>1, <1>2, <1>4, <1>5, <1>9, <1>10

-----------------------------------------------------------------------------
(* What each admitted request is booked, and its audit.                    *)
Booked(plans, r) ==
  LET p == CHOOSE x \in plans : x.instrument = r.signal.instrument
      n == CHOOSE k \in DOMAIN p.attributions : p.attributions[k].strategy = r.strategy
  IN  p.attributions[n].q
InPlan(plans, r) == \E p \in plans : p.instrument = r.signal.instrument
AuditOf(plans, reached, approved, r) ==
  IF ~InPlan(plans, r) THEN Refused(r.signal, "netting")
  ELSE Audit(r.signal, reached, approved, IF approved THEN Booked(plans, r) ELSE 0)

LEMMA AuditsSplit ==
  ASSUME NEW acc, NEW plans, NEW reached, NEW approved
  PROVE  AuditAdmitted(acc, plans, reached, approved) =
           acc.audits \o [n \in DOMAIN acc.admitted |-> AuditOf(plans, reached, approved, acc.admitted[n])]
BY DEF AuditAdmitted, AuditOf, Booked, InPlan

BookedOn(plans, adm, i) ==
  [n \in 1 .. Len(adm) |-> IF On(adm, n, i) THEN AuditOf(plans, "order_construction", TRUE, adm[n]).booked ELSE 0]

(* An instrument without a plan is booked nothing.                         *)
LEMMA NothingBooked ==
  ASSUME NEW adm \in Seq(Requests), NEW i, ~\E p \in Plans(adm) : p.instrument = i
  PROVE  BookedOn(Plans(adm), adm, i) \in Seq(Int) /\ Len(BookedOn(Plans(adm), adm, i)) = Len(adm)
         /\ AddUp(BookedOn(Plans(adm), adm, i)) = 0
<1>1. PICK N \in Nat : N = Len(adm)
  OBVIOUS
<1>2. PICK w : w = BookedOn(Plans(adm), adm, i)
  OBVIOUS
<1>3. w \in [1 .. N -> Int] /\ \A n \in 1 .. N : w[n] = 0
  <2>1. \A n \in 1 .. N : On(adm, n, i) => AuditOf(Plans(adm), "order_construction", TRUE, adm[n]).booked = 0
    BY DEF AuditOf, InPlan, Refused, Audit, On
  <2>2. w = [n \in 1 .. N |-> w[n]] /\ \A n \in 1 .. N : w[n] = 0
    BY <1>1, <1>2, <2>1 DEF BookedOn
  <2> QED BY <2>2
<1>4. w \in Seq(Int) /\ Len(w) = N
  BY <1>3
<1> QED BY <1>1, <1>2, <1>3, <1>4, AddUpNone

(* What the admitted requests of a planned instrument are booked is its    *)
(* net.                                                                    *)
LEMMA PlanBooked ==
  ASSUME NEW adm \in Seq(Requests), Apart(adm), NEW p \in Plans(adm)
  PROVE  /\ BookedOn(Plans(adm), adm, p.instrument) \in Seq(Int)
         /\ Len(BookedOn(Plans(adm), adm, p.instrument)) = Len(adm)
         /\ AddUp(BookedOn(Plans(adm), adm, p.instrument)) = p.net
<1>1. PICK i : i = p.instrument
  OBVIOUS
<1>2. PICK G, at : G \in Seq(Requests) /\ G = Group(adm, i) /\ Places(adm, i, Len(adm), G, at)
  BY GroupPlaces
<1>3. p = NetRequests(i, G)
  BY <1>1, <1>2, PlanOf
<1>4. PICK L \in Nat, N \in Nat : L = Len(G) /\ N = Len(adm)
  OBVIOUS
<1>5. PICK of \in Seq(Requests) :
        of = p.attributions /\ Len(of) = L /\ (\A k \in 1 .. L : of[k].strategy = G[k].strategy)
        /\ Sum(of) = p.net
  <2>1. G \in Seq(Requests)
    BY <1>2
  <2>2. /\ AddsUp(p) /\ p.attributions \in Seq(Requests) /\ Len(p.attributions) = Len(G)
        /\ \A n \in 1 .. Len(G) : p.attributions[n].strategy = G[n].strategy
    BY <1>3, <2>1, PlanAddsUp
  <2>3. Sum(p.attributions) = p.net
    BY <2>2 DEF AddsUp
  <2> QED BY <1>4, <2>2, <2>3
<1>6. /\ at \in Seq(Nat) /\ Len(at) = L
      /\ \A k \in 1 .. L : at[k] \in 1 .. N /\ G[k] = adm[at[k]] /\ On(adm, at[k], i)
      /\ \A k, l \in 1 .. L : at[k] = at[l] => k = l
      /\ \A n \in 1 .. N : On(adm, n, i) => \E k \in 1 .. L : at[k] = n
      /\ \A w : Elsewhere(adm, i, w) => Added(w)[N] = AddUp(Picked(w, at))
  BY <1>2, <1>4 DEF Places
<1>7. \A k, l \in 1 .. L : of[k].strategy = of[l].strategy => k = l
  <2> TAKE k, l \in 1 .. L
  <2> HAVE of[k].strategy = of[l].strategy
  <2>1. adm[at[k]].strategy = adm[at[l]].strategy
    <3>1. G[k] = adm[at[k]] /\ G[l] = adm[at[l]]
      BY <1>6
    <3>2. of[k].strategy = G[k].strategy /\ of[l].strategy = G[l].strategy
      BY <1>5
    <3> QED BY <3>1, <3>2
  <2>2. adm[at[k]].signal.instrument = adm[at[l]].signal.instrument
    BY <1>6 DEF On
  <2>3. at[k] \in 1 .. Len(adm) /\ at[l] \in 1 .. Len(adm)
    BY <1>4, <1>6
  <2>4. at[k] = at[l]
    BY <2>1, <2>2, <2>3 DEF Apart
  <2> QED BY <1>6, <2>4
<1>8. ASSUME NEW k \in 1 .. L PROVE Booked(Plans(adm), adm[at[k]]) = of[k].q
  <2>1. PICK r : r = adm[at[k]] /\ r.signal.instrument = i /\ r.strategy = of[k].strategy
    BY <1>5, <1>6 DEF On
  <2>2. (CHOOSE x \in Plans(adm) : x.instrument = r.signal.instrument) = p
    <3>1. \A x \in Plans(adm) : x.instrument = i => x = p
      BY <1>2, <1>3, PlanOf
    <3> QED BY <1>1, <2>1, <3>1
  <2>3. DOMAIN of = 1 .. L
    BY <1>5
  <2>4. (CHOOSE m \in DOMAIN of : of[m].strategy = r.strategy) = k
    BY <1>7, <2>1, <2>3
  <2>5. Booked(Plans(adm), r) = of[CHOOSE m \in DOMAIN of : of[m].strategy = r.strategy].q
    BY <1>5, <2>2 DEF Booked
  <2> QED BY <2>1, <2>4, <2>5
<1>9. \A k \in 1 .. L : of[k].q \in Int
  <2> TAKE k \in 1 .. L
  <2>1. of[k] \in Requests
    BY <1>5
  <2> QED BY <2>1 DEF Requests
<1>10. PICK w : w = BookedOn(Plans(adm), adm, i)
  OBVIOUS
<1>11. ASSUME NEW n \in 1 .. N, On(adm, n, i)
       PROVE  w[n] = Booked(Plans(adm), adm[n]) /\ w[n] \in Int
  <2>1. InPlan(Plans(adm), adm[n])
    BY <1>1, <1>11 DEF InPlan, On
  <2>2. w[n] = Booked(Plans(adm), adm[n])
    BY <1>4, <1>10, <1>11, <2>1 DEF BookedOn, AuditOf, Audit
  <2>3. PICK k \in 1 .. L : at[k] = n
    BY <1>6, <1>11
  <2> QED BY <1>8, <1>9, <2>2, <2>3
<1>12. w \in [1 .. N -> Int] /\ \A n \in 1 .. N : ~On(adm, n, i) => w[n] = 0
  <2>1. w = [n \in 1 .. N |-> w[n]] /\ \A n \in 1 .. N : ~On(adm, n, i) => w[n] = 0
    BY <1>4, <1>10 DEF BookedOn
  <2>2. \A n \in 1 .. N : w[n] \in Int
    BY <1>11, <2>1
  <2> QED BY <2>1, <2>2
<1>13. Elsewhere(adm, i, w) /\ w \in Seq(Int) /\ Len(w) = N
  BY <1>4, <1>12 DEF Elsewhere
<1>14. AddUp(w) = AddUp(Picked(w, at))
  BY <1>6, <1>13, AddedSteps
<1>15. Picked(w, at) = Asked(of)
  <2>1. \A k \in 1 .. L : w[at[k]] = of[k].q
    BY <1>6, <1>8, <1>11
  <2>2. DOMAIN of = 1 .. L
    BY <1>5
  <2> QED BY <1>6, <2>1, <2>2 DEF Picked, Asked
<1>16. Sum(of) = AddUp(Asked(of))
  BY AskedTyped
<1> QED BY <1>1, <1>4, <1>5, <1>10, <1>13, <1>14, <1>15, <1>16

Stages == {"signal_admission", "exposure", "flattened", "conviction", "sizing", "sized"}
Audits == [strategy : Strategies, instrument : DOMAIN Asset, direction : {"LONG", "SHORT", "FLAT"},
           stage : Stages, approved : BOOLEAN, booked : Int]
Asks(r) ==
  /\ r.signal.instrument \in Instruments
  /\ IF r.signal.direction = "FLAT" THEN r.q \in {0, -book[r.signal.instrument]}
     ELSE Magnitude(r.q) * mark[r.signal.instrument] <= Permitted(r.signal)
Flattened(adm, i) == \A k \in 1 .. Len(adm) : On(adm, k, i) => adm[k].signal.direction = "FLAT"
Rejects(a) == a.booked = 0 /\ a.approved = FALSE

(* Where sizing stands after n signals of the batch.                       *)
Sizing(n, acc) ==
  /\ acc.admitted \in Seq(Requests) /\ acc.audits \in Seq(Audits)
  /\ Len(acc.admitted) + Len(acc.audits) = n
  /\ \A k \in 1 .. Len(acc.audits) : Rejects(acc.audits[k])
  /\ \A k \in 1 .. Len(acc.admitted) :
       /\ Asks(acc.admitted[k])
       /\ <<acc.admitted[k].strategy, acc.admitted[k].signal.instrument>> \in acc.seen
  /\ Apart(acc.admitted)
  /\ \A i \in Instruments : Flattened(acc.admitted, i) =>
       AddUp(AskedOn(acc.admitted, i)) = IF i \in acc.closing THEN -book[i] ELSE 0

(* A refused signal leaves an audit, and what was sized before as it was.  *)
LEMMA RefuseStep ==
  ASSUME NEW n \in Nat \ {0}, NEW acc, Sizing(n - 1, acc), NEW a \in Audits, Rejects(a), NEW next,
         next.admitted = acc.admitted, next.audits = Append(acc.audits, a),
         acc.seen \subseteq next.seen, next.closing = acc.closing
  PROVE  Sizing(n, next)
<1>1. PICK adm \in Seq(Requests), auds \in Seq(Audits) :
        adm = acc.admitted /\ auds = acc.audits /\ Len(adm) + Len(auds) = n - 1
  BY DEF Sizing
<1>2. PICK L \in Nat, M \in Nat : L = Len(auds) /\ M = Len(adm) /\ M + L = n - 1
  <2>1. Len(auds) \in Nat /\ Len(adm) \in Nat
    OBVIOUS
  <2> QED BY <1>1, <2>1
<1>3. PICK to \in Seq(Audits) : to = Append(auds, a) /\ Len(to) = L + 1 /\ to[L + 1] = a
                                /\ \A k \in 1 .. L : to[k] = auds[k]
  <2>1. Append(auds, a) \in Seq(Audits)
    BY <1>2
  <2>2. Len(Append(auds, a)) = L + 1
    BY <1>2
  <2>3. Append(auds, a)[L + 1] = a
    BY <1>2
  <2>4. \A k \in 1 .. L : Append(auds, a)[k] = auds[k]
    BY <1>2
  <2> QED BY <2>1, <2>2, <2>3, <2>4
<1>4. \A k \in 1 .. L : Rejects(auds[k])
  BY <1>1, <1>2 DEF Sizing
<1>5. \A k \in 1 .. L + 1 : Rejects(to[k])
  <2> TAKE k \in 1 .. L + 1
  <2>1. CASE k = L + 1
    BY <1>3, <2>1
  <2>2. CASE k # L + 1
    <3>1. k \in 1 .. L
      BY <2>2
    <3>2. to[k] = auds[k]
      BY <1>3, <3>1
    <3> QED BY <1>4, <3>1, <3>2
  <2> QED BY <2>1, <2>2
<1>6. Len(adm) + Len(to) = n
  <2>1. PICK b : b = Len(adm) /\ b = M
    BY <1>2
  <2>2. PICK c : c = Len(to) /\ c = L + 1
    BY <1>3
  <2>3. b + c = n
    BY <1>2, <2>1, <2>2
  <2> QED BY <2>1, <2>2, <2>3
<1>7. \A k \in 1 .. Len(adm) : Asks(adm[k]) /\ <<adm[k].strategy, adm[k].signal.instrument>> \in next.seen
  BY <1>1 DEF Sizing
<1>8. /\ Apart(adm)
      /\ \A i \in Instruments : Flattened(adm, i) =>
           AddUp(AskedOn(adm, i)) = IF i \in next.closing THEN -book[i] ELSE 0
  BY <1>1 DEF Sizing
<1>9. next.admitted = adm /\ next.audits = to
  BY <1>1, <1>3
<1> QED BY <1>3, <1>5, <1>6, <1>7, <1>8, <1>9 DEF Sizing

(* An admitted signal leaves one request of a pair not seen before; of     *)
(* those that flatten one holding only the first asks for it.              *)
LEMMA AdmitStep ==
  ASSUME Positioned, NEW n \in Nat \ {0}, NEW acc, Sizing(n - 1, acc), NEW r \in Requests, Asks(r),
         <<r.strategy, r.signal.instrument>> \notin acc.seen, NEW next,
         next.admitted = Append(acc.admitted, r), next.audits = acc.audits,
         next.seen = acc.seen \cup {<<r.strategy, r.signal.instrument>>},
         IF r.signal.direction = "FLAT"
         THEN r.q = -ToFlatten(acc, r.signal) /\ next.closing = acc.closing \cup {r.signal.instrument}
         ELSE next.closing = acc.closing
  PROVE  Sizing(n, next)
<1>1. PICK adm \in Seq(Requests), auds \in Seq(Audits) :
        adm = acc.admitted /\ auds = acc.audits /\ Len(adm) + Len(auds) = n - 1
  BY DEF Sizing
<1>2. PICK L \in Nat, M \in Nat : L = Len(adm) /\ M = Len(auds) /\ L + M = n - 1
  <2>1. Len(auds) \in Nat /\ Len(adm) \in Nat
    OBVIOUS
  <2> QED BY <1>1, <2>1
<1>3. PICK to \in Seq(Requests) : to = Append(adm, r) /\ Len(to) = L + 1 /\ to[L + 1] = r
                                  /\ \A k \in 1 .. L : to[k] = adm[k]
  <2>1. Append(adm, r) \in Seq(Requests)
    BY <1>2
  <2>2. Len(Append(adm, r)) = L + 1
    BY <1>2
  <2>3. Append(adm, r)[L + 1] = r
    BY <1>2
  <2>4. \A k \in 1 .. L : Append(adm, r)[k] = adm[k]
    BY <1>2
  <2> QED BY <2>1, <2>2, <2>3, <2>4
<1>4. /\ \A k \in 1 .. L : Asks(adm[k]) /\ <<adm[k].strategy, adm[k].signal.instrument>> \in acc.seen
      /\ Apart(adm) /\ \A k \in 1 .. Len(auds) : Rejects(auds[k])
      /\ \A i \in Instruments : Flattened(adm, i) =>
           AddUp(AskedOn(adm, i)) = IF i \in acc.closing THEN -book[i] ELSE 0
  BY <1>1, <1>2 DEF Sizing
<1>5. \A k \in 1 .. L + 1 : k = L + 1 \/ k \in 1 .. L
  BY <1>2
<1>6. ASSUME NEW k \in 1 .. L + 1
      PROVE  Asks(to[k]) /\ <<to[k].strategy, to[k].signal.instrument>> \in next.seen
  BY <1>3, <1>4, <1>5
<1>7. Apart(to)
  <2>1. ASSUME NEW k \in 1 .. L PROVE ~(to[k].strategy = r.strategy /\ to[k].signal.instrument = r.signal.instrument)
    BY <1>3, <1>4
  <2>2. ASSUME NEW k \in 1 .. L + 1, NEW m \in 1 .. L + 1, to[k].strategy = to[m].strategy,
               to[k].signal.instrument = to[m].signal.instrument
        PROVE  k = m
    <3>1. CASE k \in 1 .. L /\ m \in 1 .. L
      <4>1. to[k] = adm[k] /\ to[m] = adm[m]
        BY <1>3, <3>1
      <4> QED BY <1>2, <1>4, <2>2, <3>1, <4>1 DEF Apart
    <3>2. CASE k = L + 1 /\ m \in 1 .. L
      BY <1>3, <2>1, <2>2, <3>2
    <3>3. CASE k \in 1 .. L /\ m = L + 1
      BY <1>3, <2>1, <2>2, <3>3
    <3>4. CASE k = L + 1 /\ m = L + 1
      BY <3>4
    <3> QED BY <1>5, <3>1, <3>2, <3>3, <3>4
  <2> QED BY <1>3, <2>2 DEF Apart
<1>8. ASSUME NEW i \in Instruments, Flattened(to, i)
      PROVE  AddUp(AskedOn(to, i)) = IF i \in next.closing THEN -book[i] ELSE 0
  <2>1. Flattened(adm, i)
    <3>1. ASSUME NEW k \in 1 .. L, On(adm, k, i) PROVE adm[k].signal.direction = "FLAT"
      <4>1. k \in 1 .. Len(to) /\ to[k] = adm[k] /\ On(to, k, i)
        BY <1>2, <1>3, <3>1 DEF On
      <4> QED BY <1>8, <4>1 DEF Flattened
    <3> QED BY <1>2, <3>1 DEF Flattened
  <2>2. AddUp(AskedOn(adm, i)) = IF i \in acc.closing THEN -book[i] ELSE 0
    BY <1>4, <2>1
  <2>3. PICK u \in Seq(Int) : /\ u = AskedOn(adm, i) /\ Len(u) = L
                              /\ \A k \in 1 .. L : u[k] = IF On(adm, k, i) THEN adm[k].q ELSE 0
    <3>1. AskedOn(adm, i) \in Seq(Int) /\ AsksOn(AskedOn(adm, i), adm, i, L)
      BY <1>2, AskedOnIs
    <3> QED BY ONLY <3>1 DEF AsksOn
  <2>4. PICK v \in Seq(Int) : /\ v = AskedOn(to, i) /\ Len(v) = L + 1
                              /\ \A k \in 1 .. L + 1 : v[k] = IF On(to, k, i) THEN to[k].q ELSE 0
    <3>1. L + 1 \in Nat /\ L + 1 = Len(to)
      BY <1>2, <1>3
    <3>2. AskedOn(to, i) \in Seq(Int) /\ AsksOn(AskedOn(to, i), to, i, L + 1)
      BY <3>1, AskedOnIs
    <3> QED BY ONLY <3>2 DEF AsksOn
  <2>5. L + 1 \in 1 .. L + 1 /\ r.q \in Int
    BY <1>2 DEF Requests
  <2>6. PICK x \in Int : x = (IF r.signal.instrument = i THEN r.q ELSE 0) /\ x = v[L + 1]
    <3>1. v[L + 1] = IF On(to, L + 1, i) THEN to[L + 1].q ELSE 0
      BY <2>4, <2>5
    <3>2. On(to, L + 1, i) <=> r.signal.instrument = i
      BY <1>3 DEF On
    <3>3. to[L + 1].q = r.q
      BY <1>3
    <3> QED BY <2>5, <3>1, <3>2, <3>3
  <2>7. v = Append(u, x)
    <3>0. u \in Seq(Int) /\ Len(u) = L /\ x \in Int
      BY <2>3
    <3>1. Append(u, x) \in Seq(Int)
      BY <3>0
    <3>2. Len(Append(u, x)) = L + 1
      BY <3>0
    <3>3. Append(u, x)[L + 1] = x
      BY <3>0
    <3>4. \A k \in 1 .. L : Append(u, x)[k] = u[k]
      BY <3>0
    <3>5. \A k \in 1 .. L : v[k] = u[k]
      <4> TAKE k \in 1 .. L
      <4>1. k \in 1 .. L + 1 /\ to[k] = adm[k]
        BY <1>3
      <4>2. On(to, k, i) <=> On(adm, k, i)
        BY <4>1 DEF On
      <4> QED BY <2>3, <2>4, <4>1, <4>2
    <3>6. PICK z \in Seq(Int) : z = Append(u, x) /\ Len(z) = L + 1 /\ z[L + 1] = x /\ \A k \in 1 .. L : z[k] = u[k]
      BY <3>1, <3>2, <3>3, <3>4
    <3>7. \A k \in 1 .. L + 1 : v[k] = z[k]
      <4> TAKE k \in 1 .. L + 1
      <4>1. CASE k = L + 1
        BY <2>6, <3>6, <4>1
      <4>2. CASE k \in 1 .. L
        BY <3>5, <3>6, <4>2
      <4> QED BY <1>5, <4>1, <4>2
    <3>8. v = z
      BY <2>4, <3>6, <3>7, SMTT(30)
    <3> QED BY <3>6, <3>8
  <2>8. AddUp(v) = AddUp(u) + x
    BY <2>3, <2>7, AddUpAppend
  <2>9. CASE r.signal.instrument # i
    <3>1. i \in next.closing <=> i \in acc.closing
      BY <2>9
    <3>2. AddUp(u) \in Int /\ x = 0
      BY <2>3, <2>6, <2>9, AddUpTyped
    <3> QED BY <2>2, <2>3, <2>4, <2>8, <3>1, <3>2
  <2>10. CASE r.signal.instrument = i
    <3>1. On(to, L + 1, i)
      BY <1>3, <2>10 DEF On
    <3>2. r.signal.direction = "FLAT"
      BY <1>3, <1>8, <2>5, <3>1 DEF Flattened
    <3>3. book[i] \in Int
      BY DEF Positioned
    <3>4. x = -ToFlatten(acc, r.signal) /\ i \in next.closing
      BY <2>6, <2>10, <3>2
    <3>5. CASE i \in acc.closing
      <4>1. ToFlatten(acc, r.signal) = 0
        BY <2>10, <3>5 DEF ToFlatten
      <4>2. x = -0
        BY <3>4, <4>1
      <4> QED BY <2>2, <2>3, <2>4, <2>8, <3>3, <3>4, <3>5, <4>2
    <3>6. CASE i \notin acc.closing
      <4>1. x = -book[i]
        BY <2>10, <3>4, <3>6 DEF ToFlatten
      <4> QED BY <2>2, <2>3, <2>4, <2>8, <3>3, <3>4, <3>6, <4>1
    <3> QED BY <3>5, <3>6
  <2> QED BY <2>9, <2>10
<1>9. Len(to) + Len(auds) = n
  <2>1. L + M = n - 1
    BY <1>2
  <2>2. Len(to) = L + 1
    BY <1>3
  <2> HIDE <1>3
  <2> QED BY <1>2, <2>1, <2>2
<1>10. next.admitted = to /\ next.audits = auds
  BY <1>1, <1>3
<1>11. next.admitted \in Seq(Requests) /\ next.audits \in Seq(Audits) /\ Len(next.admitted) + Len(next.audits) = n
  BY ONLY <1>9, <1>10, to \in Seq(Requests), auds \in Seq(Audits)
<1>12. \A k \in 1 .. Len(next.audits) : Rejects(next.audits[k])
  BY ONLY <1>4, <1>10
<1>13. \A k \in 1 .. Len(next.admitted) :
         /\ Asks(next.admitted[k])
         /\ <<next.admitted[k].strategy, next.admitted[k].signal.instrument>> \in next.seen
  <2>1. Len(to) = L + 1
    BY <1>3
  <2> QED BY ONLY <1>6, <1>10, <2>1
<1>14. Apart(next.admitted)
  BY ONLY <1>7, <1>10
<1>15. \A i \in Instruments : Flattened(next.admitted, i) =>
         AddUp(AskedOn(next.admitted, i)) = IF i \in next.closing THEN -book[i] ELSE 0
  BY ONLY <1>8, <1>10
<1> QED BY ONLY <1>11, <1>12, <1>13, <1>14, <1>15 DEF Sizing

Accounts == [admitted : Seq(Requests), audits : Seq(Audits),
             seen : SUBSET (Strategies \X DOMAIN Asset), closing : SUBSET Instruments]
Ready(s) ==
  /\ s \in Signals
  /\ s.strategy \in DOMAIN Records => s.conviction \in DOMAIN Records[s.strategy].calibrated

(* _size_signals, one signal: wherever it gets to, it is refused or        *)
(* admitted.                                                               *)
LEMMA SizingStep ==
  ASSUME Positioned, Standing, NEW n \in Nat \ {0}, NEW acc \in Accounts, Sizing(n - 1, acc),
         NEW s, Ready(s)
  PROVE  SizeSignal(acc, s) \in Accounts /\ Sizing(n, SizeSignal(acc, s))
<1>1. /\ s \in Signals /\ s.strategy \in Strategies /\ s.instrument \in DOMAIN Asset
      /\ s.direction \in {"LONG", "SHORT", "FLAT"}
  BY DEF Ready, Signals
<1>2. PICK reached : reached = StageReached(acc, s)
  OBVIOUS
<1>3. reached \in Stages
  BY <1>2 DEF StageReached, Stages
<1>4. PICK pair \in Strategies \X DOMAIN Asset : pair = <<s.strategy, s.instrument>>
  BY <1>1
<1>5. PICK met \in Accounts :
        /\ met = [acc EXCEPT !.seen = IF Admissible(acc, s) THEN @ \cup {<<s.strategy, s.instrument>>} ELSE @]
        /\ met.admitted = acc.admitted /\ met.audits = acc.audits /\ met.closing = acc.closing
        /\ met.seen = IF Admissible(acc, s) THEN acc.seen \cup {pair} ELSE acc.seen
  <2>1. (IF Admissible(acc, s) THEN acc.seen \cup {pair} ELSE acc.seen) \in SUBSET (Strategies \X DOMAIN Asset)
    BY DEF Accounts
  <2>2. [acc EXCEPT !.seen = IF Admissible(acc, s) THEN @ \cup {pair} ELSE @] \in Accounts
    BY <2>1 DEF Accounts
  <2> QED BY <1>4, <2>2 DEF Accounts
<1>6. PICK next : next = SizeSignal(acc, s)
  OBVIOUS
<1>7. CASE reached = "flattened" \/ reached = "sized"
  <2>1. Admissible(acc, s) /\ (reached = "flattened" <=> s.direction = "FLAT")
    BY <1>2, <1>7 DEF StageReached
  <2>2. PICK i \in Instruments : i = s.instrument
    BY <2>1 DEF Admissible
  <2>3. pair \notin acc.seen /\ met.seen = acc.seen \cup {pair}
    BY <1>4, <1>5, <2>1 DEF Admissible
  <2>4. Decidable(s)
    BY <1>1, <2>1 DEF Admissible, Decidable, Ready
  <2>5. PICK size \in Nat : size = Sized(s) /\ size * mark[i] <= Permitted(s)
    BY <2>2, <2>4, SizedInside
  <2>6. book[i] \in Int
    BY DEF Positioned
  <2>7. PICK q \in Int :
          /\ q = IF reached = "flattened" THEN -ToFlatten(acc, s) ELSE Toward(s.direction) * Sized(s)
          /\ IF s.direction = "FLAT" THEN q \in {0, -book[i]} ELSE Magnitude(q) = size
    <3>1. CASE reached = "flattened"
      <4>1. ToFlatten(acc, s) = 0 \/ ToFlatten(acc, s) = book[i]
        BY <2>2 DEF ToFlatten
      <4>2. -ToFlatten(acc, s) \in {0, -book[i]} /\ -ToFlatten(acc, s) \in Int
        <5>1. CASE ToFlatten(acc, s) = 0
          <6>1. -ToFlatten(acc, s) = -0
            BY <5>1
          <6> QED BY <6>1
        <5>2. CASE ToFlatten(acc, s) = book[i]
          BY <2>6, <5>2
        <5> QED BY <4>1, <5>1, <5>2
      <4> QED BY <2>1, <3>1, <4>2
    <3>2. CASE reached # "flattened"
      <4>1. Toward(s.direction) = 1 \/ Toward(s.direction) = -1
        BY DEF Toward
      <4>2. PICK q \in Int : q = Toward(s.direction) * Sized(s) /\ (q = size \/ q = -size)
        BY <2>5, <4>1
      <4>3. Magnitude(q) = size
        BY <2>5, <4>2 DEF Magnitude
      <4> QED BY <2>1, <3>2, <4>2, <4>3
    <3> QED BY <3>1, <3>2
  <2>8. PICK r \in Requests : /\ r = Request(s, q) /\ r.signal = s /\ r.strategy = s.strategy /\ r.q = q
    <3>1. Request(s, q) \in Requests
      BY <1>1 DEF Request, Requests
    <3>2. Request(s, q).signal = s /\ Request(s, q).strategy = s.strategy /\ Request(s, q).q = q
      BY DEF Request
    <3> QED BY <3>1, <3>2
  <2>9. Asks(r)
    BY <2>2, <2>5, <2>7, <2>8 DEF Asks
  <2>10. next = IF reached = "flattened"
                THEN [met EXCEPT !.admitted = Append(@, r), !.closing = @ \cup {i}]
                ELSE [met EXCEPT !.admitted = Append(@, r)]
    <3>1. CASE reached = "flattened"
      <4>1. r = Request(s, -ToFlatten(acc, s))
        BY <2>7, <2>8, <3>1
      <4>2. next = [met EXCEPT !.admitted = Append(@, Request(s, -ToFlatten(acc, s))),
                               !.closing = @ \cup {s.instrument}]
        BY <1>2, <1>5, <1>6, <3>1 DEF SizeSignal
      <4> QED BY <2>2, <3>1, <4>1, <4>2
    <3>2. CASE reached = "sized"
      <4>1. r = Request(s, Toward(s.direction) * Sized(s))
        BY <2>7, <2>8, <3>2
      <4>2. next = [met EXCEPT !.admitted = Append(@, Request(s, Toward(s.direction) * Sized(s)))]
        BY <1>2, <1>5, <1>6, <3>2 DEF SizeSignal
      <4> QED BY <3>2, <4>1, <4>2
    <3> QED BY <1>7, <3>1, <3>2
  <2>11. Append(met.admitted, r) \in Seq(Requests) /\ met.closing \cup {i} \in SUBSET Instruments
    BY DEF Accounts
  <2>12. /\ next \in Accounts /\ next.admitted = Append(acc.admitted, r) /\ next.audits = acc.audits
         /\ next.seen = acc.seen \cup {pair}
         /\ next.closing = IF reached = "flattened" THEN acc.closing \cup {i} ELSE acc.closing
    <3>1. CASE reached = "flattened"
      <4>1. next = [met EXCEPT !.admitted = Append(@, r), !.closing = @ \cup {i}]
        BY <2>10, <3>1
      <4>2. next \in Accounts /\ next.admitted = Append(met.admitted, r) /\ next.audits = met.audits
            /\ next.seen = met.seen /\ next.closing = met.closing \cup {i}
        BY <2>11, <4>1 DEF Accounts
      <4> QED BY <1>5, <2>3, <3>1, <4>2
    <3>2. CASE reached # "flattened"
      <4>1. next = [met EXCEPT !.admitted = Append(@, r)]
        BY <2>10, <3>2
      <4>2. next \in Accounts /\ next.admitted = Append(met.admitted, r) /\ next.audits = met.audits
            /\ next.seen = met.seen /\ next.closing = met.closing
        BY <2>11, <4>1 DEF Accounts
      <4> QED BY <1>5, <2>3, <3>2, <4>2
    <3> QED BY <3>1, <3>2
  <2>13. pair = <<r.strategy, r.signal.instrument>>
    BY <1>4, <2>8
  <2>14. IF r.signal.direction = "FLAT"
         THEN r.q = -ToFlatten(acc, r.signal) /\ next.closing = acc.closing \cup {r.signal.instrument}
         ELSE next.closing = acc.closing
    BY <2>1, <2>2, <2>7, <2>8, <2>12
  <2>15. Sizing(n, next)
    BY <2>3, <2>9, <2>12, <2>13, <2>14, AdmitStep
  <2> QED BY <1>6, <2>12, <2>15
<1>8. CASE ~(reached = "flattened" \/ reached = "sized")
  <2>1. PICK a \in Audits : a = Refused(s, reached) /\ Rejects(a)
    <3>1. Refused(s, reached) \in Audits
      BY <1>1, <1>3 DEF Audits, Refused, Audit
    <3>2. Rejects(Refused(s, reached))
      BY DEF Refused, Audit, Rejects
    <3> QED BY <3>1, <3>2
  <2>2. next = [met EXCEPT !.audits = Append(@, a)]
    BY <1>2, <1>5, <1>6, <1>8, <2>1 DEF SizeSignal
  <2>3. Append(met.audits, a) \in Seq(Audits)
    BY DEF Accounts
  <2>4. next \in Accounts /\ next.admitted = met.admitted /\ next.audits = Append(met.audits, a)
        /\ next.seen = met.seen /\ next.closing = met.closing
    BY <2>2, <2>3 DEF Accounts
  <2>5. acc.seen \subseteq next.seen /\ next.admitted = acc.admitted /\ next.audits = Append(acc.audits, a)
        /\ next.closing = acc.closing
    BY <1>5, <2>4
  <2>6. Sizing(n, next)
    BY <2>1, <2>5, RefuseStep
  <2> QED BY <1>6, <2>4, <2>6
<1> QED BY <1>7, <1>8

(* Every signal of a batch ends admitted or refused, once.                 *)
LEMMA SizingEnds ==
  ASSUME Positioned, Standing, NEW signals \in Seq(Signals), \A n \in 1 .. Len(signals) : Ready(signals[n])
  PROVE  Sizing(Len(signals), SizeSignals(signals))
<1>1. PICK L \in Nat : L = Len(signals)
  OBVIOUS
<1>2. PICK start : start = [admitted |-> <<>>, audits |-> <<>>, seen |-> {}, closing |-> {}]
  OBVIOUS
<1> DEFINE S == Accounts
           I == [n \in 0 .. L |-> {x \in S : Sizing(n, x)}]
           F == [n \in 1 .. L |-> [x \in I[n - 1] |-> SizeSignal(x, signals[n])]]
           Body(f) == [n \in 0 .. L |-> IF n = 0 THEN start ELSE SizeSignal(f[n - 1], signals[n])]
<1>3. start \in I[0]
  <2>1. start \in S
    BY <1>2 DEF Accounts
  <2>2. /\ start.admitted = <<>> /\ start.audits = <<>> /\ start.closing = {}
        /\ <<>> \in Seq(Requests) /\ <<>> \in Seq(Audits) /\ Len(<<>>) = 0
    BY <1>2
  <2>3. \A i : AskedOn(<<>>, i) = <<>>
    BY DEF AskedOn
  <2>4. Apart(<<>>)
    BY <2>2 DEF Apart
  <2>5. Sizing(0, start)
    BY <2>2, <2>3, <2>4, AddUpEmpty DEF Sizing
  <2>6. 0 \in 0 .. L
    BY <1>1
  <2> HIDE DEF S
  <2> QED BY <2>1, <2>5, <2>6
<1>4. \A n \in 0 .. L : I[n] \subseteq S
  OBVIOUS
<1>5. ASSUME NEW n \in 1 .. L, NEW x \in I[n - 1] PROVE SizeSignal(x, signals[n]) \in I[n]
  <2>1. n - 1 \in 0 .. L /\ n \in 0 .. L /\ n \in Nat \ {0}
    BY <1>1
  <2>2. x \in Accounts /\ Sizing(n - 1, x)
    BY <2>1
  <2>3. PICK s : s = signals[n] /\ Ready(s)
    BY <1>1
  <2>4. SizeSignal(x, s) \in Accounts /\ Sizing(n, SizeSignal(x, s))
    <3> HIDE DEF I
    <3> QED BY <2>1, <2>2, <2>3, SizingStep
  <2> QED BY <2>1, <2>3, <2>4
<1>6. \A n \in 1 .. L : F[n] \in [I[n - 1] -> I[n]]
  <2> TAKE n \in 1 .. L
  <2>1. \A x \in I[n - 1] : SizeSignal(x, signals[n]) \in I[n]
    BY <1>5
  <2>2. F[n] = [x \in I[n - 1] |-> SizeSignal(x, signals[n])]
    <3> HIDE DEF I
    <3> QED OBVIOUS
  <2> HIDE DEF I, F
  <2> QED BY <2>1, <2>2
<1>7. PICK g : Yields(g, S, L, start, F) /\ \A n \in 0 .. L : g[n] \in I[n]
  <2> HIDE DEF I, F, S
  <2> QED BY <1>1, <1>3, <1>4, <1>6, StagesExist
<1>8. \A n \in 1 .. L : \A x \in I[n - 1] : F[n][x] = SizeSignal(x, signals[n])
  <2> HIDE DEF I
  <2> QED OBVIOUS
<1> HIDE DEF I, F, S
<1>9. g = [n \in 0 .. L |-> g[n]] /\ g[0] = start /\ \A n \in 1 .. L : g[n] = SizeSignal(g[n - 1], signals[n])
  <2>1. g = [n \in 0 .. L |-> g[n]] /\ g[0] = start
    BY <1>7 DEF Yields
  <2>2. ASSUME NEW n \in 1 .. L PROVE g[n] = SizeSignal(g[n - 1], signals[n])
    <3>1. n - 1 \in 0 .. L
      BY <1>1
    <3>2. g[n - 1] \in I[n - 1] /\ g[n] = F[n][g[n - 1]]
      BY <1>7, <3>1 DEF Yields
    <3> QED BY <1>8, <3>2
  <2> QED BY <2>1, <2>2
<1>10. g = Body(g)
  <2>1. \A n \in 0 .. L : g[n] = Body(g)[n]
    BY <1>1, <1>9
  <2> QED BY <1>9, <2>1
<1>11. PICK r : r = CHOOSE f : f = Body(f)
  OBVIOUS
<1>12. SizeSignals(signals) = r[L]
  BY <1>1, <1>2, <1>11 DEF SizeSignals
<1>13. r = Body(r)
  <2> HIDE DEF Body
  <2> QED BY <1>10, <1>11
<1>14. r = g
  <2>1. r = [n \in 0 .. L |-> r[n]] /\ r[0] = start
    BY <1>1, <1>13
  <2>2. ASSUME NEW n \in 1 .. L PROVE r[n] = SizeSignal(r[n - 1], signals[n])
    <3>1. n \in 0 .. L /\ n # 0
      BY <1>1
    <3>2. r[n] = Body(r)[n]
      <4> HIDE DEF Body
      <4> QED BY <1>13
    <3> HIDE <1>13
    <3> QED BY <3>1, <3>2
  <2>3. \A n \in 1 .. L : r[n - 1] = g[n - 1] => r[n] = F[n][g[n - 1]]
    BY <1>7, <1>9, <2>2 DEF Yields
  <2>4. Unfolds(r, g, L, start, F)
    BY <2>1, <2>3 DEF Unfolds
  <2> HIDE DEF Body
  <2> QED BY <1>1, <1>7, <2>4, StepsUnique
<1>15. g[L] \in I[L] /\ L \in 0 .. L
  BY <1>1, <1>7
<1>16. Sizing(L, g[L])
  BY <1>15 DEF I
<1> QED BY <1>1, <1>12, <1>14, <1>16

Sound(d) == Attributed(d) /\ FlattenNeverFlips(d) /\ LoneSignalInsideLimits(d)

(* Amounts of one sign multiply to no less than nothing.                   *)
LEMMA ProductSign ==
  ASSUME NEW a \in Int, NEW b \in Int, (a >= 0 /\ b >= 0) \/ (a <= 0 /\ b <= 0)
  PROVE  a * b >= 0
<1>1. CASE a >= 0 /\ b >= 0
  BY <1>1
<1>2. CASE a <= 0 /\ b <= 0
  <2>1. (-a) * (-b) >= 0 /\ (-a) * (-b) = a * b
    BY <1>2
  <2> QED BY <2>1
<1> QED BY <1>1, <1>2

(* Audits that reject book nothing.                                        *)
LEMMA BookedNothing ==
  ASSUME NEW L \in Nat, NEW audits, DOMAIN audits = 1 .. L, \A n \in 1 .. L : audits[n].booked = 0, NEW i
  PROVE  BookedTo(audits, i) = 0
<1>1. PICK w : w = [n \in 1 .. L |-> IF audits[n].instrument = i THEN audits[n].booked ELSE 0]
  OBVIOUS
<1>2. w \in [1 .. L -> Int] /\ \A n \in 1 .. L : w[n] = 0
  BY <1>1
<1>3. w \in Seq(Int) /\ Len(w) = L
  BY <1>2
<1>4. BookedTo(audits, i) = AddUp(w)
  BY <1>1 DEF BookedTo
<1> QED BY <1>2, <1>3, <1>4, AddUpNone

(* A decision that sends nothing and books nothing.                        *)
LEMMA NothingDecided ==
  ASSUME NEW d, NEW L \in Nat, d.plans = {}, DOMAIN d.audits = 1 .. L, Len(d.audits) = Len(d.signals),
         \A n \in 1 .. L : d.audits[n].booked = 0
  PROVE  Sound(d)
<1>1. ASSUME NEW i \in Instruments
      PROVE  BookedTo(d.audits, i) = Total([p \in {x \in d.plans : x.instrument = i} |-> p.net])
  <2>1. BookedTo(d.audits, i) = 0
    BY BookedNothing
  <2> DEFINE f == [p \in {x \in d.plans : x.instrument = i} |-> p.net]
  <2>2. DOMAIN f = {}
    OBVIOUS
  <2> HIDE DEF f
  <2>3. Total(f) = 0
    BY <2>2, TotalNone
  <2> QED BY <2>1, <2>3 DEF f
<1>2. Attributed(d)
  BY <1>1 DEF Attributed
<1>3. FlattenNeverFlips(d) /\ LoneSignalInsideLimits(d)
  BY DEF FlattenNeverFlips, LoneSignalInsideLimits
<1> QED BY <1>2, <1>3 DEF Sound

(* A batch refused by the kill switch or the portfolio's halt is sound.    *)
LEMMA RefusedSound ==
  ASSUME NEW signals \in Seq(Signals), NEW reached
  PROVE  Sound(RefuseBatch(signals, reached))
<1>1. PICK L \in Nat : L = Len(signals) /\ DOMAIN signals = 1 .. L
  OBVIOUS
<1>2. PICK d : d = RefuseBatch(signals, reached)
  OBVIOUS
<1>3. d.plans = {} /\ d.signals = signals /\ d.audits = [n \in 1 .. L |-> Refused(signals[n], reached)]
  BY <1>1, <1>2 DEF RefuseBatch, Outcome
<1>4. DOMAIN d.audits = 1 .. L /\ \A n \in 1 .. L : d.audits[n].booked = 0
  BY <1>3 DEF Refused, Audit
<1>5. Len(d.audits) = L
  BY <1>1, <1>4
<1> QED BY <1>1, <1>2, <1>3, <1>4, <1>5, NothingDecided

-----------------------------------------------------------------------------
(* The audits of a batch that was sized: the refused, then the admitted.   *)
Audited(adm, auds, plans, reached, approved, all) ==
  /\ DOMAIN all = 1 .. Len(auds) + Len(adm) /\ Len(all) = Len(auds) + Len(adm)
  /\ \A n \in 1 .. Len(auds) : all[n] = auds[n]
  /\ \A n \in 1 .. Len(adm) : all[Len(auds) + n] = AuditOf(plans, reached, approved, adm[n])

(* Every admitted request gets the audit of its plan, after the refused.   *)
LEMMA AllAudited ==
  ASSUME NEW acc, NEW n, Sizing(n, acc), NEW plans, NEW reached, NEW approved
  PROVE  Audited(acc.admitted, acc.audits, plans, reached, approved, AuditAdmitted(acc, plans, reached, approved))
<1>1. PICK adm \in Seq(Requests), auds \in Seq(Audits) : adm = acc.admitted /\ auds = acc.audits
  BY DEF Sizing
<1>2. PICK L \in Nat, M \in Nat : L = Len(auds) /\ M = Len(adm) /\ DOMAIN adm = 1 .. M
  OBVIOUS
<1> DEFINE t == [k \in 1 .. M |-> AuditOf(plans, reached, approved, adm[k])]
           T == Audits \cup {t[k] : k \in 1 .. M}
<1>3. t \in Seq(T) /\ Len(t) = M
  <2>1. t \in [1 .. M -> T]
    OBVIOUS
  <2> HIDE DEF t, T
  <2> QED BY <2>1
<1>4. auds \in Seq(T)
  OBVIOUS
<1>5. \A k \in 1 .. M : t[k] = AuditOf(plans, reached, approved, adm[k])
  OBVIOUS
<1>6. AuditAdmitted(acc, plans, reached, approved) = auds \o t
  BY <1>1, <1>2, AuditsSplit
<1> HIDE DEF t, T
<1>7. PICK all : all = auds \o t
  OBVIOUS
<1>8. all \in Seq(T) /\ Len(all) = L + M
  <2>1. auds \o t \in Seq(T)
    BY <1>3, <1>4
  <2>2. Len(auds \o t) = Len(auds) + Len(t)
    BY <1>3, <1>4
  <2> QED BY <1>2, <1>3, <1>7, <2>1, <2>2
<1>9. \A k \in 1 .. L : all[k] = auds[k]
  BY <1>2, <1>3, <1>4, <1>7
<1>10. \A k \in 1 .. M : all[L + k] = t[k]
  BY <1>2, <1>3, <1>4, <1>7
<1>11. DOMAIN all = 1 .. L + M
  BY <1>8
<1> QED BY <1>1, <1>2, <1>5, <1>6, <1>7, <1>8, <1>9, <1>10, <1>11, ZenonT(30) DEF Audited

(* A batch refused for concentration books nothing and sends nothing.      *)
LEMMA ConcentratedSound ==
  ASSUME NEW signals \in Seq(Signals), NEW acc, Sizing(Len(signals), acc), NEW plans, NEW reached
  PROVE  Sound(Outcome(signals, AuditAdmitted(acc, plans, reached, FALSE), {}))
<1>1. PICK adm \in Seq(Requests), auds \in Seq(Audits) :
        /\ adm = acc.admitted /\ auds = acc.audits /\ Len(adm) + Len(auds) = Len(signals)
        /\ \A k \in 1 .. Len(auds) : Rejects(auds[k])
  BY DEF Sizing
<1>2. PICK L \in Nat, M \in Nat : L = Len(auds) /\ M = Len(adm)
  OBVIOUS
<1>3. PICK all : all = AuditAdmitted(acc, plans, reached, FALSE) /\ Audited(adm, auds, plans, reached, FALSE, all)
  BY <1>1, AllAudited
<1> DEFINE d == Outcome(signals, all, {})
<1>4. d.signals = signals /\ d.audits = all /\ d.plans = {}
  BY DEF Outcome
<1> HIDE DEF d
<1>5. /\ DOMAIN all = 1 .. L + M /\ Len(all) = L + M
      /\ \A n \in 1 .. L : all[n] = auds[n]
      /\ \A n \in 1 .. M : all[L + n] = AuditOf(plans, reached, FALSE, adm[n])
  BY <1>2, <1>3 DEF Audited
<1>6. \A n \in 1 .. L + M : all[n].booked = 0
  <2> TAKE n \in 1 .. L + M
  <2>1. CASE n \in 1 .. L
    BY <1>1, <1>2, <1>5, <2>1 DEF Rejects
  <2>2. CASE n \notin 1 .. L
    <3>1. PICK k \in 1 .. M : n = L + k
      <4>1. n - L \in 1 .. M /\ n = L + (n - L)
        BY <2>2
      <4> QED BY <4>1
    <3>2. all[n] = AuditOf(plans, reached, FALSE, adm[k])
      BY <1>5, <3>1
    <3>3. AuditOf(plans, reached, FALSE, adm[k]).booked = 0
      <4>1. CASE InPlan(plans, adm[k])
        BY <4>1 DEF AuditOf, Audit
      <4>2. CASE ~InPlan(plans, adm[k])
        BY <4>2 DEF AuditOf, Refused, Audit
      <4> QED BY <4>1, <4>2
    <3> QED BY <3>2, <3>3
  <2> QED BY <2>1, <2>2
<1>7. Len(d.audits) = Len(d.signals)
  <2>1. Len(d.audits) = L + M /\ M + L = Len(signals)
    BY <1>1, <1>2, <1>4, <1>5
  <2> QED BY <1>4, <2>1
<1>8. L + M \in Nat
  OBVIOUS
<1>9. Sound(d)
  BY <1>4, <1>5, <1>6, <1>7, <1>8, NothingDecided
<1> QED BY <1>3, <1>9 DEF d

Joins(v, s, t) ==
  /\ v = [n \in 1 .. Len(s) + Len(t) |-> v[n]]
  /\ \A n \in 1 .. Len(s) : v[n] = s[n]
  /\ \A n \in 1 .. Len(t) : v[Len(s) + n] = t[n]

LEMMA AddUpJoined ==
  ASSUME NEW s \in Seq(Int), NEW t \in Seq(Int), NEW v, Joins(v, s, t)
  PROVE  AddUp(v) = AddUp(s) + AddUp(t)
<1>0. PICK A \in Nat, M \in Nat : A = Len(s) /\ M = Len(t)
  OBVIOUS
<1>1. s \o t \in Seq(Int)
  OBVIOUS
<1>2. Len(s \o t) = A + M
  BY <1>0
<1>3. \A n \in 1 .. A : (s \o t)[n] = s[n]
  BY <1>0
<1>4. \A n \in 1 .. M : (s \o t)[A + n] = t[n]
  BY <1>0
<1>5. PICK y \in Seq(Int) : /\ y = s \o t /\ Len(y) = A + M
                            /\ \A n \in 1 .. A : y[n] = s[n]
                            /\ \A n \in 1 .. M : y[A + n] = t[n]
  BY <1>1, <1>2, <1>3, <1>4
<1>6. ASSUME NEW n \in 1 .. A + M PROVE v[n] = y[n]
  <2>1. CASE n \in 1 .. A
    BY <1>0, <1>5, <2>1 DEF Joins
  <2>2. CASE n \notin 1 .. A
    <3>1. n - A \in 1 .. M /\ n = A + (n - A)
      BY <2>2
    <3>2. v[A + (n - A)] = t[n - A] /\ y[A + (n - A)] = t[n - A]
      BY <1>0, <1>5, <3>1 DEF Joins
    <3> QED BY <3>1, <3>2
  <2> QED BY <2>1, <2>2
<1>7. y = [n \in 1 .. A + M |-> y[n]]
  <2>1. y \in Seq(Int) /\ Len(y) = A + M
    BY <1>5
  <2> QED BY <2>1
<1>8. v = y
  BY <1>0, <1>6, <1>7 DEF Joins
<1> QED BY <1>5, <1>8, AddUpConcat

(* The approved batch: every audit of a planned instrument is approved.    *)
LEMMA ApprovedAttributed ==
  ASSUME NEW L \in Nat, NEW d, NEW adm \in Seq(Requests), NEW auds \in Seq(Audits), Apart(adm),
         Len(d.signals) = Len(auds) + Len(adm), d.plans = Plans(adm),
         \A k \in 1 .. Len(auds) : Rejects(auds[k]),
         Audited(adm, auds, Plans(adm), "order_construction", TRUE, d.audits)
  PROVE  Attributed(d)
<1>1. PICK A \in Nat, M \in Nat : A = Len(auds) /\ M = Len(adm)
  OBVIOUS
<1>2. PICK all : all = d.audits
  OBVIOUS
<1>3. /\ DOMAIN all = 1 .. A + M /\ Len(all) = A + M
      /\ \A n \in 1 .. A : all[n] = auds[n]
      /\ \A n \in 1 .. M : all[A + n] = AuditOf(Plans(adm), "order_construction", TRUE, adm[n])
  BY <1>1, <1>2 DEF Audited
<1>4. ASSUME NEW p \in d.plans PROVE AddsUp(p)
  <2>1. p \in Plans(adm)
    BY <1>4
  <2>2. PICK i : p = NetRequests(i, Group(adm, i))
    BY <2>1, PlanOf
  <2> QED BY <2>2, GroupPlaces, PlanAddsUp
<1>5. ASSUME NEW i \in Instruments
      PROVE  BookedTo(all, i) = Total([p \in {x \in d.plans : x.instrument = i} |-> p.net])
  <2>1. PICK w : w = BookedOn(Plans(adm), adm, i)
    OBVIOUS
  <2>2. /\ w \in Seq(Int) /\ Len(w) = M
        /\ AddUp(w) = Total([p \in {x \in d.plans : x.instrument = i} |-> p.net])
    <3>1. CASE \E p \in Plans(adm) : p.instrument = i
      <4>1. PICK p \in Plans(adm) : p.instrument = i
        BY <3>1
      <4>2. w \in Seq(Int) /\ Len(w) = M /\ AddUp(w) = p.net
        BY <1>1, <2>1, <4>1, PlanBooked
      <4>3. {x \in d.plans : x.instrument = i} = {p}
        <5>1. \A x \in Plans(adm) : x.instrument = i => x = p
          BY <4>1, PlanOf
        <5> QED BY <4>1, <5>1
      <4> DEFINE f == [q \in {x \in d.plans : x.instrument = i} |-> q.net]
      <4>4. DOMAIN f = {p} /\ f[p] = p.net
        BY <4>3
      <4>5. p.net \in Int
        BY <4>2, AddUpTyped
      <4> HIDE DEF f
      <4>6. Total(f) = p.net
        BY <4>4, <4>5, TotalOne
      <4> QED BY <4>2, <4>6 DEF f
    <3>2. CASE ~\E p \in Plans(adm) : p.instrument = i
      <4>1. w \in Seq(Int) /\ Len(w) = M /\ AddUp(w) = 0
        BY <1>1, <2>1, <3>2, NothingBooked
      <4> DEFINE f == [q \in {x \in d.plans : x.instrument = i} |-> q.net]
      <4>2. DOMAIN f = {}
        BY <3>2
      <4> HIDE DEF f
      <4>3. Total(f) = 0
        BY <4>2, TotalNone
      <4> QED BY <4>1, <4>3 DEF f
    <3> QED BY <3>1, <3>2
  <2> DEFINE z == [n \in 1 .. A |-> 0]
             v == [n \in 1 .. A + M |-> IF all[n].instrument = i THEN all[n].booked ELSE 0]
  <2>3. z \in Seq(Int) /\ Len(z) = A /\ \A n \in 1 .. A : z[n] = 0
    <3>1. z \in [1 .. A -> Int]
      OBVIOUS
    <3> QED BY <3>1
  <2>4. AddUp(z) = 0
    <3> HIDE DEF z
    <3> QED BY <2>3, AddUpNone
  <2>5. BookedTo(all, i) = AddUp(v)
    BY <1>3 DEF BookedTo
  <2>6. \A n \in 1 .. A + M : v[n] = IF all[n].instrument = i THEN all[n].booked ELSE 0
    OBVIOUS
  <2>7. v = [n \in 1 .. A + M |-> v[n]]
    OBVIOUS
  <2> HIDE DEF z, v
  <2>8. \A n \in 1 .. A : v[n] = 0
    <3> TAKE n \in 1 .. A
    <3>1. n \in 1 .. A + M /\ all[n] = auds[n] /\ Rejects(auds[n])
      BY <1>1, <1>3
    <3> QED BY <2>6, <3>1 DEF Rejects
  <2>9. \A n \in 1 .. M : v[A + n] = w[n]
    <3> TAKE n \in 1 .. M
    <3>1. A + n \in 1 .. A + M
      OBVIOUS
    <3>2. PICK a : a = AuditOf(Plans(adm), "order_construction", TRUE, adm[n]) /\ all[A + n] = a
      BY <1>3
    <3>3. a.instrument = adm[n].signal.instrument
      <4>1. CASE InPlan(Plans(adm), adm[n])
        BY <3>2, <4>1 DEF AuditOf, Audit
      <4>2. CASE ~InPlan(Plans(adm), adm[n])
        BY <3>2, <4>2 DEF AuditOf, Refused, Audit
      <4> QED BY <4>1, <4>2
    <3>4. w[n] = IF On(adm, n, i) THEN a.booked ELSE 0
      BY <1>1, <2>1, <3>2 DEF BookedOn
    <3> QED BY <2>6, <3>1, <3>2, <3>3, <3>4 DEF On
  <2>11. AddUp(v) = AddUp(z) + AddUp(w)
    <3>1. A = Len(z) /\ M = Len(w)
      BY <2>2, <2>3
    <3>2. \A n \in 1 .. A : v[n] = z[n]
      BY <2>3, <2>8
    <3>3. Joins(v, z, w)
      BY <2>7, <2>9, <3>1, <3>2 DEF Joins
    <3> QED BY <2>2, <2>3, <3>3, AddUpJoined
  <2>12. AddUp(w) \in Int
    BY <2>2, AddUpTyped
  <2> QED BY <2>2, <2>4, <2>5, <2>11, <2>12
<1>6. Len(d.audits) = Len(d.signals)
  BY <1>1, <1>2, <1>3
<1> QED BY <1>2, <1>4, <1>5, <1>6 DEF Attributed

(* A plan of flattening alone only shrinks the holding.                    *)
LEMMA ApprovedNeverFlips ==
  ASSUME Positioned, NEW d, NEW acc, NEW m, Sizing(m, acc), d.plans = Plans(acc.admitted), d.before = book,
         Audited(acc.admitted, acc.audits, Plans(acc.admitted), "order_construction", TRUE, d.audits)
  PROVE  FlattenNeverFlips(d)
<1>1. PICK adm \in Seq(Requests), auds \in Seq(Audits) :
        /\ adm = acc.admitted /\ auds = acc.audits
        /\ \A k \in 1 .. Len(adm) : Asks(adm[k])
        /\ \A i \in Instruments : Flattened(adm, i) =>
             AddUp(AskedOn(adm, i)) = IF i \in acc.closing THEN -book[i] ELSE 0
  BY DEF Sizing
<1>2. PICK A \in Nat, M \in Nat : A = Len(auds) /\ M = Len(adm) /\ DOMAIN adm = 1 .. M
  OBVIOUS
<1>3. PICK all : all = d.audits
  OBVIOUS
<1>4. /\ DOMAIN all = 1 .. A + M
      /\ \A n \in 1 .. M : all[A + n] = AuditOf(Plans(adm), "order_construction", TRUE, adm[n])
  BY <1>1, <1>2, <1>3 DEF Audited
<1>5. ASSUME NEW p \in d.plans,
             \A n \in DOMAIN all :
               all[n].instrument = p.instrument /\ all[n].approved => all[n].direction = "FLAT"
      PROVE  LET was == d.before[p.instrument]
             IN  Magnitude(After(d, p)) <= Magnitude(was) /\ After(d, p) * was >= 0
  <2>1. p \in Plans(adm)
    BY <1>1, <1>5
  <2>2. PICK i : i = p.instrument /\ p = NetRequests(i, Group(adm, i)) /\ i \in Grouped(adm)
    BY <2>1, PlanOf
  <2>3. i \in Instruments
    BY <1>1, <1>2, <2>2 DEF Grouped, Asks
  <2>4. ASSUME NEW k \in 1 .. M, On(adm, k, i) PROVE adm[k].signal.direction = "FLAT"
    <3>1. InPlan(Plans(adm), adm[k])
      BY <2>1, <2>2, <2>4 DEF InPlan, On
    <3>2. A + k \in DOMAIN all
      BY <1>4
    <3>3. PICK a : a = all[A + k] /\ a = AuditOf(Plans(adm), "order_construction", TRUE, adm[k])
      BY <1>4
    <3>4. a.instrument = i /\ a.approved /\ a.direction = adm[k].signal.direction
      BY <2>4, <3>1, <3>3 DEF AuditOf, Audit, On
    <3> QED BY <1>5, <2>2, <3>2, <3>3, <3>4
  <2>5. Flattened(adm, i)
    BY <1>2, <2>4 DEF Flattened
  <2>6. PICK b \in Int : b = book[i]
    BY <2>3 DEF Positioned
  <2>7. PICK q \in Int : q = Sum(Group(adm, i)) /\ (q = -b \/ q = 0)
    <3>1. AddUp(AskedOn(adm, i)) = IF i \in acc.closing THEN -book[i] ELSE 0
      BY <1>1, <2>3, <2>5
    <3>2. Sum(Group(adm, i)) = AddUp(AskedOn(adm, i))
      BY GroupSum
    <3> QED BY <2>6, <3>1, <3>2
  <2>8. PICK z \in Int : z = Quantise(q) /\ (q >= 0 => 0 <= z /\ z <= q) /\ (q <= 0 => q <= z /\ z <= 0)
    BY QuantiseShrinks
  <2>9. p.net = z
    BY <2>2, <2>7, <2>8, GroupPlaces, PlanAddsUp
  <2>10. After(d, p) = b + z /\ d.before[p.instrument] = b
    BY <2>2, <2>6, <2>9 DEF After
  <2>11. (b >= 0 /\ 0 <= b + z /\ b + z <= b) \/ (b <= 0 /\ b <= b + z /\ b + z <= 0)
    BY <2>7, <2>8
  <2>12. Magnitude(b + z) <= Magnitude(b)
    BY <2>11 DEF Magnitude
  <2>13. (b + z) * b >= 0
    BY <2>11, ProductSign
  <2> QED BY <2>10, <2>12, <2>13
<1> QED BY <1>3, <1>5 DEF FlattenNeverFlips

(* A larger amount is worth more at the same mark.                         *)
LEMMA TimesKeepsOrder ==
  ASSUME NEW a \in Nat, NEW b \in Nat, NEW m \in Nat, a <= b
  PROVE  a * m \in Nat /\ b * m \in Nat /\ a * m <= b * m
<1>1. (b - a) * m >= 0
  <2>1. b - a \in Nat
    OBVIOUS
  <2> QED BY <2>1
<1>2. (b - a) * m = b * m - a * m
  OBVIOUS
<1>3. a * m \in Nat /\ b * m \in Nat
  OBVIOUS
<1> QED BY <1>1, <1>2, <1>3

(* One signal alone stays inside the limits.                               *)
LEMMA LoneInside ==
  ASSUME Positioned, NEW d, NEW acc, Sizing(Len(d.signals), acc), d.plans = Plans(acc.admitted),
         d.before = book, d.mark = mark
  PROVE  LoneSignalInsideLimits(d)
<1>1. SUFFICES ASSUME Len(d.signals) = 1, NEW p \in d.plans,
                      Valued(d, p.instrument, After(d, p)) > Valued(d, p.instrument, d.before[p.instrument])
               PROVE  /\ Valued(d, p.instrument, After(d, p)) <= Min({Percent(Policy.position), Policy.positionUsd})
                      /\ Valued(d, p.instrument, p.net) <= Policy.singleOrderUsd
  BY DEF LoneSignalInsideLimits
<1>2. PICK adm \in Seq(Requests), auds \in Seq(Audits) :
        /\ adm = acc.admitted /\ auds = acc.audits /\ Len(adm) + Len(auds) = 1
        /\ \A k \in 1 .. Len(adm) : Asks(adm[k])
  BY <1>1 DEF Sizing
<1>3. PICK i : /\ i = p.instrument /\ p = NetRequests(i, Group(adm, i)) /\ i \in Grouped(adm)
  BY <1>2, PlanOf
<1>4. PICK k \in DOMAIN adm : adm[k].signal.instrument = i
  BY <1>3 DEF Grouped
<1>5. Len(adm) = 1 /\ k = 1
  <2>1. PICK a \in Nat, c \in Nat : a = Len(adm) /\ c = Len(auds) /\ a + c = 1
    <3>1. Len(adm) \in Nat /\ Len(auds) \in Nat
      OBVIOUS
    <3> QED BY <1>2, <3>1
  <2>2. k \in 1 .. a
    BY <1>4, <2>1
  <2> QED BY <2>1, <2>2
<1>6. PICK r \in Requests : r = adm[1] /\ Asks(r) /\ r.signal.instrument = i /\ On(adm, 1, i)
  <2>1. 1 \in 1 .. Len(adm)
    BY <1>5
  <2>2. adm[1] \in Requests
    BY <2>1
  <2> QED BY <1>2, <1>4, <1>5, <2>1, <2>2 DEF On
<1>7. PICK q \in Int : q = r.q
  BY DEF Requests
<1>8. Sum(Group(adm, i)) = q
  <2>1. PICK w \in Seq(Int) : w = AskedOn(adm, i) /\ Len(w) = 1
    BY <1>5, AskedOnTyped DEF Elsewhere
  <2>2. w[1] = q
    BY <1>5, <1>6, <1>7, <2>1 DEF AskedOn
  <2>3. AddUp(w) = w[1]
    <3>1. 1 \in 1 .. Len(w) /\ \A n \in 1 .. Len(w) : n # 1 => w[n] = 0
      BY <2>1
    <3> QED BY <3>1, AddUpOne
  <2> QED BY <2>1, <2>2, <2>3, GroupSum
<1>9. i \in Instruments
  BY <1>6 DEF Asks
<1>10. PICK b \in Int, m \in Nat \ {0} : b = book[i] /\ m = mark[i]
  BY <1>9 DEF Positioned
<1>11. PICK z \in Int : z = Quantise(q) /\ (q >= 0 => 0 <= z /\ z <= q) /\ (q <= 0 => q <= z /\ z <= 0)
  BY QuantiseShrinks
<1>12. p.net = z
  BY <1>3, <1>8, <1>11, GroupPlaces, PlanAddsUp
<1>13. /\ After(d, p) = b + z /\ d.before[i] = b
       /\ \A x \in Int : Valued(d, i, x) = Magnitude(x) * m
  BY <1>3, <1>9, <1>10, <1>12 DEF After, Valued
<1>14. Magnitude(b + z) * m > Magnitude(b) * m
  BY <1>1, <1>3, <1>13
<1>15. PICK u \in Nat, v \in Nat, x \in Nat, y \in Nat :
         u = Magnitude(b + z) /\ v = Magnitude(b) /\ x = Magnitude(z) /\ y = Magnitude(q) /\ u <= v + x /\ x <= y
  <2>1. /\ Magnitude(b + z) \in Nat /\ Magnitude(b) \in Nat /\ Magnitude(z) \in Nat /\ Magnitude(q) \in Nat
    BY DEF Magnitude
  <2>2. Magnitude(b + z) <= Magnitude(b) + Magnitude(z)
    BY DEF Magnitude
  <2>3. Magnitude(z) <= Magnitude(q)
    BY <1>11 DEF Magnitude
  <2> QED BY <2>1, <2>2, <2>3
<1>16. u > v
  <2>1. SUFFICES ASSUME u <= v PROVE FALSE
    BY <1>15
  <2>2. u * m \in Nat /\ v * m \in Nat /\ u * m <= v * m
    BY <2>1, TimesKeepsOrder
  <2>3. u * m > v * m
    BY <1>14, <1>15
  <2> QED BY <2>2, <2>3
<1>17. r.signal.direction # "FLAT"
  <2>1. SUFFICES ASSUME r.signal.direction = "FLAT" PROVE FALSE
    OBVIOUS
  <2>2. q = 0 \/ q = -b
    BY <1>6, <1>7, <1>10, <2>1 DEF Asks
  <2>3. Magnitude(b + z) <= Magnitude(b)
    BY <1>11, <2>2 DEF Magnitude
  <2> QED BY <1>15, <1>16, <2>3
<1>18. PICK limit \in Nat :
         /\ limit = Permitted(r.signal) /\ y * m <= limit
         /\ limit > 0 => /\ limit + Notional(i, b) <= Percent(Policy.position)
                         /\ limit + Notional(i, b) <= Policy.positionUsd
                         /\ limit <= Policy.singleOrderUsd
  <2>1. PICK s \in Signals : s = r.signal
    BY DEF Requests
  <2>2. s.instrument = i /\ s.instrument \in Instruments
    BY <1>6, <1>9, <2>1
  <2>3. y * m <= Permitted(s)
    BY <1>6, <1>7, <1>10, <1>15, <1>17, <2>1 DEF Asks
  <2> QED BY <1>10, <2>1, <2>2, <2>3, PermittedInside
<1>19. Notional(i, b) = v * m
  BY <1>10, <1>15 DEF Notional
<1>20. PICK um \in Nat, vm \in Nat, xm \in Nat, ym \in Nat :
         um = u * m /\ vm = v * m /\ xm = x * m /\ ym = y * m /\ um <= vm + xm /\ xm <= ym
  <2>0. u <= v + x /\ x <= y /\ v + x \in Nat
    BY <1>15, SMTT(30)
  <2>1. u * m \in Nat /\ u * m <= (v + x) * m
    BY <2>0, TimesKeepsOrder
  <2>2. x * m \in Nat /\ y * m \in Nat /\ x * m <= y * m
    BY <2>0, TimesKeepsOrder
  <2>3. v * m \in Nat /\ (v + x) * m = v * m + x * m
    OBVIOUS
  <2> QED BY <2>1, <2>2, <2>3
<1>21. limit > 0
  <2>1. um > vm
    BY <1>14, <1>15, <1>20
  <2> QED BY <1>18, <1>20, <2>1
<1>22. Policy.position \in Nat /\ Policy.positionUsd \in Nat /\ Policy.singleOrderUsd \in Nat
  BY PolicyAmounts DEF PolicyFields
<1>23. PICK top \in Nat : top = Percent(Policy.position)
  BY <1>22, PercentTyped
<1>24. um <= top /\ um <= Policy.positionUsd /\ xm <= Policy.singleOrderUsd
  <2>1. limit + vm <= top /\ limit + vm <= Policy.positionUsd /\ limit <= Policy.singleOrderUsd
    BY <1>18, <1>19, <1>20, <1>21, <1>23
  <2>2. ym <= limit
    BY <1>18, <1>20
  <2>3. um <= limit + vm /\ xm <= limit
    BY <1>20, <2>2
  <2> QED BY <1>22, <2>1, <2>3
<1>25. Valued(d, i, After(d, p)) = um /\ Valued(d, i, p.net) = xm
  BY <1>12, <1>13, <1>15, <1>20
<1>26. Min({top, Policy.positionUsd}) = IF top <= Policy.positionUsd THEN top ELSE Policy.positionUsd
  BY <1>22, MinOfTwo
<1> QED BY <1>3, <1>23, <1>24, <1>25, <1>26

Sendable(p) == p.instrument \in Instruments /\ p.net \in Int /\ p.net % Lot = 0

(* The plans of a batch are finitely many, each of a known instrument and  *)
(* of whole lots.                                                          *)
LEMMA PlansSendable ==
  ASSUME NEW n, NEW acc, Sizing(n, acc)
  PROVE  IsFiniteSet(Plans(acc.admitted)) /\ \A p \in Plans(acc.admitted) : Sendable(p)
<1>1. PICK adm \in Seq(Requests) : adm = acc.admitted /\ \A k \in 1 .. Len(adm) : Asks(adm[k])
  BY DEF Sizing
<1>2. PICK L \in Nat : L = Len(adm) /\ DOMAIN adm = 1 .. L
  OBVIOUS
<1>3. IsFiniteSet(Plans(adm))
  <2> DEFINE f == [k \in 1 .. L |-> NetRequests(adm[k].signal.instrument, Group(adm, adm[k].signal.instrument))]
             R == {f[k] : k \in 1 .. L}
  <2>1. IsFiniteSet(1 .. L)
    BY FS_Interval
  <2>2. f \in Surjection(1 .. L, R)
    BY DEF Surjection
  <2>3. Plans(adm) \subseteq R
    <3>1. ASSUME NEW p \in Plans(adm) PROVE p \in R
      <4>1. PICK i \in Grouped(adm) : p = NetRequests(i, Group(adm, i))
        BY DEF Plans
      <4>2. PICK k \in 1 .. L : i = adm[k].signal.instrument
        BY <1>2, <4>1 DEF Grouped
      <4>3. p = f[k]
        BY <4>1, <4>2
      <4> HIDE DEF f
      <4> QED BY <4>3
    <3> QED BY <3>1
  <2> HIDE DEF f, R
  <2>4. IsFiniteSet(R)
    BY <2>1, <2>2, FS_Surjection
  <2> QED BY <2>3, <2>4, FS_Subset
<1>4. ASSUME NEW p \in Plans(adm) PROVE Sendable(p)
  <2>1. PICK i : i = p.instrument /\ p = NetRequests(i, Group(adm, i)) /\ i \in Grouped(adm)
    BY PlanOf
  <2>2. i \in Instruments
    BY <1>1, <1>2, <2>1 DEF Grouped, Asks
  <2>3. PICK G \in Seq(Requests) : G = Group(adm, i)
    BY GroupPlaces
  <2>4. PICK q \in Int : q = Sum(G)
    BY AskedTyped
  <2>5. p.net = Quantise(q)
    BY <2>1, <2>3, <2>4, PlanAddsUp
  <2> QED BY <2>1, <2>2, <2>5, QuantiseShrinks DEF Sendable
<1> QED BY <1>1, <1>3, <1>4

Outcomes(d) == Sound(d) /\ IsFiniteSet(d.plans) /\ \A p \in d.plans : Sendable(p)

(* decide(): whichever way a batch leaves it, what it leaves is sound.     *)
LEMMA DecideSound ==
  ASSUME Positioned, Standing, NEW signals \in Batches
  PROVE  Outcomes(Decide(signals))
<1>1. signals \in Seq(Signals) /\ \A n \in 1 .. Len(signals) : Ready(signals[n])
  <2>1. signals \in Seq(Signals)
    BY DeskAssumption DEF BatchesTyped
  <2>2. ASSUME NEW n \in 1 .. Len(signals) PROVE Ready(signals[n])
    <3>1. n \in DOMAIN signals /\ signals[n] \in Signals
      BY <2>1
    <3> QED BY <3>1, DeskAssumption DEF BatchesTyped, Ready
  <2> QED BY <2>1, <2>2
<1>2. ASSUME NEW reached PROVE Outcomes(RefuseBatch(signals, reached))
  <2>1. RefuseBatch(signals, reached).plans = {}
    BY DEF RefuseBatch, Outcome
  <2>2. Sound(RefuseBatch(signals, reached))
    BY <1>1, RefusedSound
  <2> QED BY <2>1, <2>2, FS_EmptySet DEF Outcomes
<1>3. CASE gate # "trading"
  BY <1>2, <1>3 DEF Decide
<1>4. CASE gate = "trading" /\ PortfolioHalted
  BY <1>2, <1>4 DEF Decide
<1>5. CASE gate = "trading" /\ ~PortfolioHalted
  <2>1. PICK acc : acc = SizeSignals(signals) /\ Sizing(Len(signals), acc)
    BY <1>1, SizingEnds
  <2>2. PICK plans : plans = Plans(acc.admitted)
    OBVIOUS
  <2>3. CASE Concentrated(plans)
    <3>1. PICK d : d = Outcome(signals, AuditAdmitted(acc, plans, "concentration", FALSE), {})
      OBVIOUS
    <3>2. Sound(d)
      BY <1>1, <2>1, <3>1, ConcentratedSound
    <3>3. d.plans = {}
      BY <3>1 DEF Outcome
    <3>4. Decide(signals) = d
      BY <1>5, <2>1, <2>2, <2>3, <3>1 DEF Decide
    <3> QED BY <3>2, <3>3, <3>4, FS_EmptySet DEF Outcomes
  <2>4. CASE ~Concentrated(plans)
    <3>1. PICK all : /\ all = AuditAdmitted(acc, plans, "order_construction", TRUE)
                     /\ Audited(acc.admitted, acc.audits, plans, "order_construction", TRUE, all)
      BY <2>1, AllAudited
    <3>2. PICK d : d = Outcome(signals, all, plans)
      OBVIOUS
    <3>3. d.signals = signals /\ d.audits = all /\ d.plans = plans /\ d.before = book /\ d.mark = mark
      BY <3>2 DEF Outcome
    <3>4. Decide(signals) = d
      BY <1>5, <2>1, <2>2, <2>4, <3>1, <3>2 DEF Decide
    <3>5. FlattenNeverFlips(d)
      BY <2>1, <2>2, <3>1, <3>3, ApprovedNeverFlips
    <3>6. LoneSignalInsideLimits(d)
      BY <2>1, <2>2, <3>3, LoneInside
    <3>7. Attributed(d)
      <4>1. PICK adm \in Seq(Requests), auds \in Seq(Audits) :
              /\ adm = acc.admitted /\ auds = acc.audits /\ Len(adm) + Len(auds) = Len(signals) /\ Apart(adm)
              /\ \A k \in 1 .. Len(auds) : Rejects(auds[k])
        BY <2>1 DEF Sizing
      <4>2. Len(d.signals) = Len(auds) + Len(adm)
        <5>1. Len(adm) \in Nat /\ Len(auds) \in Nat
          OBVIOUS
        <5>2. PICK a \in Nat, c \in Nat : a = Len(adm) /\ c = Len(auds) /\ a + c = Len(signals)
          BY <4>1, <5>1
        <5>3. Len(d.signals) = Len(signals)
          BY <3>3
        <5> QED BY <5>2, <5>3
      <4> QED BY <2>2, <3>1, <3>3, <4>1, <4>2, ApprovedAttributed
    <3>8. IsFiniteSet(plans) /\ \A p \in plans : Sendable(p)
      BY <2>1, <2>2, PlansSendable
    <3> QED BY <3>3, <3>4, <3>5, <3>6, <3>7, <3>8 DEF Outcomes, Sound
  <2> QED BY <2>3, <2>4
<1> QED BY <1>3, <1>4, <1>5

-----------------------------------------------------------------------------
OrdersTyped ==
  /\ IsFiniteSet(orders)
  /\ \A o \in orders : o.instrument \in Instruments /\ o.q \in Int /\ o.q # 0 /\ o.q % Lot = 0
DeskInv == Positioned /\ Standing /\ tradable \subseteq Instruments /\ OrdersTyped /\ Sound(decision)

LEMMA NoDecisionSound == Sound(NoDecision)
<1>1. NoDecision.plans = {} /\ NoDecision.audits = <<>> /\ NoDecision.signals = <<>>
  BY DEF NoDecision
<1>2. 0 \in Nat /\ DOMAIN NoDecision.audits = 1 .. 0 /\ Len(NoDecision.audits) = Len(NoDecision.signals)
  BY <1>1
<1> QED BY <1>1, <1>2, NothingDecided

(* The invariant of the desk: at the start, and after every action.        *)
LEMMA DeskStarts ==
  ASSUME DeskInit
  PROVE  DeskInv
<1>1. Positioned
  BY DeskAssumption DEF DeskInit, Positioned
<1>2. Standing
  BY DEF DeskInit, Standing
<1>3. OrdersTyped
  BY FS_EmptySet DEF DeskInit, OrdersTyped
<1>4. Sound(decision)
  BY NoDecisionSound DEF DeskInit
<1>5. tradable \subseteq Instruments
  BY DEF DeskInit
<1> QED BY <1>1, <1>2, <1>3, <1>4, <1>5 DEF DeskInv

(* The batch is decided and its orders are constructed.                    *)
LEMMA DecideKeeps ==
  ASSUME DeskInv, DecideBatch
  PROVE  DeskInv'
<1>1. PICK signals \in Batches :
        decision' = Decide(signals) /\ orders' = ConstructOrders(Decide(signals).plans)
  BY DEF DecideBatch
<1>2. PICK d : d = Decide(signals) /\ Outcomes(d)
  BY DecideSound DEF DeskInv
<1>3. UNCHANGED <<book, mark, standing, tradable>>
  BY DEF DecideBatch
<1>4. OrdersTyped'
  <2>1. PICK sends : sends = {x \in d.plans : x.net # 0} /\ IsFiniteSet(sends)
    BY <1>2, FS_Subset DEF Outcomes
  <2> DEFINE f == [p \in sends |-> OrderOf(p)]
  <2>2. orders' = {OrderOf(p) : p \in sends}
    BY <1>1, <1>2, <2>1 DEF ConstructOrders
  <2>3. IsFiniteSet(orders')
    <3>1. f \in Surjection(sends, {OrderOf(p) : p \in sends})
      BY DEF Surjection
    <3> HIDE DEF f
    <3> QED BY <2>1, <2>2, <3>1, FS_Surjection
  <2>4. ASSUME NEW o \in orders'
        PROVE  o.instrument \in Instruments /\ o.q \in Int /\ o.q # 0 /\ o.q % Lot = 0
    <3>1. PICK p \in sends : o = OrderOf(p)
      BY <2>2, <2>4
    <3>2. Sendable(p) /\ p.net # 0
      BY <1>2, <2>1, <3>1 DEF Outcomes
    <3>3. o.instrument = p.instrument /\ o.q = p.net
      BY <3>1 DEF OrderOf
    <3> QED BY <3>2, <3>3 DEF Sendable
  <2> QED BY <2>3, <2>4 DEF OrdersTyped
<1>5. Sound(decision)'
  BY <1>1, <1>2 DEF Outcomes
<1>6. Positioned' /\ Standing' /\ (tradable \subseteq Instruments)'
  BY <1>3 DEF DeskInv, Positioned, Standing
<1> QED BY <1>4, <1>5, <1>6 DEF DeskInv

(* The venue fills wholly, in part or not at all.                          *)
LEMMA SettleKeeps ==
  ASSUME DeskInv, Settle
  PROVE  DeskInv'
<1>1. PICK part \in {0, Lot}, whole \in SUBSET orders :
        book' = [i \in Instruments |->
          book[i] + Total([o \in {x \in orders : x.instrument = i} |->
            IF o \in whole THEN o.q ELSE IF o.q > 0 THEN part ELSE -part])]
  BY DEF Settle
<1>2. part \in Int
  BY DeskAssumption
<1>3. ASSUME NEW i \in Instruments
      PROVE  book[i] + Total([o \in {x \in orders : x.instrument = i} |->
               IF o \in whole THEN o.q ELSE IF o.q > 0 THEN part ELSE -part]) \in Int
  <2> DEFINE f == [o \in {x \in orders : x.instrument = i} |->
                     IF o \in whole THEN o.q ELSE IF o.q > 0 THEN part ELSE -part]
  <2>1. IsFiniteSet(DOMAIN f)
    <3>1. IsFiniteSet({x \in orders : x.instrument = i})
      BY FS_Subset DEF DeskInv, OrdersTyped
    <3> QED BY <3>1
  <2>2. \A o \in DOMAIN f : f[o] \in Int
    BY <1>2 DEF DeskInv, OrdersTyped
  <2> HIDE DEF f
  <2>3. Total(f) \in Int
    BY <2>1, <2>2, TotalTyped
  <2>4. book[i] \in Int
    BY DEF DeskInv, Positioned
  <2>5. book[i] + Total(f) \in Int
    BY <2>3, <2>4
  <2> QED BY <2>5 DEF f
<1>4. book' \in [Instruments -> Int]
  BY <1>1, <1>3
<1>5. orders' = {} /\ decision' = NoDecision /\ UNCHANGED <<mark, standing, tradable>>
  BY DEF Settle
<1>6. Positioned'
  BY <1>4, <1>5 DEF DeskInv, Positioned
<1>7. OrdersTyped'
  BY <1>5, FS_EmptySet DEF OrdersTyped
<1>8. Sound(decision)'
  BY <1>5, NoDecisionSound
<1> QED BY <1>5, <1>6, <1>7, <1>8 DEF DeskInv, Standing

(* The mark, the losses, the gate and the venue's list move.               *)
LEMMA UpsetKeeps ==
  ASSUME DeskInv, MarkMoves \/ LoseMoney \/ TripGate \/ Delist
  PROVE  DeskInv'
<1>1. UNCHANGED <<book, orders, decision>>
  BY DEF MarkMoves, LoseMoney, TripGate, Delist
<1>2. mark' \in [Instruments -> Nat \ {0}]
  <2>1. CASE MarkMoves
    BY <2>1 DEF MarkMoves, DeskInv, Positioned
  <2>2. CASE ~MarkMoves
    BY <2>2 DEF LoseMoney, TripGate, Delist, DeskInv, Positioned
  <2> QED BY <2>1, <2>2
<1>3. standing' \in [{Portfolio} \cup Strategies -> 0 .. 4]
  <2>1. CASE LoseMoney
    <3>1. PICK s \in DOMAIN standing : standing' = [standing EXCEPT ![s] = IF @ = 4 THEN 2 ELSE 0]
      BY <2>1 DEF LoseMoney
    <3>2. standing \in [{Portfolio} \cup Strategies -> 0 .. 4]
      BY DEF DeskInv, Standing
    <3> QED BY <3>1, <3>2
  <2>2. CASE ~LoseMoney
    BY <2>2 DEF MarkMoves, TripGate, Delist, DeskInv, Standing
  <2> QED BY <2>1, <2>2
<1>4. tradable' \subseteq Instruments
  BY DEF MarkMoves, LoseMoney, TripGate, Delist, DeskInv
<1>5. Positioned' /\ Standing'
  BY <1>1, <1>2, <1>3 DEF DeskInv, Positioned, Standing
<1>6. OrdersTyped' /\ Sound(decision)'
  BY <1>1 DEF DeskInv, OrdersTyped
<1> QED BY <1>4, <1>5, <1>6 DEF DeskInv

LEMMA DeskKeeps ==
  ASSUME DeskInv, [DeskNext]_deskVars
  PROVE  DeskInv'
<1>1. CASE UNCHANGED deskVars
  <2>1. UNCHANGED <<book, mark, standing, tradable, orders, decision>>
    BY <1>1 DEF deskVars
  <2> QED BY <2>1 DEF DeskInv, Positioned, Standing, OrdersTyped
<1> QED BY <1>1, DecideKeeps, SettleKeeps, UpsetKeeps DEF DeskNext

(***************************************************************************)
(* The book stays a quantity per instrument, every order stands for whole  *)
(* lots of a known instrument, and every decision of decide() is           *)
(* attributed, flattens without flipping and keeps a lone signal inside    *)
(* the limits.                                                             *)
(***************************************************************************)
THEOREM DeskInductive == DeskSpec => []DeskInv
<1>1. DeskInit => DeskInv
  BY DeskStarts
<1>2. DeskInv /\ [DeskNext]_deskVars => DeskInv'
  BY DeskKeeps
<1> QED BY <1>1, <1>2, PTL DEF DeskSpec

(***************************************************************************)
(* The state of the desk keeps its type through every decision, fill and   *)
(* upset.                                                                  *)
(***************************************************************************)
THEOREM DeskAlwaysTyped == DeskSpec => []DeskTyped
<1>1. DeskInv => DeskTyped
  <2>1. DeskInv => DOMAIN book = Instruments /\ \A i \in Instruments : mark[i] > 0
    BY DEF DeskInv, Positioned
  <2>2. DeskInv => \A s \in DOMAIN standing : standing[s] \in 0 .. 4
    BY DEF DeskInv, Standing
  <2>3. DeskInv => \A o \in orders : o.instrument \in Instruments /\ o.q # 0 /\ o.q % Lot = 0
    BY DEF DeskInv, OrdersTyped
  <2> QED BY <2>1, <2>2, <2>3 DEF DeskTyped
<1> QED BY <1>1, DeskInductive, PTL

(***************************************************************************)
(* What decide() books to the strategies is what it sends to the venue:    *)
(* the slices of net_requests add up to the net, which is whole lots, none *)
(* is larger than what its strategy asked or of the other sign, what       *)
(* crossed inside is what was bought beyond the net, and the audits of     *)
(* every batch, however it was refused, book exactly what the plans send.  *)
(***************************************************************************)
THEOREM AttributionAlwaysReal == DeskSpec => []AttributionIsReality
<1>1. DeskInv => AttributionIsReality
  BY DEF DeskInv, Sound, AttributionIsReality
<1> QED BY <1>1, DeskInductive, PTL

(***************************************************************************)
(* However many strategies flatten a position in one batch (ToFlatten),    *)
(* what they send never flips it; and a signal decided alone               *)
(* (validate_pre_trade, compute_size) never takes a holding past the       *)
(* position limits.                                                        *)
(***************************************************************************)
THEOREM BookAlwaysInsideMandate == DeskSpec => []BookInsideMandate
<1>1. DeskInv => BookInsideMandate
  BY DEF DeskInv, Sound, BookInsideMandate
<1> QED BY <1>1, DeskInductive, PTL
=============================================================================
