---------------------------- MODULE ResearchProofs ----------------------------
(***************************************************************************)
(* That the trial ledger loses no charge and its chain verifies, for any   *)
(* number of clerks, specifications, executions, rollbacks and crashes;    *)
(* and what of the evolution record stands for any number of curators, and *)
(* what for one at a time; and that a validation run leaks nothing, tests  *)
(* every tick alike and pays for what it looks at, for any declaration;    *)
(* and that no value and no read knows what came after it, nor any print   *)
(* of a backtest, whatever the tape, the latencies and the orders; and     *)
(* what a strategy's signal stands on, for any catalogue and any bars.     *)
(***************************************************************************)
EXTENDS TrialLedger, LineageStore, ValidationProtocols, PointInTime, BacktestRun,
        StrategyRun, FiniteSetTheorems, SequenceTheorems, NaturalsInduction,
        WellFoundedInduction, TLAPS

-----------------------------------------------------------------------------
(* The rows of the ledger and of the executions.                           *)
Kinds == {"registration", "execution_overflow"}
Outcomes == {"completed", "failed"}

Row == [seq : Nat \ {0}, spec : Ids, kind : Kinds, charged : Nat \ {0},
        cumulative : Nat \ {0}, prev : Nat]
Run == [spec : Ids, index : Nat, outcome : Outcomes, charged : BOOLEAN]

RowsTyped ==
  /\ ledger \subseteq Row /\ IsFiniteSet(ledger)
  /\ ledgerSeq \in 1 .. MaxRows /\ \A r \in ledger : r.seq < ledgerSeq
  /\ executions \subseteq Run /\ IsFiniteSet(executions)

(* Numbers are told apart and agree with the running total, which every    *)
(* row but the first carries on from the row before it.                    *)
OneOrder ==
  /\ \A r, o \in ledger : r.seq = o.seq => r = o
  /\ \A r, o \in ledger : r.seq < o.seq => r.cumulative < o.cumulative

EarlierRows(r) == {o \in ledger : o.seq < r.seq}
Chained(r) ==
  \/ r.prev = EmptyTip /\ EarlierRows(r) = {}
  \/ \E q \in EarlierRows(r) : q.seq = r.prev /\ \A o \in EarlierRows(r) : o.seq <= q.seq
OneChain == \A r \in ledger : Chained(r)
Ranked == \A n \in 1 .. Cardinality(ledger) : \E r \in ledger : Cardinality(UpTo(ledger, r)) = n

(* One registration per specification, with its declared grid.             *)
RegisteredOnce ==
  /\ \A r, o \in ledger :
       r.kind = "registration" /\ o.kind = "registration" /\ r.spec = o.spec => r = o
  /\ \A r \in ledger :
       r.kind = "registration" => Declarable(SpecOf(r.spec)) /\ r.charged = DeclaredGridPoints(SpecOf(r.spec))

RunsNumbered ==
  \A e \in executions : e.index <= RunsOf(e.spec) /\ Registration(ledger, e.spec) # {}

(* What is charged to a context is what is owed in it.                     *)
ContextSettled ==
  \A s \in Specifications :
    /\ IsFiniteSet(TrialsOwed(s.context))
    /\ ContextTrials(s.context) = Cardinality(TrialsOwed(s.context))
TotalSettled == IsFiniteSet(TrialsOf(ledger)) /\ GlobalTrials(ledger) = SumOf(ledger)

(* What a transaction holds: it has the lock, and what it has staged is    *)
(* made of the ledger as it still is.                                      *)
StagedRow(r, id, kind, charge) ==
  \E q \in 1 .. ledgerSeq - 1 :
    r = Accumulated(ledger, q, id, kind, charge) /\ \A o \in ledger : o.seq < q
NextRun(e, id, pays) ==
  \E outcome \in Outcomes :
    e = [spec |-> id, index |-> RunsOf(id) + 1, outcome |-> outcome, charged |-> pays]

StagedRegistration(t, id) ==
  /\ Declarable(SpecOf(id)) /\ Registration(ledger, id) = {} /\ t.runs = {}
  /\ \E r : t.rows = {r} /\ StagedRow(r, id, "registration", DeclaredGridPoints(SpecOf(id)))
StagedOverflow(t, id) ==
  /\ \E d \in Registration(ledger, id) : RunsOf(id) + 1 > d.charged
  /\ \E r, e : /\ t.rows = {r} /\ StagedRow(r, id, "execution_overflow", 1)
               /\ t.runs = {e} /\ NextRun(e, id, TRUE)
StagedRun(t, id) ==
  /\ t.rows = {} /\ \E d \in Registration(ledger, id) : RunsOf(id) + 1 <= d.charged
  /\ \E e : t.runs = {e} /\ NextRun(e, id, FALSE)

TaskOK(t) ==
  \/ t = AtRest
  \/ /\ t = [step |-> "register", spec |-> t.spec]
     /\ t.spec \in Ids /\ Declarable(SpecOf(t.spec))
  \/ /\ t = [step |-> "execute", spec |-> t.spec, outcome |-> t.outcome]
     /\ t.spec \in Ids /\ t.outcome \in Outcomes
  \/ /\ t = [step |-> "staged", rows |-> t.rows, runs |-> t.runs]
     /\ \E id \in Ids : StagedRegistration(t, id) \/ StagedOverflow(t, id) \/ StagedRun(t, id)

LockInv ==
  /\ ledgerLock \in Clerks \cup {NoClerk}
  /\ clerk = [c \in Clerks |-> clerk[c]]
  /\ \A c \in Clerks : TaskOK(clerk[c]) /\ (clerk[c] # AtRest => ledgerLock = c)

(* A dump is a chain, and its recorded tip, unless it was empty, a row of  *)
(* the ledger when it was read.                                            *)
DumpOK(rows) ==
  /\ rows \in Seq(Row) /\ LinksHold(rows)
  /\ \A m, n \in DOMAIN rows : m < n => rows[m].seq < rows[n].seq
TipStands(tip) == tip = EmptyTip \/ \E r \in ledger : r.seq = tip
BackupInv ==
  \/ backup = NoBackup
  \/ /\ backup = [step |-> "tip", tip |-> backup.tip] /\ TipStands(backup.tip)
  \/ /\ backup = [step |-> "dumped", tip |-> backup.tip, rows |-> backup.rows]
     /\ DumpOK(backup.rows)
     /\ backup.tip = EmptyTip \/ \E n \in DOMAIN backup.rows : backup.rows[n].seq = backup.tip


-----------------------------------------------------------------------------
(* Numbers.                                                                *)
LEMMA LeastExists ==
  ASSUME NEW S \in SUBSET Nat, S # {}
  PROVE  \E x \in S : \A y \in S : x <= y
<1>1. PICK x \in S : \A y \in S : ~(<<y, x>> \in OpToRel(<, Nat))
  BY NatLessThanWellFounded, WFMin
<1>2. \A y \in S : ~(y < x)
  BY <1>1 DEF OpToRel
<1>3. \A y \in S : x <= y
  BY <1>2
<1> QED BY <1>3

LEMMA MostExists ==
  ASSUME NEW n \in Nat, NEW S \in SUBSET (0 .. n), S # {}
  PROVE  \E x \in S : \A y \in S : y <= x
<1> DEFINE Below == {n - u : u \in S}
<1>1. Below \in SUBSET Nat
  OBVIOUS
<1>2. Below # {}
  OBVIOUS
<1>3. PICK z \in Below : \A y \in Below : z <= y
  <2> HIDE DEF Below
  <2> QED BY <1>1, <1>2, LeastExists
<1>4. PICK x \in S : z = n - x
  OBVIOUS
<1>5. \A y \in S : n - x <= n - y
  BY <1>3, <1>4
<1> QED BY <1>5

LEMMA MaxIs ==
  ASSUME NEW S \in SUBSET Int, NEW m \in S, \A x \in S : x <= m
  PROVE  Max(S) = m
<1>1. \E x \in S : \A y \in S : x >= y
  OBVIOUS
<1>2. Max(S) \in S /\ \A y \in S : Max(S) >= y
  BY <1>1 DEF Max
<1>3. Max(S) >= m /\ Max(S) <= m /\ Max(S) \in Int /\ m \in Int
  BY <1>2
<1> HIDE DEF Max
<1> QED BY <1>3

-----------------------------------------------------------------------------
(* The declared grid has a point at least.                                 *)
LEMMA GridPointsTyped ==
  ASSUME NEW v \in Seq(Nat), \A n \in DOMAIN v : v[n] >= 1
  PROVE  GridPoints(v) \in Nat \ {0}
<1> DEFINE L == Len(v)
           Products(N, g) == /\ g \in [0 .. N -> Nat \ {0}] /\ g[0] = 1
                             /\ \A n \in 1 .. N : g[n] = g[n - 1] * v[n]
           Bad == {N \in 0 .. L : ~\E g : Products(N, g)}
<1>1. L \in Nat /\ \A n \in 1 .. L : v[n] \in Nat \ {0}
  OBVIOUS
<1> HIDE DEF L
<1>2. Bad = {}
  <2>1. SUFFICES ASSUME Bad # {} PROVE FALSE
    OBVIOUS
  <2>2. PICK N \in Bad : \A M \in Bad : N <= M
    <3>1. Bad \in SUBSET Nat
      BY <1>1
    <3> HIDE DEF Bad
    <3> QED BY <2>1, <3>1, LeastExists
  <2>3. N \in 0 .. L /\ ~\E g : Products(N, g)
    BY <2>2
  <2>4. N # 0
    <3>1. SUFFICES ASSUME N = 0 PROVE FALSE
      OBVIOUS
    <3>2. Products(0, [n \in 0 .. 0 |-> 1])
      OBVIOUS
    <3> QED BY <2>3, <3>1, <3>2
  <2>5. N - 1 \in 0 .. L /\ N - 1 \notin Bad
    <3>1. N \in Nat /\ N - 1 \in 0 .. L
      BY <1>1, <2>3, <2>4
    <3> HIDE DEF Bad
    <3>2. N - 1 \notin Bad
      BY <2>2, <3>1
    <3> QED BY <3>1, <3>2
  <2>6. PICK g : Products(N - 1, g)
    BY <2>5
  <2> DEFINE h == [n \in 0 .. N |-> IF n = N THEN g[N - 1] * v[N] ELSE g[n]]
  <2>7. v[N] \in Nat \ {0} /\ g[N - 1] \in Nat \ {0}
    BY <1>1, <2>3, <2>4, <2>6
  <2>8. g[N - 1] * v[N] \in Nat \ {0}
    <3>1. \A a, b \in Nat \ {0} : a * b \in Nat \ {0}
      OBVIOUS
    <3> QED BY <2>7, <3>1
  <2>9. h \in [0 .. N -> Nat \ {0}]
    BY <2>3, <2>4, <2>6, <2>8
  <2>10. h[0] = 1
    BY <2>3, <2>4, <2>6
  <2>11. ASSUME NEW n \in 1 .. N PROVE h[n] = h[n - 1] * v[n]
    <3>1. CASE n = N
      BY <2>3, <2>4, <3>1
    <3>2. CASE n # N
      BY <2>3, <2>4, <2>6, <3>2
    <3> QED BY <3>1, <3>2
  <2>12. Products(N, h)
    <3> HIDE DEF h
    <3> QED BY <2>9, <2>10, <2>11
  <2> QED BY <2>3, <2>12
<1>3. PICK g : Products(L, g)
  <2>1. L \in 0 .. L /\ L \notin Bad
    <3> HIDE DEF Bad
    <3> QED BY <1>1, <1>2
  <2> QED BY <2>1
<1> DEFINE Body(f) == [n \in 0 .. L |-> IF n = 0 THEN 1 ELSE f[n - 1] * v[n]]
           r == CHOOSE f : f = Body(f)
<1>4. g = Body(g)
  <2>1. \A n \in 0 .. L : g[n] = Body(g)[n]
    BY <1>1, <1>3
  <2>2. g = [n \in 0 .. L |-> g[n]]
    BY <1>3
  <2> QED BY <2>1, <2>2
<1>5. GridPoints(v) = r[L]
  BY DEF GridPoints, L
<1>6. r = Body(r)
  <2> HIDE DEF Body
  <2> QED BY <1>4
<1> HIDE DEF r
<1>7. \A n \in 0 .. L : r[n] \in Nat \ {0}
  <2> DEFINE Off == {n \in 0 .. L : r[n] \notin Nat \ {0}}
  <2>1. SUFFICES ASSUME Off # {} PROVE FALSE
    OBVIOUS
  <2>2. PICK n \in Off : \A m \in Off : n <= m
    <3>1. Off \in SUBSET Nat
      BY <1>1
    <3> HIDE DEF Off
    <3> QED BY <2>1, <3>1, LeastExists
  <2>3. n # 0 /\ r[n] = r[n - 1] * v[n]
    <3>1. n \in 0 .. L /\ r[n] = IF n = 0 THEN 1 ELSE r[n - 1] * v[n]
      BY <1>6, <2>2
    <3> QED BY <2>2, <3>1
  <2>4. r[n - 1] \in Nat \ {0}
    <3>1. n - 1 \in 0 .. L /\ ~(n <= n - 1)
      BY <1>1, <2>2, <2>3
    <3>2. n - 1 \notin Off
      <4> HIDE DEF Off
      <4> QED BY <2>2, <3>1
    <3> QED BY <3>1, <3>2
  <2>5. \A a, b \in Nat \ {0} : a * b \in Nat \ {0}
    OBVIOUS
  <2>6. v[n] \in Nat \ {0}
    BY <1>1, <2>2, <2>3
  <2> QED BY <2>2, <2>3, <2>4, <2>5, <2>6
<1> QED BY <1>1, <1>5, <1>7

LEMMA GridDeclared ==
  ASSUME NEW s \in Specifications, Declarable(s)
  PROVE  DeclaredGridPoints(s) \in Nat \ {0}
<1>1. s.values \in Seq(Nat) /\ s.symbols \in Nat \ {0} /\ s.variants \in Nat \ {0}
  BY LedgerAssumption DEF Declarable
<1>2. GridPoints(s.values) \in Nat \ {0}
  BY <1>1, GridPointsTyped DEF Declarable
<1>3. \A a, b \in Nat \ {0} : a * b \in Nat \ {0}
  OBVIOUS
<1> QED BY <1>1, <1>2, <1>3 DEF DeclaredGridPoints

LEMMA SpecOfId ==
  /\ \A id \in Ids : SpecOf(id) \in Specifications /\ SpecOf(id).id = id
  /\ \A s \in Specifications : s.id \in Ids /\ SpecOf(s.id) = s
<1>1. ASSUME NEW id \in Ids PROVE SpecOf(id) \in Specifications /\ SpecOf(id).id = id
  <2>1. \E s \in Specifications : s.id = id
    BY DEF Ids
  <2> QED BY <2>1 DEF SpecOf
<1>2. ASSUME NEW s \in Specifications PROVE s.id \in Ids /\ SpecOf(s.id) = s
  <2>1. s.id \in Ids
    BY DEF Ids
  <2>2. SpecOf(s.id) \in Specifications /\ SpecOf(s.id).id = s.id
    BY <1>1, <2>1
  <2> QED BY <2>1, <2>2, LedgerAssumption
<1> QED BY <1>1, <1>2

-----------------------------------------------------------------------------
(* A count of trials grows by what one owner adds to it.                   *)
LEMMA TrialsOfOne ==
  ASSUME NEW x, NEW I, IsFiniteSet(I)
  PROVE  IsFiniteSet({x} \X I) /\ Cardinality({x} \X I) = Cardinality(I)
<1> DEFINE A == {x} \X I
           f == [j \in I |-> <<x, j>>]
<1>1. f \in Bijection(I, A)
  <2>1. f \in [I -> A]
    OBVIOUS
  <2>2. \A i, j \in I : f[i] = f[j] => i = j
    OBVIOUS
  <2>3. \A a \in A : \E j \in I : f[j] = a
    OBVIOUS
  <2> HIDE DEF f, A
  <2> QED BY <2>1, <2>2, <2>3 DEF Bijection, Injection, Surjection, IsInjective
<1>2. ExistsBijection(I, A)
  BY <1>1 DEF ExistsBijection
<1> HIDE DEF A
<1>3. IsFiniteSet(A) /\ Cardinality(A) = Cardinality(I)
  BY <1>2, FS_Bijection
<1> QED BY <1>3 DEF A

LEMMA TrialsAdd ==
  ASSUME NEW U, IsFiniteSet(U), NEW A, IsFiniteSet(A), U \cap A = {}
  PROVE  IsFiniteSet(U \cup A) /\ Cardinality(U \cup A) = Cardinality(U) + Cardinality(A)
<1>1. Cardinality({}) = 0 /\ Cardinality(U) \in Nat /\ Cardinality(A) \in Nat
  BY FS_EmptySet, FS_CardinalityType
<1>2. /\ IsFiniteSet(U \cup A)
      /\ Cardinality(U \cup A) = Cardinality(U) + Cardinality(A) - Cardinality(U \cap A)
  BY FS_Union
<1>3. Cardinality(U \cap A) = 0
  BY <1>1, Zenon
<1> QED BY <1>1, <1>2, <1>3

LEMMA SumAdd ==
  ASSUME NEW rows, IsFiniteSet(TrialsOf(rows)), NEW r, r \notin rows, r.charged \in Nat
  PROVE  IsFiniteSet(TrialsOf(rows \cup {r})) /\ SumOf(rows \cup {r}) = SumOf(rows) + r.charged
<1> DEFINE U == TrialsOf(rows)
           I == 1 .. r.charged
           A == {r} \X I
<1>1. U \cap A = {}
  BY DEF TrialsOf
<1>2. IsFiniteSet(I) /\ Cardinality(I) = r.charged
  BY FS_Interval, SMTT(30)
<1>3. IsFiniteSet(A) /\ Cardinality(A) = r.charged
  <2> HIDE DEF I
  <2> QED BY <1>2, TrialsOfOne
<1>4. IsFiniteSet(U \cup A) /\ Cardinality(U \cup A) = Cardinality(U) + r.charged
  <2>1. IsFiniteSet(U)
    OBVIOUS
  <2> HIDE DEF U, A
  <2>2. IsFiniteSet(U \cup A) /\ Cardinality(U \cup A) = Cardinality(U) + Cardinality(A)
    BY <1>1, <1>3, <2>1, TrialsAdd
  <2> QED BY <1>3, <2>2
<1>5. TrialsOf(rows \cup {r}) = U \cup A
  BY Zenon DEF TrialsOf
<1> QED BY <1>4, <1>5 DEF SumOf

LEMMA SumSome ==
  ASSUME NEW rows, NEW some, some \subseteq rows, IsFiniteSet(TrialsOf(rows))
  PROVE  IsFiniteSet(TrialsOf(some)) /\ SumOf(some) \in Nat /\ SumOf(some) <= SumOf(rows)
<1>1. TrialsOf(some) \subseteq TrialsOf(rows)
  BY DEF TrialsOf
<1>2. /\ IsFiniteSet(TrialsOf(some))
      /\ Cardinality(TrialsOf(some)) <= Cardinality(TrialsOf(rows))
  BY <1>1, FS_Subset
<1>3. Cardinality(TrialsOf(some)) \in Nat
  BY <1>2, FS_CardinalityType
<1> QED BY <1>2, <1>3 DEF SumOf

LEMMA SumPositive ==
  ASSUME NEW rows, IsFiniteSet(TrialsOf(rows)), NEW r \in rows, r.charged \in Nat \ {0}
  PROVE  SumOf(rows) >= 1
<1>1. <<r, 1>> \in TrialsOf(rows)
  <2>1. <<r, 1>> \in {r} \X (1 .. r.charged)
    OBVIOUS
  <2> QED BY <2>1 DEF TrialsOf
<1>2. Cardinality(TrialsOf(rows)) # 0 /\ Cardinality(TrialsOf(rows)) \in Nat
  BY <1>1, FS_EmptySet, FS_CardinalityType
<1> QED BY <1>2 DEF SumOf

-----------------------------------------------------------------------------
(* The last row is last by number and by running total.                    *)
LEMMA TopRow ==
  ASSUME RowsTyped, OneOrder, ledger # {}
  PROVE  \E top \in ledger :
           /\ \A o \in ledger : o.seq <= top.seq /\ o.cumulative <= top.cumulative
           /\ LastLink(ledger) = top /\ GlobalTrials(ledger) = top.cumulative
           /\ TipOf(ledger) = top.seq
<1>1. \A o \in ledger : o.seq \in 0 .. MaxRows /\ o.seq \in Nat /\ o.cumulative \in Nat
  BY LedgerAssumption DEF RowsTyped, Row
<1> DEFINE S == {o.seq : o \in ledger}
<1>2. PICK top \in ledger : \A o \in ledger : o.seq <= top.seq
  <2>1. S \in SUBSET (0 .. MaxRows) /\ S # {}
    BY <1>1
  <2>2. MaxRows \in Nat
    BY LedgerAssumption
  <2> HIDE DEF S
  <2>3. PICK n \in S : \A m \in S : m <= n
    BY <2>1, <2>2, MostExists
  <2> QED BY <2>3 DEF S
<1>3. ASSUME NEW o \in ledger PROVE o = top \/ o.cumulative < top.cumulative
  <2>1. o.seq = top.seq \/ o.seq < top.seq
    BY <1>1, <1>2
  <2> QED BY <2>1 DEF OneOrder
<1>4. \A o \in ledger : o.cumulative <= top.cumulative
  BY <1>1, <1>3
<1>5. LastLink(ledger) = top
  <2>1. /\ LastLink(ledger) \in ledger
        /\ \A o \in ledger : o.cumulative <= LastLink(ledger).cumulative
    BY <1>4 DEF LastLink
  <2>2. top.cumulative <= LastLink(ledger).cumulative
    BY <2>1
  <2> QED BY <1>1, <1>3, <2>1, <2>2
<1>6. GlobalTrials(ledger) = top.cumulative
  <2> DEFINE T == {o.cumulative : o \in ledger} \cup {0}
  <2>1. T \in SUBSET Int /\ top.cumulative \in T /\ \A x \in T : x <= top.cumulative
    BY <1>1, <1>4
  <2>2. Max(T) = top.cumulative
    <3> HIDE DEF T
    <3> QED BY <2>1, MaxIs
  <2> QED BY <2>2 DEF GlobalTrials
<1>7. TipOf(ledger) = top.seq
  <2> DEFINE T == {o.seq : o \in ledger} \cup {EmptyTip}
  <2>1. T \in SUBSET Int /\ top.seq \in T /\ \A x \in T : x <= top.seq
    BY <1>1, <1>2 DEF EmptyTip
  <2>2. Max(T) = top.seq
    <3> HIDE DEF T
    <3> QED BY <2>1, MaxIs
  <2> QED BY <2>2 DEF TipOf
<1> QED BY <1>2, <1>4, <1>5, <1>6, <1>7

LEMMA NoRow ==
  ASSUME ledger = {}
  PROVE  GlobalTrials(ledger) = 0 /\ TipOf(ledger) = EmptyTip
<1>1. {o.cumulative : o \in ledger} \cup {0} = {0} /\ {o.seq : o \in ledger} \cup {EmptyTip} = {0}
  BY DEF EmptyTip
<1>2. Max({0}) = 0
  BY MaxIs
<1> QED BY <1>1, <1>2 DEF GlobalTrials, TipOf, EmptyTip

(* What the trigger makes of a new row.                                    *)
LEMMA RowFormed ==
  ASSUME RowsTyped, OneOrder, NEW q \in Nat \ {0}, \A o \in ledger : o.seq < q,
         NEW id \in Ids, NEW kind \in Kinds, NEW charge \in Nat \ {0}, NEW r,
         r = Accumulated(ledger, q, id, kind, charge)
  PROVE  /\ r \in Row /\ r \notin ledger
         /\ r.seq = q /\ r.spec = id /\ r.kind = kind /\ r.charged = charge
         /\ r.cumulative = GlobalTrials(ledger) + charge /\ GlobalTrials(ledger) \in Nat
         /\ \A o \in ledger : o.cumulative < r.cumulative
         /\ \/ r.prev = EmptyTip /\ ledger = {}
            \/ \E o \in ledger : o.seq = r.prev /\ \A x \in ledger : x.seq <= o.seq
<1>1. /\ r.seq = q /\ r.spec = id /\ r.kind = kind /\ r.charged = charge
      /\ r.cumulative = GlobalTrials(ledger) + charge
      /\ r.prev = IF ledger = {} THEN 0 ELSE LastLink(ledger).seq
      /\ r = [seq |-> r.seq, spec |-> r.spec, kind |-> r.kind, charged |-> r.charged,
              cumulative |-> r.cumulative, prev |-> r.prev]
  BY DEF Accumulated
<1>2. \A o \in ledger : o.seq \in Nat /\ o.cumulative \in Nat
  BY DEF RowsTyped, Row
<1>3. r \notin ledger
  BY <1>1, <1>2
<1>4. CASE ledger = {}
  <2>1. GlobalTrials(ledger) = 0
    BY <1>4, NoRow
  <2>2. r.cumulative \in Nat \ {0} /\ r.prev = 0
    BY <1>1, <1>4, <2>1
  <2>3. r \in Row
    BY <1>1, <2>2 DEF Row
  <2> QED BY <1>1, <1>3, <1>4, <2>1, <2>2, <2>3 DEF EmptyTip
<1>5. CASE ledger # {}
  <2>1. PICK top \in ledger :
          /\ \A o \in ledger : o.seq <= top.seq /\ o.cumulative <= top.cumulative
          /\ LastLink(ledger) = top /\ GlobalTrials(ledger) = top.cumulative
    BY <1>5, TopRow
  <2>2. GlobalTrials(ledger) \in Nat /\ r.prev = top.seq /\ top.seq \in Nat
    BY <1>1, <1>2, <1>5, <2>1
  <2>3. r.cumulative \in Nat \ {0} /\ \A o \in ledger : o.cumulative < r.cumulative
    BY <1>1, <1>2, <2>1, <2>2
  <2>4. r \in Row
    BY <1>1, <2>2, <2>3 DEF Row
  <2> QED BY <1>1, <1>3, <2>1, <2>2, <2>3, <2>4
<1> QED BY <1>4, <1>5

-----------------------------------------------------------------------------
(* A row is committed: it is the last by number and by running total.      *)
Appended(r) ==
  /\ r \in Row /\ r \notin ledger /\ ledger' = ledger \cup {r}
  /\ r.seq < ledgerSeq /\ ledgerSeq' = ledgerSeq
  /\ \A o \in ledger : o.seq < r.seq /\ o.cumulative < r.cumulative
  /\ GlobalTrials(ledger) \in Nat /\ r.cumulative = GlobalTrials(ledger) + r.charged
  /\ \/ r.prev = EmptyTip /\ ledger = {}
     \/ \E o \in ledger : o.seq = r.prev /\ \A x \in ledger : x.seq <= o.seq

LEMMA OrderKept ==
  ASSUME RowsTyped, OneOrder, NEW r, Appended(r)
  PROVE  OneOrder'
<1>1. ledger' = ledger \cup {r}
  BY DEF Appended
<1>2. \A o \in ledger : o.seq \in Nat /\ o.cumulative \in Nat
  BY DEF RowsTyped, Row
<1>3. r.seq \in Nat /\ r.cumulative \in Nat
  BY DEF Appended, Row
<1>4. \A o \in ledger : o.seq < r.seq /\ o.cumulative < r.cumulative
  BY DEF Appended
<1> QED BY <1>1, <1>2, <1>3, <1>4 DEF OneOrder

LEMMA ChainKept ==
  ASSUME RowsTyped, OneChain, NEW r, Appended(r)
  PROVE  OneChain'
<1>1. /\ ledger' = ledger \cup {r} /\ r.seq \in Nat
      /\ \A o \in ledger : o.seq \in Nat /\ o.seq < r.seq
  BY DEF Appended, RowsTyped, Row
<1>2. \A o \in ledger : EarlierRows(o)' = EarlierRows(o)
  BY <1>1 DEF EarlierRows
<1>3. EarlierRows(r)' = ledger
  BY <1>1 DEF EarlierRows
<1>4. ASSUME NEW o \in ledger PROVE Chained(o)'
  <2>1. EarlierRows(o)' = EarlierRows(o) /\ Chained(o)
    BY <1>2 DEF OneChain
  <2> QED BY <2>1 DEF Chained
<1>5. Chained(r)'
  BY <1>3 DEF Chained, Appended
<1> QED BY <1>1, <1>4, <1>5 DEF OneChain

LEMMA RanksKept ==
  ASSUME RowsTyped, Ranked, NEW r, Appended(r)
  PROVE  Ranked'
<1>1. /\ ledger' = ledger \cup {r} /\ r.seq \in Nat /\ r \notin ledger
      /\ \A o \in ledger : o.seq \in Nat /\ o.seq < r.seq
  BY DEF Appended, RowsTyped, Row
<1>2. /\ IsFiniteSet(ledger \cup {r}) /\ Cardinality(ledger) \in Nat
      /\ Cardinality(ledger \cup {r}) = Cardinality(ledger) + 1
  BY <1>1, FS_AddElement, FS_CardinalityType DEF RowsTyped
<1>3. SUFFICES ASSUME NEW n \in 1 .. Cardinality(ledger) + 1
               PROVE  \E o \in ledger' : Cardinality(UpTo(ledger', o)) = n
  BY <1>1, <1>2 DEF Ranked
<1>4. CASE n = Cardinality(ledger) + 1
  <2>1. UpTo(ledger', r) = ledger \cup {r}
    BY <1>1 DEF UpTo
  <2> QED BY <1>1, <1>2, <1>4, <2>1
<1>5. CASE n # Cardinality(ledger) + 1
  <2>1. n \in 1 .. Cardinality(ledger)
    BY <1>2, <1>5
  <2>2. PICK o \in ledger : Cardinality(UpTo(ledger, o)) = n
    BY <2>1 DEF Ranked
  <2>3. UpTo(ledger', o) = UpTo(ledger, o)
    BY <1>1 DEF UpTo
  <2> QED BY <1>1, <2>2, <2>3
<1> QED BY <1>4, <1>5

LEMMA TotalKept ==
  ASSUME RowsTyped, TotalSettled, NEW r, Appended(r)
  PROVE  TotalSettled'
<1>1. /\ ledger' = ledger \cup {r} /\ r \notin ledger /\ r.charged \in Nat
      /\ r.cumulative = GlobalTrials(ledger) + r.charged /\ r.cumulative \in Nat
      /\ \A o \in ledger : o.cumulative \in Nat /\ o.cumulative < r.cumulative
  BY DEF Appended, RowsTyped, Row
<1>2. /\ IsFiniteSet(TrialsOf(ledger \cup {r}))
      /\ SumOf(ledger \cup {r}) = SumOf(ledger) + r.charged
  BY <1>1, SumAdd DEF TotalSettled
<1>3. GlobalTrials(ledger') = r.cumulative
  <2> DEFINE T == {o.cumulative : o \in ledger'} \cup {0}
  <2>1. T \in SUBSET Int /\ r.cumulative \in T /\ \A x \in T : x <= r.cumulative
    BY <1>1
  <2>2. Max(T) = r.cumulative
    <3> HIDE DEF T
    <3> QED BY <2>1, MaxIs
  <2> QED BY <2>2 DEF GlobalTrials
<1> QED BY <1>1, <1>2, <1>3 DEF TotalSettled

LEMMA RowsKept ==
  ASSUME RowsTyped, NEW r, Appended(r), executions' \subseteq Run, IsFiniteSet(executions')
  PROVE  RowsTyped'
<1>1. IsFiniteSet(ledger \cup {r})
  BY FS_AddElement DEF RowsTyped
<1> QED BY <1>1 DEF RowsTyped, Appended

-----------------------------------------------------------------------------
(* What is owed for a specification.                                       *)
LEMMA MaxOfTwo ==
  ASSUME NEW a \in Int, NEW b \in Int
  PROVE  (a >= b => Max({a, b}) = a) /\ (b >= a => Max({a, b}) = b)
<1>1. {a, b} \in SUBSET Int
  OBVIOUS
<1>2. ASSUME a >= b PROVE Max({a, b}) = a
  BY <1>1, <1>2, MaxIs
<1>3. ASSUME b >= a PROVE Max({a, b}) = b
  BY <1>1, <1>3, MaxIs
<1> QED BY <1>2, <1>3

LEMMA RunsTyped ==
  ASSUME RowsTyped, NEW id
  PROVE  /\ IsFiniteSet({e \in executions : e.spec = id}) /\ RunsOf(id) \in Nat
         /\ RunsOf(id) = 0 <=> \A e \in executions : e.spec # id
<1>1. IsFiniteSet({e \in executions : e.spec = id})
  BY FS_Subset DEF RowsTyped
<1>2. Cardinality({e \in executions : e.spec = id}) \in Nat
  BY <1>1, FS_CardinalityType
<1>3. Cardinality({e \in executions : e.spec = id}) = 0 <=> {e \in executions : e.spec = id} = {}
  BY <1>1, FS_EmptySet
<1> QED BY <1>1, <1>2, <1>3 DEF RunsOf

LEMMA Registered ==
  ASSUME RowsTyped, RegisteredOnce, NEW id \in Ids, NEW d \in Registration(ledger, id)
  PROVE  /\ DeclaredGridPoints(SpecOf(id)) \in Nat \ {0} /\ d.charged = DeclaredGridPoints(SpecOf(id))
         /\ Registration(ledger, id) = {d}
<1>1. d \in ledger /\ d.kind = "registration" /\ d.spec = id
  BY DEF Registration
<1>2. Declarable(SpecOf(id)) /\ d.charged = DeclaredGridPoints(SpecOf(id))
  BY <1>1 DEF RegisteredOnce
<1>3. SpecOf(id) \in Specifications
  BY SpecOfId
<1>4. DeclaredGridPoints(SpecOf(id)) \in Nat \ {0}
  BY <1>2, <1>3, GridDeclared
<1>5. \A r \in Registration(ledger, id) : r = d
  BY <1>1 DEF RegisteredOnce, Registration
<1> QED BY <1>2, <1>4, <1>5

LEMMA OwedTyped ==
  ASSUME RowsTyped, RegisteredOnce, NEW id \in Ids
  PROVE  Owed(id) \in Nat
<1>1. CASE Registration(ledger, id) = {}
  BY <1>1 DEF Owed
<1>2. CASE Registration(ledger, id) # {}
  <2>1. PICK d : d \in Registration(ledger, id)
    BY <1>2
  <2>2. DeclaredGridPoints(SpecOf(id)) \in Nat
    BY <2>1, Registered
  <2>3. RunsOf(id) \in Nat
    BY RunsTyped
  <2>4. Max({DeclaredGridPoints(SpecOf(id)), RunsOf(id)}) \in Nat
    BY <2>2, <2>3, MaxOfTwo
  <2> QED BY <1>2, <2>4 DEF Owed
<1> QED BY <1>1, <1>2

LEMMA OwedGrows ==
  ASSUME NEW context, NEW id \in Ids, NEW k \in Nat, Owed(id) \in Nat,
         Owed(id)' = Owed(id) + k, \A t \in Ids : t # id => Owed(t)' = Owed(t),
         IsFiniteSet(TrialsOwed(context))
  PROVE  /\ IsFiniteSet(TrialsOwed(context)')
         /\ SpecOf(id).context = context =>
              Cardinality(TrialsOwed(context)') = Cardinality(TrialsOwed(context)) + k
         /\ SpecOf(id).context # context => TrialsOwed(context)' = TrialsOwed(context)
<1> DEFINE I == Owed(id) + 1 .. Owed(id) + k
           U == TrialsOwed(context)
           A == {id} \X I
<1>1. CASE SpecOf(id).context # context
  <2>1. \A t \in IdsOf(context) : t # id /\ Owed(t)' = Owed(t)
    BY <1>1 DEF IdsOf
  <2>2. TrialsOwed(context)' = TrialsOwed(context)
    BY <2>1 DEF TrialsOwed, IdsOf
  <2> QED BY <1>1, <2>2
<1>2. CASE SpecOf(id).context = context
  <2>1. id \in IdsOf(context)
    BY <1>2 DEF IdsOf
  <2>2. U \cap A = {}
    BY DEF TrialsOwed
  <2>3. IsFiniteSet(I) /\ Cardinality(I) = k
    <3>1. Owed(id) + 1 \in Int /\ Owed(id) + k \in Int
      OBVIOUS
    <3>2. IsFiniteSet(I) /\ Cardinality(I) = IF Owed(id) + 1 > Owed(id) + k THEN 0
                                               ELSE (Owed(id) + k) - (Owed(id) + 1) + 1
      BY <3>1, FS_Interval
    <3> QED BY <3>2
  <2>4. IsFiniteSet(A) /\ Cardinality(A) = k
    <3> HIDE DEF I
    <3> QED BY <2>3, TrialsOfOne
  <2>5. IsFiniteSet(U \cup A) /\ Cardinality(U \cup A) = Cardinality(U) + k
    <3>1. IsFiniteSet(U)
      OBVIOUS
    <3> HIDE DEF U, A
    <3>2. IsFiniteSet(U \cup A) /\ Cardinality(U \cup A) = Cardinality(U) + Cardinality(A)
      BY <2>2, <2>4, <3>1, TrialsAdd
    <3> QED BY <2>4, <3>2
  <2>6. \A t \in IdsOf(context) : t # id => Owed(t)' = Owed(t)
    BY DEF IdsOf
  <2>7. (1 .. Owed(id))' = (1 .. Owed(id)) \cup I
    OBVIOUS
  <2>8. TrialsOwed(context)' = U \cup A
    <3>1. TrialsOwed(context)' \subseteq U \cup A
      BY <2>1, <2>6, <2>7 DEF TrialsOwed, IdsOf
    <3>2. U \cup A \subseteq TrialsOwed(context)'
      BY <2>1, <2>6, <2>7 DEF TrialsOwed, IdsOf
    <3> QED BY <3>1, <3>2
  <2> QED BY <1>2, <2>5, <2>8
<1> QED BY <1>1, <1>2

LEMMA ContextsKept ==
  ASSUME RowsTyped, TotalSettled, ContextSettled, NEW r, Appended(r),
         NEW id \in Ids, r.spec = id, Owed(id) \in Nat, Owed(id)' = Owed(id) + r.charged,
         \A t \in Ids : t # id => Owed(t)' = Owed(t)
  PROVE  ContextSettled'
<1>1. ledger' = ledger \cup {r} /\ r \notin ledger /\ r.charged \in Nat
  BY DEF Appended, Row
<1>2. SUFFICES ASSUME NEW s \in Specifications
               PROVE  /\ IsFiniteSet(TrialsOwed(s.context)')
                      /\ ContextTrials(s.context)' = Cardinality(TrialsOwed(s.context)')
  BY DEF ContextSettled
<1> DEFINE c == s.context
<1>3. /\ IsFiniteSet(TrialsOwed(c)')
      /\ SpecOf(id).context = c => Cardinality(TrialsOwed(c)') = Cardinality(TrialsOwed(c)) + r.charged
      /\ SpecOf(id).context # c => TrialsOwed(c)' = TrialsOwed(c)
  <2>1. IsFiniteSet(TrialsOwed(c))
    BY DEF ContextSettled
  <2> HIDE DEF c
  <2> QED BY <1>1, <2>1, OwedGrows
<1>4. ContextTrials(c) = SumOf(InContext(c)) /\ ContextTrials(c)' = SumOf(InContext(c)')
  BY DEF ContextTrials, SumOf, TrialsOf
<1>5. CASE SpecOf(id).context = c
  <2>1. InContext(c)' = InContext(c) \cup {r} /\ r \notin InContext(c)
    BY <1>1, <1>5 DEF InContext
  <2>2. IsFiniteSet(TrialsOf(InContext(c)))
    <3>1. InContext(c) \subseteq ledger
      BY DEF InContext
    <3> QED BY <3>1, SumSome DEF TotalSettled
  <2>3. SumOf(InContext(c) \cup {r}) = SumOf(InContext(c)) + r.charged
    BY <1>1, <2>1, <2>2, SumAdd
  <2> QED BY <1>3, <1>4, <1>5, <2>1, <2>3 DEF ContextSettled
<1>6. CASE SpecOf(id).context # c
  <2>1. InContext(c)' = InContext(c)
    BY <1>1, <1>6 DEF InContext
  <2> QED BY <1>3, <1>4, <1>6, <2>1 DEF ContextSettled
<1> QED BY <1>5, <1>6

LEMMA RunCounted ==
  ASSUME RowsTyped, RunsNumbered, NEW id \in Ids, NEW e, NEW pays \in BOOLEAN,
         NextRun(e, id, pays), executions' = executions \cup {e}
  PROVE  /\ executions' \subseteq Run /\ IsFiniteSet(executions')
         /\ e.spec = id /\ e.index = RunsOf(id) + 1
         /\ RunsOf(id)' = RunsOf(id) + 1 /\ \A t : t # id => RunsOf(t)' = RunsOf(t)
<1>1. e \in Run /\ e.spec = id /\ e.index = RunsOf(id) + 1
  <2>1. PICK outcome \in Outcomes :
          e = [spec |-> id, index |-> RunsOf(id) + 1, outcome |-> outcome, charged |-> pays]
    BY DEF NextRun
  <2>2. RunsOf(id) + 1 \in Nat
    <3>1. RunsOf(id) \in Nat
      BY RunsTyped
    <3> QED BY <3>1
  <2>3. e.spec = id /\ e.index = RunsOf(id) + 1
    BY <2>1
  <2>4. e \in Run
    BY <2>1, <2>2, Zenon DEF Run
  <2> QED BY <2>3, <2>4
<1>2. executions' \subseteq Run /\ IsFiniteSet(executions')
  BY <1>1, FS_AddElement DEF RowsTyped
<1> DEFINE S == {x \in executions : x.spec = id}
<1>3. e \notin S
  <2>1. RunsOf(id) \in Nat
    BY RunsTyped
  <2>2. \A x \in S : x.index <= RunsOf(id)
    BY DEF RunsNumbered
  <2> HIDE DEF S
  <2> QED BY <1>1, <2>1, <2>2
<1>4. IsFiniteSet(S)
  BY RunsTyped
<1>5. Cardinality(S \cup {e}) = Cardinality(S) + 1
  <2> HIDE DEF S
  <2> QED BY <1>3, <1>4, FS_AddElement
<1>6. {x \in executions' : x.spec = id} = S \cup {e}
  BY <1>1
<1>7. RunsOf(id)' = RunsOf(id) + 1
  <2>1. RunsOf(id)' = Cardinality(S \cup {e}) /\ RunsOf(id) = Cardinality(S)
    BY <1>6 DEF RunsOf
  <2> QED BY <1>5, <2>1
<1>8. ASSUME NEW t, t # id PROVE RunsOf(t)' = RunsOf(t)
  <2>1. {x \in executions' : x.spec = t} = {x \in executions : x.spec = t}
    BY <1>1, <1>8
  <2> QED BY <2>1 DEF RunsOf
<1> QED BY <1>1, <1>2, <1>7, <1>8

LEMMA StagedFormed ==
  ASSUME RowsTyped, OneOrder, NEW id \in Ids, NEW kind \in Kinds, NEW charge \in Nat \ {0},
         NEW r, StagedRow(r, id, kind, charge), ledger' = ledger \cup {r}, ledgerSeq' = ledgerSeq
  PROVE  /\ Appended(r) /\ r.spec = id /\ r.kind = kind /\ r.charged = charge
<1>1. PICK q \in 1 .. ledgerSeq - 1 :
        r = Accumulated(ledger, q, id, kind, charge) /\ \A o \in ledger : o.seq < q
  BY DEF StagedRow
<1>2. q \in Nat \ {0} /\ q < ledgerSeq
  BY DEF RowsTyped
<1>3. /\ r \in Row /\ r \notin ledger
      /\ r.seq = q /\ r.spec = id /\ r.kind = kind /\ r.charged = charge
      /\ r.cumulative = GlobalTrials(ledger) + charge /\ GlobalTrials(ledger) \in Nat
      /\ \A o \in ledger : o.cumulative < r.cumulative
      /\ \/ r.prev = EmptyTip /\ ledger = {}
         \/ \E o \in ledger : o.seq = r.prev /\ \A x \in ledger : x.seq <= o.seq
  BY <1>1, <1>2, RowFormed
<1> QED BY <1>1, <1>2, <1>3 DEF Appended

Books ==
  /\ RowsTyped /\ OneOrder /\ OneChain /\ Ranked /\ RegisteredOnce /\ RunsNumbered
  /\ ContextSettled /\ TotalSettled

LEMMA RegistrationCommits ==
  ASSUME Books, NEW t, NEW id \in Ids, StagedRegistration(t, id),
         ledger' = ledger \cup t.rows, executions' = executions \cup t.runs, ledgerSeq' = ledgerSeq
  PROVE  Books'
<1>1. PICK r : t.rows = {r} /\ StagedRow(r, id, "registration", DeclaredGridPoints(SpecOf(id)))
  BY DEF StagedRegistration
<1>2. DeclaredGridPoints(SpecOf(id)) \in Nat \ {0} /\ Declarable(SpecOf(id))
  BY SpecOfId, GridDeclared DEF StagedRegistration
<1>3. /\ ledger' = ledger \cup {r} /\ executions' = executions
      /\ Registration(ledger, id) = {} /\ "registration" \in Kinds
  BY <1>1 DEF StagedRegistration, Kinds
<1>4. /\ Appended(r) /\ r.spec = id /\ r.kind = "registration"
      /\ r.charged = DeclaredGridPoints(SpecOf(id))
  BY <1>1, <1>2, <1>3, StagedFormed DEF Books
<1>5. RowsTyped' /\ OneOrder' /\ OneChain' /\ Ranked' /\ TotalSettled'
  BY <1>3, <1>4, RowsKept, OrderKept, ChainKept, RanksKept, TotalKept DEF Books, RowsTyped
<1>6. \A x \in Ids : RunsOf(x)' = RunsOf(x)
  BY <1>3 DEF RunsOf
<1>7. \A x \in Ids : x # id => Registration(ledger, x)' = Registration(ledger, x)
  BY <1>3, <1>4 DEF Registration
<1>8. Registration(ledger, id)' = {r}
  BY <1>3, <1>4 DEF Registration
<1>9. RegisteredOnce'
  <2>1. \A o \in ledger : ~(o.kind = "registration" /\ o.spec = id)
    BY <1>3 DEF Registration
  <2>2. \A x, o \in ledger' :
          x.kind = "registration" /\ o.kind = "registration" /\ x.spec = o.spec => x = o
    BY <1>3, <1>4, <2>1 DEF Books, RegisteredOnce
  <2>3. \A o \in ledger' : o.kind = "registration" =>
          Declarable(SpecOf(o.spec)) /\ o.charged = DeclaredGridPoints(SpecOf(o.spec))
    BY <1>2, <1>3, <1>4 DEF Books, RegisteredOnce
  <2> QED BY <2>2, <2>3 DEF RegisteredOnce
<1>10. RunsNumbered'
  <2>1. ASSUME NEW e \in executions'
        PROVE  e.index <= RunsOf(e.spec)' /\ Registration(ledger, e.spec)' # {}
    <3>1. e \in executions /\ e.spec \in Ids
      BY <1>3 DEF Books, RowsTyped, Run
    <3>2. e.index <= RunsOf(e.spec) /\ Registration(ledger, e.spec) # {}
      BY <3>1 DEF Books, RunsNumbered
    <3> QED BY <1>3, <1>6, <1>7, <3>1, <3>2
  <2> QED BY <2>1 DEF RunsNumbered
<1>11. Owed(id) = 0 /\ Owed(id)' = Owed(id) + r.charged
  <2>1. RunsOf(id) = 0
    BY <1>3, RunsTyped DEF Books, RunsNumbered
  <2>2. Max({DeclaredGridPoints(SpecOf(id)), 0}) = DeclaredGridPoints(SpecOf(id))
    BY <1>2, MaxOfTwo
  <2>3. Owed(id) = 0
    BY <1>3 DEF Owed
  <2>4. Owed(id)' = Max({DeclaredGridPoints(SpecOf(id)), 0})
    BY <1>6, <1>8, <2>1 DEF Owed
  <2> QED BY <1>2, <1>4, <2>2, <2>3, <2>4
<1>12. \A x \in Ids : x # id => Owed(x)' = Owed(x)
  BY <1>6, <1>7 DEF Owed
<1>13. ContextSettled'
  BY <1>4, <1>11, <1>12, ContextsKept DEF Books
<1> QED BY <1>5, <1>9, <1>10, <1>13 DEF Books

LEMMA OverflowCommits ==
  ASSUME Books, NEW t, NEW id \in Ids, StagedOverflow(t, id),
         ledger' = ledger \cup t.rows, executions' = executions \cup t.runs, ledgerSeq' = ledgerSeq
  PROVE  Books'
<1>1. PICK r, e : /\ t.rows = {r} /\ StagedRow(r, id, "execution_overflow", 1)
                  /\ t.runs = {e} /\ NextRun(e, id, TRUE)
  BY DEF StagedOverflow
<1>2. PICK d \in Registration(ledger, id) : RunsOf(id) + 1 > d.charged
  BY DEF StagedOverflow
<1>3. /\ ledger' = ledger \cup {r} /\ executions' = executions \cup {e}
      /\ "execution_overflow" \in Kinds /\ 1 \in Nat \ {0}
  BY <1>1 DEF Kinds
<1>4. Appended(r) /\ r.spec = id /\ r.kind = "execution_overflow" /\ r.charged = 1
  BY <1>1, <1>3, StagedFormed DEF Books
<1>5. /\ executions' \subseteq Run /\ IsFiniteSet(executions')
      /\ e.spec = id /\ e.index = RunsOf(id) + 1
      /\ RunsOf(id)' = RunsOf(id) + 1 /\ \A x : x # id => RunsOf(x)' = RunsOf(x)
  BY <1>1, <1>3, RunCounted DEF Books
<1>6. RowsTyped' /\ OneOrder' /\ OneChain' /\ Ranked' /\ TotalSettled'
  BY <1>4, <1>5, RowsKept, OrderKept, ChainKept, RanksKept, TotalKept DEF Books
<1>7. \A x \in Ids : Registration(ledger, x)' = Registration(ledger, x)
  BY <1>3, <1>4 DEF Registration
<1>8. RegisteredOnce'
  BY <1>3, <1>4 DEF Books, RegisteredOnce
<1>9. RunsOf(id) \in Nat
  BY RunsTyped DEF Books
<1>10. RunsNumbered'
  <2>1. ASSUME NEW x \in executions'
        PROVE  x.index <= RunsOf(x.spec)' /\ Registration(ledger, x.spec)' # {}
    <3>1. CASE x = e
      <4>1. x.spec = id /\ x.index = RunsOf(id) + 1
        BY <1>5, <3>1
      <4>2. RunsOf(x.spec)' = RunsOf(id) + 1 /\ Registration(ledger, x.spec)' = Registration(ledger, id)
        BY <1>5, <1>7, <4>1
      <4>3. Registration(ledger, id) # {}
        BY <1>2
      <4> QED BY <1>9, <4>1, <4>2, <4>3
    <3>2. CASE x \in executions
      <4>1. x.spec \in Ids /\ x.index \in Nat
        BY <3>2 DEF Books, RowsTyped, Run
      <4>2. x.index <= RunsOf(x.spec) /\ Registration(ledger, x.spec) # {}
        BY <3>2 DEF Books, RunsNumbered
      <4> QED BY <1>5, <1>7, <1>9, <4>1, <4>2
    <3> QED BY <1>3, <3>1, <3>2
  <2> QED BY <2>1 DEF RunsNumbered
<1>11. Owed(id) \in Nat /\ Owed(id)' = Owed(id) + r.charged
  <2> DEFINE D == DeclaredGridPoints(SpecOf(id))
  <2>1. D \in Nat /\ d.charged = D
    BY <1>2, Registered DEF Books
  <2>2. Owed(id) = Max({D, RunsOf(id)}) /\ Owed(id)' = Max({D, RunsOf(id) + 1})
    BY <1>2, <1>5, <1>7 DEF Owed
  <2>5. D <= RunsOf(id) /\ D <= RunsOf(id) + 1 /\ RunsOf(id) \in Nat
    BY <1>2, <1>9, <2>1
  <2> HIDE DEF D
  <2>3. Max({D, RunsOf(id)}) = RunsOf(id)
    BY <2>1, <2>5, MaxOfTwo
  <2>4. Max({D, RunsOf(id) + 1}) = RunsOf(id) + 1
    BY <2>1, <2>5, MaxOfTwo
  <2> QED BY <1>4, <1>9, <2>2, <2>3, <2>4
<1>12. \A x \in Ids : x # id => Owed(x)' = Owed(x)
  BY <1>5, <1>7 DEF Owed
<1>13. ContextSettled'
  BY <1>4, <1>11, <1>12, ContextsKept DEF Books
<1> QED BY <1>6, <1>8, <1>10, <1>13 DEF Books

LEMMA RunCommits ==
  ASSUME Books, NEW t, NEW id \in Ids, StagedRun(t, id),
         ledger' = ledger \cup t.rows, executions' = executions \cup t.runs, ledgerSeq' = ledgerSeq
  PROVE  Books'
<1>1. PICK e : t.runs = {e} /\ NextRun(e, id, FALSE)
  BY DEF StagedRun
<1>2. PICK d \in Registration(ledger, id) : RunsOf(id) + 1 <= d.charged
  BY DEF StagedRun
<1>3. ledger' = ledger /\ executions' = executions \cup {e}
  BY <1>1 DEF StagedRun
<1>4. /\ executions' \subseteq Run /\ IsFiniteSet(executions')
      /\ e.spec = id /\ e.index = RunsOf(id) + 1
      /\ RunsOf(id)' = RunsOf(id) + 1 /\ \A x : x # id => RunsOf(x)' = RunsOf(x)
  BY <1>1, <1>3, RunCounted DEF Books
<1>5. RowsTyped' /\ OneOrder' /\ OneChain' /\ Ranked' /\ TotalSettled' /\ RegisteredOnce'
  <2>1. RowsTyped'
    BY <1>3, <1>4 DEF Books, RowsTyped
  <2>2. OneOrder' /\ Ranked' /\ TotalSettled' /\ RegisteredOnce'
    BY <1>3 DEF Books, OneOrder, Ranked, TotalSettled, RegisteredOnce
  <2>3. OneChain'
    BY <1>3 DEF Books, OneChain, Chained, EarlierRows
  <2> QED BY <2>1, <2>2, <2>3
<1>6. \A x \in Ids : Registration(ledger, x)' = Registration(ledger, x)
  BY <1>3 DEF Registration
<1>7. RunsOf(id) \in Nat
  BY RunsTyped DEF Books
<1>8. RunsNumbered'
  <2>1. ASSUME NEW x \in executions'
        PROVE  x.index <= RunsOf(x.spec)' /\ Registration(ledger, x.spec)' # {}
    <3>1. CASE x = e
      <4>1. x.spec = id /\ x.index = RunsOf(id) + 1
        BY <1>4, <3>1
      <4>2. RunsOf(x.spec)' = RunsOf(id) + 1 /\ Registration(ledger, x.spec)' = Registration(ledger, id)
        BY <1>4, <1>6, <4>1
      <4>3. Registration(ledger, id) # {}
        BY <1>2
      <4> QED BY <1>7, <4>1, <4>2, <4>3
    <3>2. CASE x \in executions
      <4>1. x.spec \in Ids /\ x.index \in Nat
        BY <3>2 DEF Books, RowsTyped, Run
      <4>2. x.index <= RunsOf(x.spec) /\ Registration(ledger, x.spec) # {}
        BY <3>2 DEF Books, RunsNumbered
      <4> QED BY <1>4, <1>6, <1>7, <4>1, <4>2
    <3> QED BY <1>3, <3>1, <3>2
  <2> QED BY <2>1 DEF RunsNumbered
<1>9. \A x \in Ids : Owed(x)' = Owed(x)
  <2> DEFINE D == DeclaredGridPoints(SpecOf(id))
  <2>1. D \in Nat /\ d.charged = D
    BY <1>2, Registered DEF Books
  <2>2. Owed(id) = Max({D, RunsOf(id)}) /\ Owed(id)' = Max({D, RunsOf(id) + 1})
    BY <1>2, <1>4, <1>6 DEF Owed
  <2> HIDE DEF D
  <2>3. Max({D, RunsOf(id)}) = D
    BY <1>2, <1>7, <2>1, MaxOfTwo
  <2>4. Max({D, RunsOf(id) + 1}) = D
    BY <1>2, <1>7, <2>1, MaxOfTwo
  <2>5. Owed(id)' = Owed(id)
    BY <2>2, <2>3, <2>4
  <2>6. \A x \in Ids : x # id => Owed(x)' = Owed(x)
    BY <1>4, <1>6 DEF Owed
  <2> QED BY <2>5, <2>6
<1>10. ContextSettled'
  <2>1. ASSUME NEW s \in Specifications
        PROVE  /\ TrialsOwed(s.context)' = TrialsOwed(s.context)
               /\ ContextTrials(s.context)' = ContextTrials(s.context)
    <3>1. TrialsOwed(s.context)' = TrialsOwed(s.context)
      BY <1>9 DEF TrialsOwed, IdsOf
    <3>2. ContextTrials(s.context)' = ContextTrials(s.context)
      BY <1>3 DEF ContextTrials, InContext
    <3> QED BY <3>1, <3>2
  <2> QED BY <2>1 DEF Books, ContextSettled
<1> QED BY <1>5, <1>8, <1>10 DEF Books

LEMMA BooksKept ==
  ASSUME Books, UNCHANGED <<ledger, executions>>,
         ledgerSeq' \in {ledgerSeq, ledgerSeq + 1}, ledgerSeq' <= MaxRows
  PROVE  Books'
<1>1. RowsTyped'
  <2>1. \A r \in ledger : r.seq \in Nat /\ r.seq < ledgerSeq
    BY DEF Books, RowsTyped, Row
  <2>2. ledgerSeq \in 1 .. MaxRows /\ MaxRows \in Nat
    BY LedgerAssumption DEF Books, RowsTyped
  <2>3. ledgerSeq' \in 1 .. MaxRows /\ \A r \in ledger : r.seq < ledgerSeq'
    BY <2>1, <2>2
  <2> QED BY <2>3 DEF Books, RowsTyped
<1>2. OneOrder' /\ Ranked' /\ TotalSettled' /\ RegisteredOnce'
  BY DEF Books, OneOrder, Ranked, TotalSettled, RegisteredOnce
<1>3. OneChain'
  BY DEF Books, OneChain, Chained, EarlierRows
<1>4. RunsNumbered'
  BY DEF Books, RunsNumbered, RunsOf, Registration
<1>5. ContextSettled'
  <2>1. \A x \in Ids : Owed(x)' = Owed(x)
    BY DEF Owed, RunsOf, Registration
  <2>2. ASSUME NEW s \in Specifications
        PROVE  /\ TrialsOwed(s.context)' = TrialsOwed(s.context)
               /\ ContextTrials(s.context)' = ContextTrials(s.context)
    <3>1. TrialsOwed(s.context)' = TrialsOwed(s.context)
      BY <2>1 DEF TrialsOwed, IdsOf
    <3>2. ContextTrials(s.context)' = ContextTrials(s.context)
      BY DEF ContextTrials, InContext
    <3> QED BY <3>1, <3>2
  <2> QED BY <2>2 DEF Books, ContextSettled
<1> QED BY <1>1, <1>2, <1>3, <1>4, <1>5 DEF Books

-----------------------------------------------------------------------------
(* The lock: whoever has work has it, so nobody else does.                 *)
LEMMA Alone ==
  ASSUME LockInv, NEW c \in Clerks, clerk[c] # AtRest
  PROVE  \A x \in Clerks : x # c => clerk[x] = AtRest
  BY DEF LockInv

LEMMA NobodyAtWork ==
  ASSUME LockInv, NEW c \in Clerks, LockIsFree(c)
  PROVE  \A x \in Clerks : clerk[x] = AtRest
  BY LedgerAssumption DEF LockInv, LockIsFree

LEMMA TakesOver ==
  ASSUME LockInv, NEW c \in Clerks, \A x \in Clerks : x # c => clerk[x] = AtRest,
         NEW task, clerk' = [clerk EXCEPT ![c] = task], ledgerLock' = c, TaskOK(task)'
  PROVE  LockInv'
<1>1. clerk' = [x \in Clerks |-> clerk'[x]] /\ clerk'[c] = task
  BY DEF LockInv
<1>2. \A x \in Clerks : x # c => clerk'[x] = AtRest
  BY DEF LockInv
<1>3. \A x \in Clerks : TaskOK(clerk[x])'
  <2>1. ASSUME NEW x \in Clerks PROVE TaskOK(clerk[x])'
    <3>1. CASE x = c
      BY <1>1, <3>1 DEF TaskOK
    <3>2. CASE x # c
      BY <1>2, <3>2 DEF TaskOK
    <3> QED BY <3>1, <3>2
  <2> QED BY <2>1
<1> QED BY <1>1, <1>2, <1>3 DEF LockInv

LEMMA LetsGo ==
  ASSUME LockInv, NEW c \in Clerks, clerk[c] # AtRest, ReleaseLedger(c)
  PROVE  LockInv'
<1>1. clerk' = [clerk EXCEPT ![c] = AtRest] /\ ledgerLock' = NoClerk
  BY DEF ReleaseLedger
<1>2. clerk' = [x \in Clerks |-> clerk'[x]] /\ \A x \in Clerks : clerk'[x] = AtRest
  BY <1>1, Alone DEF LockInv
<1> QED BY <1>1, <1>2 DEF LockInv, TaskOK

LEMMA LockStands ==
  ASSUME LockInv, UNCHANGED <<ledger, executions, ledgerSeq, ledgerLock, clerk>>
  PROVE  LockInv'
<1>1. ASSUME NEW id PROVE Registration(ledger, id)' = Registration(ledger, id) /\ RunsOf(id)' = RunsOf(id)
  BY DEF RunsOf
<1>2. ASSUME NEW r, NEW id, NEW kind, NEW charge, StagedRow(r, id, kind, charge)
      PROVE  StagedRow(r, id, kind, charge)'
  BY <1>2 DEF StagedRow
<1>3. ASSUME NEW e, NEW id, NEW pays, NextRun(e, id, pays) PROVE NextRun(e, id, pays)'
  BY <1>1, <1>3 DEF NextRun
<1>4. ASSUME NEW t, NEW id, StagedRegistration(t, id) PROVE StagedRegistration(t, id)'
  BY <1>1, <1>2, <1>4 DEF StagedRegistration
<1>5. ASSUME NEW t, NEW id, StagedOverflow(t, id) PROVE StagedOverflow(t, id)'
  BY <1>1, <1>2, <1>3, <1>5 DEF StagedOverflow
<1>6. ASSUME NEW t, NEW id, StagedRun(t, id) PROVE StagedRun(t, id)'
  BY <1>1, <1>3, <1>6 DEF StagedRun
<1>7. ASSUME NEW t, TaskOK(t) PROVE TaskOK(t)'
  BY <1>4, <1>5, <1>6, <1>7 DEF TaskOK
<1>8. \A x \in Clerks : TaskOK(clerk[x])'
  <2>1. ASSUME NEW x \in Clerks PROVE TaskOK(clerk[x])'
    <3>1. PICK t : t = clerk[x]
      OBVIOUS
    <3>2. TaskOK(t)'
      BY <1>7, <3>1 DEF LockInv
    <3>3. clerk'[x] = t
      BY <3>1
    <3> QED BY <3>2, <3>3
  <2> QED BY <2>1
<1> QED BY <1>8 DEF LockInv

LEMMA BackupKept ==
  ASSUME BackupInv, ledger \subseteq ledger', backup' = backup
  PROVE  BackupInv'
<1>1. CASE backup = NoBackup
  BY <1>1 DEF BackupInv
<1>2. CASE backup = [step |-> "tip", tip |-> backup.tip] /\ TipStands(backup.tip)
  BY <1>2 DEF BackupInv, TipStands
<1>3. CASE /\ backup = [step |-> "dumped", tip |-> backup.tip, rows |-> backup.rows]
           /\ DumpOK(backup.rows)
           /\ backup.tip = EmptyTip \/ \E n \in DOMAIN backup.rows : backup.rows[n].seq = backup.tip
  BY <1>3 DEF BackupInv
<1> QED BY <1>1, <1>2, <1>3 DEF BackupInv

-----------------------------------------------------------------------------
(* The transactions.                                                       *)
LedgerInv == Books /\ LockInv /\ BackupInv

LEMMA OpenRegistrationKeeps ==
  ASSUME LedgerInv, NEW c \in Clerks, OpenRegistration(c)
  PROVE  LedgerInv'
<1>1. PICK s \in Specifications :
        Declarable(s) /\ OpenLedger(c, [step |-> "register", spec |-> s.id])
  BY DEF OpenRegistration
<1> DEFINE task == [step |-> "register", spec |-> s.id]
<1>2. TaskOK(task)'
  <2>1. task.spec \in Ids /\ Declarable(SpecOf(task.spec))
    BY <1>1, SpecOfId
  <2>2. task = [step |-> "register", spec |-> task.spec]
    OBVIOUS
  <2> HIDE DEF task
  <2> QED BY <2>1, <2>2 DEF TaskOK
<1>3. LockInv'
  <2>1. /\ LockIsFree(c) /\ clerk' = [clerk EXCEPT ![c] = task] /\ ledgerLock' = c /\ LockInv
    BY <1>1 DEF OpenLedger, LedgerInv
  <2> HIDE DEF task
  <2> QED BY <1>2, <2>1, NobodyAtWork, TakesOver
<1>4. Books' /\ BackupInv'
  BY <1>1, BooksKept, BackupKept DEF OpenLedger, LedgerInv, Books, RowsTyped
<1> QED BY <1>3, <1>4 DEF LedgerInv

LEMMA OpenExecutionKeeps ==
  ASSUME LedgerInv, NEW c \in Clerks, OpenExecution(c)
  PROVE  LedgerInv'
<1>1. PICK id \in Ids, outcome \in Outcomes :
        OpenLedger(c, [step |-> "execute", spec |-> id, outcome |-> outcome])
  BY DEF OpenExecution, Outcomes
<1> DEFINE task == [step |-> "execute", spec |-> id, outcome |-> outcome]
<1>2. TaskOK(task)'
  <2>1. task.spec \in Ids /\ task.outcome \in Outcomes
    OBVIOUS
  <2>2. task = [step |-> "execute", spec |-> task.spec, outcome |-> task.outcome]
    OBVIOUS
  <2> HIDE DEF task
  <2> QED BY <2>1, <2>2 DEF TaskOK
<1>3. LockInv'
  <2>1. /\ LockIsFree(c) /\ clerk' = [clerk EXCEPT ![c] = task] /\ ledgerLock' = c /\ LockInv
    BY <1>1 DEF OpenLedger, LedgerInv
  <2> HIDE DEF task
  <2> QED BY <1>2, <2>1, NobodyAtWork, TakesOver
<1>4. Books' /\ BackupInv'
  BY <1>1, BooksKept, BackupKept DEF OpenLedger, LedgerInv, Books, RowsTyped
<1> QED BY <1>3, <1>4 DEF LedgerInv

(* A new row is formed with the next number, above every committed one.    *)
LEMMA RowStaged ==
  ASSUME RowsTyped, ledger' = ledger, ledgerSeq' = ledgerSeq + 1, NEW id, NEW kind, NEW charge,
         NEW r, r = Accumulated(ledger, ledgerSeq, id, kind, charge)
  PROVE  StagedRow(r, id, kind, charge)'
<1>1. ledgerSeq \in 1 .. ledgerSeq' - 1 /\ \A o \in ledger' : o.seq < ledgerSeq
  BY LedgerAssumption DEF RowsTyped
<1>2. r = Accumulated(ledger', ledgerSeq, id, kind, charge)
  OBVIOUS
<1> QED BY <1>1, <1>2 DEF StagedRow

LEMMA StagesKeep ==
  ASSUME LedgerInv, NEW c \in Clerks, clerk[c] # AtRest, NEW rows, NEW runs, StageRows(c, rows, runs),
         NEW id \in Ids, UNCHANGED <<ledger, executions, backup>>,
         ledgerSeq' \in {ledgerSeq, ledgerSeq + 1}, ledgerSeq' <= MaxRows,
         NEW task, task = [step |-> "staged", rows |-> rows, runs |-> runs],
         (StagedRegistration(task, id) \/ StagedOverflow(task, id) \/ StagedRun(task, id))'
  PROVE  LedgerInv'
<1>1. TaskOK(task)'
  <2>1. task = [step |-> "staged", rows |-> task.rows, runs |-> task.runs]
    OBVIOUS
  <2> QED BY <2>1 DEF TaskOK
<1>2. ledgerLock = c /\ LockInv
  BY DEF LedgerInv, LockInv
<1>3. LockInv'
  <2>1. clerk' = [clerk EXCEPT ![c] = task] /\ ledgerLock' = c
    BY <1>2 DEF StageRows
  <2> QED BY <1>1, <1>2, <2>1, Alone, TakesOver
<1>4. Books' /\ BackupInv'
  BY BooksKept, BackupKept DEF LedgerInv
<1> QED BY <1>3, <1>4 DEF LedgerInv

LEMMA GivesUpKeeps ==
  ASSUME LedgerInv, NEW c \in Clerks, clerk[c] # AtRest, ReleaseLedger(c),
         UNCHANGED <<ledger, executions, backup>>,
         ledgerSeq' \in {ledgerSeq, ledgerSeq + 1}, ledgerSeq' <= MaxRows
  PROVE  LedgerInv'
  BY LetsGo, BooksKept, BackupKept DEF LedgerInv

LEMMA SeqBound == RowsTyped => ledgerSeq \in Nat /\ ledgerSeq <= MaxRows /\ MaxRows \in Nat
  BY LedgerAssumption DEF RowsTyped

LEMMA InsertRegistrationKeeps ==
  ASSUME LedgerInv, NEW c \in Clerks, InsertRegistration(c)
  PROVE  LedgerInv'
<1> DEFINE id == clerk[c].spec
<1>1. clerk[c] # AtRest /\ id \in Ids /\ Declarable(SpecOf(id))
  BY DEF InsertRegistration, LedgerInv, LockInv, TaskOK, AtRest
<1>2. RowsTyped /\ ledgerSeq' = ledgerSeq + 1 /\ ledgerSeq' <= MaxRows
  BY SeqBound DEF InsertRegistration, LedgerInv, Books
<1>3. CASE Registration(ledger, id) # {}
  <2>1. ReleaseLedger(c) /\ UNCHANGED <<ledger, executions, backup>>
    BY <1>3 DEF InsertRegistration
  <2> QED BY <1>1, <1>2, <2>1, GivesUpKeeps
<1>4. CASE Registration(ledger, id) = {}
  <2>1. PICK k : k = id
    OBVIOUS
  <2>2. PICK p : p = DeclaredGridPoints(SpecOf(k))
    OBVIOUS
  <2>3. PICK r : r = Accumulated(ledger, ledgerSeq, k, "registration", p)
    OBVIOUS
  <2>4. StageRows(c, {r}, {}) /\ UNCHANGED <<ledger, executions, backup>>
    BY <1>4, <2>1, <2>2, <2>3 DEF InsertRegistration
  <2>5. StagedRow(r, k, "registration", p)'
    BY <1>2, <2>3, <2>4, RowStaged
  <2> DEFINE task == [step |-> "staged", rows |-> {r}, runs |-> {}]
  <2>6. task.rows = {r} /\ task.runs = {}
    OBVIOUS
  <2>7. Registration(ledger', k) = {} /\ k \in Ids /\ Declarable(SpecOf(k))
    BY <1>1, <1>4, <2>1, <2>4
  <2> HIDE DEF task
  <2>8. StagedRegistration(task, k)'
    BY <2>2, <2>5, <2>6, <2>7 DEF StagedRegistration
  <2>9. task = [step |-> "staged", rows |-> {r}, runs |-> {}]
    BY DEF task
  <2> QED BY <1>1, <1>2, <2>4, <2>7, <2>8, <2>9, StagesKeep
<1> QED BY <1>3, <1>4

LEMMA InsertExecutionKeeps ==
  ASSUME LedgerInv, NEW c \in Clerks, InsertExecution(c)
  PROVE  LedgerInv'
<1>1. /\ clerk[c] # AtRest /\ clerk[c].spec \in Ids /\ clerk[c].outcome \in Outcomes
  BY DEF InsertExecution, LedgerInv, LockInv, TaskOK, AtRest
<1>2. PICK id \in Ids : id = clerk[c].spec
  BY <1>1
<1>3. PICK outcome \in Outcomes : outcome = clerk[c].outcome
  BY <1>1
<1>4. RowsTyped /\ RegisteredOnce /\ ledgerSeq \in Nat /\ ledgerSeq + 1 <= MaxRows /\ ledgerSeq <= MaxRows
  BY SeqBound DEF InsertExecution, LedgerInv, Books
<1>5. UNCHANGED <<ledger, executions, backup>> /\ RunsOf(id)' = RunsOf(id) /\ RunsOf(id) \in Nat
  BY <1>4, RunsTyped DEF InsertExecution, RunsOf
<1>6. CASE Registration(ledger, id) = {}
  <2>1. ReleaseLedger(c) /\ ledgerSeq' = ledgerSeq
    BY <1>2, <1>6 DEF InsertExecution
  <2> QED BY <1>1, <1>4, <1>5, <2>1, GivesUpKeeps
<1>7. CASE Registration(ledger, id) # {}
  <2>1. PICK d : d \in Registration(ledger, id)
    BY <1>7
  <2>2. Registration(ledger, id) = {d} /\ Registration(ledger, id)' = {d} /\ d.charged \in Nat
    BY <1>4, <1>5, <2>1, Registered DEF Registration
  <2>3. CASE RunsOf(id) + 1 > d.charged
    <3>1. PICK e : e = [spec |-> id, index |-> RunsOf(id) + 1, outcome |-> outcome, charged |-> TRUE]
      OBVIOUS
    <3>2. PICK r : r = Accumulated(ledger, ledgerSeq, id, "execution_overflow", 1)
      OBVIOUS
    <3>3. StageRows(c, {r}, {e}) /\ ledgerSeq' = ledgerSeq + 1
      BY <1>2, <1>3, <1>7, <2>2, <2>3, <3>1, <3>2 DEF InsertExecution, Surplus, RunsOf
    <3>4. StagedRow(r, id, "execution_overflow", 1)'
      BY <1>4, <1>5, <3>2, <3>3, RowStaged
    <3>5. NextRun(e, id, TRUE)'
      BY <1>5, <3>1 DEF NextRun
    <3>6. PICK task : task = [step |-> "staged", rows |-> {r}, runs |-> {e}]
      OBVIOUS
    <3>7. task.rows = {r} /\ task.runs = {e}
      BY <3>6
    <3>8. StagedOverflow(task, id)'
      BY <1>5, <2>2, <2>3, <3>4, <3>5, <3>7 DEF StagedOverflow
    <3> QED BY <1>1, <1>4, <1>5, <3>3, <3>6, <3>8, StagesKeep
  <2>4. CASE ~(RunsOf(id) + 1 > d.charged)
    <3>1. PICK e : e = [spec |-> id, index |-> RunsOf(id) + 1, outcome |-> outcome, charged |-> FALSE]
      OBVIOUS
    <3>2. StageRows(c, {}, {e}) /\ ledgerSeq' = ledgerSeq
      BY <1>2, <1>3, <1>7, <2>2, <2>4, <3>1 DEF InsertExecution, Surplus, RunsOf
    <3>3. NextRun(e, id, FALSE)'
      BY <1>5, <3>1 DEF NextRun
    <3>4. PICK task : task = [step |-> "staged", rows |-> {}, runs |-> {e}]
      OBVIOUS
    <3>5. task.rows = {} /\ task.runs = {e}
      BY <3>4
    <3>6. RunsOf(id)' + 1 <= d.charged
      BY <1>5, <2>2, <2>4
    <3>7. StagedRun(task, id)'
      BY <2>2, <3>3, <3>5, <3>6 DEF StagedRun
    <3> QED BY <1>1, <1>4, <1>5, <3>2, <3>4, <3>7, StagesKeep
  <2> QED BY <2>3, <2>4
<1> QED BY <1>6, <1>7

LEMMA CommitKeeps ==
  ASSUME LedgerInv, NEW c \in Clerks, CommitCharge(c)
  PROVE  LedgerInv'
<1>1. PICK t : t = clerk[c]
  OBVIOUS
<1>2. PICK id \in Ids : StagedRegistration(t, id) \/ StagedOverflow(t, id) \/ StagedRun(t, id)
  BY <1>1 DEF CommitCharge, LedgerInv, LockInv, TaskOK, AtRest
<1>3. /\ ledger' = ledger \cup t.rows /\ executions' = executions \cup t.runs
      /\ UNCHANGED <<ledgerSeq, backup>> /\ ReleaseLedger(c) /\ clerk[c] # AtRest
  BY <1>1 DEF CommitCharge, AtRest
<1>4. Books'
  BY <1>2, <1>3, RegistrationCommits, OverflowCommits, RunCommits DEF LedgerInv
<1>5. LockInv' /\ BackupInv'
  BY <1>3, LetsGo, BackupKept DEF LedgerInv
<1> QED BY <1>4, <1>5 DEF LedgerInv

LEMMA LoseKeeps ==
  ASSUME LedgerInv, NEW c \in Clerks, LoseClerk(c)
  PROVE  LedgerInv'
<1>1. /\ clerk[c] # AtRest /\ ReleaseLedger(c) /\ ledgerSeq' = ledgerSeq
      /\ UNCHANGED <<ledger, executions, backup>>
  BY DEF LoseClerk, AtRest
<1>2. ledgerSeq' <= MaxRows
  BY <1>1, SeqBound DEF LedgerInv, Books
<1> QED BY <1>1, <1>2, GivesUpKeeps

-----------------------------------------------------------------------------
(* The rows in the order of their numbers.                                 *)
LEMMA RanksAgree ==
  ASSUME RowsTyped, NEW o \in ledger, NEW r \in ledger
  PROVE  /\ Cardinality(UpTo(ledger, r)) \in 1 .. Cardinality(ledger)
         /\ o.seq <= r.seq <=> Cardinality(UpTo(ledger, o)) <= Cardinality(UpTo(ledger, r))
<1>1. \A x \in ledger : x.seq \in Nat
  BY DEF RowsTyped, Row
<1>2. ASSUME NEW x \in ledger
      PROVE  /\ IsFiniteSet(UpTo(ledger, x)) /\ Cardinality(UpTo(ledger, x)) \in Nat \ {0}
             /\ Cardinality(UpTo(ledger, x)) <= Cardinality(ledger) /\ Cardinality(ledger) \in Nat
  <2>1. UpTo(ledger, x) \subseteq ledger /\ x \in UpTo(ledger, x)
    BY <1>1 DEF UpTo
  <2>2. /\ IsFiniteSet(UpTo(ledger, x)) /\ IsFiniteSet(ledger)
        /\ Cardinality(UpTo(ledger, x)) <= Cardinality(ledger)
    BY <2>1, FS_Subset DEF RowsTyped
  <2>3. Cardinality(UpTo(ledger, x)) \in Nat /\ Cardinality(ledger) \in Nat
    BY <2>2, FS_CardinalityType
  <2>4. Cardinality(UpTo(ledger, x)) # 0
    BY <2>1, <2>2, FS_EmptySet
  <2> QED BY <2>2, <2>3, <2>4
<1>3. CASE o.seq <= r.seq
  <2>1. UpTo(ledger, o) \subseteq UpTo(ledger, r)
    BY <1>1, <1>3 DEF UpTo
  <2>2. Cardinality(UpTo(ledger, o)) <= Cardinality(UpTo(ledger, r))
    BY <1>2, <2>1, FS_Subset
  <2> QED BY <1>2, <1>3, <2>2
<1>4. CASE ~(o.seq <= r.seq)
  <2>1. UpTo(ledger, r) \subseteq UpTo(ledger, o) /\ o \in UpTo(ledger, o) /\ o \notin UpTo(ledger, r)
    BY <1>1, <1>4 DEF UpTo
  <2>2. /\ Cardinality(UpTo(ledger, r)) <= Cardinality(UpTo(ledger, o))
        /\ Cardinality(UpTo(ledger, r)) # Cardinality(UpTo(ledger, o))
    BY <1>2, <2>1, FS_Subset
  <2> QED BY <1>2, <1>4, <2>2
<1> QED BY <1>3, <1>4

LEMMA OrderTotal ==
  ASSUME Books
  PROVE  /\ InSeqOrder(ledger) \in [1 .. Cardinality(ledger) -> ledger]
         /\ Cardinality(ledger) \in Nat
         /\ \A n \in 1 .. Cardinality(ledger) : Cardinality(UpTo(ledger, InSeqOrder(ledger)[n])) = n
         /\ \A r \in ledger : \E n \in 1 .. Cardinality(ledger) : InSeqOrder(ledger)[n] = r
<1> DEFINE N == Cardinality(ledger)
           order == InSeqOrder(ledger)
<1>1. N \in Nat
  BY FS_CardinalityType DEF Books, RowsTyped
<1>2. order = [n \in 1 .. N |-> CHOOSE r \in ledger : Cardinality(UpTo(ledger, r)) = n]
  BY DEF InSeqOrder
<1>3. ASSUME NEW n \in 1 .. N PROVE order[n] \in ledger /\ Cardinality(UpTo(ledger, order[n])) = n
  <2>1. \E r \in ledger : Cardinality(UpTo(ledger, r)) = n
    BY DEF Books, Ranked
  <2>2. order[n] = CHOOSE r \in ledger : Cardinality(UpTo(ledger, r)) = n
    BY <1>2
  <2> HIDE DEF order
  <2> QED BY <2>1, <2>2
<1>4. order \in [1 .. N -> ledger]
  <2> HIDE DEF N
  <2>1. order = [n \in 1 .. N |-> order[n]]
    BY <1>2
  <2> HIDE DEF order
  <2> QED BY <1>3, <2>1
<1>5. ASSUME NEW r \in ledger PROVE \E n \in 1 .. N : order[n] = r
  <2>1. PICK n \in 1 .. N : n = Cardinality(UpTo(ledger, r))
    BY RanksAgree DEF Books
  <2>2. order[n] \in ledger /\ Cardinality(UpTo(ledger, order[n])) = Cardinality(UpTo(ledger, r))
    BY <1>3, <2>1
  <2> HIDE DEF order
  <2>3. order[n].seq <= r.seq /\ r.seq <= order[n].seq
    BY <1>1, <2>1, <2>2, RanksAgree DEF Books
  <2>4. order[n].seq = r.seq
    BY <2>2, <2>3 DEF Books, RowsTyped, Row
  <2> QED BY <2>2, <2>4 DEF Books, OneOrder
<1> QED BY <1>1, <1>3, <1>4, <1>5

LEMMA OrderIsChain ==
  ASSUME Books
  PROVE  DumpOK(InSeqOrder(ledger))
<1> DEFINE N == Cardinality(ledger)
<1>1. PICK order : order = InSeqOrder(ledger)
  OBVIOUS
<1>2. /\ order \in [1 .. N -> ledger] /\ N \in Nat
      /\ \A n \in 1 .. N : Cardinality(UpTo(ledger, order[n])) = n
      /\ \A r \in ledger : \E n \in 1 .. N : order[n] = r
  BY <1>1, OrderTotal
<1> HIDE DEF N
<1>3. \A n \in 1 .. N : order[n] \in ledger /\ order[n] \in Row /\ order[n].seq \in Nat \ {0}
  BY <1>2 DEF Books, RowsTyped, Row
<1>4. order \in Seq(Row) /\ DOMAIN order = 1 .. N
  <2>1. order \in [1 .. N -> Row]
    BY <1>2, <1>3
  <2> QED BY <1>2, <2>1
<1>5. \A m, n \in 1 .. N : order[m].seq <= order[n].seq <=> m <= n
  <2>1. ASSUME NEW m \in 1 .. N, NEW n \in 1 .. N PROVE order[m].seq <= order[n].seq <=> m <= n
    <3>1. /\ order[m] \in ledger /\ Cardinality(UpTo(ledger, order[m])) = m
          /\ order[n] \in ledger /\ Cardinality(UpTo(ledger, order[n])) = n
      BY <1>2
    <3> QED BY <3>1, RanksAgree DEF Books
  <2> QED BY <2>1
<1>6. ASSUME NEW m \in 1 .. N, NEW n \in 1 .. N, m < n PROVE order[m].seq < order[n].seq
  BY <1>2, <1>3, <1>5, <1>6
<1>7. ASSUME NEW n \in 1 .. N
      PROVE  order[n].prev = IF n = 1 THEN EmptyTip ELSE order[n - 1].seq
  <2>1. Chained(order[n])
    BY <1>3 DEF Books, OneChain
  <2>2. CASE n = 1
    <3>1. EarlierRows(order[n]) = {}
      <4>1. SUFFICES ASSUME NEW o \in EarlierRows(order[n]) PROVE FALSE
        OBVIOUS
      <4>2. PICK m \in 1 .. N : order[m] = o
        BY <1>2 DEF EarlierRows
      <4> QED BY <1>2, <1>3, <1>5, <2>2, <4>2 DEF EarlierRows
    <3> QED BY <2>1, <2>2, <3>1 DEF Chained
  <2>3. CASE n # 1
    <3>1. n - 1 \in 1 .. N /\ n - 1 < n
      BY <1>2, <2>3
    <3>2. order[n - 1] \in EarlierRows(order[n])
      BY <1>3, <1>6, <3>1 DEF EarlierRows
    <3>3. ASSUME NEW o \in EarlierRows(order[n]) PROVE o.seq <= order[n - 1].seq
      <4>1. PICK m \in 1 .. N : order[m] = o
        BY <1>2 DEF EarlierRows
      <4>2. m <= n - 1
        <5>1. ~(order[n].seq <= order[m].seq)
          BY <1>3, <4>1 DEF EarlierRows
        <5> QED BY <1>2, <1>5, <5>1
      <4> QED BY <1>5, <3>1, <4>1, <4>2
    <3>4. PICK q \in EarlierRows(order[n]) : q.seq = order[n].prev /\ \A o \in EarlierRows(order[n]) : o.seq <= q.seq
      BY <2>1, <3>2 DEF Chained
    <3>5. q.seq <= order[n - 1].seq /\ order[n - 1].seq <= q.seq /\ q.seq \in Nat
      BY <3>2, <3>3, <3>4 DEF EarlierRows, Books, RowsTyped, Row
    <3> QED BY <1>3, <2>3, <3>1, <3>4, <3>5
  <2> QED BY <2>2, <2>3
<1> QED BY <1>1, <1>4, <1>6, <1>7 DEF DumpOK, LinksHold

-----------------------------------------------------------------------------
(* The backup.                                                             *)
LEMMA TipIsARow ==
  ASSUME Books
  PROVE  TipStands(TipOf(ledger))
<1>1. CASE ledger = {}
  BY <1>1, NoRow DEF TipStands
<1>2. CASE ledger # {}
  BY <1>2, TopRow DEF Books, TipStands
<1> QED BY <1>1, <1>2

LEMMA ReadTipKeeps ==
  ASSUME LedgerInv, ReadTipForBackup
  PROVE  LedgerInv'
<1>1. UNCHANGED <<ledger, executions, ledgerSeq, ledgerLock, clerk>>
  BY DEF ReadTipForBackup
<1>2. Books'
  BY <1>1, BooksKept DEF LedgerInv, Books, RowsTyped
<1>3. LockInv'
  BY <1>1, LockStands DEF LedgerInv
<1>4. PICK tip : tip = TipOf(ledger)
  OBVIOUS
<1>5. backup' = [step |-> "tip", tip |-> tip] /\ TipStands(tip)
  BY <1>4, TipIsARow DEF ReadTipForBackup, LedgerInv
<1>6. backup'.tip = tip /\ TipStands(tip)'
  BY <1>1, <1>5 DEF TipStands
<1>7. BackupInv'
  BY <1>5, <1>6 DEF BackupInv
<1> QED BY <1>2, <1>3, <1>7 DEF LedgerInv

LEMMA DumpKeeps ==
  ASSUME LedgerInv, DumpLedger
  PROVE  LedgerInv'
<1>1. UNCHANGED <<ledger, executions, ledgerSeq, ledgerLock, clerk>>
  BY DEF DumpLedger
<1>2. Books'
  BY <1>1, BooksKept DEF LedgerInv, Books, RowsTyped
<1>3. LockInv'
  BY <1>1, LockStands DEF LedgerInv
<1>4. PICK rows : rows = InSeqOrder(ledger)
  OBVIOUS
<1>5. PICK tip : tip = backup.tip
  OBVIOUS
<1>6. DumpOK(rows) /\ TipStands(tip)
  BY <1>4, <1>5, OrderIsChain DEF LedgerInv, BackupInv, DumpLedger, NoBackup
<1>7. tip = EmptyTip \/ \E n \in DOMAIN rows : rows[n].seq = tip
  <2>1. SUFFICES ASSUME NEW r \in ledger, r.seq = tip PROVE \E n \in DOMAIN rows : rows[n].seq = tip
    BY <1>6 DEF TipStands
  <2>2. PICK n \in 1 .. Cardinality(ledger) : rows[n] = r
    BY <1>4, OrderTotal DEF LedgerInv
  <2>3. n \in DOMAIN rows
    BY <1>4, <2>2, OrderTotal DEF LedgerInv
  <2> QED BY <2>1, <2>2, <2>3
<1>8. backup' = [step |-> "dumped", tip |-> tip, rows |-> rows]
  BY <1>4, <1>5 DEF DumpLedger
<1>9. backup'.tip = tip /\ backup'.rows = rows
  BY <1>8
<1>10. BackupInv'
  BY <1>6, <1>7, <1>8, <1>9 DEF BackupInv, DumpOK, LinksHold
<1> QED BY <1>2, <1>3, <1>10 DEF LedgerInv

-----------------------------------------------------------------------------
(* What verification says of a dump, and of one that was shortened.        *)
LEMMA Judged ==
  ASSUME NEW rows, DumpOK(rows), NEW tip,
         tip = EmptyTip \/ \E n \in DOMAIN rows : rows[n].seq = tip
  PROVE  /\ Verification(rows, tip) \in {"intact", "appended"}
         /\ \A n \in 0 .. Len(rows) :
              Verification(SubSeq(rows, 1, n), tip) = "intact"
                <=> (IF n = 0 THEN EmptyTip ELSE rows[n].seq) = tip
<1> DEFINE N == Len(rows)
           TipAt(n) == IF n = 0 THEN EmptyTip ELSE rows[n].seq
<1>1. /\ N \in Nat /\ DOMAIN rows = 1 .. N /\ LinksHold(rows)
      /\ \A n \in 1 .. N : rows[n] \in Row /\ rows[n].seq \in Nat \ {0}
      /\ \A m, n \in 1 .. N : m < n => rows[m].seq < rows[n].seq
  <2>1. rows \in Seq(Row) /\ LinksHold(rows)
    BY DEF DumpOK
  <2>2. N \in Nat /\ DOMAIN rows = 1 .. N /\ \A n \in 1 .. N : rows[n] \in Row
    BY <2>1
  <2>3. \A n \in 1 .. N : rows[n].seq \in Nat \ {0}
    BY <2>2 DEF Row
  <2>4. \A m, n \in 1 .. N : m < n => rows[m].seq < rows[n].seq
    BY <2>2 DEF DumpOK
  <2> QED BY <2>1, <2>2, <2>3, <2>4
<1>2. \A n \in 0 .. N : TipAt(n) \in Nat
  BY <1>1 DEF EmptyTip
<1>3. tip \in Nat /\ tip <= TipAt(N)
  <2>1. CASE tip = EmptyTip
    BY <1>1, <1>2, <2>1 DEF EmptyTip
  <2>2. CASE \E n \in DOMAIN rows : rows[n].seq = tip
    <3>1. PICK n \in 1 .. N : rows[n].seq = tip
      BY <1>1, <2>2
    <3>2. N # 0 /\ n \in 1 .. N /\ N \in 1 .. N /\ (n = N \/ n < N)
      <4>1. N \in Nat /\ n \in 1 .. N
        BY <1>1, <3>1
      <4> HIDE DEF N
      <4> QED BY <4>1
    <3>3. n = N \/ rows[n].seq < rows[N].seq
      <4>1. \A k, m \in 1 .. N : k < m => rows[k].seq < rows[m].seq
        BY <1>1
      <4> HIDE DEF N
      <4> QED BY <3>2, <4>1
    <3>4. rows[n].seq \in Nat /\ rows[N].seq \in Nat /\ TipAt(N) = rows[N].seq
      BY <1>1, <3>2
    <3> HIDE DEF N, TipAt
    <3> QED BY <3>1, <3>3, <3>4
  <2> QED BY <2>1, <2>2
<1>4. ASSUME NEW s, NEW n \in 0 .. N, Len(s) = n, DOMAIN s = 1 .. n, s = <<>> <=> n = 0,
             \A k \in 1 .. n : s[k] = rows[k]
      PROVE  Verification(s, tip) = IF TipAt(n) < tip THEN "truncated"
                                      ELSE IF TipAt(n) > tip THEN "appended" ELSE "intact"
  <2>1. LinksHold(s)
    <3>1. ASSUME NEW k \in 1 .. n PROVE s[k].prev = IF k = 1 THEN EmptyTip ELSE s[k - 1].seq
      <4>1. k \in 1 .. N /\ (k # 1 => k - 1 \in 1 .. n)
        BY <1>1
      <4>2. rows[k].prev = IF k = 1 THEN EmptyTip ELSE rows[k - 1].seq
        BY <1>1, <4>1 DEF LinksHold
      <4> QED BY <1>4, <4>1, <4>2
    <3> QED BY <1>4, <3>1 DEF LinksHold
  <2>2. (IF s = <<>> THEN EmptyTip ELSE s[Len(s)].seq) = TipAt(n)
    BY <1>1, <1>4
  <2> HIDE DEF TipAt
  <2> QED BY <2>1, <2>2 DEF Verification
<1>5. Verification(rows, tip) \in {"intact", "appended"}
  <2>1. Verification(rows, tip) = IF TipAt(N) < tip THEN "truncated"
                                    ELSE IF TipAt(N) > tip THEN "appended" ELSE "intact"
    <3>1. N \in 0 .. N /\ (rows = <<>> <=> N = 0)
      BY <1>1 DEF DumpOK
    <3> HIDE DEF TipAt
    <3> QED BY <1>1, <1>4, <3>1
  <2>2. TipAt(N) \in Nat
    BY <1>1, <1>2
  <2> HIDE DEF TipAt
  <2> QED BY <1>3, <2>1, <2>2
<1>6. ASSUME NEW n \in 0 .. N
      PROVE  Verification(SubSeq(rows, 1, n), tip) = "intact" <=> TipAt(n) = tip
  <2>1. PICK s : s = SubSeq(rows, 1, n)
    OBVIOUS
  <2>2. \A i \in 1 .. n : rows[i] \in Row
    BY <1>1
  <2>3. /\ s \in Seq(Row) /\ Len(s) = n /\ \A k \in 1 .. n : s[k] = rows[k]
    BY <1>1, <2>1, <2>2 DEF DumpOK
  <2>4. DOMAIN s = 1 .. n /\ (s = <<>> <=> n = 0)
    BY <2>3
  <2>5. Verification(s, tip) = IF TipAt(n) < tip THEN "truncated"
                                 ELSE IF TipAt(n) > tip THEN "appended" ELSE "intact"
    <3> HIDE DEF TipAt
    <3> QED BY <1>4, <2>3, <2>4
  <2>6. TipAt(n) \in Nat
    BY <1>2
  <2> HIDE DEF TipAt
  <2> QED BY <1>3, <2>1, <2>5, <2>6
<1> QED BY <1>5, <1>6

LEMMA ChainVerifies == LedgerInv => LedgerVerifies
<1> SUFFICES ASSUME LedgerInv PROVE LedgerVerifies
  OBVIOUS
<1>1. LinksHold(InSeqOrder(ledger))
  BY OrderIsChain DEF LedgerInv, DumpOK
<1>2. ASSUME backup.step = "dumped"
      PROVE  /\ DumpOK(backup.rows)
             /\ backup.tip = EmptyTip \/ \E n \in DOMAIN backup.rows : backup.rows[n].seq = backup.tip
  BY <1>2 DEF LedgerInv, BackupInv, NoBackup
<1> QED BY <1>1, <1>2, Judged DEF LedgerVerifies

LEMMA CountsHold == LedgerInv => TrialsCounted
<1> SUFFICES ASSUME LedgerInv PROVE TrialsCounted
  OBVIOUS
<1>1. Books /\ RowsTyped /\ RegisteredOnce /\ IsFiniteSet(TrialsOf(ledger))
  BY DEF LedgerInv, Books, TotalSettled
<1>2. \A id : RunsOf(id) > 0 => Registration(ledger, id) # {}
  <2>1. SUFFICES ASSUME NEW id, RunsOf(id) > 0 PROVE Registration(ledger, id) # {}
    OBVIOUS
  <2>2. PICK e \in executions : e.spec = id
    <3>1. RunsOf(id) # 0
      BY <2>1
    <3> QED BY <1>1, <3>1, RunsTyped
  <2> QED BY <1>1, <2>2 DEF Books, RunsNumbered
<1>3. ASSUME NEW s \in Specifications
      PROVE  /\ ContextTrials(s.context) = Cardinality(TrialsOwed(s.context))
             /\ LineageTrials(s.context, s.lineage) <= ContextTrials(s.context)
             /\ Cardinality(Registration(ledger, s.id)) <= 1
             /\ EvidenceRefused(s.context) => \A t \in IdsOf(s.context) : RunsOf(t) = 0
  <2>1. ContextTrials(s.context) = Cardinality(TrialsOwed(s.context))
    BY <1>1 DEF Books, ContextSettled
  <2>2. IsFiniteSet(TrialsOf(InContext(s.context))) /\ SumOf(InContext(s.context)) \in Nat
    <3>1. InContext(s.context) \subseteq ledger
      BY DEF InContext
    <3> QED BY <1>1, <3>1, SumSome
  <2>3. LineageTrials(s.context, s.lineage) <= ContextTrials(s.context)
    <3> DEFINE some == {r \in InContext(s.context) : SpecOf(r.spec).lineage = s.lineage}
    <3>1. some \subseteq InContext(s.context)
      OBVIOUS
    <3> HIDE DEF some
    <3>2. SumOf(some) <= SumOf(InContext(s.context))
      BY <2>2, <3>1, SumSome
    <3> QED BY <3>2 DEF some, LineageTrials, ContextTrials
  <2>4. Cardinality(Registration(ledger, s.id)) <= 1
    <3>1. CASE Registration(ledger, s.id) = {}
      BY <3>1, FS_EmptySet
    <3>2. CASE Registration(ledger, s.id) # {}
      <4>1. PICK d : d \in Registration(ledger, s.id)
        BY <3>2
      <4>2. Registration(ledger, s.id) = {d}
        BY <1>1, <4>1, SpecOfId, Registered
      <4>3. Cardinality({d}) = 1
        BY FS_Singleton
      <4> QED BY <4>2, <4>3
    <3> QED BY <3>1, <3>2
  <2>5. ASSUME EvidenceRefused(s.context), NEW t \in IdsOf(s.context) PROVE RunsOf(t) = 0
    <3>1. SUFFICES ASSUME RunsOf(t) # 0 PROVE FALSE
      OBVIOUS
    <3>2. RunsOf(t) > 0
      <4>1. RunsOf(t) \in Nat
        BY <1>1, RunsTyped
      <4> QED BY <3>1, <4>1
    <3>3. PICK r : r \in Registration(ledger, t)
      BY <1>2, <3>2
    <3>4. r \in InContext(s.context) /\ r.charged \in Nat \ {0}
      BY <1>1, <2>5, <3>3 DEF Registration, InContext, IdsOf, RowsTyped, Row
    <3>5. SumOf(InContext(s.context)) >= 1
      BY <2>2, <3>4, SumPositive
    <3> QED BY <2>2, <2>5, <3>5 DEF EvidenceRefused, ContextTrials
  <2> QED BY <2>1, <2>3, <2>4, <2>5
<1>4. GlobalTrials(ledger) = SumOf(ledger)
  BY DEF LedgerInv, Books, TotalSettled
<1> QED BY <1>2, <1>3, <1>4 DEF TrialsCounted

LEMMA InvTyped == LedgerInv => LedgerTyped
<1> SUFFICES ASSUME LedgerInv PROVE LedgerTyped
  OBVIOUS
<1>1. ledgerLock \in Clerks \cup {NoClerk} /\ ledgerSeq \in 1 .. MaxRows
  BY DEF LedgerInv, LockInv, Books, RowsTyped
<1>2. \A r \in ledger : r.seq < ledgerSeq /\ r.spec \in Ids /\ r.charged >= 1
  BY DEF LedgerInv, Books, RowsTyped, Row
<1>3. \A c \in Clerks : clerk[c].step # "idle" => ledgerLock # NoClerk
  BY LedgerAssumption DEF LedgerInv, LockInv, AtRest
<1> QED BY <1>1, <1>2, <1>3 DEF LedgerTyped

-----------------------------------------------------------------------------
LEMMA InitHolds == LedgerInit => LedgerInv
<1> SUFFICES ASSUME LedgerInit PROVE LedgerInv
  OBVIOUS
<1>1. ledger = {} /\ executions = {} /\ ledgerSeq = 1 /\ IsFiniteSet({}) /\ Cardinality({}) = 0
  BY FS_EmptySet DEF LedgerInit
<1>2. RowsTyped /\ OneOrder /\ OneChain /\ RegisteredOnce /\ RunsNumbered
  BY <1>1, LedgerAssumption DEF RowsTyped, OneOrder, OneChain, RegisteredOnce, RunsNumbered
<1>3. Ranked
  BY <1>1 DEF Ranked
<1>4. TrialsOf({}) = {}
  BY DEF TrialsOf
<1>5. TotalSettled
  BY <1>1, <1>4, NoRow DEF TotalSettled, SumOf
<1>6. ContextSettled
  <2>1. ASSUME NEW s \in Specifications
        PROVE  TrialsOwed(s.context) = {} /\ InContext(s.context) = {}
    <3>1. \A id \in Ids : Owed(id) = 0
      BY <1>1 DEF Owed, Registration
    <3>2. TrialsOwed(s.context) = {}
      BY <3>1 DEF TrialsOwed, IdsOf
    <3> QED BY <1>1, <3>2 DEF InContext
  <2> QED BY <1>1, <1>4, <2>1 DEF ContextSettled, ContextTrials, SumOf
<1>7. LockInv
  BY DEF LedgerInit, LockInv, TaskOK
<1>8. BackupInv
  BY DEF LedgerInit, BackupInv
<1> QED BY <1>2, <1>3, <1>5, <1>6, <1>7, <1>8 DEF LedgerInv, Books

LEMMA NextHolds == LedgerInv /\ [LedgerNext]_ledgerVars => LedgerInv'
<1> SUFFICES ASSUME LedgerInv, [LedgerNext]_ledgerVars PROVE LedgerInv'
  OBVIOUS
<1>1. ASSUME NEW c \in Clerks, OpenRegistration(c) PROVE LedgerInv'
  BY <1>1, OpenRegistrationKeeps
<1>2. ASSUME NEW c \in Clerks, OpenExecution(c) PROVE LedgerInv'
  BY <1>2, OpenExecutionKeeps
<1>3. ASSUME NEW c \in Clerks, InsertRegistration(c) PROVE LedgerInv'
  BY <1>3, InsertRegistrationKeeps
<1>4. ASSUME NEW c \in Clerks, InsertExecution(c) PROVE LedgerInv'
  BY <1>4, InsertExecutionKeeps
<1>5. ASSUME NEW c \in Clerks, CommitCharge(c) PROVE LedgerInv'
  BY <1>5, CommitKeeps
<1>6. ASSUME NEW c \in Clerks, LoseClerk(c) PROVE LedgerInv'
  BY <1>6, LoseKeeps
<1>7. CASE ReadTipForBackup
  BY <1>7, ReadTipKeeps
<1>8. CASE DumpLedger
  BY <1>8, DumpKeeps
<1>9. CASE UNCHANGED ledgerVars
  <2>1. UNCHANGED <<ledger, executions, ledgerSeq, ledgerLock, clerk, backup>>
    BY <1>9 DEF ledgerVars
  <2>2. Books' /\ BackupInv'
    BY <2>1, BooksKept, BackupKept DEF LedgerInv, Books, RowsTyped
  <2>3. LockInv'
    BY <2>1, LockStands DEF LedgerInv
  <2> QED BY <2>2, <2>3 DEF LedgerInv
<1> QED BY <1>1, <1>2, <1>3, <1>4, <1>5, <1>6, <1>7, <1>8, <1>9 DEF LedgerNext

(* The ledger's type invariant (evolution/trials; migrations 0002, 0018,   *)
(* 0021): every row has a number already drawn and charges one trial at    *)
(* least, and a transaction at work has the lock.                          *)
THEOREM LedgerStaysTyped == LedgerSpec => []LedgerTyped
<1>1. LedgerSpec => []LedgerInv
  BY InitHolds, NextHolds, PTL DEF LedgerSpec
<1> QED BY <1>1, InvTyped, PTL

(* No charge is ever lost, whatever is registered, executed, rolled back   *)
(* or cut off by however many clerks; the committed rows are one chain;    *)
(* and verification tells a whole dump from a shortened one.               *)
THEOREM LedgerKept == LedgerSpec => []LedgerHolds
<1>1. LedgerSpec => []LedgerInv
  BY InitHolds, NextHolds, PTL DEF LedgerSpec
<1>2. LedgerInv => LedgerHolds
  BY CountsHold, ChainVerifies DEF LedgerHolds
<1> QED BY <1>1, <1>2, PTL

-----------------------------------------------------------------------------
(* The ancestors: the steps of the walk, where it ends, and that there are *)
(* no others.                                                              *)
Walked(edges, g, N, w) ==
  /\ DOMAIN w = 0 .. N /\ w[0] = {g}
  /\ \A n \in 1 .. N : w[n] = w[n - 1] \cup ParentsOf(edges, w[n - 1])
UpClosed(edges, S) == \A e \in edges : e[1] \in S => e[2] \in S

LEMMA WalkSteps ==
  ASSUME NEW edges, NEW g, NEW L \in Nat
  PROVE  \E w : Walked(edges, g, L, w) /\ AncestorsWithin(edges, g, L) = w[L]
<1> DEFINE Bad == {N \in 0 .. L : ~\E w : Walked(edges, g, N, w)}
<1>1. Bad = {}
  <2>1. SUFFICES ASSUME Bad # {} PROVE FALSE
    OBVIOUS
  <2>2. PICK N \in Bad : \A M \in Bad : N <= M
    <3>1. Bad \in SUBSET Nat
      OBVIOUS
    <3> HIDE DEF Bad
    <3> QED BY <2>1, <3>1, LeastExists
  <2>3. N \in 0 .. L /\ ~\E w : Walked(edges, g, N, w)
    BY <2>2
  <2>4. N # 0
    <3>1. Walked(edges, g, 0, [n \in 0 .. 0 |-> {g}])
      BY DEF Walked
    <3> QED BY <2>3, <3>1
  <2>5. N - 1 \in 0 .. L /\ N - 1 \notin Bad
    <3>1. N \in Nat /\ N - 1 \in 0 .. L /\ ~(N <= N - 1)
      BY <2>3, <2>4
    <3> HIDE DEF Bad
    <3> QED BY <2>2, <3>1
  <2>6. PICK w : Walked(edges, g, N - 1, w)
    BY <2>5
  <2> DEFINE last == w[N - 1] \cup ParentsOf(edges, w[N - 1])
             h == [n \in 0 .. N |-> IF n = N THEN last ELSE w[n]]
  <2>7. DOMAIN h = 0 .. N /\ h[0] = {g}
    BY <2>3, <2>4, <2>6 DEF Walked
  <2>8. ASSUME NEW n \in 1 .. N PROVE h[n] = h[n - 1] \cup ParentsOf(edges, h[n - 1])
    <3>1. h[n - 1] = w[n - 1]
      BY <2>3, <2>4
    <3>2. CASE n = N
      <4>1. h[n] = last
        BY <2>3, <2>4, <3>2
      <4> HIDE DEF h
      <4> QED BY <3>1, <3>2, <4>1
    <3>3. CASE n # N
      <4>1. h[n] = w[n] /\ n \in 1 .. N - 1
        BY <2>3, <2>4, <3>3
      <4> HIDE DEF h
      <4> QED BY <2>6, <3>1, <4>1 DEF Walked
    <3> QED BY <3>2, <3>3
  <2>9. Walked(edges, g, N, h)
    <3> HIDE DEF h
    <3> QED BY <2>7, <2>8 DEF Walked
  <2> QED BY <2>3, <2>9
<1>2. PICK w : Walked(edges, g, L, w)
  <2>1. L \in 0 .. L /\ L \notin Bad
    <3> HIDE DEF Bad
    <3> QED BY <1>1
  <2> QED BY <2>1
<1> DEFINE Body(f) == [n \in 0 .. L |-> IF n = 0 THEN {g} ELSE f[n - 1] \cup ParentsOf(edges, f[n - 1])]
           r == CHOOSE f : f = Body(f)
           v == [n \in 0 .. L |-> w[n]]
<1>3. v = Body(v)
  <2>1. ASSUME NEW n \in 0 .. L PROVE v[n] = Body(v)[n]
    <3>1. CASE n = 0
      BY <1>2, <3>1 DEF Walked
    <3>2. CASE n # 0
      <4>1. n \in 1 .. L /\ n - 1 \in 0 .. L
        BY <3>2
      <4>2. v[n] = w[n] /\ v[n - 1] = w[n - 1]
        BY <4>1
      <4>3. Body(v)[n] = v[n - 1] \cup ParentsOf(edges, v[n - 1])
        BY <3>2
      <4> HIDE DEF v, Body
      <4> QED BY <1>2, <4>1, <4>2, <4>3 DEF Walked
    <3> QED BY <3>1, <3>2
  <2>2. v = [n \in 0 .. L |-> v[n]] /\ Body(v) = [n \in 0 .. L |-> Body(v)[n]]
    OBVIOUS
  <2> HIDE DEF v, Body
  <2> QED BY <2>1, <2>2
<1>4. AncestorsWithin(edges, g, L) = r[L]
  BY DEF AncestorsWithin
<1>5. r = Body(r)
  <2> HIDE DEF Body, v
  <2> QED BY <1>3
<1>6. Walked(edges, g, L, r)
  <2> HIDE DEF r
  <2>1. DOMAIN r = 0 .. L
    BY <1>5
  <2>2. \A n \in 0 .. L : r[n] = IF n = 0 THEN {g} ELSE r[n - 1] \cup ParentsOf(edges, r[n - 1])
    BY <1>5
  <2> HIDE DEF Body
  <2> QED BY <2>1, <2>2 DEF Walked
<1> QED BY <1>4, <1>6

LEMMA ChildrenFinite ==
  ASSUME NEW edges, IsFiniteSet(edges)
  PROVE  IsFiniteSet({e[1] : e \in edges}) /\ Cardinality({e[1] : e \in edges}) \in Nat
<1> DEFINE C == {e[1] : e \in edges}
           f == [e \in edges |-> e[1]]
<1>1. f \in Surjection(edges, C)
  BY DEF Surjection
<1> HIDE DEF f, C
<1>2. IsFiniteSet(C) /\ Cardinality(C) \in Nat
  BY <1>1, FS_Surjection, FS_CardinalityType
<1> QED BY <1>2 DEF C

LEMMA WalkGrows ==
  ASSUME NEW edges, IsFiniteSet(edges), NEW g, NEW L \in Nat, NEW w, Walked(edges, g, L, w)
  PROVE  \A n \in 1 .. L :
           \/ w[n] = w[n - 1]
           \/ Cardinality(w[n - 1] \cap {e[1] : e \in edges}) >= n
<1> DEFINE C == {e[1] : e \in edges}
           Bad == {n \in 1 .. L : w[n] # w[n - 1] /\ ~(Cardinality(w[n - 1] \cap C) >= n)}
<1>1. IsFiniteSet(C)
  BY ChildrenFinite
<1>2. \A n \in 0 .. L : IsFiniteSet(w[n] \cap C) /\ Cardinality(w[n] \cap C) \in Nat
  BY <1>1, FS_Subset, FS_CardinalityType
<1>3. SUFFICES ASSUME Bad # {} PROVE FALSE
  OBVIOUS
<1>4. PICK n \in Bad : \A m \in Bad : n <= m
  <2>1. Bad \in SUBSET Nat
    OBVIOUS
  <2> HIDE DEF Bad
  <2> QED BY <1>3, <2>1, LeastExists
<1>5. /\ n \in 1 .. L /\ w[n] # w[n - 1] /\ ~(Cardinality(w[n - 1] \cap C) >= n)
      /\ w[n] = w[n - 1] \cup ParentsOf(edges, w[n - 1])
  BY <1>4 DEF Walked
<1>6. PICK x \in edges : x[1] \in w[n - 1] /\ x[2] \notin w[n - 1]
  BY <1>5 DEF ParentsOf
<1>7. x[1] \in w[n - 1] \cap C
  BY <1>6
<1>8. CASE n = 1
  <2>1. w[n - 1] \cap C # {}
    BY <1>7
  <2>2. Cardinality(w[n - 1] \cap C) \in Nat /\ Cardinality(w[n - 1] \cap C) # 0
    <3>1. n - 1 \in 0 .. L
      BY <1>5
    <3> HIDE DEF C
    <3> QED BY <1>2, <2>1, <3>1, FS_EmptySet
  <2> QED BY <1>5, <1>8, <2>2
<1>9. CASE n # 1
  <2>1. n - 1 \in 1 .. L /\ n - 2 \in 0 .. L /\ ~(n <= n - 1) /\ (n - 1) - 1 = n - 2
    BY <1>5, <1>9
  <2>2. w[n - 1] = w[n - 2] \cup ParentsOf(edges, w[n - 2])
    BY <2>1 DEF Walked
  <2>3. x[1] \notin w[n - 2]
    BY <1>6, <2>2 DEF ParentsOf
  <2>4. w[n - 1] # w[n - 2]
    BY <1>6, <2>3
  <2>5. Cardinality(w[n - 2] \cap C) >= n - 1
    <3>1. n - 1 \notin Bad
      <4> HIDE DEF Bad
      <4> QED BY <1>4, <2>1
    <3> QED BY <2>1, <2>4, <3>1
  <2> DEFINE P == w[n - 2] \cap C
             Q == w[n - 1] \cap C
  <2>6. IsFiniteSet(P) /\ IsFiniteSet(Q) /\ Cardinality(P) \in Nat /\ Cardinality(Q) \in Nat
    <3>1. n - 1 \in 0 .. L
      BY <2>1
    <3> HIDE DEF C
    <3> QED BY <1>2, <2>1, <3>1
  <2>7. P \cup {x[1]} \subseteq Q /\ x[1] \notin P
    BY <1>7, <2>2, <2>3
  <2>8. Cardinality(P \cup {x[1]}) = Cardinality(P) + 1 /\ Cardinality(P \cup {x[1]}) <= Cardinality(Q)
    <3> HIDE DEF P, Q
    <3> QED BY <2>6, <2>7, FS_AddElement, FS_Subset
  <2>9. Cardinality(P) >= n - 1 /\ ~(Cardinality(Q) >= n) /\ n \in Nat
    BY <1>5, <2>5
  <2> HIDE DEF P, Q
  <2> QED BY <2>6, <2>8, <2>9
<1> QED BY <1>8, <1>9

LEMMA WalkWithin ==
  ASSUME NEW edges, NEW g, NEW L \in Nat, NEW w, Walked(edges, g, L, w),
         NEW S, g \in S, UpClosed(edges, S)
  PROVE  \A n \in 0 .. L : w[n] \subseteq S
<1> DEFINE Bad == {n \in 0 .. L : ~(w[n] \subseteq S)}
<1>1. SUFFICES ASSUME Bad # {} PROVE FALSE
  OBVIOUS
<1>2. PICK n \in Bad : \A m \in Bad : n <= m
  <2>1. Bad \in SUBSET Nat
    OBVIOUS
  <2> HIDE DEF Bad
  <2> QED BY <1>1, <2>1, LeastExists
<1>3. n \in 0 .. L /\ ~(w[n] \subseteq S)
  BY <1>2
<1>4. n # 0
  BY <1>3 DEF Walked
<1>5. n \in 1 .. L /\ n - 1 \in 0 .. L /\ ~(n <= n - 1)
  BY <1>3, <1>4
<1>6. w[n - 1] \subseteq S
  <2>1. n - 1 \notin Bad
    <3> HIDE DEF Bad
    <3> QED BY <1>2, <1>5
  <2> QED BY <1>5, <2>1
<1>7. w[n] = w[n - 1] \cup ParentsOf(edges, w[n - 1])
  BY <1>5 DEF Walked
<1> QED BY <1>3, <1>6, <1>7 DEF UpClosed, ParentsOf

(* The bounded walk of would_create_cycle ends where nothing is added any  *)
(* more: at the least set with the genome that has everyone's parents.     *)
LEMMA AncestorsAre ==
  ASSUME NEW edges, IsFiniteSet(edges), NEW g
  PROVE  /\ g \in Ancestors(edges, g) /\ UpClosed(edges, Ancestors(edges, g))
         /\ \A S : g \in S /\ UpClosed(edges, S) => Ancestors(edges, g) \subseteq S
<1> DEFINE C == {e[1] : e \in edges}
           L == Generations(edges)
<1>1. IsFiniteSet(C) /\ Cardinality(C) \in Nat /\ L = Cardinality(C) + 1 /\ L \in Nat \ {0}
  BY ChildrenFinite DEF Generations
<1> HIDE DEF L, C
<1>2. PICK w : Walked(edges, g, L, w) /\ AncestorsWithin(edges, g, L) = w[L]
  BY <1>1, WalkSteps
<1>3. Ancestors(edges, g) = w[L]
  BY <1>2 DEF Ancestors, L
<1>4. \A S : g \in S /\ UpClosed(edges, S) => w[L] \subseteq S
  <2>1. L \in 0 .. L
    BY <1>1
  <2> QED BY <1>1, <1>2, <2>1, WalkWithin
<1>5. w[L] = w[L - 1] /\ L \in 1 .. L /\ L - 1 \in 0 .. L
  <2>1. L \in 1 .. L /\ L - 1 \in 0 .. L
    BY <1>1
  <2>2. w[L] = w[L - 1] \/ Cardinality(w[L - 1] \cap C) >= L
    BY <1>1, <1>2, <2>1, WalkGrows DEF C
  <2>3. Cardinality(w[L - 1] \cap C) \in Nat /\ Cardinality(w[L - 1] \cap C) <= Cardinality(C)
    <3>1. w[L - 1] \cap C \subseteq C
      OBVIOUS
    <3> QED BY <1>1, <3>1, FS_Subset, FS_CardinalityType
  <2> QED BY <1>1, <2>1, <2>2, <2>3
<1>6. UpClosed(edges, w[L])
  <2>1. w[L] = w[L - 1] \cup ParentsOf(edges, w[L - 1])
    BY <1>2, <1>5 DEF Walked
  <2> QED BY <1>5, <2>1 DEF UpClosed, ParentsOf
<1>7. g \in w[L]
  <2> DEFINE Bad == {n \in 0 .. L : g \notin w[n]}
  <2>1. SUFFICES ASSUME Bad # {} PROVE FALSE
    BY <1>1
  <2>2. PICK n \in Bad : \A m \in Bad : n <= m
    <3>1. Bad \in SUBSET Nat
      OBVIOUS
    <3> HIDE DEF Bad
    <3> QED BY <2>1, <3>1, LeastExists
  <2>3. n # 0
    BY <1>2, <2>2 DEF Walked
  <2>4. n \in 1 .. L /\ n - 1 \in 0 .. L /\ ~(n <= n - 1)
    BY <1>1, <2>2, <2>3
  <2>5. n - 1 \notin Bad
    <3> HIDE DEF Bad
    <3> QED BY <2>2, <2>4
  <2>6. w[n] = w[n - 1] \cup ParentsOf(edges, w[n - 1])
    BY <1>2, <2>4 DEF Walked
  <2> QED BY <2>2, <2>4, <2>5, <2>6
<1> QED BY <1>3, <1>4, <1>6, <1>7

(* An ancestor is the genome itself or an ancestor of a parent, and those  *)
(* of an ancestor are ancestors.                                           *)
LEMMA AncestorsChain ==
  ASSUME NEW edges, IsFiniteSet(edges), NEW g, NEW h \in Ancestors(edges, g)
  PROVE  /\ Ancestors(edges, h) \subseteq Ancestors(edges, g)
         /\ h = g \/ \E e \in edges : e[1] = g /\ h \in Ancestors(edges, e[2])
<1>1. Ancestors(edges, h) \subseteq Ancestors(edges, g)
  BY AncestorsAre
<1> DEFINE A == Ancestors(edges, g)
           S == {y \in A : y = g \/ \E e \in edges : e[1] = g /\ y \in Ancestors(edges, e[2])}
<1>2. g \in S
  BY AncestorsAre
<1>3. UpClosed(edges, S)
  <2>1. SUFFICES ASSUME NEW x \in edges, x[1] \in S PROVE x[2] \in S
    BY DEF UpClosed
  <2>2. x[2] \in A
    BY <2>1, AncestorsAre DEF UpClosed
  <2>3. CASE x[1] = g
    BY <2>2, <2>3, AncestorsAre
  <2>4. CASE x[1] # g
    <3>1. PICK e \in edges : e[1] = g /\ x[1] \in Ancestors(edges, e[2])
      BY <2>1, <2>4
    <3>2. x[2] \in Ancestors(edges, e[2])
      BY <3>1, AncestorsAre DEF UpClosed
    <3> QED BY <2>2, <3>1, <3>2
  <2> QED BY <2>3, <2>4
<1>4. A \subseteq S
  <2> HIDE DEF S, A
  <2> QED BY <1>2, <1>3, AncestorsAre DEF A
<1> QED BY <1>1, <1>4

(* Parents that do not descend from the genome close no cycle.             *)
LEMMA NoCycleAdded ==
  ASSUME NEW edges, IsFiniteSet(edges), Acyclic(edges),
         NEW more, IsFiniteSet(more), NEW child,
         \A f \in more : f[1] = child /\ child \notin Ancestors(edges, f[2])
  PROVE  Acyclic(edges \cup more)
<1> DEFINE all == edges \cup more
<1>1. IsFiniteSet(all)
  BY FS_Union
<1>2. ASSUME NEW g, child \notin Ancestors(edges, g)
      PROVE  Ancestors(all, g) \subseteq Ancestors(edges, g)
  <2>1. UpClosed(all, Ancestors(edges, g))
    BY <1>2, AncestorsAre DEF UpClosed
  <2> HIDE DEF all
  <2> QED BY <1>1, <2>1, AncestorsAre
<1>3. ASSUME NEW f \in more PROVE f[1] \notin Ancestors(all, f[2])
  BY <1>2
<1>4. ASSUME NEW e \in edges PROVE e[1] \notin Ancestors(all, e[2])
  <2>1. e[1] \notin Ancestors(edges, e[2])
    BY DEF Acyclic
  <2>2. CASE child \notin Ancestors(edges, e[2])
    BY <1>2, <2>1, <2>2
  <2>3. CASE child \in Ancestors(edges, e[2])
    <3> DEFINE S == Ancestors(edges, e[2]) \cup UNION {Ancestors(edges, f[2]) : f \in more}
    <3>1. UpClosed(all, S)
      <4>1. SUFFICES ASSUME NEW x \in all, x[1] \in S PROVE x[2] \in S
        BY DEF UpClosed
      <4>2. CASE x \in more
        BY <4>2, AncestorsAre
      <4>3. CASE x \in edges
        BY <4>1, <4>3, AncestorsAre DEF UpClosed
      <4> QED BY <4>2, <4>3
    <3>2. e[2] \in S
      BY AncestorsAre
    <3>3. Ancestors(all, e[2]) \subseteq S
      <4> HIDE DEF S, all
      <4> QED BY <1>1, <3>1, <3>2, AncestorsAre
    <3>4. ASSUME NEW f \in more, e[1] \in Ancestors(edges, f[2]) PROVE FALSE
      <4>1. e[2] \in Ancestors(edges, f[2])
        BY <3>4, AncestorsAre DEF UpClosed
      <4>2. Ancestors(edges, e[2]) \subseteq Ancestors(edges, f[2])
        BY <4>1, AncestorsChain
      <4> QED BY <2>3, <4>2
    <3> QED BY <2>1, <3>3, <3>4
  <2> QED BY <2>2, <2>3
<1> QED BY <1>3, <1>4 DEF Acyclic

(* What the quarantine of a defective genome reaches, in a graph without a *)
(* cycle.                                                                  *)
LEMMA QuarantineReaches ==
  ASSUME IsFiniteSet(parentage), Acyclic(parentage),
         \A e \in parentage : e[1] \in genomes /\ e[2] \in genomes
  PROVE  /\ \A e \in parentage : e[1] \in QuarantineTargets(e[2])
         /\ \A g \in genomes : \A h \in QuarantineTargets(g) :
              QuarantineTargets(h) \subseteq QuarantineTargets(g)
<1>1. ASSUME NEW e \in parentage PROVE e[1] \in QuarantineTargets(e[2])
  <2>1. e[2] \in Ancestors(parentage, e[1])
    BY AncestorsAre DEF UpClosed
  <2>2. e[1] # e[2]
    <3>1. e[2] \in Ancestors(parentage, e[2]) /\ e[1] \notin Ancestors(parentage, e[2])
      BY AncestorsAre DEF Acyclic
    <3> QED BY <3>1
  <2> QED BY <2>1, <2>2 DEF QuarantineTargets
<1>2. ASSUME NEW g \in genomes, NEW h \in QuarantineTargets(g), NEW k \in QuarantineTargets(h)
      PROVE  k \in QuarantineTargets(g)
  <2>1. /\ h \in genomes /\ h # g /\ g \in Ancestors(parentage, h)
        /\ k \in genomes /\ k # h /\ h \in Ancestors(parentage, k)
    BY DEF QuarantineTargets
  <2>2. g \in Ancestors(parentage, k)
    BY <2>1, AncestorsChain
  <2>3. k # g
    <3>1. SUFFICES ASSUME h \in Ancestors(parentage, g) PROVE FALSE
      BY <2>1
    <3>2. PICK e \in parentage : e[1] = g /\ h \in Ancestors(parentage, e[2])
      BY <2>1, <3>1, AncestorsChain
    <3>3. Ancestors(parentage, h) \subseteq Ancestors(parentage, e[2])
      BY <3>2, AncestorsChain
    <3> QED BY <2>1, <3>2, <3>3 DEF Acyclic
  <2> QED BY <2>1, <2>2, <2>3 DEF QuarantineTargets
<1> QED BY <1>1, <1>2

-----------------------------------------------------------------------------
(* What the record and the curators hold, however they interleave.         *)
Genesis(r) == [id |-> 0, strategy |-> r.strategy, from |-> Unborn, to |-> "proposed"]
Carried(r, e) ==
  \/ r \in Records /\ r.strategy # "none" /\ e = Genesis(r)
  \/ r = NothingRecorded /\ e \in Decisions /\ Decidable(e)
Funded(r) == r.strategy # "none" /\ \E p \in strategies : p[1] = r.strategy \/ p[2] = r.genome
ParentsKnown(r) == \A n \in DOMAIN r.parents : r.parents[n] \in genomes

CuratorTask(t) ==
  \/ t = Waiting
  \/ /\ t = [step |-> "record", record |-> t.record, event |-> t.event]
     /\ t.record \in Records /\ t.record.strategy = "none"
  \/ /\ t = [step |-> "number", record |-> t.record, event |-> t.event]
     /\ Carried(t.record, t.event)
  \/ /\ t = [step |-> "chain", record |-> t.record, event |-> t.event, seq |-> t.seq]
     /\ Carried(t.record, t.event) /\ t.seq \in 1 .. eventSeq - 1
  \/ /\ t = [step |-> "commit", record |-> t.record, event |-> t.event, seq |-> t.seq, prev |-> t.prev]
     /\ Carried(t.record, t.event) /\ t.seq \in 1 .. eventSeq - 1
     /\ ParentsKnown(t.record) /\ ~Funded(t.record)

RecordTyped ==
  /\ \A e \in lifecycle : e.seq \in 1 .. eventSeq - 1 /\ e.from \in States /\ e.to \in Permitted(e.from)
  /\ IsFiniteSet(parentage) /\ \A x \in parentage : x[1] \in genomes /\ x[2] \in genomes
  /\ \A p \in strategies : p[2] \in genomes
FundedOnce == \A p, q \in strategies : p[1] = q[1] \/ p[2] = q[2] => p = q
CuratorsInv ==
  /\ chainLock \in Curators \cup {NoHolder} /\ eventSeq \in 1 .. MaxEventSeq
  /\ curator = [c \in Curators |-> curator[c]]
  /\ \A c \in Curators : CuratorTask(curator[c]) /\ (curator[c].step = "commit" => chainLock = c)
RecordInv == RecordTyped /\ FundedOnce /\ CuratorsInv

LEMMA RecordsTyped ==
  /\ \A r \in Records : r.genome # "none" /\ r # NothingRecorded /\ IsFiniteSet(EdgesOf(r))
  /\ EdgesOf(NothingRecorded) = {} /\ \A r : \A x \in EdgesOf(r) : x[1] = r.genome
  /\ \A r : \A x \in EdgesOf(r) : \E n \in DOMAIN r.parents : x[2] = r.parents[n]
<1>1. ASSUME NEW r \in Records PROVE IsFiniteSet(EdgesOf(r))
  <2> DEFINE D == 1 .. Len(r.parents)
             f == [n \in D |-> <<r.genome, r.parents[n], n>>]
  <2>1. DOMAIN r.parents = D /\ Len(r.parents) \in Nat
    BY LineageAssumption
  <2>2. IsFiniteSet(D)
    BY <2>1, FS_Interval
  <2>3. f \in Surjection(D, EdgesOf(r))
    BY <2>1 DEF Surjection, EdgesOf
  <2> HIDE DEF D, f
  <2> QED BY <2>2, <2>3, FS_Surjection
<1>2. \A r \in Records : r.genome # "none" /\ r # NothingRecorded
  BY LineageAssumption DEF NothingRecorded
<1>3. EdgesOf(NothingRecorded) = {}
  BY DEF EdgesOf, NothingRecorded
<1>4. \A r : \A x \in EdgesOf(r) : x[1] = r.genome /\ \E n \in DOMAIN r.parents : x[2] = r.parents[n]
  BY DEF EdgesOf
<1> QED BY <1>1, <1>2, <1>3, <1>4

LEMMA EdgesOfLife ==
  /\ "proposed" \in Permitted(Unborn)
  /\ \A x \in States : \A y \in Permitted(x) :
       /\ y \in States \ {Unborn}
       /\ y = "validated" => x = "backtested"
       /\ y \in {"paper", "challenger", "champion"} => x \in {"validated", "paper", "challenger"}
<1>1. "proposed" \in Permitted(Unborn)
  BY DEF Permitted, Unborn
<1>2. ASSUME NEW x \in States, NEW y \in Permitted(x)
      PROVE  /\ y \in States \ {Unborn}
             /\ y = "validated" => x = "backtested"
             /\ y \in {"paper", "challenger", "champion"} => x \in {"validated", "paper", "challenger"}
  BY DEF States, Permitted, Exits, Unborn
<1> QED BY <1>1, <1>2

LEMMA RecordStarts == LineageInit => RecordInv
<1> SUFFICES ASSUME LineageInit PROVE RecordInv
  OBVIOUS
<1>1. RecordTyped /\ FundedOnce
  BY FS_EmptySet DEF LineageInit, RecordTyped, FundedOnce
<1>2. CuratorsInv
  BY LineageAssumption DEF LineageInit, CuratorsInv, CuratorTask, Waiting
<1> QED BY <1>1, <1>2 DEF RecordInv

(* A step that only changes what one curator holds, or its number.         *)
LEMMA TasksStand ==
  ASSUME RecordInv, NEW c \in Curators, NEW t,
         curator' = [curator EXCEPT ![c] = t], CuratorTask(t)', t.step = "commit" => chainLock' = c,
         eventSeq' \in eventSeq .. MaxEventSeq, genomes \subseteq genomes',
         strategies' = strategies \/ chainLock = c,
         chainLock' \in Curators \cup {NoHolder},
         chainLock' = chainLock \/ chainLock = c \/ chainLock = NoHolder
  PROVE  CuratorsInv'
<1>1. \A d \in Curators : curator'[d] = IF d = c THEN t ELSE curator[d]
  BY DEF RecordInv, CuratorsInv
<1>2. curator' = [d \in Curators |-> curator'[d]]
  BY DEF RecordInv, CuratorsInv
<1>3. ASSUME NEW d \in Curators, d # c PROVE CuratorTask(curator[d])'
  <2>1. CuratorTask(curator[d]) /\ curator'[d] = curator[d] /\ eventSeq \in Nat /\ eventSeq' \in Nat
        /\ eventSeq <= eventSeq'
    BY <1>1, <1>3 DEF RecordInv, CuratorsInv
  <2>2. \A n \in 1 .. eventSeq - 1 : n \in 1 .. eventSeq' - 1
    <3>1. \A a, b \in Nat : a <= b => \A n \in 1 .. a - 1 : n \in 1 .. b - 1
      OBVIOUS
    <3> QED BY <2>1, <3>1
  <2>3. \A r : ParentsKnown(r) => ParentsKnown(r)'
    BY DEF ParentsKnown
  <2>4. curator[d].step = "commit" => \A r : Funded(r)' = Funded(r)
    BY <1>3, LineageAssumption DEF Funded, RecordInv, CuratorsInv
  <2> QED BY <2>1, <2>2, <2>3, <2>4 DEF CuratorTask
<1>4. ASSUME NEW d \in Curators, d # c, curator[d].step = "commit" PROVE chainLock' = d
  BY <1>4, LineageAssumption DEF RecordInv, CuratorsInv
<1>5. eventSeq' \in 1 .. MaxEventSeq
  BY DEF RecordInv, CuratorsInv
<1>6. \A d \in Curators : CuratorTask(curator[d])' /\ (curator'[d].step = "commit" => chainLock' = d)
  <2>1. CuratorTask(curator[c])'
    BY <1>1 DEF CuratorTask
  <2> QED BY <1>1, <1>3, <1>4, <2>1
<1> QED BY <1>2, <1>5, <1>6 DEF CuratorsInv

(* What storing a record adds.                                             *)
LEMMA Stored ==
  ASSUME RecordInv, NEW r, r \in Records \/ r = NothingRecorded,
         StoreRecord(r), ParentsKnown(r), ~Funded(r)
  PROVE  /\ IsFiniteSet(parentage') /\ genomes \subseteq genomes' /\ strategies \subseteq strategies'
         /\ \A x \in parentage' : x[1] \in genomes' /\ x[2] \in genomes'
         /\ \A p \in strategies' : p[2] \in genomes'
         /\ FundedOnce'
         /\ \E more : /\ IsFiniteSet(more) /\ parentage' = parentage \cup more
                       /\ more \subseteq EdgesOf(r)
<1> DEFINE more == {x \in EdgesOf(r) : \A y \in parentage : <<x[1], x[2]>> # <<y[1], y[2]>>}
<1>1. parentage' = parentage \cup more /\ genomes' = genomes \cup ({r.genome} \ {"none"})
  BY DEF StoreRecord
<1>2. IsFiniteSet(more) /\ more \subseteq EdgesOf(r)
  <2>1. IsFiniteSet(EdgesOf(r))
    BY RecordsTyped, FS_EmptySet
  <2>2. more \subseteq EdgesOf(r)
    OBVIOUS
  <2> QED BY <2>1, <2>2, FS_Subset
<1>3. IsFiniteSet(parentage')
  BY <1>1, <1>2, FS_Union DEF RecordInv, RecordTyped
<1>4. \A x \in more : x[1] \in genomes' /\ x[2] \in genomes'
  <2>1. CASE r = NothingRecorded
    BY <1>2, <2>1, RecordsTyped
  <2>2. CASE r \in Records
    BY <1>1, <1>2, <2>2, RecordsTyped DEF ParentsKnown
  <2> QED BY <2>1, <2>2
<1>5. \A x \in parentage' : x[1] \in genomes' /\ x[2] \in genomes'
  BY <1>1, <1>4 DEF RecordInv, RecordTyped
<1>6. \/ strategies' = strategies
      \/ /\ r.strategy # "none" /\ r \in Records
         /\ strategies' = strategies \cup {<<r.strategy, r.genome>>}
  BY DEF StoreRecord, NothingRecorded
<1>7. \A p \in strategies' : p[2] \in genomes'
  <2>1. \A p \in strategies : p[2] \in genomes'
    BY <1>1 DEF RecordInv, RecordTyped
  <2>2. r \in Records => r.genome \in genomes'
    BY <1>1, RecordsTyped
  <2> QED BY <1>6, <2>1, <2>2
<1>8. FundedOnce'
  BY <1>6 DEF RecordInv, FundedOnce, Funded
<1>9. strategies \subseteq strategies' /\ genomes \subseteq genomes'
  BY <1>1, <1>6
<1> QED BY <1>1, <1>2, <1>3, <1>5, <1>7, <1>8, <1>9

LEMMA Begun ==
  ASSUME RecordInv, NEW c \in Curators, BeginRecord(c) \/ BeginAppend(c)
  PROVE  RecordInv'
<1>1. UNCHANGED <<genomes, parentage, strategies, lifecycle, eventSeq, chainLock>>
  BY DEF BeginRecord, BeginAppend
<1>2. \E t : /\ curator' = [curator EXCEPT ![c] = t] /\ CuratorTask(t)' /\ t.step # "commit"
  <2>1. CASE BeginRecord(c)
    <3>1. PICK r \in Records : curator' = [curator EXCEPT ![c] =
            [step |-> IF r.strategy = "none" THEN "record" ELSE "number", record |-> r,
             event |-> Genesis(r)]]
      BY <2>1 DEF BeginRecord, Genesis
    <3>2. PICK t : t = [step |-> IF r.strategy = "none" THEN "record" ELSE "number", record |-> r,
                        event |-> Genesis(r)]
      OBVIOUS
    <3>3. CuratorTask(t)'
      BY <3>2 DEF CuratorTask, Carried
    <3>4. curator' = [curator EXCEPT ![c] = t] /\ t.step # "commit"
      BY <3>1, <3>2
    <3> QED BY <3>3, <3>4, Zenon
  <2>2. CASE BeginAppend(c)
    <3>1. PICK d \in Decisions : /\ Decidable(d)
                                 /\ curator' = [curator EXCEPT ![c] =
                                      [step |-> "number", record |-> NothingRecorded, event |-> d]]
      BY <2>2 DEF BeginAppend
    <3>2. PICK t : t = [step |-> "number", record |-> NothingRecorded, event |-> d]
      OBVIOUS
    <3>3. CuratorTask(t)'
      BY <3>1, <3>2 DEF CuratorTask, Carried
    <3>4. curator' = [curator EXCEPT ![c] = t] /\ t.step # "commit"
      BY <3>1, <3>2
    <3> QED BY <3>3, <3>4, Zenon
  <2> QED BY <2>1, <2>2
<1>3. CuratorsInv'
  <2>1. eventSeq' \in eventSeq .. MaxEventSeq
    BY <1>1 DEF RecordInv, CuratorsInv
  <2>2. chainLock' \in Curators \cup {NoHolder}
    BY <1>1 DEF RecordInv, CuratorsInv
  <2> QED BY <1>1, <1>2, <2>1, <2>2, TasksStand
<1>4. RecordTyped' /\ FundedOnce'
  BY <1>1 DEF RecordInv, RecordTyped, FundedOnce
<1> QED BY <1>3, <1>4 DEF RecordInv

LEMMA AtRestTask == CuratorTask(Waiting)' /\ Waiting.step # "commit"
BY DEF CuratorTask, Waiting

LEMMA RecordCommitted ==
  ASSUME RecordInv, NEW c \in Curators, CommitRecord(c)
  PROVE  /\ RecordInv'
         /\ \/ UNCHANGED <<genomes, parentage, strategies>>
            \/ /\ strategies' = strategies /\ StoreRecord(curator[c].record)
               /\ ParentsKnown(curator[c].record) /\ ~Funded(curator[c].record)
<1> DEFINE r == curator[c].record
<1>1. r \in Records /\ r.strategy = "none"
  BY DEF CommitRecord, RecordInv, CuratorsInv, CuratorTask, Waiting
<1>2. /\ curator' = [curator EXCEPT ![c] = Waiting] /\ UNCHANGED <<lifecycle, eventSeq, chainLock>>
      /\ \/ UNCHANGED <<genomes, parentage, strategies>>
         \/ StoreRecord(r) /\ ~Conflicts(r, [id |-> 0, strategy |-> "none"])
  BY DEF CommitRecord, CuratorIdle
<1>3. CASE UNCHANGED <<genomes, parentage, strategies>>
  <2>1. RecordTyped' /\ FundedOnce'
    BY <1>2, <1>3 DEF RecordInv, RecordTyped, FundedOnce
  <2>2. CuratorsInv'
    <3>1. /\ eventSeq' \in eventSeq .. MaxEventSeq /\ chainLock' \in Curators \cup {NoHolder}
          /\ genomes \subseteq genomes'
      BY <1>2, <1>3 DEF RecordInv, CuratorsInv
    <3> QED BY <1>2, <1>3, <3>1, AtRestTask, TasksStand
  <2> QED BY <1>3, <2>1, <2>2 DEF RecordInv
<1>4. CASE StoreRecord(r) /\ ~Conflicts(r, [id |-> 0, strategy |-> "none"])
  <2>1. ParentsKnown(r) /\ ~Funded(r)
    BY <1>1, <1>4 DEF Conflicts, ParentsKnown, Funded
  <2>2. strategies' = strategies
    BY <1>1, <1>4 DEF StoreRecord
  <2>3. /\ IsFiniteSet(parentage') /\ genomes \subseteq genomes'
        /\ \A x \in parentage' : x[1] \in genomes' /\ x[2] \in genomes'
        /\ \A p \in strategies' : p[2] \in genomes'
        /\ FundedOnce'
    <3> HIDE DEF r
    <3> QED BY <1>1, <1>4, <2>1, Stored
  <2>4. RecordTyped'
    BY <1>2, <2>3 DEF RecordInv, RecordTyped
  <2>5. CuratorsInv'
    <3>1. eventSeq' \in eventSeq .. MaxEventSeq /\ chainLock' \in Curators \cup {NoHolder}
      BY <1>2 DEF RecordInv, CuratorsInv
    <3> QED BY <1>2, <2>2, <2>3, <3>1, AtRestTask, TasksStand
  <2> QED BY <1>4, <2>1, <2>2, <2>3, <2>4, <2>5 DEF RecordInv
<1> QED BY <1>2, <1>3, <1>4

LEMMA EventNumbered ==
  ASSUME RecordInv, NEW c \in Curators, NumberEvent(c)
  PROVE  RecordInv'
<1> DEFINE u == curator[c]
<1>1. PICK t : t = [step |-> "chain", record |-> u.record, event |-> u.event, seq |-> eventSeq]
  OBVIOUS
<1>2. curator' = [curator EXCEPT ![c] = t] /\ eventSeq' = eventSeq + 1 /\ eventSeq < MaxEventSeq
  BY <1>1 DEF NumberEvent
<1>3. UNCHANGED <<genomes, parentage, strategies, lifecycle, chainLock>>
  BY DEF NumberEvent
<1>4. Carried(u.record, u.event) /\ eventSeq \in Nat \ {0} /\ MaxEventSeq \in Nat
  BY LineageAssumption DEF NumberEvent, RecordInv, CuratorsInv, CuratorTask, Waiting
<1>5. CuratorTask(t)' /\ t.step # "commit"
  <2>1. t.seq \in 1 .. eventSeq' - 1 /\ Carried(t.record, t.event)
    BY <1>1, <1>2, <1>4
  <2>2. Carried(t.record, t.event)'
    BY <2>1 DEF Carried
  <2>3. t = [step |-> "chain", record |-> t.record, event |-> t.event, seq |-> t.seq]
    BY <1>1
  <2> QED BY <1>1, <2>1, <2>2, <2>3 DEF CuratorTask
<1>6. CuratorsInv'
  <2>1. eventSeq' \in eventSeq .. MaxEventSeq
    BY <1>2, <1>4
  <2>2. chainLock' \in Curators \cup {NoHolder}
    BY <1>3 DEF RecordInv, CuratorsInv
  <2> QED BY <1>2, <1>3, <1>5, <2>1, <2>2, TasksStand
<1>7. RecordTyped' /\ FundedOnce'
  <2>1. \A n \in 1 .. eventSeq - 1 : n \in 1 .. eventSeq' - 1
    BY <1>2, <1>4
  <2> QED BY <1>3, <2>1 DEF RecordInv, RecordTyped, FundedOnce
<1> QED BY <1>6, <1>7 DEF RecordInv

LEMMA EventChained ==
  ASSUME RecordInv, NEW c \in Curators, ChainEvent(c)
  PROVE  RecordInv'
<1> DEFINE u == curator[c]
<1>1. UNCHANGED <<genomes, parentage, strategies, lifecycle, eventSeq>> /\ chainLock = NoHolder
  BY DEF ChainEvent
<1>2. RecordTyped' /\ FundedOnce'
  BY <1>1 DEF RecordInv, RecordTyped, FundedOnce
<1>3. u.step = "chain" /\ Carried(u.record, u.event) /\ u.seq \in 1 .. eventSeq - 1
  BY DEF ChainEvent, RecordInv, CuratorsInv, CuratorTask, Waiting
<1>4. eventSeq' \in eventSeq .. MaxEventSeq
  BY <1>1 DEF RecordInv, CuratorsInv
<1>5. CuratorsInv'
  <2>1. CASE Conflicts(u.record, u.event)
    <3>1. curator' = [curator EXCEPT ![c] = Waiting] /\ chainLock' = chainLock
      BY <2>1 DEF ChainEvent, CuratorIdle
    <3> QED BY <1>1, <1>4, <3>1, AtRestTask, TasksStand
  <2>2. CASE ~Conflicts(u.record, u.event)
    <3>1. PICK t : t = [step |-> "commit", record |-> u.record, event |-> u.event, seq |-> u.seq,
                        prev |-> IF lifecycle = {} THEN 0 ELSE Latest(lifecycle).seq]
      OBVIOUS
    <3>2. curator' = [curator EXCEPT ![c] = t] /\ chainLock' = c
      BY <2>2, <3>1 DEF ChainEvent
    <3>3. ParentsKnown(u.record) /\ ~Funded(u.record)
      BY <2>2 DEF Conflicts, ParentsKnown, Funded
    <3>4. CuratorTask(t)'
      <4>1. /\ t = [step |-> "commit", record |-> t.record, event |-> t.event, seq |-> t.seq, prev |-> t.prev]
            /\ t.record = u.record /\ t.event = u.event /\ t.seq = u.seq
        BY <3>1
      <4>2. Carried(t.record, t.event)'
        BY <1>3, <4>1 DEF Carried
      <4>3. ParentsKnown(t.record)' /\ ~Funded(t.record)'
        <5>1. ParentsKnown(t.record) /\ ~Funded(t.record)
          BY <3>3, <4>1
        <5> QED BY <1>1, <5>1 DEF ParentsKnown, Funded
      <4> QED BY <1>1, <1>3, <4>1, <4>2, <4>3 DEF CuratorTask
    <3> QED BY <1>1, <1>4, <3>2, <3>4, TasksStand
  <2> QED BY <2>1, <2>2
<1> QED BY <1>2, <1>5 DEF RecordInv

LEMMA EventCommitted ==
  ASSUME RecordInv, NEW c \in Curators, CommitEvent(c)
  PROVE  /\ RecordInv' /\ Carried(curator[c].record, curator[c].event)
         /\ ParentsKnown(curator[c].record) /\ ~Funded(curator[c].record)
<1> DEFINE u == curator[c]
           e == [seq |-> u.seq, prev |-> u.prev, id |-> u.event.id, strategy |-> u.event.strategy,
                 from |-> u.event.from, to |-> u.event.to]
<1>1. /\ Carried(u.record, u.event) /\ u.seq \in 1 .. eventSeq - 1 /\ chainLock = c
      /\ ParentsKnown(u.record) /\ ~Funded(u.record)
  BY DEF CommitEvent, RecordInv, CuratorsInv, CuratorTask, Waiting
<1>2. /\ StoreRecord(u.record) /\ lifecycle' = lifecycle \cup {e} /\ chainLock' = NoHolder
      /\ curator' = [curator EXCEPT ![c] = Waiting] /\ eventSeq' = eventSeq
  BY DEF CommitEvent, CuratorIdle
<1>3. u.event.from \in States /\ u.event.to \in Permitted(u.event.from)
  <2>1. CASE u.event = Genesis(u.record)
    <3>1. u.event.from = Unborn /\ u.event.to = "proposed"
      BY <2>1 DEF Genesis
    <3> QED BY <3>1, EdgesOfLife DEF States
  <2>2. CASE u.event \in Decisions /\ Decidable(u.event)
    BY <2>2, LineageAssumption DEF Decidable
  <2> QED BY <1>1, <2>1, <2>2 DEF Carried
<1>4. /\ IsFiniteSet(parentage') /\ genomes \subseteq genomes'
      /\ \A x \in parentage' : x[1] \in genomes' /\ x[2] \in genomes'
      /\ \A p \in strategies' : p[2] \in genomes'
      /\ FundedOnce'
  <2>1. u.record \in Records \/ u.record = NothingRecorded
    BY <1>1 DEF Carried
  <2> HIDE DEF u
  <2> QED BY <1>1, <1>2, <2>1, Stored
<1>5. RecordTyped'
  <2>1. e.seq \in 1 .. eventSeq - 1 /\ e.from \in States /\ e.to \in Permitted(e.from)
    BY <1>1, <1>3
  <2> HIDE DEF e
  <2> QED BY <1>2, <1>4, <2>1 DEF RecordInv, RecordTyped
<1>6. CuratorsInv'
  <2>1. eventSeq' \in eventSeq .. MaxEventSeq /\ chainLock' \in Curators \cup {NoHolder}
    BY <1>2 DEF RecordInv, CuratorsInv
  <2> QED BY <1>1, <1>2, <1>4, <2>1, AtRestTask, TasksStand
<1> QED BY <1>1, <1>4, <1>5, <1>6 DEF RecordInv

LEMMA CuratorLost ==
  ASSUME RecordInv, NEW c \in Curators, LoseCurator(c)
  PROVE  RecordInv'
<1>1. /\ UNCHANGED <<genomes, parentage, strategies, lifecycle, eventSeq>>
      /\ curator' = [curator EXCEPT ![c] = Waiting]
      /\ chainLock' = IF chainLock = c THEN NoHolder ELSE chainLock
  BY DEF LoseCurator, CuratorIdle
<1>2. RecordTyped' /\ FundedOnce'
  BY <1>1 DEF RecordInv, RecordTyped, FundedOnce
<1>3. CuratorsInv'
  <2>1. eventSeq' \in eventSeq .. MaxEventSeq /\ chainLock' \in Curators \cup {NoHolder}
    BY <1>1 DEF RecordInv, CuratorsInv
  <2> QED BY <1>1, <2>1, AtRestTask, TasksStand
<1> QED BY <1>2, <1>3 DEF RecordInv

LEMMA RecordStep == RecordInv /\ [LineageNext]_lineageVars => RecordInv'
<1> SUFFICES ASSUME RecordInv, [LineageNext]_lineageVars PROVE RecordInv'
  OBVIOUS
<1>1. CASE UNCHANGED lineageVars
  BY <1>1 DEF lineageVars, RecordInv, RecordTyped, FundedOnce, CuratorsInv, CuratorTask, Carried,
              ParentsKnown, Funded
<1>2. CASE LineageNext
  BY <1>2, Begun, RecordCommitted, EventNumbered, EventChained, EventCommitted, CuratorLost
     DEF LineageNext
<1> QED BY <1>1, <1>2

(* Event numbers are drawn below the counter, an event is one the lifecycle *)
(* has, and who funds a genome funds one that is on record (store, 0015),   *)
(* for any number of curators.                                              *)
THEOREM LineageStaysTyped == RecordSpec => []LineageTyped
<1>1. RecordInv => LineageTyped
  BY DEF RecordInv, CuratorsInv, RecordTyped, LineageTyped
<1> QED BY <1>1, RecordStarts, RecordStep, PTL DEF RecordSpec

(* No strategy and no genome is funded twice (migration 0015's keys), for   *)
(* any number of curators and any interleaving of their transactions.       *)
THEOREM FundedOnceKept == RecordSpec => []FundedOnce
<1>1. RecordInv => FundedOnce
  BY DEF RecordInv
<1> QED BY <1>1, RecordStarts, RecordStep, PTL DEF RecordSpec

-----------------------------------------------------------------------------
(* One curator at a time: what it has read still stands when it appends.   *)
OneCurator == \A c, d \in Curators : c = d

Earning == {"validated", "paper", "challenger", "champion"}
Reached(s) == {e.to : e \in EventsOf(s)}
Earned(s) == CurrentState(s) \in Earning => {"backtested", "validated"} \subseteq Reached(s)
FollowsOn(e) == e.from = IF Earlier(e) = {} THEN Unborn ELSE Latest(Earlier(e)).to
LinkOf(rows) == IF rows = {} THEN 0 ELSE Latest(rows).seq
Preceding(e) == {o \in lifecycle : o.seq < e.seq}
Strategies == {p[1] : p \in strategies}

HistoryInv ==
  /\ \A e, o \in lifecycle : e.seq = o.seq => e = o
  /\ \A e \in lifecycle : e.strategy \in Strategies /\ FollowsOn(e) /\ e.prev = LinkOf(Preceding(e))
  /\ \A s \in Strategies : EventsOf(s) # {}
  /\ \A s : Earned(s)

NoLoop(r) == \A n \in DOMAIN r.parents : ~WouldCreateCycle(r.genome, r.parents[n])
StillTrue(t) ==
  t.step # "idle" =>
    /\ t.record \in Records => NoLoop(t.record)
    /\ t.record = NothingRecorded => Current(t.event)
    /\ t.step \in {"chain", "commit"} => \A e \in lifecycle : e.seq < t.seq
    /\ t.step = "commit" => /\ t.record = NothingRecorded => t.event.strategy \in Strategies
                            /\ t.prev = LinkOf(lifecycle)
SerialInv ==
  RecordInv /\ HistoryInv /\ Acyclic(parentage) /\ \A c \in Curators : StillTrue(curator[c])

LEMMA LatestOf ==
  ASSUME RecordInv, NEW rows \in SUBSET lifecycle, rows # {}
  PROVE  Latest(rows) \in rows /\ \A o \in rows : o.seq <= Latest(rows).seq
<1> DEFINE S == {e.seq : e \in rows}
<1>1. eventSeq \in Nat /\ S \in SUBSET (0 .. eventSeq) /\ S # {}
  BY DEF RecordInv, RecordTyped, CuratorsInv
<1>2. PICK x \in S : \A y \in S : y <= x
  <2> HIDE DEF S
  <2> QED BY <1>1, MostExists
<1>3. \E e \in rows : \A o \in rows : o.seq <= e.seq
  BY <1>2
<1> QED BY <1>3 DEF Latest

LEMMA LatestIs ==
  ASSUME NEW rows, NEW e \in rows, \A o \in rows : o.seq \in Nat /\ (o = e \/ o.seq < e.seq)
  PROVE  Latest(rows) = e
<1>1. \A o \in rows : o.seq <= e.seq
  OBVIOUS
<1>2. Latest(rows) \in rows /\ \A o \in rows : o.seq <= Latest(rows).seq
  BY <1>1 DEF Latest
<1>3. e.seq <= Latest(rows).seq
  BY <1>2
<1> QED BY <1>2, <1>3

(* The state a strategy is in is one it has an event for.                  *)
LEMMA StateReached ==
  ASSUME RecordInv, NEW s
  PROVE  CurrentState(s) # Unborn => CurrentState(s) \in Reached(s)
<1>1. ASSUME EventsOf(s) # {} PROVE CurrentState(s) \in Reached(s)
  <2>1. EventsOf(s) \in SUBSET lifecycle
    BY DEF EventsOf
  <2>2. Latest(EventsOf(s)) \in EventsOf(s)
    BY <1>1, <2>1, LatestOf
  <2> QED BY <1>1, <2>2 DEF CurrentState, Reached
<1> QED BY <1>1 DEF CurrentState

LEMMA HistoryGives ==
  ASSUME RecordInv, HistoryInv, Acyclic(parentage)
  PROVE  EvolutionRecordHolds
<1>1. ASSUME NEW p \in strategies, p[1] \in LiveStrategies
      PROVE  {"backtested", "validated"} \subseteq {e.to : e \in EventsOf(p[1])}
  <2>1. PICK q \in strategies : q[1] = p[1] /\ Posture(CurrentState(q[1])) # "none"
    BY <1>1 DEF LiveStrategies
  <2>2. CurrentState(p[1]) \in Earning
    BY <2>1 DEF Posture, Earning
  <2> QED BY <2>2 DEF HistoryInv, Earned, Reached
<1>2. OneHistory
  BY <1>1 DEF OneHistory, HistoryInv, FollowsOn, Strategies
<1>3. EventChainVerifies
  BY DEF EventChainVerifies, HistoryInv, LinkOf, Preceding
<1>4. GenealogyHolds
  <2>1. /\ IsFiniteSet(parentage) /\ \A e \in parentage : e[1] \in genomes /\ e[2] \in genomes
        /\ \A p, q \in strategies : p[2] = q[2] => p = q
    BY DEF RecordInv, RecordTyped, FundedOnce
  <2> QED BY <2>1, QuarantineReaches DEF GenealogyHolds
<1> QED BY <1>2, <1>3, <1>4 DEF EvolutionRecordHolds

LEMMA HistoryStands ==
  ASSUME HistoryInv, strategies' = strategies, lifecycle' = lifecycle
  PROVE  HistoryInv'
<1>1. \A s : EventsOf(s)' = EventsOf(s)
  BY DEF EventsOf
<1>2. \A s : CurrentState(s)' = CurrentState(s) /\ Reached(s)' = Reached(s)
  BY <1>1 DEF CurrentState, Reached
<1>3. \A e : Earlier(e)' = Earlier(e) /\ Preceding(e)' = Preceding(e)
  BY <1>1 DEF Earlier, Preceding
<1>4. Strategies' = Strategies
  BY DEF Strategies
<1>5. \A e : FollowsOn(e)' = FollowsOn(e)
  BY <1>3 DEF FollowsOn
<1>6. \A s : Earned(s)' = Earned(s)
  BY <1>2 DEF Earned
<1> QED BY <1>1, <1>3, <1>4, <1>5, <1>6 DEF HistoryInv

LEMMA AcyclicStored ==
  ASSUME SerialInv, NEW r, r \in Records \/ r = NothingRecorded, StoreRecord(r), ParentsKnown(r),
         ~Funded(r), r \in Records => NoLoop(r)
  PROVE  Acyclic(parentage')
<1>1. PICK more : IsFiniteSet(more) /\ parentage' = parentage \cup more /\ more \subseteq EdgesOf(r)
  BY Stored DEF SerialInv
<1>2. CASE r = NothingRecorded
  <2>1. parentage' = parentage
    BY <1>1, <1>2, RecordsTyped
  <2> QED BY <2>1 DEF SerialInv
<1>3. CASE r \in Records
  <2>1. \A f \in more : f[1] = r.genome /\ \E n \in DOMAIN r.parents : f[2] = r.parents[n]
    BY <1>1, RecordsTyped
  <2>2. \A f \in more : f[1] = r.genome /\ r.genome \notin Ancestors(parentage, f[2])
    BY <1>3, <2>1 DEF NoLoop, WouldCreateCycle
  <2>3. IsFiniteSet(parentage) /\ Acyclic(parentage)
    BY DEF SerialInv, RecordInv, RecordTyped
  <2> QED BY <1>1, <2>2, <2>3, NoCycleAdded
<1> QED BY <1>2, <1>3

(* An event with the highest number goes on from the state its strategy is *)
(* in.                                                                     *)
LEMMA EventAdded ==
  ASSUME RecordInv, RecordInv', HistoryInv, NEW e, lifecycle' = lifecycle \cup {e},
         \A o \in lifecycle : o.seq < e.seq,
         strategies \subseteq strategies', \A p \in strategies' \ strategies : p[1] = e.strategy,
         e.strategy \in Strategies', e.from = CurrentState(e.strategy), e.prev = LinkOf(lifecycle)
  PROVE  HistoryInv'
<1>1. /\ \A o \in lifecycle \cup {e} : o.seq \in Nat
      /\ e.from \in States /\ e.to \in Permitted(e.from)
  BY DEF RecordInv, RecordTyped
<1>2. e \notin lifecycle /\ \A o \in lifecycle : ~(e.seq < o.seq) /\ ~(e.seq = o.seq)
  BY <1>1
<1>3. ~(e.seq < e.seq)
  BY <1>1
<1>4. \A o \in lifecycle : Earlier(o)' = Earlier(o) /\ Preceding(o)' = Preceding(o)
  BY <1>2 DEF Earlier, Preceding, EventsOf
<1>5. Earlier(e)' = EventsOf(e.strategy) /\ Preceding(e)' = lifecycle
  BY <1>3 DEF Earlier, Preceding, EventsOf
<1>6. \A s : s # e.strategy => EventsOf(s)' = EventsOf(s)
  BY DEF EventsOf
<1>7. EventsOf(e.strategy)' = EventsOf(e.strategy) \cup {e} /\ EventsOf(e.strategy) \subseteq lifecycle
  BY DEF EventsOf
<1>8. CurrentState(e.strategy)' = e.to
  <2>1. Latest(EventsOf(e.strategy) \cup {e}) = e
    <3>1. \A o \in EventsOf(e.strategy) \cup {e} : o.seq \in Nat /\ (o = e \/ o.seq < e.seq)
      BY <1>1, <1>7
    <3>2. e \in EventsOf(e.strategy) \cup {e}
      OBVIOUS
    <3> HIDE DEF EventsOf
    <3> QED BY <3>1, <3>2, LatestIs
  <2> QED BY <1>7, <2>1 DEF CurrentState
<1>9. \A s : s # e.strategy => CurrentState(s)' = CurrentState(s) /\ Reached(s)' = Reached(s)
  BY <1>6 DEF CurrentState, Reached
<1>10. Reached(e.strategy)' = Reached(e.strategy) \cup {e.to}
  BY <1>7 DEF Reached
<1>11. Earned(e.strategy)'
  <2>1. SUFFICES ASSUME e.to \in Earning
                 PROVE  {"backtested", "validated"} \subseteq Reached(e.strategy) \cup {e.to}
    BY <1>8, <1>10 DEF Earned
  <2>2. e.from # Unborn => e.from \in Reached(e.strategy)
    BY StateReached
  <2>3. CASE e.to = "validated"
    <3>1. e.from = "backtested"
      BY <1>1, <2>3, EdgesOfLife
    <3> QED BY <2>2, <2>3, <3>1 DEF Unborn
  <2>4. CASE e.to # "validated"
    <3>1. e.from \in Earning
      BY <1>1, <2>1, <2>4, EdgesOfLife DEF Earning
    <3> QED BY <3>1 DEF HistoryInv, Earned
  <2> QED BY <2>3, <2>4
<1>12. \A s : Earned(s)'
  BY <1>9, <1>11 DEF HistoryInv, Earned
<1>13. \A o, q \in lifecycle' : o.seq = q.seq => o = q
  BY <1>2 DEF HistoryInv
<1>14. \A o \in lifecycle' : FollowsOn(o)' /\ o.prev = LinkOf(Preceding(o)')
  <2>1. FollowsOn(e)'
    BY <1>5 DEF FollowsOn, CurrentState
  <2>2. \A o \in lifecycle : FollowsOn(o)'
    BY <1>4 DEF HistoryInv, FollowsOn
  <2>3. e.prev = LinkOf(Preceding(e)')
    BY <1>5
  <2>4. \A o \in lifecycle : o.prev = LinkOf(Preceding(o)')
    BY <1>4 DEF HistoryInv
  <2> QED BY <2>1, <2>2, <2>3, <2>4
<1>15. \A o \in lifecycle' : o.strategy \in Strategies'
  BY DEF HistoryInv, Strategies
<1>16. \A s \in Strategies' : EventsOf(s)' # {}
  <2>1. \A s \in Strategies' : s \in Strategies \/ s = e.strategy
    BY DEF Strategies
  <2> QED BY <1>6, <1>7, <2>1 DEF HistoryInv
<1> QED BY <1>12, <1>13, <1>14, <1>15, <1>16 DEF HistoryInv

LEMMA SerialBegun ==
  ASSUME SerialInv, NEW c \in Curators, BeginRecord(c) \/ BeginAppend(c)
  PROVE  HistoryInv' /\ Acyclic(parentage)' /\ StillTrue(curator[c])'
<1>1. UNCHANGED <<genomes, parentage, strategies, lifecycle, eventSeq, chainLock>>
  BY DEF BeginRecord, BeginAppend
<1>2. HistoryInv' /\ Acyclic(parentage)'
  BY <1>1, HistoryStands DEF SerialInv
<1>3. curator = [d \in Curators |-> curator[d]]
  BY DEF SerialInv, RecordInv, CuratorsInv
<1>4. CASE BeginRecord(c)
  <2>1. PICK r \in Records :
          /\ r.parents # <<>> => \A n \in DOMAIN r.parents : ~WouldCreateCycle(r.genome, r.parents[n])
          /\ curator' = [curator EXCEPT ![c] =
               [step |-> IF r.strategy = "none" THEN "record" ELSE "number", record |-> r,
                event |-> [id |-> 0, strategy |-> r.strategy, from |-> Unborn, to |-> "proposed"]]]
    BY <1>4 DEF BeginRecord
  <2>2. r # NothingRecorded
    BY RecordsTyped
  <2>3. NoLoop(r)'
    <3>1. NoLoop(r)
      BY <2>1, LineageAssumption DEF NoLoop
    <3> QED BY <1>1, <3>1 DEF NoLoop, WouldCreateCycle
  <2>4. curator'[c].record = r /\ curator'[c].step \in {"record", "number"}
    BY <1>3, <2>1
  <2> QED BY <1>2, <2>2, <2>3, <2>4 DEF StillTrue
<1>5. CASE BeginAppend(c)
  <2>1. PICK d \in Decisions :
          /\ Current(d)
          /\ curator' = [curator EXCEPT ![c] = [step |-> "number", record |-> NothingRecorded, event |-> d]]
    BY <1>5 DEF BeginAppend
  <2>2. curator'[c] = [step |-> "number", record |-> NothingRecorded, event |-> d]
    BY <1>3, <2>1
  <2>3. Current(d)'
    BY <1>1, <2>1 DEF Current, CurrentState, EventsOf
  <2>4. NothingRecorded \notin Records
    BY RecordsTyped
  <2> QED BY <1>2, <2>2, <2>3, <2>4 DEF StillTrue
<1> QED BY <1>4, <1>5

LEMMA SerialNumbered ==
  ASSUME SerialInv, NEW c \in Curators, NumberEvent(c) \/ ChainEvent(c)
  PROVE  HistoryInv' /\ Acyclic(parentage)' /\ StillTrue(curator[c])'
<1>0. PICK u : u = curator[c]
  OBVIOUS
<1>1. UNCHANGED <<genomes, parentage, strategies, lifecycle>>
  BY DEF NumberEvent, ChainEvent
<1>2. HistoryInv' /\ Acyclic(parentage)'
  BY <1>1, HistoryStands DEF SerialInv
<1>3. /\ curator = [d \in Curators |-> curator[d]]
      /\ StillTrue(u) /\ u.step \in {"number", "chain"}
      /\ \A e \in lifecycle : e.seq < eventSeq
  BY <1>0 DEF SerialInv, RecordInv, RecordTyped, CuratorsInv, NumberEvent, ChainEvent
<1>4. /\ u.record \in Records => NoLoop(u.record)'
      /\ u.record = NothingRecorded => Current(u.event)'
  <2>1. /\ u.record \in Records => NoLoop(u.record)
        /\ u.record = NothingRecorded => Current(u.event)
    BY <1>3 DEF StillTrue
  <2> QED BY <1>1, <2>1 DEF NoLoop, WouldCreateCycle, Current, CurrentState, EventsOf
<1>5. CASE NumberEvent(c)
  <2>1. curator'[c] = [step |-> "chain", record |-> u.record, event |-> u.event, seq |-> eventSeq]
    BY <1>0, <1>3, <1>5 DEF NumberEvent
  <2> QED BY <1>1, <1>2, <1>3, <1>4, <2>1 DEF StillTrue
<1>6. CASE ChainEvent(c)
  <2>1. CASE Conflicts(u.record, u.event)
    <3>1. curator'[c] = Waiting
      BY <1>0, <1>3, <1>6, <2>1 DEF ChainEvent, CuratorIdle
    <3> QED BY <1>2, <3>1 DEF StillTrue, Waiting
  <2>2. CASE ~Conflicts(u.record, u.event)
    <3>1. curator'[c] = [step |-> "commit", record |-> u.record, event |-> u.event, seq |-> u.seq,
                         prev |-> LinkOf(lifecycle)]
      BY <1>0, <1>3, <1>6, <2>2 DEF ChainEvent, LinkOf
    <3>2. u.record = NothingRecorded => u.event.strategy \in Strategies
      BY <2>2 DEF Conflicts, Strategies
    <3>3. \A e \in lifecycle : e.seq < u.seq
      BY <1>0, <1>3, <1>6 DEF StillTrue, ChainEvent
    <3>4. Strategies' = Strategies
      BY <1>1 DEF Strategies
    <3> QED BY <1>1, <1>2, <1>4, <3>1, <3>2, <3>3, <3>4 DEF StillTrue
  <2> QED BY <2>1, <2>2
<1> QED BY <1>5, <1>6

LEMMA SerialCommitted ==
  ASSUME SerialInv, NEW c \in Curators, CommitRecord(c) \/ CommitEvent(c) \/ LoseCurator(c)
  PROVE  HistoryInv' /\ Acyclic(parentage)' /\ StillTrue(curator[c])'
<1> DEFINE u == curator[c]
<1>1. /\ curator = [d \in Curators |-> curator[d]] /\ RecordInv /\ HistoryInv /\ Acyclic(parentage)
      /\ StillTrue(u) /\ CuratorTask(u)
  BY DEF SerialInv, RecordInv, CuratorsInv
<1>2. StillTrue(curator[c])'
  <2>1. curator'[c] = Waiting
    BY <1>1 DEF CommitRecord, CommitEvent, LoseCurator, CuratorIdle
  <2> QED BY <2>1 DEF StillTrue, Waiting
<1>3. CASE LoseCurator(c)
  <2>1. parentage' = parentage /\ strategies' = strategies /\ lifecycle' = lifecycle
    BY <1>3 DEF LoseCurator
  <2> QED BY <1>1, <1>2, <2>1, HistoryStands
<1>4. CASE CommitRecord(c)
  <2>1. u.record \in Records /\ NoLoop(u.record)
    BY <1>1, <1>4 DEF CommitRecord, CuratorTask, StillTrue, Waiting
  <2>2. lifecycle' = lifecycle
    BY <1>4 DEF CommitRecord
  <2>3. \/ parentage' = parentage /\ strategies' = strategies
        \/ /\ strategies' = strategies /\ StoreRecord(u.record) /\ ParentsKnown(u.record)
           /\ ~Funded(u.record)
    BY <1>1, <1>4, RecordCommitted
  <2>4. Acyclic(parentage')
    <3> HIDE DEF u
    <3> QED BY <1>1, <2>1, <2>3, AcyclicStored
  <2>5. strategies' = strategies
    BY <2>3
  <2> QED BY <1>1, <1>2, <2>2, <2>4, <2>5, HistoryStands
<1>5. CASE CommitEvent(c)
  <2>1. /\ RecordInv' /\ Carried(u.record, u.event) /\ ParentsKnown(u.record) /\ ~Funded(u.record)
    BY <1>1, <1>5, EventCommitted
  <2>2. PICK e : e = [seq |-> u.seq, prev |-> u.prev, id |-> u.event.id, strategy |-> u.event.strategy,
                      from |-> u.event.from, to |-> u.event.to]
    OBVIOUS
  <2>3. u.step = "commit" /\ StoreRecord(u.record) /\ lifecycle' = lifecycle \cup {e}
    BY <1>5, <2>2 DEF CommitEvent
  <2>4. /\ u.record \in Records => NoLoop(u.record)
        /\ u.record = NothingRecorded => Current(u.event) /\ u.event.strategy \in Strategies
        /\ \A o \in lifecycle : o.seq < u.seq
        /\ u.prev = LinkOf(lifecycle)
    BY <1>1, <2>3 DEF StillTrue
  <2>5. e.seq = u.seq /\ e.prev = u.prev /\ e.strategy = u.event.strategy /\ e.from = u.event.from
    BY <2>2
  <2> HIDE DEF u
  <2>6. /\ strategies \subseteq strategies' /\ \A p \in strategies' \ strategies : p[1] = e.strategy
        /\ e.strategy \in Strategies' /\ e.from = CurrentState(e.strategy)
    <3>1. CASE u.record \in Records /\ u.record.strategy # "none" /\ u.event = Genesis(u.record)
      <4>1. e.strategy = u.record.strategy /\ e.from = Unborn
        BY <2>5, <3>1 DEF Genesis
      <4>2. strategies' = strategies \cup {<<e.strategy, u.record.genome>>}
        BY <2>3, <3>1, <4>1 DEF StoreRecord
      <4>3. e.strategy \notin Strategies
        BY <2>1, <3>1, <4>1 DEF Funded, Strategies
      <4>4. EventsOf(e.strategy) = {}
        BY <1>1, <4>3 DEF HistoryInv, EventsOf
      <4>5. e.strategy \in Strategies'
        <5>1. <<e.strategy, u.record.genome>>[1] = e.strategy
          OBVIOUS
        <5> QED BY <4>2, <5>1 DEF Strategies
      <4> QED BY <4>1, <4>2, <4>4, <4>5 DEF CurrentState
    <3>2. CASE u.record = NothingRecorded
      <4>1. strategies' = strategies
        BY <2>3, <3>2 DEF StoreRecord, NothingRecorded
      <4>2. Strategies' = Strategies
        BY <4>1 DEF Strategies
      <4> QED BY <2>4, <2>5, <3>2, <4>1, <4>2 DEF Current
    <3> QED BY <2>1, <3>1, <3>2 DEF Carried
  <2>7. HistoryInv'
    BY <1>1, <2>1, <2>3, <2>4, <2>5, <2>6, EventAdded
  <2>8. Acyclic(parentage')
    <3>1. u.record \in Records \/ u.record = NothingRecorded
      BY <2>1 DEF Carried
    <3> QED BY <2>1, <2>3, <2>4, <3>1, AcyclicStored
  <2> QED BY <1>2, <2>7, <2>8
<1> QED BY <1>3, <1>4, <1>5

LEMMA SerialStarts == LineageInit => SerialInv
<1> SUFFICES ASSUME LineageInit PROVE SerialInv
  OBVIOUS
<1>1. RecordInv
  BY RecordStarts
<1>2. HistoryInv
  BY DEF LineageInit, HistoryInv, Strategies, Earned, CurrentState, EventsOf, Earning, Unborn
<1>3. Acyclic(parentage)
  BY DEF LineageInit, Acyclic
<1>4. \A c \in Curators : StillTrue(curator[c])
  BY DEF LineageInit, StillTrue, Waiting
<1> QED BY <1>1, <1>2, <1>3, <1>4 DEF SerialInv

LEMMA SerialStep == OneCurator /\ SerialInv /\ [LineageNext]_lineageVars => SerialInv'
<1> SUFFICES ASSUME OneCurator, SerialInv, [LineageNext]_lineageVars PROVE SerialInv'
  OBVIOUS
<1>1. RecordInv'
  BY RecordStep DEF SerialInv
<1>2. CASE UNCHANGED lineageVars
  <2>1. HistoryInv' /\ Acyclic(parentage')
    BY <1>2, HistoryStands DEF SerialInv, lineageVars
  <2>2. ASSUME NEW c \in Curators PROVE StillTrue(curator[c])'
    <3>1. StillTrue(curator[c]) /\ curator' = curator
      BY <1>2 DEF SerialInv, lineageVars
    <3>2. Strategies' = Strategies /\ lifecycle' = lifecycle
      BY <1>2 DEF lineageVars, Strategies
    <3>3. \A r : NoLoop(r)' = NoLoop(r)
      BY <1>2 DEF lineageVars, NoLoop, WouldCreateCycle
    <3>4. \A d : Current(d)' = Current(d)
      BY <1>2 DEF lineageVars, Current, CurrentState, EventsOf
    <3> QED BY <3>1, <3>2, <3>3, <3>4 DEF StillTrue
  <2> QED BY <1>1, <2>1, <2>2 DEF SerialInv
<1>3. CASE LineageNext
  <2>1. PICK c \in Curators :
          \/ BeginRecord(c) \/ BeginAppend(c) \/ CommitRecord(c) \/ NumberEvent(c) \/ ChainEvent(c)
          \/ CommitEvent(c) \/ LoseCurator(c)
    BY <1>3 DEF LineageNext
  <2>2. HistoryInv' /\ Acyclic(parentage)' /\ StillTrue(curator[c])'
    BY <2>1, SerialBegun, SerialNumbered, SerialCommitted
  <2>3. \A d \in Curators : d = c
    BY DEF OneCurator
  <2> QED BY <1>1, <2>2, <2>3 DEF SerialInv
<1> QED BY <1>2, <1>3

(* One strategy has one history that leaves each state it entered, its      *)
(* chain of events verifies and no genome descends from itself, as long as  *)
(* one curator is at work at a time (evolution/store reads, then appends).  *)
THEOREM SerialRecordKept ==
  ASSUME OneCurator
  PROVE  RecordSpec => []EvolutionRecordHolds
<1>1. SerialInv /\ [LineageNext]_lineageVars => SerialInv'
  BY SerialStep
<1>2. SerialInv => EvolutionRecordHolds
  BY HistoryGives DEF SerialInv
<1> QED BY <1>1, <1>2, SerialStarts, PTL DEF RecordSpec

-----------------------------------------------------------------------------
(* A declaration's numbers.                                                *)
LEMMA CpcvTyped ==
  ASSUME NEW p \in Protocols, p.kind = "cpcv"
  PROVE  /\ p.label \in Nat /\ p.lag \in Nat /\ p.lookback \in Nat /\ p.holding \in Nat
         /\ p.embargo \in Nat /\ p.length \in Nat /\ p.groups \in Nat /\ p.size \in Nat
<1>1. {p.label, p.lag, p.lookback, p.holding, p.embargo, p.length, p.groups, p.size} \subseteq Nat
  BY ProtocolAssumption
<1> QED BY <1>1

LEMMA ScheduleTyped ==
  ASSUME NEW p \in Protocols, p.kind = "walk_forward"
  PROVE  /\ p.label \in Nat /\ p.lag \in Nat /\ p.lookback \in Nat /\ p.holding \in Nat
         /\ p.length \in Nat /\ p.train \in Nat /\ p.test \in Nat /\ p.step \in Nat
         /\ p.anchored \in BOOLEAN
<1>1. {p.label, p.lag, p.lookback, p.holding, p.length, p.train, p.test, p.step} \subseteq Nat
  BY ProtocolAssumption
<1>2. p.anchored \in BOOLEAN
  BY ProtocolAssumption
<1> QED BY <1>1, <1>2

(* There are finitely many parts, and each is a set of numbers.            *)
LEMMA PartsFinite ==
  ASSUME NEW p \in Protocols
  PROVE  IsFiniteSet(Parts(p)) /\ \A part \in Parts(p) : part \subseteq Nat
<1>1. ASSUME NEW n \in Int, Parts(p) \subseteq SUBSET (0 .. n)
      PROVE  IsFiniteSet(Parts(p)) /\ \A part \in Parts(p) : part \subseteq Nat
  <2>1. IsFiniteSet(SUBSET (0 .. n))
    <3>1. IsFiniteSet(0 .. n)
      BY FS_Interval
    <3> QED BY <3>1, FS_SUBSET
  <2>2. IsFiniteSet(Parts(p))
    BY <1>1, <2>1, FS_Subset
  <2>3. \A part \in Parts(p) : part \subseteq Nat
    BY <1>1
  <2> QED BY <2>2, <2>3
<1>2. CASE p.kind = "cpcv"
  <2>1. p.groups - 1 \in Int
    BY <1>2, CpcvTyped
  <2>2. Parts(p) \subseteq SUBSET (0 .. p.groups - 1)
    BY <1>2 DEF Parts, Chosen
  <2> QED BY <1>1, <2>1, <2>2
<1>3. CASE p.kind = "walk_forward"
  <2>1. p.length \in Int
    BY <1>3, ScheduleTyped
  <2>2. Parts(p) \subseteq SUBSET (0 .. p.length)
    BY <1>3 DEF Parts, Folds
  <2> QED BY <1>1, <2>1, <2>2
<1>4. CASE p.kind = "perturbation"
  <2>1. 2 * p.parameters \in Int
    BY <1>4, ProtocolAssumption
  <2>2. Parts(p) = {{point} : point \in 1 .. 2 * p.parameters}
    BY <1>4 DEF Parts
  <2>3. Parts(p) \subseteq SUBSET (0 .. 2 * p.parameters)
    BY <2>1, <2>2
  <2> QED BY <1>1, <2>1, <2>3
<1>5. CASE p.kind \notin {"cpcv", "walk_forward", "perturbation"}
  <2>1. p.paths \in Int
    BY <1>5, ProtocolAssumption
  <2>2. Parts(p) = {{path} : path \in 1 .. p.paths}
    BY <1>5 DEF Parts
  <2>3. Parts(p) \subseteq SUBSET (0 .. p.paths)
    BY <2>1, <2>2
  <2> QED BY <1>1, <2>1, <2>3
<1> QED BY <1>2, <1>3, <1>4, <1>5

-----------------------------------------------------------------------------
(* The order of the parts: the first number two of them differ in is in    *)
(* the earlier one.  It is total, and it has a least element.              *)
Apart(c, d) == (c \ d) \cup (d \ c)
Leads(c, d) == Min(Apart(c, d)) \in c

LEMMA ApartLeast ==
  ASSUME NEW c \in SUBSET Nat, NEW d \in SUBSET Nat, c # d
  PROVE  /\ Min(Apart(c, d)) \in Apart(c, d) /\ Min(Apart(c, d)) \in Nat
         /\ \A y \in Apart(c, d) : Min(Apart(c, d)) <= y
<1>1. Apart(c, d) \in SUBSET Nat /\ Apart(c, d) # {}
  BY DEF Apart
<1>2. \E x \in Apart(c, d) : \A y \in Apart(c, d) : x <= y
  BY <1>1, LeastExists
<1>3. Min(Apart(c, d)) \in Apart(c, d) /\ \A y \in Apart(c, d) : Min(Apart(c, d)) <= y
  BY <1>2 DEF Min
<1> QED BY <1>1, <1>3

LEMMA LeadsTotal ==
  ASSUME NEW c \in SUBSET Nat, NEW d \in SUBSET Nat, c # d, ~Leads(c, d)
  PROVE  Leads(d, c)
<1>1. Apart(c, d) = Apart(d, c)
  BY DEF Apart
<1>2. Min(Apart(c, d)) \in Apart(c, d)
  BY ApartLeast
<1>3. Min(Apart(c, d)) \notin c
  BY DEF Leads
<1>4. Min(Apart(c, d)) \in d
  BY <1>2, <1>3 DEF Apart
<1> QED BY <1>1, <1>4 DEF Leads

LEMMA LeadsOneWay ==
  ASSUME NEW c \in SUBSET Nat, NEW d \in SUBSET Nat, c # d, Leads(c, d)
  PROVE  ~Leads(d, c)
<1>1. Apart(c, d) = Apart(d, c)
  BY DEF Apart
<1>2. Min(Apart(c, d)) \in Apart(c, d) /\ Min(Apart(c, d)) \in c
  BY ApartLeast DEF Leads
<1>3. Min(Apart(c, d)) \notin d
  BY <1>2 DEF Apart
<1> QED BY <1>1, <1>3 DEF Leads

LEMMA LeadsOn ==
  ASSUME NEW c \in SUBSET Nat, NEW d \in SUBSET Nat, NEW e \in SUBSET Nat,
         c # d, d # e, c # e, Leads(c, d), Leads(d, e)
  PROVE  Leads(c, e)
<1>1. PICK m \in Nat : /\ m = Min(Apart(c, d)) /\ m \in c /\ m \notin d
                       /\ \A y \in Apart(c, d) : m <= y
  <2>1. Min(Apart(c, d)) \in c /\ Min(Apart(c, d)) \in Apart(c, d)
    BY ApartLeast DEF Leads
  <2>2. Min(Apart(c, d)) \notin d
    BY <2>1 DEF Apart
  <2> QED BY <2>1, <2>2, ApartLeast
<1>2. PICK n \in Nat : /\ n = Min(Apart(d, e)) /\ n \in d /\ n \notin e
                       /\ \A y \in Apart(d, e) : n <= y
  <2>1. Min(Apart(d, e)) \in d /\ Min(Apart(d, e)) \in Apart(d, e)
    BY ApartLeast DEF Leads
  <2>2. Min(Apart(d, e)) \notin e
    BY <2>1 DEF Apart
  <2> QED BY <2>1, <2>2, ApartLeast
<1>3. PICK o \in Nat : /\ o = Min(Apart(c, e)) /\ o \in Apart(c, e)
                       /\ \A y \in Apart(c, e) : o <= y
  BY ApartLeast
<1>4. \A y \in Nat : y < m => (y \in c <=> y \in d)
  BY <1>1 DEF Apart
<1>5. \A y \in Nat : y < n => (y \in d <=> y \in e)
  BY <1>2 DEF Apart
<1>6. \A y \in Apart(c, e) : y \in Nat /\ (y >= m \/ y >= n)
  BY <1>4, <1>5 DEF Apart
<1>7. CASE m < n
  <2>1. m \notin e
    BY <1>1, <1>5, <1>7
  <2>2. m \in Apart(c, e)
    BY <1>1, <2>1 DEF Apart
  <2>3. o = m
    BY <1>3, <1>6, <1>7, <2>2
  <2> QED BY <1>1, <1>3, <2>3 DEF Leads
<1>8. CASE n < m
  <2>1. n \in c
    BY <1>2, <1>4, <1>8
  <2>2. n \in Apart(c, e)
    BY <1>2, <2>1 DEF Apart
  <2>3. o = n
    BY <1>3, <1>6, <1>8, <2>2
  <2> QED BY <1>3, <2>1, <2>3 DEF Leads
<1>9. m # n
  BY <1>1, <1>2
<1> QED BY <1>7, <1>8, <1>9

LEMMA EarliestExists ==
  ASSUME NEW parts, IsFiniteSet(parts), parts # {}, \A c \in parts : c \subseteq Nat
  PROVE  EarliestPart(parts) \in parts
<1> DEFINE Ahead(c) == {d \in parts : d # c /\ Leads(d, c)}
           Ranks == {Cardinality(Ahead(c)) : c \in parts}
<1>1. \A c \in parts : IsFiniteSet(Ahead(c)) /\ Cardinality(Ahead(c)) \in Nat
  <2> TAKE c \in parts
  <2>1. IsFiniteSet(Ahead(c))
    <3>1. Ahead(c) \in SUBSET parts
      OBVIOUS
    <3> HIDE DEF Ahead
    <3> QED BY <3>1, FS_Subset
  <2> HIDE DEF Ahead
  <2> QED BY <2>1, FS_CardinalityType
<1>2. PICK c \in parts : \A d \in parts : Cardinality(Ahead(c)) <= Cardinality(Ahead(d))
  <2> HIDE DEF Ahead
  <2>1. Ranks \in SUBSET Nat /\ Ranks # {}
    BY <1>1
  <2>2. PICK r \in Ranks : \A s \in Ranks : r <= s
    <3> HIDE DEF Ranks
    <3> QED BY <2>1, LeastExists
  <2>3. PICK c \in parts : r = Cardinality(Ahead(c))
    OBVIOUS
  <2>4. \A d \in parts : Cardinality(Ahead(d)) \in Ranks
    OBVIOUS
  <2> HIDE DEF Ranks
  <2> QED BY <2>2, <2>3, <2>4
<1>3. ASSUME NEW d \in parts \ {c}, ~Leads(c, d)
      PROVE  FALSE
  <2>1. c \in SUBSET Nat /\ d \in SUBSET Nat /\ c # d /\ d \in parts
    BY <1>3
  <2>2. Leads(d, c)
    BY <1>3, <2>1, LeadsTotal
  <2>3. ASSUME NEW e \in Ahead(d)
        PROVE  e \in Ahead(c)
    <3>1. e \in parts /\ e # d /\ Leads(e, d) /\ e \in SUBSET Nat
      OBVIOUS
    <3>2. e # c
      BY <1>3, <3>1
    <3>3. Leads(e, c)
      BY <2>1, <2>2, <3>1, <3>2, LeadsOn
    <3> QED BY <3>1, <3>2, <3>3
  <2>4. d \in Ahead(c) /\ d \notin Ahead(d)
    BY <2>1, <2>2
  <2> HIDE DEF Ahead
  <2>5. Ahead(d) \in SUBSET Ahead(c)
    BY <2>3
  <2>6. Ahead(d) # Ahead(c)
    BY <2>4
  <2>7. Cardinality(Ahead(d)) <= Cardinality(Ahead(c)) /\ Cardinality(Ahead(d)) # Cardinality(Ahead(c))
    BY <1>1, <2>5, <2>6, FS_Subset
  <2> QED BY <1>1, <1>2, <2>1, <2>7
<1>4. \A d \in parts \ {c} : Min((c \ d) \cup (d \ c)) \in c
  BY <1>3 DEF Leads, Apart
<1> QED BY <1>4 DEF EarliestPart

-----------------------------------------------------------------------------
(* The invariant of a run.                                                 *)
Finished == {"reported", "judged"}
ProtocolInv ==
  /\ ProtocolTyped
  /\ stage = "running" => Startable(protocol)
  /\ Accounted \subseteq paid /\ DOMAIN scores \cap failed = {}
  /\ stage \in Finished => paid = Parts(protocol) /\ Accounted = Parts(protocol)
  /\ spread # "none" => stage \in Finished
  /\ spread = "stated" /\ protocol.kind = "cpcv" => Cardinality(Included) >= 2

LEMMA NextPartOpen ==
  ASSUME ProtocolTyped, MayEvaluate
  PROVE  NextPart \in Parts(protocol) \ Accounted
<1>1. protocol \in Protocols /\ Accounted \subseteq Parts(protocol) /\ Accounted # Parts(protocol)
  BY DEF ProtocolTyped, Accounted, MayEvaluate
<1>2. IsFiniteSet(Parts(protocol)) /\ \A part \in Parts(protocol) : part \subseteq Nat
  BY <1>1, PartsFinite
<1> DEFINE left == Parts(protocol) \ Accounted
<1>3. IsFiniteSet(left) /\ left # {} /\ \A part \in left : part \subseteq Nat
  <2>1. left \in SUBSET Parts(protocol)
    OBVIOUS
  <2>2. IsFiniteSet(left)
    BY <1>2, <2>1, FS_Subset
  <2> QED BY <1>1, <1>2, <2>2
<1>4. EarliestPart(left) \in left
  <2> HIDE DEF left
  <2> QED BY <1>3, EarliestExists
<1> QED BY <1>4 DEF NextPart

LEMMA NextPartPaid ==
  ASSUME ProtocolTyped, MayEvaluate
  PROVE  NextPart \in paid
<1>1. NextPart \in Parts(protocol)
  BY NextPartOpen
<1>2. CASE Parallel
  BY <1>1, <1>2 DEF MayEvaluate
<1>3. CASE ~Parallel
  BY <1>3 DEF MayEvaluate
<1> QED BY <1>2, <1>3

LEMMA RunStarts == ProtocolInit => ProtocolInv
<1> SUFFICES ASSUME ProtocolInit PROVE ProtocolInv
  OBVIOUS
<1>1. protocol \in Protocols /\ stage = "declared" /\ paid = {} /\ DOMAIN scores = {} /\ failed = {} /\ spread = "none"
  BY DEF ProtocolInit
<1>2. Accounted = {}
  BY <1>1 DEF Accounted
<1> QED BY <1>1, <1>2 DEF ProtocolInv, ProtocolTyped, Finished

LEMMA RunSteps == ProtocolInv /\ [ProtocolNext]_protocolVars => ProtocolInv'
<1> SUFFICES ASSUME ProtocolInv, [ProtocolNext]_protocolVars PROVE ProtocolInv'
  OBVIOUS
<1>0. ProtocolTyped
  BY DEF ProtocolInv
<1>1. CASE Start
  <2>1. /\ stage = "declared" /\ stage' \in {"running", "refused"}
        /\ stage' = "running" => Startable(protocol)
        /\ UNCHANGED <<protocol, paid, baseline, scores, failed, spread, grading>>
    BY <1>1 DEF Start
  <2>2. spread = "none"
    BY <2>1 DEF ProtocolInv, ProtocolTyped, Finished
  <2> QED BY <1>0, <2>1, <2>2 DEF ProtocolInv, ProtocolTyped, Finished, Accounted, Included
<1>2. ASSUME NEW edge \in {0, 1}, EvaluateBaseline(edge)
      PROVE  ProtocolInv'
  <2>1. /\ stage = "running" /\ stage' \in {"running", "refused"}
        /\ UNCHANGED <<protocol, paid, scores, failed, spread, grading>>
    BY <1>2 DEF EvaluateBaseline
  <2>2. spread = "none"
    BY <2>1 DEF ProtocolInv, ProtocolTyped, Finished
  <2> QED BY <1>0, <2>1, <2>2 DEF ProtocolInv, ProtocolTyped, Finished, Accounted, Included
<1>3. ASSUME NEW succeeds \in BOOLEAN, Charge(succeeds)
      PROVE  ProtocolInv'
  <2>1. stage = "running" /\ spread = "none" /\ protocol \in Protocols /\ Startable(protocol)
    BY <1>3 DEF Charge, Ready, ProtocolInv, ProtocolTyped, Finished
  <2> DEFINE left == Parts(protocol) \ paid
             part == EarliestPart(left)
  <2>2. part \in Parts(protocol)
    <3>1. IsFiniteSet(Parts(protocol)) /\ \A c \in Parts(protocol) : c \subseteq Nat
      BY <2>1, PartsFinite
    <3>2. left \in SUBSET Parts(protocol) /\ left # {}
      BY <1>3 DEF Charge, ProtocolInv, ProtocolTyped
    <3>3. IsFiniteSet(left) /\ \A c \in left : c \subseteq Nat
      BY <3>1, <3>2, FS_Subset
    <3>4. EarliestPart(left) \in left
      <4> HIDE DEF left
      <4> QED BY <3>2, <3>3, EarliestExists
    <3> QED BY <3>4
  <2>3. /\ paid' = paid \/ paid' = paid \cup {part}
        /\ stage' \in {"running", "raised"}
        /\ UNCHANGED <<protocol, baseline, scores, failed, spread, grading>>
    BY <1>3, <2>1 DEF Charge
  <2> HIDE DEF part
  <2>4. paid' \subseteq Parts(protocol) /\ paid \subseteq paid'
    BY <2>2, <2>3 DEF ProtocolInv, ProtocolTyped
  <2> QED BY <1>0, <2>1, <2>3, <2>4 DEF ProtocolInv, ProtocolTyped, Finished, Accounted, Included
<1>4. ASSUME NEW trades \in {29, 30}, Evaluate(trades, 1)
      PROVE  ProtocolInv'
  <2>1. stage = "running" /\ spread = "none"
    BY <1>4 DEF Evaluate, MayEvaluate, Ready, ProtocolInv, ProtocolTyped, Finished
  <2>2. NextPart \in Parts(protocol) /\ NextPart \notin Accounted /\ NextPart \in paid
    BY <1>0, <1>4, NextPartOpen, NextPartPaid DEF Evaluate
  <2>3. /\ DOMAIN scores' = DOMAIN scores \cup {NextPart}
        /\ UNCHANGED <<protocol, stage, paid, baseline, failed, spread, grading>>
    BY <1>4 DEF Evaluate
  <2> QED BY <1>0, <2>1, <2>2, <2>3 DEF ProtocolInv, ProtocolTyped, Finished, Accounted
<1>5. CASE FailPart
  <2>1. stage = "running" /\ spread = "none"
    BY <1>5 DEF FailPart, MayEvaluate, Ready, ProtocolInv, ProtocolTyped, Finished
  <2>2. NextPart \in Parts(protocol) /\ NextPart \notin Accounted /\ NextPart \in paid
    BY <1>0, <1>5, NextPartOpen, NextPartPaid DEF FailPart
  <2>3. /\ failed' = failed \cup {NextPart}
        /\ UNCHANGED <<protocol, stage, paid, baseline, scores, spread, grading>>
    BY <1>5 DEF FailPart
  <2> QED BY <1>0, <2>1, <2>2, <2>3 DEF ProtocolInv, ProtocolTyped, Finished, Accounted
<1>6. CASE RaisePart
  <2>1. stage = "running" /\ spread = "none"
    BY <1>6 DEF RaisePart, MayEvaluate, Ready, ProtocolInv, ProtocolTyped, Finished
  <2>2. stage' = "raised" /\ UNCHANGED <<protocol, paid, baseline, scores, failed, spread, grading>>
    BY <1>6 DEF RaisePart
  <2> QED BY <1>0, <2>1, <2>2 DEF ProtocolInv, ProtocolTyped, Finished, Accounted
<1>7. CASE Report
  <2>1. /\ Accounted = Parts(protocol) /\ stage' = "reported"
        /\ spread' = IF Stateable THEN "stated" ELSE "withheld"
        /\ UNCHANGED <<protocol, paid, baseline, scores, failed, grading>>
    BY <1>7 DEF Report
  <2>2. paid = Parts(protocol)
    BY <2>1 DEF ProtocolInv, ProtocolTyped
  <2>3. Accounted' = Accounted /\ Included' = Included
    BY <2>1 DEF Accounted, Included
  <2>4. spread' = "stated" /\ protocol.kind = "cpcv" => Cardinality(Included) >= 2
    BY <2>1 DEF Stateable
  <2>5. spread' \in {"stated", "withheld"}
    BY <2>1
  <2> QED BY <1>0, <2>1, <2>2, <2>3, <2>4, <2>5 DEF ProtocolInv, ProtocolTyped, Finished
<1>8. ASSUME NEW splits \in Gradings, NEW clears \in BOOLEAN, Judge(splits, clears)
      PROVE  ProtocolInv'
  <2>1. /\ stage = "reported" /\ stage' = "judged"
        /\ UNCHANGED <<protocol, paid, baseline, scores, failed, spread>>
    BY <1>8 DEF Judge
  <2>2. Accounted' = Accounted /\ Included' = Included
    BY <2>1 DEF Accounted, Included
  <2> QED BY <1>0, <2>1, <2>2 DEF ProtocolInv, ProtocolTyped, Finished
<1>9. CASE UNCHANGED protocolVars
  <2>1. UNCHANGED <<protocol, stage, paid, scores, failed, spread>>
    BY <1>9 DEF protocolVars
  <2>2. Accounted' = Accounted /\ Included' = Included
    BY <2>1 DEF Accounted, Included
  <2> QED BY <1>0, <2>1, <2>2 DEF ProtocolInv, ProtocolTyped, Finished
<1>10. CASE ProtocolDone
  BY <1>9, <1>10 DEF ProtocolDone
<1> QED BY <1>1, <1>2, <1>3, <1>4, <1>5, <1>6, <1>7, <1>8, <1>9, <1>10 DEF ProtocolNext

-----------------------------------------------------------------------------
(* What the gate calls evidence.                                           *)
Beats(split) ==
  LET w == Winner(split.in)
  IN 2 * Cardinality({d \in DOMAIN split.out \ {w} : split.out[d] <= split.out[w]})
       >= Cardinality(DOMAIN split.out)

LEMMA SequenceDomain ==
  ASSUME NEW S, NEW s \in Seq(S)
  PROVE  IsFiniteSet(DOMAIN s) /\ Cardinality(DOMAIN s) \in Nat
<1>1. DOMAIN s = 1 .. Len(s) /\ Len(s) \in Nat
  OBVIOUS
<1>2. IsFiniteSet(1 .. Len(s))
  BY <1>1, FS_Interval
<1> QED BY <1>1, <1>2, FS_CardinalityType

LEMMA SequenceElement ==
  ASSUME NEW S, NEW s \in Seq(S), NEW n \in DOMAIN s
  PROVE  s[n] \in S
  OBVIOUS

(* There is a best configuration.                                          *)
LEMMA WinnerExists ==
  ASSUME NEW sharpes \in Seq(Int), DOMAIN sharpes # {}
  PROVE  Winner(sharpes) \in DOMAIN sharpes
<1> DEFINE D == DOMAIN sharpes
           Better(d, c) == sharpes[c] < sharpes[d] \/ (sharpes[c] = sharpes[d] /\ d < c)
           Rivals(c) == {d \in D : Better(d, c)}
           Ranks == {Cardinality(Rivals(c)) : c \in D}
<1>1. IsFiniteSet(D) /\ D # {}
  BY SequenceDomain
<1>2. \A c \in D : c \in Nat /\ sharpes[c] \in Int
  BY SequenceElement
<1>3. \A c \in D : IsFiniteSet(Rivals(c)) /\ Cardinality(Rivals(c)) \in Nat
  <2> TAKE c \in D
  <2>1. Rivals(c) \in SUBSET D
    OBVIOUS
  <2> HIDE DEF Rivals, D
  <2>2. IsFiniteSet(Rivals(c))
    BY <1>1, <2>1, FS_Subset
  <2> QED BY <2>2, FS_CardinalityType
<1>4. PICK c \in D : \A d \in D : Cardinality(Rivals(c)) <= Cardinality(Rivals(d))
  <2> HIDE DEF Rivals, D
  <2>1. Ranks \in SUBSET Nat /\ Ranks # {}
    BY <1>1, <1>3
  <2>2. PICK r \in Ranks : \A s \in Ranks : r <= s
    <3> HIDE DEF Ranks
    <3> QED BY <2>1, LeastExists
  <2>3. PICK c \in D : r = Cardinality(Rivals(c))
    OBVIOUS
  <2>4. \A d \in D : Cardinality(Rivals(d)) \in Ranks
    OBVIOUS
  <2> HIDE DEF Ranks
  <2> QED BY <2>2, <2>3, <2>4
<1>5. ASSUME NEW d \in D, d # c, ~Better(c, d)
      PROVE  FALSE
  <2>1. c \in Nat /\ d \in Nat /\ sharpes[c] \in Int /\ sharpes[d] \in Int
    BY <1>2
  <2>2. Better(d, c) /\ ~Better(d, d)
    BY <1>5, <2>1
  <2>3. ASSUME NEW e \in Rivals(d)
        PROVE  e \in Rivals(c)
    <3>1. e \in D /\ e \in Nat /\ sharpes[e] \in Int /\ Better(e, d)
      BY <1>2
    <3>2. Better(e, c)
      BY <2>1, <2>2, <3>1
    <3> QED BY <3>1, <3>2
  <2>4. d \in Rivals(c) /\ d \notin Rivals(d)
    BY <2>2
  <2> HIDE DEF Rivals
  <2>5. Rivals(d) \in SUBSET Rivals(c) /\ Rivals(d) # Rivals(c)
    BY <2>3, <2>4
  <2>6. Cardinality(Rivals(d)) <= Cardinality(Rivals(c)) /\ Cardinality(Rivals(d)) # Cardinality(Rivals(c))
    BY <1>3, <2>5, FS_Subset
  <2> QED BY <1>3, <1>4, <2>6
<1>6. \A d \in DOMAIN sharpes \ {c} : sharpes[d] < sharpes[c] \/ (sharpes[d] = sharpes[c] /\ c < d)
  BY <1>5
<1> QED BY <1>6 DEF Winner

LEMMA WinnerBeats ==
  ASSUME NEW split \in [in : Seq(Int), out : Seq(Int)], ~Underperforms(split),
         DOMAIN split.in = DOMAIN split.out, ~(Cardinality(DOMAIN split.in) < 2)
  PROVE  Beats(split)
<1> DEFINE w == Winner(split.in)
           out == split.out
           below == {d \in DOMAIN out : out[d] < out[w] \/ (out[d] = out[w] /\ d < w)}
           beaten == {d \in DOMAIN out \ {w} : out[d] <= out[w]}
<1>1. out \in Seq(Int) /\ DOMAIN out \subseteq Nat /\ \A d \in DOMAIN out : out[d] \in Int
  OBVIOUS
<1>2. IsFiniteSet(DOMAIN out) /\ Cardinality(DOMAIN out) \in Nat
  BY <1>1, SequenceDomain
<1>3. 2 * RankOf(out, w) > Cardinality(DOMAIN out) + 1
  <2>1. RankOf(out, w) = 1 + Cardinality(below)
    BY DEF RankOf
  <2>2. IsFiniteSet(below)
    BY <1>2, FS_Subset
  <2>3. Cardinality(below) \in Nat
    BY <2>2, FS_CardinalityType
  <2>4. ~(2 * RankOf(out, w) <= Cardinality(DOMAIN out) + 1)
    BY DEF Underperforms
  <2> HIDE DEF out, w, below
  <2> QED BY <1>2, <2>1, <2>3, <2>4
<1>4. below \subseteq beaten
  <2> SUFFICES ASSUME NEW d \in below PROVE d \in beaten
    OBVIOUS
  <2>1. d \in DOMAIN out /\ (out[d] < out[w] \/ (out[d] = out[w] /\ d < w))
    OBVIOUS
  <2>2. d \in Nat /\ out[d] \in Int
    BY <1>1, <2>1
  <2>3. d # w
    <3> HIDE DEF w, out
    <3> QED BY <2>1, <2>2
  <2>4. out[d] <= out[w]
    <3>1. w \in DOMAIN out
      <4>1. split.in \in Seq(Int)
        OBVIOUS
      <4>2. DOMAIN split.in # {}
        BY FS_EmptySet
      <4> QED BY <4>1, <4>2, WinnerExists
    <3>2. out[w] \in Int
      BY <1>1, <3>1
    <3> HIDE DEF w, out
    <3> QED BY <2>1, <2>2, <3>2
  <2> QED BY <2>1, <2>3, <2>4
<1>5. Cardinality(below) <= Cardinality(beaten) /\ Cardinality(below) \in Nat /\ Cardinality(beaten) \in Nat
  <2>1. beaten \in SUBSET DOMAIN out
    OBVIOUS
  <2> HIDE DEF out, w, below, beaten
  <2>2. IsFiniteSet(beaten) /\ IsFiniteSet(below)
    BY <1>2, <1>4, <2>1, FS_Subset
  <2> QED BY <1>4, <2>2, FS_Subset, FS_CardinalityType
<1>6. RankOf(out, w) = 1 + Cardinality(below)
  BY DEF RankOf
<1>7. 2 * Cardinality(beaten) >= Cardinality(DOMAIN out)
  <2> HIDE DEF out, w, below, beaten
  <2> QED BY <1>2, <1>3, <1>5, <1>6
<1> QED BY <1>7 DEF Beats

LEMMA EvidenceBeats ==
  ASSUME NEW splits \in Gradings, NEW clears \in BOOLEAN, Assess(splits, clears) = "evidence"
  PROVE  10 * Cardinality({n \in DOMAIN splits : Beats(splits[n])}) >= 7 * Cardinality(DOMAIN splits)
<1> DEFINE D == DOMAIN splits
           lost == {n \in D : Underperforms(splits[n])}
           won == {n \in D : Beats(splits[n])}
<1>1. splits \in Seq([in : Seq(Int), out : Seq(Int)])
  BY ProtocolAssumption
<1>2. IsFiniteSet(D) /\ Cardinality(D) \in Nat
  BY <1>1, SequenceDomain
<1>3. \A n \in D : splits[n] \in [in : Seq(Int), out : Seq(Int)]
  BY <1>1, SequenceElement
<1>4. ~(10 * Cardinality(lost) > 3 * Cardinality(D))
  BY DEF Assess
<1>5. D \ lost \subseteq won
  <2> SUFFICES ASSUME NEW n \in D, ~Underperforms(splits[n]) PROVE Beats(splits[n])
    OBVIOUS
  <2>1. ~(Cardinality(DOMAIN splits[n].in) < 2) /\ DOMAIN splits[n].in = DOMAIN splits[n].out
    BY DEF Assess
  <2> QED BY <1>3, <2>1, WinnerBeats
<1>6. /\ Cardinality(D \ lost) = Cardinality(D) - Cardinality(lost)
      /\ Cardinality(lost) \in Nat /\ Cardinality(won) \in Nat
      /\ Cardinality(D \ lost) <= Cardinality(won)
  <2>1. lost \in SUBSET D /\ won \in SUBSET D
    OBVIOUS
  <2> HIDE DEF D, lost, won
  <2>2. IsFiniteSet(lost) /\ IsFiniteSet(won)
    BY <1>2, <2>1, FS_Subset
  <2>3. D \cap lost = lost
    BY <2>1
  <2>4. Cardinality(D \ lost) = Cardinality(D) - Cardinality(lost)
    BY <1>2, <2>3, FS_Difference
  <2>5. Cardinality(D \ lost) <= Cardinality(won)
    BY <1>5, <2>2, FS_Subset
  <2> QED BY <2>2, <2>4, <2>5, FS_CardinalityType
<1>7. 10 * Cardinality(won) >= 7 * Cardinality(D)
  <2> HIDE DEF D, lost, won
  <2> QED BY <1>2, <1>4, <1>6
<1> QED BY <1>7

GradedOnly ==
  grading # <<>> =>
    \E splits \in Gradings, clears \in BOOLEAN : grading = <<splits, Assess(splits, clears)>>

LEMMA GradedHolds == GradedOnly => NoiseIsNotEvidence
<1> SUFFICES ASSUME GradedOnly, grading # <<>>, grading[2] = "evidence" PROVE NoiseIsNotEvidence
  BY DEF NoiseIsNotEvidence
<1>1. PICK splits \in Gradings, clears \in BOOLEAN : grading = <<splits, Assess(splits, clears)>>
  BY DEF GradedOnly
<1>2. grading[1] = splits /\ Assess(splits, clears) = "evidence"
  BY <1>1
<1>3. 10 * Cardinality({n \in DOMAIN splits : Beats(splits[n])}) >= 7 * Cardinality(DOMAIN splits)
  BY <1>2, EvidenceBeats
<1> QED BY <1>2, <1>3 DEF NoiseIsNotEvidence, Beats

LEMMA GradedStarts == ProtocolInit => GradedOnly
  BY DEF ProtocolInit, GradedOnly
LEMMA GradedSteps == GradedOnly /\ [ProtocolNext]_protocolVars => GradedOnly'
<1> SUFFICES ASSUME GradedOnly, [ProtocolNext]_protocolVars PROVE GradedOnly'
  OBVIOUS
<1>1. CASE UNCHANGED grading
  BY <1>1 DEF GradedOnly
<1>2. ASSUME NEW splits \in Gradings, NEW clears \in BOOLEAN, Judge(splits, clears)
      PROVE  GradedOnly'
  BY <1>2 DEF Judge, GradedOnly
<1> QED BY <1>1, <1>2 DEF ProtocolNext, Start, EvaluateBaseline, Charge, Evaluate, FailPart, RaisePart, Report,
                          ProtocolDone, protocolVars

-----------------------------------------------------------------------------
(* The combinatorial partition: every group has a tick, and every tick is  *)
(* in one group.                                                           *)
LEMMA DivIs ==
  ASSUME NEW a \in Nat, NEW b \in Nat \ {0}
  PROVE  /\ a \div b \in Nat /\ (a \div b) * b <= a /\ a < (a \div b) * b + b
  OBVIOUS

LEMMA OneQuotient ==
  ASSUME NEW b \in Nat \ {0}, NEW q \in Int, NEW r \in Int, q * b < r * b + b
  PROVE  q <= r
<1> SUFFICES ASSUME q >= r + 1 PROVE FALSE
  OBVIOUS
<1>1. PICK d \in Nat : q = r + 1 + d
  <2>1. q - r - 1 \in Nat
    OBVIOUS
  <2> QED BY <2>1
<1>2. q * b = r * b + b + d * b
  BY <1>1
<1>3. d * b >= 0 /\ r * b \in Int /\ d * b \in Int
  OBVIOUS
<1> QED BY <1>2, <1>3

LEMMA BoundaryIs ==
  ASSUME NEW p \in Protocols, p.kind = "cpcv", PartitionAccepted(p), NEW g \in Nat
  PROVE  /\ Boundary(p, g) \in Nat
         /\ Boundary(p, g) * p.groups <= p.length * g
         /\ p.length * g < Boundary(p, g) * p.groups + p.groups
<1>1. p.length * g \in Nat /\ p.groups \in Nat \ {0}
  BY CpcvTyped DEF PartitionAccepted
<1>2. PICK a \in Nat, b \in Nat \ {0} : a = p.length * g /\ b = p.groups
  BY <1>1
<1> QED BY <1>2, DivIs DEF Boundary

LEMMA BoundaryGrows ==
  ASSUME NEW p \in Protocols, p.kind = "cpcv", PartitionAccepted(p), NEW g \in Nat
  PROVE  Boundary(p, g) + 1 <= Boundary(p, g + 1)
<1>1. p.length \in Nat /\ p.groups \in Nat \ {0} /\ p.length >= p.groups
  BY CpcvTyped DEF PartitionAccepted
<1>2. PICK l \in Nat, n \in Nat \ {0} : l = p.length /\ n = p.groups /\ l >= n
  BY <1>1
<1>3. PICK s \in Nat, t \in Nat : /\ s = Boundary(p, g) /\ t = Boundary(p, g + 1)
                                  /\ s * n <= l * g /\ l * (g + 1) < t * n + n
  BY <1>2, BoundaryIs, SMTT(30)
<1>4. l * (g + 1) = l * g + l /\ l * g \in Nat
  BY <1>2
<1>5. (s + 1) * n = s * n + n /\ s * n \in Nat /\ t * n \in Nat
  BY <1>2, <1>3
<1>6. (s + 1) * n < t * n + n
  BY <1>2, <1>3, <1>4, <1>5
<1>7. s + 1 <= t
  BY <1>6, OneQuotient
<1> QED BY <1>3, <1>7

LEMMA BoundaryEnds ==
  ASSUME NEW p \in Protocols, p.kind = "cpcv", PartitionAccepted(p)
  PROVE  Boundary(p, 0) = 0 /\ Boundary(p, p.groups) = p.length
<1>1. PICK l \in Nat, n \in Nat \ {0} : l = p.length /\ n = p.groups
  BY CpcvTyped DEF PartitionAccepted
<1>2. Boundary(p, 0) = 0
  <2>1. PICK s \in Nat : s = Boundary(p, 0) /\ s * n <= l * 0
    BY <1>1, BoundaryIs
  <2>2. s * n < 0 * n + n
    BY <1>1, <2>1
  <2>3. s <= 0
    BY <2>2, OneQuotient
  <2> QED BY <2>1, <2>3
<1>3. Boundary(p, p.groups) = p.length
  <2>1. PICK s \in Nat : s = Boundary(p, n) /\ s * n <= l * n /\ l * n < s * n + n
    BY <1>1, BoundaryIs
  <2>2. l <= s
    BY <2>1, OneQuotient
  <2>3. s * n < l * n + n
    BY <1>1, <2>1
  <2>4. s <= l
    BY <2>3, OneQuotient
  <2> QED BY <1>1, <2>1, <2>2, <2>4
<1> QED BY <1>2, <1>3

-----------------------------------------------------------------------------
(* Nothing leaks.                                                          *)
LeaksNothing(p) ==
  \A part \in Parts(p) :
    LET samples == SamplesOf(p, part)
    IN /\ samples.trains # {} /\ samples.tests # {}
       /\ \A s \in samples.trains, u \in samples.tests : s + Purge(p) < u \/ u < s - p.lookback

LEMMA ChosenIs ==
  ASSUME NEW p \in Protocols, p.kind = "cpcv", PartitionAccepted(p), NEW part \in Chosen(p)
  PROVE  part # {} /\ part \subseteq 0 .. p.groups - 1
<1>1. Cardinality(part) = p.size /\ p.size \in 1 .. p.groups - 1 /\ p.groups \in Nat
  BY CpcvTyped DEF Chosen, PartitionAccepted
<1>2. Cardinality(part) \in Int /\ Cardinality(part) > 0
  BY <1>1
<1>3. part # {}
  BY <1>2, FS_EmptySet
<1> QED BY <1>3 DEF Chosen

LEMMA SplitsLeakNothing ==
  ASSUME NEW p \in Protocols, p.kind = "cpcv", Startable(p)
  PROVE  LeaksNothing(p)
<1>1. PartitionAccepted(p) /\ \A part \in Chosen(p) : SplitOf(p, part).trains # {}
  BY DEF Startable
<1> SUFFICES ASSUME NEW part \in Chosen(p)
             PROVE  LET samples == SplitOf(p, part)
                    IN /\ samples.trains # {} /\ samples.tests # {}
                       /\ \A s \in samples.trains, u \in samples.tests :
                            s + Purge(p) < u \/ u < s - p.lookback
  BY DEF LeaksNothing, Parts, SamplesOf
<1> DEFINE tests == UNION {GroupTicks(p, group) : group \in part}
<1>2. SplitOf(p, part) = [tests |-> tests, trains |-> Purged(p, tests)]
  BY DEF SplitOf
<1>3. part # {} /\ part \subseteq 0 .. p.groups - 1 /\ p.groups \in Nat
  BY <1>1, ChosenIs, CpcvTyped
<1>4. tests # {}
  <2>1. PICK g \in part : g \in Nat
    <3>1. PICK g : g \in part
      BY <1>3
    <3>2. g \in 0 .. p.groups - 1
      BY <1>3, <3>1
    <3>3. g \in Nat
      BY <1>3, <3>2
    <3> QED BY <3>1, <3>3
  <2>2. PICK s \in Nat, t \in Nat : s = Boundary(p, g) /\ t = Boundary(p, g + 1) /\ s + 1 <= t
    BY <1>1, <2>1, BoundaryIs, BoundaryGrows
  <2>3. s \in GroupTicks(p, g)
    BY <2>2 DEF GroupTicks
  <2> QED BY <2>1, <2>3
<1>5. tests \subseteq Int
  <2>1. ASSUME NEW g \in part PROVE GroupTicks(p, g) \subseteq Int
    <3>1. g \in Nat /\ g + 1 \in Nat
      BY <1>3
    <3>2. Boundary(p, g) \in Nat /\ Boundary(p, g + 1) \in Nat
      BY <1>1, <3>1, BoundaryIs
    <3> QED BY <3>2 DEF GroupTicks
  <2> QED BY <2>1
<1>6. ASSUME NEW s \in Purged(p, tests), NEW u \in tests
      PROVE  s + Purge(p) < u \/ u < s - p.lookback
  <2> HIDE DEF tests
  <2>1. s \in Int /\ u \in Int
    BY <1>5, CpcvTyped DEF Purged
  <2>2. s < u - Purge(p) \/ u + p.embargo < s
    BY DEF Purged
  <2>3. p.embargo >= p.lookback + p.holding
    BY <1>1 DEF PartitionAccepted, EmbargoFloor
  <2>4. /\ p.embargo \in Nat /\ p.lookback \in Nat /\ p.holding \in Nat /\ Purge(p) \in Nat
    BY CpcvTyped DEF Purge
  <2> QED BY <2>1, <2>2, <2>3, <2>4
<1>7. SplitOf(p, part).tests = tests /\ SplitOf(p, part).trains = Purged(p, tests)
  BY <1>2
<1> HIDE DEF tests
<1> QED BY <1>1, <1>4, <1>6, <1>7

LEMMA MaxOfOne ==
  ASSUME NEW n \in Int
  PROVE  Max({n}) = n
<1>1. \E x \in {n} : \A y \in {n} : x >= y
  OBVIOUS
<1> QED BY <1>1 DEF Max

LEMMA MaxOfPair ==
  ASSUME NEW m \in Int, NEW n \in Int
  PROVE  Max({m, n}) \in {m, n} /\ Max({m, n}) >= m /\ Max({m, n}) >= n
<1>1. \E x \in {m, n} : \A y \in {m, n} : x >= y
  OBVIOUS
<1>2. Max({m, n}) \in {m, n} /\ \A y \in {m, n} : Max({m, n}) >= y
  BY <1>1 DEF Max
<1> QED BY <1>2

LEMMA GapIs ==
  ASSUME NEW p \in Protocols, p.kind = "walk_forward"
  PROVE  Purge(p) \in Nat /\ FoldGap(p) \in Nat /\ FoldGap(p) >= Purge(p)
<1>1. Purge(p) \in Nat /\ EmbargoFloor(p) \in Nat
  BY ScheduleTyped DEF Purge, EmbargoFloor
<1>2. PICK m \in Nat : m = Max({EmbargoFloor(p), Purge(p)})
  <2>1. PICK a \in Nat, b \in Nat : a = EmbargoFloor(p) /\ b = Purge(p)
    BY <1>1
  <2>2. Max({a, b}) \in Nat
    <3> HIDE <2>1
    <3> QED BY MaxOfPair
  <2> QED BY <2>1, <2>2
<1>3. FoldGap(p) = Purge(p) + m
  BY <1>2 DEF FoldGap
<1> QED BY <1>1, <1>2, <1>3

LEMMA FoldIs ==
  ASSUME NEW p \in Protocols, p.kind = "walk_forward", Startable(p), NEW f \in Nat
  PROVE  LET from == p.train + FoldGap(p) + f * p.step
         IN /\ from \in Nat /\ FoldStart(p, f) = from
            /\ FoldOf(p, {f}).tests = from .. from + p.test - 1
            /\ FoldOf(p, {f}).trains = (IF p.anchored THEN 0 ELSE from - FoldGap(p) - p.train) .. from - FoldGap(p) - 1
<1>1. p.train \in Nat /\ FoldGap(p) \in Nat /\ p.step \in Nat /\ p.test \in Nat
  BY ScheduleTyped, GapIs
<1>2. f * p.step \in Nat
  BY <1>1
<1>3. Max({f}) = f
  BY MaxOfOne
<1> QED BY <1>1, <1>2, <1>3 DEF FoldStart, FoldOf

LEMMA FoldsLeakNothing ==
  ASSUME NEW p \in Protocols, p.kind = "walk_forward", Startable(p)
  PROVE  LeaksNothing(p)
<1>1. p.train > 0 /\ p.test > 0
  BY DEF Startable, ScheduleAccepted
<1> SUFFICES ASSUME NEW part \in Folds(p)
             PROVE  LET samples == FoldOf(p, part)
                    IN /\ samples.trains # {} /\ samples.tests # {}
                       /\ \A s \in samples.trains, u \in samples.tests :
                            s + Purge(p) < u \/ u < s - p.lookback
  BY DEF LeaksNothing, Parts, SamplesOf
<1>2. PICK f \in Nat : part = {f}
  BY ScheduleTyped DEF Folds
<1>3. PICK x \in Nat : x = f * p.step
  BY ScheduleTyped
<1>4. PICK r \in Nat, w \in Nat, g \in Nat, q \in Nat :
        r = p.train /\ w = p.test /\ g = FoldGap(p) /\ q = Purge(p) /\ g >= q
  BY ScheduleTyped, GapIs
<1>5. PICK b \in Int, e \in Int, from \in Int :
        /\ FoldOf(p, part).tests = from .. from + w - 1 /\ FoldOf(p, part).trains = b .. e
        /\ b <= e /\ e = from - g - 1
  <2>1. PICK from \in Int : from = r + g + x
    OBVIOUS
  <2>2. /\ FoldOf(p, part).tests = from .. from + w - 1
        /\ FoldOf(p, part).trains = (IF p.anchored THEN 0 ELSE from - g - r) .. from - g - 1
    BY <1>2, <1>3, <1>4, <2>1, FoldIs
  <2>3. PICK b \in Int : b = IF p.anchored THEN 0 ELSE from - g - r
    BY <2>1, <1>4
  <2>4. b <= from - g - 1
    BY <1>1, <1>4, <2>1, <2>3
  <2>5. from - g - 1 \in Int
    BY <1>4, <2>1
  <2> QED BY <2>2, <2>3, <2>4, <2>5
<1>6. from \in FoldOf(p, part).tests /\ b \in FoldOf(p, part).trains
  BY <1>1, <1>4, <1>5
<1>7. ASSUME NEW s \in FoldOf(p, part).trains, NEW u \in FoldOf(p, part).tests
      PROVE  s + q < u
  BY <1>4, <1>5
<1> QED BY <1>4, <1>6, <1>7

LEMMA StartableLeaksNothing ==
  ASSUME NEW p \in Protocols, Windowed(p), Startable(p)
  PROVE  LeaksNothing(p)
  BY SplitsLeakNothing, FoldsLeakNothing DEF Windowed

LEMMA MinIs ==
  ASSUME NEW S \in SUBSET Int, NEW m \in S, \A x \in S : m <= x
  PROVE  Min(S) = m
<1>1. \E x \in S : \A y \in S : x <= y
  OBVIOUS
<1>2. Min(S) \in S /\ \A y \in S : Min(S) <= y
  BY <1>1 DEF Min
<1>3. Min(S) >= m /\ Min(S) <= m /\ Min(S) \in Int /\ m \in Int
  BY <1>2
<1> HIDE DEF Min
<1> QED BY <1>3

-----------------------------------------------------------------------------
(* Counting the pairs of two finite sets.                                  *)
Mates(R, U, x) == {y \in U : <<x, y>> \in R}
EachHas(R, S, U, c) ==
  /\ R \in SUBSET (S \X U)
  /\ \A x \in S : IsFiniteSet(Mates(R, U, x)) /\ Cardinality(Mates(R, U, x)) = c
Turned(R, S, U, Q) ==
  /\ R \in SUBSET (S \X U) /\ Q \in SUBSET (U \X S)
  /\ \A x \in S, y \in U : <<x, y>> \in R <=> <<y, x>> \in Q

LEMMA FirstNumbers ==
  ASSUME NEW n \in Nat
  PROVE  IsFiniteSet(0 .. n - 1) /\ Cardinality(0 .. n - 1) = n
<1>1. PICK m \in Int : m = n - 1
  OBVIOUS
<1>2. 0 \in Int
  OBVIOUS
<1>3. IsFiniteSet(0 .. m) /\ Cardinality(0 .. m) = IF 0 > m THEN 0 ELSE m - 0 + 1
  BY <1>2, FS_Interval
<1> QED BY <1>1, <1>3

LEMMA PairsCount ==
  ASSUME NEW S, IsFiniteSet(S), NEW U, NEW c \in Nat, NEW R, EachHas(R, S, U, c)
  PROVE  IsFiniteSet(R) /\ Cardinality(R) = Cardinality(S) * c
<1>0. /\ R \in SUBSET (S \X U)
      /\ \A x \in S : IsFiniteSet(Mates(R, U, x)) /\ Cardinality(Mates(R, U, x)) = c
  BY DEF EachHas
<1> DEFINE Fiber(x) == Mates(R, U, x)
           b == [x \in S |-> CHOOSE f : f \in Bijection(1 .. c, Fiber(x))]
           G == [z \in S \X (1 .. c) |-> <<z[1], b[z[1]][z[2]]>>]
<1>1. \A x \in S : b[x] \in Bijection(1 .. c, Fiber(x))
  <2> TAKE x \in S
  <2>1. IsFiniteSet(Fiber(x)) /\ Cardinality(Fiber(x)) = c
    BY <1>0
  <2>2. ExistsBijection(1 .. c, Fiber(x))
    <3> HIDE DEF Fiber
    <3> QED BY <2>1, FS_CardinalityType
  <2>3. \E f : f \in Bijection(1 .. c, Fiber(x))
    BY <2>2 DEF ExistsBijection
  <2> HIDE DEF Fiber
  <2> QED BY <2>3
<1>2. \A x \in S : /\ \A i \in 1 .. c : b[x][i] \in Fiber(x)
                   /\ \A i, j \in 1 .. c : b[x][i] = b[x][j] => i = j
                   /\ \A y \in Fiber(x) : \E i \in 1 .. c : b[x][i] = y
  <2> HIDE DEF b, Fiber
  <2> TAKE x \in S
  <2>1. b[x] \in Bijection(1 .. c, Fiber(x))
    BY <1>1
  <2>2. b[x] \in [1 .. c -> Fiber(x)] /\ DOMAIN b[x] = 1 .. c
    BY <2>1 DEF Bijection, Injection
  <2> QED BY <2>1, <2>2 DEF Bijection, Injection, Surjection, IsInjective
<1>3. \A x \in S, y \in U : y \in Fiber(x) <=> <<x, y>> \in R
  BY DEF Mates
<1>4. \A x \in S : Fiber(x) \subseteq U
  BY DEF Mates
<1> HIDE DEF b, Fiber
<1>5. G \in [S \X (1 .. c) -> R]
  <2> SUFFICES ASSUME NEW z \in S \X (1 .. c) PROVE <<z[1], b[z[1]][z[2]]>> \in R
    OBVIOUS
  <2>1. z[1] \in S /\ z[2] \in 1 .. c
    OBVIOUS
  <2> QED BY <1>2, <1>3, <1>4, <2>1
<1>6. G \in Injection(S \X (1 .. c), R)
  <2> SUFFICES ASSUME NEW w \in S \X (1 .. c), NEW z \in S \X (1 .. c), G[w] = G[z] PROVE w = z
    BY <1>5 DEF Injection, IsInjective
  <2>1. w[1] = z[1] /\ b[w[1]][w[2]] = b[z[1]][z[2]]
    OBVIOUS
  <2>2. w[1] \in S /\ w[2] \in 1 .. c /\ z[2] \in 1 .. c
    OBVIOUS
  <2>3. w[2] = z[2]
    BY <1>2, <2>1, <2>2
  <2> QED BY <2>1, <2>3
<1>7. G \in Surjection(S \X (1 .. c), R)
  <2> SUFFICES ASSUME NEW r \in R PROVE \E z \in S \X (1 .. c) : G[z] = r
    BY <1>5 DEF Surjection
  <2>1. PICK x \in S, y \in U : r = <<x, y>>
    BY <1>0
  <2>2. PICK i \in 1 .. c : b[x][i] = y
    BY <1>2, <1>3, <2>1
  <2>3. <<x, i>> \in S \X (1 .. c) /\ G[<<x, i>>] = <<x, y>>
    BY <2>2
  <2> QED BY <2>1, <2>3
<1>8. ExistsBijection(S \X (1 .. c), R)
  <2> HIDE DEF G
  <2> QED BY <1>6, <1>7 DEF ExistsBijection, Bijection
<1>9. IsFiniteSet(1 .. c) /\ Cardinality(1 .. c) = c
  BY FS_Interval
<1>10. IsFiniteSet(S \X (1 .. c)) /\ Cardinality(S \X (1 .. c)) = Cardinality(S) * c
  BY <1>9, FS_Product
<1> QED BY <1>8, <1>10, FS_Bijection

LEMMA PairsTurned ==
  ASSUME NEW S, NEW U, NEW R, NEW Q, IsFiniteSet(R), Turned(R, S, U, Q)
  PROVE  Cardinality(Q) = Cardinality(R)
<1>0. /\ R \in SUBSET (S \X U) /\ Q \in SUBSET (U \X S)
      /\ \A x \in S, y \in U : <<x, y>> \in R <=> <<y, x>> \in Q
  BY DEF Turned
<1> DEFINE G == [r \in R |-> <<r[2], r[1]>>]
<1>1. G \in [R -> Q]
  <2> SUFFICES ASSUME NEW r \in R PROVE <<r[2], r[1]>> \in Q
    OBVIOUS
  <2>1. PICK x \in S, y \in U : r = <<x, y>>
    BY <1>0
  <2> QED BY <1>0, <2>1
<1>2. G \in Injection(R, Q)
  <2> SUFFICES ASSUME NEW r \in R, NEW s \in R, G[r] = G[s] PROVE r = s
    BY <1>1 DEF Injection, IsInjective
  <2>1. PICK x \in S, y \in U : r = <<x, y>>
    BY <1>0
  <2>2. PICK v \in S, w \in U : s = <<v, w>>
    BY <1>0
  <2> QED BY <2>1, <2>2
<1>3. G \in Surjection(R, Q)
  <2> SUFFICES ASSUME NEW q \in Q PROVE \E r \in R : G[r] = q
    BY <1>1 DEF Surjection
  <2>1. PICK y \in U, x \in S : q = <<y, x>>
    BY <1>0
  <2>2. <<x, y>> \in R /\ G[<<x, y>>] = q
    BY <1>0, <2>1
  <2> QED BY <2>2
<1>4. ExistsBijection(R, Q)
  <2> HIDE DEF G
  <2> QED BY <1>2, <1>3 DEF ExistsBijection, Bijection
<1> QED BY <1>4, FS_Bijection

-----------------------------------------------------------------------------
(* Every group is tested by as many parts as every other: exchanging two   *)
(* groups makes of the parts that test one the parts that test the other.  *)
Testing(p, g) == {part \in Chosen(p) : g \in part}
Exchanged(part, g, h) == IF h \in part THEN part ELSE (part \ {g}) \cup {h}

LEMMA ExchangedChosen ==
  ASSUME NEW p \in Protocols, p.kind = "cpcv",
         NEW g \in 0 .. p.groups - 1, NEW h \in 0 .. p.groups - 1, NEW part \in Testing(p, g)
  PROVE  Exchanged(part, g, h) \in Testing(p, h)
<1>1. part \in SUBSET (0 .. p.groups - 1) /\ Cardinality(part) = p.size /\ g \in part
  BY DEF Testing, Chosen
<1>2. IsFiniteSet(part) /\ p.groups \in Nat /\ p.size \in Nat
  <2>1. p.groups \in Nat /\ p.size \in Nat
    BY CpcvTyped
  <2>2. IsFiniteSet(0 .. p.groups - 1)
    BY <2>1, FirstNumbers
  <2> QED BY <1>1, <2>1, <2>2, FS_Subset
<1>3. CASE h \in part
  BY <1>1, <1>3 DEF Exchanged, Testing, Chosen
<1>4. CASE h \notin part
  <2>1. IsFiniteSet(part \ {g}) /\ Cardinality(part \ {g}) = p.size - 1
    BY <1>1, <1>2, FS_RemoveElement
  <2>2. h \notin part \ {g}
    BY <1>4
  <2> DEFINE rest == part \ {g}
  <2>3. Cardinality(rest \cup {h}) = p.size - 1 + 1
    <3>1. IsFiniteSet(rest) /\ Cardinality(rest) = p.size - 1 /\ h \notin rest
      BY <2>1, <2>2
    <3> HIDE DEF rest
    <3> QED BY <3>1, FS_AddElement
  <2>4. Cardinality((part \ {g}) \cup {h}) = p.size
    BY <1>2, <2>3
  <2> HIDE DEF rest
  <2>5. Exchanged(part, g, h) = (part \ {g}) \cup {h}
    BY <1>4 DEF Exchanged
  <2>6. (part \ {g}) \cup {h} \in SUBSET (0 .. p.groups - 1)
    BY <1>1
  <2> QED BY <2>4, <2>5, <2>6 DEF Testing, Chosen
<1> QED BY <1>3, <1>4

LEMMA ExchangedOnce ==
  ASSUME NEW g, NEW h, NEW a, NEW b, g \in a, g \in b, Exchanged(a, g, h) = Exchanged(b, g, h)
  PROVE  a = b
<1>1. CASE h \in a /\ h \in b
  BY <1>1 DEF Exchanged
<1>2. CASE h \in a /\ h \notin b
  <2>1. g # h /\ a = (b \ {g}) \cup {h}
    BY <1>2 DEF Exchanged
  <2>2. g \notin (b \ {g}) \cup {h}
    BY <2>1
  <2> QED BY <2>1, <2>2
<1>3. CASE h \notin a /\ h \in b
  <2>1. g # h /\ b = (a \ {g}) \cup {h}
    BY <1>3 DEF Exchanged
  <2>2. g \notin (a \ {g}) \cup {h}
    BY <2>1
  <2> QED BY <2>1, <2>2
<1>4. CASE h \notin a /\ h \notin b
  <2>1. (a \ {g}) \cup {h} = (b \ {g}) \cup {h}
    BY <1>4 DEF Exchanged
  <2>2. \A x \in a : x \in b
    <3> TAKE x \in a
    <3>1. CASE x = g
      BY <3>1
    <3>2. CASE x # g
      <4>1. x \in (a \ {g}) \cup {h} /\ x # h
        BY <1>4, <3>2
      <4>2. x \in (b \ {g}) \cup {h}
        BY <2>1, <4>1
      <4> QED BY <4>1, <4>2
    <3> QED BY <3>1, <3>2
  <2>3. \A x \in b : x \in a
    <3> TAKE x \in b
    <3>1. CASE x = g
      BY <3>1
    <3>2. CASE x # g
      <4>1. x \in (b \ {g}) \cup {h} /\ x # h
        BY <1>4, <3>2
      <4>2. x \in (a \ {g}) \cup {h}
        BY <2>1, <4>1
      <4> QED BY <4>1, <4>2
    <3> QED BY <3>1, <3>2
  <2> QED BY <2>2, <2>3
<1> QED BY <1>1, <1>2, <1>3, <1>4

LEMMA ChosenFinite ==
  ASSUME NEW p \in Protocols, p.kind = "cpcv"
  PROVE  /\ IsFiniteSet(Chosen(p)) /\ Cardinality(Chosen(p)) \in Nat
         /\ \A g : IsFiniteSet(Testing(p, g)) /\ Cardinality(Testing(p, g)) \in Nat
<1>1. IsFiniteSet(Chosen(p))
  <2>1. Parts(p) = Chosen(p)
    BY DEF Parts
  <2> QED BY <2>1, PartsFinite
<1>2. ASSUME NEW g PROVE IsFiniteSet(Testing(p, g)) /\ Cardinality(Testing(p, g)) \in Nat
  <2>1. Testing(p, g) \in SUBSET Chosen(p)
    BY DEF Testing
  <2>2. IsFiniteSet(Testing(p, g))
    BY <1>1, <2>1, FS_Subset
  <2> QED BY <2>2, FS_CardinalityType
<1> QED BY <1>1, <1>2, FS_CardinalityType

LEMMA NoFewer ==
  ASSUME NEW p \in Protocols, p.kind = "cpcv",
         NEW g \in 0 .. p.groups - 1, NEW h \in 0 .. p.groups - 1
  PROVE  Cardinality(Testing(p, g)) <= Cardinality(Testing(p, h))
<1> DEFINE T == [part \in Testing(p, g) |-> Exchanged(part, g, h)]
<1>1. T \in [Testing(p, g) -> Testing(p, h)]
  BY ExchangedChosen
<1>2. \A a, b \in Testing(p, g) : T[a] = T[b] => a = b
  <2> SUFFICES ASSUME NEW a \in Testing(p, g), NEW b \in Testing(p, g), T[a] = T[b] PROVE a = b
    OBVIOUS
  <2>1. g \in a /\ g \in b
    BY DEF Testing
  <2>2. Exchanged(a, g, h) = Exchanged(b, g, h)
    OBVIOUS
  <2> QED BY <2>1, <2>2, ExchangedOnce
<1> HIDE DEF T
<1>3. T \in Injection(Testing(p, g), Testing(p, h))
  BY <1>1, <1>2 DEF Injection, IsInjective
<1>4. IsFiniteSet(Testing(p, h))
  BY ChosenFinite
<1> QED BY <1>3, <1>4, FS_Injection

LEMMA TestedEvenly ==
  ASSUME NEW p \in Protocols, p.kind = "cpcv", NEW g \in 0 .. p.groups - 1
  PROVE  Cardinality(Testing(p, g)) * p.groups = Cardinality(Chosen(p)) * p.size
<1> DEFINE Groups == 0 .. p.groups - 1
           R == {z \in Groups \X Chosen(p) : z[1] \in z[2]}
           Q == {z \in Chosen(p) \X Groups : z[2] \in z[1]}
           c == Cardinality(Testing(p, g))
<1>1. p.groups \in Nat /\ p.size \in Nat
  BY CpcvTyped
<1>2. IsFiniteSet(Groups) /\ Cardinality(Groups) = p.groups
  BY <1>1, FirstNumbers
<1>3. c \in Nat /\ IsFiniteSet(Chosen(p)) /\ Cardinality(Chosen(p)) \in Nat
  BY ChosenFinite
<1>4. \A h \in Groups : Cardinality(Testing(p, h)) = c /\ IsFiniteSet(Testing(p, h))
  <2> TAKE h \in Groups
  <2>1. Cardinality(Testing(p, h)) <= c /\ c <= Cardinality(Testing(p, h))
    BY NoFewer
  <2>2. Cardinality(Testing(p, h)) \in Nat /\ IsFiniteSet(Testing(p, h))
    BY ChosenFinite
  <2> HIDE DEF c
  <2> QED BY <1>3, <2>1, <2>2
<1>5. IsFiniteSet(R) /\ Cardinality(R) = p.groups * c
  <2>1. \A h \in Groups : Mates(R, Chosen(p), h) = Testing(p, h)
    BY DEF Testing, Mates
  <2>2. R \in SUBSET (Groups \X Chosen(p))
    OBVIOUS
  <2> HIDE DEF R, Groups
  <2>3. \A h \in Groups : IsFiniteSet(Mates(R, Chosen(p), h)) /\ Cardinality(Mates(R, Chosen(p), h)) = c
    BY <1>4, <2>1
  <2>4. EachHas(R, Groups, Chosen(p), c)
    BY <2>2, <2>3 DEF EachHas
  <2> HIDE DEF c
  <2>5. IsFiniteSet(R) /\ Cardinality(R) = Cardinality(Groups) * c
    BY <1>2, <1>3, <2>4, PairsCount
  <2> QED BY <1>2, <2>5
<1>6. IsFiniteSet(Q) /\ Cardinality(Q) = Cardinality(Chosen(p)) * p.size
  <2>1. \A part \in Chosen(p) : Mates(Q, Groups, part) = part
    BY DEF Chosen, Mates
  <2>2. Q \in SUBSET (Chosen(p) \X Groups)
    OBVIOUS
  <2>3. \A part \in Chosen(p) : Cardinality(part) = p.size /\ IsFiniteSet(part)
    <3> TAKE part \in Chosen(p)
    <3>1. part \in SUBSET Groups /\ Cardinality(part) = p.size
      BY DEF Chosen
    <3> HIDE DEF Groups
    <3> QED BY <1>2, <3>1, FS_Subset
  <2> HIDE DEF Q, Groups
  <2>4. \A part \in Chosen(p) :
          IsFiniteSet(Mates(Q, Groups, part)) /\ Cardinality(Mates(Q, Groups, part)) = p.size
    BY <2>1, <2>3
  <2>5. EachHas(Q, Chosen(p), Groups, p.size)
    BY <2>2, <2>4 DEF EachHas
  <2> QED BY <1>1, <1>3, <2>5, PairsCount
<1>7. Cardinality(Q) = Cardinality(R)
  <2>1. Turned(R, Groups, Chosen(p), Q)
    BY DEF Turned
  <2> HIDE DEF R, Q, Groups, c
  <2> QED BY <1>5, <2>1, PairsTurned
<1>8. p.groups * c = c * p.groups
  <2> HIDE DEF c
  <2> QED BY <1>1, <1>3
<1> HIDE DEF R, Q, Groups
<1> QED BY <1>5, <1>6, <1>7, <1>8

-----------------------------------------------------------------------------
(* Every tick is in one group.                                             *)
LEMMA BoundaryOrder ==
  ASSUME NEW p \in Protocols, p.kind = "cpcv", PartitionAccepted(p),
         NEW g \in Nat, NEW h \in Nat, g <= h
  PROVE  Boundary(p, g) <= Boundary(p, h)
<1>1. PICK l \in Nat, n \in Nat \ {0} : l = p.length /\ n = p.groups
  BY CpcvTyped DEF PartitionAccepted
<1>2. PICK s \in Nat, t \in Nat : /\ s = Boundary(p, g) /\ t = Boundary(p, h)
                                  /\ s * n <= l * g /\ l * h < t * n + n
  BY <1>1, BoundaryIs
<1>3. l * g <= l * h /\ l * g \in Nat /\ l * h \in Nat
  <2>1. PICK d \in Nat : h = g + d
    <3>1. h - g \in Nat
      OBVIOUS
    <3> QED BY <3>1
  <2>2. l * h = l * g + l * d /\ l * d \in Nat /\ l * g \in Nat
    BY <2>1
  <2> QED BY <2>2
<1>4. s * n \in Nat /\ t * n \in Nat
  BY <1>1, <1>2
<1>5. s * n < t * n + n
  BY <1>1, <1>2, <1>3, <1>4
<1>6. s <= t
  BY <1>5, OneQuotient
<1> QED BY <1>2, <1>6

LEMMA GroupOfTick ==
  ASSUME NEW p \in Protocols, p.kind = "cpcv", PartitionAccepted(p), NEW t \in 0 .. p.length - 1
  PROVE  \E g \in 0 .. p.groups - 1 :
           \A h \in 0 .. p.groups - 1 : t \in GroupTicks(p, h) <=> h = g
<1>1. PICK l \in Nat, n \in Nat : l = p.length /\ n = p.groups /\ n >= 3
  BY CpcvTyped DEF PartitionAccepted
<1>2. \A h \in Nat : Boundary(p, h) \in Nat
  BY BoundaryIs
<1>3. Boundary(p, 0) = 0 /\ Boundary(p, n) = l
  BY <1>1, BoundaryEnds
<1> DEFINE Opened == {h \in 0 .. n - 1 : Boundary(p, h) <= t}
<1>4. PICK g \in Opened : \A h \in Opened : h <= g
  <2>1. Opened \in SUBSET (0 .. n - 1) /\ n - 1 \in Nat
    BY <1>1
  <2>2. 0 \in Opened
    BY <1>1, <1>3
  <2> HIDE DEF Opened
  <2> QED BY <2>1, <2>2, MostExists
<1>5. g \in 0 .. n - 1 /\ Boundary(p, g) <= t /\ t \in Int /\ t < l /\ 0 <= t
  BY <1>1
<1>6. t < Boundary(p, g + 1)
  <2>1. CASE g + 1 = n
    BY <1>3, <1>5, <2>1
  <2>2. CASE g + 1 # n
    <3>1. g + 1 \in 0 .. n - 1
      BY <1>1, <1>5, <2>2
    <3>2. g + 1 \notin Opened
      BY <1>4, <1>5
    <3>3. ~(Boundary(p, g + 1) <= t)
      BY <3>1, <3>2
    <3>4. Boundary(p, g + 1) \in Nat
      BY <1>2, <3>1
    <3> QED BY <1>5, <3>3, <3>4
  <2> QED BY <2>1, <2>2
<1>7. t \in GroupTicks(p, g)
  <2>1. g + 1 \in Nat /\ g \in Nat
    BY <1>5
  <2>2. PICK x \in Nat, y \in Nat : x = Boundary(p, g) /\ y = Boundary(p, g + 1)
    BY <1>2, <2>1
  <2> QED BY <1>5, <1>6, <2>2 DEF GroupTicks
<1>8. ASSUME NEW h \in 0 .. n - 1, t \in GroupTicks(p, h)
      PROVE  h = g
  <2>1. h \in Nat /\ h + 1 \in Nat /\ g \in Nat /\ g + 1 \in Nat
    BY <1>1, <1>5
  <2>2. PICK x \in Nat, y \in Nat : x = Boundary(p, h) /\ y = Boundary(p, h + 1)
    BY <1>2, <2>1
  <2>3. x <= t /\ t < y
    BY <1>5, <1>8, <2>2 DEF GroupTicks
  <2>4. CASE h < g
    <3>1. Boundary(p, h + 1) <= Boundary(p, g)
      BY <2>1, <2>4, BoundaryOrder
    <3>2. Boundary(p, g) \in Nat
      BY <1>2, <2>1
    <3> QED BY <1>5, <2>2, <2>3, <3>1, <3>2
  <2>5. CASE g < h
    <3>1. Boundary(p, g + 1) <= Boundary(p, h)
      BY <2>1, <2>5, BoundaryOrder
    <3>2. Boundary(p, g + 1) \in Nat
      BY <1>2, <2>1
    <3> QED BY <1>5, <1>6, <2>2, <2>3, <3>1, <3>2
  <2> QED BY <2>1, <2>4, <2>5
<1> QED BY <1>1, <1>5, <1>7, <1>8

EvenlyTested(p) ==
  \A t \in 0 .. p.length - 1 :
    Cardinality({part \in Parts(p) : t \in SamplesOf(p, part).tests}) * p.groups
      = Cardinality(Parts(p)) * p.size

LEMMA SplitsEven ==
  ASSUME NEW p \in Protocols, p.kind = "cpcv", PartitionAccepted(p)
  PROVE  EvenlyTested(p)
<1>1. Parts(p) = Chosen(p)
  BY DEF Parts
<1> SUFFICES ASSUME NEW t \in 0 .. p.length - 1
             PROVE  Cardinality({part \in Chosen(p) : t \in SamplesOf(p, part).tests}) * p.groups
                      = Cardinality(Chosen(p)) * p.size
  BY <1>1 DEF EvenlyTested
<1>2. PICK g \in 0 .. p.groups - 1 : \A h \in 0 .. p.groups - 1 : t \in GroupTicks(p, h) <=> h = g
  BY GroupOfTick
<1>3. ASSUME NEW part \in Chosen(p)
      PROVE  t \in SamplesOf(p, part).tests <=> g \in part
  <2>1. SamplesOf(p, part).tests = UNION {GroupTicks(p, group) : group \in part}
    BY DEF SamplesOf, SplitOf
  <2>2. part \subseteq 0 .. p.groups - 1
    BY DEF Chosen
  <2>3. t \in UNION {GroupTicks(p, group) : group \in part} <=> \E h \in part : t \in GroupTicks(p, h)
    OBVIOUS
  <2>4. (\E h \in part : t \in GroupTicks(p, h)) <=> g \in part
    BY <1>2, <2>2
  <2> QED BY <2>1, <2>3, <2>4
<1>4. {part \in Chosen(p) : t \in SamplesOf(p, part).tests} = Testing(p, g)
  BY <1>3 DEF Testing
<1> QED BY <1>4, TestedEvenly

-----------------------------------------------------------------------------
(* The folds' test windows leave no hole.                                  *)
Tested(p) == UNION {SamplesOf(p, part).tests : part \in Parts(p)}
Unbroken(S) == S = Min(S) .. Max(S)

LEMMA UnbrokenIs ==
  ASSUME NEW a \in Int, NEW b \in Int, a <= b
  PROVE  Unbroken(a .. b)
<1>1. Min(a .. b) = a
  <2> DEFINE S == a .. b
  <2>1. S \in SUBSET Int /\ a \in S /\ \A x \in S : a <= x
    OBVIOUS
  <2> HIDE DEF S
  <2>2. Min(S) = a
    BY <2>1, MinIs
  <2> QED BY <2>2 DEF S
<1>2. Max(a .. b) = b
  <2>1. b \in a .. b /\ \A x \in a .. b : x <= b
    OBVIOUS
  <2> QED BY <2>1, MaxIs
<1> QED BY <1>1, <1>2 DEF Unbroken

LEMMA FoldsUnbroken ==
  ASSUME NEW p \in Protocols, p.kind = "walk_forward", Startable(p)
  PROVE  Unbroken(Tested(p))
<1>1. PICK l \in Nat, w \in Nat, z \in Nat, o \in Nat :
        /\ l = p.length /\ w = p.test /\ z = p.step /\ o = p.train + FoldGap(p)
        /\ z > 0 /\ z <= w
  <2>1. p.step > 0 /\ p.step <= p.test
    BY DEF Startable, ScheduleAccepted
  <2>2. p.train \in Nat /\ FoldGap(p) \in Nat
    BY ScheduleTyped, GapIs
  <2>3. p.train + FoldGap(p) \in Nat
    BY <2>2
  <2> QED BY <2>1, <2>3, ScheduleTyped
<1> DEFINE F == {f \in 0 .. l : o + f * z + w <= l}
<1>2. \A f \in F : f \in Nat /\ f * z \in Nat /\ o + f * z + w <= l
  BY <1>1
<1>3. Folds(p) = {{f} : f \in F}
  <2>1. \A f \in 0 .. l : FoldStart(p, f) + p.test = o + f * z + w
    <3> TAKE f \in 0 .. l
    <3>1. f \in Nat
      BY <1>1
    <3>2. FoldStart(p, f) = o + f * z
      BY <1>1, <3>1, FoldIs
    <3> QED BY <1>1, <3>2
  <2> QED BY <1>1, <2>1 DEF Folds
<1>4. \A f \in F : SamplesOf(p, {f}).tests = o + f * z .. o + f * z + w - 1
  <2> TAKE f \in F
  <2>1. f \in Nat
    BY <1>2
  <2>2. FoldOf(p, {f}).tests = p.train + FoldGap(p) + f * p.step .. p.train + FoldGap(p) + f * p.step + p.test - 1
    BY <2>1, FoldIs
  <2> QED BY <1>1, <2>2 DEF SamplesOf
<1>5. PICK m \in F : \A f \in F : f <= m
  <2>1. F # {}
    <3>1. Cardinality(Folds(p)) >= 2
      BY DEF Startable
    <3>2. Folds(p) # {}
      BY <3>1, FS_EmptySet
    <3> QED BY <1>3, <3>2
  <2>2. F \in SUBSET (0 .. l)
    OBVIOUS
  <2> HIDE DEF F
  <2> QED BY <1>1, <2>1, <2>2, MostExists
<1>6. \A f \in 0 .. m : f \in F
  <2> TAKE f \in 0 .. m
  <2>1. m \in Nat /\ m * z \in Nat /\ o + m * z + w <= l /\ m \in 0 .. l
    BY <1>2
  <2>2. PICK d \in Nat : m = f + d /\ f \in Nat
    <3>1. m - f \in Nat /\ f \in Nat /\ m = f + (m - f)
      BY <2>1
    <3> QED BY <3>1
  <2>3. m * z = f * z + d * z /\ d * z \in Nat /\ f * z \in Nat
    BY <1>1, <2>2
  <2>4. o + f * z + w <= l
    BY <1>1, <2>1, <2>3
  <2>5. f \in 0 .. l
    BY <1>1, <2>1, <2>2
  <2> QED BY <2>4, <2>5
<1>7. PICK e \in Nat : e = o + m * z + w - 1 /\ o <= e /\ m * z \in Nat
  <2>1. m * z \in Nat
    BY <1>2
  <2>2. o + m * z + w - 1 \in Nat /\ o <= o + m * z + w - 1
    BY <1>1, <2>1
  <2> QED BY <2>1, <2>2
<1>8. Tested(p) = UNION {SamplesOf(p, {f}).tests : f \in F}
  <2>1. Parts(p) = {{f} : f \in F}
    BY <1>3 DEF Parts
  <2> HIDE DEF F
  <2> QED BY <2>1 DEF Tested
<1>9. ASSUME NEW t \in Tested(p)
      PROVE  t \in o .. e
  <2>1. PICK f \in F : t \in o + f * z .. o + f * z + w - 1
    BY <1>4, <1>8
  <2>2. f \in Nat /\ f * z \in Nat /\ m \in Nat /\ f <= m
    BY <1>2, <1>5
  <2>3. f * z <= m * z
    <3>1. PICK d \in Nat : m = f + d
      <4>1. m - f \in Nat /\ m = f + (m - f)
        BY <2>2
      <4> QED BY <4>1
    <3>2. m * z = f * z + d * z /\ d * z \in Nat
      BY <1>1, <2>2, <3>1
    <3> QED BY <2>2, <3>2
  <2>4. t \in Int /\ o + f * z <= t /\ t <= o + f * z + w - 1
    BY <1>1, <2>1, <2>2
  <2> QED BY <1>1, <1>7, <2>2, <2>3, <2>4
<1>10. ASSUME NEW t \in o .. e
       PROVE  t \in Tested(p)
  <2> DEFINE Opened == {f \in 0 .. m : o + f * z <= t}
  <2>1. PICK f \in Opened : \A h \in Opened : h <= f
    <3>1. m \in Nat /\ 0 * z = 0 /\ o <= t /\ o \in Nat
      BY <1>1, <1>2
    <3>2. 0 \in Opened
      BY <3>1
    <3>3. Opened \in SUBSET (0 .. m)
      OBVIOUS
    <3> HIDE DEF Opened
    <3> QED BY <3>1, <3>2, <3>3, MostExists
  <2>2. f \in 0 .. m /\ f \in F /\ f \in Nat /\ f * z \in Nat /\ o + f * z <= t
    BY <1>2, <1>6
  <2>3. t <= o + f * z + w - 1
    <3>1. CASE f = m
      BY <1>1, <1>7, <2>2, <3>1
    <3>2. CASE f # m
      <4>1. f + 1 \in 0 .. m
        BY <1>2, <2>2, <3>2
      <4>2. f + 1 \notin Opened
        BY <2>1, <2>2
      <4>3. ~(o + (f + 1) * z <= t)
        BY <4>1, <4>2
      <4>4. (f + 1) * z = f * z + z
        BY <1>1, <2>2
      <4> QED BY <1>1, <1>7, <2>2, <4>3, <4>4
    <3> QED BY <3>1, <3>2
  <2>4. t \in o + f * z .. o + f * z + w - 1
    BY <1>1, <1>7, <2>2, <2>3
  <2> QED BY <1>4, <1>8, <2>2, <2>4
<1>11. Tested(p) = o .. e
  BY <1>9, <1>10
<1> QED BY <1>1, <1>7, <1>11, UnbrokenIs

-----------------------------------------------------------------------------
(* The four parts of the property, from the invariant of a run.            *)
LEMMA ProtocolInvHolds == ProtocolInv /\ GradedOnly => ValidationHolds
<1> SUFFICES ASSUME ProtocolInv, GradedOnly PROVE ValidationHolds
  OBVIOUS
<1>1. protocol \in Protocols
  BY DEF ProtocolInv, ProtocolTyped
<1>2. NothingLeaks
  <2> SUFFICES ASSUME stage = "running", Windowed(protocol) PROVE LeaksNothing(protocol)
    BY DEF NothingLeaks, LeaksNothing
  <2> QED BY <1>1, StartableLeaksNothing DEF ProtocolInv
<1>3. TestsAreEven
  <2> SUFFICES ASSUME stage = "running", Windowed(protocol)
               PROVE  IF protocol.kind = "cpcv" THEN EvenlyTested(protocol) ELSE Unbroken(Tested(protocol))
    BY DEF TestsAreEven, EvenlyTested, Unbroken, Tested
  <2>1. Startable(protocol)
    BY DEF ProtocolInv
  <2>2. CASE protocol.kind = "cpcv"
    <3>1. PartitionAccepted(protocol)
      BY <2>1, <2>2 DEF Startable
    <3> QED BY <1>1, <2>2, <3>1, SplitsEven
  <2>3. CASE protocol.kind = "walk_forward"
    BY <1>1, <2>1, <2>3, FoldsUnbroken
  <2> QED BY <2>2, <2>3 DEF Windowed
<1>4. NothingIsFree
  BY DEF NothingIsFree, ProtocolInv, Finished
<1>5. NoiseIsNotEvidence
  BY GradedHolds
<1> QED BY <1>2, <1>3, <1>4, <1>5 DEF ValidationHolds

(* A run keeps to its declaration: what it paid for, scored and failed are *)
(* parts of it, whatever raises or is refused (run_cpcv, run_walk_forward).*)
THEOREM ValidationStaysTyped == ProtocolSpec => []ProtocolTyped
<1>1. ProtocolInv => ProtocolTyped
  BY DEF ProtocolInv
<1> QED BY RunStarts, RunSteps, <1>1, PTL DEF ProtocolSpec

(* No training sample of a part that runs knows its test, the design tests *)
(* every tick alike, nothing is evaluated before it is charged or reported *)
(* before it is accounted for, and noise is never called evidence, for any *)
(* declaration (purged_train_intervals, WalkForwardDeclaration.gap,        *)
(* run_cpcv, assess_validation).                                           *)
THEOREM ValidationKept == ProtocolSpec => []ValidationHolds
  BY RunStarts, RunSteps, GradedStarts, GradedSteps, ProtocolInvHolds, PTL DEF ProtocolSpec

-----------------------------------------------------------------------------
(* No peeking, for any observations: what is computed for an instant is    *)
(* computed from the observations up to it.                                *)
PastOf(obs, t) == Restrict(obs, {e \in DOMAIN obs : e <= t})
Observations(obs) == \E n \in Nat : DOMAIN obs \subseteq 0 .. n

LEMMA MaxInside ==
  ASSUME NEW n \in Nat, NEW S \in SUBSET (0 .. n), S # {}
  PROVE  Max(S) \in S /\ \A x \in S : x <= Max(S)
<1>1. PICK m \in S : \A x \in S : x <= m
  BY MostExists
<1>2. S \in SUBSET Int
  OBVIOUS
<1>3. Max(S) = m
  BY <1>1, <1>2, MaxIs
<1> QED BY <1>1, <1>3

LEMMA MinInside ==
  ASSUME NEW S \in SUBSET Nat, S # {}
  PROVE  Min(S) \in S /\ \A x \in S : Min(S) <= x
<1>1. \E x \in S : \A y \in S : x <= y
  BY LeastExists
<1> QED BY <1>1 DEF Min

LEMMA SamePast ==
  ASSUME NEW obs, Observations(obs), NEW t \in Int, NEW e \in DOMAIN obs, e <= t, NEW l \in Nat \ {0}
  PROVE  /\ e \in DOMAIN PastOf(obs, t) /\ PastOf(obs, t)[e] = obs[e]
         /\ Inside(PastOf(obs, t), e, l) = Inside(obs, e, l)
         /\ Before(PastOf(obs, t), e, l) = Before(obs, e, l)
         /\ Window(PastOf(obs, t), e, l) = Window(obs, e, l)
         /\ Base(PastOf(obs, t), e, l) = Base(obs, e, l)
<1> DEFINE past == {d \in DOMAIN obs : d <= t}
<1>0. DOMAIN obs \subseteq Nat
  BY DEF Observations
<1>1. PastOf(obs, t) = [d \in past |-> obs[d]]
  BY DEF PastOf, Restrict
<1>2. DOMAIN PastOf(obs, t) = past /\ \A d \in past : PastOf(obs, t)[d] = obs[d]
  BY <1>1
<1>3. e \in past
  OBVIOUS
<1>4. Inside(PastOf(obs, t), e, l) = Inside(obs, e, l)
  BY <1>0, <1>2 DEF Inside
<1>5. Before(PastOf(obs, t), e, l) = Before(obs, e, l)
  BY <1>0, <1>2 DEF Before
<1>6. Inside(obs, e, l) \subseteq past
  BY <1>0 DEF Inside
<1>7. Window(PastOf(obs, t), e, l) = Window(obs, e, l)
  <2>1. Window(PastOf(obs, t), e, l) = [d \in Inside(obs, e, l) |-> PastOf(obs, t)[d]]
    BY <1>4 DEF Window, Restrict
  <2>2. Window(obs, e, l) = [d \in Inside(obs, e, l) |-> obs[d]]
    BY DEF Window, Restrict
  <2> HIDE DEF past
  <2> QED BY <1>2, <1>6, <2>1, <2>2
<1>8. Base(PastOf(obs, t), e, l) = Base(obs, e, l)
  BY <1>5 DEF Base
<1> QED BY <1>2, <1>3, <1>4, <1>5, <1>7, <1>8

LEMMA SameEmits ==
  ASSUME NEW obs, Observations(obs), NEW t \in Int, NEW e \in DOMAIN obs, e <= t, NEW l \in Nat \ {0}, NEW kind
  PROVE  Emits(kind, PastOf(obs, t), e, l) <=> Emits(kind, obs, e, l)
<1>1. /\ Inside(PastOf(obs, t), e, l) = Inside(obs, e, l)
      /\ Before(PastOf(obs, t), e, l) = Before(obs, e, l)
      /\ Window(PastOf(obs, t), e, l) = Window(obs, e, l)
  BY SamePast
<1> QED BY <1>1 DEF Emits

LEMMA SameValue ==
  ASSUME NEW obs, Observations(obs), NEW t \in Int, NEW e \in DOMAIN obs, e <= t, NEW l \in Nat \ {0}, NEW kind,
         Emits(kind, obs, e, l)
  PROVE  ValueOf(kind, PastOf(obs, t), e, l) = ValueOf(kind, obs, e, l)
<1> DEFINE past == {d \in DOMAIN obs : d <= t}
<1>1. /\ PastOf(obs, t)[e] = obs[e]
      /\ Inside(PastOf(obs, t), e, l) = Inside(obs, e, l)
      /\ Window(PastOf(obs, t), e, l) = Window(obs, e, l)
      /\ Base(PastOf(obs, t), e, l) = Base(obs, e, l)
  BY SamePast
<1>2. PICK n \in Nat : DOMAIN obs \subseteq 0 .. n
  BY DEF Observations
<1>3. Base(obs, e, l) \in DOMAIN obs /\ Base(obs, e, l) <= t
  <2>1. Before(obs, e, l) # {} /\ Before(obs, e, l) \in SUBSET (0 .. n)
    BY <1>2 DEF Emits, Before
  <2>2. Base(obs, e, l) \in Before(obs, e, l)
    BY <2>1, MaxInside DEF Base
  <2>3. PICK b \in Nat : b = Base(obs, e, l) /\ b \in DOMAIN obs /\ b <= e - l
    BY <1>2, <2>2 DEF Before
  <2> QED BY <1>2, <2>3
<1>4. PastOf(obs, t)[Base(obs, e, l)] = obs[Base(obs, e, l)]
  BY <1>3 DEF PastOf, Restrict
<1>5. TrailingReturn(PastOf(obs, t), e, l) = TrailingReturn(obs, e, l)
  BY <1>1, <1>4 DEF TrailingReturn
<1>6. RealisedVolatility(PastOf(obs, t), e, l) = RealisedVolatility(obs, e, l)
  <2> DEFINE S == Inside(obs, e, l) \cup {Base(obs, e, l)}
  <2>1. S \subseteq past
    BY <1>2, <1>3 DEF Inside
  <2>2. \A d \in S : PastOf(obs, t)[d] = obs[d]
    BY <2>1 DEF PastOf, Restrict
  <2>3. RealisedVolatility(PastOf(obs, t), e, l) = [d \in S |-> PastOf(obs, t)[d]]
    BY <1>1 DEF RealisedVolatility, Restrict
  <2>4. RealisedVolatility(obs, e, l) = [d \in S |-> obs[d]]
    BY DEF RealisedVolatility, Restrict
  <2> HIDE DEF S
  <2> QED BY <2>2, <2>3, <2>4
<1>7. DonchianState(PastOf(obs, t), e, l) = DonchianState(obs, e, l)
  BY <1>1 DEF DonchianState
<1>8. BollingerZ(PastOf(obs, t), e, l) = BollingerZ(obs, e, l) /\ BollingerWidth(PastOf(obs, t), e, l) = BollingerWidth(obs, e, l)
  BY <1>1 DEF BollingerZ, BollingerWidth
<1>9. SettledRate(PastOf(obs, t), e) = SettledRate(obs, e)
  BY <1>1 DEF SettledRate
<1>10. MeanAbsoluteRate(PastOf(obs, t), e, l) = MeanAbsoluteRate(obs, e, l)
  BY <1>1 DEF MeanAbsoluteRate
<1> QED BY <1>5, <1>6, <1>7, <1>8, <1>9, <1>10 DEF ValueOf

PointOf(f, obs, t) == [event |-> t, available |-> t + f.lag, mark |-> ValueOf(f.kind, obs, t, f.lookback)]

LEMMA PointsAre ==
  ASSUME NEW f, NEW obs, NEW p
  PROVE  p \in PointsOver(f, obs) <=>
           \E t \in DOMAIN obs : Emits(f.kind, obs, t, f.lookback) /\ p = PointOf(f, obs, t)
  BY DEF PointsOver, PointOf

LEMMA PrefixAgrees ==
  ASSUME NEW f \in Features, NEW obs, Observations(obs), NEW t \in DOMAIN obs
  PROVE  {p \in PointsOver(f, obs) : p.event <= t} = PointsOver(f, PastOf(obs, t))
<1>0. f.lookback \in Nat \ {0}
  BY FeatureAssumption
<1>1. DOMAIN obs \subseteq Nat /\ t \in Int
  BY DEF Observations
<1>2. DOMAIN PastOf(obs, t) = {e \in DOMAIN obs : e <= t}
  BY DEF PastOf, Restrict
<1>3. \A e \in DOMAIN obs : e <= t =>
        /\ Emits(f.kind, PastOf(obs, t), e, f.lookback) <=> Emits(f.kind, obs, e, f.lookback)
        /\ Emits(f.kind, obs, e, f.lookback) => PointOf(f, PastOf(obs, t), e) = PointOf(f, obs, e)
  <2> SUFFICES ASSUME NEW e \in DOMAIN obs, e <= t
               PROVE  /\ Emits(f.kind, PastOf(obs, t), e, f.lookback) <=> Emits(f.kind, obs, e, f.lookback)
                      /\ Emits(f.kind, obs, e, f.lookback) => PointOf(f, PastOf(obs, t), e) = PointOf(f, obs, e)
    OBVIOUS
  <2>1. Emits(f.kind, PastOf(obs, t), e, f.lookback) <=> Emits(f.kind, obs, e, f.lookback)
    BY <1>0, <1>1, SameEmits
  <2>2. ASSUME Emits(f.kind, obs, e, f.lookback) PROVE PointOf(f, PastOf(obs, t), e) = PointOf(f, obs, e)
    BY <1>0, <1>1, <2>2, SameValue DEF PointOf
  <2> QED BY <2>1, <2>2
<1>4. ASSUME NEW p \in PointsOver(f, obs), p.event <= t
      PROVE  p \in PointsOver(f, PastOf(obs, t))
  <2>1. PICK e \in DOMAIN obs : Emits(f.kind, obs, e, f.lookback) /\ p = PointOf(f, obs, e)
    BY PointsAre
  <2>2. e <= t
    BY <1>4, <2>1 DEF PointOf
  <2> QED BY <1>2, <1>3, <2>1, <2>2, PointsAre
<1>5. ASSUME NEW p \in PointsOver(f, PastOf(obs, t))
      PROVE  p \in PointsOver(f, obs) /\ p.event <= t
  <2>1. PICK e \in DOMAIN PastOf(obs, t) : /\ Emits(f.kind, PastOf(obs, t), e, f.lookback)
                                         /\ p = PointOf(f, PastOf(obs, t), e)
    BY PointsAre
  <2>2. e \in DOMAIN obs /\ e <= t
    BY <1>2, <2>1
  <2>3. p.event = e
    BY <2>1 DEF PointOf
  <2>4. p \in PointsOver(f, obs)
    BY <1>3, <2>1, <2>2, PointsAre
  <2> QED BY <2>2, <2>3, <2>4
<1> QED BY <1>4, <1>5

LEMMA LabelsAfter ==
  ASSUME NEW obs, Observations(obs), NEW horizon \in Int
  PROVE  \A l \in LabelsOver(obs, horizon) : l.decision < l.entry /\ l.entry <= l.exit
<1>1. PICK n \in Nat : DOMAIN obs \subseteq 0 .. n
  BY DEF Observations
<1> SUFFICES ASSUME NEW t \in DOMAIN obs,
                    {e \in {d \in DOMAIN obs : t < d} : e <= t + horizon} # {}
             PROVE  /\ t < Min({d \in DOMAIN obs : t < d})
                    /\ Min({d \in DOMAIN obs : t < d})
                         <= Max({e \in {d \in DOMAIN obs : t < d} : e <= t + horizon})
  <2> DEFINE after(t) == {d \in DOMAIN obs : t < d}
             within(t) == {e \in after(t) : e <= t + horizon}
  <2>1. LabelsOver(obs, horizon) =
          {[decision |-> t, entry |-> Min(after(t)), exit |-> Max(within(t))] :
             t \in {e \in DOMAIN obs : within(e) # {}}}
    BY Zenon DEF LabelsOver
  <2>2. \A t \in DOMAIN obs : within(t) # {} => t < Min(after(t)) /\ Min(after(t)) <= Max(within(t))
    OBVIOUS
  <2> HIDE DEF after, within
  <2> SUFFICES ASSUME NEW l \in LabelsOver(obs, horizon) PROVE l.decision < l.entry /\ l.entry <= l.exit
    OBVIOUS
  <2>3. PICK t \in DOMAIN obs :
          within(t) # {} /\ l = [decision |-> t, entry |-> Min(after(t)), exit |-> Max(within(t))]
    BY <2>1
  <2> QED BY <2>2, <2>3
<1> DEFINE after == {d \in DOMAIN obs : t < d}
           within == {e \in after : e <= t + horizon}
<1>2. after \in SUBSET Nat /\ after # {} /\ within \in SUBSET (0 .. n) /\ within # {} /\ within \subseteq after
  BY <1>1
<1>3. \A e \in after : t < e
  OBVIOUS
<1> HIDE DEF after, within
<1>4. Min(after) \in after /\ \A e \in after : Min(after) <= e
  BY <1>2, MinInside
<1>5. Max(within) \in within
  BY <1>2, MaxInside
<1>6. t < Min(after) /\ Min(after) <= Max(within)
  BY <1>2, <1>3, <1>4, <1>5
<1> QED BY <1>6 DEF after, within

-----------------------------------------------------------------------------
(* The invariant of the corpus, the rows and the contract.                 *)
Observation == [event : Nat, available : Nat]
RowKeyed(rows) == \A r, o \in rows : r.event = o.event /\ r.available = o.available => r = o
RowTimed(rows) == \A r \in rows : r.event \in Nat /\ r.available \in Nat /\ r.event <= r.available

CorpusInv ==
  /\ DOMAIN bars \subseteq 0 .. clock - 1 /\ holes \subseteq 0 .. clock - 1 /\ holes \cap DOMAIN bars = {}
  /\ DOMAIN bars = {} => bars = <<>>
  /\ \A h \in holes : \E o \in DOMAIN bars : h <= o
  /\ \A o \in DOMAIN bars : 0 .. o \subseteq DOMAIN bars \cup holes

ContractInv ==
  \/ contract = NoContract
  \/ /\ contract = [step |-> "coverage", first |-> contract.first, last |-> contract.last]
     /\ contract.first \in Nat /\ contract.last \in Nat
     /\ contract.first .. contract.last \subseteq DOMAIN bars \cup holes
  \/ /\ contract = [step |-> "taken", first |-> contract.first, last |-> contract.last, gaps |-> contract.gaps]
     /\ contract.first \in Nat /\ contract.last \in Nat /\ contract.gaps \subseteq Nat
     /\ contract.first .. contract.last \subseteq DOMAIN bars \cup contract.gaps

ServedInv ==
  \/ served = NotServed
  \/ /\ served = [of |-> served.of, asOf |-> served.asOf, lookback |-> served.lookback, rows |-> served.rows]
     /\ served.of \in {"feature", "alt"} /\ AsOfHolds

PitInv ==
  /\ feature \in Features /\ clock \in 0 .. MaxTick
  /\ CorpusInv
  /\ RowTimed(rates) /\ RowKeyed(rates) /\ \A r \in rates : r.event <= clock
  /\ RowTimed(points) /\ RowKeyed(points)
  /\ ContractInv /\ ServedInv

LEMMA ObservedIs == PitInv => Observations(Observed)
<1> SUFFICES ASSUME PitInv PROVE Observations(Observed)
  OBVIOUS
<1>1. clock \in Nat
  BY ClockAssumption DEF PitInv
<1>2. DOMAIN BarEvents \subseteq 0 .. clock
  BY <1>1 DEF PitInv, CorpusInv, BarEvents
<1>3. DOMAIN RateEvents \subseteq 0 .. clock
  <2>1. DOMAIN RateEvents = {r.event : r \in rates}
    BY DEF RateEvents
  <2>2. \A r \in rates : r.event \in 0 .. clock
    BY <1>1 DEF PitInv, RowTimed
  <2> QED BY <2>1, <2>2
<1> QED BY <1>1, <1>2, <1>3 DEF Observations, Observed

LEMMA PitInvPeeksNot == PitInv => NoPeeking
<1> SUFFICES ASSUME PitInv PROVE NoPeeking
  OBVIOUS
<1>1. Observations(Observed) /\ feature \in Features /\ feature.lookback \in Int
  BY ObservedIs, FeatureAssumption DEF PitInv
<1>2. \A t \in DOMAIN Observed :
        {p \in PointsOver(feature, Observed) : p.event <= t} = PointsOver(feature, PastOf(Observed, t))
  BY <1>1, PrefixAgrees
<1>3. \A l \in LabelsOver(Observed, feature.lookback) : l.decision < l.entry /\ l.entry <= l.exit
  BY <1>1, LabelsAfter
<1> QED BY <1>2, <1>3 DEF NoPeeking, PastOf

LEMMA AsOfKeyed ==
  ASSUME NEW rows, RowTimed(rows), RowKeyed(rows), NEW asOf \in Nat, NEW lookback \in Nat
  PROVE  /\ \A r \in AsOf(rows, asOf, lookback) : r.available <= asOf /\ r.event <= asOf
         /\ \A r, o \in AsOf(rows, asOf, lookback) : r.event = o.event => r = o
<1>1. \A r \in AsOf(rows, asOf, lookback) : r \in rows /\ r.available <= asOf
  BY DEF AsOf, Visible
<1>2. \A r \in rows : r.event \in Nat /\ r.available \in Nat /\ r.event <= r.available
  BY DEF RowTimed
<1>3. ASSUME NEW r \in AsOf(rows, asOf, lookback), NEW o \in AsOf(rows, asOf, lookback), r.event = o.event
      PROVE  r = o
  <2>1. r \in Visible(rows, asOf) /\ o \in Visible(rows, asOf)
    BY DEF AsOf
  <2>2. o.available <= r.available /\ r.available <= o.available
    BY <1>3, <2>1 DEF AsOf
  <2>3. r \in rows /\ o \in rows /\ r.available \in Nat /\ o.available \in Nat
    BY <1>1, <1>2
  <2>4. r.available = o.available
    BY <2>2, <2>3
  <2> QED BY <1>3, <2>3, <2>4 DEF RowKeyed
<1>4. \A r \in AsOf(rows, asOf, lookback) : r.available <= asOf /\ r.event <= asOf
  BY <1>1, <1>2
<1> QED BY <1>3, <1>4

(* What is fresh has its own key.                                          *)
LEMMA FreshKeyed ==
  ASSUME NEW rows, NEW new, RowTimed(rows), RowKeyed(rows), RowTimed(new), RowKeyed(new),
         \A r \in new : ~\E o \in rows : o.event = r.event /\ o.available = r.available
  PROVE  RowTimed(rows \cup new) /\ RowKeyed(rows \cup new)
<1>1. RowTimed(rows \cup new)
  BY DEF RowTimed
<1>2. RowKeyed(rows \cup new)
  BY DEF RowKeyed
<1> QED BY <1>1, <1>2

LEMMA CorpusGrows ==
  ASSUME PitInv, DOMAIN bars \subseteq DOMAIN bars', DOMAIN bars \cup holes \subseteq DOMAIN bars' \cup holes',
         UNCHANGED <<contract, served>>
  PROVE  ContractInv' /\ ServedInv'
<1>1. ContractInv'
  <2>1. CASE contract = NoContract
    BY <2>1 DEF ContractInv
  <2>2. CASE contract # NoContract
    BY <2>2 DEF PitInv, ContractInv
  <2> QED BY <2>1, <2>2
<1>2. ServedInv'
  <2>1. AsOfHolds => AsOfHolds'
    BY DEF AsOfHolds
  <2> QED BY <2>1 DEF PitInv, ServedInv
<1> QED BY <1>1, <1>2

LEMMA PitStarts == PitInit => PitInv
<1> SUFFICES ASSUME PitInit PROVE PitInv
  OBVIOUS
<1>1. DOMAIN bars = {} /\ holes = {} /\ rates = {} /\ points = {} /\ clock = 0 /\ feature \in Features
      /\ contract = NoContract /\ served = NotServed
  BY DEF PitInit
<1>2. clock \in 0 .. MaxTick
  BY <1>1, ClockAssumption
<1> QED BY <1>1, <1>2 DEF PitInv, CorpusInv, RowTimed, RowKeyed, ContractInv, ServedInv

LEMMA TimePasses == PitInv /\ PassTime => PitInv'
<1> SUFFICES ASSUME PitInv, PassTime PROVE PitInv'
  OBVIOUS
<1>1. clock \in Nat /\ clock' = clock + 1 /\ clock' \in 0 .. MaxTick
  BY ClockAssumption DEF PitInv, PassTime
<1>2. UNCHANGED <<feature, bars, holes, rates, points, contract, served>>
  BY DEF PassTime
<1>3. CorpusInv'
  BY <1>1, <1>2 DEF PitInv, CorpusInv
<1>4. ContractInv' /\ ServedInv'
  BY <1>2, CorpusGrows
<1>5. \A r \in rates : r.event <= clock'
  BY <1>1 DEF PitInv, RowTimed
<1> QED BY <1>1, <1>2, <1>3, <1>4, <1>5 DEF PitInv

LEMMA BarsIngested ==
  ASSUME PitInv, NEW present \in (SUBSET (0 .. clock - 1)) \ {{}}, NEW mark \in [present -> Marks],
         IngestBars(present, mark)
  PROVE  PitInv'
<1>0. clock \in Nat /\ DOMAIN bars \subseteq 0 .. clock - 1
  BY ClockAssumption DEF PitInv, CorpusInv
<1>1. present # {} /\ present \in SUBSET (0 .. clock - 1) /\ clock - 1 \in Nat /\ present \in SUBSET Nat
  <2>1. present # {} /\ present \in SUBSET (0 .. clock - 1)
    OBVIOUS
  <2>2. PICK o \in present : o \in 0 .. clock - 1
    BY <2>1
  <2> QED BY <1>0, <2>1, <2>2
<1>2. Min(present) \in present /\ \A o \in present : Min(present) <= o
  BY <1>1, MinInside
<1>3. PICK from \in Nat :
        /\ \A o \in present : from <= o
        /\ bars = <<>> => from = 0
        /\ bars # <<>> => from = LastOpen + 1 /\ LastOpen \in DOMAIN bars /\ \A o \in DOMAIN bars : o <= LastOpen
        /\ DOMAIN bars' = DOMAIN bars \cup present
        /\ holes' = holes \cup ((from .. clock - 1) \ present)
  <2>1. CASE bars = <<>>
    BY <1>1, <1>2, <2>1 DEF IngestBars
  <2>2. CASE bars # <<>>
    <3>1. CASE DOMAIN bars = {}
      BY <3>1, <2>2 DEF PitInv, CorpusInv
    <3>2. CASE DOMAIN bars # {}
      <4>1. LastOpen \in DOMAIN bars /\ \A o \in DOMAIN bars : o <= LastOpen
        BY <1>0, <1>1, <3>2, MaxInside DEF LastOpen
      <4>2. LastOpen + 1 \in Nat
        BY <1>0, <4>1
      <4>3. \A o \in present : LastOpen + 1 <= o
        BY <1>1, <1>2, <2>2, <4>2, SMTT(30) DEF IngestBars
      <4> QED BY <2>2, <4>1, <4>2, <4>3 DEF IngestBars
    <3> QED BY <3>1, <3>2
  <2> QED BY <2>1, <2>2
<1>4. clock' = clock /\ UNCHANGED <<feature, rates, points, contract, served>>
  BY DEF IngestBars
<1>5. \E o \in present : o = clock - 1
  <2>1. Max(present) \in present /\ Max(present) = clock - 1
    BY <1>1, MaxInside DEF IngestBars
  <2> QED BY <2>1
<1>6. \A h \in holes : h \in Nat /\ h < from
  <2> TAKE h \in holes
  <2>1. PICK o \in DOMAIN bars : h <= o
    BY DEF PitInv, CorpusInv
  <2>2. bars # <<>> /\ h \in Nat /\ o \in Nat
    BY <1>0, <2>1 DEF PitInv, CorpusInv
  <2>3. from = LastOpen + 1 /\ o <= LastOpen /\ LastOpen \in Nat
    BY <1>0, <1>3, <2>1, <2>2
  <2> QED BY <2>1, <2>2, <2>3
<1>7. \A o \in DOMAIN bars : o \in Nat /\ o < from
  <2> TAKE o \in DOMAIN bars
  <2>1. bars # <<>>
    OBVIOUS
  <2>2. from = LastOpen + 1 /\ o <= LastOpen /\ LastOpen \in Nat /\ o \in Nat
    BY <1>0, <1>3, <2>1
  <2> QED BY <2>2
<1>8. CorpusInv'
  <2>1. DOMAIN bars' \subseteq 0 .. clock - 1 /\ holes' \subseteq 0 .. clock - 1
    <3>1. holes \subseteq 0 .. clock - 1
      BY DEF PitInv, CorpusInv
    <3>2. from .. clock - 1 \subseteq 0 .. clock - 1
      BY <1>0, <1>3
    <3> QED BY <1>0, <1>1, <1>3, <3>1, <3>2
  <2>2. holes' \cap DOMAIN bars' = {}
    <3>1. \A o \in present : o \notin holes
      BY <1>1, <1>3, <1>6
    <3>2. \A o \in from .. clock - 1 : o \notin DOMAIN bars
      BY <1>3, <1>7
    <3> QED BY <1>3, <3>1, <3>2 DEF PitInv, CorpusInv
  <2>3. DOMAIN bars' # {}
    BY <1>1, <1>3
  <2>4. \A h \in holes' : \E o \in DOMAIN bars' : h <= o
    <3> TAKE h \in holes'
    <3>1. h \in 0 .. clock - 1
      BY <2>1
    <3> QED BY <1>0, <1>3, <1>5, <3>1
  <2>5. \A o \in DOMAIN bars' : 0 .. o \subseteq DOMAIN bars' \cup holes'
    <3> SUFFICES ASSUME NEW o \in DOMAIN bars', NEW k \in 0 .. o PROVE k \in DOMAIN bars' \cup holes'
      OBVIOUS
    <3>1. k \in Nat /\ k <= clock - 1
      BY <1>0, <2>1
    <3>2. CASE k >= from
      <4>1. k \in from .. clock - 1
        BY <1>0, <1>3, <3>1, <3>2
      <4> QED BY <1>3, <4>1
    <3>3. CASE k < from
      <4>1. bars # <<>> /\ k <= LastOpen /\ LastOpen \in DOMAIN bars
        BY <1>0, <1>3, <3>1, <3>3
      <4>2. k \in 0 .. LastOpen
        BY <1>0, <3>1, <4>1
      <4>3. k \in DOMAIN bars \cup holes
        BY <4>1, <4>2 DEF PitInv, CorpusInv
      <4> QED BY <1>3, <4>3
    <3> QED BY <1>3, <3>1, <3>2, <3>3
  <2> QED BY <1>4, <2>1, <2>2, <2>3, <2>4, <2>5 DEF CorpusInv
<1>9. ContractInv' /\ ServedInv'
  BY <1>3, <1>4, CorpusGrows
<1> QED BY <1>4, <1>8, <1>9 DEF PitInv, RowTimed, RowKeyed

LEMMA BarRepaired ==
  ASSUME PitInv, NEW open \in holes, NEW mark, RepairBar(open, mark)
  PROVE  PitInv'
<1>1. /\ DOMAIN bars' = DOMAIN bars \cup {open} /\ holes' = holes \ {open}
      /\ UNCHANGED <<feature, clock, rates, points, contract, served>>
  BY DEF RepairBar
<1>2. CorpusInv'
  <2>1. open \in 0 .. clock - 1 /\ clock \in Nat
    BY ClockAssumption DEF PitInv, CorpusInv
  <2>2. PICK o \in DOMAIN bars : open <= o
    BY DEF PitInv, CorpusInv
  <2>3. o \in Nat /\ 0 .. o \subseteq DOMAIN bars \cup holes
    BY <2>1, <2>2 DEF PitInv, CorpusInv
  <2>4. 0 .. open \subseteq 0 .. o
    BY <2>1, <2>2, <2>3
  <2>5. DOMAIN bars' \cup holes' = DOMAIN bars \cup holes
    BY <1>1
  <2>6. \A u \in DOMAIN bars' : 0 .. u \subseteq DOMAIN bars' \cup holes'
    <3> TAKE u \in DOMAIN bars'
    <3>1. CASE u = open
      BY <2>3, <2>4, <2>5, <3>1
    <3>2. CASE u \in DOMAIN bars
      BY <2>5, <3>2 DEF PitInv, CorpusInv
    <3> QED BY <1>1, <3>1, <3>2
  <2>7. holes' \cap DOMAIN bars' = {} /\ DOMAIN bars' # {}
    BY <1>1 DEF PitInv, CorpusInv
  <2>8. \A h \in holes' : \E u \in DOMAIN bars' : h <= u
    BY <1>1 DEF PitInv, CorpusInv
  <2>9. DOMAIN bars' \subseteq 0 .. clock - 1 /\ holes' \subseteq 0 .. clock - 1
    BY <1>1, <2>1 DEF PitInv, CorpusInv
  <2> QED BY <1>1, <2>6, <2>7, <2>8, <2>9 DEF CorpusInv
<1>3. ContractInv' /\ ServedInv'
  BY <1>1, CorpusGrows
<1> QED BY <1>1, <1>2, <1>3 DEF PitInv, RowTimed, RowKeyed

(* The rows of one member of the archive: each known after the event it is *)
(* of, whether it was published or stamped.                                *)
LEMMA MemberTimed ==
  ASSUME NEW events \in SUBSET Nat, NEW published \in Nat, NEW mark,
         \A e \in events : Stampable(e, published)
  PROVE  LET rows == {[event |-> e, available |-> StampedAt(e, published), mark |-> mark[e]] : e \in events}
         IN  RowTimed(rows) /\ RowKeyed(rows)
<1> DEFINE rows == {[event |-> e, available |-> StampedAt(e, published), mark |-> mark[e]] : e \in events}
<1>1. \A e \in events : StampedAt(e, published) \in Nat /\ e <= StampedAt(e, published)
  <2> TAKE e \in events
  <2>1. PICK l \in Nat : l = SourceLag
    BY ClockAssumption
  <2> QED BY <2>1 DEF Stampable, StampedAt, Knowable
<1>2. ASSUME NEW r \in rows
      PROVE  r.event \in Nat /\ r.available \in Nat /\ r.event <= r.available
  <2>1. PICK e \in events : r.event = e /\ r.available = StampedAt(e, published)
    OBVIOUS
  <2> QED BY <1>1, <2>1
<1>3. RowTimed(rows)
  BY <1>2, Zenon DEF RowTimed
<1>4. RowKeyed(rows)
  BY DEF RowKeyed
<1> QED BY <1>3, <1>4

LEMMA RatesIngested ==
  ASSUME PitInv, NEW events \in SUBSET (0 .. clock), NEW published \in {0, clock}, NEW mark,
         IngestRates(events, published, mark)
  PROVE  PitInv'
<1> DEFINE rows == {[event |-> e, available |-> StampedAt(e, published), mark |-> mark[e]] : e \in events}
           fresh == {r \in rows : ~\E o \in rates : o.event = r.event /\ o.available = r.available}
<1>1. clock \in Nat /\ events \in SUBSET Nat /\ published \in Nat
  BY ClockAssumption DEF PitInv
<1>2. /\ \A e \in events : Stampable(e, published)
      /\ rates' = rates \cup fresh /\ UNCHANGED <<feature, clock, bars, holes, points, contract, served>>
  BY DEF IngestRates
<1>3. RowTimed(rows) /\ RowKeyed(rows)
  <2> HIDE DEF rows
  <2> QED BY <1>1, <1>2, MemberTimed DEF rows
<1>4. \A r \in rows : r.event \in 0 .. clock
  <2> TAKE r \in rows
  <2>1. PICK e \in events : r = [event |-> e, available |-> StampedAt(e, published), mark |-> mark[e]]
    OBVIOUS
  <2> QED BY <2>1
<1> HIDE DEF rows
<1>5. RowTimed(fresh) /\ RowKeyed(fresh)
  BY <1>3 DEF RowTimed, RowKeyed
<1>6. RowTimed(rates \cup fresh) /\ RowKeyed(rates \cup fresh)
  <2>1. \A r \in fresh : ~\E o \in rates : o.event = r.event /\ o.available = r.available
    OBVIOUS
  <2> HIDE DEF fresh
  <2> QED BY <1>5, <2>1, FreshKeyed DEF PitInv
<1>7. \A r \in rates' : r.event <= clock
  BY <1>1, <1>2, <1>4 DEF PitInv
<1>8. ContractInv' /\ ServedInv'
  BY <1>2, CorpusGrows
<1>9. RowTimed(rates') /\ RowKeyed(rates')
  BY <1>2, <1>6
<1> QED BY <1>2, <1>7, <1>8, <1>9 DEF PitInv, CorpusInv, RowTimed, RowKeyed

LEMMA PointsKeyed ==
  ASSUME NEW f \in Features, NEW obs, Observations(obs)
  PROVE  RowTimed(PointsOver(f, obs)) /\ RowKeyed(PointsOver(f, obs))
<1>1. f.lag \in Nat /\ DOMAIN obs \subseteq Nat
  BY FeatureAssumption DEF Observations
<1>2. ASSUME NEW p \in PointsOver(f, obs)
      PROVE  p.event \in Nat /\ p.available \in Nat /\ p.event <= p.available /\ p = PointOf(f, obs, p.event)
  <2>1. PICK t \in DOMAIN obs : p = PointOf(f, obs, t)
    BY PointsAre
  <2>2. p.event = t /\ p.available = t + f.lag
    BY <2>1 DEF PointOf
  <2> QED BY <1>1, <2>1, <2>2
<1>3. RowTimed(PointsOver(f, obs))
  BY <1>2 DEF RowTimed
<1>4. RowKeyed(PointsOver(f, obs))
  BY <1>2 DEF RowKeyed
<1> QED BY <1>3, <1>4

LEMMA PointsAppended == PitInv /\ AppendPoints => PitInv'
<1> SUFFICES ASSUME PitInv, AppendPoints PROVE PitInv'
  OBVIOUS
<1> DEFINE all == PointsOver(feature, Observed)
           fresh == {p \in all : ~\E o \in points : o.event = p.event /\ o.available = p.available}
<1>1. points' = points \cup fresh /\ UNCHANGED <<feature, clock, bars, holes, rates, contract, served>>
  BY DEF AppendPoints
<1>2. RowTimed(all) /\ RowKeyed(all)
  BY ObservedIs, PointsKeyed DEF PitInv
<1> HIDE DEF all
<1>3. RowTimed(fresh) /\ RowKeyed(fresh)
  BY <1>2 DEF RowTimed, RowKeyed
<1>4. RowTimed(points \cup fresh) /\ RowKeyed(points \cup fresh)
  <2>1. \A r \in fresh : ~\E o \in points : o.event = r.event /\ o.available = r.available
    OBVIOUS
  <2> HIDE DEF fresh
  <2> QED BY <1>3, <2>1, FreshKeyed DEF PitInv
<1>5. ContractInv' /\ ServedInv'
  BY <1>1, CorpusGrows
<1>6. RowTimed(points') /\ RowKeyed(points')
  BY <1>1, <1>4
<1> QED BY <1>1, <1>5, <1>6 DEF PitInv, CorpusInv, RowTimed, RowKeyed

LEMMA CoverageRead == PitInv /\ SnapshotCoverage => PitInv'
<1> SUFFICES ASSUME PitInv, SnapshotCoverage PROVE PitInv'
  OBVIOUS
<1>1. /\ bars # <<>> /\ contract' = [step |-> "coverage", first |-> FirstOpen, last |-> LastOpen]
      /\ UNCHANGED <<feature, clock, bars, holes, rates, points, served>>
  BY DEF SnapshotCoverage
<1>2. clock \in Nat /\ DOMAIN bars \subseteq 0 .. clock - 1 /\ DOMAIN bars # {}
  <2>1. clock \in Nat
    BY ClockAssumption DEF PitInv
  <2>2. DOMAIN bars \subseteq 0 .. clock - 1 /\ (DOMAIN bars = {} => bars = <<>>)
    BY DEF PitInv, CorpusInv
  <2> QED BY <1>1, <2>1, <2>2
<1>3. DOMAIN bars \in SUBSET Nat /\ clock - 1 \in Nat /\ DOMAIN bars \in SUBSET (0 .. clock - 1)
  BY <1>2
<1>4. PICK a \in Nat, b \in Nat : a = FirstOpen /\ b = LastOpen /\ b \in DOMAIN bars
  <2>1. FirstOpen \in DOMAIN bars
    BY <1>2, <1>3, MinInside DEF FirstOpen
  <2>2. LastOpen \in DOMAIN bars
    BY <1>2, <1>3, MaxInside DEF LastOpen
  <2> QED BY <1>3, <2>1, <2>2
<1>5. a .. b \subseteq DOMAIN bars \cup holes
  <2>1. a .. b \subseteq 0 .. b /\ 0 .. b \subseteq DOMAIN bars \cup holes
    BY <1>4 DEF PitInv, CorpusInv
  <2> QED BY <2>1
<1>6. contract' = [step |-> "coverage", first |-> a, last |-> b]
  BY <1>1, <1>4
<1>7. contract'.first = a /\ contract'.last = b
  BY <1>6
<1>8. ContractInv'
  <2>1. contract'.first .. contract'.last \subseteq DOMAIN bars' \cup holes'
    BY <1>1, <1>5, <1>7
  <2>2. contract' = [step |-> "coverage", first |-> contract'.first, last |-> contract'.last]
    BY <1>6, <1>7
  <2> QED BY <1>7, <2>1, <2>2 DEF ContractInv
<1>9. ServedInv'
  BY <1>1 DEF PitInv, ServedInv, AsOfHolds
<1> QED BY <1>1, <1>8, <1>9 DEF PitInv, CorpusInv, RowTimed, RowKeyed

LEMMA GapsRead == PitInv /\ SnapshotGaps => PitInv'
<1> SUFFICES ASSUME PitInv, SnapshotGaps PROVE PitInv'
  OBVIOUS
<1>1. /\ contract.step = "coverage"
      /\ contract' = [step |-> "taken", first |-> contract.first, last |-> contract.last, gaps |-> holes]
      /\ UNCHANGED <<feature, clock, bars, holes, rates, points, served>>
  BY DEF SnapshotGaps
<1>2. /\ contract.first \in Nat /\ contract.last \in Nat
      /\ contract.first .. contract.last \subseteq DOMAIN bars \cup holes
  BY <1>1 DEF PitInv, ContractInv, NoContract
<1>3. contract'.first = contract.first /\ contract'.last = contract.last /\ contract'.gaps = holes
  BY <1>1
<1>4. holes \subseteq Nat
  BY DEF PitInv, CorpusInv
<1>5. ContractInv'
  <2>1. contract'.first .. contract'.last \subseteq DOMAIN bars' \cup contract'.gaps
    BY <1>1, <1>2, <1>3
  <2>2. contract' = [step |-> "taken", first |-> contract'.first, last |-> contract'.last, gaps |-> contract'.gaps]
    BY <1>1, <1>3
  <2> QED BY <1>2, <1>3, <1>4, <2>1, <2>2 DEF ContractInv
<1>6. ServedInv'
  BY <1>1 DEF PitInv, ServedInv, AsOfHolds
<1> QED BY <1>1, <1>5, <1>6 DEF PitInv, CorpusInv, RowTimed, RowKeyed

(* What the contract admits is held: between its bounds, outside its gaps. *)
LEMMA AdmittedHeld ==
  ASSUME PitInv, NEW asOf \in Nat, NEW lookback \in Nat, Admits(contract, asOf - lookback, asOf)
  PROVE  \A t \in asOf - lookback + 1 .. asOf : t - 1 \in DOMAIN bars
<1>1. /\ contract.first \in Nat /\ contract.last \in Nat /\ contract.gaps \subseteq Nat
      /\ contract.first .. contract.last \subseteq DOMAIN bars \cup contract.gaps
  BY DEF PitInv, ContractInv, NoContract, Admits
<1>2. PICK a \in Nat, b \in Nat : a = contract.first /\ b = contract.last /\ a <= asOf - lookback /\ asOf <= b
  BY <1>1 DEF Admits
<1> TAKE t \in asOf - lookback + 1 .. asOf
<1>3. t - 1 \in a .. b /\ t - 1 < asOf /\ asOf - lookback < (t - 1) + 1
  BY <1>2
<1>4. t - 1 \notin contract.gaps
  BY <1>3 DEF Admits
<1> QED BY <1>1, <1>2, <1>3, <1>4

LEMMA FeatureLoaded ==
  ASSUME PitInv, NEW asOf \in 0 .. clock, NEW lookback \in Lookbacks, LoadFeature(asOf, lookback)
  PROVE  PitInv'
<1>1. /\ Admits(contract, asOf - lookback, asOf)
      /\ served' = [of |-> "feature", asOf |-> asOf, lookback |-> lookback, rows |-> AsOf(points, asOf, lookback)]
      /\ UNCHANGED <<feature, clock, bars, holes, rates, points, contract>>
  BY DEF LoadFeature
<1>2. asOf \in Nat /\ lookback \in Nat
  BY ClockAssumption DEF PitInv
<1>3. /\ served'.of = "feature" /\ served'.asOf = asOf /\ served'.lookback = lookback
      /\ served'.rows = AsOf(points, asOf, lookback)
  BY <1>1
<1>4. /\ \A r \in AsOf(points, asOf, lookback) : r.available <= asOf /\ r.event <= asOf
      /\ \A r, o \in AsOf(points, asOf, lookback) : r.event = o.event => r = o
  BY <1>2, AsOfKeyed DEF PitInv
<1>5. \A t \in asOf - lookback + 1 .. asOf : t - 1 \in DOMAIN bars
  BY <1>1, <1>2, AdmittedHeld
<1>6. AsOfHolds'
  BY <1>1, <1>3, <1>4, <1>5 DEF AsOfHolds
<1>7. ServedInv'
  BY <1>1, <1>3, <1>6 DEF ServedInv
<1>8. ContractInv'
  BY <1>1 DEF PitInv, ContractInv
<1> QED BY <1>1, <1>7, <1>8 DEF PitInv, CorpusInv, RowTimed, RowKeyed

LEMMA AltLoaded ==
  ASSUME PitInv, NEW asOf \in 0 .. clock, NEW lookback \in Lookbacks, LoadAlt(asOf, lookback)
  PROVE  PitInv'
<1>1. /\ served' = [of |-> "alt", asOf |-> asOf, lookback |-> lookback, rows |-> AsOf(rates, asOf, lookback)]
      /\ UNCHANGED <<feature, clock, bars, holes, rates, points, contract>>
  BY DEF LoadAlt
<1>2. asOf \in Nat /\ lookback \in Nat
  BY ClockAssumption DEF PitInv
<1>3. served'.of = "alt" /\ served'.asOf = asOf /\ served'.rows = AsOf(rates, asOf, lookback)
  BY <1>1
<1>4. /\ \A r \in AsOf(rates, asOf, lookback) : r.available <= asOf /\ r.event <= asOf
      /\ \A r, o \in AsOf(rates, asOf, lookback) : r.event = o.event => r = o
  BY <1>2, AsOfKeyed DEF PitInv
<1>5. AsOfHolds'
  BY <1>1, <1>3, <1>4 DEF AsOfHolds
<1>6. ServedInv'
  BY <1>1, <1>3, <1>5 DEF ServedInv
<1>7. ContractInv'
  BY <1>1 DEF PitInv, ContractInv
<1> QED BY <1>1, <1>6, <1>7 DEF PitInv, CorpusInv, RowTimed, RowKeyed

LEMMA PitSteps == PitInv /\ [PitNext]_pitVars => PitInv'
<1> SUFFICES ASSUME PitInv, [PitNext]_pitVars PROVE PitInv'
  OBVIOUS
<1>1. CASE UNCHANGED pitVars
  BY <1>1 DEF pitVars, PitInv, CorpusInv, RowTimed, RowKeyed, ContractInv, ServedInv, AsOfHolds
<1>2. ASSUME NEW present \in (SUBSET (0 .. clock - 1)) \ {{}}, NEW mark \in [present -> Marks], IngestBars(present, mark)
      PROVE  PitInv'
  BY <1>2, BarsIngested
<1>3. ASSUME NEW open \in holes, NEW mark \in Marks, RepairBar(open, mark) PROVE PitInv'
  BY <1>3, BarRepaired
<1>4. ASSUME NEW events \in (SUBSET (0 .. clock)) \ {{}}, NEW published \in {0, clock}, NEW mark \in Marks,
             IngestRates(events, published, [e \in events |-> mark])
      PROVE  PitInv'
  BY <1>4, RatesIngested
<1>5. ASSUME NEW asOf \in 0 .. clock, NEW lookback \in Lookbacks,
             LoadFeature(asOf, lookback) \/ LoadAlt(asOf, lookback)
      PROVE  PitInv'
  BY <1>5, FeatureLoaded, AltLoaded
<1>6. CASE PassTime \/ AppendPoints \/ SnapshotCoverage \/ SnapshotGaps
  BY <1>6, TimePasses, PointsAppended, CoverageRead, GapsRead
<1> QED BY <1>1, <1>2, <1>3, <1>4, <1>5, <1>6 DEF PitNext

LEMMA PitInvTyped == PitInv => PitTyped
<1> SUFFICES ASSUME PitInv PROVE PitTyped
  OBVIOUS
<1>1. clock \in Nat /\ clock <= MaxTick /\ MaxTick \in Nat
  BY ClockAssumption DEF PitInv
<1>2. DOMAIN bars \subseteq 0 .. MaxTick /\ holes \subseteq 0 .. MaxTick /\ holes \cap DOMAIN bars = {}
  BY <1>1 DEF PitInv, CorpusInv
<1>3. contract.step \in {"none", "coverage", "taken"}
  BY DEF PitInv, ContractInv, NoContract
<1>4. served.of \in {"none", "feature", "alt"}
  BY DEF PitInv, ServedInv, NotServed
<1> QED BY <1>2, <1>3, <1>4 DEF PitInv, RowTimed, PitTyped

LEMMA PitInvHolds == PitInv => DataIsPointInTime
<1> SUFFICES ASSUME PitInv PROVE DataIsPointInTime
  OBVIOUS
<1>1. AsOfHolds
  BY DEF PitInv, ServedInv, AsOfHolds
<1> QED BY <1>1, PitInvPeeksNot DEF DataIsPointInTime

(* Bars and holes are apart and within the clock, and no row or value is    *)
(* known before the event it is of (FeatureValueWriter.append, the writer   *)
(* of alt_observations).                                                    *)
THEOREM PitStaysTyped == PitSpec => []PitTyped
  BY PitStarts, PitSteps, PitInvTyped, PTL DEF PitSpec

(* No value changes with what is observed after it and no label is entered  *)
(* at its decision (features/compute, forward_return_label); an answered    *)
(* read holds one value per event, none knowable after the instant, and     *)
(* spans bars that are all held, for any corpus being ingested and repaired *)
(* between the contract's two reads (AvailabilityContract.require,          *)
(* fking_feature_as_of, fking_alt_as_of).                                   *)
THEOREM PointInTimeKept == PitSpec => []DataIsPointInTime
  BY PitStarts, PitSteps, PitInvHolds, PTL DEF PitSpec

-----------------------------------------------------------------------------
(* Bars close in the order of their numbers.                               *)
LEMMA ClosesTyped ==
  ASSUME NEW n \in Nat
  PROVE  CloseOf(n) \in Nat
  BY RunAssumption DEF CloseOf

LEMMA ClosesAscend ==
  ASSUME NEW n \in Nat, NEW m \in Nat
  PROVE  n < m <=> CloseOf(n) < CloseOf(m)
<1> DEFINE width == Interval
<1>1. width \in Nat /\ width >= 1
  BY RunAssumption
<1>2. CloseOf(n) = n * width /\ CloseOf(m) = m * width
  BY DEF CloseOf
<1> HIDE DEF width
<1>3. ASSUME NEW a \in Nat, NEW b \in Nat, a < b PROVE a * width < b * width
  <2>1. PICK d \in Nat : b = a + d /\ d >= 1
    <3>1. b - a \in Nat /\ b = a + (b - a) /\ b - a >= 1
      BY <1>3
    <3> QED BY <3>1
  <2>2. b * width = a * width + d * width
    BY <1>1, <2>1
  <2>3. d * width >= width
    BY <1>1, <2>1
  <2>4. a * width \in Nat /\ d * width \in Nat
    BY <1>1, <2>1
  <2> QED BY <1>1, <2>2, <2>3, <2>4
<1>4. n * width \in Nat /\ m * width \in Nat
  BY <1>1
<1>5. CASE n < m
  BY <1>2, <1>3, <1>5
<1>6. CASE m < n
  <2>1. m * width < n * width
    BY <1>3, <1>6
  <2> QED BY <1>2, <1>4, <1>6, <2>1
<1>7. CASE n = m
  BY <1>2, <1>4, <1>7
<1> QED BY <1>5, <1>6, <1>7

(* The lattice is numbered, and closing times are whole.                   *)
LEMMA LatticeTyped ==
  ASSUME tape \in Tapes
  PROVE  /\ Len(tape) \in Nat /\ Lattice \subseteq Nat
         /\ \A n \in Lattice : CloseOf(n) \in Nat
<1>1. Len(tape) \in Nat
  BY RunAssumption
<1>2. Lattice \subseteq Nat
  BY <1>1 DEF Lattice
<1> QED BY <1>1, <1>2, ClosesTyped

-----------------------------------------------------------------------------
(* What the venue answers: an order in the book stays the one it was, and  *)
(* a print says when it was made and on which bar.                         *)
VenueOf(q, r, p, s, f, k) ==
  [quote |-> q, resting |-> r, pending |-> p, recent |-> s, prints |-> f, refusals |-> k]
Venue(v) ==
  /\ v = VenueOf(v.quote, v.resting, v.pending, v.recent, v.prints, v.refusals)
  /\ \A r \in v.resting : r = [order |-> r.order, ahead |-> r.ahead, left |-> r.left, count |-> r.count]
  /\ IsFiniteSet(v.resting)

Listed(events) == \E k \in Nat : DOMAIN events = 1 .. k /\ \E S : events \in Seq(S)
NoAcks(events) == \A n \in DOMAIN events : events[n].kind \in {"fill", "reject"} /\ events[n].at \in Nat

LEMMA ConsumeKeeps ==
  ASSUME NEW r, NEW bar,
         r = [order |-> r.order, ahead |-> r.ahead, left |-> r.left, count |-> r.count]
  PROVE  LET rest == Consume(r, bar).rest
         IN  /\ rest.order = r.order
             /\ rest = [order |-> rest.order, ahead |-> rest.ahead, left |-> rest.left, count |-> rest.count]
  BY DEF Consume

LEMMA VenueFields ==
  ASSUME NEW q, NEW r, NEW p, NEW s, NEW f, NEW k
  PROVE  LET v == VenueOf(q, r, p, s, f, k)
         IN  /\ v.quote = q /\ v.resting = r /\ v.pending = p
             /\ v.recent = s /\ v.prints = f /\ v.refusals = k
  BY DEF VenueOf

LEMMA Updates ==
  ASSUME NEW v, v = VenueOf(v.quote, v.resting, v.pending, v.recent, v.prints, v.refusals), NEW x
  PROVE  /\ [v EXCEPT !.quote = x]    = VenueOf(x, v.resting, v.pending, v.recent, v.prints, v.refusals)
         /\ [v EXCEPT !.resting = x]  = VenueOf(v.quote, x, v.pending, v.recent, v.prints, v.refusals)
         /\ [v EXCEPT !.pending = x]  = VenueOf(v.quote, v.resting, x, v.recent, v.prints, v.refusals)
         /\ [v EXCEPT !.recent = x]   = VenueOf(v.quote, v.resting, v.pending, x, v.prints, v.refusals)
         /\ [v EXCEPT !.prints = x]   = VenueOf(v.quote, v.resting, v.pending, v.recent, x, v.refusals)
         /\ [v EXCEPT !.refusals = x] = VenueOf(v.quote, v.resting, v.pending, v.recent, v.prints, x)
<1>1. PICK q, r, p, s, f, k : q = v.quote /\ r = v.resting /\ p = v.pending /\ s = v.recent
                              /\ f = v.prints /\ k = v.refusals
  OBVIOUS
<1>2. v = VenueOf(q, r, p, s, f, k)
  BY <1>1
<1>3. [v EXCEPT !.quote = x] = VenueOf(x, r, p, s, f, k) /\ [v EXCEPT !.resting = x] = VenueOf(q, x, p, s, f, k)
  BY <1>2 DEF VenueOf
<1>4. [v EXCEPT !.pending = x] = VenueOf(q, r, x, s, f, k) /\ [v EXCEPT !.recent = x] = VenueOf(q, r, p, x, f, k)
  BY <1>2 DEF VenueOf
<1>5. [v EXCEPT !.prints = x] = VenueOf(q, r, p, s, x, k) /\ [v EXCEPT !.refusals = x] = VenueOf(q, r, p, s, f, x)
  BY <1>2 DEF VenueOf
<1> QED BY <1>1, <1>3, <1>4, <1>5

LEMMA VenueBy ==
  ASSUME NEW v, NEW q, NEW r, NEW p, NEW s, NEW f, NEW k, v = VenueOf(q, r, p, s, f, k)
  PROVE  /\ v = VenueOf(v.quote, v.resting, v.pending, v.recent, v.prints, v.refusals)
         /\ v.quote = q /\ v.resting = r /\ v.pending = p /\ v.recent = s /\ v.prints = f /\ v.refusals = k
  BY VenueFields

LEMMA AnnouncedKinds ==
  ASSUME NEW fills, \A n \in DOMAIN fills : fills[n].at \in Nat
  PROVE  NoAcks(Announced(fills))
  BY DEF NoAcks, Announced

LEMMA OneListed ==
  ASSUME NEW x
  PROVE  DOMAIN <<x>> = {1} /\ <<x>>[1] = x /\ Listed(<<x>>)
<1>1. <<x>> \in Seq({x}) /\ DOMAIN <<x>> = 1 .. 1 /\ 1 .. 1 = {1} /\ <<x>>[1] = x
  OBVIOUS
<1> QED BY <1>1 DEF Listed

LEMMA AnnouncedListed ==
  ASSUME NEW fills, NEW k \in Nat, DOMAIN fills = 1 .. k
  PROVE  Listed(Announced(fills))
<1> DEFINE S == {[kind |-> "fill", fill |-> fills[n], at |-> fills[n].at] : n \in 1 .. k}
<1>1. Announced(fills) = [n \in 1 .. k |-> [kind |-> "fill", fill |-> fills[n], at |-> fills[n].at]]
  BY DEF Announced
<1>2. Announced(fills) \in [1 .. k -> S]
  BY <1>1
<1> HIDE DEF S
<1>3. Announced(fills) \in Seq(S) /\ DOMAIN Announced(fills) = 1 .. k
  BY <1>2
<1> QED BY <1>3 DEF Listed

LEMMA ObserveSays ==
  ASSUME NEW v, Venue(v), NEW bar, bar.close \in Nat
  PROVE  /\ Venue(ObserveBar(v, bar).venue)
         /\ ObserveBar(v, bar).venue.quote.asOf = bar.close
         /\ \A r \in ObserveBar(v, bar).venue.resting : \E o \in v.resting : r.order = o.order
         /\ \A p \in ObserveBar(v, bar).venue.prints :
              \/ p \in v.prints
              \/ \E r \in v.resting : /\ p.order = r.order.id /\ p.passive = TRUE
                                      /\ p.at = bar.close /\ p.pricedOn = bar.close
         /\ NoAcks(ObserveBar(v, bar).events) /\ Listed(ObserveBar(v, bar).events)
<1> DEFINE quoted == [v EXCEPT !.quote = QuoteFrom(bar)]
           consumed   == {[was |-> r, now |-> Consume(r, bar)] : r \in v.resting}
           filled == {p \in consumed : p.now.filled > 0}
           rests  == {p.now.rest : p \in {x \in consumed : x.now.rest.left > 0}}
           prints == {PrintOf(quoted, bar, p) : p \in filled}
           inTurn == InIdOrder(filled)
           after  == [quoted EXCEPT !.resting = rests, !.prints = @ \cup prints]
<1>1. ObserveBar(v, bar) =
        [venue |-> after, events |-> Announced([n \in DOMAIN inTurn |-> PrintOf(quoted, bar, inTurn[n])])]
  BY DEF ObserveBar
<1>2. /\ ObserveBar(v, bar).venue = after
      /\ ObserveBar(v, bar).events = Announced([n \in DOMAIN inTurn |-> PrintOf(quoted, bar, inTurn[n])])
  BY <1>1
<1>3. quoted = VenueOf(QuoteFrom(bar), v.resting, v.pending, v.recent, v.prints, v.refusals)
  BY Updates DEF Venue
<1>4. quoted.quote.asOf = bar.close
  BY <1>3, VenueBy DEF QuoteFrom
<1>5. after = VenueOf(QuoteFrom(bar), rests, v.pending, v.recent, v.prints \cup prints, v.refusals)
  <2> HIDE DEF consumed, filled, inTurn, rests, prints, quoted, after
  <2> DEFINE reset == [quoted EXCEPT !.resting = rests]
  <2>1. /\ quoted = VenueOf(quoted.quote, quoted.resting, quoted.pending, quoted.recent, quoted.prints,
                           quoted.refusals)
        /\ quoted.quote = QuoteFrom(bar) /\ quoted.resting = v.resting /\ quoted.pending = v.pending
        /\ quoted.recent = v.recent /\ quoted.prints = v.prints /\ quoted.refusals = v.refusals
    BY <1>3, VenueBy
  <2>2. reset = VenueOf(QuoteFrom(bar), rests, v.pending, v.recent, v.prints, v.refusals)
    <3>1. reset = VenueOf(quoted.quote, rests, quoted.pending, quoted.recent, quoted.prints, quoted.refusals)
      BY <2>1, Updates
    <3> QED BY <2>1, <3>1
  <2> HIDE DEF reset
  <2>3. /\ reset = VenueOf(reset.quote, reset.resting, reset.pending, reset.recent, reset.prints, reset.refusals)
        /\ reset.quote = QuoteFrom(bar) /\ reset.resting = rests /\ reset.pending = v.pending
        /\ reset.recent = v.recent /\ reset.prints = v.prints /\ reset.refusals = v.refusals
    BY <2>2, VenueBy
  <2>4. [reset EXCEPT !.prints = v.prints \cup prints]
          = VenueOf(QuoteFrom(bar), rests, v.pending, v.recent, v.prints \cup prints, v.refusals)
    <3>1. [reset EXCEPT !.prints = v.prints \cup prints]
            = VenueOf(reset.quote, reset.resting, reset.pending, reset.recent, v.prints \cup prints, reset.refusals)
      BY <2>3, Updates
    <3> QED BY <2>3, <3>1
  <2>5. after = [reset EXCEPT !.prints = v.prints \cup prints]
    <3>1. [quoted EXCEPT !.resting = rests, !.prints = quoted.prints \cup prints]
            = [[quoted EXCEPT !.resting = rests] EXCEPT !.prints = quoted.prints \cup prints]
      OBVIOUS
    <3> QED BY <2>1, <3>1 DEF reset, after
  <2> QED BY <2>4, <2>5
<1>6. ASSUME NEW r \in rests
      PROVE  /\ \E o \in v.resting : r.order = o.order
             /\ r = [order |-> r.order, ahead |-> r.ahead, left |-> r.left, count |-> r.count]
  <2>1. PICK o \in v.resting : r = Consume(o, bar).rest
    <3>1. PICK p \in consumed : r = p.now.rest
      OBVIOUS
    <3> QED BY <3>1
  <2>2. o = [order |-> o.order, ahead |-> o.ahead, left |-> o.left, count |-> o.count]
    BY DEF Venue
  <2> QED BY <2>1, <2>2, ConsumeKeeps
<1>7. ASSUME NEW p \in prints
      PROVE  \E r \in v.resting : /\ p.order = r.order.id /\ p.passive = TRUE
                                  /\ p.at = bar.close /\ p.pricedOn = bar.close
  <2>1. PICK x \in consumed : p = PrintOf(quoted, bar, x)
    OBVIOUS
  <2>2. x.was \in v.resting
    OBVIOUS
  <2>3. p.order = x.was.order.id /\ p.passive = TRUE /\ p.at = bar.close /\ p.pricedOn = quoted.quote.asOf
    <3> HIDE DEF quoted, consumed, prints
    <3> QED BY <2>1 DEF PrintOf, FillOf
  <2> QED BY <1>4, <2>2, <2>3
<1>12. IsFiniteSet(rests) /\ IsFiniteSet(filled)
  <2>1. IsFiniteSet(v.resting)
    BY DEF Venue
  <2>2. IsFiniteSet(consumed)
    <3> DEFINE W(r) == [was |-> r, now |-> Consume(r, bar)]
    <3>1. IsFiniteSet({W(r) : r \in v.resting})
      <4> DEFINE f == [r \in v.resting |-> W(r)]
      <4>1. f \in Surjection(v.resting, {W(r) : r \in v.resting})
        <5> HIDE DEF W
        <5> QED BY DEF Surjection
      <4> HIDE DEF W, f
      <4> QED BY <2>1, <4>1, FS_Surjection
    <3> QED BY <3>1
  <2>3. filled \subseteq consumed /\ {x \in consumed : x.now.rest.left > 0} \subseteq consumed
    OBVIOUS
  <2>4. IsFiniteSet(filled) /\ IsFiniteSet({x \in consumed : x.now.rest.left > 0})
    <3> HIDE DEF consumed, filled
    <3> QED BY <2>2, <2>3, FS_Subset
  <2>5. IsFiniteSet(rests)
    <3> DEFINE left == {x \in consumed : x.now.rest.left > 0}
               W(p) == p.now.rest
    <3>1. rests = {W(p) : p \in left} /\ IsFiniteSet(left)
      BY <2>4
    <3> HIDE DEF left, W, rests
    <3>2. IsFiniteSet({W(p) : p \in left})
      <4> DEFINE f == [p \in left |-> W(p)]
      <4>1. f \in Surjection(left, {W(p) : p \in left})
        BY DEF Surjection
      <4> HIDE DEF f
      <4> QED BY <3>1, <4>1, FS_Surjection
    <3> QED BY <3>1, <3>2
  <2> QED BY <2>4, <2>5
<1>13. Listed(ObserveBar(v, bar).events)
  <2> DEFINE fills == [n \in DOMAIN inTurn |-> PrintOf(quoted, bar, inTurn[n])]
  <2>1. DOMAIN fills = 1 .. Cardinality(filled)
    <3> HIDE DEF filled
    <3> QED BY DEF InIdOrder
  <2>2. Cardinality(filled) \in Nat
    BY <1>12, FS_CardinalityType
  <2> HIDE DEF fills, filled
  <2>3. Listed(Announced(fills))
    BY <2>1, <2>2, AnnouncedListed
  <2> QED BY <1>2, <2>3 DEF fills
<1> HIDE DEF after, rests, prints, quoted, consumed, filled, inTurn
<1>8. /\ after.quote = QuoteFrom(bar) /\ after.resting = rests /\ after.pending = v.pending
      /\ after.recent = v.recent /\ after.prints = v.prints \cup prints /\ after.refusals = v.refusals
      /\ after = VenueOf(after.quote, after.resting, after.pending, after.recent, after.prints, after.refusals)
  BY <1>5, VenueBy
<1>9. Venue(after)
  BY <1>6, <1>8, <1>12 DEF Venue
<1>10. after.quote.asOf = bar.close
  BY <1>8 DEF QuoteFrom
<1>11. NoAcks(ObserveBar(v, bar).events)
  <2> DEFINE fills == [n \in DOMAIN inTurn |-> PrintOf(quoted, bar, inTurn[n])]
  <2>1. \A n \in DOMAIN fills : fills[n].at \in Nat
    BY DEF PrintOf, FillOf
  <2> HIDE DEF fills
  <2>2. NoAcks(Announced(fills))
    BY <2>1, AnnouncedKinds
  <2> QED BY <1>2, <2>2 DEF fills
<1> QED BY <1>2, <1>6, <1>7, <1>8, <1>9, <1>10, <1>11, <1>13

LEMMA RefuseSays ==
  ASSUME NEW v, Venue(v), NEW o, NEW at \in Nat, NEW reason
  PROVE  LET answer == Refuse(v, o, at, reason)
         IN  /\ Venue(answer.venue) /\ answer.venue.quote = v.quote
             /\ answer.venue.resting = v.resting /\ answer.venue.prints = v.prints
             /\ NoAcks(answer.events)
<1> DEFINE noted == Append(v.refusals, [order |-> o.id, reason |-> reason])
           after == [v EXCEPT !.refusals = noted]
<1>1. after = VenueOf(v.quote, v.resting, v.pending, v.recent, v.prints, noted)
  <2> HIDE DEF noted
  <2> QED BY Updates DEF Venue
<1>2. /\ Refuse(v, o, at, reason).venue = after
      /\ Refuse(v, o, at, reason).events =
           <<[kind |-> "reject", order |-> o, at |-> at, reason |-> reason]>>
  BY DEF Refuse
<1>3. Venue(after) /\ after.quote = v.quote /\ after.resting = v.resting /\ after.prints = v.prints
  <2> HIDE DEF after, noted
  <2> QED BY <1>1, VenueBy DEF Venue
<1>4. NoAcks(<<[kind |-> "reject", order |-> o, at |-> at, reason |-> reason]>>)
  BY DEF NoAcks
<1> QED BY <1>2, <1>3, <1>4

LEMMA AckTyped ==
  ASSUME NEW t \in Nat
  PROVE  AckAt(t) \in Nat /\ t <= AckAt(t)
<1>1. Latency.send \in Nat /\ Latency.ack \in Nat
  BY VenueSimulationAssumption
<1> QED BY <1>1 DEF AckAt

LEMMA SubmitSays ==
  ASSUME NEW v, Venue(v), NEW o, NEW decided \in Nat
  PROVE  LET answer == Submit(v, o, decided)
         IN  /\ Venue(answer.venue) /\ answer.venue.quote = v.quote
             /\ answer.venue.resting = v.resting /\ answer.venue.prints = v.prints
             /\ DOMAIN answer.events = {1} /\ Listed(answer.events)
             /\ \/ answer.events[1].kind = "reject" /\ answer.events[1].at \in Nat
                \/ answer.events[1] = [kind |-> "ack", order |-> o, at |-> AckAt(decided)]
<1> DEFINE arrives == decided + Latency.send
           recent  == Recent(v.recent, arrives)
           reason  == Screened(v, o, recent)
           kept    == IF Len(recent) < RateBudget THEN Append(recent, arrives) ELSE recent
           met     == [v EXCEPT !.recent = kept]
           taken   == [met EXCEPT !.pending = @ \cup {o}]
<1>0. AckAt(decided) \in Nat
  BY AckTyped
<1>1. Submit(v, o, decided) =
        IF reason # "none" THEN Refuse(met, o, AckAt(decided), reason)
        ELSE [venue |-> taken, events |-> <<[kind |-> "ack", order |-> o, at |-> AckAt(decided)]>>]
  BY DEF Submit
<1> HIDE DEF arrives, recent, reason, kept
<1>2. met = VenueOf(v.quote, v.resting, v.pending, kept, v.prints, v.refusals)
  BY Updates DEF Venue
<1> HIDE DEF met
<1>3. Venue(met) /\ met.quote = v.quote /\ met.resting = v.resting /\ met.prints = v.prints
  BY <1>2, VenueBy DEF Venue
<1>4. taken = VenueOf(met.quote, met.resting, met.pending \cup {o}, met.recent, met.prints, met.refusals)
  BY <1>3, Updates DEF Venue
<1> HIDE DEF taken
<1>5. Venue(taken) /\ taken.quote = v.quote /\ taken.resting = v.resting /\ taken.prints = v.prints
  BY <1>3, <1>4, VenueBy DEF Venue
<1>6. CASE reason # "none"
  <2> DEFINE x == [kind |-> "reject", order |-> o, at |-> AckAt(decided), reason |-> reason]
  <2>1. Submit(v, o, decided) = Refuse(met, o, AckAt(decided), reason)
    BY <1>1, <1>6
  <2>2. Refuse(met, o, AckAt(decided), reason).events = <<x>>
    BY DEF Refuse
  <2>3. x.kind = "reject" /\ x.at \in Nat
    BY <1>0
  <2> HIDE DEF x
  <2>4. DOMAIN <<x>> = {1} /\ <<x>>[1] = x /\ Listed(<<x>>)
    BY OneListed
  <2> QED BY <1>0, <1>3, <2>1, <2>2, <2>3, <2>4, RefuseSays
<1>7. CASE reason = "none"
  <2> DEFINE x == [kind |-> "ack", order |-> o, at |-> AckAt(decided)]
  <2>1. Submit(v, o, decided) = [venue |-> taken, events |-> <<x>>]
    BY <1>1, <1>7
  <2> HIDE DEF x
  <2>2. Submit(v, o, decided).venue = taken /\ Submit(v, o, decided).events = <<x>>
    BY <2>1
  <2>3. DOMAIN <<x>> = {1} /\ <<x>>[1] = x /\ Listed(<<x>>)
    BY OneListed
  <2> QED BY <1>5, <2>2, <2>3 DEF x
<1> QED BY <1>6, <1>7

(* A print that was made when an order's acknowledgement was resolved.     *)
Crossed(p, o, quote, ackedAt) ==
  /\ p.order = o.id /\ p.passive = FALSE /\ p.pricedOn = quote.asOf
  /\ ackedAt + Latency.fill <= p.at

LEMMA CrossSays ==
  ASSUME NEW v, Venue(v), NEW o, NEW ackedAt \in Nat
  PROVE  LET answer == Cross(v, o, ackedAt + Latency.fill)
         IN  /\ Venue(answer.venue) /\ answer.venue.quote = v.quote
             /\ answer.venue.resting = v.resting /\ NoAcks(answer.events)
             /\ \A p \in answer.venue.prints : p \in v.prints \/ Crossed(p, o, v.quote, ackedAt)
<1> DEFINE at     == ackedAt + Latency.fill
           touch  == TouchFor(v.quote, o.side)
           front  == Min({o.size, Depth.touch})
           beyond2 == o.size - front
           walked == (BandTicks * beyond2) \div (2 * (Depth.band - Depth.touch))
           worse  == IF o.side = "BUY" THEN touch + walked ELSE touch - walked
           first  == FillOf(v, o, 0, at, ClampIntoRange(v.quote, touch), front, FALSE)
           second == FillOf(v, o, 1, at + FillGap, ClampIntoRange(v.quote, worse), beyond2, FALSE)
           one    == [v EXCEPT !.prints = @ \cup {first}]
           two    == [v EXCEPT !.prints = @ \cup {first, second}]
<1>1. Cross(v, o, at) =
        IF o.size > Depth.band THEN Refuse(v, o, at, "unfillable_depth")
        ELSE IF beyond2 = 0 THEN [venue |-> one, events |-> Announced(<<first>>)]
        ELSE [venue |-> two, events |-> Announced(<<first, second>>)]
  BY DEF Cross
<1>2. Latency.fill \in Nat /\ FillGap \in Nat
  BY VenueSimulationAssumption
<1>3. at \in Nat /\ at + FillGap \in Nat /\ ackedAt + Latency.fill <= at /\ ackedAt + Latency.fill <= at + FillGap
  BY <1>2
<1> HIDE DEF touch, front, beyond2, walked, worse
<1>4. /\ Crossed(first, o, v.quote, ackedAt) /\ Crossed(second, o, v.quote, ackedAt)
      /\ first.at \in Nat /\ second.at \in Nat
  <2> HIDE DEF at
  <2> QED BY <1>3 DEF Crossed, FillOf
<1> HIDE DEF first, second, at
<1>5. /\ one = VenueOf(v.quote, v.resting, v.pending, v.recent, v.prints \cup {first}, v.refusals)
      /\ two = VenueOf(v.quote, v.resting, v.pending, v.recent, v.prints \cup {first, second}, v.refusals)
  BY Updates DEF Venue
<1> HIDE DEF one, two
<1>6. /\ Venue(one) /\ one.quote = v.quote /\ one.resting = v.resting /\ one.prints = v.prints \cup {first}
      /\ Venue(two) /\ two.quote = v.quote /\ two.resting = v.resting
      /\ two.prints = v.prints \cup {first, second}
  BY <1>5, VenueBy DEF Venue
<1>7. NoAcks(Announced(<<first>>)) /\ NoAcks(Announced(<<first, second>>))
  <2>1. (\A n \in DOMAIN <<first>> : <<first>>[n].at \in Nat)
        /\ \A n \in DOMAIN <<first, second>> : <<first, second>>[n].at \in Nat
    BY <1>4
  <2> QED BY <2>1, AnnouncedKinds
<1>8. CASE o.size > Depth.band
  <2>1. Cross(v, o, at) = Refuse(v, o, at, "unfillable_depth")
    BY <1>1, <1>8
  <2> QED BY <1>3, <2>1, RefuseSays DEF at
<1>9. CASE ~(o.size > Depth.band) /\ beyond2 = 0
  <2>1. Cross(v, o, at) = [venue |-> one, events |-> Announced(<<first>>)]
    BY <1>1, <1>9
  <2>2. Cross(v, o, at).venue = one /\ Cross(v, o, at).events = Announced(<<first>>)
    BY <2>1
  <2> QED BY <1>4, <1>6, <1>7, <2>2 DEF at
<1>10. CASE ~(o.size > Depth.band) /\ beyond2 # 0
  <2>1. Cross(v, o, at) = [venue |-> two, events |-> Announced(<<first, second>>)]
    BY <1>1, <1>10
  <2>2. Cross(v, o, at).venue = two /\ Cross(v, o, at).events = Announced(<<first, second>>)
    BY <2>1
  <2> QED BY <1>4, <1>6, <1>7, <2>2 DEF at
<1> QED BY <1>8, <1>9, <1>10

LEMMA ResolveSays ==
  ASSUME NEW v, Venue(v), NEW o, NEW ackedAt \in Nat
  PROVE  LET answer == ResolveAck(v, o, ackedAt)
         IN  /\ Venue(answer.venue) /\ answer.venue.quote = v.quote /\ NoAcks(answer.events)
             /\ \A r \in answer.venue.resting : r \in v.resting \/ r.order = o
             /\ \A p \in answer.venue.prints : p \in v.prints \/ Crossed(p, o, v.quote, ackedAt)
<1> DEFINE held  == [v EXCEPT !.pending = @ \ {o}]
           at    == ackedAt + Latency.fill
           entry == [order |-> o, ahead |-> Depth.touch, left |-> o.size, count |-> 0]
           rests == [held EXCEPT !.resting = @ \cup {entry}]
<1>0. at \in Nat
  BY VenueSimulationAssumption
<1>1. ResolveAck(v, o, ackedAt) =
        IF Marketable(v, o) THEN Cross(held, o, at)
        ELSE IF o.tif # "GTC" THEN Refuse(held, o, at, "unfillable_depth")
        ELSE [venue |-> rests, events |-> <<>>]
  BY DEF ResolveAck
<1>2. held = VenueOf(v.quote, v.resting, v.pending \ {o}, v.recent, v.prints, v.refusals)
  BY Updates DEF Venue
<1> HIDE DEF held
<1>3. Venue(held) /\ held.quote = v.quote /\ held.resting = v.resting /\ held.prints = v.prints
  BY <1>2, VenueBy DEF Venue
<1>5. entry.order = o
      /\ entry = [order |-> entry.order, ahead |-> entry.ahead, left |-> entry.left, count |-> entry.count]
  OBVIOUS
<1> HIDE DEF entry
<1>4. rests = VenueOf(held.quote, held.resting \cup {entry}, held.pending, held.recent, held.prints,
                      held.refusals)
  BY <1>3, Updates DEF Venue
<1> HIDE DEF rests
<1>6. /\ Venue(rests) /\ rests.quote = v.quote /\ rests.resting = v.resting \cup {entry}
      /\ rests.prints = v.prints
  <2>1. IsFiniteSet(v.resting \cup {entry})
    BY FS_AddElement DEF Venue
  <2>2. /\ rests = VenueOf(rests.quote, rests.resting, rests.pending, rests.recent, rests.prints, rests.refusals)
        /\ rests.quote = v.quote /\ rests.resting = v.resting \cup {entry} /\ rests.prints = v.prints
    BY <1>3, <1>4, VenueBy
  <2>3. \A r \in v.resting \cup {entry} :
          r = [order |-> r.order, ahead |-> r.ahead, left |-> r.left, count |-> r.count]
    BY <1>5 DEF Venue
  <2> QED BY <2>1, <2>2, <2>3 DEF Venue
<1>7. CASE Marketable(v, o)
  <2>1. ResolveAck(v, o, ackedAt) = Cross(held, o, ackedAt + Latency.fill)
    BY <1>1, <1>7
  <2> DEFINE answer == Cross(held, o, ackedAt + Latency.fill)
  <2>2. /\ Venue(answer.venue) /\ answer.venue.quote = held.quote
        /\ answer.venue.resting = held.resting /\ NoAcks(answer.events)
        /\ \A p \in answer.venue.prints : p \in held.prints \/ Crossed(p, o, held.quote, ackedAt)
    BY <1>3, CrossSays
  <2> QED BY <1>3, <2>1, <2>2
<1>8. CASE ~Marketable(v, o) /\ o.tif # "GTC"
  <2>1. ResolveAck(v, o, ackedAt) = Refuse(held, o, at, "unfillable_depth")
    BY <1>1, <1>8
  <2> QED BY <1>0, <1>3, <2>1, RefuseSays
<1>9. CASE ~Marketable(v, o) /\ o.tif = "GTC"
  <2>1. ResolveAck(v, o, ackedAt) = [venue |-> rests, events |-> <<>>]
    BY <1>1, <1>9
  <2>2. ResolveAck(v, o, ackedAt).venue = rests /\ ResolveAck(v, o, ackedAt).events = <<>>
    BY <2>1
  <2>3. NoAcks(<<>>)
    BY DEF NoAcks
  <2> QED BY <1>5, <1>6, <2>2, <2>3
<1> QED BY <1>7, <1>8, <1>9

-----------------------------------------------------------------------------
(* The queue: what is scheduled is not in the past, and the earliest goes  *)
(* first.                                                                  *)
Brings(f, x, now) ==
  f.event = x /\ f.at = x.at /\ f.priority = Priority(x) /\ now <= f.at /\ f.at <= EndAt

LEMMA QueuedBrings ==
  ASSUME NEW events, NEW from, NEW now, \A n \in DOMAIN events : now <= events[n].at,
         NEW f \in Queued(events, from)
  PROVE  \E n \in DOMAIN events : Brings(f, events[n], now)
<1>1. PICK n \in InsideReplay(events) :
        f = [at |-> events[n].at, priority |-> Priority(events[n]), event |-> events[n],
             seq |-> from + Cardinality({m \in InsideReplay(events) : m < n})]
  BY DEF Queued
<1>2. n \in DOMAIN events /\ events[n].at <= EndAt
  BY DEF InsideReplay
<1>3. f.event = events[n] /\ f.at = events[n].at /\ f.priority = Priority(events[n])
  BY <1>1
<1> QED BY <1>2, <1>3 DEF Brings

LEMMA QueueAfter ==
  ASSUME NEW rest, NEW events, Schedule(rest, events)
  PROVE  /\ \A f \in queue' : f \in rest \/ \E n \in DOMAIN events : Brings(f, events[n], simNow')
         /\ phase' = "failed" \/ (phase' = phase /\ rest \subseteq queue')
<1>1. CASE \A n \in DOMAIN events : simNow' <= events[n].at
  <2>1. queue' = rest \cup Queued(events, nextSeq) /\ phase' = phase
    BY <1>1 DEF Schedule
  <2> QED BY <1>1, <2>1, QueuedBrings
<1>2. CASE ~\A n \in DOMAIN events : simNow' <= events[n].at
  <2>1. phase' = "failed" /\ queue' = {}
    BY <1>2 DEF Schedule
  <2> QED BY <2>1
<1> QED BY <1>1, <1>2

LEMMA Popped ==
  ASSUME NEW e, Pop(e)
  PROVE  /\ e \in queue /\ simNow' = e.at /\ tape' = tape /\ stored' = stored /\ charged' = charged
         /\ \A f \in queue \ {e} : InOrder(e, f) /\ simNow' <= f.at
  BY DEF Pop, EarliestEvent, InOrder

-----------------------------------------------------------------------------
(* The invariant of a run that is simulated: of the bars, those dispatched *)
(* precede those that wait, and the last of them made the quote; an order  *)
(* was decided on a dispatched bar, and rests since before any that waits. *)
DueBars == {e.event.n : e \in {f \in queue : f.event.kind = "bar"}}
SeenBars == {n \in Lattice : CloseOf(n) <= EndAt /\ n \notin DueBars}
AckOf(n) == AckAt(CloseOf(n))
IsBar(e) == e.event.n \in Lattice /\ e.at = CloseOf(e.event.n) /\ e.priority = 0
IsAck(e, n) == e.event.order = OrderOfDay(n) /\ e.event.at = AckOf(n) /\ e.at = AckOf(n) /\ e.priority = 2
RestsSince(r, n) == r.order = OrderOfDay(n) /\ \A m \in DueBars : AckOf(n) < CloseOf(m)
KnewNoMore(p, ack) ==
  IF p.passive THEN ack < p.at /\ p.pricedOn = p.at
  ELSE ack + Latency.fill <= p.at /\ p.pricedOn = Max(ClosesUpTo(ack))
PrintIs(p, n) == p.order = OrderOfDay(n).id /\ KnewNoMore(p, AckOf(n))

QueueInv ==
  /\ \A e \in queue : e.at \in Nat /\ e.at <= EndAt
  /\ \A e \in queue : e.event.kind = "bar" => IsBar(e)
  /\ \A e, f \in queue : e.event.kind = "bar" /\ f.event.kind = "bar" /\ e.event.n = f.event.n => e = f
  /\ \A e \in queue : e.event.kind = "ack" => \E n \in Ordered : IsAck(e, n)
  /\ \A n \in DueBars, m \in Lattice : n <= m /\ CloseOf(m) <= EndAt => m \in DueBars
QuoteInv ==
  /\ \A n \in SeenBars : CloseOf(n) <= simNow /\ CloseOf(n) <= venue.quote.asOf
  /\ SeenBars = {} \/ \E n \in SeenBars : venue.quote.asOf = CloseOf(n)
OrdersInv ==
  /\ decisions = [n \in Lattice |-> decisions[n]] /\ Ordered \subseteq SeenBars
  /\ \A n \in Ordered : OrderOfDay(n).id \in 1 .. Cardinality(Ordered)
  /\ \A n, m \in Ordered : OrderOfDay(n).id = OrderOfDay(m).id => n = m
BookInv ==
  /\ Venue(venue)
  /\ \A r \in venue.resting : \E n \in Ordered : RestsSince(r, n)
  /\ \A p \in venue.prints : \E n \in Ordered : PrintIs(p, n)
SimulationInv == simNow \in Nat /\ QueueInv /\ QuoteInv /\ OrdersInv /\ BookInv

NothingYet ==
  /\ decisions = [n \in Lattice |-> <<>>]
  /\ \E lost \in {{}} \cup {{n} : n \in Lattice} : stored = Lattice \ lost
RunInv ==
  /\ phase \in {"loading", "simulated", "replayed", "refused", "failed", "done"}
  /\ tape \in Tapes /\ charged \in {0, 1}
  /\ phase = "loading" => NothingYet
  /\ phase \in {"simulated", "replayed", "done"} => charged > 0 /\ stored = Lattice
  /\ \A e \in queue : simNow <= e.at
  /\ phase = "simulated" => SimulationInv

(* What the invariant says of the run: no event of the past, no print that *)
(* knew more than it may.                                                  *)
LEMMA RunInvHolds == RunInv => NoLookAhead
<1> SUFFICES ASSUME RunInv PROVE NoLookAhead
  OBVIOUS
<1>1. ASSUME phase = "simulated", NEW n \in Ordered, NEW p \in PrintsOf(OrderOfDay(n))
      PROVE  KnewNoMore(p, AckOf(n))
  <2>1. BookInv /\ OrdersInv
    BY <1>1 DEF RunInv, SimulationInv
  <2>2. p \in venue.prints /\ p.order = OrderOfDay(n).id
    BY DEF PrintsOf
  <2>3. PICK m \in Ordered : PrintIs(p, m)
    BY <2>1, <2>2 DEF BookInv
  <2>4. n = m
    BY <2>1, <2>2, <2>3 DEF OrdersInv, PrintIs
  <2> QED BY <2>3, <2>4 DEF PrintIs
<1>2. phase = "simulated" => \A n \in Ordered : LET ack == AckAt(CloseOf(n)) IN
        \A p \in PrintsOf(OrderOfDay(n)) :
          IF p.passive THEN p.at > ack /\ p.pricedOn = p.at
          ELSE p.at >= ack + Latency.fill /\ p.pricedOn = Max(ClosesUpTo(ack))
  <2> HIDE DEF RunInv
  <2> QED BY <1>1 DEF KnewNoMore, AckOf
<1> QED BY <1>2 DEF NoLookAhead, RunInv

LEMMA RunInvStarts == RunInit => RunInv
  BY DEF RunInit, RunInv, NothingYet

(* The feed's bars, all of them waiting.                                   *)
LEMMA FeedQueued ==
  ASSUME tape \in Tapes, NEW v, Started(v)
  PROVE  /\ simNow' = 0 /\ venue' = v
         /\ \A e \in queue' : 0 <= e.at
         /\ \A e \in queue' : e.event.kind = "bar" /\ e.event.n \in Lattice /\ e.at = CloseOf(e.event.n)
                              /\ e.at <= EndAt /\ e.priority = 0
         /\ \A e, f \in queue' : e.event.n = f.event.n => e = f
         /\ \A n \in Lattice : CloseOf(n) <= EndAt => \E e \in queue' : e.event.kind = "bar" /\ e.event.n = n
<1> DEFINE place(n) == Cardinality({m \in InsideReplay(FeedEvents) : m < n})
           entry(n) == [at |-> CloseOf(n), priority |-> 0, event |-> [kind |-> "bar", n |-> n, at |-> CloseOf(n)],
                        seq |-> 0 + place(n)]
<1>1. queue' = Queued(FeedEvents, 0) /\ simNow' = 0 /\ venue' = v
  BY DEF Started
<1>2. InsideReplay(FeedEvents) = {n \in Lattice : CloseOf(n) <= EndAt}
  BY DEF InsideReplay, FeedEvents
<1>3. ASSUME NEW n \in Lattice
      PROVE  /\ FeedEvents[n] = [kind |-> "bar", n |-> n, at |-> CloseOf(n)]
             /\ FeedEvents[n].at = CloseOf(n) /\ Priority(FeedEvents[n]) = 0
  BY DEF FeedEvents, Priority
<1>4. queue' = {[at |-> FeedEvents[n].at, priority |-> Priority(FeedEvents[n]), event |-> FeedEvents[n],
                 seq |-> 0 + place(n)] : n \in InsideReplay(FeedEvents)}
  BY <1>1 DEF Queued
<1> HIDE DEF place
<1>5. \A e \in queue' : \E n \in Lattice : CloseOf(n) <= EndAt /\ e = entry(n)
  BY <1>2, <1>3, <1>4
<1>6. \A n \in Lattice : CloseOf(n) <= EndAt => entry(n) \in queue'
  BY <1>2, <1>3, <1>4
<1>7. \A n \in Lattice : /\ entry(n).event.kind = "bar" /\ entry(n).event.n = n /\ entry(n).at = CloseOf(n)
                         /\ entry(n).priority = 0
  OBVIOUS
<1>8. \A n \in Lattice : CloseOf(n) \in Nat
  BY LatticeTyped
<1> HIDE DEF entry
<1> QED BY <1>1, <1>5, <1>6, <1>7, <1>8

LEMMA NoneLost ==
  ASSUME tape \in Tapes, NothingYet, IsServable
  PROVE  stored = Lattice
<1>1. PICK lost \in {{}} \cup {{n} : n \in Lattice} : stored = Lattice \ lost
  BY DEF NothingYet
<1>2. ASSUME NEW n \in Lattice, lost = {n} PROVE FALSE
  <2>1. Len(tape) \in Nat /\ n \in 1 .. Len(tape) /\ Lattice = 1 .. Len(tape)
    BY LatticeTyped DEF Lattice
  <2>2. n .. n = {n}
    BY <2>1
  <2>3. n - 1 \in stored \cup {0} /\ n + 1 \in stored \cup {Len(tape) + 1}
    BY <1>1, <1>2, <2>1
  <2>4. (n .. n) \cap stored = {}
    BY <1>1, <1>2, <2>2
  <2>5. <<n, n>> \in Gaps
    BY <2>1, <2>3, <2>4 DEF Gaps
  <2> QED BY <2>5 DEF IsServable
<1> QED BY <1>1, <1>2

LEMMA EmptyIsVenue == Venue(EmptyVenue) /\ EmptyVenue.resting = {} /\ EmptyVenue.prints = {}
<1>1. EmptyVenue.resting = {} /\ EmptyVenue.prints = {}
  BY DEF EmptyVenue
<1>2. EmptyVenue = VenueOf(EmptyVenue.quote, EmptyVenue.resting, EmptyVenue.pending, EmptyVenue.recent,
                           EmptyVenue.prints, EmptyVenue.refusals)
  BY DEF EmptyVenue, VenueOf
<1>3. IsFiniteSet(EmptyVenue.resting)
  BY <1>1, FS_EmptySet
<1> QED BY <1>1, <1>2, <1>3 DEF Venue

LEMMA RunStarted ==
  ASSUME RunInv, StartBacktest
  PROVE  RunInv'
<1>1. /\ phase = "loading" /\ tape \in Tapes /\ NothingYet
      /\ tape' = tape /\ stored' = stored /\ charged' = charged /\ decisions' = decisions
  BY DEF RunInv, StartBacktest
<1>2. CASE phase' = "refused"
  <2>1. queue' = queue /\ simNow' = simNow
    BY <1>1, <1>2 DEF StartBacktest, Started
  <2> QED BY <1>1, <1>2, <2>1 DEF RunInv
<1>3. CASE phase' # "refused"
  <2>1. phase' = "simulated" /\ Started(EmptyVenue) /\ charged # 0 /\ IsServable
    BY <1>3 DEF StartBacktest
  <2>2. stored = Lattice /\ Lattice' = Lattice
    BY <1>1, <2>1, NoneLost DEF Lattice
  <2>3. /\ simNow' = 0 /\ venue' = EmptyVenue
        /\ \A e \in queue' : 0 <= e.at
        /\ \A e \in queue' : e.event.kind = "bar" /\ e.event.n \in Lattice /\ e.at = CloseOf(e.event.n)
                             /\ e.at <= EndAt /\ e.priority = 0
        /\ \A e, f \in queue' : e.event.n = f.event.n => e = f
        /\ \A n \in Lattice : CloseOf(n) <= EndAt => \E e \in queue' : e.event.kind = "bar" /\ e.event.n = n
    BY <1>1, <2>1, FeedQueued
  <2>4. Ordered' = {}
    BY <1>1, <2>2 DEF Ordered, NothingYet
  <2>5. \A n \in Lattice : CloseOf(n) <= EndAt => n \in DueBars'
    BY <2>3 DEF DueBars
  <2>6. SeenBars' = {}
    BY <2>2, <2>5 DEF SeenBars, CloseOf
  <2>7. QueueInv'
    <3>1. \A e \in queue' : e.event.kind = "bar" /\ IsBar(e)' /\ e.at \in Nat /\ e.at <= EndAt
      BY <1>1, <2>2, <2>3, LatticeTyped DEF IsBar, CloseOf
    <3>2. \A m \in Lattice' : CloseOf(m) <= EndAt => m \in DueBars'
      BY <2>2, <2>5
    <3>3. \A e \in queue' : e.event.kind # "ack"
      BY <3>1
    <3> QED BY <2>3, <3>1, <3>2, <3>3 DEF QueueInv, CloseOf
  <2>8. QuoteInv'
    BY <2>6 DEF QuoteInv
  <2>9. OrdersInv'
    <3>1. decisions' = [n \in Lattice' |-> decisions'[n]]
      BY <1>1, <2>2 DEF NothingYet
    <3> QED BY <2>4, <3>1 DEF OrdersInv
  <2>10. BookInv'
    <3>1. Venue(venue') /\ venue'.resting = {} /\ venue'.prints = {}
      BY <2>3, EmptyIsVenue
    <3> QED BY <3>1 DEF BookInv
  <2>11. SimulationInv'
    BY <2>3, <2>7, <2>8, <2>9, <2>10 DEF SimulationInv
  <2>12. charged' > 0
    BY <1>1, <2>1 DEF RunInv
  <2> QED BY <1>1, <2>1, <2>2, <2>3, <2>11, <2>12 DEF RunInv
<1> QED BY <1>2, <1>3

-----------------------------------------------------------------------------
(* What a step of the loop leaves of the queue, while it adds no bar.      *)
Answers(events) == \A n \in DOMAIN events : events[n].kind \in {"ack", "fill", "reject"} /\ events[n].at \in Nat

LEMMA AnswersBut ==
  ASSUME NEW events, NoAcks(events)
  PROVE  Answers(events)
  BY DEF NoAcks, Answers

LEMMA BarsLeft ==
  ASSUME tape \in Tapes, QueueInv, NEW e, Pop(e), NEW events, Answers(events),
         Schedule(queue \ {e}, events), phase' # "failed"
  PROVE  /\ \A f \in queue' : f.at \in Nat /\ f.at <= EndAt
         /\ \A f \in queue' : f.event.kind = "bar" => f \in queue \ {e}
         /\ \A f \in queue : f.event.kind = "bar" /\ f # e => f \in queue'
         /\ \A f \in queue' : f \in queue \ {e} \/ \E n \in DOMAIN events : Brings(f, events[n], simNow')
<1>1. /\ \A f \in queue' : f \in queue \ {e} \/ \E n \in DOMAIN events : Brings(f, events[n], simNow')
      /\ queue \ {e} \subseteq queue'
  BY QueueAfter
<1>2. ASSUME NEW f \in queue', NEW n \in DOMAIN events, Brings(f, events[n], simNow')
      PROVE  f.event.kind # "bar" /\ f.at \in Nat /\ f.at <= EndAt
  BY <1>2 DEF Brings, Answers
<1> QED BY <1>1, <1>2 DEF QueueInv

(* An answer or an acknowledgement is dispatched: the bars that wait and   *)
(* those dispatched are as they were.                                      *)
LEMMA BarsStay ==
  ASSUME tape \in Tapes, SimulationInv, NEW e, Pop(e), e.event.kind # "bar", NEW events, NoAcks(events),
         Schedule(queue \ {e}, events), phase' # "failed", decisions' = decisions
  PROVE  /\ QueueInv' /\ OrdersInv' /\ simNow' \in Nat
         /\ DueBars' = DueBars /\ SeenBars' = SeenBars /\ Lattice' = Lattice /\ Ordered' = Ordered
<1>1. QueueInv /\ OrdersInv /\ Answers(events)
  BY AnswersBut DEF SimulationInv
<1>2. e \in queue /\ simNow' = e.at /\ tape' = tape
  BY Popped
<1>3. simNow' \in Nat
  BY <1>1, <1>2 DEF QueueInv
<1>4. /\ \A f \in queue' : f.at \in Nat /\ f.at <= EndAt
      /\ \A f \in queue' : f.event.kind = "bar" => f \in queue \ {e}
      /\ \A f \in queue : f.event.kind = "bar" /\ f # e => f \in queue'
      /\ \A f \in queue' : f \in queue \ {e} \/ \E n \in DOMAIN events : Brings(f, events[n], simNow')
  BY <1>1, BarsLeft
<1>5. {f \in queue' : f.event.kind = "bar"} = {f \in queue : f.event.kind = "bar"}
  BY <1>4
<1>6. DueBars' = DueBars
  BY <1>5 DEF DueBars
<1>7. Lattice' = Lattice /\ Ordered' = Ordered
  BY <1>2 DEF Lattice, Ordered
<1>8. SeenBars' = SeenBars
  BY <1>6, <1>7 DEF SeenBars, CloseOf
<1>9. \A n \in Ordered : OrderOfDay(n)' = OrderOfDay(n)
  BY DEF OrderOfDay
<1>10. OrdersInv'
  BY <1>1, <1>7, <1>8, <1>9 DEF OrdersInv
<1>11. \A f \in queue' : f.event.kind = "ack" => \E n \in Ordered' : IsAck(f, n)'
  <2> SUFFICES ASSUME NEW f \in queue', f.event.kind = "ack" PROVE \E n \in Ordered' : IsAck(f, n)'
    OBVIOUS
  <2>1. ~\E n \in DOMAIN events : Brings(f, events[n], simNow')
    BY DEF Brings, NoAcks
  <2>2. PICK n \in Ordered : IsAck(f, n)
    BY <1>1, <1>4, <2>1 DEF QueueInv
  <2>3. IsAck(f, n)'
    BY <1>9, <2>2 DEF IsAck, AckOf, AckAt, CloseOf
  <2> QED BY <1>7, <2>3
<1>12. \A f \in queue' : f.event.kind = "bar" => IsBar(f)'
  BY <1>1, <1>4, <1>7 DEF QueueInv, IsBar, CloseOf
<1>13. \A n \in DueBars', m \in Lattice' : n <= m /\ CloseOf(m) <= EndAt => m \in DueBars'
  BY <1>1, <1>6, <1>7 DEF QueueInv
<1>14. \A f, g \in queue' : f.event.kind = "bar" /\ g.event.kind = "bar" /\ f.event.n = g.event.n => f = g
  BY <1>1, <1>4 DEF QueueInv
<1>15. QueueInv'
  BY <1>4, <1>11, <1>12, <1>13, <1>14 DEF QueueInv, CloseOf
<1> QED BY <1>3, <1>6, <1>7, <1>8, <1>10, <1>15

LEMMA QuoteStays ==
  ASSUME tape \in Tapes, QuoteInv, simNow \in Nat, simNow' \in Nat, simNow <= simNow', SeenBars' = SeenBars,
         venue'.quote = venue.quote
  PROVE  QuoteInv'
<1>1. \A n \in SeenBars : CloseOf(n) \in Nat
  BY LatticeTyped DEF SeenBars
<1>2. \A n \in SeenBars' : CloseOf(n)' <= simNow' /\ CloseOf(n)' <= venue'.quote.asOf
  BY <1>1 DEF QuoteInv, CloseOf
<1> QED BY <1>2 DEF QuoteInv, CloseOf

LEMMA BookStays ==
  ASSUME BookInv, venue' = venue, decisions' = decisions, Ordered' = Ordered, DueBars' = DueBars,
         Lattice' = Lattice
  PROVE  BookInv'
<1>1. \A n : OrderOfDay(n)' = OrderOfDay(n)
  BY DEF OrderOfDay
<1>2. \A r, n : RestsSince(r, n) => RestsSince(r, n)'
  BY <1>1 DEF RestsSince, AckOf, AckAt, CloseOf
<1>3. \A p, n : PrintIs(p, n) => PrintIs(p, n)'
  BY <1>1 DEF PrintIs, KnewNoMore, AckOf, AckAt, CloseOf, ClosesUpTo
<1> QED BY <1>2, <1>3 DEF BookInv

LEMMA OutcomeKept ==
  ASSUME RunInv, phase = "simulated", DispatchOutcome, phase' # "failed"
  PROVE  SimulationInv'
<1>1. PICK e \in queue : /\ e.event.kind \in {"fill", "reject"} /\ Pop(e) /\ Schedule(queue \ {e}, <<>>)
                         /\ decisions' = decisions /\ venue' = venue
  BY DEF DispatchOutcome
<1>2. SimulationInv /\ tape \in Tapes /\ simNow <= e.at
  BY DEF RunInv
<1>3. NoAcks(<<>>)
  BY DEF NoAcks
<1>4. /\ QueueInv' /\ OrdersInv' /\ simNow' \in Nat
      /\ DueBars' = DueBars /\ SeenBars' = SeenBars /\ Lattice' = Lattice /\ Ordered' = Ordered
  BY <1>1, <1>2, <1>3, BarsStay
<1>5. simNow' = e.at
  BY <1>1, Popped
<1>6. QuoteInv'
  BY <1>1, <1>2, <1>4, <1>5, QuoteStays DEF SimulationInv
<1>7. BookInv'
  BY <1>1, <1>2, <1>4, BookStays DEF SimulationInv
<1> QED BY <1>4, <1>6, <1>7 DEF SimulationInv

-----------------------------------------------------------------------------
(* An acknowledgement is dispatched: every bar that closed by then has     *)
(* been, and none of those that wait.                                      *)
LEMMA BarsSplit ==
  ASSUME tape \in Tapes, SimulationInv, NEW e, Pop(e), NEW n \in Ordered, IsAck(e, n), simNow <= e.at
  PROVE  /\ \A m \in DueBars : AckOf(n) < CloseOf(m)
         /\ Max(ClosesUpTo(AckOf(n))) = venue.quote.asOf
<1>1. QueueInv /\ QuoteInv /\ OrdersInv /\ simNow \in Nat
  BY DEF SimulationInv
<1>2. e \in queue /\ e.at = AckOf(n) /\ e.priority = 2 /\ e.at \in Nat /\ e.at <= EndAt /\ EndAt \in Nat
  BY <1>1, Popped, RunAssumption DEF IsAck, QueueInv
<1>3. \A m \in Lattice : CloseOf(m) \in Nat
  BY LatticeTyped
<1>4. ASSUME NEW m \in DueBars PROVE AckOf(n) < CloseOf(m)
  <2>1. PICK f \in queue : f.event.kind = "bar" /\ f.event.n = m
    BY DEF DueBars
  <2>2. m \in Lattice /\ f.at = CloseOf(m) /\ f.priority = 0
    BY <1>1, <2>1 DEF QueueInv, IsBar
  <2>3. f # e
    BY <1>2, <2>2
  <2>4. InOrder(e, f)
    BY <2>1, <2>3, Popped
  <2>5. e.at <= f.at /\ e.at # f.at
    BY <1>2, <2>2, <2>4 DEF InOrder
  <2> QED BY <1>2, <1>3, <2>2, <2>5
<1>5. PICK k \in SeenBars : venue.quote.asOf = CloseOf(k)
  BY <1>1 DEF QuoteInv, OrdersInv
<1>6. k \in Lattice /\ CloseOf(k) <= AckOf(n)
  <2>1. k \in Lattice /\ CloseOf(k) <= simNow
    BY <1>1, <1>5 DEF SeenBars, QuoteInv
  <2> QED BY <1>1, <1>2, <1>3, <2>1
<1>7. ASSUME NEW m \in Lattice, CloseOf(m) <= AckOf(n) PROVE CloseOf(m) <= venue.quote.asOf
  <2>1. m \notin DueBars
    BY <1>2, <1>3, <1>4, <1>7
  <2>2. CloseOf(m) <= EndAt
    BY <1>2, <1>3, <1>7
  <2>3. m \in SeenBars
    BY <2>1, <2>2 DEF SeenBars
  <2> QED BY <1>1, <2>3 DEF QuoteInv
<1>8. Max(ClosesUpTo(AckOf(n))) = venue.quote.asOf
  <2> DEFINE S == ClosesUpTo(AckOf(n))
  <2>1. S \in SUBSET Int
    BY <1>3 DEF ClosesUpTo
  <2>2. venue.quote.asOf \in S
    BY <1>5, <1>6 DEF ClosesUpTo
  <2>3. \A x \in S : x <= venue.quote.asOf
    BY <1>7 DEF ClosesUpTo
  <2> HIDE DEF S
  <2>4. Max(S) = venue.quote.asOf
    BY <2>1, <2>2, <2>3, MaxIs
  <2> QED BY <2>4 DEF S
<1> QED BY <1>4, <1>8

LEMMA AckKept ==
  ASSUME RunInv, phase = "simulated", DispatchAck, phase' # "failed"
  PROVE  SimulationInv'
<1>1. PICK e \in queue :
        /\ e.event.kind = "ack" /\ Pop(e) /\ decisions' = decisions
        /\ venue' = ResolveAck(venue, e.event.order, e.event.at).venue
        /\ Schedule(queue \ {e}, ResolveAck(venue, e.event.order, e.event.at).events)
  BY DEF DispatchAck, Resolving
<1>2. SimulationInv /\ tape \in Tapes /\ simNow <= e.at
  BY DEF RunInv
<1>3. PICK n \in Ordered : IsAck(e, n)
  BY <1>1, <1>2 DEF SimulationInv, QueueInv
<1>4. e.event.order = OrderOfDay(n) /\ e.event.at = AckOf(n) /\ AckOf(n) \in Nat /\ e.at = AckOf(n)
  BY <1>2, <1>3 DEF IsAck, SimulationInv, QueueInv
<1> DEFINE o == OrderOfDay(n)
           answer == ResolveAck(venue, o, AckOf(n))
<1>5. /\ Venue(answer.venue) /\ answer.venue.quote = venue.quote /\ NoAcks(answer.events)
      /\ \A r \in answer.venue.resting : r \in venue.resting \/ r.order = o
      /\ \A p \in answer.venue.prints : p \in venue.prints \/ Crossed(p, o, venue.quote, AckOf(n))
  BY <1>2, <1>4, ResolveSays DEF SimulationInv, BookInv
<1>6. venue' = answer.venue /\ Schedule(queue \ {e}, answer.events)
  BY <1>1, <1>4
<1> HIDE DEF answer
<1>7. /\ QueueInv' /\ OrdersInv' /\ simNow' \in Nat
      /\ DueBars' = DueBars /\ SeenBars' = SeenBars /\ Lattice' = Lattice /\ Ordered' = Ordered
  BY <1>1, <1>2, <1>5, <1>6, BarsStay
<1>8. /\ \A m \in DueBars : AckOf(n) < CloseOf(m)
      /\ Max(ClosesUpTo(AckOf(n))) = venue.quote.asOf
  BY <1>1, <1>2, <1>3, BarsSplit
<1>9. simNow' = e.at
  BY <1>1, Popped
<1>10. QuoteInv'
  BY <1>2, <1>5, <1>6, <1>7, <1>9, QuoteStays DEF SimulationInv
<1>11. \A k : OrderOfDay(k)' = OrderOfDay(k)
  BY <1>1 DEF OrderOfDay
<1>12. \A r, k : RestsSince(r, k) => RestsSince(r, k)'
  BY <1>7, <1>11 DEF RestsSince, AckOf, AckAt, CloseOf
<1>13. \A p, k : PrintIs(p, k) => PrintIs(p, k)'
  BY <1>7, <1>11 DEF PrintIs, KnewNoMore, AckOf, AckAt, CloseOf, ClosesUpTo
<1>14. \A r : r.order = o => RestsSince(r, n)
  BY <1>8 DEF RestsSince
<1>15. \A p : Crossed(p, o, venue.quote, AckOf(n)) => PrintIs(p, n)
  BY <1>8 DEF Crossed, PrintIs, KnewNoMore
<1>16. BookInv'
  <2>1. \A r \in venue'.resting : \E k \in Ordered' : RestsSince(r, k)'
    BY <1>2, <1>5, <1>6, <1>7, <1>12, <1>14 DEF SimulationInv, BookInv
  <2>2. \A p \in venue'.prints : \E k \in Ordered' : PrintIs(p, k)'
    BY <1>2, <1>5, <1>6, <1>7, <1>13, <1>15 DEF SimulationInv, BookInv
  <2> QED BY <1>5, <1>6, <2>1, <2>2 DEF BookInv
<1> QED BY <1>7, <1>10, <1>16 DEF SimulationInv

-----------------------------------------------------------------------------
(* A bar is dispatched: it is the first of those that waited.              *)
LEMMA BarMoves ==
  ASSUME tape \in Tapes, SimulationInv, NEW e, Pop(e), e.event.kind = "bar", NEW events, Answers(events),
         Schedule(queue \ {e}, events), phase' # "failed"
  PROVE  LET n == e.event.n
         IN  /\ n \in Lattice /\ n \in DueBars /\ e.at = CloseOf(n)
             /\ Lattice' = Lattice /\ DueBars' = DueBars \ {n} /\ SeenBars' = SeenBars \cup {n}
             /\ \A m \in DueBars' : n < m
             /\ \A k \in SeenBars : k < n
<1> DEFINE n == e.event.n
<1>1. QueueInv
  BY DEF SimulationInv
<1>2. e \in queue /\ tape' = tape
  BY Popped
<1>3. n \in Lattice /\ e.at = CloseOf(n) /\ e.at <= EndAt /\ n \in DueBars
  BY <1>1, <1>2 DEF QueueInv, IsBar, DueBars
<1>4. Lattice' = Lattice /\ Lattice \subseteq Nat
  BY <1>2, LatticeTyped DEF Lattice
<1>5. /\ \A f \in queue' : f.event.kind = "bar" => f \in queue \ {e}
      /\ \A f \in queue : f.event.kind = "bar" /\ f # e => f \in queue'
  BY <1>1, BarsLeft
<1>6. \A f \in queue \ {e} : f.event.kind = "bar" => f.event.n # n
  BY <1>1, <1>2 DEF QueueInv
<1>7. DueBars' = DueBars \ {n}
  <2>1. \A x \in DueBars' : x \in DueBars \ {n}
    <3> TAKE x \in DueBars'
    <3>1. PICK f \in queue' : f.event.kind = "bar" /\ f.event.n = x
      BY DEF DueBars
    <3> QED BY <1>5, <1>6, <3>1 DEF DueBars
  <2>2. \A x \in DueBars \ {n} : x \in DueBars'
    <3> TAKE x \in DueBars \ {n}
    <3>1. PICK f \in queue : f.event.kind = "bar" /\ f.event.n = x
      BY DEF DueBars
    <3>2. f # e
      BY <3>1
    <3> QED BY <1>5, <3>1, <3>2 DEF DueBars
  <2> QED BY <2>1, <2>2
<1>8. SeenBars' = SeenBars \cup {n}
  BY <1>3, <1>4, <1>7 DEF SeenBars, CloseOf
<1>9. ASSUME NEW m \in DueBars' PROVE n < m
  <2>1. PICK f \in queue \ {e} : f.event.kind = "bar" /\ f.event.n = m
    <3>1. PICK f \in queue' : f.event.kind = "bar" /\ f.event.n = m
      BY DEF DueBars
    <3> QED BY <1>5, <3>1
  <2>2. m \in Lattice /\ f.at = CloseOf(m) /\ m # n
    BY <1>1, <1>6, <2>1 DEF QueueInv, IsBar
  <2>3. CloseOf(n) <= CloseOf(m)
    BY <1>3, <2>1, <2>2, Popped DEF InOrder
  <2>4. m \in Nat /\ n \in Nat /\ CloseOf(n) \in Nat /\ CloseOf(m) \in Nat
    BY <1>3, <1>4, <2>2, LatticeTyped
  <2>5. ~(m < n)
    BY <2>3, <2>4, ClosesAscend
  <2> QED BY <2>2, <2>4, <2>5
<1>10. ASSUME NEW k \in SeenBars PROVE k < n
  <2>1. k \in Lattice /\ CloseOf(k) <= EndAt /\ k \notin DueBars
    BY DEF SeenBars
  <2>2. ~(n <= k)
    BY <1>1, <1>3, <2>1 DEF QueueInv
  <2>3. k \in Nat /\ n \in Nat
    BY <1>3, <1>4, <2>1
  <2> HIDE DEF n
  <2> QED BY <2>2, <2>3
<1> QED BY <1>3, <1>4, <1>7, <1>8, <1>9, <1>10

LEMMA QuoteMoves ==
  ASSUME tape \in Tapes, NEW n \in Lattice, tape' = tape, SeenBars \subseteq Lattice,
         SeenBars' = SeenBars \cup {n}, \A k \in SeenBars : k < n,
         simNow' = CloseOf(n), venue'.quote.asOf = CloseOf(n)
  PROVE  QuoteInv'
<1>1. Lattice \subseteq Nat /\ \A k \in Lattice : CloseOf(k) \in Nat
  BY LatticeTyped
<1>2. \A k \in SeenBars' : CloseOf(k) <= CloseOf(n)
  <2> TAKE k \in SeenBars'
  <2>1. CASE k = n
    BY <1>1, <2>1
  <2>2. CASE k \in SeenBars
    <3>1. k \in Nat /\ n \in Nat /\ k < n /\ CloseOf(k) \in Nat /\ CloseOf(n) \in Nat
      BY <1>1, <2>2
    <3>2. CloseOf(k) < CloseOf(n)
      BY <3>1, ClosesAscend
    <3> QED BY <3>1, <3>2
  <2> QED BY <2>1, <2>2
<1>3. \A k : CloseOf(k)' = CloseOf(k)
  BY DEF CloseOf
<1> QED BY <1>2, <1>3 DEF QuoteInv

LEMMA DecisionTaken ==
  ASSUME tape \in Tapes, tape' = tape, OrdersInv, NEW n \in Lattice, n \notin Ordered,
         SeenBars' = SeenBars \cup {n}, NEW d, decisions' = [decisions EXCEPT ![n] = d],
         d = <<>> \/ \E shape : d = <<Numbered(shape)>>
  PROVE  /\ OrdersInv'
         /\ Ordered' = IF d = <<>> THEN Ordered ELSE Ordered \cup {n}
         /\ \A k \in Ordered : OrderOfDay(k)' = OrderOfDay(k)
         /\ d # <<>> => OrderOfDay(n)' = d[1]
<1>1. decisions = [k \in Lattice |-> decisions[k]] /\ Lattice' = Lattice
  BY DEF OrdersInv, Lattice
<1>2. /\ decisions' = [k \in Lattice |-> IF k = n THEN d ELSE decisions[k]]
      /\ \A k \in Lattice : decisions'[k] = IF k = n THEN d ELSE decisions[k]
  BY <1>1
<1>3. decisions' = [k \in Lattice' |-> decisions'[k]]
  BY <1>1, <1>2
<1>4. Ordered' = IF d = <<>> THEN Ordered ELSE Ordered \cup {n}
  BY <1>1, <1>2 DEF Ordered
<1>5. \A k \in Ordered : OrderOfDay(k)' = OrderOfDay(k)
  BY <1>2 DEF OrderOfDay, Ordered
<1>6. OrderOfDay(n)' = d[1]
  BY <1>2 DEF OrderOfDay
<1>7. IsFiniteSet(Ordered) /\ Cardinality(Ordered) \in Nat
  <2>1. Len(tape) \in Nat
    BY LatticeTyped
  <2>2. IsFiniteSet(Lattice)
    BY <2>1, FS_Interval DEF Lattice
  <2>3. Ordered \subseteq Lattice
    BY DEF Ordered
  <2>4. IsFiniteSet(Ordered)
    BY <2>2, <2>3, FS_Subset
  <2> QED BY <2>4, FS_CardinalityType
<1>8. Ordered' \subseteq SeenBars'
  BY <1>4 DEF OrdersInv
<1>9. CASE d = <<>>
  <2>1. Ordered' = Ordered
    BY <1>4, <1>9
  <2> QED BY <1>3, <1>4, <1>5, <1>6, <1>8, <2>1 DEF OrdersInv
<1>10. CASE d # <<>>
  <2>1. Ordered' = Ordered \cup {n}
    BY <1>4, <1>10
  <2>2. Cardinality(Ordered') = Cardinality(Ordered) + 1
    <3>1. Cardinality(Ordered \cup {n}) = Cardinality(Ordered) + 1
      BY <1>7, FS_AddElement
    <3> QED BY <2>1, <3>1
  <2>3. OrderOfDay(n)'.id = Cardinality(Ordered) + 1
    <3>1. PICK shape : d = <<Numbered(shape)>>
      BY <1>10
    <3> QED BY <1>6, <3>1 DEF Numbered
  <2>4. PICK c \in Nat : c = Cardinality(Ordered)
    BY <1>7
  <2>5. \A k \in Ordered : OrderOfDay(k)'.id \in 1 .. c
    BY <1>5, <2>4 DEF OrdersInv
  <2>6. \A k \in Ordered' : OrderOfDay(k)'.id \in 1 .. c + 1
    BY <2>1, <2>3, <2>4, <2>5
  <2>7. ASSUME NEW k \in Ordered', NEW m \in Ordered', OrderOfDay(k)'.id = OrderOfDay(m)'.id
        PROVE  k = m
    <3>1. CASE k \in Ordered /\ m \in Ordered
      BY <1>5, <2>7, <3>1 DEF OrdersInv
    <3>2. CASE k = n \/ m = n
      BY <2>1, <2>3, <2>4, <2>5, <2>7, <3>2
    <3> QED BY <2>1, <3>1, <3>2
  <2>8. \A k \in Ordered' : OrderOfDay(k)'.id \in 1 .. Cardinality(Ordered')
    BY <2>2, <2>4, <2>6
  <2> QED BY <1>3, <1>4, <1>5, <1>6, <1>8, <2>7, <2>8 DEF OrdersInv
<1> QED BY <1>9, <1>10

Joins(u, s, t) == \A n \in DOMAIN u : (\E i \in DOMAIN s : u[n] = s[i]) \/ \E i \in DOMAIN t : u[n] = t[i]

LEMMA Joined ==
  ASSUME NEW s, NEW t, Listed(s), Listed(t), NEW u, u = s \o t
  PROVE  Joins(u, s, t)
<1>0. PICK j \in Nat : DOMAIN s = 1 .. j /\ \E S : s \in Seq(S)
  BY DEF Listed
<1>1. PICK S : DOMAIN s = 1 .. j /\ s \in Seq(S)
  BY <1>0
<1>a. PICK k \in Nat : DOMAIN t = 1 .. k /\ \E T : t \in Seq(T)
  BY DEF Listed
<1>2. PICK T : DOMAIN t = 1 .. k /\ t \in Seq(T)
  BY <1>a
<1>3. Len(s) = j /\ Len(t) = k
  BY <1>1, <1>2
<1> DEFINE W == S \cup T
<1>4. s \in Seq(W) /\ t \in Seq(W)
  <2>1. s \in Seq(S \cup T)
    BY <1>1
  <2>2. t \in Seq(S \cup T)
    BY <1>2
  <2> QED BY <2>1, <2>2
<1> HIDE DEF W
<1>5. /\ DOMAIN u = 1 .. j + k
      /\ \A n \in 1 .. j + k : u[n] = IF n <= j THEN s[n] ELSE t[n - j]
  <2>0. s \o t \in Seq(W)
    BY <1>4
  <2>1. Len(s \o t) = j + k
    <3>1. Len(s \o t) = Len(s) + Len(t)
      BY <1>4
    <3> QED BY <1>3, <3>1
  <2>2. DOMAIN (s \o t) = 1 .. j + k
    BY <2>0, <2>1
  <2>3. \A n \in 1 .. j + k : (s \o t)[n] = IF n <= j THEN s[n] ELSE t[n - j]
    BY <1>3, <1>4
  <2> QED BY <2>2, <2>3
<1>6. ASSUME NEW n \in DOMAIN u PROVE (\E i \in DOMAIN s : u[n] = s[i]) \/ \E i \in DOMAIN t : u[n] = t[i]
  <2>1. n \in 1 .. j + k
    BY <1>5
  <2>2. CASE n <= j
    <3>1. n \in DOMAIN s /\ u[n] = s[n]
      BY <1>1, <1>5, <2>1, <2>2
    <3> QED BY <3>1
  <2>3. CASE j < n
    <3>1. n - j \in DOMAIN t /\ u[n] = t[n - j]
      BY <1>2, <1>5, <2>1, <2>3
    <3> QED BY <3>1
  <2> QED BY <2>1, <2>2, <2>3
<1> QED BY <1>6 DEF Joins

(* The venue after a bar was observed and, possibly, an order submitted.   *)
LEMMA BarBooked ==
  ASSUME tape \in Tapes, tape' = tape, simNow' \in Nat, BookInv, OrdersInv, OrdersInv', NEW n \in DueBars,
         DueBars' \subseteq DueBars, Ordered \subseteq Ordered',
         \A k \in Ordered : OrderOfDay(k)' = OrderOfDay(k),
         Venue(venue'),
         \A r \in venue'.resting : \E o \in venue.resting : r.order = o.order,
         \A p \in venue'.prints :
           \/ p \in venue.prints
           \/ \E r \in venue.resting : /\ p.order = r.order.id /\ p.passive = TRUE
                                       /\ p.at = CloseOf(n) /\ p.pricedOn = CloseOf(n)
  PROVE  BookInv'
<1>1. Lattice' = Lattice
  BY DEF Lattice
<1>2. \A r, o, k : k \in Ordered /\ RestsSince(o, k) /\ r.order = o.order => RestsSince(r, k)'
  BY DEF RestsSince, AckOf, AckAt, CloseOf
<1>3. \A p, k : k \in Ordered /\ PrintIs(p, k) => PrintIs(p, k)'
  BY <1>1 DEF PrintIs, KnewNoMore, AckOf, AckAt, CloseOf, ClosesUpTo
<1>4. \A r \in venue'.resting : \E k \in Ordered' : RestsSince(r, k)'
  BY <1>2 DEF BookInv
<1>5. ASSUME NEW p, NEW r \in venue.resting, p.order = r.order.id, p.passive = TRUE,
             p.at = CloseOf(n), p.pricedOn = CloseOf(n)
      PROVE  \E k \in Ordered : PrintIs(p, k)
  <2>1. PICK k \in Ordered : RestsSince(r, k)
    BY DEF BookInv
  <2>2. AckOf(k) < CloseOf(n) /\ p.order = OrderOfDay(k).id
    BY <1>5, <2>1 DEF RestsSince
  <2>3. PrintIs(p, k)
    BY <1>5, <2>2 DEF PrintIs, KnewNoMore
  <2> QED BY <2>3
<1>6. \A p \in venue'.prints : \E k \in Ordered' : PrintIs(p, k)'
  <2> TAKE p \in venue'.prints
  <2>1. \E k \in Ordered : PrintIs(p, k)
    BY <1>5 DEF BookInv
  <2> QED BY <1>3, <2>1
<1> QED BY <1>4, <1>6 DEF BookInv

(* The acknowledgements that wait after the bar, those of its own order    *)
(* among them.                                                             *)
LEMMA BarQueued ==
  ASSUME tape \in Tapes, tape' = tape, SimulationInv, NEW e, Pop(e), e.event.kind = "bar",
         NEW events, Answers(events), Schedule(queue \ {e}, events), phase' # "failed",
         Ordered \subseteq Ordered', \A k \in Ordered : OrderOfDay(k)' = OrderOfDay(k),
         \A i \in DOMAIN events : events[i].kind = "ack" =>
           /\ e.event.n \in Ordered' /\ events[i].order = OrderOfDay(e.event.n)'
           /\ events[i].at = AckOf(e.event.n)
  PROVE  QueueInv'
<1> DEFINE n == e.event.n
<1>1. QueueInv
  BY DEF SimulationInv
<1>2. /\ n \in Lattice /\ Lattice' = Lattice /\ DueBars' = DueBars \ {n} /\ \A m \in DueBars' : n < m
  BY BarMoves
<1>3. /\ \A f \in queue' : f.at \in Nat /\ f.at <= EndAt
      /\ \A f \in queue' : f.event.kind = "bar" => f \in queue \ {e}
      /\ \A f \in queue' : f \in queue \ {e} \/ \E i \in DOMAIN events : Brings(f, events[i], simNow')
  BY <1>1, BarsLeft
<1>4. \A f \in queue' : f.event.kind = "bar" => IsBar(f)'
  BY <1>1, <1>2, <1>3 DEF QueueInv, IsBar, CloseOf
<1>5. \A f, g \in queue' : f.event.kind = "bar" /\ g.event.kind = "bar" /\ f.event.n = g.event.n => f = g
  BY <1>1, <1>3 DEF QueueInv
<1>6. ASSUME NEW f \in queue', f.event.kind = "ack" PROVE \E k \in Ordered' : IsAck(f, k)'
  <2>1. CASE f \in queue \ {e}
    <3>1. PICK k \in Ordered : IsAck(f, k)
      BY <1>1, <1>6, <2>1 DEF QueueInv
    <3>2. IsAck(f, k)'
      BY <3>1 DEF IsAck, AckOf, AckAt, CloseOf
    <3> QED BY <3>1, <3>2
  <2>2. CASE f \notin queue \ {e}
    <3>1. PICK i \in DOMAIN events : Brings(f, events[i], simNow')
      BY <1>3, <2>2
    <3>2. f.event = events[i] /\ f.at = events[i].at /\ f.priority = 2
      BY <1>6, <3>1 DEF Brings, Priority
    <3>3. n \in Ordered' /\ f.event.order = OrderOfDay(n)' /\ f.event.at = AckOf(n) /\ f.at = AckOf(n)
      BY <1>6, <3>2
    <3>4. IsAck(f, n)'
      BY <3>2, <3>3 DEF IsAck, AckOf, AckAt, CloseOf
    <3> QED BY <3>3, <3>4
  <2> QED BY <2>1, <2>2
<1>7. ASSUME NEW k \in DueBars', NEW m \in Lattice, k <= m, CloseOf(m) <= EndAt PROVE m \in DueBars'
  <2>1. k \in DueBars /\ n < k
    BY <1>2
  <2>2. m \in DueBars
    BY <1>1, <1>7, <2>1 DEF QueueInv
  <2>3. k \in Nat /\ m \in Nat /\ n \in Nat
    <3>1. PICK f \in queue : f.event.kind = "bar" /\ f.event.n = k
      BY <2>1 DEF DueBars
    <3>2. k \in Lattice
      BY <1>1, <3>1 DEF QueueInv, IsBar
    <3> QED BY <1>2, <3>2, LatticeTyped
  <2>4. m # n
    BY <1>7, <2>1, <2>3
  <2> QED BY <1>2, <2>2, <2>4
<1>8. \A f \in queue' : f.event.kind = "ack" => \E k \in Ordered' : IsAck(f, k)'
  BY <1>6
<1>9. \A k \in DueBars', m \in Lattice' : k <= m /\ CloseOf(m) <= EndAt => m \in DueBars'
  BY <1>2, <1>7
<1> QED BY <1>3, <1>4, <1>5, <1>8, <1>9 DEF QueueInv, CloseOf

LEMMA BarKept ==
  ASSUME RunInv, phase = "simulated", DispatchBar, phase' # "failed"
  PROVE  SimulationInv'
<1>1. PICK e \in queue :
        /\ e.event.kind = "bar" /\ Pop(e)
        /\ \E d \in MayDecide(e.event.n) :
             /\ decisions' = [decisions EXCEPT ![e.event.n] = d]
             /\ LET observed == ObserveBar(venue, BarAt(e.event.n))
                IN  IF d = <<>>
                    THEN venue' = observed.venue /\ Schedule(queue \ {e}, observed.events)
                    ELSE LET answer == Submit(observed.venue, d[1], simNow')
                         IN  venue' = answer.venue /\ Schedule(queue \ {e}, observed.events \o answer.events)
  BY DEF DispatchBar, Observing, Submitting
<1> DEFINE n == e.event.n
           observed == ObserveBar(venue, BarAt(n))
<1>2. SimulationInv /\ tape \in Tapes
  BY DEF RunInv
<1>3. QueueInv /\ QuoteInv /\ OrdersInv /\ BookInv
  BY <1>2 DEF SimulationInv
<1>4. PICK d \in MayDecide(n) :
        /\ decisions' = [decisions EXCEPT ![n] = d]
        /\ IF d = <<>>
           THEN venue' = observed.venue /\ Schedule(queue \ {e}, observed.events)
           ELSE LET answer == Submit(observed.venue, d[1], simNow')
                IN  venue' = answer.venue /\ Schedule(queue \ {e}, observed.events \o answer.events)
  BY <1>1
<1>5. e \in queue /\ simNow' = e.at /\ tape' = tape
  BY <1>1, Popped
<1>6. n \in Lattice /\ n \in DueBars /\ e.at = CloseOf(n) /\ CloseOf(n) \in Nat
  BY <1>1, <1>2, <1>3, <1>5, LatticeTyped DEF QueueInv, IsBar, DueBars
<1>7. BarAt(n).close = CloseOf(n)
  BY DEF BarAt
<1>8. /\ Venue(observed.venue) /\ observed.venue.quote.asOf = CloseOf(n)
      /\ \A r \in observed.venue.resting : \E o \in venue.resting : r.order = o.order
      /\ \A p \in observed.venue.prints :
           \/ p \in venue.prints
           \/ \E r \in venue.resting : /\ p.order = r.order.id /\ p.passive = TRUE
                                       /\ p.at = CloseOf(n) /\ p.pricedOn = CloseOf(n)
      /\ NoAcks(observed.events) /\ Listed(observed.events)
  <2>1. Venue(venue) /\ BarAt(n).close \in Nat
    BY <1>3, <1>6, <1>7 DEF BookInv
  <2> DEFINE b == BarAt(n)
  <2>2. b.close \in Nat /\ b.close = CloseOf(n) /\ observed = ObserveBar(venue, b)
    BY <1>7, <2>1
  <2> HIDE DEF b, observed, n
  <2>3. /\ Venue(ObserveBar(venue, b).venue) /\ ObserveBar(venue, b).venue.quote.asOf = b.close
        /\ \A r \in ObserveBar(venue, b).venue.resting : \E o \in venue.resting : r.order = o.order
        /\ NoAcks(ObserveBar(venue, b).events) /\ Listed(ObserveBar(venue, b).events)
    BY <2>1, <2>2, ObserveSays
  <2>4. \A p \in ObserveBar(venue, b).venue.prints :
          \/ p \in venue.prints
          \/ \E r \in venue.resting : /\ p.order = r.order.id /\ p.passive = TRUE
                                      /\ p.at = b.close /\ p.pricedOn = b.close
    BY <2>1, <2>2, ObserveSays
  <2> QED BY <2>2, <2>3, <2>4
<1>9. d = <<>> \/ \E shape : d = <<Numbered(shape)>>
  BY DEF MayDecide
<1>10. n \notin Ordered
  BY <1>3, <1>6 DEF OrdersInv, SeenBars
<1> HIDE DEF n, observed
<1>11. PICK events :
         /\ Schedule(queue \ {e}, events) /\ Answers(events)
         /\ Venue(venue') /\ venue'.quote = observed.venue.quote
         /\ venue'.resting = observed.venue.resting /\ venue'.prints = observed.venue.prints
         /\ \A i \in DOMAIN events : events[i].kind = "ack" =>
              d # <<>> /\ events[i].order = d[1] /\ events[i].at = AckOf(n)
  <2>1. CASE d = <<>>
    <3>1. venue' = observed.venue /\ Schedule(queue \ {e}, observed.events)
      BY <1>4, <2>1
    <3>2. Answers(observed.events) /\ \A i \in DOMAIN observed.events : observed.events[i].kind # "ack"
      BY <1>8, AnswersBut DEF NoAcks
    <3> QED BY <1>8, <3>1, <3>2
  <2>2. CASE d # <<>>
    <3> DEFINE answer == Submit(observed.venue, d[1], simNow')
               events == observed.events \o answer.events
    <3>1. venue' = answer.venue /\ Schedule(queue \ {e}, events)
      BY <1>4, <2>2
    <3>2. /\ Venue(answer.venue) /\ answer.venue.quote = observed.venue.quote
          /\ answer.venue.resting = observed.venue.resting /\ answer.venue.prints = observed.venue.prints
          /\ DOMAIN answer.events = {1} /\ Listed(answer.events)
          /\ \/ answer.events[1].kind = "reject" /\ answer.events[1].at \in Nat
             \/ answer.events[1] = [kind |-> "ack", order |-> d[1], at |-> AckAt(simNow')]
      BY <1>5, <1>6, <1>8, SubmitSays
    <3>3. AckAt(simNow') = AckOf(n) /\ AckOf(n) \in Nat
      BY <1>5, <1>6, AckTyped DEF AckOf
    <3>4. \A i \in DOMAIN events : \/ \E j \in DOMAIN observed.events : events[i] = observed.events[j]
                                   \/ events[i] = answer.events[1]
      <4>1. Joins(events, observed.events, answer.events)
        <5>1. events = observed.events \o answer.events /\ Listed(observed.events) /\ Listed(answer.events)
          BY <1>8, <3>2
        <5> HIDE DEF answer, events
        <5> QED BY <5>1, Joined
      <4> HIDE DEF answer, events
      <4> QED BY <3>2, <4>1 DEF Joins
    <3> HIDE DEF answer, events
    <3>5. Answers(events)
      BY <1>8, <3>2, <3>3, <3>4 DEF Answers, NoAcks
    <3>6. \A i \in DOMAIN events : events[i].kind = "ack" => events[i].order = d[1] /\ events[i].at = AckOf(n)
      BY <1>8, <3>2, <3>3, <3>4 DEF NoAcks
    <3> QED BY <2>2, <3>1, <3>2, <3>5, <3>6
  <2> QED BY <2>1, <2>2
<1>12. /\ DueBars' = DueBars \ {n} /\ SeenBars' = SeenBars \cup {n} /\ \A k \in SeenBars : k < n
  BY <1>1, <1>2, <1>11, BarMoves DEF n
<1>13. /\ OrdersInv'
       /\ Ordered' = IF d = <<>> THEN Ordered ELSE Ordered \cup {n}
       /\ \A k \in Ordered : OrderOfDay(k)' = OrderOfDay(k)
       /\ d # <<>> => OrderOfDay(n)' = d[1]
  BY <1>2, <1>3, <1>4, <1>5, <1>6, <1>9, <1>10, <1>12, DecisionTaken
<1>14. Ordered \subseteq Ordered' /\ (d # <<>> => n \in Ordered')
  BY <1>13
<1>15. QueueInv'
  <2>1. \A i \in DOMAIN events : events[i].kind = "ack" =>
          n \in Ordered' /\ events[i].order = OrderOfDay(n)' /\ events[i].at = AckOf(n)
    BY <1>11, <1>13, <1>14
  <2> QED BY <1>1, <1>2, <1>5, <1>11, <1>13, <1>14, <2>1, BarQueued DEF n
<1>16. QuoteInv'
  <2>1. SeenBars \subseteq Lattice
    BY DEF SeenBars
  <2>2. venue'.quote.asOf = CloseOf(n) /\ simNow' = CloseOf(n)
    BY <1>5, <1>6, <1>8, <1>11
  <2> QED BY <1>2, <1>5, <1>6, <1>12, <2>1, <2>2, QuoteMoves
<1>17. BookInv'
  <2>1. DueBars' \subseteq DueBars /\ simNow' \in Nat
    BY <1>5, <1>6, <1>12
  <2>2. \A r \in venue'.resting : \E o \in venue.resting : r.order = o.order
    BY <1>8, <1>11
  <2>3. \A p \in venue'.prints :
          \/ p \in venue.prints
          \/ \E r \in venue.resting : /\ p.order = r.order.id /\ p.passive = TRUE
                                      /\ p.at = CloseOf(n) /\ p.pricedOn = CloseOf(n)
    BY <1>8, <1>11
  <2> QED BY <1>2, <1>3, <1>5, <1>6, <1>11, <1>13, <1>14, <2>1, <2>2, <2>3, BarBooked
<1> QED BY <1>5, <1>6, <1>13, <1>15, <1>16, <1>17 DEF SimulationInv

-----------------------------------------------------------------------------
(* Every step of a run keeps the invariant.                                *)
LEMMA NothingPast ==
  ASSUME NEW e, Pop(e), NEW events, Schedule(queue \ {e}, events)
  PROVE  \A f \in queue' : simNow' <= f.at
<1>1. \A f \in queue' : f \in queue \ {e} \/ \E n \in DOMAIN events : Brings(f, events[n], simNow')
  BY QueueAfter
<1>2. \A f \in queue \ {e} : simNow' <= f.at
  BY Popped
<1> QED BY <1>1, <1>2 DEF Brings

LEMMA DispatchKeeps ==
  ASSUME RunInv, DispatchBar \/ DispatchAck \/ DispatchOutcome
  PROVE  RunInv'
<1>1. PICK e, events : Pop(e) /\ Schedule(queue \ {e}, events)
  <2>1. ASSUME DispatchBar PROVE \E e, events : Pop(e) /\ Schedule(queue \ {e}, events)
    BY <2>1, Zenon DEF DispatchBar
  <2>2. ASSUME DispatchAck PROVE \E e, events : Pop(e) /\ Schedule(queue \ {e}, events)
    BY <2>2 DEF DispatchAck
  <2>3. ASSUME DispatchOutcome PROVE \E e, events : Pop(e) /\ Schedule(queue \ {e}, events)
    BY <2>3 DEF DispatchOutcome
  <2> QED BY <2>1, <2>2, <2>3
<1>2. \A f \in queue' : simNow' <= f.at
  BY <1>1, NothingPast
<1>3. Running /\ tape' = tape /\ stored' = stored /\ charged' = charged /\ Lattice' = Lattice
  BY <1>1 DEF Pop, Lattice
<1>4. phase' \in {phase, "failed"}
  BY <1>1, QueueAfter
<1>5. phase' = "simulated" => SimulationInv'
  <2>1. ASSUME phase' = "simulated" PROVE SimulationInv'
    <3>1. phase = "simulated" /\ phase' # "failed"
      BY <1>4, <2>1
    <3> QED BY <3>1, BarKept, AckKept, OutcomeKept
  <2> QED BY <2>1
<1>6. phase \in {"simulated", "replayed"}
  BY <1>3 DEF Running
<1> QED BY <1>2, <1>3, <1>4, <1>5, <1>6 DEF RunInv

LEMMA RunInvSteps == RunInv /\ [RunNext]_runVars => RunInv'
<1> SUFFICES ASSUME RunInv, [RunNext]_runVars PROVE RunInv'
  OBVIOUS
<1>1. CASE StartBacktest
  BY <1>1, RunStarted
<1>2. CASE DispatchBar \/ DispatchAck \/ DispatchOutcome
  BY <1>2, DispatchKeeps
<1>3. CASE CompleteRun
  <2>1. /\ phase \in {"simulated", "replayed"} /\ tape' = tape /\ stored' = stored /\ charged' = charged
        /\ Lattice' = Lattice
    BY <1>3 DEF CompleteRun, Running, Lattice
  <2>2. CASE phase = "simulated"
    <3>1. phase' = "replayed" /\ Started(EmptyVenue)
      BY <1>3, <2>2 DEF CompleteRun
    <3>2. \A f \in queue' : simNow' <= f.at
      <4>1. simNow' = 0 /\ \A f \in queue' : 0 <= f.at
        BY <3>1, FeedQueued DEF RunInv
      <4> QED BY <4>1
    <3> QED BY <2>1, <2>2, <3>1, <3>2 DEF RunInv
  <2>3. CASE phase # "simulated"
    <3>1. phase' = "done" /\ queue' = queue /\ simNow' = simNow
      BY <1>3, <2>3 DEF CompleteRun
    <3> QED BY <2>1, <3>1 DEF RunInv
  <2> QED BY <2>2, <2>3
<1>4. CASE ExhaustBudget
  BY <1>4 DEF ExhaustBudget, RunInv
<1>5. CASE UNCHANGED runVars
  <2>1. UNCHANGED <<phase, tape, stored, charged, simNow, queue, venue, decisions>>
    BY <1>5 DEF runVars
  <2>2. NothingYet => NothingYet'
    BY <2>1 DEF NothingYet, Lattice
  <2>3. SimulationInv => SimulationInv'
    <3>1. Lattice' = Lattice /\ Ordered' = Ordered /\ DueBars' = DueBars
      BY <2>1 DEF Lattice, Ordered, DueBars
    <3>2. SeenBars' = SeenBars
      BY <3>1 DEF SeenBars, CloseOf
    <3>3. QueueInv => QueueInv'
      BY <2>1, <3>1 DEF QueueInv, IsBar, IsAck, OrderOfDay, AckOf, AckAt, CloseOf
    <3>4. QuoteInv => QuoteInv'
      BY <2>1, <3>2 DEF QuoteInv, CloseOf
    <3>5. OrdersInv => OrdersInv'
      BY <2>1, <3>1, <3>2 DEF OrdersInv, OrderOfDay
    <3>6. BookInv => BookInv'
      BY <2>1, <3>1, BookStays
    <3> QED BY <2>1, <3>3, <3>4, <3>5, <3>6 DEF SimulationInv
  <2>4. Lattice' = Lattice
    BY <2>1 DEF Lattice
  <2> QED BY <2>1, <2>2, <2>3, <2>4 DEF RunInv
<1> QED BY <1>1, <1>2, <1>3, <1>4, <1>5 DEF RunNext

(* No event is dispatched before its cause, and no print is priced on a    *)
(* bar that closed after it: a resting order is paid by bars that closed   *)
(* after its acknowledgement only, a crossing one is priced on the last    *)
(* bar closed at its acknowledgement and a whole latency later, whatever   *)
(* the tape, the latency, the orders and their number (EventQueue.pop,     *)
(* RunContext.schedule, FillSimulation.observe, resolve_ack).              *)
THEOREM NoLookAheadKept == RunSpec => []NoLookAhead
  BY RunInvStarts, RunInvSteps, RunInvHolds, PTL DEF RunSpec

-----------------------------------------------------------------------------
(* The lesser of two numbers.                                              *)
LEMMA MinOfTwo ==
  ASSUME NEW a \in Int, NEW b \in Int
  PROVE  Min({a, b}) = IF a <= b THEN a ELSE b
<1>1. {a, b} \in SUBSET Int /\ a \in {a, b} /\ b \in {a, b}
  OBVIOUS
<1>2. CASE a <= b
  <2>1. \A x \in {a, b} : a <= x
    BY <1>2
  <2> QED BY <1>1, <1>2, <2>1, MinIs
<1>3. CASE ~(a <= b)
  <2>1. \A x \in {a, b} : b <= x
    BY <1>3
  <2> QED BY <1>1, <1>3, <2>1, MinIs
<1> QED BY <1>2, <1>3

-----------------------------------------------------------------------------
(* What a declaration is, and the shortest of its intervals.               *)
Shortest(spec) == Min(spec.intervals)

LEMMA DeclaredTyped ==
  ASSUME NEW d \in Declarations
  PROVE  /\ d.warmUp \in Nat \ {0} /\ d.floor \in Nat /\ d.cap \in Nat
         /\ 0 < d.floor /\ d.floor <= d.cap /\ d.cap < 100
         /\ d.multiple \in Nat /\ d.entry \in Nat /\ d.span \in 1 .. 10
         /\ d.scaling \in d.requires \cup {"none"}
         /\ d.kind = "continuation" => "return" \in d.requires
         /\ \A offer \in Offered[d.kind] : \A f \in DOMAIN offer.values : offer.values[f] \in Int
  BY StrategyAssumption DEF WellDeclared, Bounded, Parameterised

LEMMA ShortestTyped ==
  ASSUME NEW d \in Declarations
  PROVE  /\ d.intervals \subseteq Nat \ {0} /\ Shortest(d) \in d.intervals
         /\ \A l \in d.intervals : Shortest(d) <= l
<1>1. d.intervals \in SUBSET Nat /\ d.intervals # {} /\ d.intervals \subseteq Nat \ {0}
  BY StrategyAssumption DEF WellDeclared
<1>2. PICK m \in d.intervals : \A l \in d.intervals : m <= l
  BY <1>1, LeastExists
<1>3. Min(d.intervals) = m
  <2>1. d.intervals \in SUBSET Int
    BY <1>1
  <2> QED BY <1>2, <2>1, MinIs
<1> QED BY <1>1, <1>2, <1>3 DEF Shortest

LEMMA HandedTyped ==
  ASSUME NEW b \in BarsHanded
  PROVE  /\ b.open \in Nat /\ b.length \in Nat \ {0} /\ b.close \in Nat \ {0} /\ b.open % b.length = 0
         /\ Ends(b) = b.open + b.length /\ Ends(b) \in Nat /\ Ends(b) <= MaxBarTime
         /\ b.open \in 0 .. MaxBarTime
<1>1. /\ b \in [symbol : Symbols, open : 0 .. MaxBarTime, length : Lengths, close : Quotes]
      /\ b.open % b.length = 0 /\ Ends(b) <= MaxBarTime
  BY DEF BarsHanded
<1>2. b.open \in 0 .. MaxBarTime /\ b.length \in Lengths /\ b.close \in Quotes
  BY <1>1
<1>3. b.open \in Nat /\ b.length \in Nat \ {0} /\ b.close \in Nat \ {0}
  <2>1. Quotes \subseteq Nat \ {0} /\ Lengths \subseteq Nat \ {0} /\ MaxBarTime \in Nat
    BY StrategyAssumption
  <2>2. b.open \in Nat
    BY <1>2, <2>1
  <2>3. b.length \in Nat \ {0}
    BY <1>2, <2>1
  <2>4. b.close \in Nat \ {0}
    BY <1>2, <2>1
  <2> QED BY <2>2, <2>3, <2>4
<1>4. Ends(b) = b.open + b.length /\ Ends(b) \in Nat
  BY <1>3 DEF Ends
<1> QED BY <1>1, <1>2, <1>3, <1>4

LEMMA DeclarationsAre ==
  ASSUME NEW c \in Catalogues, NEW i \in 1 .. Len(c)
  PROVE  c[i] \in Declarations
  BY StrategyAssumption DEF Declarations

-----------------------------------------------------------------------------
(* The distance lies between its floor and its cap, and a level snaps away *)
(* from the entry by less than a tick.                                     *)
LEMMA DistanceIs ==
  ASSUME NEW d \in Declarations, NEW values, d.scaling # "none" => values[d.scaling] \in Int
  PROVE  Distance(d, values) \in Int /\ d.floor <= Distance(d, values) /\ Distance(d, values) <= d.cap
<1>1. d.floor \in Int /\ d.cap \in Int /\ d.floor <= d.cap /\ d.multiple \in Int
  BY DeclaredTyped
<1>2. CASE d.scaling = "none"
  BY <1>1, <1>2 DEF Distance
<1>3. CASE d.scaling # "none"
  <2>1. PICK x \in Int : x = d.multiple * values[d.scaling]
    BY <1>1, <1>3
  <2>2. PICK y \in Int : y = Min({d.cap, x}) /\ y <= d.cap
    <3>1. Min({d.cap, x}) = IF d.cap <= x THEN d.cap ELSE x
      BY <1>1, MinOfTwo
    <3> QED BY <1>1, <3>1
  <2>3. PICK z \in Int : z = Max({d.floor, y}) /\ d.floor <= z /\ z <= d.cap
    <3>1. Max({d.floor, y}) = IF d.floor <= y THEN y ELSE d.floor
      BY <1>1, MaxOfTwo
    <3> QED BY <1>1, <2>2, <3>1
  <2>4. Distance(d, values) = z
    BY <1>3, <2>1, <2>2, <2>3 DEF Distance
  <2> QED BY <2>3, <2>4
<1> QED BY <1>2, <1>3

LEMMA SnappedIs ==
  ASSUME NEW h \in Nat, NEW side
  PROVE  /\ Snapped(h, side) \in Nat
         /\ side = "BUY" => 100 * Snapped(h, side) <= h /\ h < 100 * Snapped(h, side) + 100 * TickSize
         /\ side # "BUY" => h <= 100 * Snapped(h, side) /\ 100 * Snapped(h, side) < h + 100 * TickSize
<1>1. PICK t \in Nat \ {0} : t = TickSize
  BY StrategyAssumption
<1>2. PICK g \in Nat \ {0} : g = 100 * t
  BY <1>1
<1>3. CASE side = "BUY"
  <2>1. PICK q \in Nat : q = h \div g /\ q * g <= h /\ h < q * g + g
    BY <1>2, DivIs
  <2>2. Snapped(h, side) = t * q
    BY <1>1, <1>2, <1>3, <2>1 DEF Snapped
  <2>3. PICK x \in Nat : x = t * q /\ 100 * x = q * g
    BY <1>1, <1>2, <2>1
  <2> QED BY <1>1, <1>2, <1>3, <2>1, <2>2, <2>3
<1>4. CASE side # "BUY"
  <2>0. h + g - 1 \in Nat
    BY <1>2
  <2>1. PICK q \in Nat : q = (h + g - 1) \div g /\ q * g <= h + g - 1 /\ h + g - 1 < q * g + g
    BY <1>2, <2>0, DivIs
  <2>2. Snapped(h, side) = t * q
    BY <1>1, <1>2, <1>4, <2>1 DEF Snapped
  <2>3. PICK x \in Nat : x = t * q /\ 100 * x = q * g
    BY <1>1, <1>2, <2>1
  <2> QED BY <1>1, <1>2, <1>4, <2>1, <2>2, <2>3
<1> QED BY <1>3, <1>4

Sizeable(d, level, direction, c) ==
  LET away == IF direction = "LONG" THEN c - level ELSE level - c
  IN  100 * away >= d.floor * c /\ 100 * away <= d.cap * c + 100 * TickSize

LEMMA LevelIs ==
  ASSUME NEW d \in Declarations, NEW values, d.scaling # "none" => values[d.scaling] \in Int,
         NEW c \in Nat \ {0}, NEW direction
  PROVE  Sizeable(d, LevelFor(d, direction, c, values), direction, c)
<1>1. PICK x \in Int : x = Distance(d, values) /\ d.floor <= x /\ x <= d.cap
  BY DistanceIs
<1>2. PICK lo \in Nat, hi \in Nat : lo = d.floor /\ hi = d.cap /\ hi < 100 /\ 0 < lo
  BY DeclaredTyped
<1>3. PICK t \in Nat \ {0} : t = TickSize
  BY StrategyAssumption
<1>4. PICK m \in Nat : m = c * x /\ lo * c <= m /\ m <= hi * c
  <2>1. x \in Nat /\ lo <= x /\ x <= hi
    BY <1>1, <1>2
  <2>2. lo * c <= c * x
    BY <1>2, <2>1
  <2>3. c * x <= hi * c
    BY <1>2, <2>1
  <2> QED BY <2>1, <2>2, <2>3
<1>5. lo * c \in Nat /\ hi * c \in Nat
  BY <1>2
<1>6. CASE direction = "LONG"
  <2>1. PICK h \in Nat : h = c * (100 - x) /\ h = 100 * c - m
    <3>1. 100 - x \in Nat
      BY <1>1, <1>2
    <3>2. c * (100 - x) = 100 * c - m
      BY <1>1, <1>4
    <3> QED BY <3>1, <3>2
  <2>2. PICK s \in Nat : s = Snapped(h, "BUY") /\ 100 * s <= h /\ h < 100 * s + 100 * t
    BY <1>3, SnappedIs
  <2>3. LevelFor(d, direction, c, values) = s
    BY <1>1, <1>6, <2>1, <2>2 DEF LevelFor
  <2>4. 100 * (c - s) >= lo * c /\ 100 * (c - s) <= hi * c + 100 * t
    BY <1>4, <1>5, <2>1, <2>2
  <2> QED BY <1>2, <1>3, <1>6, <2>3, <2>4 DEF Sizeable
<1>7. CASE direction # "LONG"
  <2>1. PICK h \in Nat : h = c * (100 + x) /\ h = 100 * c + m
    <3>1. c * (100 + x) = 100 * c + m
      BY <1>1, <1>4
    <3> QED BY <1>4, <3>1
  <2>2. PICK s \in Nat : s = Snapped(h, "SELL") /\ h <= 100 * s /\ 100 * s < h + 100 * t
    BY <1>3, SnappedIs
  <2>3. LevelFor(d, direction, c, values) = s
    BY <1>1, <1>7, <2>1, <2>2 DEF LevelFor
  <2>4. 100 * (s - c) >= lo * c /\ 100 * (s - c) <= hi * c + 100 * t
    BY <1>4, <1>5, <2>1, <2>2
  <2> QED BY <1>2, <1>3, <1>7, <2>3, <2>4 DEF Sizeable
<1> QED BY <1>6, <1>7

(* A belief that is held is held with some conviction.                     *)
LEMMA ConvictionIs ==
  ASSUME NEW d \in Declarations, NEW v, d.kind = "continuation" => v["return"] \in Int, Belief(d, v) # "NONE"
  PROVE  Conviction(d, v) \in 1 .. 100
<1>1. CASE d.kind # "continuation"
  BY <1>1 DEF Conviction
<1>2. CASE d.kind = "continuation"
  <2>1. PICK r \in Nat : r = Magnitude(v["return"])
    BY <1>2 DEF Magnitude
  <2>2. PICK e \in Nat, p \in 1 .. 10 : e = d.entry /\ p = d.span
    BY DeclaredTyped
  <2>3. ~(r < e)
    BY <1>2, <2>1, <2>2 DEF Belief, Continuation
  <2>4. PICK f \in Nat : f = e * p /\ f <= 10 * e
    <3>1. e * p <= e * 10
      BY <2>2
    <3> QED BY <2>2, <3>1
  <2>5. CASE r >= f
    BY <1>2, <2>1, <2>2, <2>4, <2>5 DEF Conviction
  <2>6. CASE r < f
    <3>1. PICK q \in Nat : q = (100 * r) \div f /\ q * f <= 100 * r /\ 100 * r < q * f + f
      <4>1. 100 * r \in Nat /\ f \in Nat \ {0}
        BY <2>6
      <4> QED BY <4>1, DivIs
    <3>2. Conviction(d, v) = q
      BY <1>2, <2>1, <2>2, <2>4, <2>6, <3>1 DEF Conviction
    <3>3. q # 0
      <4>1. f <= 10 * r
        BY <2>1, <2>2, <2>3, <2>4
      <4>2. CASE q = 0
        <5>1. q * f = 0
          BY <2>4, <4>2
        <5>2. 100 * r < f
          BY <2>1, <2>4, <3>1, <5>1
        <5> QED BY <2>1, <2>4, <2>6, <4>1, <5>2
      <4> QED BY <4>2
    <3>4. ~(q > 100)
      <4>1. CASE q >= 101
        <5>1. q * f >= 101 * f
          BY <4>1
        <5> QED BY <2>6, <3>1, <5>1
      <4> QED BY <4>1
    <3> QED BY <3>2, <3>3, <3>4
  <2> QED BY <2>5, <2>6
<1> QED BY <1>1, <1>2

-----------------------------------------------------------------------------
(* The window after one more bar: never longer than declared, ending in    *)
(* the bar, and holding nothing that was not in it before.                 *)
WindowEndsIn(d, bar, r) ==
  /\ r \in Seq(BarsHanded) /\ Len(r) \in 1 .. (d.warmUp + 1) /\ r[Len(r)] = bar
  /\ \A i \in 1 .. Len(r) :
       r[i] = bar \/ \E j \in 1 .. Len(strategyState.recent) : r[i] = strategyState.recent[j]

LEMMA AdvancedSays ==
  ASSUME NEW d \in Declarations, strategyState.recent \in Seq(BarsHanded), NEW bar \in BarsHanded, NEW values
  PROVE  WindowEndsIn(d, bar, Advanced(d, bar, values).recent)
<1>1. PICK old \in Seq(BarsHanded) : old = strategyState.recent
  OBVIOUS
<1>2. PICK all \in Seq(BarsHanded) :
        /\ all = Append(old, bar) /\ Len(all) = Len(old) + 1 /\ all[Len(old) + 1] = bar
        /\ \A i \in 1 .. Len(old) : all[i] = old[i]
  <2>1. /\ Append(old, bar) \in Seq(BarsHanded)
        /\ Len(Append(old, bar)) = Len(old) + 1 /\ Append(old, bar)[Len(old) + 1] = bar
        /\ \A i \in 1 .. Len(old) : Append(old, bar)[i] = old[i]
    BY AppendProperties
  <2> QED BY <2>1, Zenon
<1>3. PICK w \in Nat \ {0} : w = d.warmUp
  BY DeclaredTyped
<1>4. PICK n \in Nat : n = Len(all) /\ n = Len(old) + 1
  BY <1>2
<1>5a. PICK e \in Nat : e = Max({0, n - (w + 1)}) /\ e < n /\ n - e <= w + 1
  <2>1. n - (w + 1) \in Int
    BY <1>3, <1>4
  <2>2. Max({0, n - (w + 1)}) = IF 0 <= n - (w + 1) THEN n - (w + 1) ELSE 0
    BY <2>1, MaxOfTwo
  <2> QED BY <1>3, <1>4, <2>1, <2>2
<1>5. e < n /\ n - e <= w + 1
  BY <1>5a
<1>6. PICK r : r = SubSeq(all, e + 1, n) /\ r = Advanced(d, bar, values).recent
  BY <1>1, <1>2, <1>3, <1>4, <1>5a DEF Advanced
<1>7. r \in Seq(BarsHanded) /\ Len(r) = n - e /\ \A i \in 1 .. (n - e) : r[i] = all[e + i]
  <2>1. PICK m \in Nat : m = e + 1 /\ m <= n
    BY <1>4, <1>5
  <2>2. \A i \in m .. n : all[i] \in BarsHanded
    <3>1. \A i \in 1 .. n : all[i] \in BarsHanded
      BY <1>4, ElementOfSeq
    <3>2. \A i \in m .. n : i \in 1 .. n
      BY <2>1
    <3> QED BY <3>1, <3>2
  <2>3. r = SubSeq(all, m, n)
    BY <1>6, <2>1
  <2>4. /\ r \in Seq(BarsHanded) /\ Len(r) = (IF m <= n THEN n - m + 1 ELSE 0)
        /\ \A i \in 1 .. (n - m + 1) : r[i] = all[m + i - 1]
    BY <2>1, <2>2, <2>3, SubSeqProperties
  <2>5. Len(r) = n - e
    BY <1>4, <1>5, <2>1, <2>4
  <2>6. ASSUME NEW i \in 1 .. (n - e)
        PROVE  r[i] = all[e + i]
    <3>1. i \in 1 .. (n - m + 1) /\ m + i - 1 = e + i
      BY <1>4, <1>5, <2>1
    <3>2. r[i] = all[m + i - 1]
      BY <2>4, <3>1
    <3> QED BY <3>1, <3>2
  <2> QED BY <2>4, <2>5, <2>6
<1>8. Len(r) \in 1 .. (w + 1) /\ r[Len(r)] = bar
  <2>1. n - e \in 1 .. (n - e) /\ e + (n - e) = n /\ n - e \in 1 .. (w + 1)
    BY <1>3, <1>4, <1>5
  <2>2. r[n - e] = all[n]
    BY <1>7, <2>1
  <2> QED BY <1>2, <1>4, <1>7, <2>1, <2>2
<1>9. ASSUME NEW i \in 1 .. Len(r)
      PROVE  r[i] = bar \/ \E j \in 1 .. Len(old) : r[i] = old[j]
  <2>1. i \in 1 .. (n - e) /\ e + i \in 1 .. n /\ r[i] = all[e + i]
    <3>1. i \in 1 .. (n - e)
      BY <1>7
    <3>2. e + i \in 1 .. n
      BY <1>4, <1>5, <3>1
    <3> QED BY <1>7, <3>1, <3>2
  <2>2. CASE e + i = n
    BY <1>2, <1>4, <2>1, <2>2
  <2>3. CASE e + i # n
    <3>1. e + i \in 1 .. Len(old)
      BY <1>4, <1>5, <2>1, <2>3
    <3> QED BY <1>2, <2>1, <3>1
  <2> QED BY <2>2, <2>3
<1>10. \A i \in 1 .. Len(r) : r[i] = bar \/ \E j \in 1 .. Len(strategyState.recent) : r[i] = strategyState.recent[j]
  BY <1>1, <1>9
<1>11. r \in Seq(BarsHanded) /\ Len(r) \in 1 .. (d.warmUp + 1)
  BY <1>3, <1>7, <1>8
<1> QED BY <1>6, <1>8, <1>10, <1>11 DEF WindowEndsIn

(* A clock that is not behind the last close is behind none.               *)
LEMMA LastCloseSays ==
  ASSUME strategyState.recent \in Seq(BarsHanded)
  PROVE  LastClose \in Nat /\ \A i \in 1 .. Len(strategyState.recent) : Ends(strategyState.recent[i]) <= LastClose
<1>1. PICK r \in Seq(BarsHanded) : r = strategyState.recent /\ DOMAIN r = 1 .. Len(r)
  OBVIOUS
<1> DEFINE S == {0} \cup {Ends(r[i]) : i \in DOMAIN r}
<1>2. S \in SUBSET (0 .. MaxBarTime) /\ MaxBarTime \in Nat /\ S # {}
  <2>1. MaxBarTime \in Nat
    BY StrategyAssumption
  <2>2. \A i \in DOMAIN r : r[i] \in BarsHanded
    BY <1>1
  <2>3. \A i \in DOMAIN r : Ends(r[i]) \in 0 .. MaxBarTime
    BY <2>1, <2>2, HandedTyped
  <2> QED BY <2>1, <2>3
<1>3. LastClose = Max(S)
  BY <1>1 DEF LastClose
<1>4. \A i \in 1 .. Len(r) : Ends(r[i]) \in S
  BY <1>1
<1> HIDE DEF S
<1>5. PICK m \in S : \A y \in S : y <= m
  BY <1>2, MostExists
<1>6. Max(S) = m
  <2>1. S \in SUBSET Int
    BY <1>2
  <2> QED BY <1>5, <2>1, MaxIs
<1>7. m \in Nat
  BY <1>2, <1>5
<1> QED BY <1>1, <1>3, <1>4, <1>5, <1>6, <1>7

(* A bar that has closed when the strategy reads the clock is the newest   *)
(* it sees.                                                                *)
LEMMA NewestSays ==
  ASSUME NEW state, state.recent \in Seq(BarsHanded), Len(state.recent) # 0, NEW asOf \in Int,
         Ends(state.recent[Len(state.recent)]) <= asOf
  PROVE  VisibleBars(state, asOf) # {} /\ NewestVisible(state, asOf) = state.recent[Len(state.recent)]
<1>1. PICK r \in Seq(BarsHanded) : r = state.recent /\ DOMAIN r = 1 .. Len(r)
  OBVIOUS
<1>2. PICK n \in Nat : n = Len(r) /\ n # 0
  BY <1>1
<1>3. n \in VisibleBars(state, asOf)
  BY <1>1, <1>2 DEF VisibleBars
<1>4. VisibleBars(state, asOf) \in SUBSET Int /\ \A i \in VisibleBars(state, asOf) : i <= n
  BY <1>1, <1>2 DEF VisibleBars
<1>5. Max(VisibleBars(state, asOf)) = n
  BY <1>3, <1>4, MaxIs
<1> QED BY <1>1, <1>2, <1>3, <1>5 DEF NewestVisible

-----------------------------------------------------------------------------
(* What handing over a bar leads to, outcome by outcome.                   *)
Decided(d, bar, asOf, offer) ==
  Observable(d, bar, asOf) /\ Consistent(d, offer) /\ offer.withheld = {} /\ DOMAIN offer.values = d.requires
    /\ Advanced(d, bar, offer.values).consumed >= d.warmUp

LEMMA OutcomeSays ==
  ASSUME NEW d \in Declarations, NEW bar, NEW asOf, NEW again, NEW offer, strategyState.consumed \in Nat
  PROVE  LET out    == Outcome(d, bar, asOf, again, offer)
             next   == Advanced(d, bar, offer.values)
             signal == SignalOf(d, next, bar, again)
         IN  /\ out.is \notin {"unregistered", "ready", "invalid"}
             /\ out.state = strategyState \/ (out.state = next /\ Observable(d, bar, asOf))
             /\ out.is \in {"signal", "mismatched"} =>
                  Decided(d, bar, asOf, offer) /\ signal.direction # "NONE"
             /\ out.is = "signal" =>
                  out.state = next /\ out.signal = signal /\ Matches(d, signal, bar, asOf, offer.values)
             /\ out.is = "mismatched" => ~Matches(d, signal, bar, asOf, offer.values)
<1>1. PICK next : next = Advanced(d, bar, offer.values)
  OBVIOUS
<1>2. PICK signal : signal = SignalOf(d, next, bar, again)
  OBVIOUS
<1>3. PICK w \in Nat : w = d.warmUp
  BY DeclaredTyped
<1>4. PICK c \in Nat : c = next.consumed
  BY <1>1 DEF Advanced
<1>5. PICK out : out = Outcome(d, bar, asOf, again, offer)
  OBVIOUS
<1>6. CASE ~Observable(d, bar, asOf) \/ ~Consistent(d, offer)
  <2>1. out = [is |-> "refused", state |-> strategyState]
    BY <1>5, <1>6 DEF Outcome
  <2> QED BY <1>5, <2>1
<1>7. CASE Observable(d, bar, asOf) /\ Consistent(d, offer)
  <2>1. CASE c < w
    <3>1. out = [is |-> "warming", state |-> next]
      BY <1>1, <1>3, <1>4, <1>5, <1>7, <2>1 DEF Outcome
    <3> QED BY <1>1, <1>5, <1>7, <3>1
  <2>2. CASE ~(c < w) /\ offer.withheld # {}
    <3>1. out = [is |-> "withheld", state |-> next]
      BY <1>1, <1>3, <1>4, <1>5, <1>7, <2>2 DEF Outcome
    <3> QED BY <1>1, <1>5, <1>7, <3>1
  <2>3. CASE ~(c < w) /\ offer.withheld = {} /\ DOMAIN offer.values # d.requires
    <3>1. out = [is |-> "refused", state |-> strategyState]
      BY <1>1, <1>3, <1>4, <1>5, <1>7, <2>3 DEF Outcome
    <3> QED BY <1>5, <3>1
  <2>4. CASE ~(c < w) /\ offer.withheld = {} /\ DOMAIN offer.values = d.requires
    <3>1. Decided(d, bar, asOf, offer)
      <4>1. next.consumed >= d.warmUp
        BY <1>3, <1>4, <2>4
      <4> QED BY <1>1, <1>7, <2>4, <4>1 DEF Decided
    <3>2. CASE signal.direction = "NONE"
      <4>1. out = [is |-> "silent", state |-> next]
        BY <1>1, <1>2, <1>3, <1>4, <1>5, <1>7, <2>4, <3>2 DEF Outcome
      <4> QED BY <1>1, <1>5, <1>7, <4>1
    <3>3. CASE signal.direction # "NONE" /\ signal.level <= 0
      <4>1. out = [is |-> "inexpressible", state |-> strategyState]
        BY <1>1, <1>2, <1>3, <1>4, <1>5, <1>7, <2>4, <3>3 DEF Outcome
      <4> QED BY <1>5, <4>1
    <3>4. CASE signal.direction # "NONE" /\ ~(signal.level <= 0) /\ ~Matches(d, signal, bar, asOf, offer.values)
      <4>1. out = [is |-> "mismatched", state |-> strategyState]
        BY <1>1, <1>2, <1>3, <1>4, <1>5, <1>7, <2>4, <3>4 DEF Outcome
      <4> QED BY <1>1, <1>2, <1>5, <3>1, <3>4, <4>1
    <3>5. CASE signal.direction # "NONE" /\ ~(signal.level <= 0) /\ Matches(d, signal, bar, asOf, offer.values)
      <4>1. out = [is |-> "signal", state |-> next, signal |-> signal]
        BY <1>1, <1>2, <1>3, <1>4, <1>5, <1>7, <2>4, <3>5 DEF Outcome
      <4> QED BY <1>1, <1>2, <1>5, <1>7, <3>1, <3>5, <4>1
    <3> QED BY <3>2, <3>3, <3>4, <3>5
  <2> QED BY <2>1, <2>2, <2>3, <2>4
<1> QED BY <1>6, <1>7

(* A strategy that has read no later a clock than the runner asks for the  *)
(* level the runner recomputes.                                            *)
LEMMA SameClockMatches ==
  ASSUME NEW d \in Declarations, strategyState.recent \in Seq(BarsHanded), NEW bar \in BarsHanded,
         NEW asOf \in Int, NEW offer, Observable(d, bar, asOf)
  PROVE  Matches(d, SignalOf(d, Advanced(d, bar, offer.values), bar, asOf), bar, asOf, offer.values)
<1>1. PICK next : next = Advanced(d, bar, offer.values)
  OBVIOUS
<1>2. /\ next.recent \in Seq(BarsHanded) /\ Len(next.recent) # 0 /\ next.recent[Len(next.recent)] = bar
      /\ next.values = offer.values
  <2>1. next.recent \in Seq(BarsHanded) /\ Len(next.recent) \in 1 .. (d.warmUp + 1) /\ next.recent[Len(next.recent)] = bar
    BY <1>1, AdvancedSays DEF WindowEndsIn
  <2>2. next.values = offer.values
    BY <1>1 DEF Advanced
  <2> QED BY <2>1, <2>2
<1>3. Ends(bar) <= asOf
  BY DEF Observable
<1>4. VisibleBars(next, asOf) # {} /\ NewestVisible(next, asOf) = bar
  BY <1>2, <1>3, NewestSays
<1>5. PICK signal : signal = SignalOf(d, next, bar, asOf)
  OBVIOUS
<1>6. /\ signal.symbol = bar.symbol /\ signal.at = asOf
      /\ signal.level = LevelFor(d, signal.direction, bar.close, offer.values)
  BY <1>2, <1>4, <1>5 DEF SignalOf
<1> QED BY <1>1, <1>5, <1>6 DEF Matches

-----------------------------------------------------------------------------
(* A signal stands on its bars, and is thrown away for a moved clock only. *)
StateSound == strategyState.consumed \in Nat /\ strategyState.recent \in Seq(BarsHanded)

LEMMA HandingDecides ==
  ASSUME runner.spec \in Declarations, StateSound, NEW bar \in BarsHanded, NEW asOf \in Int, NEW again \in Int,
         NEW offer \in Offered[runner.spec.kind], HandBar(bar, asOf, again, offer)
  PROVE  SignalsStand' /\ OnlyAMovedClockMismatches'
<1>1. PICK d \in Declarations : d = runner.spec /\ d = runner'.spec
  BY DEF HandBar
<1>2. PICK out : out = Outcome(d, bar, asOf, again, offer)
  OBVIOUS
<1>3. PICK next : next = Advanced(d, bar, offer.values)
  OBVIOUS
<1>4. PICK signal : signal = SignalOf(d, next, bar, again)
  OBVIOUS
<1>5. /\ LastClose <= asOf /\ asOf <= again /\ strategyState' = out.state
      /\ verdict' = [is |-> out.is, signal |-> IF out.is = "signal" THEN out.signal ELSE <<>>,
                     withheld |-> IF out.is = "signal" THEN offer.withheld ELSE {},
                     moved |-> out.is = "mismatched" /\ asOf < again]
  BY <1>1, <1>2 DEF HandBar
<1>6. /\ out.is \in {"signal", "mismatched"} => Decided(d, bar, asOf, offer) /\ signal.direction # "NONE"
      /\ out.is = "signal" =>
           out.state = next /\ out.signal = signal /\ Matches(d, signal, bar, asOf, offer.values)
      /\ out.is = "mismatched" => ~Matches(d, signal, bar, asOf, offer.values)
  BY <1>2, <1>3, <1>4, OutcomeSays DEF StateSound
<1>7. OnlyAMovedClockMismatches'
  <2>1. CASE out.is # "mismatched"
    BY <1>5, <2>1 DEF OnlyAMovedClockMismatches
  <2>2. CASE out.is = "mismatched"
    <3>1. Observable(d, bar, asOf) /\ ~Matches(d, signal, bar, asOf, offer.values)
      BY <1>6, <2>2 DEF Decided
    <3>2. asOf # again
      BY <1>3, <1>4, <3>1, SameClockMatches DEF StateSound
    <3>3. asOf < again
      BY <1>5, <3>2
    <3> QED BY <1>5, <2>2, <3>3 DEF OnlyAMovedClockMismatches
  <2> QED BY <2>1, <2>2
<1>8. SignalsStand'
  <2>1. CASE out.is # "signal"
    BY <1>5, <2>1 DEF SignalsStand
  <2>2. CASE out.is = "signal"
    <3>1. /\ strategyState' = next /\ verdict'.signal = signal /\ verdict'.withheld = offer.withheld
          /\ Matches(d, signal, bar, asOf, offer.values) /\ signal.direction # "NONE"
          /\ Decided(d, bar, asOf, offer)
      BY <1>5, <1>6, <2>2
    <3>2. PICK r \in Seq(BarsHanded) :
            /\ r = next.recent /\ Len(r) \in 1 .. (d.warmUp + 1) /\ r[Len(r)] = bar
            /\ \A i \in 1 .. Len(r) :
                 r[i] = bar \/ \E j \in 1 .. Len(strategyState.recent) : r[i] = strategyState.recent[j]
      <4>1. WindowEndsIn(d, bar, next.recent)
        BY <1>3, AdvancedSays DEF StateSound
      <4> QED BY <4>1 DEF WindowEndsIn
    <3>3. DOMAIN r = 1 .. Len(r) /\ Last(r) = bar
      BY <3>2 DEF Last
    <3>4. \A i \in DOMAIN r : Ends(r[i]) <= asOf
      <4>1. Ends(bar) <= asOf /\ Ends(bar) \in Nat
        BY <3>1, HandedTyped DEF Decided, Observable
      <4>2. ASSUME NEW j \in 1 .. Len(strategyState.recent)
            PROVE  Ends(strategyState.recent[j]) <= asOf
        <5>1. LastClose \in Nat /\ Ends(strategyState.recent[j]) <= LastClose
          BY LastCloseSays DEF StateSound
        <5>2. strategyState.recent[j] \in BarsHanded
          BY ElementOfSeq DEF StateSound
        <5>3. Ends(strategyState.recent[j]) \in Nat
          BY <5>2, HandedTyped
        <5> QED BY <1>5, <5>1, <5>3
      <4>3. ASSUME NEW i \in DOMAIN r PROVE Ends(r[i]) <= asOf
        <5>1. CASE r[i] = bar
          BY <4>1, <5>1
        <5>2. CASE r[i] # bar
          <6>1. PICK j \in 1 .. Len(strategyState.recent) : r[i] = strategyState.recent[j]
            BY <3>2, <3>3, <5>2
          <6> QED BY <4>2, <6>1
        <5> QED BY <5>1, <5>2
      <4> QED BY <4>3
    <3>5. Len(r) <= d.warmUp + 1
      <4>1. d.warmUp \in Nat
        BY DeclaredTyped
      <4> QED BY <3>2, <4>1
    <3>6. offer.withheld = {} /\ DOMAIN offer.values = d.requires /\ next.values = offer.values
      BY <1>3, <3>1 DEF Decided, Advanced
    <3>7. \A f \in d.requires : offer.values[f] \in Int
      BY <1>1, <3>6, DeclaredTyped
    <3>8. /\ d.scaling # "none" => offer.values[d.scaling] \in Int
          /\ d.kind = "continuation" => offer.values["return"] \in Int
      BY <3>7, DeclaredTyped
    <3>9. signal.at = asOf /\ signal.level = LevelFor(d, signal.direction, bar.close, offer.values)
      BY <3>1 DEF Matches
    <3>10. Sizeable(d, signal.level, signal.direction, bar.close)
      <4>1. bar.close \in Nat \ {0}
        BY HandedTyped
      <4>2. d.scaling # "none" => offer.values[d.scaling] \in Int
        BY <3>8
      <4>3. Sizeable(d, LevelFor(d, signal.direction, bar.close, offer.values), signal.direction, bar.close)
        BY <4>1, <4>2, LevelIs
      <4> QED BY <3>9, <4>3
    <3>11. signal.conviction \in 1 .. 100
      <4>1. signal.conviction = Conviction(d, next.values)
        BY <1>4 DEF SignalOf
      <4>2. signal.direction = "NONE" \/ signal.direction = Belief(d, next.values)
        BY <1>4 DEF SignalOf
      <4> QED BY <3>1, <3>6, <3>8, <4>1, <4>2, ConvictionIs
    <3>12. runner'.spec = d /\ verdict'.signal = signal /\ strategyState'.recent = r /\ strategyState'.values = next.values
      BY <1>1, <3>1, <3>2
    <3> QED BY <3>1, <3>3, <3>4, <3>5, <3>6, <3>9, <3>10, <3>11, <3>12 DEF SignalsStand, Sizeable
  <2> QED BY <2>1, <2>2
<1> QED BY <1>7, <1>8

-----------------------------------------------------------------------------
(* What is registered was admitted, what runs was registered, and what has *)
(* not run is fresh.                                                       *)
RegistrySound ==
  /\ catalogue \in Catalogues /\ registry \in Seq(Declarations) /\ Len(registry) <= Len(catalogue)
  /\ \A i \in 1 .. Len(registry) : registry[i] = catalogue[i] /\ Admissible(registry[i])
RunnerSound ==
  /\ runner.on => runner.spec \in Declarations /\ Admissible(runner.spec) /\ verdict.is # "unregistered"
  /\ ~runner.on => strategyState = Fresh
StrategySound ==
  RegistrySound /\ RunnerSound /\ StateSound /\ since \in 0 .. MaxBarTime /\ SignalsStand /\ OnlyAMovedClockMismatches

(* A bar handed over, and the two reads of the clock around it.            *)
Handing ==
  /\ runner.on
  /\ \E bar \in BarsHanded, asOf \in Int, again \in Int, offer \in Offered[runner.spec.kind] :
       HandBar(bar, asOf, again, offer)

LEMMA ReadsTyped ==
  ASSUME NEW bar \in BarsHanded, StateSound, NEW reads \in Reads(bar)
  PROVE  reads[1] \in Int /\ reads[2] \in Int
<1>1. PICK e \in Nat : e = Ends(bar)
  BY HandedTyped
<1>2. PICK l \in Nat : l = LastClose
  BY LastCloseSays DEF StateSound
<1>3. PICK now \in Int : now = Max({e, l})
  <2>1. Max({e, l}) = IF e <= l THEN l ELSE e
    BY MaxOfTwo
  <2> QED BY <2>1
<1>4. Reads(bar) = {<<e - 1, e - 1>>, <<now, now>>, <<now, now + 1>>}
  BY <1>1, <1>2, <1>3 DEF Reads
<1> QED BY <1>1, <1>3, <1>4

LEMMA StepIs ==
  ASSUME StateSound, [StrategyNext]_strategyVars
  PROVE  Register \/ (\E i \in 1 .. Len(catalogue) : ResolveStrategy(i)) \/ Handing \/ UNCHANGED strategyVars
<1>1. CASE UNCHANGED strategyVars
  BY <1>1
<1>2. CASE Register
  BY <1>2
<1>3. CASE \E i \in 1 .. Len(catalogue) : ResolveStrategy(i)
  BY <1>3
<1>4. CASE runner.on /\ \E bar \in BarsHanded, offer \in Offered[runner.spec.kind] :
             \E reads \in Reads(bar) : HandBar(bar, reads[1], reads[2], offer)
  <2>1. PICK bar \in BarsHanded, offer \in Offered[runner.spec.kind] :
          \E reads \in Reads(bar) : HandBar(bar, reads[1], reads[2], offer)
    BY <1>4
  <2>2. PICK reads \in Reads(bar) : HandBar(bar, reads[1], reads[2], offer)
    BY <2>1
  <2>3. reads[1] \in Int /\ reads[2] \in Int
    BY ReadsTyped
  <2> QED BY <1>4, <2>2, <2>3 DEF Handing
<1> QED BY <1>1, <1>2, <1>3, <1>4 DEF StrategyNext

LEMMA StrategyStarts == StrategyInit => StrategySound
<1> SUFFICES ASSUME StrategyInit PROVE StrategySound
  OBVIOUS
<1>1. catalogue \in Catalogues /\ registry = <<>> /\ runner = Idle /\ strategyState = Fresh
      /\ verdict = [is |-> "unregistered"] /\ since = 0
  BY DEF StrategyInit
<1>2. RegistrySound
  <2>1. Len(catalogue) \in Nat
    BY <1>1, StrategyAssumption
  <2>2. registry \in Seq(Declarations) /\ Len(registry) = 0
    BY <1>1, EmptySeq
  <2> QED BY <1>1, <2>1, <2>2 DEF RegistrySound
<1>3. RunnerSound
  BY <1>1 DEF RunnerSound, Idle
<1>4. StateSound
  <2>1. <<>> \in Seq(BarsHanded)
    BY EmptySeq
  <2> QED BY <1>1, <2>1 DEF StateSound, Fresh
<1>5. since \in 0 .. MaxBarTime
  BY <1>1, StrategyAssumption
<1>6. SignalsStand /\ OnlyAMovedClockMismatches
  BY <1>1 DEF SignalsStand, OnlyAMovedClockMismatches
<1> QED BY <1>2, <1>3, <1>4, <1>5, <1>6 DEF StrategySound

LEMMA RegisterKeeps == StrategySound /\ Register => StrategySound'
<1> SUFFICES ASSUME StrategySound, Register PROVE StrategySound'
  OBVIOUS
<1>1. /\ verdict.is = "unregistered" /\ Len(registry) < Len(catalogue)
      /\ UNCHANGED <<catalogue, runner, strategyState, since>>
  BY DEF Register
<1>2. /\ catalogue \in Catalogues /\ registry \in Seq(Declarations)
      /\ \A i \in 1 .. Len(registry) : registry[i] = catalogue[i] /\ Admissible(registry[i])
  BY DEF StrategySound, RegistrySound
<1>3. PICK n \in Nat, m \in Nat : n = Len(registry) /\ m = Len(catalogue) /\ n < m
  BY <1>1, <1>2, StrategyAssumption
<1>4. PICK spec \in Declarations : spec = catalogue[n + 1]
  <2>1. n + 1 \in 1 .. Len(catalogue)
    BY <1>3
  <2> QED BY <1>2, <2>1, DeclarationsAre
<1>5. ~runner.on
  BY <1>1 DEF StrategySound, RunnerSound
<1>6. RunnerSound' /\ StateSound' /\ (since \in 0 .. MaxBarTime)'
  BY <1>1, <1>5 DEF StrategySound, RunnerSound, StateSound
<1>7. CASE registry' = Append(registry, spec) /\ Admissible(spec) /\ UNCHANGED verdict
  <2>1. /\ registry' \in Seq(Declarations) /\ Len(registry') = n + 1 /\ registry'[n + 1] = spec
        /\ \A i \in 1 .. n : registry'[i] = registry[i]
    BY <1>2, <1>3, <1>7, AppendProperties
  <2>2. ASSUME NEW i \in 1 .. (n + 1) PROVE registry'[i] = catalogue[i] /\ Admissible(registry'[i])
    <3>1. CASE i = n + 1
      BY <1>4, <1>7, <2>1, <3>1
    <3>2. CASE i # n + 1
      <4>1. i \in 1 .. n
        BY <3>2
      <4> QED BY <1>2, <1>3, <2>1, <4>1
    <3> QED BY <3>1, <3>2
  <2>3. RegistrySound'
    BY <1>1, <1>2, <1>3, <2>1, <2>2 DEF RegistrySound
  <2>4. SignalsStand' /\ OnlyAMovedClockMismatches'
    BY <1>1, <1>7 DEF SignalsStand, OnlyAMovedClockMismatches
  <2> QED BY <1>6, <2>3, <2>4 DEF StrategySound
<1>8. CASE verdict' = [is |-> "invalid"] /\ UNCHANGED registry
  <2>1. RegistrySound'
    BY <1>1, <1>8 DEF StrategySound, RegistrySound
  <2>2. SignalsStand' /\ OnlyAMovedClockMismatches'
    BY <1>8 DEF SignalsStand, OnlyAMovedClockMismatches
  <2> QED BY <1>6, <2>1, <2>2 DEF StrategySound
<1>9. (registry' = Append(registry, spec) /\ Admissible(spec) /\ UNCHANGED verdict)
      \/ (verdict' = [is |-> "invalid"] /\ UNCHANGED registry)
  BY <1>3, <1>4 DEF Register
<1> QED BY <1>7, <1>8, <1>9

LEMMA ResolveKeeps ==
  ASSUME StrategySound, NEW i \in 1 .. Len(catalogue), ResolveStrategy(i)
  PROVE  StrategySound'
<1>1. /\ i \in DOMAIN registry /\ runner' = [on |-> TRUE, spec |-> registry[i]] /\ verdict' = [is |-> "ready"]
      /\ UNCHANGED <<catalogue, registry, strategyState, since>>
  BY DEF ResolveStrategy
<1>2. registry \in Seq(Declarations) /\ DOMAIN registry = 1 .. Len(registry)
  BY DEF StrategySound, RegistrySound
<1>3. registry[i] \in Declarations /\ Admissible(registry[i])
  <2>1. i \in 1 .. Len(registry)
    BY <1>1, <1>2
  <2>2. registry[i] \in Declarations
    BY <1>2, <2>1, ElementOfSeq
  <2> QED BY <2>1, <2>2 DEF StrategySound, RegistrySound
<1>4. RunnerSound'
  BY <1>1, <1>3 DEF RunnerSound
<1>5. RegistrySound' /\ StateSound' /\ (since \in 0 .. MaxBarTime)'
  BY <1>1 DEF StrategySound, RegistrySound, StateSound
<1>6. SignalsStand' /\ OnlyAMovedClockMismatches'
  BY <1>1 DEF SignalsStand, OnlyAMovedClockMismatches
<1> QED BY <1>4, <1>5, <1>6 DEF StrategySound

LEMMA HandingKeeps == StrategySound /\ Handing => StrategySound'
<1> SUFFICES ASSUME StrategySound, Handing PROVE StrategySound'
  OBVIOUS
<1>1. PICK bar \in BarsHanded, asOf \in Int, again \in Int, offer \in Offered[runner.spec.kind] :
        HandBar(bar, asOf, again, offer)
  BY DEF Handing
<1>2. runner.on /\ runner.spec \in Declarations /\ Admissible(runner.spec)
  BY DEF Handing, StrategySound, RunnerSound
<1>3. PICK d \in Declarations : d = runner.spec
  BY <1>2
<1>4. PICK out : out = Outcome(d, bar, asOf, again, offer)
  OBVIOUS
<1>5. /\ strategyState' = out.state /\ verdict'.is = out.is
      /\ since' = (IF strategyState.consumed = 0 /\ out.state # strategyState THEN bar.open ELSE since)
      /\ UNCHANGED <<catalogue, registry, runner>>
  BY <1>1, <1>3, <1>4 DEF HandBar
<1>6. out.is # "unregistered" /\ (out.state = strategyState \/ out.state = Advanced(d, bar, offer.values))
  BY <1>4, OutcomeSays DEF StrategySound, StateSound
<1>7. StateSound'
  <2>1. CASE out.state = strategyState
    BY <1>5, <2>1 DEF StrategySound, StateSound
  <2>2. CASE out.state = Advanced(d, bar, offer.values)
    <3>1. Advanced(d, bar, offer.values).recent \in Seq(BarsHanded)
      BY AdvancedSays DEF StrategySound, StateSound, WindowEndsIn
    <3>2. Advanced(d, bar, offer.values).consumed \in Nat
      BY DEF StrategySound, StateSound, Advanced
    <3> QED BY <1>5, <2>2, <3>1, <3>2 DEF StateSound
  <2> QED BY <1>6, <2>1, <2>2
<1>8. (since \in 0 .. MaxBarTime)'
  <2>1. bar.open \in 0 .. MaxBarTime
    BY HandedTyped
  <2> QED BY <1>5, <2>1 DEF StrategySound
<1>9. RunnerSound'
  BY <1>2, <1>5, <1>6 DEF RunnerSound
<1>10. RegistrySound'
  BY <1>5 DEF StrategySound, RegistrySound
<1>11. SignalsStand' /\ OnlyAMovedClockMismatches'
  BY <1>1, <1>2, HandingDecides DEF StrategySound
<1> QED BY <1>7, <1>8, <1>9, <1>10, <1>11 DEF StrategySound

LEMMA StrategyKeeps == StrategySound /\ [StrategyNext]_strategyVars => StrategySound'
<1> SUFFICES ASSUME StrategySound, [StrategyNext]_strategyVars PROVE StrategySound'
  OBVIOUS
<1>1. Register \/ (\E i \in 1 .. Len(catalogue) : ResolveStrategy(i)) \/ Handing \/ UNCHANGED strategyVars
  BY StepIs DEF StrategySound
<1>2. CASE UNCHANGED strategyVars
  BY <1>2 DEF StrategySound, strategyVars, RegistrySound, RunnerSound, StateSound, SignalsStand,
              OnlyAMovedClockMismatches
<1>3. CASE \E i \in 1 .. Len(catalogue) : ResolveStrategy(i)
  BY <1>3, ResolveKeeps
<1> QED BY <1>1, <1>2, <1>3, RegisterKeeps, HandingKeeps

(* What a signal stands on, for every catalogue, feature value, tick and   *)
(* clock: strategy/_runner, _registry.                                     *)
THEOREM SignalsAlwaysStand == StrategyRuns => []SignalsStand
<1>1. StrategySound => SignalsStand
  BY DEF StrategySound
<1> QED BY <1>1, StrategyStarts, StrategyKeeps, PTL DEF StrategyRuns

(* A signal is thrown away for a moved clock and nothing else: strategy/_runner. *)
THEOREM OnlyMovedClocksMismatch == StrategyRuns => []OnlyAMovedClockMismatches
<1>1. StrategySound => OnlyAMovedClockMismatches
  BY DEF StrategySound
<1> QED BY <1>1, StrategyStarts, StrategyKeeps, PTL DEF StrategyRuns

(* The shape of the registry and of the state: strategy/_registry, _contract. *)
THEOREM StrategyStaysTyped == StrategyRuns => []StrategyTyped
<1>1. StrategySound => StrategyTyped
  <2> SUFFICES ASSUME StrategySound PROVE StrategyTyped
    OBVIOUS
  <2>1. DOMAIN registry = 1 .. Len(registry) /\ DOMAIN strategyState.recent = 1 .. Len(strategyState.recent)
    BY DEF StrategySound, RegistrySound, StateSound
  <2>2. \A i \in DOMAIN strategyState.recent : strategyState.recent[i] \in BarsHanded
    BY <2>1, ElementOfSeq DEF StrategySound, StateSound
  <2> QED BY <2>1, <2>2 DEF StrategySound, RegistrySound, StateSound, StrategyTyped
<1> QED BY <1>1, StrategyStarts, StrategyKeeps, PTL DEF StrategyRuns

-----------------------------------------------------------------------------
(* Where every interval is a whole number of the shortest, bars that come  *)
(* in order come at least the shortest interval apart, so the bars that    *)
(* were consumed have taken the time the warm-up stands for.               *)
IntervalsNest == \A d \in Declarations : \A l \in d.intervals : l % Shortest(d) = 0

LEMMA WholeNumber ==
  ASSUME NEW a \in Nat, NEW q \in Nat \ {0}, a % q = 0
  PROVE  \E k \in Nat : a = k * q
<1>1. PICK k \in Int, r \in Int : k = a \div q /\ r = a % q /\ a = q * k + r /\ 0 <= r /\ r < q
  OBVIOUS
<1>2. a = k * q /\ k \in Nat
  <2>1. a = k * q
    BY <1>1
  <2>2. k \in Nat
    BY <1>1, DivIs
  <2> QED BY <2>1, <2>2
<1> QED BY <1>2

LEMMA OpensOnGrid ==
  ASSUME IntervalsNest, NEW d \in Declarations, NEW b \in BarsHanded, b.length \in d.intervals
  PROVE  \E k \in Nat : b.open = k * Shortest(d)
<1>1. PICK q \in Nat \ {0} : q = Shortest(d)
  BY ShortestTyped
<1>2. b.open \in Nat /\ b.length \in Nat \ {0} /\ b.open % b.length = 0 /\ b.length % q = 0
  BY <1>1, HandedTyped DEF IntervalsNest
<1>3. PICK m \in Nat : b.open = m * b.length
  BY <1>2, WholeNumber
<1>4. PICK n \in Nat : b.length = n * q
  BY <1>1, <1>2, WholeNumber
<1>5. PICK k \in Nat : k = m * n
  OBVIOUS
<1>6. m * (n * q) = k * q
  BY <1>1, <1>5
<1> QED BY <1>1, <1>3, <1>4, <1>6

LEMMA NextOpenIs ==
  ASSUME IntervalsNest, NEW d \in Declarations, NEW a \in BarsHanded, NEW b \in BarsHanded,
         a.length \in d.intervals, b.length \in d.intervals, a.open < b.open
  PROVE  a.open + Shortest(d) <= b.open
<1>1. PICK q \in Nat \ {0} : q = Shortest(d)
  BY ShortestTyped
<1>2. PICK m \in Nat : a.open = m * q
  BY <1>1, OpensOnGrid
<1>3. PICK n \in Nat : b.open = n * q
  BY <1>1, OpensOnGrid
<1>4. m < n
  <2>1. CASE n <= m
    <3>1. n * q <= m * q
      BY <2>1
    <3> QED BY <1>2, <1>3, <3>1
  <2> QED BY <2>1
<1>5. (m + 1) * q <= n * q
  BY <1>4
<1>6. (m + 1) * q = m * q + q
  OBVIOUS
<1> QED BY <1>1, <1>2, <1>3, <1>5, <1>6

(* The consumed bars have taken their time.                                *)
Aged ==
  strategyState.consumed # 0 =>
    LET last == strategyState.recent[Len(strategyState.recent)]
    IN /\ Len(strategyState.recent) # 0 /\ last.length \in runner.spec.intervals
       /\ since + (strategyState.consumed - 1) * Shortest(runner.spec) <= last.open

LEMMA HandingAges ==
  ASSUME IntervalsNest, StrategySound, Aged, Handing
  PROVE  Aged' /\ WarmUpCovers'
<1>1. PICK bar \in BarsHanded, asOf \in Int, again \in Int, offer \in Offered[runner.spec.kind] :
        HandBar(bar, asOf, again, offer)
  BY DEF Handing
<1>2. PICK d \in Declarations : d = runner.spec /\ d = runner'.spec /\ Admissible(d)
  BY <1>1 DEF Handing, StrategySound, RunnerSound, HandBar
<1>3. PICK out : out = Outcome(d, bar, asOf, again, offer)
  OBVIOUS
<1>4. PICK next : next = Advanced(d, bar, offer.values)
  OBVIOUS
<1>5. PICK signal : signal = SignalOf(d, next, bar, again)
  OBVIOUS
<1>6. /\ strategyState' = out.state /\ verdict'.is = out.is
      /\ out.is = "signal" => verdict'.signal = out.signal
      /\ since' = (IF strategyState.consumed = 0 /\ out.state # strategyState THEN bar.open ELSE since)
      /\ UNCHANGED <<catalogue, registry, runner>>
  BY <1>1, <1>2, <1>3 DEF HandBar
<1>7. /\ out.state = strategyState \/ (out.state = next /\ Observable(d, bar, asOf))
      /\ out.is = "signal" =>
           /\ Decided(d, bar, asOf, offer) /\ out.state = next /\ out.signal = signal
           /\ Matches(d, signal, bar, asOf, offer.values)
  BY <1>3, <1>4, <1>5, OutcomeSays DEF StrategySound, StateSound
<1>8. PICK c \in Nat : c = strategyState.consumed
  BY DEF StrategySound, StateSound
<1>9. PICK q \in Nat \ {0} : q = Shortest(d)
  BY ShortestTyped
<1>10. PICK o \in Nat, l \in Nat : o = bar.open /\ l = bar.length /\ Ends(bar) = o + l
  BY HandedTyped
<1>11. PICK s \in Nat : s = since
  BY DEF StrategySound
<1>12. next.consumed = c + 1 /\ Len(next.recent) # 0 /\ next.recent[Len(next.recent)] = bar
  <2>1. next.consumed = c + 1
    BY <1>4, <1>8 DEF Advanced
  <2>2. Len(next.recent) \in 1 .. (d.warmUp + 1) /\ next.recent[Len(next.recent)] = bar
    BY <1>4, AdvancedSays DEF StrategySound, StateSound, WindowEndsIn
  <2> QED BY <2>1, <2>2
<1>13. ASSUME out.state = next, Observable(d, bar, asOf)
       PROVE  since' \in Nat /\ since' + c * q <= o /\ l \in d.intervals
  <2>1. l \in d.intervals
    BY <1>10, <1>13 DEF Observable
  <2>2. next # strategyState
    BY <1>8, <1>12
  <2>3. CASE c = 0
    <3>1. since' = o
      BY <1>6, <1>8, <1>10, <1>13, <2>2, <2>3
    <3>2. c * q = 0
      BY <2>3
    <3> QED BY <2>1, <3>1, <3>2
  <2>4. CASE c # 0
    <3>1. since' = s
      BY <1>6, <1>8, <1>11, <2>4
    <3>2. PICK last \in BarsHanded :
            /\ last = strategyState.recent[Len(strategyState.recent)] /\ last = Last(strategyState.recent)
            /\ strategyState.recent # <<>> /\ last.length \in d.intervals /\ s + (c - 1) * q <= last.open
      <4>1. PICK r \in Seq(BarsHanded) : r = strategyState.recent
        BY DEF StrategySound, StateSound
      <4>2. /\ Len(r) # 0 /\ r[Len(r)].length \in d.intervals /\ s + (c - 1) * q <= r[Len(r)].open
        BY <1>2, <1>8, <1>9, <1>11, <2>4, <4>1 DEF Aged
      <4>3. Len(r) \in 1 .. Len(r) /\ r # <<>>
        BY <4>1, <4>2
      <4>4. r[Len(r)] \in BarsHanded /\ Last(r) = r[Len(r)]
        BY <4>3, ElementOfSeq DEF Last
      <4> QED BY <4>1, <4>2, <4>3, <4>4
    <3>3. last.open < bar.open
      BY <1>13, <3>2 DEF Observable
    <3>4. last.open + q <= o
      BY <1>9, <1>10, <2>1, <3>2, <3>3, NextOpenIs
    <3>5. last.open \in Nat
      BY HandedTyped
    <3>6. (c - 1) * q + q = c * q
      OBVIOUS
    <3>7. (c - 1) * q \in Int /\ c * q \in Int
      OBVIOUS
    <3>8. s + c * q <= o
      BY <3>2, <3>4, <3>5, <3>6, <3>7
    <3> QED BY <2>1, <3>1, <3>8
  <2> QED BY <2>3, <2>4
<1>14. Aged'
  <2>1. CASE out.state = strategyState
    <3>1. strategyState' = strategyState /\ since' = since /\ runner' = runner
      BY <1>6, <2>1
    <3> QED BY <3>1 DEF Aged
  <2>2. CASE out.state = next /\ Observable(d, bar, asOf)
    <3>1. strategyState' = next /\ runner'.spec = d
      BY <1>2, <1>6, <2>2
    <3>2. since' + (next.consumed - 1) * q <= bar.open /\ bar.length \in d.intervals
      <4>1. next.consumed - 1 = c
        BY <1>12
      <4> QED BY <1>10, <1>13, <2>2, <4>1
    <3> QED BY <1>9, <1>12, <3>1, <3>2 DEF Aged
  <2> QED BY <1>7, <2>1, <2>2
<1>15. WarmUpCovers'
  <2>1. CASE out.is # "signal"
    BY <1>6, <2>1 DEF WarmUpCovers
  <2>2. CASE out.is = "signal"
    <3>1. /\ out.state = next /\ Observable(d, bar, asOf) /\ next.consumed >= d.warmUp
          /\ verdict'.signal = signal /\ signal.at = asOf
      BY <1>4, <1>6, <1>7, <2>2 DEF Decided, Matches
    <3>2. PICK w \in Nat : w = d.warmUp /\ w <= c + 1
      <4>1. d.warmUp \in Nat
        BY DeclaredTyped
      <4> QED BY <1>12, <3>1, <4>1
    <3>3. o + l <= asOf /\ q <= l
      <4>1. o + l <= asOf
        BY <1>10, <3>1 DEF Observable
      <4>2. l \in d.intervals
        BY <1>13, <3>1
      <4> QED BY <1>9, <4>1, <4>2, ShortestTyped
    <3>4. since' \in Nat /\ since' + c * q <= o
      BY <1>13, <3>1
    <3>5. w * q <= c * q + q
      <4>1. w * q <= (c + 1) * q
        BY <3>2
      <4>2. (c + 1) * q = c * q + q
        OBVIOUS
      <4> QED BY <4>1, <4>2
    <3>6. w * q <= asOf - since'
      <4>1. PICK x \in Nat, y \in Nat : x = c * q /\ y = w * q
        OBVIOUS
      <4>2. PICK t \in Nat : t = since'
        BY <3>4
      <4>3. t + x <= o /\ y <= x + q
        BY <3>4, <3>5, <4>1, <4>2
      <4>4. y <= asOf - t
        BY <3>3, <4>3
      <4> QED BY <4>1, <4>2, <4>4
    <3>7. ASSUME NEW f \in d.requires PROVE Lookback[f] <= asOf - since'
      <4>1. Lookback[f] \in Nat
        BY <1>2, StrategyAssumption DEF Admissible
      <4>2. Lookback[f] <= WarmUpDuration(d)
        BY <1>2 DEF Admissible, Covers
      <4>3. WarmUpDuration(d) = w * q
        <5>1. WarmUpDuration(d) = q * w
          BY <1>9, <3>2 DEF WarmUpDuration, Shortest
        <5>2. q * w = w * q
          OBVIOUS
        <5> QED BY <5>1, <5>2
      <4>4. w * q \in Nat /\ asOf - since' \in Int
        BY <3>4
      <4> QED BY <3>6, <4>1, <4>2, <4>3, <4>4
    <3>8. \A f \in runner'.spec.requires : verdict'.signal.at - since' >= Lookback[f]
      <4>1. asOf - since' \in Int /\ \A f \in d.requires : Lookback[f] \in Int
        BY <1>2, <3>4, StrategyAssumption DEF Admissible
      <4> QED BY <1>2, <3>1, <3>7, <4>1
    <3> QED BY <3>8 DEF WarmUpCovers
  <2> QED BY <2>1, <2>2
<1> QED BY <1>14, <1>15

LEMMA AgedKeeps ==
  ASSUME IntervalsNest
  PROVE  (StrategySound /\ Aged /\ WarmUpCovers) /\ [StrategyNext]_strategyVars => (Aged /\ WarmUpCovers)'
<1> SUFFICES ASSUME StrategySound, Aged, WarmUpCovers, [StrategyNext]_strategyVars PROVE (Aged /\ WarmUpCovers)'
  OBVIOUS
<1>1. Register \/ (\E i \in 1 .. Len(catalogue) : ResolveStrategy(i)) \/ Handing \/ UNCHANGED strategyVars
  BY StepIs DEF StrategySound
<1>2. CASE UNCHANGED strategyVars
  BY <1>2 DEF strategyVars, Aged, WarmUpCovers
<1>3. CASE Register
  <2>1. UNCHANGED <<runner, strategyState, since>> /\ (verdict' = verdict \/ verdict' = [is |-> "invalid"])
    BY <1>3 DEF Register
  <2> QED BY <2>1 DEF Aged, WarmUpCovers
<1>4. CASE \E i \in 1 .. Len(catalogue) : ResolveStrategy(i)
  <2>1. PICK i \in 1 .. Len(catalogue) : ResolveStrategy(i)
    BY <1>4
  <2>2. UNCHANGED <<strategyState, since>> /\ verdict.is = "unregistered" /\ verdict' = [is |-> "ready"]
    BY <2>1 DEF ResolveStrategy
  <2>3. strategyState = Fresh
    BY <2>2 DEF StrategySound, RunnerSound
  <2> QED BY <2>2, <2>3 DEF Aged, WarmUpCovers, Fresh
<1> QED BY <1>1, <1>2, <1>3, <1>4, HandingAges

(* A run that signals is older than the deepest of its features looks back, *)
(* for every catalogue whose intervals nest: strategy/_registry, _spec.     *)
THEOREM WarmUpAlwaysCovers ==
  ASSUME IntervalsNest
  PROVE  StrategyRuns => []WarmUpCovers
<1>1. StrategyInit => Aged /\ WarmUpCovers
  BY DEF StrategyInit, Aged, WarmUpCovers, Fresh
<1>2. (StrategySound /\ Aged /\ WarmUpCovers) /\ [StrategyNext]_strategyVars => (StrategySound /\ Aged /\ WarmUpCovers)'
  BY StrategyKeeps, AgedKeeps
<1> QED BY <1>1, <1>2, StrategyStarts, PTL DEF StrategyRuns
=============================================================================
