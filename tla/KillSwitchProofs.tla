-------------------------- MODULE KillSwitchProofs --------------------------
(***************************************************************************)
(* Type correctness and the safety of the kill switch, for every number of *)
(* incidents, operators and concurrent trips, and every bound.             *)
(***************************************************************************)
EXTENDS JournalFold, NaturalsInduction, WellFoundedInduction, TLAPS

USE SwitchAssumption DEF Times, EventIds

(* The position of a row in journal order, as one number. *)
Position(r) == r.at * (MaxRows + 1) + r.id

(* Journal order is the order of positions, so it is total on rows whose   *)
(* event ids differ (_in_journal_order).                                   *)
LEMMA OrderIsPosition ==
  ASSUME NEW r \in Rows, NEW s \in Rows
  PROVE  /\ Position(r) \in Nat
         /\ Before(r, s) <=> Position(r) < Position(s)
<1>1. /\ r.at \in Nat /\ s.at \in Nat /\ r.id \in 1..MaxRows /\ s.id \in 1..MaxRows
  BY DEF Rows
<1> DEFINE M == MaxRows + 1
<1>2. \A a, b \in Nat : a < b => a * M + M <= b * M
  <2> SUFFICES ASSUME NEW a \in Nat, NEW b \in Nat, a < b PROVE a * M + M <= b * M
    OBVIOUS
  <2>1. PICK d \in Nat : b = a + 1 + d
    <3>1. b - a - 1 \in Nat /\ b = a + 1 + (b - a - 1)
      OBVIOUS
    <3> QED BY <3>1
  <2>2. M \in Nat /\ a * M \in Nat /\ d * M \in Nat
    OBVIOUS
  <2>3. b * M = a * M + M + d * M
    BY <2>1, <2>2
  <2> QED BY <2>2, <2>3
<1>3. r.at * M \in Nat /\ s.at * M \in Nat
  BY <1>1
<1>4. r.at < s.at => r.at * M + M <= s.at * M
  BY <1>1, <1>2
<1>5. s.at < r.at => s.at * M + M <= r.at * M
  BY <1>1, <1>2
<1>6. r.at = s.at => r.at * M = s.at * M
  OBVIOUS
<1>7. Position(r) = r.at * M + r.id /\ Position(s) = s.at * M + s.id
  BY DEF Position
<1> HIDE DEF M
<1>8. M = MaxRows + 1
  BY DEF M
<1>9. Position(r) \in Nat
  BY <1>1, <1>3, <1>7
<1>10. CASE r.at < s.at
  BY <1>10, <1>1, <1>3, <1>4, <1>7, <1>8, <1>9 DEF Before
<1>11. CASE s.at < r.at
  BY <1>11, <1>1, <1>3, <1>5, <1>7, <1>8, <1>9 DEF Before
<1>12. CASE r.at = s.at
  BY <1>12, <1>1, <1>3, <1>6, <1>7, <1>9 DEF Before
<1> QED BY <1>1, <1>10, <1>11, <1>12

(* Of the open trips of a journal one comes first, and derive_state names  *)
(* its incident.                                                           *)
LEMMA EarliestOpen ==
  ASSUME NEW rows, rows \subseteq Rows,
         \A r, s \in rows : r.id = s.id => r = s,
         OpenTrips(rows) # {}
  PROVE  \E t \in OpenTrips(rows) : Derived(rows) = HaltedBy(t.inc)
<1> DEFINE Open == OpenTrips(rows)
           Positions == {Position(t) : t \in Open}
<1>1. Open \subseteq rows /\ Open \subseteq Rows
  BY DEF OpenTrips
<1>2. Positions \subseteq Nat /\ Positions # {}
  BY <1>1, OrderIsPosition
<1>3. PICK x \in Positions : \A y \in Positions : ~(<<y, x>> \in OpToRel(<, Nat))
  <2> HIDE DEF Positions
  <2> QED BY <1>2, NatLessThanWellFounded, WFMin
<1>4. \A y \in Positions : ~(y < x)
  BY <1>2, <1>3 DEF OpToRel
<1>5. PICK t \in Open : x = Position(t)
  OBVIOUS
<1>6. \A s \in Open : s = t \/ Before(t, s)
  <2> SUFFICES ASSUME NEW s \in Open, ~Before(t, s) PROVE s = t
    OBVIOUS
  <2>1. ~Before(s, t)
    <3>1. ~(Position(s) < Position(t))
      BY <1>4, <1>5
    <3> QED BY <3>1, <1>1, OrderIsPosition
  <2>2. s.at \in Nat /\ t.at \in Nat /\ s.id \in Nat /\ t.id \in Nat
    BY <1>1 DEF Rows
  <2>3. s.id = t.id
    BY <2>1, <2>2 DEF Before
  <2> QED BY <2>3, <1>1
<1>7. \E u \in Open : \A s \in Open : s = u \/ Before(u, s)
  BY <1>6
<1> QED BY <1>7 DEF Derived

(* A derived state is a state, it is halted exactly when a trip is open,   *)
(* and an incident it names has a trip in the journal (derive_state).      *)
LEMMA DerivedState ==
  ASSUME NEW rows, rows \subseteq Rows, \A r, s \in rows : r.id = s.id => r = s
  PROVE  /\ Derived(rows) \in States
         /\ Derived(rows).halted <=> OpenTrips(rows) # {}
         /\ Derived(rows).inc # None =>
              \E t \in rows : t.kind = "TRIP" /\ t.inc = Derived(rows).inc
<1>1. CASE OpenTrips(rows) = {}
  BY <1>1 DEF Derived, Trading, States
<1>2. CASE OpenTrips(rows) # {}
  <2>1. PICK t \in OpenTrips(rows) : Derived(rows) = HaltedBy(t.inc)
    BY <1>2, EarliestOpen
  <2>2. t \in rows /\ t \in Rows /\ t.kind = "TRIP" /\ t.inc \in Incidents
    BY DEF OpenTrips, Rows
  <2> QED BY <1>2, <2>1, <2>2 DEF HaltedBy, States
<1> QED BY <1>1, <1>2

-----------------------------------------------------------------------------
(* An appended row is a new row with an id of its own (append). *)
LEMMA RowAdded ==
  ASSUME TypeOK, NEW kind \in {"TRIP", "ARM", "RESUME"}, NEW i \in Incidents,
         NEW op \in Operators \cup {None}, NEW at \in Times,
         AddRow(kind, i, op, at)
  PROVE  \E row \in Rows :
           /\ row.kind = kind /\ row.inc = i /\ row.op = op /\ row.at = at
           /\ journal' = journal \cup {row}
           /\ \A r \in journal : r.id # row.id
<1>1. PICK id \in EventIds \ {r.id : r \in journal} :
        journal' = journal \cup
                   {[kind |-> kind, inc |-> i, op |-> op, at |-> at, id |-> id]}
  BY DEF AddRow
<1>2. [kind |-> kind, inc |-> i, op |-> op, at |-> at, id |-> id] \in Rows
  BY DEF Rows
<1> QED BY <1>1, <1>2

LEMMA TypeStep == TypeOK /\ [Next]_vars => TypeOK'
<1> SUFFICES ASSUME TypeOK, [Next]_vars PROVE TypeOK'
  OBVIOUS
<1> USE DEF TypeOK
<1>1. ASSUME NEW t \in Times, Clock(t) PROVE TypeOK'
  BY <1>1 DEF Clock
<1>2. CASE Restore
  <2>1. Derived(journal).halted \in BOOLEAN
    BY DerivedState DEF States
  <2> QED BY <1>2, <2>1 DEF Restore
<1>3. CASE Crash
  BY <1>3 DEF Crash, NoTrip
<1>4. CASE Gather
  <2>1. Readings \subseteq States
    BY DerivedState DEF Readings, HaltedBy, States
  <2> QED BY <1>4, <2>1 DEF Gather
<1>5. ASSUME NEW k \in Trippers, NEW i \in Incidents, Block(k, i) PROVE TypeOK'
  BY <1>5 DEF Block
<1>6. ASSUME NEW k \in Trippers, Record(k) PROVE TypeOK'
  <2>1. trips[k].inc \in Incidents /\ trips[k].at \in Times
    BY <1>6 DEF Record
  <2>2. CASE AddRow("TRIP", trips[k].inc, None, trips[k].at)
             /\ trips' = [trips EXCEPT ![k] = [stage |-> "remediate", inc |-> @.inc, at |-> 0]]
    <3>1. PICK row \in Rows : /\ journal' = journal \cup {row}
                              /\ \A r \in journal : r.id # row.id
      BY <2>1, <2>2, RowAdded
    <3> QED BY <1>6, <2>1, <2>2, <3>1 DEF Record
  <2>3. CASE journal' = journal /\ trips' = [trips EXCEPT ![k] = NoTrip]
    BY <1>6, <2>3 DEF Record, NoTrip
  <2> QED BY <1>6, <2>2, <2>3 DEF Record
<1>7. ASSUME NEW k \in Trippers, Remediate(k) PROVE TypeOK'
  BY <1>7 DEF Remediate, NoTrip
<1>8. ASSUME NEW o \in Operators, NEW i \in Incidents, Arm(o, i) PROVE TypeOK'
  <2>1. PICK row \in Rows : /\ journal' = journal \cup {row}
                            /\ \A r \in journal : r.id # row.id
    BY <1>8, RowAdded DEF Arm
  <2> QED BY <1>8, <2>1 DEF Arm
<1>9. ASSUME NEW o \in Operators, Resume(o) PROVE TypeOK'
  <2>1. seen.inc \in Incidents
    BY <1>9 DEF Resume, Accepted, States
  <2>2. PICK row \in Rows : /\ journal' = journal \cup {row}
                            /\ \A r \in journal : r.id # row.id
    BY <1>9, <2>1, RowAdded DEF Resume
  <2> QED BY <1>9, <2>2 DEF Resume
<1>10. CASE UNCHANGED vars
  BY <1>10 DEF vars
<1> QED BY <1>1, <1>2, <1>3, <1>4, <1>5, <1>6, <1>7, <1>8, <1>9, <1>10
        DEF Next, Trip, Operate

(* Every variable keeps its type and event ids stay unique in every        *)
(* behaviour of the kill switch and its journal.                           *)
THEOREM TypeCorrect == Spec => []TypeOK
<1>1. Init => TypeOK
  BY DEF Init, TypeOK, NoTrip, HaltedBy, States
<1> QED BY <1>1, TypeStep, PTL DEF Spec

-----------------------------------------------------------------------------
(* A TRIP row of incident i is among the rows. *)
Evidence(rows, i) == \E t \in rows : t.kind = "TRIP" /\ t.inc = i

(* The inductive invariant.  An open gate also means that no trip is on    *)
(* its way into the journal; what a trip goes on to remediate, and what a  *)
(* resume is about to name, is already recorded.                           *)
GateInv ==
  /\ ~gate => OpenTrips(journal) = {} /\ \A k \in Trippers : trips[k].stage # "record"
  /\ proc = "boot" => \A k \in Trippers : trips[k].stage # "record"
EvidenceInv ==
  /\ \A i \in remediated : Evidence(journal, i)
  /\ \A k \in Trippers : trips[k].stage = "remediate" => Evidence(journal, trips[k].inc)
  /\ seen.inc # None => Evidence(journal, seen.inc)
SwitchInv == TypeOK /\ GateInv /\ EvidenceInv /\ ResumeFollowsProcedure

(* A row other than a TRIP opens no incident (derive_state). *)
LEMMA OnlyTripsOpen ==
  ASSUME NEW rows, NEW row, row.kind # "TRIP", OpenTrips(rows) = {}
  PROVE  OpenTrips(rows \cup {row}) = {}
BY DEF OpenTrips

(* What each row-appending step does to the journal. *)
LEMMA Grows ==
  ASSUME SwitchInv, NEW kind \in {"TRIP", "ARM", "RESUME"}, NEW i \in Incidents,
         NEW op \in Operators \cup {None}, NEW at \in Times,
         AddRow(kind, i, op, at),
         kind = "RESUME" =>
           /\ Evidence(journal, i)
           /\ \E a \in journal : /\ a.kind = "ARM" /\ a.inc = i /\ a.op = op
                                 /\ a.at <= at /\ at < a.at + ArmValidity
  PROVE  /\ \A j \in Incidents : Evidence(journal, j) => Evidence(journal', j)
         /\ kind = "TRIP" => Evidence(journal', i)
         /\ ResumeFollowsProcedure'
         /\ kind # "TRIP" /\ OpenTrips(journal) = {} => OpenTrips(journal') = {}
<1>1. PICK row \in Rows :
        /\ row.kind = kind /\ row.inc = i /\ row.op = op /\ row.at = at
        /\ journal' = journal \cup {row}
  BY RowAdded DEF SwitchInv
<1>2. \A j \in Incidents : Evidence(journal, j) => Evidence(journal', j)
  BY <1>1 DEF Evidence
<1>3. kind = "TRIP" => Evidence(journal', i)
  BY <1>1 DEF Evidence
<1>4. ResumeFollowsProcedure'
  BY <1>1 DEF SwitchInv, ResumeFollowsProcedure, Evidence
<1>5. kind # "TRIP" /\ OpenTrips(journal) = {} => OpenTrips(journal') = {}
  BY <1>1, OnlyTripsOpen
<1> QED BY <1>2, <1>3, <1>4, <1>5

LEMMA SwitchStep == SwitchInv /\ [Next]_vars => SwitchInv'
<1> SUFFICES ASSUME SwitchInv, [Next]_vars PROVE SwitchInv'
  OBVIOUS
<1>1. TypeOK /\ TypeOK'
  BY TypeStep DEF SwitchInv
<1> SUFFICES GateInv' /\ EvidenceInv' /\ ResumeFollowsProcedure'
  BY <1>1 DEF SwitchInv
<1> USE DEF SwitchInv
<1>2. ASSUME UNCHANGED journal
      PROVE  ResumeFollowsProcedure' /\ \A i : Evidence(journal', i) <=> Evidence(journal, i)
  BY <1>2 DEF ResumeFollowsProcedure, Evidence
<1>3. ASSUME NEW t \in Times, Clock(t) PROVE GateInv' /\ EvidenceInv' /\ ResumeFollowsProcedure'
  BY <1>3, <1>2 DEF Clock, GateInv, EvidenceInv
<1>4. CASE Restore
  <2>1. Derived(journal).halted <=> OpenTrips(journal) # {}
    BY <1>1, DerivedState DEF TypeOK
  <2> QED BY <1>4, <2>1, <1>2 DEF Restore, GateInv, EvidenceInv
<1>5. CASE Crash
  BY <1>5, <1>2 DEF Crash, NoTrip, GateInv, EvidenceInv
<1>6. CASE Gather
  <2>1. \A s \in Readings : s.inc # None => Evidence(journal, s.inc)
    BY <1>1, DerivedState DEF TypeOK, Readings, HaltedBy, Evidence
  <2> QED BY <1>6, <2>1, <1>2 DEF Gather, GateInv, EvidenceInv
<1>7. ASSUME NEW k \in Trippers, NEW i \in Incidents, Block(k, i)
      PROVE  GateInv' /\ EvidenceInv' /\ ResumeFollowsProcedure'
  <2>1. \A j \in Trippers : trips'[j].stage = "remediate" => trips'[j] = trips[j]
    BY <1>7, <1>1 DEF Block, TypeOK
  <2> QED BY <1>7, <2>1, <1>2 DEF Block, GateInv, EvidenceInv
<1>8. ASSUME NEW k \in Trippers, Record(k)
      PROVE  GateInv' /\ EvidenceInv' /\ ResumeFollowsProcedure'
  <2>1. /\ trips[k].inc \in Incidents /\ trips[k].at \in Times
        /\ gate /\ proc # "boot" /\ remediated \subseteq Incidents
        /\ seen.inc \in Incidents \cup {None}
    BY <1>8, <1>1 DEF Record, TypeOK, GateInv, States
  <2>2. GateInv'
    BY <1>8, <2>1 DEF Record, GateInv
  <2>3. CASE AddRow("TRIP", trips[k].inc, None, trips[k].at)
             /\ trips' = [trips EXCEPT ![k] = [stage |-> "remediate", inc |-> @.inc, at |-> 0]]
    <3> DEFINE i == trips[k].inc
    <3>1. /\ \A j \in Incidents : Evidence(journal, j) => Evidence(journal', j)
          /\ Evidence(journal', i)
          /\ ResumeFollowsProcedure'
      BY <2>1, <2>3, Grows
    <3>2. trips'[k].inc = i /\ \A j \in Trippers \ {k} : trips'[j] = trips[j]
      BY <2>3, <1>1 DEF TypeOK
    <3>3. \A j \in Trippers : trips'[j].stage = "remediate" =>
             Evidence(journal', trips'[j].inc)
      BY <3>1, <3>2, <1>1 DEF EvidenceInv, TypeOK
    <3> QED BY <1>8, <2>1, <2>2, <3>1, <3>3 DEF Record, EvidenceInv
  <2>4. CASE journal' = journal /\ trips' = [trips EXCEPT ![k] = NoTrip]
    BY <1>8, <1>1, <1>2, <2>2, <2>4 DEF Record, EvidenceInv, NoTrip, TypeOK
  <2> QED BY <1>8, <2>3, <2>4 DEF Record
<1>9. ASSUME NEW k \in Trippers, Remediate(k)
      PROVE  GateInv' /\ EvidenceInv' /\ ResumeFollowsProcedure'
  BY <1>9, <1>1, <1>2 DEF Remediate, NoTrip, GateInv, EvidenceInv, TypeOK
<1>10. ASSUME NEW o \in Operators, NEW i \in Incidents, Arm(o, i)
      PROVE  GateInv' /\ EvidenceInv' /\ ResumeFollowsProcedure'
  <2>1. /\ \A j \in Incidents : Evidence(journal, j) => Evidence(journal', j)
        /\ ResumeFollowsProcedure'
        /\ OpenTrips(journal) = {} => OpenTrips(journal') = {}
    BY <1>10, <1>1, Grows DEF Arm, TypeOK
  <2> QED BY <1>10, <2>1, <1>1 DEF Arm, GateInv, EvidenceInv, TypeOK, States
<1>11. ASSUME NEW o \in Operators, Resume(o)
      PROVE  GateInv' /\ EvidenceInv' /\ ResumeFollowsProcedure'
  <2>1. /\ seen.inc \in Incidents /\ Evidence(journal, seen.inc)
        /\ \E a \in journal : /\ a.kind = "ARM" /\ a.inc = seen.inc /\ a.op = o
                              /\ a.at <= now /\ now < a.at + ArmValidity
    BY <1>11, <1>1 DEF Resume, Accepted, TypeOK, States, EvidenceInv
  <2>2. /\ \A j \in Incidents : Evidence(journal, j) => Evidence(journal', j)
        /\ ResumeFollowsProcedure'
        /\ OpenTrips(journal) = {} => OpenTrips(journal') = {}
    BY <1>11, <1>1, <2>1, Grows DEF Resume, TypeOK
  <2> QED BY <1>11, <2>2, <1>1 DEF Resume, GateInv, EvidenceInv, TypeOK, States
<1>12. CASE UNCHANGED vars
  BY <1>12, <1>2 DEF vars, GateInv, EvidenceInv
<1> QED BY <1>3, <1>4, <1>5, <1>6, <1>7, <1>8, <1>9, <1>10, <1>11, <1>12
        DEF Next, Trip, Operate

LEMMA SwitchAlways == Spec => []SwitchInv
<1>1. Init => SwitchInv
  BY DEF Init, SwitchInv, TypeOK, GateInv, EvidenceInv, ResumeFollowsProcedure,
         OpenTrips, NoTrip, HaltedBy, States
<1> QED BY <1>1, SwitchStep, PTL DEF Spec

(* The order path is never open over a trip no later resume names.         *)
THEOREM NeverOpenOverIncident == Spec => []OpenGateMeansClear
<1>1. SwitchInv => OpenGateMeansClear
  <2> SUFFICES ASSUME SwitchInv, ~gate, NEW i \in Incidents, Uncleared(i) PROVE FALSE
    BY DEF OpenGateMeansClear
  <2>1. PICK t \in journal : /\ t.kind = "TRIP" /\ t.inc = i
                             /\ \A r \in journal : r.kind = "RESUME" /\ r.inc = i => ~Before(t, r)
    BY DEF Uncleared
  <2>2. \A r \in journal : r.kind = "RESUME" => Before(r, t) \/ Before(t, r)
    <3> SUFFICES ASSUME NEW r \in journal, r.kind = "RESUME"
                 PROVE  Before(r, t) \/ Before(t, r)
      OBVIOUS
    <3>1. r # t /\ r.id # t.id /\ r \in Rows /\ t \in Rows
      BY <2>1 DEF SwitchInv, TypeOK
    <3>2. r.at \in Nat /\ t.at \in Nat /\ r.id \in Nat /\ t.id \in Nat
      BY <3>1 DEF Rows
    <3> QED BY <3>1, <3>2 DEF Before
  <2>3. t \in OpenTrips(journal)
    BY <2>1, <2>2 DEF OpenTrips
  <2> QED BY <2>3 DEF SwitchInv, GateInv
<1> QED BY <1>1, SwitchAlways, PTL

(* The venue is sent nothing for an incident the journal does not hold.    *)
THEOREM EvidenceFirst == Spec => []RemediationLeavesEvidence
<1>1. SwitchInv => RemediationLeavesEvidence
  BY DEF SwitchInv, EvidenceInv, Evidence, RemediationLeavesEvidence
<1> QED BY <1>1, SwitchAlways, PTL

(* Every resume follows the two-step procedure, whatever happened between  *)
(* the read it was computed from and the row it appended.                  *)
THEOREM ResumeByProcedure == Spec => []ResumeFollowsProcedure
<1>1. SwitchInv => ResumeFollowsProcedure
  BY DEF SwitchInv
<1> QED BY <1>1, SwitchAlways, PTL

-----------------------------------------------------------------------------
(* derive_state's loop.  Induction is on the positions of the rows.        *)
Below(rows, n) == {S \in SUBSET rows : \A r \in S : Position(r) < n}
Journals == {rows \in SUBSET Rows : \A r, s \in rows : r.id = s.id => r = s}

\* Rows of one journal are ordered by their positions, and no two share one.
LEMMA RowsDiffer ==
  ASSUME NEW rows \in Journals, NEW r \in rows, NEW s \in rows
  PROVE  /\ Position(r) \in Nat
         /\ r # s => (Before(r, s) <=> ~Before(s, r))
         /\ ~Before(r, r)
<1>1. r \in Rows /\ s \in Rows /\ (r.id = s.id => r = s)
  BY DEF Journals
<1>2. r.at \in Nat /\ s.at \in Nat /\ r.id \in Nat /\ s.id \in Nat
  BY <1>1 DEF Rows
<1> QED BY <1>1, <1>2, OrderIsPosition DEF Before

LEMMA LeastPosition ==
  ASSUME NEW S \in SUBSET Nat, S # {}
  PROVE  \E x \in S : \A y \in S : x <= y
<1>1. PICK x \in S : \A y \in S : ~(<<y, x>> \in OpToRel(<, Nat))
  BY NatLessThanWellFounded, WFMin
<1>2. \A y \in S : ~(y < x)
  BY <1>1 DEF OpToRel
<1> QED BY <1>2

\* Positions are bounded, because times and event ids are.
LEMMA PositionsBounded ==
  \E P \in Nat : \A r \in Rows : Position(r) < P
<1> DEFINE M == MaxRows + 1
<1>1. M \in Nat /\ M >= 1 /\ MaxTime * M \in Nat
  OBVIOUS
<1>2. ASSUME NEW r \in Rows PROVE Position(r) < MaxTime * M + M
  <2>1. r.at \in 0 .. MaxTime /\ r.id \in 1 .. MaxRows
    BY DEF Rows
  <2>2. PICK d \in Nat : MaxTime = r.at + d
    <3>1. MaxTime - r.at \in Nat /\ MaxTime = r.at + (MaxTime - r.at)
      BY <2>1
    <3> QED BY <3>1
  <2>3. r.at * M \in Nat /\ d * M \in Nat /\ MaxTime * M = r.at * M + d * M
    BY <1>1, <2>1, <2>2
  <2>4. Position(r) = r.at * M + r.id
    BY DEF Position
  <2>5. r.id < M
    BY <2>1
  <2> HIDE DEF M
  <2> QED BY <1>1, <2>1, <2>3, <2>4, <2>5
<1> QED BY <1>1, <1>2

\* The last row of a journal, and the rows before it.
LEMMA NewestIsLast ==
  ASSUME NEW rows \in Journals, NEW S \in SUBSET rows, S # {}
  PROVE  Newest(S) \in S /\ \A s \in S : s = Newest(S) \/ Before(s, Newest(S))
<1>1. PICK P \in Nat : \A r \in Rows : Position(r) < P
  BY PositionsBounded
<1> DEFINE Left == {P - Position(r) : r \in S}
<1>2. S \in SUBSET Rows /\ \A r \in S : Position(r) \in Nat /\ P - Position(r) \in Nat
  BY <1>1, OrderIsPosition DEF Journals
<1>3. Left \in SUBSET Nat /\ Left # {}
  BY <1>2
<1>4. PICK x \in Left : \A y \in Left : x <= y
  <2> HIDE DEF Left
  <2> QED BY <1>3, LeastPosition
<1>5. PICK r \in S : x = P - Position(r)
  OBVIOUS
<1>6. \A s \in S : s = r \/ Before(s, r)
  <2> SUFFICES ASSUME NEW s \in S, s # r PROVE Before(s, r)
    OBVIOUS
  <2>1. P - Position(r) <= P - Position(s)
    BY <1>4, <1>5
  <2>2. ~(Position(r) < Position(s))
    BY <1>2, <2>1
  <2>3. ~Before(r, s)
    BY <1>2, <2>2, OrderIsPosition
  <2> QED BY <2>3, RowsDiffer
<1> QED BY <1>6 DEF Newest

LEMMA RestIsEarlier ==
  ASSUME NEW rows \in Journals, NEW S \in SUBSET rows, S # {}
  PROVE  S \ {Newest(S)} \in Below(rows, Position(Newest(S)))
<1>1. \A s \in S : s \in Rows /\ (s = Newest(S) \/ Before(s, Newest(S)))
  BY NewestIsLast DEF Journals
<1>2. Newest(S) \in Rows
  BY NewestIsLast DEF Journals
<1>3. \A s \in S \ {Newest(S)} : Position(s) < Position(Newest(S))
  BY <1>1, <1>2, OrderIsPosition
<1> QED BY <1>3 DEF Below

\* The loop's two equations.
LEMMA FoldSteps ==
  ASSUME NEW rows \in Journals
  PROVE  \A S \in SUBSET rows :
           Folded(rows)[S] = IF S = {} THEN [i \in {} |-> None]
                             ELSE Step(Folded(rows)[S \ {Newest(S)}], Newest(S))
<1> DEFINE Loop(f, S) == IF S = {} THEN [i \in {} |-> None]
                          ELSE Step(f[S \ {Newest(S)}], Newest(S))
           Runs(n, g) == g = [S \in Below(rows, n) |-> Loop(g, S)]
           Bad == {n \in Nat : ~\E g : Runs(n, g)}
<1>1. Bad = {}
  <2>1. SUFFICES ASSUME Bad # {} PROVE FALSE
    OBVIOUS
  <2>2. PICK n \in Bad : \A k \in Bad : n <= k
    <3>1. Bad \in SUBSET Nat
      OBVIOUS
    <3> HIDE DEF Bad
    <3> QED BY <2>1, <3>1, LeastPosition
  <2>3. n \in Nat /\ ~\E g : Runs(n, g)
    BY <2>2
  <2>4. CASE n = 0
    <3>1. Below(rows, 0) = {{}}
      <4>1. \A S \in SUBSET rows : S # {} => \E r \in S : ~(Position(r) < 0)
        <5>1. \A r \in rows : Position(r) \in Nat
          BY RowsDiffer
        <5> QED BY <5>1
      <4> QED BY <4>1 DEF Below
    <3> DEFINE g == [S \in {{}} |-> [i \in {} |-> None]]
    <3>2. g = [S \in {{}} |-> Loop(g, S)]
      OBVIOUS
    <3> QED BY <2>3, <2>4, <3>1, <3>2
  <2>5. CASE n # 0
    <3>1. n - 1 \in Nat /\ n - 1 < n
      BY <2>3, <2>5
    <3>2. n - 1 \notin Bad
      <4> HIDE DEF Bad
      <4> QED BY <2>2, <2>3, <3>1
    <3>3. PICK g : Runs(n - 1, g)
      BY <3>1, <3>2
    <3> DEFINE h == [S \in Below(rows, n) |-> Loop(g, S)]
    <3>4. ASSUME NEW S \in Below(rows, n), S # {}
          PROVE  S \ {Newest(S)} \in Below(rows, n - 1) /\ S \ {Newest(S)} \in Below(rows, n)
      <4>1. S \in SUBSET rows /\ Position(Newest(S)) \in Nat /\ Position(Newest(S)) < n
        BY <3>4, NewestIsLast, RowsDiffer DEF Below
      <4>2. \A r \in S \ {Newest(S)} :
              Position(r) \in Nat /\ Position(r) < Position(Newest(S))
        BY <3>4, <4>1, RestIsEarlier, RowsDiffer DEF Below
      <4>3. \A r \in S \ {Newest(S)} : Position(r) < n - 1 /\ Position(r) < n
        BY <2>3, <4>1, <4>2
      <4> QED BY <4>1, <4>3 DEF Below
    <3>5. \A S \in Below(rows, n - 1) : g[S] = Loop(g, S)
      BY <3>3
    <3>6. \A S \in Below(rows, n) : h[S] = Loop(g, S)
      OBVIOUS
    <3>7. ASSUME NEW S \in Below(rows, n) PROVE Loop(g, S) = Loop(h, S)
      <4>1. CASE S = {}
        BY <4>1
      <4>2. CASE S # {}
        <5>1. h[S \ {Newest(S)}] = g[S \ {Newest(S)}]
          BY <3>4, <3>5, <3>6, <4>2
        <5> HIDE DEF h
        <5> QED BY <4>2, <5>1
      <4> QED BY <4>1, <4>2
    <3>8. Runs(n, h)
      <4>1. h = [S \in Below(rows, n) |-> Loop(g, S)]
        OBVIOUS
      <4> HIDE DEF h, Loop
      <4> QED BY <3>7, <4>1
    <3> QED BY <2>3, <3>8
  <2> QED BY <2>4, <2>5
<1>2. PICK P \in Nat : \A r \in Rows : Position(r) < P
  BY PositionsBounded
<1>3. Below(rows, P) = SUBSET rows
  BY <1>2 DEF Below, Journals
<1>4. PICK g : Runs(P, g)
  BY <1>1
<1>5. g = [S \in SUBSET rows |-> Loop(g, S)]
  BY <1>3, <1>4
<1> DEFINE f == Folded(rows)
<1>6. f = CHOOSE f1 : f1 = [S \in SUBSET rows |-> Loop(f1, S)]
  BY DEF Folded
<1>7. f = [S \in SUBSET rows |-> Loop(f, S)]
  <2> HIDE DEF f, Loop
  <2> QED BY <1>5, <1>6
<1>8. \A S \in SUBSET rows : f[S] = Loop(f, S)
  <2> HIDE DEF f, Loop
  <2> QED BY <1>7
<1> QED BY <1>8

\* What the last row does to the open trips.
LEMMA OpenAfterRow ==
  ASSUME NEW rows \in Journals, NEW T \in SUBSET rows, NEW r \in rows, r \notin T,
         \A s \in T : Before(s, r)
  PROVE  OpenTrips(T \cup {r}) =
           IF r.kind = "TRIP" THEN OpenTrips(T) \cup {r}
           ELSE IF r.kind = "RESUME" THEN {t \in OpenTrips(T) : t.inc # r.inc}
           ELSE OpenTrips(T)
<1> DEFINE S == T \cup {r}
<1>1. \A t \in T : Before(t, r) /\ ~Before(r, t)
  BY RowsDiffer
<1>2. \A t \in T : t \in OpenTrips(S) <=> t \in OpenTrips(T) /\ ~(r.kind = "RESUME" /\ r.inc = t.inc)
  BY <1>1 DEF OpenTrips
<1>3. r \in OpenTrips(S) <=> r.kind = "TRIP"
  BY <1>1 DEF OpenTrips
<1>4. OpenTrips(S) \subseteq S /\ OpenTrips(T) \subseteq T
  BY DEF OpenTrips
<1>5. CASE r.kind = "TRIP"
  BY <1>2, <1>3, <1>4, <1>5
<1>6. CASE r.kind = "RESUME"
  BY <1>2, <1>3, <1>4, <1>6
<1>7. CASE r.kind # "TRIP" /\ r.kind # "RESUME"
  BY <1>2, <1>3, <1>4, <1>7
<1> QED BY <1>5, <1>6, <1>7

\* open holds, of each incident with an open trip, the earliest.
Owns(open, S) ==
  /\ DOMAIN open = {t.inc : t \in OpenTrips(S)}
  /\ \A i \in DOMAIN open : open[i] \in OpenTrips(S) /\ open[i].inc = i
  /\ \A t \in OpenTrips(S) : t = open[t.inc] \/ Before(open[t.inc], t)

LEMMA StepOwns ==
  ASSUME NEW rows \in Journals, NEW T \in SUBSET rows, NEW r \in rows, r \notin T,
         \A s \in T : Before(s, r), NEW open, Owns(open, T)
  PROVE  Owns(Step(open, r), T \cup {r})
<1> DEFINE S == T \cup {r}
<1>1. OpenTrips(T) \subseteq T
  BY DEF OpenTrips
<1>2. \A i \in DOMAIN open : open[i] \in OpenTrips(T) /\ open[i].inc = i
  BY DEF Owns
<1>3. \A t \in OpenTrips(T) : t.inc \in DOMAIN open /\ (t = open[t.inc] \/ Before(open[t.inc], t))
  BY DEF Owns
<1>4. \A i \in DOMAIN open : Before(open[i], r)
  BY <1>1, <1>2
<1>5. CASE r.kind = "TRIP" /\ r.inc \notin DOMAIN open
  <2> DEFINE next == Extended(open, r)
  <2>1. Step(open, r) = next
    BY <1>5 DEF Step
  <2>2. OpenTrips(S) = OpenTrips(T) \cup {r}
    BY <1>5, OpenAfterRow, ZenonT(30)
  <2>3. DOMAIN next = DOMAIN open \cup {r.inc} /\ next[r.inc] = r
        /\ \A i \in DOMAIN open : next[i] = open[i]
    BY <1>5 DEF Extended
  <2> HIDE DEF next, S
  <2>4. \A t \in OpenTrips(S) : t.inc \in DOMAIN next
    BY <1>3, <2>2, <2>3
  <2>5. \A i \in DOMAIN next : next[i] \in OpenTrips(S) /\ next[i].inc = i
    BY <1>2, <2>2, <2>3
  <2>6. \A t \in OpenTrips(S) : t = next[t.inc] \/ Before(next[t.inc], t)
    BY <1>3, <2>2, <2>3
  <2>7. DOMAIN next = {t.inc : t \in OpenTrips(S)}
    BY <2>4, <2>5
  <2> QED BY <2>1, <2>5, <2>6, <2>7 DEF Owns, S
<1>6. CASE r.kind = "TRIP" /\ r.inc \in DOMAIN open
  <2>1. Step(open, r) = open
    BY <1>6 DEF Step
  <2>2. OpenTrips(S) = OpenTrips(T) \cup {r}
    BY <1>6, OpenAfterRow, ZenonT(30)
  <2> HIDE DEF S
  <2>3. \A t \in OpenTrips(S) : t.inc \in DOMAIN open
    BY <1>3, <1>6, <2>2
  <2>4. \A i \in DOMAIN open : open[i] \in OpenTrips(S) /\ open[i].inc = i
    BY <1>2, <2>2
  <2>5. \A t \in OpenTrips(S) : t = open[t.inc] \/ Before(open[t.inc], t)
    BY <1>3, <1>4, <1>6, <2>2
  <2>6. DOMAIN open = {t.inc : t \in OpenTrips(S)}
    BY <2>3, <2>4
  <2> QED BY <2>1, <2>4, <2>5, <2>6 DEF Owns, S
<1>7. CASE r.kind = "RESUME"
  <2> DEFINE next == [i \in DOMAIN open \ {r.inc} |-> open[i]]
  <2>1. Step(open, r) = next
    BY <1>7 DEF Step
  <2>2. OpenTrips(S) = {t \in OpenTrips(T) : t.inc # r.inc}
    BY <1>7, OpenAfterRow, ZenonT(30)
  <2>3. DOMAIN next = DOMAIN open \ {r.inc} /\ \A i \in DOMAIN next : next[i] = open[i]
    OBVIOUS
  <2> HIDE DEF next, S
  <2>4. \A t \in OpenTrips(S) : t.inc \in DOMAIN next
    BY <1>3, <2>2, <2>3
  <2>5. \A i \in DOMAIN next : next[i] \in OpenTrips(S) /\ next[i].inc = i
    BY <1>2, <2>2, <2>3
  <2>6. \A t \in OpenTrips(S) : t = next[t.inc] \/ Before(next[t.inc], t)
    BY <1>3, <2>2, <2>3, <2>4
  <2>7. DOMAIN next = {t.inc : t \in OpenTrips(S)}
    BY <2>4, <2>5
  <2> QED BY <2>1, <2>5, <2>6, <2>7 DEF Owns, S
<1>8. CASE r.kind # "TRIP" /\ r.kind # "RESUME"
  <2>1. Step(open, r) = open
    BY <1>8 DEF Step
  <2>2. OpenTrips(S) = OpenTrips(T)
    BY <1>8, OpenAfterRow
  <2> QED BY <2>1, <2>2 DEF Owns
<1> QED BY <1>5, <1>6, <1>7, <1>8

LEMMA LoopOwns ==
  ASSUME NEW rows \in Journals, NEW S \in SUBSET rows
  PROVE  Owns(Folded(rows)[S], S)
<1> DEFINE f == Folded(rows)
           Bad == {n \in Nat : \E U \in Below(rows, n) : ~Owns(f[U], U)}
<1>1. Bad = {}
  <2>1. SUFFICES ASSUME Bad # {} PROVE FALSE
    OBVIOUS
  <2>2. PICK n \in Bad : \A k \in Bad : n <= k
    <3>1. Bad \in SUBSET Nat
      OBVIOUS
    <3> HIDE DEF Bad
    <3> QED BY <2>1, <3>1, LeastPosition
  <2>3. PICK U \in Below(rows, n) : ~Owns(f[U], U)
    BY <2>2
  <2>4. U \in SUBSET rows
    BY DEF Below
  <2>5. CASE U = {}
    <3>1. f[U] = [i \in {} |-> None]
      BY <2>4, <2>5, FoldSteps
    <3>2. OpenTrips(U) = {}
      BY <2>5 DEF OpenTrips
    <3> QED BY <2>3, <3>1, <3>2 DEF Owns
  <2>6. CASE U # {}
    <3> DEFINE r == Newest(U)  T == U \ {r}
    <3>1. r \in U /\ r \in rows /\ T \in SUBSET rows /\ U = T \cup {r} /\ r \notin T
          /\ \A s \in T : Before(s, r)
      BY <2>4, <2>6, NewestIsLast
    <3>2. Position(r) \in Nat /\ Position(r) < n
      BY <3>1, RowsDiffer DEF Below
    <3>3. T \in Below(rows, Position(r))
      BY <2>4, <2>6, RestIsEarlier
    <3>4. f[U] = Step(f[T], r)
      BY <2>4, <2>6, FoldSteps
    <3> HIDE DEF r, T, f
    <3>5. Position(r) \notin Bad
      <4>1. n \in Nat
        BY <2>2
      <4> HIDE DEF Bad
      <4> QED BY <2>2, <3>2, <4>1
    <3>6. Owns(f[T], T)
      BY <3>2, <3>3, <3>5
    <3>7. Owns(Step(f[T], r), T \cup {r})
      BY <3>1, <3>6, StepOwns
    <3> QED BY <2>3, <3>1, <3>4, <3>7
  <2> QED BY <2>5, <2>6
<1>2. PICK P \in Nat : \A r \in Rows : Position(r) < P
  BY PositionsBounded
<1>3. S \in Below(rows, P)
  BY <1>2 DEF Below, Journals
<1> QED BY <1>1, <1>2, <1>3

\* Only one trip comes first.
LEMMA FirstIsOne ==
  ASSUME NEW rows \in Journals, NEW A \in SUBSET rows, NEW u \in A,
         \A s \in A : s = u \/ Before(u, s)
  PROVE  u = CHOOSE t \in A : \A s \in A : s = t \/ Before(t, s)
<1>1. \A t \in A : (\A s \in A : s = t \/ Before(t, s)) => t = u
  BY RowsDiffer
<1> QED BY <1>1

\* The loop of derive_state and the closed form of it agree on every journal.
LEMMA FoldAgrees ==
  ASSUME NEW rows \in Journals
  PROVE  FoldedState(rows) = Derived(rows)
<1> DEFINE open == Folded(rows)[rows]
           owners == {open[i] : i \in DOMAIN open}
<1>1. Owns(open, rows)
  BY LoopOwns
<1>2. OpenTrips(rows) \subseteq rows
  BY DEF OpenTrips
<1>3. owners \subseteq OpenTrips(rows)
  BY <1>1 DEF Owns
<1>4. \A t \in OpenTrips(rows) : t.inc \in DOMAIN open /\ (t = open[t.inc] \/ Before(open[t.inc], t))
  BY <1>1 DEF Owns
<1>5. \A i \in DOMAIN open : open[i] \in owners
  OBVIOUS
<1>6. FoldedState(rows) =
        IF owners = {} THEN Trading
        ELSE HaltedBy((CHOOSE t \in owners : \A s \in owners : s = t \/ Before(t, s)).inc)
  BY DEF FoldedState
<1> HIDE DEF open, owners
<1>7. CASE OpenTrips(rows) = {}
  BY <1>3, <1>6, <1>7 DEF Derived
<1>8. CASE OpenTrips(rows) # {}
  <2>1. PICK u \in OpenTrips(rows) : \A s \in OpenTrips(rows) : s = u \/ Before(u, s)
    <3> DEFINE Positions == {Position(t) : t \in OpenTrips(rows)}
    <3>1. Positions \in SUBSET Nat /\ Positions # {}
      BY <1>2, <1>8, RowsDiffer
    <3>2. PICK x \in Positions : \A y \in Positions : x <= y
      <4> HIDE DEF Positions
      <4> QED BY <3>1, LeastPosition
    <3>3. PICK u \in OpenTrips(rows) : x = Position(u)
      OBVIOUS
    <3>4. ASSUME NEW s \in OpenTrips(rows), s # u PROVE Before(u, s)
      <4>1. s \in rows /\ u \in rows /\ s \in Rows /\ u \in Rows
        BY <1>2 DEF Journals
      <4>2. ~(Position(s) < Position(u))
        BY <3>2, <3>3, <4>1, OrderIsPosition
      <4> QED BY <3>4, <4>1, <4>2, RowsDiffer, OrderIsPosition
    <3> QED BY <3>4
  <2>2. u \in owners
    <3>1. open[u.inc] \in owners /\ open[u.inc] \in OpenTrips(rows)
      BY <1>3, <1>4, <1>5
    <3>2. open[u.inc] \in rows /\ u \in rows
      BY <1>2, <3>1
    <3>3. u = open[u.inc]
      BY <1>4, <2>1, <3>1, <3>2, RowsDiffer
    <3> QED BY <3>1, <3>3
  <2>3. u = CHOOSE t \in owners : \A s \in owners : s = t \/ Before(t, s)
    BY <1>2, <1>3, <2>1, <2>2, FirstIsOne
  <2>4. u = CHOOSE t \in OpenTrips(rows) : \A s \in OpenTrips(rows) : s = t \/ Before(t, s)
    BY <1>2, <2>1, FirstIsOne
  <2>5. FoldedState(rows) = HaltedBy(u.inc)
    BY <1>6, <2>2, <2>3
  <2>6. Derived(rows) = HaltedBy(u.inc)
    BY <1>8, <2>4 DEF Derived
  <2> QED BY <2>5, <2>6
<1> QED BY <1>7, <1>8

(* The loop of derive_state, which opens an incident on its first trip and *)
(* pops it on a resume, leaves of every journal the system can write the   *)
(* state of the earliest trip no later resume names: the closed form the   *)
(* other theorems speak of.                                                *)
THEOREM FoldIsDerived == Spec => []FoldIsEarliestOpenTrip
<1>1. TypeOK => FoldIsEarliestOpenTrip
  BY FoldAgrees DEF TypeOK, FoldIsEarliestOpenTrip, Journals
<1> QED BY <1>1, TypeCorrect, PTL
=============================================================================
