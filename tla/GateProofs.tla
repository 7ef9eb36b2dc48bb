------------------------------ MODULE GateProofs ------------------------------
(***************************************************************************)
(* What keeps the gate for signals shut, for every set of modes, symbols,  *)
(* boots and measurements and without bound on how often anything happens: *)
(* the supervised process, the degraded modes and the boot checklist.      *)
(***************************************************************************)
EXTENDS Supervisor, DegradedModes, Preflight, FiniteSetTheorems, TLAPS

-----------------------------------------------------------------------------
(* The supervised process.                                                 *)

USE SupervisorAssumption DEF SupervisorAssumption

(* The part of the type invariant that is not Boolean ...                  *)
ProcessTypes ==
  /\ phase \in Phases /\ exit \in Exits /\ haltedReason \in Halts
  /\ degraded \subseteq ProcessModes /\ starts \in 0..MaxStarts
  /\ (exit = "none") <=> (phase # "exited" \/ starts = 0)
  /\ phase # "exited" => starts # 0

(* ... and the part that is.                                               *)
ProcessFlags ==
  tripped \in BOOLEAN /\ reachable \in BOOLEAN /\ exposed \in BOOLEAN /\ owed \in BOOLEAN

LEMMA ProcessTypesKept == ProcessTypes /\ [SupervisorNext]_supervisorVars => ProcessTypes'
<1> SUFFICES ASSUME ProcessTypes, [SupervisorNext]_supervisorVars PROVE ProcessTypes'
  OBVIOUS
<1> USE DEF ProcessTypes, Phases, Exits, Halts
<1>1. CASE StartRefused \/ Start
  BY <1>1 DEF StartRefused, Start, ApplyReading, TrippingReason
<1>2. CASE Adopt
  BY <1>2 DEF Adopt, ApplyReading, TrippingReason
<1>3. ASSUME NEW m \in ProcessModes, EnterDegraded(m) \/ ExitDegraded(m) PROVE ProcessTypes'
  BY <1>3 DEF EnterDegraded, ExitDegraded, TrippingReason
<1>4. CASE ServeEnds \/ ServeRaises
  BY <1>4 DEF ServeEnds, ServeRaises
<1>5. CASE TripSwitch \/ FlattenAll \/ RecordFatal \/ HandlerDies
  BY <1>5 DEF TripSwitch, FlattenAll, RecordFatal, HandlerDies
<1>6. CASE HumanResume \/ DatabaseChanges
  BY <1>6 DEF HumanResume, DatabaseChanges
<1>7. CASE UNCHANGED supervisorVars
  BY <1>7 DEF supervisorVars
<1> QED
  BY <1>1, <1>2, <1>3, <1>4, <1>5, <1>6, <1>7 DEF SupervisorNext, SupervisorRun

LEMMA ProcessFlagsKept == ProcessFlags /\ [SupervisorNext]_supervisorVars => ProcessFlags'
  BY Zenon
  DEF ProcessFlags, SupervisorNext, SupervisorRun, StartRefused, Start, Adopt, EnterDegraded,
      ExitDegraded, ServeEnds, ServeRaises, TripSwitch, FlattenAll, RecordFatal, HandlerDies,
      HumanResume, DatabaseChanges, supervisorVars

(* SupervisorTypeOK: a process that has ended left an exit code.           *)
THEOREM ProcessTyped == SupervisorSpec => []SupervisorTypeOK
<1>1. SupervisorInit => ProcessTypes
  BY DEF SupervisorInit, ProcessTypes, Phases, Exits, Halts
<1>2. SupervisorInit => ProcessFlags
  BY Zenon DEF SupervisorInit, ProcessFlags
<1>3. ProcessTypes /\ ProcessFlags => SupervisorTypeOK
  BY Zenon DEF ProcessTypes, ProcessFlags, SupervisorTypeOK
<1> QED BY <1>1, <1>2, <1>3, ProcessTypesKept, ProcessFlagsKept, PTL DEF SupervisorSpec

(* While it serves, a process that a mode or the journal should halt has a *)
(* reason to be halted; the exit code is not set before the process ends,  *)
(* and the handler that is about to set it has flattened the book.         *)
ProcessInv ==
  /\ phase = "serving" /\ haltedReason = "none" => ~tripped /\ degraded \cap TrippingModes = {}
  /\ phase # "exited" => exit = "none"
  /\ phase = "record" \/ exit = "fatal" => ~exposed

LEMMA ProcessInvariant == SupervisorSpec => []ProcessInv
<1>1. SupervisorInit => ProcessInv
  BY DEF SupervisorInit, ProcessInv
<1>2. ProcessInv /\ [SupervisorNext]_supervisorVars => ProcessInv'
  <2> SUFFICES ASSUME ProcessInv, [SupervisorNext]_supervisorVars PROVE ProcessInv'
    OBVIOUS
  <2> USE DEF ProcessInv
  <2>1. CASE StartRefused \/ Start
    BY <2>1 DEF StartRefused, Start, ApplyReading, TrippingReason
  <2>2. CASE Adopt
    BY <2>2 DEF Adopt, ApplyReading, TrippingReason
  <2>3. ASSUME NEW m \in ProcessModes, EnterDegraded(m) \/ ExitDegraded(m) PROVE ProcessInv'
    BY <2>3 DEF EnterDegraded, ExitDegraded, TrippingReason
  <2>4. CASE ServeEnds \/ ServeRaises
    BY <2>4 DEF ServeEnds, ServeRaises
  <2>5. CASE TripSwitch \/ FlattenAll \/ RecordFatal \/ HandlerDies
    BY <2>5 DEF TripSwitch, FlattenAll, RecordFatal, HandlerDies
  <2>6. CASE HumanResume \/ DatabaseChanges
    BY <2>6 DEF HumanResume, DatabaseChanges
  <2>7. CASE UNCHANGED supervisorVars
    BY <2>7 DEF supervisorVars
  <2> QED
    BY <2>1, <2>2, <2>3, <2>4, <2>5, <2>6, <2>7 DEF SupervisorNext, SupervisorRun
<1> QED BY <1>1, <1>2, PTL DEF SupervisorSpec

(* HaltsAndExitsHold: an active mode that trips halts the gate, a trip on  *)
(* record outlives the process, and EXIT_FATAL means a flat book, in every *)
(* process of the series (run, start, apply_reading).                      *)
THEOREM HaltsHold == SupervisorSpec => []HaltsAndExitsHold
<1>1. ProcessInv => HaltsAndExitsHold
  BY DEF ProcessInv, HaltsAndExitsHold, ActiveModeHalts, TripOutlivesProcess,
         FatalExitMeansRemediated, Admitted
<1> QED BY <1>1, ProcessInvariant, PTL

-----------------------------------------------------------------------------
(* The degraded modes.                                                     *)

USE DegradedAssumption DEF MeasuredTimes, Ids

Progress == [faults : Nat, clears : Nat, last : Nat, lastAt : MeasuredTimes,
             active : BOOLEAN, symbols : SUBSET Symbols]

(* The type invariant with the shape of the records it is about.           *)
ModesTyped ==
  /\ measuredNow \in MeasuredTimes /\ measured \in Seq(Observation) /\ Len(measured) <= MaxMeasured
  /\ progress \in [Modes -> Progress]
  /\ rows \in Seq(0..2) /\ Len(rows) = Len(measured)
  /\ \A m \in Modes : /\ progress[m].faults <= Enter[m] /\ progress[m].clears <= Leave[m]
                      /\ progress[m].last <= Len(measured)
                      /\ progress[m].symbols # {} => progress[m].active

(* What _observe makes of one observation, fault or clear.                 *)
Observed(p, i) ==
  [(IF measured[i].faulted THEN Faulted(p, measured[i]) ELSE Cleared(p, measured[i]))
     EXCEPT !.last = i, !.lastAt = measured[i].at]

LEMMA FaultedTyped ==
  ASSUME NEW o \in Observation, NEW p \in Progress, p.faults <= Enter[o.mode]
  PROVE  LET q == Faulted(p, o) IN
         /\ q \in Progress /\ q.faults <= Enter[o.mode] /\ q.faults > 0 /\ q.clears = 0
         /\ \/ q.active = p.active /\ q.symbols = p.symbols
            \/ /\ q.active = TRUE /\ p.faults + 1 >= Enter[o.mode]
               /\ p.active => p.symbols \subseteq q.symbols
<1> DEFINE n == Least(p.faults + 1, Enter[o.mode])
           S == IF p.active THEN p.symbols \cup o.symbols ELSE o.symbols
<1>0. Enter[o.mode] \in Nat \ {0} /\ p.faults \in Nat
  BY DEF Observation, Progress
<1>1. /\ n \in Nat /\ n <= Enter[o.mode] /\ n > 0
      /\ n < Enter[o.mode] \/ p.faults + 1 >= Enter[o.mode]
  BY <1>0 DEF Least
<1>2. S \in SUBSET Symbols /\ (p.active => p.symbols \subseteq S)
  BY DEF Observation, Progress
<1>3. Faulted(p, o) = IF n < Enter[o.mode]
                        THEN [p EXCEPT !.faults = n, !.clears = 0]
                        ELSE [p EXCEPT !.faults = n, !.clears = 0, !.active = TRUE, !.symbols = S]
  BY DEF Faulted
<1> HIDE DEF n, S
<1>6. PICK q : q = Faulted(p, o)
  OBVIOUS
<1>7. /\ q \in Progress /\ q.faults <= Enter[o.mode] /\ q.faults > 0 /\ q.clears = 0
      /\ \/ q.active = p.active /\ q.symbols = p.symbols
         \/ /\ q.active = TRUE /\ p.faults + 1 >= Enter[o.mode]
            /\ p.active => p.symbols \subseteq q.symbols
  <2>1. CASE n < Enter[o.mode]
    <3>1. q = [p EXCEPT !.faults = n, !.clears = 0]
      BY <1>3, <1>6, <2>1
    <3> QED BY <1>0, <1>1, <3>1 DEF Progress
  <2>2. CASE ~(n < Enter[o.mode])
    <3>1. q = [p EXCEPT !.faults = n, !.clears = 0, !.active = TRUE, !.symbols = S]
      BY <1>3, <1>6, <2>2
    <3> QED BY <1>0, <1>1, <1>2, <2>2, <3>1 DEF Progress
  <2> QED BY <2>1, <2>2
<1> QED BY <1>6, <1>7

LEMMA ClearedTyped ==
  ASSUME NEW o \in Observation, NEW p \in Progress, p.clears <= Leave[o.mode]
  PROVE  LET q == Cleared(p, o) IN
         /\ q \in Progress /\ q.faults = 0 /\ q.clears <= Leave[o.mode]
         /\ \/ q.active = p.active /\ q.symbols = p.symbols
            \/ /\ q.active = FALSE /\ q.symbols = {}
               /\ o.clean \/ o.mode \notin Reconciled
<1> DEFINE n == Least(p.clears + 1, Leave[o.mode])
           leaves == n = Leave[o.mode] /\ (o.clean \/ o.mode \notin Reconciled)
<1>0. Leave[o.mode] \in Nat \ {0} /\ p.clears \in Nat
  BY DEF Observation, Progress
<1>1. n \in Nat /\ n <= Leave[o.mode]
  BY <1>0 DEF Least
<1>2. Cleared(p, o) = IF leaves
                        THEN [p EXCEPT !.faults = 0, !.clears = n, !.active = FALSE, !.symbols = {}]
                        ELSE [p EXCEPT !.faults = 0, !.clears = n]
  BY DEF Cleared
<1>3. leaves => o.clean \/ o.mode \notin Reconciled
  OBVIOUS
<1> HIDE DEF n, leaves
<1>4. PICK q : q = Cleared(p, o)
  OBVIOUS
<1>5. /\ q \in Progress /\ q.faults = 0 /\ q.clears <= Leave[o.mode]
      /\ \/ q.active = p.active /\ q.symbols = p.symbols
         \/ /\ q.active = FALSE /\ q.symbols = {}
            /\ o.clean \/ o.mode \notin Reconciled
  <2>1. CASE leaves
    <3>1. q = [p EXCEPT !.faults = 0, !.clears = n, !.active = FALSE, !.symbols = {}]
      BY <1>2, <1>4, <2>1
    <3> QED BY <1>0, <1>1, <1>3, <2>1, <3>1 DEF Progress
  <2>2. CASE ~leaves
    <3>1. q = [p EXCEPT !.faults = 0, !.clears = n]
      BY <1>2, <1>4, <2>2
    <3> QED BY <1>0, <1>1, <3>1 DEF Progress
  <2> QED BY <2>1, <2>2
<1> QED BY <1>4, <1>5

(* The progress of one mode after one of its measurements.                 *)
LEMMA ObservedTyped ==
  ASSUME ModesTyped, NEW i \in Ids
  PROVE  LET m == measured[i].mode
             p == progress[m]
             q == Observed(p, i) IN
         /\ m \in Modes /\ p \in Progress
         /\ q \in Progress /\ q.faults <= Enter[m] /\ q.clears <= Leave[m]
         /\ q.last = i /\ q.lastAt = measured[i].at
         /\ q.symbols # {} => q.active
         /\ q.faults > 0 => measured[i].faulted
         /\ q.active /\ ~p.active => measured[i].faulted /\ p.faults + 1 >= Enter[m]
         /\ p.active /\ ~q.active => measured[i].clean \/ m \notin Reconciled
         /\ p.active /\ q.active => p.symbols \subseteq q.symbols
<1> DEFINE o == measured[i]
           p == progress[o.mode]
<1>1. o \in Observation /\ i \in Nat
  BY DEF ModesTyped
<1>2. o.mode \in Modes /\ o.at \in MeasuredTimes
  BY <1>1 DEF Observation
<1>3. /\ p \in Progress /\ p.faults <= Enter[o.mode] /\ p.clears <= Leave[o.mode]
      /\ p.symbols # {} => p.active
  BY <1>2 DEF ModesTyped
<1>4. PICK q : q = Observed(p, i)
  OBVIOUS
<1>5. PICK r : r = IF o.faulted THEN Faulted(p, o) ELSE Cleared(p, o)
  OBVIOUS
<1>6. q = [r EXCEPT !.last = i, !.lastAt = o.at]
  BY <1>4, <1>5 DEF Observed
<1> HIDE DEF o, p
<1>7. /\ r \in Progress /\ r.faults <= Enter[o.mode] /\ r.clears <= Leave[o.mode]
      /\ r.symbols # {} => r.active
      /\ r.faults > 0 => o.faulted
      /\ r.active /\ ~p.active => o.faulted /\ p.faults + 1 >= Enter[o.mode]
      /\ p.active /\ ~r.active => o.clean \/ o.mode \notin Reconciled
      /\ p.active /\ r.active => p.symbols \subseteq r.symbols
  <2>0. Leave[o.mode] \in Nat \ {0}
    BY <1>2
  <2>1. CASE o.faulted
    <3>1. r = Faulted(p, o)
      BY <1>5, <2>1
    <3>2. /\ r \in Progress /\ r.faults <= Enter[o.mode] /\ r.faults > 0 /\ r.clears = 0
          /\ \/ r.active = p.active /\ r.symbols = p.symbols
             \/ /\ r.active = TRUE /\ p.faults + 1 >= Enter[o.mode]
                /\ p.active => p.symbols \subseteq r.symbols
      BY <1>1, <1>3, <3>1, FaultedTyped
    <3> QED BY <1>3, <2>0, <2>1, <3>2
  <2>2. CASE ~o.faulted
    <3>1. r = Cleared(p, o)
      BY <1>5, <2>2
    <3>2. /\ r \in Progress /\ r.faults = 0 /\ r.clears <= Leave[o.mode]
          /\ \/ r.active = p.active /\ r.symbols = p.symbols
             \/ /\ r.active = FALSE /\ r.symbols = {}
                /\ o.clean \/ o.mode \notin Reconciled
      BY <1>1, <1>3, <3>1, ClearedTyped
    <3>3. Enter[o.mode] \in Nat \ {0}
      BY <1>2
    <3> QED BY <1>3, <3>2, <3>3
  <2> QED BY <2>1, <2>2
<1>8. /\ q \in Progress /\ q.last = i /\ q.lastAt = o.at
      /\ q.faults = r.faults /\ q.clears = r.clears /\ q.active = r.active /\ q.symbols = r.symbols
  BY <1>1, <1>2, <1>6, <1>7 DEF Progress
<1>9. /\ q \in Progress /\ q.faults <= Enter[o.mode] /\ q.clears <= Leave[o.mode]
      /\ q.last = i /\ q.lastAt = o.at
      /\ q.symbols # {} => q.active
      /\ q.faults > 0 => o.faulted
      /\ q.active /\ ~p.active => o.faulted /\ p.faults + 1 >= Enter[o.mode]
      /\ p.active /\ ~q.active => o.clean \/ o.mode \notin Reconciled
      /\ p.active /\ q.active => p.symbols \subseteq q.symbols
  BY <1>7, <1>8
<1> QED BY <1>2, <1>3, <1>4, <1>9 DEF o, p

(* What any step does to the modes: time passes, a measurement is made, or *)
(* one is applied to its mode; nothing else happens.                       *)
LEMMA ModesStep ==
  ASSUME ModesTyped, [DegradedNext]_degradedVars
  PROVE  \/ UNCHANGED <<measured, progress, rows>> /\ measuredNow' \in MeasuredTimes
         \/ /\ \E o \in Observation : measured' = Append(measured, o)
            /\ Len(measured) < MaxMeasured
            /\ rows' = Append(rows, 0) /\ UNCHANGED <<measuredNow, progress>>
         \/ \E i \in Ids :
              /\ ~Superseded(progress[measured[i].mode], i)
              /\ progress' = [progress EXCEPT ![measured[i].mode] =
                                Observed(progress[measured[i].mode], i)]
              /\ rows' \in {rows, [rows EXCEPT ![i] = Least(@ + 1, 2)]}
              /\ UNCHANGED <<measuredNow, measured>>
<1>1. CASE UNCHANGED degradedVars
  BY <1>1 DEF degradedVars, ModesTyped
<1>2. CASE MeasurementClock
  BY <1>2 DEF MeasurementClock, ModesTyped
<1>3. CASE Measure
  BY <1>3 DEF Measure
<1>4. ASSUME NEW i \in Ids, ObserveMeasurement(i)
      PROVE  /\ ~Superseded(progress[measured[i].mode], i)
             /\ progress' = [progress EXCEPT ![measured[i].mode] =
                               Observed(progress[measured[i].mode], i)]
             /\ rows' \in {rows, [rows EXCEPT ![i] = Least(@ + 1, 2)]}
             /\ UNCHANGED <<measuredNow, measured>>
  BY <1>4, Zenon DEF ObserveMeasurement, Observed
<1>5. ASSUME NEW i \in Ids, Ignore(i)
      PROVE  UNCHANGED <<measured, progress, rows>> /\ measuredNow' \in MeasuredTimes
  BY <1>5 DEF Ignore, degradedVars, ModesTyped
<1> QED BY <1>1, <1>2, <1>3, <1>4, <1>5 DEF DegradedNext

LEMMA ModesTypedKept == ModesTyped /\ [DegradedNext]_degradedVars => ModesTyped'
<1> SUFFICES ASSUME ModesTyped, [DegradedNext]_degradedVars PROVE ModesTyped'
  OBVIOUS
<1>1. CASE UNCHANGED <<measured, progress, rows>> /\ measuredNow' \in MeasuredTimes
  BY <1>1 DEF ModesTyped
<1>2. ASSUME NEW o \in Observation, measured' = Append(measured, o), Len(measured) < MaxMeasured,
             rows' = Append(rows, 0), UNCHANGED <<measuredNow, progress>>
      PROVE  ModesTyped'
  <2>1. measured' \in Seq(Observation) /\ Len(measured') = Len(measured) + 1
    BY <1>2 DEF ModesTyped
  <2>3. rows' \in Seq(0..2) /\ Len(rows') = Len(measured')
    BY <1>2, <2>1 DEF ModesTyped
  <2>4. \A m \in Modes : progress[m].last <= Len(measured')
    BY <2>1 DEF ModesTyped, Progress
  <2> QED BY <1>2, <2>1, <2>3, <2>4 DEF ModesTyped
<1>3. ASSUME NEW i \in Ids,
             progress' = [progress EXCEPT ![measured[i].mode] =
                            Observed(progress[measured[i].mode], i)],
             rows' \in {rows, [rows EXCEPT ![i] = Least(@ + 1, 2)]},
             UNCHANGED <<measuredNow, measured>>
      PROVE  ModesTyped'
  <2> DEFINE m == measured[i].mode
             q == Observed(progress[m], i)
  <2>1. /\ m \in Modes /\ q \in Progress /\ q.faults <= Enter[m] /\ q.clears <= Leave[m]
        /\ q.last = i /\ (q.symbols # {} => q.active)
    BY ObservedTyped
  <2>2. progress' = [progress EXCEPT ![m] = q]
    BY <1>3
  <2> HIDE DEF m, q
  <2>3. progress' \in [Modes -> Progress]
    BY <2>1, <2>2 DEF ModesTyped
  <2>4. \A n \in Modes : /\ progress'[n].faults <= Enter[n] /\ progress'[n].clears <= Leave[n]
                         /\ progress'[n].last <= Len(measured)
                         /\ progress'[n].symbols # {} => progress'[n].active
    <3>1. progress'[m] = q /\ \A n \in Modes : n # m => progress'[n] = progress[n]
      BY <2>1, <2>2 DEF ModesTyped
    <3>2. i <= Len(measured)
      OBVIOUS
    <3> QED BY <2>1, <3>1, <3>2 DEF ModesTyped
  <2>5. rows' \in Seq(0..2) /\ Len(rows') = Len(measured)
    <3>1. rows[i] \in 0..2 /\ i \in 1..Len(rows) /\ rows \in Seq(0..2)
      BY DEF ModesTyped
    <3>2. Least(rows[i] + 1, 2) \in 0..2
      BY <3>1 DEF Least
    <3>3. [rows EXCEPT ![i] = Least(@ + 1, 2)] \in Seq(0..2)
          /\ Len([rows EXCEPT ![i] = Least(@ + 1, 2)]) = Len(rows)
      BY <3>1, <3>2
    <3> QED BY <1>3, <3>3 DEF ModesTyped
  <2> QED BY <1>3, <2>3, <2>4, <2>5 DEF ModesTyped
<1> QED BY <1>1, <1>2, <1>3, ModesStep

LEMMA ModesTypedAlways == DegradedSpec => []ModesTyped
<1>1. DegradedInit => ModesTyped
  BY DEF DegradedInit, ModesTyped, Fresh, Progress
<1> QED BY <1>1, ModesTypedKept, PTL DEF DegradedSpec

(* DegradedTypeOK: the counters of every mode stay within its thresholds,  *)
(* and a mode has symbols only while entered (ModeProgress, _observe).     *)
THEOREM ModesTypeCorrect == DegradedSpec => []DegradedTypeOK
<1>1. ModesTyped => DegradedTypeOK
  <2> SUFFICES ASSUME ModesTyped PROVE DegradedTypeOK
    OBVIOUS
  <2>1. ASSUME NEW m \in Modes
        PROVE  LET p == progress[m] IN
               /\ p.faults \in 0..Enter[m] /\ p.clears \in 0..Leave[m]
               /\ p.last \in 0..Len(measured) /\ p.lastAt \in MeasuredTimes
               /\ p.active \in BOOLEAN /\ p.symbols \subseteq Symbols
               /\ p.symbols # {} => p.active
    BY DEF ModesTyped, Progress
  <2> QED BY <2>1 DEF ModesTyped, DegradedTypeOK
<1> QED BY <1>1, ModesTypedAlways, PTL

(* The measurement applied last is one of the mode's, with its stamp; it   *)
(* is a fault as long as faults are counted; a mode that is entered has    *)
(* been measured faulted as often as it asks for.                          *)
FaultsOf(m) == {i \in Ids : measured[i].mode = m /\ measured[i].faulted}

ModeRemembers(m) ==
  LET p == progress[m] IN
  /\ p.last # 0 => measured[p.last].mode = m /\ p.lastAt = measured[p.last].at
  /\ p.faults > 0 => p.last \in FaultsOf(m)
  /\ p.active => p.last # 0
  /\ p.active => FaultsOf(m) # {}
  /\ p.active /\ Enter[m] = 2 => \E i, j \in FaultsOf(m) : i # j

ModesInv == \A m \in Modes : ModeRemembers(m)

LEMMA ModesInvKept == ModesTyped /\ ModesInv /\ [DegradedNext]_degradedVars => ModesInv'
<1> SUFFICES ASSUME ModesTyped, ModesInv, [DegradedNext]_degradedVars, NEW m \in Modes
             PROVE  ModeRemembers(m)'
  BY DEF ModesInv
<1>1. CASE UNCHANGED <<measured, progress, rows>>
  BY <1>1 DEF ModesInv, ModeRemembers, FaultsOf
<1>2. ASSUME NEW o \in Observation, measured' = Append(measured, o), UNCHANGED progress
      PROVE  ModeRemembers(m)'
  <2>1. /\ Len(measured') = Len(measured) + 1 /\ Len(measured) \in Nat
        /\ \A i \in Ids : measured'[i] = measured[i]
    BY <1>2 DEF ModesTyped
  <2>2. FaultsOf(m) \subseteq FaultsOf(m)'
    BY <2>1 DEF FaultsOf
  <2>3. progress[m].last # 0 => progress[m].last \in Ids
    BY DEF ModesTyped, Progress
  <2> QED BY <1>2, <2>1, <2>2, <2>3 DEF ModesInv, ModeRemembers
<1>3. ASSUME NEW i \in Ids, ~Superseded(progress[measured[i].mode], i),
             progress' = [progress EXCEPT ![measured[i].mode] =
                            Observed(progress[measured[i].mode], i)],
             UNCHANGED measured
      PROVE  ModeRemembers(m)'
  <2>0. FaultsOf(m)' = FaultsOf(m)
    BY <1>3 DEF FaultsOf
  <2>1. CASE m # measured[i].mode
    <3>1. progress'[m] = progress[m]
      BY <1>3, <2>1 DEF ModesTyped
    <3> QED BY <1>3, <2>0, <3>1 DEF ModesInv, ModeRemembers
  <2>2. CASE m = measured[i].mode
    <3> DEFINE p == progress[m]
    <3>1. PICK q : q = Observed(p, i)
      OBVIOUS
    <3>2. progress'[m] = q
      BY <1>3, <2>2, <3>1 DEF ModesTyped
    <3>3. /\ p \in Progress /\ q \in Progress
          /\ q.last = i /\ q.lastAt = measured[i].at
          /\ q.faults > 0 => measured[i].faulted
          /\ q.active /\ ~p.active => measured[i].faulted /\ p.faults + 1 >= Enter[m]
      BY <2>2, <3>1, ObservedTyped
    <3>4. i # 0 /\ p.last # i
      BY <1>3, <2>2 DEF Superseded
    <3>5. measured[i].faulted => i \in FaultsOf(m)
      BY <2>2 DEF FaultsOf
    <3>6. q.active => FaultsOf(m) # {}
      BY <3>3, <3>5 DEF ModesInv, ModeRemembers
    <3>7. q.active /\ Enter[m] = 2 => \E a, b \in FaultsOf(m) : a # b
      <4> SUFFICES ASSUME q.active, Enter[m] = 2 PROVE \E a, b \in FaultsOf(m) : a # b
        OBVIOUS
      <4>1. CASE p.active
        BY <4>1 DEF ModesInv, ModeRemembers
      <4>2. CASE ~p.active
        <5>1. measured[i].faulted /\ p.faults + 1 >= 2 /\ p.faults \in Nat
          BY <3>3, <4>2 DEF Progress
        <5>2. p.last \in FaultsOf(m)
          BY <5>1 DEF ModesInv, ModeRemembers
        <5> QED BY <3>4, <3>5, <5>1, <5>2
      <4> QED BY <4>1, <4>2
    <3> QED
      BY <1>3, <2>0, <2>2, <3>2, <3>3, <3>4, <3>5, <3>6, <3>7 DEF ModeRemembers
  <2> QED BY <2>1, <2>2
<1> QED BY <1>1, <1>2, <1>3, ModesStep

LEMMA ModesInvariant == DegradedSpec => [](ModesTyped /\ ModesInv)
<1>1. DegradedInit => ModesInv
  BY DEF DegradedInit, ModesInv, ModeRemembers, Fresh
<1> QED BY <1>1, ModesInvKept, ModesTypedAlways, PTL DEF DegradedSpec

(* EntryNeedsDistinctFaults: a mode is entered on as many distinct         *)
(* failures as it asks for, however often the bus delivered each           *)
(* (observation_id, _superseded).                                          *)
THEOREM EntryProved == DegradedSpec => []EntryNeedsDistinctFaults
<1>1. ModesTyped /\ ModesInv => EntryNeedsDistinctFaults
  <2> SUFFICES ASSUME ModesTyped, ModesInv, NEW m \in Modes, progress[m].active
               PROVE  Cardinality(FaultsOf(m)) >= Enter[m]
    BY DEF EntryNeedsDistinctFaults, FaultsOf
  <2>1. IsFiniteSet(FaultsOf(m))
    <3>1. IsFiniteSet(Ids)
      BY FS_Interval DEF ModesTyped
    <3> QED BY <3>1, FS_Subset DEF FaultsOf
  <2>2. Cardinality(FaultsOf(m)) \in Nat
    BY <2>1, FS_CardinalityType
  <2>3. FaultsOf(m) # {} /\ (Enter[m] = 2 => \E i, j \in FaultsOf(m) : i # j)
    BY DEF ModesInv, ModeRemembers
  <2>4. Cardinality(FaultsOf(m)) # 0
    BY <2>1, <2>3, FS_EmptySet
  <2>5. Enter[m] = 2 => Cardinality(FaultsOf(m)) # 1
    BY <2>1, <2>3, FS_Singleton
  <2>6. Enter[m] \in 1..2
    BY EnterAssumption
  <2> QED BY <2>2, <2>4, <2>5, <2>6
<1> QED BY <1>1, ModesInvariant, PTL

(* IncidentHolds: a mode that asks for a reconciliation is left only on a  *)
(* clean one, measured no earlier than what was applied before it, and the *)
(* symbols of an entered mode only accumulate (_observe, _entered).        *)
THEOREM IncidentsHold == DegradedSpec => IncidentHolds
<1> DEFINE Left(m) == progress[m].active /\ ~progress'[m].active =>
                        \E i \in Ids : /\ measured[i].mode = m /\ measured[i].clean
                                       /\ measured[i].at >= measured[progress[m].last].at
           Accumulated(m) == progress[m].active /\ progress'[m].active =>
                               progress[m].symbols \subseteq progress'[m].symbols
<1>1. ASSUME ModesTyped, ModesInv, [DegradedNext]_degradedVars, NEW m \in Modes
      PROVE  (m \in Reconciled => Left(m)) /\ Accumulated(m)
  <2>1. CASE UNCHANGED progress
    BY <2>1
  <2>2. ASSUME NEW i \in Ids, ~Superseded(progress[measured[i].mode], i),
               progress' = [progress EXCEPT ![measured[i].mode] =
                              Observed(progress[measured[i].mode], i)]
        PROVE  (m \in Reconciled => Left(m)) /\ Accumulated(m)
    <3>1. CASE m # measured[i].mode
      BY <1>1, <2>2, <3>1 DEF ModesTyped
    <3>2. CASE m = measured[i].mode
      <4>1. PICK q : q = Observed(progress[m], i)
        OBVIOUS
      <4>2. progress'[m] = q
        BY <1>1, <2>2, <3>2, <4>1 DEF ModesTyped
      <4>3. /\ progress[m].active /\ ~q.active => measured[i].clean \/ m \notin Reconciled
            /\ progress[m].active /\ q.active => progress[m].symbols \subseteq q.symbols
        BY <1>1, <3>2, <4>1, ObservedTyped
      <4>4. progress[m].active => measured[i].at >= measured[progress[m].last].at
        <5>1. progress[m].active =>
                progress[m].last # 0 /\ progress[m].lastAt = measured[progress[m].last].at
          BY <1>1 DEF ModesInv, ModeRemembers
        <5>2. progress[m].last # 0 => ~(measured[i].at < progress[m].lastAt)
          BY <2>2, <3>2 DEF Superseded
        <5>3. progress[m].lastAt \in Nat /\ measured[i].at \in Nat
          <6>1. measured[i] \in Observation /\ progress[m] \in Progress
            BY <1>1 DEF ModesTyped
          <6> QED BY <6>1 DEF Progress, Observation
        <5> QED BY <5>1, <5>2, <5>3
      <4> QED BY <3>2, <4>2, <4>3, <4>4
    <3> QED BY <3>1, <3>2
  <2> QED BY <1>1, <2>1, <2>2, ModesStep
<1>2. ModesTyped /\ ModesInv /\ [DegradedNext]_degradedVars =>
        [\A m \in Reconciled : Left(m)]_degradedVars /\ [\A m \in Modes : Accumulated(m)]_degradedVars
  BY <1>1
<1> QED
  BY <1>2, ModesInvariant, PTL
  DEF DegradedSpec, IncidentHolds, ExitAfterReconciliation, BlockedAccumulates
-----------------------------------------------------------------------------
(* The boot checklist.                                                     *)

Verdicts == {"passed", "failed", "routed"}

(* The checks that ran, each with one verdict.                             *)
ReportTyped ==
  /\ setup \in Setups /\ item \in 1 .. ItemCount + 1
  /\ outcomes \in Seq(Verdicts) /\ Len(outcomes) = item - 1
  /\ ending \in {"running", "ready", "aborted", "violation"}
  /\ ending = "running" => item # ItemCount + 1
  /\ ending = "ready" => item = ItemCount + 1

VenueTyped ==
  /\ tick \in Nat /\ skewed \in Int
  /\ funds \in [free : Nat, locked : Nat] /\ resting = funds.locked
  /\ sampled \in [skew : Int, trip : Int, empty : BOOLEAN]

(* What the clock check has read: the host's clock, off by the skew        *)
(* sampled, and a server's clock between the two readings of the host's.   *)
ClockRead(r) ==
  /\ r \in [wall : Int, mono : Nat, server : Int]
  /\ r.mono <= tick /\ r.wall = r.mono + sampled.skew
  /\ r.server = -1 \/ (r.mono <= r.server /\ r.server <= tick)

AccountRead(r) == r \in [held : BOOLEAN, empty : BOOLEAN] /\ (~r.held => r.empty)

ReadingKept ==
  \/ reading = {}
  \/ ending = "running" /\ item = ClockItem /\ \E r \in reading : reading = {r} /\ ClockRead(r)
  \/ ending = "running" /\ item = AccountItem /\ \E r \in reading : reading = {r} /\ AccountRead(r)

(* What a check that has not failed established.                           *)
Established ==
  /\ \A i \in 1 .. Len(outcomes) : outcomes[i] # "failed"
  /\ item > 1 => (gateHalted <=> setup.journal = "open")
  /\ item > 2 => setup.profile.hosts = "permitted"
  /\ item > ClockItem =>
       2 * sampled.skew \in -(2 * MaxDrift + sampled.trip) .. 2 * MaxDrift + sampled.trip
  /\ item > 4 => setup.key = RequiredKey(setup.profile)
  /\ item > 5 => setup.required # {} /\ setup.required \subseteq Tradable(setup.info)
  /\ item > 7 => \A n \in setup.required : HasFilters(setup.info, n)
  /\ item > AccountItem => (outcomes[AccountItem] = "routed" => sampled.empty)
  /\ item > 10 => setup.userData = "event"
  /\ item > 11 => setup.provenance = "production"

UniverseKept ==
  universe # {} => setup.required \subseteq universe /\ universe \subseteq Tradable(setup.info)

PreflightInv ==
  /\ ReportTyped /\ VenueTyped /\ ReadingKept /\ UniverseKept
  /\ ending \in {"running", "ready"} => Established

HIDE DEF SupervisorAssumption, MeasuredTimes, Ids

(* SettleItem adds one verdict, and nothing follows a failed one.          *)
LEMMA VerdictSettled ==
  ASSUME ReportTyped, ending = "running", NEW v \in Verdicts, SettleItem(v), setup' = setup
  PROVE  /\ ReportTyped'
         /\ item' = item + 1 /\ item \in 1 .. ItemCount
         /\ outcomes'[item] = v /\ \A i \in 1 .. item - 1 : outcomes'[i] = outcomes[i]
         /\ ending' \in {"running", "ready"} => v # "failed"
<1>1. /\ item' = item + 1 /\ outcomes' = Append(outcomes, v)
      /\ ending' = IF v = "failed" THEN "aborted" ELSE IF item = 11 THEN "ready" ELSE "running"
  BY DEF SettleItem, ItemCount
<1>2. item \in 1 .. 11 /\ outcomes \in Seq(Verdicts) /\ Len(outcomes) = item - 1
  BY DEF ReportTyped, ItemCount
<1>3. /\ outcomes' \in Seq(Verdicts) /\ Len(outcomes') = item
      /\ outcomes'[item] = v /\ \A i \in 1 .. item - 1 : outcomes'[i] = outcomes[i]
  <2>1. Len(outcomes') = Len(outcomes) + 1 /\ outcomes'[Len(outcomes) + 1] = v
    BY <1>1, <1>2
  <2>2. \A i \in 1 .. Len(outcomes) : outcomes'[i] = outcomes[i]
    BY <1>1, <1>2
  <2>3. outcomes' \in Seq(Verdicts)
    BY <1>1, <1>2
  <2>4. Len(outcomes) + 1 = item
    BY <1>2
  <2> QED BY <1>2, <2>1, <2>2, <2>3, <2>4
<1>4. /\ ending' \in {"running", "ready", "aborted"}
      /\ ending' = "running" => item # 11
      /\ ending' = "ready" => item = 11
      /\ ending' \in {"running", "ready"} => v # "failed"
  BY <1>1, <1>2
<1>5. ReportTyped'
  <2>1. setup' \in Setups
    BY DEF ReportTyped
  <2> QED BY <1>1, <1>2, <1>3, <1>4, <2>1 DEF ReportTyped, ItemCount
<1> QED BY <1>1, <1>2, <1>3, <1>4, <1>5 DEF ItemCount

(* The verdicts of the checks that read nothing that moves.                *)
LEMMA VerdictMeans ==
  ASSUME NEW s \in Setups, NEW i \in 1 .. ItemCount, i \notin {ClockItem, AccountItem}
  PROVE  /\ Verdict(s, i) \in Verdicts
         /\ Verdict(s, i) # "failed" =>
              /\ i = 1 => s.journal # "unreadable"
              /\ i = 4 => s.key = RequiredKey(s.profile)
              /\ i = 5 => s.required # {} /\ s.required \subseteq Tradable(s.info)
              /\ i = 7 => \A n \in s.required : HasFilters(s.info, n)
              /\ i = 10 => s.userData = "event"
              /\ i = 11 => s.provenance = "production"
<1> USE DEF Verdicts, ItemCount, ClockItem, AccountItem
<1>1. CASE i = 1
  BY <1>1 DEF Verdict
<1>2. CASE i = 2
  BY <1>2 DEF Verdict
<1>3. CASE i = 4
  BY <1>3 DEF Verdict, PassedIf
<1>4. CASE i = 5
  BY <1>4 DEF Verdict, PassedIf
<1>5. CASE i = 6
  BY <1>5 DEF Verdict, PassedIf
<1>6. CASE i = 7
  BY <1>6 DEF Verdict, PassedIf
<1>7. CASE i = 9
  BY <1>7 DEF Verdict, PassedIf
<1>8. CASE i = 10
  BY <1>8 DEF Verdict, PassedIf
<1>9. CASE i = 11
  BY <1>9 DEF Verdict, PassedIf
<1> QED BY <1>1, <1>2, <1>3, <1>4, <1>5, <1>6, <1>7, <1>8, <1>9

(* What is established stays so, and the check settled adds its own.       *)
LEMMA EstablishedGrows ==
  ASSUME PreflightInv, ending = "running", NEW v \in Verdicts, SettleItem(v), setup' = setup,
         item # ClockItem => sampled'.skew = sampled.skew /\ sampled'.trip = sampled.trip,
         item # AccountItem => sampled'.empty = sampled.empty,
         item # 1 => gateHalted' = gateHalted,
         v # "failed" =>
           /\ item = 1 => (gateHalted' <=> setup.journal = "open")
           /\ item = 2 => setup.profile.hosts = "permitted"
           /\ item = ClockItem =>
                2 * sampled'.skew \in -(2 * MaxDrift + sampled'.trip) .. 2 * MaxDrift + sampled'.trip
           /\ item = 4 => setup.key = RequiredKey(setup.profile)
           /\ item = 5 => setup.required # {} /\ setup.required \subseteq Tradable(setup.info)
           /\ item = 7 => \A n \in setup.required : HasFilters(setup.info, n)
           /\ item = AccountItem => (v = "routed" => sampled'.empty)
           /\ item = 10 => setup.userData = "event"
           /\ item = 11 => setup.provenance = "production"
  PROVE  ending' \in {"running", "ready"} => Established'
<1>1. ReportTyped /\ Established
  BY DEF PreflightInv
<1>2. /\ item' = item + 1 /\ item \in 1 .. 11
      /\ outcomes'[item] = v /\ \A i \in 1 .. item - 1 : outcomes'[i] = outcomes[i]
      /\ ending' \in {"running", "ready"} => v # "failed"
      /\ ReportTyped'
  BY <1>1, VerdictSettled DEF ItemCount
<1>3. Len(outcomes) = item - 1 /\ Len(outcomes') = item
  BY <1>1, <1>2 DEF ReportTyped
<1> SUFFICES ASSUME v # "failed" PROVE Established'
  BY <1>2
<1>4. \A i \in 1 .. Len(outcomes') : outcomes'[i] # "failed"
  BY <1>1, <1>2, <1>3 DEF Established
<1>5. item' > AccountItem => (outcomes'[AccountItem] = "routed" => sampled'.empty)
  BY <1>1, <1>2 DEF Established, AccountItem
<1>6. item' > ClockItem =>
        2 * sampled'.skew \in -(2 * MaxDrift + sampled'.trip) .. 2 * MaxDrift + sampled'.trip
  BY <1>1, <1>2 DEF Established, ClockItem
<1>7. item' > 1 => (gateHalted' <=> setup'.journal = "open")
  <2>1. CASE item = 1
    BY <2>1, Zenon
  <2>2. CASE item # 1
    <3>1. item > 1
      BY <1>2, <2>2
    <3> QED BY <1>1, <2>2, <3>1, Zenon DEF Established
  <2> QED BY <2>1, <2>2
<1>8. /\ item' > 2 => setup'.profile.hosts = "permitted"
      /\ item' > 4 => setup'.key = RequiredKey(setup'.profile)
      /\ item' > 10 => setup'.userData = "event"
      /\ item' > 11 => setup'.provenance = "production"
  BY <1>1, <1>2 DEF Established
<1>9. item' > 5 => setup'.required # {} /\ setup'.required \subseteq Tradable(setup'.info)
  BY <1>1, <1>2 DEF Established
<1>10. item' > 7 => \A n \in setup'.required : HasFilters(setup'.info, n)
  BY <1>1, <1>2 DEF Established
<1> QED BY <1>4, <1>5, <1>6, <1>7, <1>8, <1>9, <1>10, Zenon DEF Established, ClockItem, AccountItem

(* The world moves under a reading and leaves what it says true.           *)
LEMMA WorldMoves ==
  ASSUME PreflightInv,
         PreflightTick \/ ClockStepped \/ OrderFills \/ VenueWiped
  PROVE  PreflightInv'
<1>1. UNCHANGED <<setup, item, reading, outcomes, ending, gateHalted, sampled, universe>>
  BY DEF PreflightTick, ClockStepped, OrderFills, VenueWiped
<1>2. VenueTyped' /\ tick <= tick'
  BY DEF PreflightInv, VenueTyped, PreflightTick, ClockStepped, OrderFills, VenueWiped
<1>3. ReportTyped' /\ UniverseKept'
  BY <1>1 DEF PreflightInv, ReportTyped, UniverseKept
<1>4. ending' \in {"running", "ready"} => Established'
  BY <1>1, Zenon DEF PreflightInv, Established
<1>5. ReadingKept'
  <2>1. ASSUME NEW r, ClockRead(r) PROVE ClockRead(r)'
    BY <1>1, <1>2, <2>1 DEF PreflightInv, VenueTyped, ClockRead
  <2>2. ASSUME NEW r, AccountRead(r) PROVE AccountRead(r)'
    BY <1>1, <2>2 DEF AccountRead
  <2> QED BY <1>1, <2>1, <2>2 DEF PreflightInv, ReadingKept
<1> QED BY <1>2, <1>3, <1>4, <1>5 DEF PreflightInv

(* A check settled with no reading left: the report and the readings hold. *)
LEMMA SettledLeaves ==
  ASSUME PreflightInv, ending = "running", NEW v \in Verdicts, SettleItem(v),
         setup' = setup, reading' = {}, universe' = universe,
         UNCHANGED venueVars, sampled' \in [skew : Int, trip : Int, empty : BOOLEAN],
         ending' \in {"running", "ready"} => Established'
  PROVE  PreflightInv'
<1>1. ReportTyped'
  BY VerdictSettled DEF PreflightInv
<1>2. VenueTyped' /\ UniverseKept' /\ ReadingKept'
  BY DEF PreflightInv, VenueTyped, UniverseKept, ReadingKept, venueVars
<1> QED BY <1>1, <1>2 DEF PreflightInv

(* The checks that read nothing that moves.                                *)
LEMMA StaticChecked ==
  ASSUME PreflightInv, CheckStatic PROVE PreflightInv'
<1>1. setup \in Setups /\ item \in 1 .. ItemCount /\ item \notin {ClockItem, AccountItem}
  BY DEF PreflightInv, ReportTyped, CheckStatic, ItemCount
<1>2. PICK v : v = Verdict(setup, item)
  OBVIOUS
<1>3. SettleItem(v) /\ UNCHANGED <<setup, reading, sampled, universe>> /\ UNCHANGED venueVars
  BY <1>2 DEF CheckStatic
<1>4. v \in Verdicts
  BY <1>1, <1>2, VerdictMeans
<1>5. reading = {}
  BY <1>1 DEF PreflightInv, ReadingKept
<1>6. gateHalted' = IF item = 1 THEN setup.journal # "clear" ELSE gateHalted
  BY DEF CheckStatic
<1>7. item # 1 => gateHalted' = gateHalted
  BY <1>6, Zenon
<1>8. v # "failed" => (item = 1 => (gateHalted' <=> setup.journal = "open"))
  <2>1. v # "failed" /\ item = 1 => setup.journal = "clear" \/ setup.journal = "open"
    BY <1>1, <1>2, VerdictMeans, PreflightAssumption
  <2>2. item = 1 => (gateHalted' <=> setup.journal # "clear")
    BY <1>6, Zenon
  <2>3. "clear" # "open"
    OBVIOUS
  <2> QED BY <2>1, <2>2, <2>3, Zenon
<1>9. item = 2 => setup.profile.hosts = "permitted"
  BY DEF CheckStatic
<1>10. ending' \in {"running", "ready"} => Established'
  BY <1>1, <1>2, <1>3, <1>4, <1>7, <1>8, <1>9, VerdictMeans, EstablishedGrows DEF CheckStatic
<1>11. sampled' \in [skew : Int, trip : Int, empty : BOOLEAN] /\ reading' = {}
  BY <1>3, <1>5 DEF PreflightInv, VenueTyped
<1>12. ending = "running"
  BY DEF CheckStatic
<1> QED BY <1>3, <1>4, <1>10, <1>11, <1>12, SettledLeaves

(* The clock check: the server's answer lies between the two readings of   *)
(* the host's clock, so the skew measured is off by half a round trip.     *)
LEMMA ClockChecked ==
  ASSUME PreflightInv, ReadWall \/ ServerAnswers \/ JudgeClock PROVE PreflightInv'
<1>1. CASE ReadWall
  <2>1. /\ UNCHANGED <<setup, item, outcomes, ending, gateHalted, universe>> /\ UNCHANGED venueVars
        /\ ending = "running" /\ item = ClockItem
        /\ reading' = {[wall |-> tick + skewed, mono |-> tick, server |-> -1]}
        /\ sampled' = [sampled EXCEPT !.skew = skewed]
    BY <1>1 DEF ReadWall
  <2>2. ReportTyped' /\ UniverseKept' /\ VenueTyped'
    BY <2>1 DEF PreflightInv, ReportTyped, UniverseKept, VenueTyped, venueVars
  <2>3. ReadingKept'
    <3>1. ClockRead([wall |-> tick + skewed, mono |-> tick, server |-> -1])'
      BY <2>1 DEF PreflightInv, VenueTyped, ClockRead, venueVars
    <3> QED BY <2>1, <3>1 DEF ReadingKept, venueVars
  <2>4. Established'
    <3>1. Established /\ item = 3
      BY <2>1 DEF PreflightInv, ClockItem
    <3>2. sampled'.empty = sampled.empty
      BY <2>1 DEF PreflightInv, VenueTyped
    <3>3. item' = 3 /\ ~(3 > ClockItem) /\ ~(3 > 4) /\ ~(3 > 5) /\ ~(3 > 7)
          /\ ~(3 > AccountItem) /\ ~(3 > 10) /\ ~(3 > 11)
      BY <2>1, <3>1 DEF ClockItem, AccountItem
    <3> QED BY <2>1, <3>1, <3>3, Zenon DEF Established
  <2> QED BY <2>2, <2>3, <2>4 DEF PreflightInv
<1>2. CASE ServerAnswers
  <2>1. /\ UNCHANGED <<setup, item, outcomes, ending, gateHalted, sampled, universe>> /\ UNCHANGED venueVars
        /\ ending = "running" /\ item = ClockItem
    BY <1>2 DEF ServerAnswers
  <2>2. ReportTyped' /\ UniverseKept' /\ VenueTyped' /\ Established'
    <3>1. Established'
      BY <2>1, Zenon DEF PreflightInv, Established
    <3> QED BY <2>1, <3>1 DEF PreflightInv, ReportTyped, UniverseKept, VenueTyped, venueVars
  <2>3. PICK r \in reading : reading' = {[r EXCEPT !.server = tick]}
    BY <1>2 DEF ServerAnswers
  <2>4. ClockRead(r)
    BY <2>1, <2>3 DEF PreflightInv, ReadingKept, ClockItem, AccountItem
  <2>5. PICK q : q = [r EXCEPT !.server = tick]
    OBVIOUS
  <2>6. ReadingKept'
    <3>1. /\ q \in [wall : Int, mono : Nat, server : Int]
          /\ q.mono <= tick' /\ q.wall = q.mono + sampled'.skew
          /\ q.mono <= q.server /\ q.server <= tick'
      BY <2>1, <2>4, <2>5 DEF PreflightInv, VenueTyped, ClockRead, venueVars
    <3>2. reading' = {q} /\ q \in reading'
      BY <2>3, <2>5
    <3> QED BY <2>1, <3>1, <3>2 DEF ReadingKept, ClockRead
  <2> QED BY <2>2, <2>6 DEF PreflightInv
<1>3. CASE JudgeClock
  <2>1. /\ UNCHANGED <<setup, gateHalted, universe>> /\ UNCHANGED venueVars
        /\ ending = "running" /\ item = 3 /\ reading' = {}
    BY <1>3 DEF JudgeClock, ClockItem
  <2>2. PICK r \in reading :
          /\ r.server # -1
          /\ SettleItem(PassedIf(MeasuredSkew(r, tick) \in -(2 * MaxDrift) .. 2 * MaxDrift))
          /\ sampled' = [sampled EXCEPT !.trip = tick - r.mono]
    BY <1>3 DEF JudgeClock
  <2>3. PICK v : v = PassedIf(MeasuredSkew(r, tick) \in -(2 * MaxDrift) .. 2 * MaxDrift)
    OBVIOUS
  <2>4. v \in Verdicts /\ SettleItem(v)
    BY <2>2, <2>3 DEF PassedIf, Verdicts
  <2>5. ClockRead(r)
    BY <2>1, <2>2 DEF PreflightInv, ReadingKept, AccountItem
  <2>6. tick \in Nat /\ sampled \in [skew : Int, trip : Int, empty : BOOLEAN]
    BY DEF PreflightInv, VenueTyped
  <2>7. /\ sampled'.skew = sampled.skew /\ sampled'.trip = tick - r.mono
        /\ sampled'.empty = sampled.empty
        /\ sampled' \in [skew : Int, trip : Int, empty : BOOLEAN]
    BY <2>2, <2>5, <2>6 DEF ClockRead
  <2>8. v # "failed" =>
          2 * sampled'.skew \in -(2 * MaxDrift + sampled'.trip) .. 2 * MaxDrift + sampled'.trip
    <3>1. PICK w \in Int, m \in Int, s \in Int, k \in Int :
            w = r.wall /\ m = r.mono /\ s = r.server /\ k = sampled.skew
      BY <2>5, <2>6 DEF ClockRead
    <3>2. w = m + k /\ m <= s /\ s <= tick
      BY <2>2, <2>5, <3>1 DEF ClockRead
    <3>3. v # "failed" => 2 * s - (2 * w + (tick - m)) \in -(2 * MaxDrift) .. 2 * MaxDrift
      BY <2>3, <3>1 DEF PassedIf, MeasuredSkew
    <3>4. v # "failed" => 2 * k \in -(2 * MaxDrift + (tick - m)) .. 2 * MaxDrift + (tick - m)
      BY <2>6, <3>2, <3>3, PreflightAssumption
    <3> QED BY <2>7, <3>1, <3>4
  <2>9. ending' \in {"running", "ready"} => Established'
    BY <2>1, <2>4, <2>7, <2>8, EstablishedGrows DEF ClockItem, AccountItem
  <2> QED BY <2>1, <2>4, <2>7, <2>9, SettledLeaves
<1> QED BY <1>1, <1>2, <1>3

(* The account check: routed to the wipe handler only on balances that     *)
(* were empty when they were read.                                         *)
LEMMA AccountChecked ==
  ASSUME PreflightInv, ReadBalances \/ ReadOrders \/ AccountRefused PROVE PreflightInv'
<1>1. CASE ReadBalances
  <2>1. /\ UNCHANGED <<setup, item, outcomes, ending, gateHalted, sampled, universe>> /\ UNCHANGED venueVars
        /\ ending = "running" /\ item = AccountItem
        /\ reading' = {[held |-> NonZero(funds), empty |-> funds.free + funds.locked = 0]}
    BY <1>1 DEF ReadBalances
  <2>2. ReportTyped' /\ UniverseKept' /\ VenueTyped'
    BY <2>1 DEF PreflightInv, ReportTyped, UniverseKept, VenueTyped, venueVars
  <2>3. Established'
    BY <2>1, Zenon DEF PreflightInv, Established
  <2>4. PICK q : q = [held |-> NonZero(funds), empty |-> funds.free + funds.locked = 0]
    OBVIOUS
  <2>5. (funds.free # 0 \/ funds.locked # 0) \/ funds.free + funds.locked = 0
    BY DEF PreflightInv, VenueTyped
  <2>6. AccountRead(q)
    BY <2>4, <2>5, Zenon DEF AccountRead, NonZero
  <2>7. ReadingKept'
    <3>1. reading' = {q} /\ q \in reading'
      BY <2>1, <2>4
    <3> QED BY <2>1, <2>6, <3>1 DEF ReadingKept, AccountRead
  <2> QED BY <2>2, <2>3, <2>7 DEF PreflightInv
<1>2. CASE ReadOrders
  <2>1. /\ UNCHANGED <<setup, gateHalted, universe>> /\ UNCHANGED venueVars
        /\ ending = "running" /\ item = 8 /\ reading' = {}
    BY <1>2 DEF ReadOrders, AccountItem
  <2>2. PICK r \in reading :
          /\ SettleItem(IF ~r.held /\ resting = 0 /\ setup.expects THEN "routed" ELSE "passed")
          /\ sampled' = [sampled EXCEPT !.empty = r.empty]
    BY <1>2 DEF ReadOrders
  <2>3. AccountRead(r)
    BY <2>1, <2>2 DEF PreflightInv, ReadingKept, ClockItem
  <2>4. PICK v : v = IF ~r.held /\ resting = 0 /\ setup.expects THEN "routed" ELSE "passed"
    OBVIOUS
  <2>5. v \in Verdicts /\ SettleItem(v) /\ (v = "routed" => ~r.held)
    BY <2>2, <2>4 DEF Verdicts
  <2>6. /\ sampled'.skew = sampled.skew /\ sampled'.trip = sampled.trip
        /\ sampled'.empty = r.empty
        /\ sampled' \in [skew : Int, trip : Int, empty : BOOLEAN]
    BY <2>2, <2>3 DEF PreflightInv, VenueTyped, AccountRead
  <2>7. v = "routed" => sampled'.empty
    BY <2>3, <2>5, <2>6 DEF AccountRead
  <2>8. ending' \in {"running", "ready"} => Established'
    BY <2>1, <2>5, <2>6, <2>7, EstablishedGrows DEF ClockItem, AccountItem
  <2> QED BY <2>1, <2>5, <2>6, <2>8, SettledLeaves
<1>3. CASE AccountRefused
  <2>1. /\ UNCHANGED <<setup, gateHalted, sampled, universe>> /\ UNCHANGED venueVars
        /\ ending = "running" /\ item = 8 /\ reading' = {} /\ SettleItem("failed")
    BY <1>3 DEF AccountRefused, AccountItem
  <2>2. sampled' \in [skew : Int, trip : Int, empty : BOOLEAN] /\ "failed" \in Verdicts
    BY <2>1 DEF PreflightInv, VenueTyped, Verdicts
  <2>3. ending' \in {"running", "ready"} => Established'
    BY <2>1, <2>2, EstablishedGrows DEF ClockItem, AccountItem
  <2> QED BY <2>1, <2>2, <2>3, SettledLeaves
<1> QED BY <1>1, <1>2, <1>3

(* What else a boot does: stop at a foreign host, resolve its universe.    *)
LEMMA BootGoesOn ==
  ASSUME PreflightInv, CheckForeignHost \/ ResolveUniverse \/ UNCHANGED preflightVars PROVE PreflightInv'
<1>1. CASE CheckForeignHost
  <2>1. /\ UNCHANGED <<setup, item, reading, outcomes, sampled, universe>> /\ UNCHANGED venueVars
        /\ ending = "running" /\ item = 2 /\ ending' = "violation"
    BY <1>1 DEF CheckForeignHost
  <2>2. reading' = {}
    BY <2>1 DEF PreflightInv, ReadingKept, ClockItem, AccountItem
  <2> QED
    BY <2>1, <2>2 DEF PreflightInv, ReportTyped, UniverseKept, VenueTyped, ReadingKept, venueVars
<1>2. CASE ResolveUniverse
  <2>1. /\ UNCHANGED <<setup, item, reading, outcomes, ending, gateHalted, sampled>> /\ UNCHANGED venueVars
        /\ universe' = Tradable(setup.info) \cap setup.archive
        /\ setup.required \subseteq universe'
    BY <1>2 DEF ResolveUniverse
  <2>2. ReportTyped' /\ UniverseKept' /\ VenueTyped'
    BY <2>1 DEF PreflightInv, ReportTyped, UniverseKept, VenueTyped, venueVars
  <2>3. (ending \in {"running", "ready"} => Established)'
    BY <2>1, Zenon DEF PreflightInv, Established
  <2>4. ReadingKept'
    BY <2>1 DEF PreflightInv, ReadingKept, ClockRead, AccountRead, venueVars
  <2> QED BY <2>2, <2>3, <2>4 DEF PreflightInv
<1>3. CASE UNCHANGED preflightVars
  <2>1. UNCHANGED <<setup, item, reading, outcomes, ending, tick, skewed, funds, resting, gateHalted, sampled, universe>>
    BY <1>3 DEF preflightVars
  <2>2. ReportTyped' /\ UniverseKept' /\ VenueTyped'
    BY <2>1 DEF PreflightInv, ReportTyped, UniverseKept, VenueTyped
  <2>3. (ending \in {"running", "ready"} => Established)'
    BY <2>1, Zenon DEF PreflightInv, Established
  <2>4. ReadingKept'
    BY <2>1 DEF PreflightInv, ReadingKept, ClockRead, AccountRead
  <2> QED BY <2>2, <2>3, <2>4 DEF PreflightInv
<1> QED BY <1>1, <1>2, <1>3

LEMMA PreflightInvariant == PreflightSpec => []PreflightInv
<1>1. PreflightInit => PreflightInv
  <2> SUFFICES ASSUME PreflightInit PROVE PreflightInv
    OBVIOUS
  <2>1. ReportTyped
    BY DEF PreflightInit, ReportTyped, ItemCount
  <2>2. VenueTyped
    BY <2>1, PreflightAssumption DEF PreflightInit, VenueTyped, ReportTyped
  <2>3. ReadingKept /\ UniverseKept
    BY DEF PreflightInit, ReadingKept, UniverseKept
  <2>4. Established
    BY DEF PreflightInit, Established, ClockItem, AccountItem
  <2> QED BY <2>1, <2>2, <2>3, <2>4 DEF PreflightInv
<1>2. PreflightInv /\ [PreflightNext]_preflightVars => PreflightInv'
  BY StaticChecked, ClockChecked, AccountChecked, BootGoesOn, WorldMoves DEF PreflightNext
<1> QED BY <1>1, <1>2, PTL DEF PreflightSpec

(* PreflightTyped: a verdict for every check that ran, one reading at most.*)
THEOREM BootTyped == PreflightSpec => []PreflightTyped
<1>1. PreflightInv => PreflightTyped
  <2> SUFFICES ASSUME PreflightInv PROVE PreflightTyped
    OBVIOUS
  <2>1. ReportTyped /\ VenueTyped
    BY DEF PreflightInv
  <2>2. reading = {} \/ \E r \in reading : reading = {r}
    BY DEF PreflightInv, ReadingKept
  <2>3. Cardinality(reading) <= 1
    <3>1. CASE reading = {}
      <4>1. Cardinality(reading) = 0
        BY <3>1, FS_EmptySet
      <4> QED BY <4>1
    <3>2. ASSUME NEW r, reading = {r} PROVE Cardinality(reading) <= 1
      <4>1. Cardinality(reading) = 1
        BY <3>2, FS_Singleton
      <4> QED BY <4>1
    <3> QED BY <2>2, <3>1, <3>2
  <2> QED BY <2>1, <2>3 DEF PreflightTyped, ReportTyped, VenueTyped, Verdicts
<1> QED BY <1>1, PreflightInvariant, PTL

(* StartIsProved: a runtime starts only on a checklist that is whole and   *)
(* has no failed check, with the skew within half a round trip of the      *)
(* budget, every required symbol tradable, the kill switch as the journal  *)
(* has it, and a wipe assumed only of an empty account.                    *)
THEOREM StartProved == PreflightSpec => []StartIsProved
<1>1. PreflightInv => StartIsProved
  <2> SUFFICES ASSUME PreflightInv, ending = "ready" PROVE StartIsProved
    BY DEF StartIsProved
  <2>1. ReportTyped /\ UniverseKept /\ Established
    BY DEF PreflightInv
  <2>2. item = 12 /\ Len(outcomes) = 11 /\ setup \in Setups
    BY <2>1 DEF ReportTyped, ItemCount
  <2>3. /\ 12 > 1 /\ 12 > 2 /\ 12 > ClockItem /\ 12 > 4 /\ 12 > 5 /\ 12 > 7 /\ 12 > AccountItem
        /\ 12 > 10 /\ 12 > 11
    BY DEF ClockItem, AccountItem
  <2>4. \A i \in 1 .. ItemCount : outcomes[i] # "failed"
    BY <2>1, <2>2 DEF Established, ItemCount
  <2>5. /\ gateHalted <=> setup.journal = "open"
        /\ setup.profile.hosts = "permitted" /\ setup.key = RequiredKey(setup.profile)
        /\ setup.userData = "event" /\ setup.provenance = "production"
        /\ setup.required # {} /\ setup.required \subseteq Tradable(setup.info)
        /\ \A n \in setup.required : HasFilters(setup.info, n)
        /\ 2 * sampled.skew \in -(2 * MaxDrift + sampled.trip) .. 2 * MaxDrift + sampled.trip
        /\ outcomes[AccountItem] = "routed" => sampled.empty
    BY <2>1, <2>2, <2>3, Zenon DEF Established
  <2>6. \A x, y \in setup.info : x.name = y.name => x = y
    BY <2>2, PreflightAssumption
  <2>7. \A n \in setup.required : \E s \in setup.info : s.name = n /\ s.clean /\ s.trading /\ s.tick > 0
    <3> SUFFICES ASSUME NEW n \in setup.required
                 PROVE  \E s \in setup.info : s.name = n /\ s.clean /\ s.trading /\ s.tick > 0
      OBVIOUS
    <3>1. PICK x \in setup.info : x.name = n /\ x.clean /\ x.trading
      BY <2>5, Zenon DEF Tradable, Trading
    <3>2. PICK y \in setup.info : y.name = n /\ y.tick > 0
      BY <2>5 DEF HasFilters
    <3>3. x = y
      BY <2>6, <3>1, <3>2, Zenon
    <3> QED BY <3>1, <3>2, <3>3, Zenon
  <2>8. universe # {} => /\ setup.required \subseteq universe
                         /\ universe \cap {s.name : s \in Quarantined(setup.info)} = {}
    <3> SUFFICES ASSUME universe # {}
                 PROVE  \A x \in setup.info, y \in setup.info :
                          x.clean /\ x.trading /\ y \in Quarantined(setup.info) => x.name # y.name
      BY <2>1 DEF UniverseKept, Tradable, Trading, Quarantined
    <3> QED BY <2>6, Zenon DEF Quarantined
  <2> QED BY <2>2, <2>4, <2>5, <2>7, <2>8, Zenon DEF StartIsProved, ItemCount
<1> QED BY <1>1, PreflightInvariant, PTL
=============================================================================
