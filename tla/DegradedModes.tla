---------------------------- MODULE DegradedModes ---------------------------
(***************************************************************************)
(* The degraded-mode state machine (risk/degraded): components measure one *)
(* mode each, the bus delivers the measurements to the supervisor at least *)
(* once and in any order, and the supervisor's gate applies them.          *)
(***************************************************************************)
EXTENDS Naturals, Sequences, FiniteSets

CONSTANTS
  Modes,          \* DegradedMode
  Symbols,        \* traded symbols
  Enter,          \* consecutive_faults_to_enter, per mode
  Leave,          \* consecutive_clears_to_exit, per mode
  Reconciled,     \* modes with requires_clean_reconciliation_to_exit
  Restricting,    \* modes with restricts_affected_symbols
  MaxMeasuredAt,  \* bound on the clock
  MaxMeasured     \* bound on the number of measurements

ASSUME DegradedAssumption ==
  /\ Enter \in [Modes -> Nat \ {0}] /\ Leave \in [Modes -> Nat \ {0}]
  /\ Reconciled \subseteq Modes /\ Restricting \subseteq Modes
  /\ MaxMeasuredAt \in Nat /\ MaxMeasured \in Nat

(* No row of MODE_RULES asks for more.  The id applied last is all that is *)
(* remembered: of two faults with one stamp the first, redelivered, would  *)
(* be counted as a third.                                                  *)
ASSUME EnterAssumption == \A m \in Modes : Enter[m] <= 2

MeasuredTimes == 0..MaxMeasuredAt

Observation == [mode : Modes, faulted : BOOLEAN, at : MeasuredTimes,
                symbols : SUBSET Symbols, clean : BOOLEAN]

VARIABLES
  measuredNow,  \* the clock of the measuring components
  measured,     \* every ModeObservation made; its id is its index
  progress,     \* DegradedModeState.progress
  rows          \* audit rows per measurement that caused them; 2 is two or more

degradedVars == <<measuredNow, measured, progress, rows>>

Ids == 1..Len(measured)

(* ModeProgress; last = 0 before the first observation. *)
Fresh == [faults |-> 0, clears |-> 0, last |-> 0, lastAt |-> 0,
          active |-> FALSE, symbols |-> {}]

Least(a, b) == IF a < b THEN a ELSE b

(* Mutation of Superseded: a repeated id is not recognised. *)
Superseded_ByTimeOnly(p, i) == p.last # 0 /\ measured[i].at < p.lastAt

(* Mutation of Superseded: a reordered delivery is not recognised. *)
Superseded_ByIdOnly(p, i) == p.last = i

(* _superseded: the id applied last, or measured before the one applied    *)
(* last.                                                                   *)
Superseded(p, i) == p.last = i \/ (p.last # 0 /\ measured[i].at < p.lastAt)

(* Mutation of Faulted: the count of faults does not saturate. *)
Faulted_Unsaturated(p, o) ==
  IF p.faults + 1 < Enter[o.mode]
    THEN [p EXCEPT !.faults = @ + 1, !.clears = 0]
    ELSE [p EXCEPT !.faults = @ + 1, !.clears = 0, !.active = TRUE,
                   !.symbols = @ \cup o.symbols]

(* The fault branch of _observe, with _entered. *)
Faulted(p, o) ==
  LET n == Least(p.faults + 1, Enter[o.mode]) IN
  IF n < Enter[o.mode]
    THEN [p EXCEPT !.faults = n, !.clears = 0]
    ELSE [p EXCEPT !.faults = n, !.clears = 0, !.active = TRUE,
                   !.symbols = IF p.active THEN p.symbols \cup o.symbols ELSE o.symbols]

(* The clear branch of _observe. *)
Cleared(p, o) ==
  LET n == Least(p.clears + 1, Leave[o.mode])
      leaves == n = Leave[o.mode] /\ (o.clean \/ o.mode \notin Reconciled) IN
  IF leaves
    THEN [p EXCEPT !.faults = 0, !.clears = n, !.active = FALSE, !.symbols = {}]
    ELSE [p EXCEPT !.faults = 0, !.clears = n]

(* blocked_symbols *)
Blocked == UNION {progress[m].symbols : m \in {n \in Restricting : progress[n].active}}

-----------------------------------------------------------------------------
DegradedInit ==
  /\ measuredNow = 0 /\ measured = <<>> /\ rows = <<>>
  /\ progress = [m \in Modes |-> Fresh]

MeasurementClock ==
  /\ measuredNow < MaxMeasuredAt /\ measuredNow' = measuredNow + 1
  /\ UNCHANGED <<measured, progress, rows>>

(* A component measures one mode: a fault names symbols, a clear says      *)
(* whether reconciliation came out clean.                                  *)
Measure ==
  /\ Len(measured) < MaxMeasured
  /\ \E o \in Observation :
       /\ o.at = measuredNow
       /\ IF o.faulted THEN o.symbols # {} /\ ~o.clean ELSE o.symbols = {}
       /\ measured' = Append(measured, o)
  /\ rows' = Append(rows, 0)
  /\ UNCHANGED <<measuredNow, progress>>

(* DegradedModeGate.observe of measurement i, delivered for the first time *)
(* or again.                                                               *)
ObserveMeasurement(i) ==
  LET o == measured[i]
      p == progress[o.mode]
      q == IF o.faulted THEN Faulted(p, o) ELSE Cleared(p, o) IN
  /\ ~Superseded(p, i)
  /\ progress' = [progress EXCEPT ![o.mode] = [q EXCEPT !.last = i, !.lastAt = o.at]]
  /\ rows' = IF p.active = q.active THEN rows ELSE [rows EXCEPT ![i] = Least(@ + 1, 2)]
  /\ UNCHANGED <<measuredNow, measured>>

(* A superseded delivery returns the state it was given. *)
Ignore(i) == Superseded(progress[measured[i].mode], i) /\ UNCHANGED degradedVars

DegradedNext == MeasurementClock \/ Measure \/ \E i \in Ids : ObserveMeasurement(i) \/ Ignore(i)

DegradedSpec == DegradedInit /\ [][DegradedNext]_degradedVars

-----------------------------------------------------------------------------
(* Every variable keeps its type; a mode has symbols only while entered.   *)
DegradedTypeOK ==
  /\ measuredNow \in MeasuredTimes /\ measured \in Seq(Observation) /\ Len(measured) <= MaxMeasured
  /\ DOMAIN progress = Modes
  /\ \A m \in Modes : LET p == progress[m] IN
       /\ p.faults \in 0..Enter[m] /\ p.clears \in 0..Leave[m]
       /\ p.last \in 0..Len(measured) /\ p.lastAt \in MeasuredTimes
       /\ p.active \in BOOLEAN /\ p.symbols \subseteq Symbols
       /\ p.symbols # {} => p.active
  /\ rows \in [Ids -> 0..2]

(* A mode is entered on as many distinct failures as it asks for, however  *)
(* often the bus delivered each of them (observation_id).                  *)
EntryNeedsDistinctFaults ==
  \A m \in Modes : progress[m].active =>
    Cardinality({i \in Ids : measured[i].mode = m /\ measured[i].faulted}) >= Enter[m]

(* Reconnection is not recovery: a mode that asks for a clean              *)
(* reconciliation is left only on one measured no earlier than every fault *)
(* that is still held against it, whatever order they arrived in.          *)
ExitAfterReconciliation ==
  [][\A m \in Reconciled : progress[m].active /\ ~progress'[m].active =>
       \E i \in Ids : /\ measured[i].mode = m /\ measured[i].clean
                      /\ measured[i].at >= measured[progress[m].last].at]_degradedVars

(* While a mode stays entered the symbols it blocks only accumulate: an    *)
(* observation about one symbol releases no other (_entered).              *)
BlockedAccumulates ==
  [][\A m \in Modes : progress[m].active /\ progress'[m].active =>
       progress[m].symbols \subseteq progress'[m].symbols]_degradedVars

(* An entered mode lets go of neither its reconciliation nor its symbols   *)
(* before its incident ends (_observe).                                    *)
IncidentHolds == ExitAfterReconciliation /\ BlockedAccumulates

(* What FAILSAFE section 3 says of delivery: a measurement delivered again *)
(* writes no second audit row.                                             *)
OneRowPerMeasurement == \A i \in Ids : rows[i] <= 1
=============================================================================
