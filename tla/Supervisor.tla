----------------------------- MODULE Supervisor -----------------------------
(***************************************************************************)
(* The process entrypoint (platform/supervisor.py): startup, the gate that *)
(* admits signals, the degraded modes, the one blind except and the exit   *)
(* code a restart policy acts on.  The kill switch, the book and the audit *)
(* sink are protocols with no adapter in the repository: tripped stands    *)
(* for an open incident in the journal, reachable for the database.        *)
(***************************************************************************)
EXTENDS Naturals

CONSTANTS
  ProcessModes,   \* DegradedMode
  TrippingModes,  \* TRIPPING_MODES
  MaxStarts       \* bound on the number of processes started

ASSUME SupervisorAssumption ==
  /\ TrippingModes \subseteq ProcessModes
  /\ MaxStarts \in Nat

Phases == {"exited", "serving", "trip", "flatten", "record"}
Exits  == {"none", "ok", "fatal", "config", "died"}
Halts  == {"unproven", "journal", "mode", "none"}

VARIABLES
  phase,         \* where run() stands
  exit,          \* how the last process ended
  haltedReason,  \* SupervisorState.halted_reason, "none" for None
  degraded,      \* SupervisorState.degraded
  tripped,       \* the journal holds an open incident
  reachable,     \* the database answers
  exposed,       \* a fatal error has not been followed by a flatten
  owed,          \* a human resume is owed: a mode halted or a fatal error tripped
  starts         \* processes started

supervisorVars == <<phase, exit, haltedReason, degraded, tripped, reachable, exposed, owed, starts>>

Admitted == phase = "serving" /\ haltedReason = "none"

(* _tripping_reason *)
TrippingReason(modes) == IF modes \cap TrippingModes = {} THEN "none" ELSE "mode"

(* Mutation of ApplyReading: a resumed journal admits whatever mode is active. *)
ApplyReading_JournalOnly(is_halted, modes) == IF is_halted THEN "journal" ELSE "none"

(* apply_reading *)
ApplyReading(is_halted, modes) == IF is_halted THEN "journal" ELSE TrippingReason(modes)

-----------------------------------------------------------------------------
SupervisorInit ==
  /\ phase = "exited" /\ exit = "none" /\ haltedReason = "unproven" /\ degraded = {}
  /\ tripped \in BOOLEAN /\ reachable \in BOOLEAN
  /\ exposed = FALSE /\ owed = tripped /\ starts = 0

(* start raises: bootstrap rejects the configuration, or the safety kernel *)
(* or the migration check kills the process.  Nothing is flattened.        *)
StartRefused ==
  /\ phase = "exited" /\ starts < MaxStarts
  /\ starts' = starts + 1
  /\ \E e \in {"config", "died"} : exit' = e
  /\ UNCHANGED <<phase, haltedReason, degraded, tripped, reachable, exposed, owed>>

(* start: a new gate adopts the boot reading; unreadable means halted. *)
Start ==
  /\ phase = "exited" /\ starts < MaxStarts
  /\ starts' = starts + 1
  /\ phase' = "serving" /\ exit' = "none"
  /\ degraded' = {}
  /\ haltedReason' = ApplyReading(tripped \/ ~reachable, {})
  /\ UNCHANGED <<tripped, reachable, exposed, owed>>

(* SupervisorGate.adopt of a fresh reading while serving. *)
Adopt ==
  /\ phase = "serving"
  /\ haltedReason' = ApplyReading(tripped \/ ~reachable, degraded)
  /\ UNCHANGED <<phase, exit, degraded, tripped, reachable, exposed, owed, starts>>

(* enter_degraded: a tripping mode halts a gate that was not halted. *)
EnterDegraded(m) ==
  /\ phase = "serving" /\ m \notin degraded
  /\ degraded' = degraded \cup {m}
  /\ haltedReason' = IF haltedReason = "none" THEN TrippingReason({m}) ELSE haltedReason
  /\ owed' = (owed \/ m \in TrippingModes)
  /\ UNCHANGED <<phase, exit, tripped, reachable, exposed, starts>>

(* exit_degraded: the mode goes, the halt stays. *)
ExitDegraded(m) ==
  /\ phase = "serving" /\ m \in degraded
  /\ degraded' = degraded \ {m}
  /\ UNCHANGED <<phase, exit, haltedReason, tripped, reachable, exposed, owed, starts>>

(* serve returns; or a SafetyViolation, which no handler catches, kills    *)
(* the process without flattening, as a crash of the process does.         *)
ServeEnds ==
  /\ phase = "serving" /\ phase' = "exited"
  /\ \E e \in {"ok", "died"} : exit' = e
  /\ UNCHANGED <<haltedReason, degraded, tripped, reachable, exposed, owed, starts>>

(* serve raises: the blind except takes over. *)
ServeRaises ==
  /\ phase = "serving" /\ phase' = "trip"
  /\ exposed' = TRUE
  /\ UNCHANGED <<exit, haltedReason, degraded, tripped, reachable, owed, starts>>

(* await kill_switch.trip: the row is appended if the database answers.    *)
TripSwitch ==
  /\ phase = "trip" /\ reachable
  /\ phase' = "flatten" /\ tripped' = TRUE /\ owed' = TRUE
  /\ UNCHANGED <<exit, haltedReason, degraded, reachable, exposed, starts>>

(* await execution.flatten_all *)
FlattenAll ==
  /\ phase = "flatten" /\ phase' = "record" /\ exposed' = FALSE
  /\ UNCHANGED <<exit, haltedReason, degraded, tripped, reachable, owed, starts>>

(* await audit.record_fatal, then EXIT_FATAL *)
RecordFatal ==
  /\ phase = "record" /\ reachable
  /\ phase' = "exited" /\ exit' = "fatal"
  /\ UNCHANGED <<haltedReason, degraded, tripped, reachable, exposed, owed, starts>>

(* Nothing in the handler is defended: any of its three awaits may raise,  *)
(* or the process be killed, and the exit code is not one of run's own.    *)
HandlerDies ==
  /\ phase \in {"trip", "flatten", "record"}
  /\ phase' = "exited" /\ exit' = "died"
  /\ UNCHANGED <<haltedReason, degraded, tripped, reachable, exposed, owed, starts>>

(* A human resumes through the journal; the database comes and goes. *)
HumanResume ==
  /\ reachable /\ owed
  /\ tripped' = FALSE /\ owed' = FALSE
  /\ UNCHANGED <<phase, exit, haltedReason, degraded, reachable, exposed, starts>>
DatabaseChanges ==
  /\ reachable' = ~reachable
  /\ UNCHANGED <<phase, exit, haltedReason, degraded, tripped, exposed, owed, starts>>

SupervisorRun == \/ StartRefused \/ Start \/ Adopt \/ ServeEnds \/ ServeRaises
                 \/ TripSwitch \/ FlattenAll \/ RecordFatal \/ HandlerDies
                 \/ \E m \in ProcessModes : EnterDegraded(m) \/ ExitDegraded(m)

SupervisorNext == SupervisorRun \/ HumanResume \/ DatabaseChanges

SupervisorSpec == SupervisorInit /\ [][SupervisorNext]_supervisorVars

-----------------------------------------------------------------------------
(* Every variable keeps its type; a process that has ended left an exit    *)
(* code, whichever way it ended (run).                                     *)
SupervisorTypeOK ==
  /\ phase \in Phases /\ exit \in Exits /\ haltedReason \in Halts
  /\ degraded \subseteq ProcessModes
  /\ tripped \in BOOLEAN /\ reachable \in BOOLEAN
  /\ exposed \in BOOLEAN /\ owed \in BOOLEAN /\ starts \in 0..MaxStarts
  /\ (exit = "none") <=> (phase # "exited" \/ starts = 0)

(* No order of mode entries, exits, human resumes and journal readings     *)
(* admits signals while a tripping mode is active: the two halts are       *)
(* independent and both must clear (apply_reading, enter_degraded).        *)
ActiveModeHalts == degraded \cap TrippingModes # {} => ~Admitted

(* A fatal error whose trip reached the journal admits no signal, in this  *)
(* process or any later one and with the database up or down at its boot,  *)
(* until a human has resumed (run, start).                                 *)
TripOutlivesProcess == Admitted => ~tripped

(* EXIT_FATAL is reported only once the trip is recorded and the book      *)
(* flattened: a remediation that failed never looks tidy (run).            *)
FatalExitMeansRemediated == exit = "fatal" => ~exposed

(* What the journal, the modes and the exit code say of the process is     *)
(* true in every process of the series (run, start, apply_reading).        *)
HaltsAndExitsHold == ActiveModeHalts /\ TripOutlivesProcess /\ FatalExitMeansRemediated

(* What enter_degraded and exit_degraded say of a tripping mode: the halt  *)
(* is cleared by a human and by nothing else.                              *)
ModeHaltNeedsHuman == Admitted => ~owed
=============================================================================
