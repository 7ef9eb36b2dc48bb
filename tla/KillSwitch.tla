----------------------------- MODULE KillSwitch -----------------------------
(***************************************************************************)
(* The kill switch (risk/_killswitch.py, risk/_state.py) and its append-   *)
(* only journal (execution/killswitch_journal.py).  One process holds the  *)
(* gate the order path reads; trips of correlated conditions run in it at  *)
(* once; operators arm and resume through the journal; a crash forgets     *)
(* everything but the journal and what the venue was sent.                 *)
(*                                                                         *)
(* Row times are the caller's clock, which may step back; rows with equal  *)
(* times are ordered by event_id, a random UUID: an unused number here.    *)
(***************************************************************************)
EXTENDS Integers, FiniteSets

CONSTANTS
  Incidents,   \* incident ids
  Operators,   \* human operators
  Trippers,    \* trips that may run at the same time
  None,        \* no incident, no operator, no completion time
  MaxTime,     \* bound on the clock
  MaxRows,     \* bound on the journal
  ArmValidity, \* 120 seconds
  Freshness    \* RECONCILIATION_FRESHNESS, 5 minutes

ASSUME SwitchAssumption ==
  /\ MaxTime \in Nat /\ MaxRows \in Nat
  /\ ArmValidity \in Nat \ {0} /\ Freshness \in Nat
  /\ None \notin Incidents \cup Operators

Times    == 0..MaxTime
EventIds == 1..MaxRows
Rows  == [kind : {"TRIP", "ARM", "RESUME"}, inc : Incidents,
          op : Operators \cup {None}, at : Times, id : EventIds]
States   == [halted : BOOLEAN, inc : Incidents \cup {None}]

VARIABLES
  now,          \* the clock callers stamp rows with
  journal,      \* kill_switch_event rows
  proc,         \* "boot" until restore_kill_switch has adopted a state, then "up"
  gate,         \* whether KillSwitchGate's state is halted
  trips,        \* where each running trip stands in trip_sequence
  remediated,   \* incidents the venue was sent cancels or a flatten for
  seen          \* the state the resume procedure's last read implied

vars == <<now, journal, proc, gate, trips, remediated, seen>>

-----------------------------------------------------------------------------
(* Journal order: occurred_at_utc, then event_id. *)
Before(r, s) == r.at < s.at \/ (r.at = s.at /\ r.id < s.id)

(* Mutation of OpenTrips: one current trip, that any resume clears. *)
OpenTrips_AnyResume(rows) ==
  {t \in rows : /\ t.kind = "TRIP"
                /\ \A r \in rows : r.kind = "RESUME" => Before(r, t)}

(* Trips still open: no RESUME of the same incident follows in that order. *)
OpenTrips(rows) ==
  {t \in rows : /\ t.kind = "TRIP"
                /\ \A r \in rows : r.kind = "RESUME" /\ r.inc = t.inc => Before(r, t)}

Trading  == [halted |-> FALSE, inc |-> None]
HaltedBy(i) == [halted |-> TRUE, inc |-> i]

(* derive_state of a journal that was read: the earliest open trip. *)
Derived(rows) ==
  IF OpenTrips(rows) = {} THEN Trading
  ELSE LET t == CHOOSE t \in OpenTrips(rows) :
                  \A s \in OpenTrips(rows) : s = t \/ Before(t, s)
       IN HaltedBy(t.inc)

(* What a read of the journal yields: the rows, or unreadable and halted. *)
Readings == {Derived(journal), HaltedBy(None)}

(* Mutation of AddRow: the event id is not checked against the journal's. *)
AddRow_AnyId(kind, i, op, at) ==
  /\ Cardinality(journal) < MaxRows
  /\ \E id \in EventIds :
       journal' = journal \cup {[kind |-> kind, inc |-> i, op |-> op, at |-> at, id |-> id]}

(* The row appended, under an event id nobody has used. *)
AddRow(kind, i, op, at) ==
  \E id \in EventIds \ {r.id : r \in journal} :
    journal' = journal \cup {[kind |-> kind, inc |-> i, op |-> op, at |-> at, id |-> id]}

NoTrip == [stage |-> "idle", inc |-> None, at |-> 0]

Init ==
  /\ now = 0 /\ journal = {} /\ proc = "boot"
  /\ gate = TRUE
  /\ trips = [k \in Trippers |-> NoTrip]
  /\ remediated = {} /\ seen = HaltedBy(None)

-----------------------------------------------------------------------------
(* The clock moves, either way. *)
Clock(t) ==
  /\ t # now /\ now' = t
  /\ UNCHANGED <<journal, proc, gate, trips, remediated, seen>>

(* restore_kill_switch: adopt what the journal implies.  Preflight aborts  *)
(* the process when the journal could not be read; the next one boots.     *)
Restore ==
  /\ proc = "boot"
  /\ \/ gate' = Derived(journal).halted /\ proc' = "up"
     \/ gate' = TRUE /\ proc' = "boot"
  /\ UNCHANGED <<now, journal, trips, remediated, seen>>

(* The process dies, at any await of anything it was doing; the next one   *)
(* boots, its gate halted by construction.                                 *)
Crash ==
  /\ proc = "up" /\ proc' = "boot"
  /\ gate' = TRUE
  /\ trips' = [k \in Trippers |-> NoTrip]
  /\ UNCHANGED <<now, journal, remediated, seen>>

(* Mutation of Block: remediation is started before the row is recorded. *)
Block_RecordLast(k, i) ==
  /\ proc = "up" /\ trips[k].stage = "idle"
  /\ gate' = TRUE
  /\ trips' = [trips EXCEPT ![k] = [stage |-> "remediate", inc |-> i, at |-> 0]]
  /\ UNCHANGED <<now, journal, proc, remediated, seen>>

(* BLOCK_ORDER_ENTRY: a trip is decided and the gate closed, without an await. *)
Block(k, i) ==
  /\ proc = "up" /\ trips[k].stage = "idle"
  /\ gate' = TRUE
  /\ trips' = [trips EXCEPT ![k] = [stage |-> "record", inc |-> i, at |-> now]]
  /\ UNCHANGED <<now, journal, proc, remediated, seen>>

(* RECORD_TRIP_EVENT: append, or append raises and the trip goes no further. *)
Record(k) ==
  /\ trips[k].stage = "record"
  /\ \/ /\ AddRow("TRIP", trips[k].inc, None, trips[k].at)
        /\ trips' = [trips EXCEPT ![k] = [stage |-> "remediate", inc |-> @.inc, at |-> 0]]
     \/ journal' = journal /\ trips' = [trips EXCEPT ![k] = NoTrip]
  /\ UNCHANGED <<now, proc, gate, remediated, seen>>

(* CANCEL_RESTING_ORDERS, then FLATTEN_FROM_VENUE_STATE when the policy    *)
(* asks for it and the venue is readable (else RAISE_FLATTEN_BLOCKED).     *)
Remediate(k) ==
  /\ trips[k].stage = "remediate"
  /\ remediated' = remediated \cup {trips[k].inc}
  /\ trips' = [trips EXCEPT ![k] = NoTrip]
  /\ UNCHANGED <<now, journal, proc, gate, seen>>

(* Arm: an intent is appended; it moves no state.  The input is an         *)
(* incident the journal holds a trip of: nobody arms an id never seen.     *)
Arm(o, i) ==
  /\ \E t \in journal : t.kind = "TRIP" /\ t.inc = i
  /\ AddRow("ARM", i, o, now)
  /\ UNCHANGED <<now, proc, gate, trips, remediated, seen>>

(* The journal is read for a resume.  Time and other rows pass before the  *)
(* resume this state is an argument of.                                    *)
Gather ==
  /\ seen' \in Readings
  /\ UNCHANGED <<now, journal, proc, gate, trips, remediated>>

(* ResumePreconditions and the root cause, as the caller observed them:    *)
(* the completion time of the last reconciliation if that was clean.       *)
Preconditions == [completed : Times \cup {None}, still_true : BOOLEAN,
                  recovered : BOOLEAN, explained : BOOLEAN]

(* Mutation of Accepted: an arm never expires. *)
Accepted_NoExpiry(state, arm, operator, p) ==
  /\ state.halted /\ state.inc # None
  /\ arm.inc = state.inc /\ arm.op = operator /\ arm.at <= now
  /\ p.completed \in Times /\ now - p.completed <= Freshness
  /\ ~p.still_true /\ p.recovered /\ p.explained

(* resume_refusals is empty. *)
Accepted(state, arm, operator, p) ==
  /\ state.halted /\ state.inc # None
  /\ arm.inc = state.inc /\ arm.op = operator
  /\ arm.at <= now /\ now < arm.at + ArmValidity
  /\ p.completed \in Times /\ now - p.completed <= Freshness
  /\ ~p.still_true /\ p.recovered /\ p.explained

(* Resume: append the row, naming the incident of the state read before.   *)
Resume(o) ==
  /\ \E arm \in {r \in journal : r.kind = "ARM"} : \E p \in Preconditions :
       Accepted(seen, arm, o, p)
  /\ AddRow("RESUME", seen.inc, o, now)
  /\ UNCHANGED <<now, proc, gate, trips, remediated, seen>>

Trip(k) == (\E i \in Incidents : Block(k, i)) \/ Record(k) \/ Remediate(k)
Operate(o) == (\E i \in Incidents : Arm(o, i)) \/ Resume(o)

Next ==
  \/ (\E t \in Times : Clock(t))
  \/ Restore \/ Crash \/ Gather
  \/ \E k \in Trippers : Trip(k)
  \/ \E o \in Operators : Operate(o)

Spec == Init /\ [][Next]_vars

-----------------------------------------------------------------------------
(* Every variable keeps its type, and no two rows share an event id. *)
TypeOK ==
  /\ now \in Times
  /\ journal \subseteq Rows
  /\ \A r, s \in journal : r.id = s.id => r = s
  /\ proc \in {"boot", "up"}
  /\ gate \in BOOLEAN
  /\ trips \in [Trippers -> [stage : {"idle", "record", "remediate"},
                             inc : Incidents \cup {None}, at : Times]]
  /\ \A k \in Trippers : trips[k].stage # "idle" => trips[k].inc # None
  /\ remediated \subseteq Incidents /\ seen \in States

(* A TRIP of incident i with no later RESUME naming i. *)
Uncleared(i) ==
  \E t \in journal : /\ t.kind = "TRIP" /\ t.inc = i
                     /\ ~\E r \in journal : /\ r.kind = "RESUME" /\ r.inc = i
                                            /\ Before(t, r)

(* The order path is never open while the journal holds a trip that no     *)
(* later resume names, whatever crashed, restarted or ran at once          *)
(* (derive_state: a restart is not a reset, a resume clears its incident). *)
OpenGateMeansClear == ~gate => \A i \in Incidents : ~Uncleared(i)

(* Nothing was sent to the venue for an incident the journal does not      *)
(* hold: a crash inside a trip leaves evidence (TripStep: record second).  *)
RemediationLeavesEvidence ==
  \A i \in remediated : \E t \in journal : t.kind = "TRIP" /\ t.inc = i

(* Every resume in the journal answers a trip of its incident and follows, *)
(* within the arm's validity, an arm of that incident by the same person,  *)
(* although the state it was computed from was read earlier and the clock  *)
(* may have stepped back since (resume_refusals).                          *)
ResumeFollowsProcedure ==
  \A r \in journal : r.kind = "RESUME" =>
    /\ \E t \in journal : t.kind = "TRIP" /\ t.inc = r.inc
    /\ \E a \in journal : /\ a.kind = "ARM" /\ a.inc = r.inc /\ a.op = r.op
                          /\ a.at <= r.at /\ r.at < a.at + ArmValidity
=============================================================================
