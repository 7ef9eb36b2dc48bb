---------------------------- MODULE JournalFold -----------------------------
(***************************************************************************)
(* derive_state as the code computes it, a fold over the rows in journal   *)
(* order that keeps one open trip per incident, compared with the closed   *)
(* form KillSwitch uses.                                                   *)
(***************************************************************************)
EXTENDS KillSwitch

(* The row _in_journal_order puts last.                                    *)
Newest(rows) == CHOOSE r \in rows : \A s \in rows : s = r \/ Before(s, r)

Extended(open, row) ==
  [i \in DOMAIN open \cup {row.inc} |-> IF i = row.inc THEN row ELSE open[i]]

(* Mutation of Step: a later trip of an incident takes it over. *)
Step_LatestOwns(open, row) ==
  CASE row.kind = "TRIP" -> Extended(open, row)
    [] row.kind = "RESUME" -> [i \in DOMAIN open \ {row.inc} |-> open[i]]
    [] OTHER -> open

(* open: incident -> owning trip.  setdefault on a TRIP, pop on a RESUME.  *)
Step(open, row) ==
  CASE row.kind = "TRIP" /\ row.inc \notin DOMAIN open -> Extended(open, row)
    [] row.kind = "RESUME" -> [i \in DOMAIN open \ {row.inc} |-> open[i]]
    [] OTHER -> open

(* The loop: the last row is the last one applied.                         *)
Folded(rows) ==
  LET open[S \in SUBSET rows] ==
        IF S = {} THEN [i \in {} |-> None] ELSE Step(open[S \ {Newest(S)}], Newest(S))
  IN  open

FoldedState(rows) ==
  LET open   == Folded(rows)[rows]
      owners == {open[i] : i \in DOMAIN open}
  IN IF owners = {} THEN Trading
     ELSE HaltedBy((CHOOSE t \in owners : \A s \in owners : s = t \/ Before(t, s)).inc)

(* The fold over any journal the system can write gives the state of its   *)
(* earliest trip that no later resume names (derive_state).                *)
FoldIsEarliestOpenTrip == FoldedState(journal) = Derived(journal)
=============================================================================
