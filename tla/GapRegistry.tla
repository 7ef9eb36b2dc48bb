----------------------------- MODULE GapRegistry -----------------------------
(* The gap rows of one series, as data/backfill/registry.py keeps them in the  *)
(* table coverage_gap.  The live ingest writes rows when it notices a hole,    *)
(* the archive backfill writes rows for what no archive holds, and the repairs *)
(* resolve rows.  A row is identified by its two bounds alone: its kind is not *)
(* part of the key, and a row is never deleted.                                *)
EXTENDS Naturals

VARIABLE gaps    \* the rows: [from, upto, kind, missing, resolution]

GapKinds == {"cadence", "seam", "absent_archive", "sequence", "disconnect"}
Resolutions == {"open", "backfilled", "superseded"}

\* RecordedGap: half-open bounds, a kind, and how many records are missing.
\* A disconnect and an absent archive have no count; 0 stands for that.
Gap(from, upto, kind, missing) ==
  [from |-> from, upto |-> upto, kind |-> kind, missing |-> missing, resolution |-> "open"]

SameBounds(g, h) == g.from = h.from /\ g.upto = h.upto
Inside(t, g) == g.from <= t /\ t < g.upto

\* _INSERT_GAP: ON CONFLICT on the bounds DO NOTHING, whatever kind or
\* resolution the present row has.
InsertGaps(rows, found) ==
  rows \cup {g \in found : ~ \E h \in rows : SameBounds(g, h)}

\* open_gaps, and recorded_gaps for every series.
OpenGaps(rows) == {g \in rows : g.resolution = "open"}

\* The refusals of resolve_gap that look at the residuals alone: none may
\* reproduce the gap, none may reach outside it.
ResidualsNarrow(gap, residuals) ==
  \A r \in residuals : ~SameBounds(r, gap) /\ gap.from <= r.from /\ r.upto <= gap.upto

\* _require_residual_is_open, after the insert that may have met an older row.
ResidualsOpen(rows, residuals) ==
  \A r \in residuals : \E h \in OpenGaps(rows) : SameBounds(h, r)

\* resolve_gap: the residuals go in first, in the transaction that marks the
\* gap.  The transaction is rolled back when a residual meets a resolved row or
\* another writer already resolved the gap; the rows are then unchanged.
CanResolve(rows, gap, residuals) ==
  /\ ResidualsNarrow(gap, residuals)
  /\ \A r \in residuals : r.from < r.upto      \* ck_coverage_gap_gap_is_forward
  /\ ResidualsOpen(InsertGaps(rows, residuals), residuals)
  /\ \E g \in OpenGaps(rows) : SameBounds(g, gap)

\* Mutation of Resolved: a narrowed row is marked, its residuals are left out.
Resolved_WithoutResiduals(rows, gap, residuals) ==
  {IF SameBounds(g, gap) THEN [g EXCEPT !.resolution = "superseded"] ELSE g : g \in rows}

Resolved(rows, gap, residuals) ==
  LET inserted == InsertGaps(rows, residuals)
      verdict  == IF residuals = {} THEN "backfilled" ELSE "superseded"
  IN  {IF SameBounds(g, gap) THEN [g EXCEPT !.resolution = verdict] ELSE g : g \in inserted}

\* The maximal runs of Missing within first .. last, the way the detector's
\* poll and both repairs walk the lattice.
Runs(Missing, first, last) ==
  {run \in (first .. last) \X (first .. last) :
     /\ run[1] <= run[2] /\ run[1] .. run[2] \subseteq Missing
     /\ run[1] - 1 \notin Missing \/ run[1] = first
     /\ run[2] + 1 \notin Missing \/ run[2] = last}
=============================================================================
