-------------------------- MODULE LiveIngestProofs --------------------------
(***************************************************************************)
(* What the live klines keep of their holes, for every length of time,     *)
(* number of overlapping repairs, lost connections and crashes: what a     *)
(* session settles is held or on record while the session stands, and what *)
(* is resolved is held or still on record for ever.                        *)
(***************************************************************************)
EXTENDS LiveIngest, NaturalsInduction, WellFoundedInduction, TLAPS

-----------------------------------------------------------------------------
(* Facts about the operators of the gap registry; the first two are on sets  *)
(* of numbers.                                                               *)
LEMMA LeastExists ==
  ASSUME NEW S \in SUBSET Nat, S # {}
  PROVE  \E x \in S : \A y \in S : x <= y
<1>1. PICK x \in S : \A y \in S : ~(<<y, x>> \in OpToRel(<, Nat))
  BY NatLessThanWellFounded, WFMin
<1>2. \A y \in S : ~(y < x)
  BY <1>1 DEF OpToRel
<1>3. \A y \in S : x <= y
  BY <1>2
<1> QED BY <1>3

LEMMA MostExists ==
  ASSUME NEW n \in Nat, NEW S \in SUBSET (0 .. n), S # {}
  PROVE  \E x \in S : \A y \in S : y <= x
<1> DEFINE Below == {n - u : u \in S}
<1>1. Below \in SUBSET Nat
  OBVIOUS
<1>2. Below # {}
  OBVIOUS
<1>3. PICK z \in Below : \A y \in Below : z <= y
  <2> HIDE DEF Below
  <2> QED BY <1>1, <1>2, LeastExists
<1>4. PICK x \in S : z = n - x
  OBVIOUS
<1>5. \A y \in S : n - x <= n - y
  BY <1>3, <1>4
<1> QED BY <1>5

LEMMA RunsCover ==
  ASSUME NEW Missing, NEW first \in Nat, NEW last \in Nat,
         NEW m \in Missing, m \in first .. last
  PROVE  \E run \in Runs(Missing, first, last) : run[1] <= m /\ m <= run[2]
<1> DEFINE Starts == {a \in first .. m : a .. m \subseteq Missing}
           Ends   == {b \in m .. last : m .. b \subseteq Missing}
<1>1. m \in Starts /\ Starts \in SUBSET Nat /\ m \in Ends /\ Ends \in SUBSET (0 .. last)
  OBVIOUS
<1>2. PICK a \in Starts : \A x \in Starts : a <= x
  <2> HIDE DEF Starts
  <2> QED BY <1>1, LeastExists
<1>3. PICK b \in Ends : \A x \in Ends : x <= b
  <2> HIDE DEF Ends
  <2> QED BY <1>1, MostExists
<1>4. /\ a \in first .. last /\ b \in first .. last /\ a <= m /\ m <= b
      /\ a .. m \subseteq Missing /\ m .. b \subseteq Missing
  OBVIOUS
<1>5. a .. b \subseteq Missing
  <2>1. \A x \in a .. b : x \in a .. m \/ x \in m .. b
    BY <1>4
  <2> QED BY <1>4, <2>1
<1>6. a - 1 \notin Missing \/ a = first
  <2> SUFFICES ASSUME a - 1 \in Missing, a # first PROVE FALSE
    OBVIOUS
  <2>1. a - 1 \in first .. m
    BY <1>4
  <2>2. (a - 1) .. m \subseteq Missing
    <3>1. \A x \in (a - 1) .. m : x = a - 1 \/ x \in a .. m
      BY <1>4
    <3> QED BY <1>4, <3>1
  <2>3. a <= a - 1
    BY <1>2, <2>1, <2>2
  <2> QED BY <1>4, <2>3
<1>7. b + 1 \notin Missing \/ b = last
  <2> SUFFICES ASSUME b + 1 \in Missing, b # last PROVE FALSE
    OBVIOUS
  <2>1. b + 1 \in m .. last
    BY <1>4
  <2>2. m .. (b + 1) \subseteq Missing
    <3>1. \A x \in m .. (b + 1) : x = b + 1 \/ x \in m .. b
      BY <1>4
    <3> QED BY <1>4, <3>1
  <2>3. b + 1 <= b
    BY <1>3, <2>1, <2>2
  <2> QED BY <1>4, <2>3
<1>8. <<a, b>> \in Runs(Missing, first, last)
  <2> HIDE DEF Starts, Ends
  <2> QED BY <1>4, <1>5, <1>6, <1>7 DEF Runs
<1> QED BY <1>4, <1>8

LEMMA RunsWithin ==
  ASSUME NEW Missing, NEW first \in Nat, NEW last \in Nat, NEW run \in Runs(Missing, first, last)
  PROVE  run[1] \in first .. last /\ run[2] \in first .. last /\ run[1] <= run[2]
  BY DEF Runs

-----------------------------------------------------------------------------
(* The rows of the registry and of the repairs, with their shape.          *)
Rows == [from : Nat, upto : Nat, kind : GapKinds, missing : Nat, resolution : Resolutions]

HoleOK(g) ==
  /\ g \in Rows /\ g.kind \in {"cadence", "disconnect"}
  /\ g.from < g.upto /\ g.upto <= now

(* Rows not yet in the registry are open. *)
Fresh(S) == \A g \in S : HoleOK(g) /\ g.resolution = "open"

RegistryOK ==
  /\ \A g \in gaps : HoleOK(g) /\ (g.kind = "disconnect" => g.resolution = "open")
  /\ \A g \in gaps, h \in gaps : SameBounds(g, h) => g = h

Distinct(S) == \A g \in S, h \in S : SameBounds(g, h) => g = h

PendingOK ==
  /\ Fresh(opening) /\ Distinct(opening)
  /\ Fresh(report) /\ Distinct(report)

(* A row taken by a pass was a cadence row and its bounds are still one's. *)
Taken(g) ==
  /\ HoleOK(g) /\ g.kind = "cadence"
  /\ \E h \in gaps : SameBounds(h, g) /\ h.kind = "cadence"

RepairOK(p) ==
  \/ p = Idle
  \/ /\ p = [stage |-> "next", queue |-> p.queue]
     /\ \A g \in p.queue : Taken(g)
  \/ /\ p = [stage |-> p.stage, queue |-> p.queue, gap |-> p.gap, inside |-> p.inside]
     /\ p.stage \in {"write", "resolve"}
     /\ \A g \in p.queue : Taken(g)
     /\ Taken(p.gap) /\ p.inside \subseteq 0 .. now
     /\ p.stage = "resolve" => p.inside \subseteq bars

RepairsOK ==
  /\ repair = [r \in Repairers |-> repair[r]]
  /\ \A r \in Repairers : RepairOK(repair[r])

SessionOK ==
  /\ now \in 1 .. MaxNow /\ session \in {"off", "connecting", "live", "unpolled"}
  /\ watermark \in Minutes /\ watermark <= now
  /\ observed \subseteq watermark + 1 .. now
  /\ {lastBar, droppedAt, arriving} \subseteq Minutes \cup {None}
  /\ arriving # None => arriving < now
  /\ bars \subseteq 0 .. now /\ expected \subseteq Minutes
  /\ session = "off" => observed = {} /\ arriving = None /\ opening = {} /\ report = {}
  /\ session # "live" => expected = {}

(* What the detector has seen in this session is in the table, or on its   *)
(* way there; a bar an earlier session saw may never have been written.    *)
SeenIsKept == observed \cap expected \subseteq bars \cup {arriving}

LiveInv ==
  /\ SessionOK /\ SeenIsKept /\ RegistryOK /\ PendingOK /\ RepairsOK
  /\ HolesRecorded /\ ResolvedMeansHeld

USE LiveAssumption DEF Minutes, None

-----------------------------------------------------------------------------
(* What a step may do to the registry: rows stay, and no minute that was   *)
(* held or in an open row is neither afterwards.                           *)
Cov(m) == m \in bars \/ \E h \in OpenGaps(gaps) : Inside(m, h)

NothingForgotten ==
  /\ RegistryOK' /\ ResolvedMeansHeld'
  /\ \A m \in Minutes : Cov(m) => Cov(m)'
  /\ \A h \in gaps : \E x \in gaps' : SameBounds(x, h) /\ x.kind = h.kind

LEMMA RowsAge ==
  ASSUME now \in Nat, now' \in Nat, now <= now', NEW g, HoleOK(g)
  PROVE  HoleOK(g)'
  BY DEF HoleOK, Rows

LEMMA NowNat == SessionOK => now \in Nat
  BY DEF SessionOK

LEMMA RegistryStays ==
  ASSUME LiveInv, gaps' = gaps, bars \subseteq bars', now' \in Minutes, now <= now'
  PROVE  NothingForgotten
<1>1. \A m \in Minutes : Cov(m) => Cov(m)'
  BY DEF Cov
<1>2. RegistryOK'
  BY RowsAge, NowNat DEF LiveInv, RegistryOK
<1>3. ResolvedMeansHeld'
  BY DEF LiveInv, ResolvedMeansHeld
<1>4. \A h \in gaps : \E x \in gaps' : SameBounds(x, h) /\ x.kind = h.kind
  BY DEF SameBounds
<1> QED BY <1>1, <1>2, <1>3, <1>4 DEF NothingForgotten

(* _INSERT_GAP: a row with these bounds is there afterwards.               *)
LEMMA RowsInserted ==
  ASSUME RegistryOK, NEW S, Fresh(S), Distinct(S)
  PROVE  /\ gaps \subseteq InsertGaps(gaps, S)
         /\ \A g \in InsertGaps(gaps, S) : g \in gaps \/ (g \in S /\ g.resolution = "open")
         /\ \A g \in InsertGaps(gaps, S) : HoleOK(g) /\ (g.kind = "disconnect" => g.resolution = "open")
         /\ Distinct(InsertGaps(gaps, S))
         /\ \A g \in S : \E h \in InsertGaps(gaps, S) : SameBounds(h, g)
<1>1. \A g \in InsertGaps(gaps, S) : g \in gaps \/ (g \in S /\ ~ \E h \in gaps : SameBounds(g, h))
  BY DEF InsertGaps
<1>2. \A g \in S : g \in InsertGaps(gaps, S) \/ \E h \in gaps : SameBounds(g, h)
  BY DEF InsertGaps
<1>3. gaps \subseteq InsertGaps(gaps, S)
  BY DEF InsertGaps
<1>4. \A g \in InsertGaps(gaps, S) : HoleOK(g) /\ (g.kind = "disconnect" => g.resolution = "open")
  BY <1>1 DEF RegistryOK, Fresh
<1>5. Distinct(InsertGaps(gaps, S))
  BY <1>1 DEF RegistryOK, Distinct, SameBounds
<1>6. \A g \in S : \E h \in InsertGaps(gaps, S) : SameBounds(h, g)
  BY <1>2, <1>3 DEF SameBounds
<1> QED BY <1>1, <1>3, <1>4, <1>5, <1>6 DEF Fresh

LEMMA RegistryInserts ==
  ASSUME LiveInv, NEW S, Fresh(S), Distinct(S), gaps' = InsertGaps(gaps, S), bars' = bars, now' = now
  PROVE  /\ NothingForgotten
         /\ \A m \in Minutes, g \in S : Inside(m, g) => Cov(m)'
<1>1. RegistryOK /\ ResolvedMeansHeld
  BY DEF LiveInv
<1>2. RegistryOK'
  <2>1. \A g \in gaps' : HoleOK(g) /\ (g.kind = "disconnect" => g.resolution = "open")
    BY <1>1, RowsInserted
  <2>2. Distinct(gaps')
    BY <1>1, RowsInserted
  <2> QED BY <2>1, <2>2 DEF RegistryOK, Distinct, HoleOK
<1>3. gaps \subseteq gaps' /\ \A g \in gaps' : g \in gaps \/ g.resolution = "open"
  BY <1>1, RowsInserted
<1>4. \A m \in Minutes : Cov(m) => Cov(m)'
  BY <1>3 DEF Cov, OpenGaps
<1>5. ResolvedMeansHeld'
  BY <1>1, <1>3, <1>4 DEF ResolvedMeansHeld, Cov
<1>6. \A h \in gaps : \E x \in gaps' : SameBounds(x, h) /\ x.kind = h.kind
  BY <1>3 DEF SameBounds
<1>7. ASSUME NEW m \in Minutes, NEW g \in S, Inside(m, g) PROVE Cov(m)'
  <2>1. PICK h \in gaps' : SameBounds(h, g)
    BY <1>1, RowsInserted
  <2>2. Inside(m, h)
    BY <1>7, <2>1 DEF SameBounds, Inside
  <2>3. CASE h.resolution = "open"
    BY <2>2, <2>3 DEF Cov, OpenGaps
  <2>4. CASE h.resolution # "open"
    <3>1. h.kind = "cadence"
      BY <1>2, <2>4 DEF RegistryOK, HoleOK
    <3> QED BY <1>5, <2>2, <2>4, <3>1 DEF ResolvedMeansHeld, Cov
  <2> QED BY <2>3, <2>4
<1> QED BY <1>2, <1>4, <1>5, <1>6, <1>7 DEF NothingForgotten

(* The rows a poll or a repair makes of the runs of what is missing.       *)
RowsOfRuns(Missing, first, last, kind) ==
  {Gap(run[1], run[2] + 1, kind, run[2] - run[1] + 1) : run \in Runs(Missing, first, last)}

LEMMA RunsMakeRows ==
  ASSUME NEW Missing, NEW first \in Nat, NEW last \in Nat, NEW kind \in {"cadence", "disconnect"},
         now \in Nat, last < now
  PROVE  /\ Fresh(RowsOfRuns(Missing, first, last, kind))
         /\ Distinct(RowsOfRuns(Missing, first, last, kind))
         /\ \A g \in RowsOfRuns(Missing, first, last, kind) :
              g.kind = kind /\ first <= g.from /\ g.upto <= last + 1
         /\ \A m \in first .. last : m \in Missing =>
              \E g \in RowsOfRuns(Missing, first, last, kind) : Inside(m, g)
<1>1. ASSUME NEW run \in Runs(Missing, first, last),
             NEW g, g = Gap(run[1], run[2] + 1, kind, run[2] - run[1] + 1)
      PROVE  /\ g.from = run[1] /\ g.upto = run[2] + 1 /\ g.kind = kind /\ g.resolution = "open"
             /\ g \in Rows /\ HoleOK(g) /\ first <= g.from /\ g.upto <= last + 1
  <2>1. run[1] \in first .. last /\ run[2] \in first .. last /\ run[1] <= run[2]
    BY RunsWithin
  <2>2. /\ g.from = run[1] /\ g.upto = run[2] + 1 /\ g.kind = kind /\ g.resolution = "open"
        /\ g.missing = run[2] - run[1] + 1
    BY <1>1 DEF Gap
  <2>3. /\ run[1] \in Nat /\ run[2] + 1 \in Nat /\ run[2] - run[1] + 1 \in Nat
        /\ kind \in GapKinds /\ "open" \in Resolutions
    BY <2>1 DEF GapKinds, Resolutions
  <2>4. g \in Rows
    BY <1>1, <2>3 DEF Gap, Rows
  <2> QED BY <2>1, <2>2, <2>4 DEF HoleOK
<1>2. ASSUME NEW g \in RowsOfRuns(Missing, first, last, kind)
      PROVE  \E run \in Runs(Missing, first, last) :
               g = Gap(run[1], run[2] + 1, kind, run[2] - run[1] + 1)
  BY DEF RowsOfRuns
<1>3. \A g \in RowsOfRuns(Missing, first, last, kind) :
        HoleOK(g) /\ g.resolution = "open" /\ g.kind = kind /\ first <= g.from /\ g.upto <= last + 1
  BY <1>1, <1>2
<1>4. Distinct(RowsOfRuns(Missing, first, last, kind))
  <2> SUFFICES ASSUME NEW g \in RowsOfRuns(Missing, first, last, kind),
                      NEW h \in RowsOfRuns(Missing, first, last, kind), SameBounds(g, h)
               PROVE  g = h
    BY DEF Distinct
  <2>1. PICK x \in Runs(Missing, first, last) : g = Gap(x[1], x[2] + 1, kind, x[2] - x[1] + 1)
    BY <1>2
  <2>2. PICK y \in Runs(Missing, first, last) : h = Gap(y[1], y[2] + 1, kind, y[2] - y[1] + 1)
    BY <1>2
  <2>3. x[1] \in Nat /\ x[2] \in Nat /\ y[1] \in Nat /\ y[2] \in Nat
    BY RunsWithin
  <2>4. g.from = x[1] /\ g.upto = x[2] + 1 /\ h.from = y[1] /\ h.upto = y[2] + 1
    BY <2>1, <2>2 DEF Gap
  <2>5. g.from = h.from /\ g.upto = h.upto
    BY DEF SameBounds
  <2>6. x[1] = y[1] /\ x[2] + 1 = y[2] + 1
    BY <2>4, <2>5
  <2>7. x[2] = y[2]
    BY <2>3, <2>6
  <2> QED BY <2>1, <2>2, <2>6, <2>7
<1>5. ASSUME NEW m \in first .. last, m \in Missing
      PROVE  \E g \in RowsOfRuns(Missing, first, last, kind) : Inside(m, g)
  <2>1. PICK run \in Runs(Missing, first, last) : run[1] <= m /\ m <= run[2]
    BY <1>5, RunsCover
  <2>2. PICK g : g = Gap(run[1], run[2] + 1, kind, run[2] - run[1] + 1)
    OBVIOUS
  <2>3. run[2] \in Nat /\ m \in Nat
    BY RunsWithin
  <2>4. Inside(m, g)
    BY <1>1, <2>1, <2>2, <2>3 DEF Inside
  <2>5. g \in RowsOfRuns(Missing, first, last, kind)
    BY <2>2 DEF RowsOfRuns
  <2> QED BY <2>4, <2>5
<1> QED BY <1>3, <1>4, <1>5 DEF Fresh

(* resolve_gap: what the row covered is held or in a residual that is open.*)
LEMMA RowResolves ==
  ASSUME LiveInv, NEW gap, Taken(gap), NEW left, Fresh(left), Distinct(left),
         \A r \in left : r.kind = "cadence",
         CanResolve(gaps, gap, left), gaps' = Resolved(gaps, gap, left), bars' = bars, now' = now,
         \A m \in Minutes : Inside(m, gap) => m \in bars \/ \E r \in left : Inside(m, r)
  PROVE  NothingForgotten
<1>1. RegistryOK /\ ResolvedMeansHeld
  BY DEF LiveInv
<1>2. PICK inserted : inserted = InsertGaps(gaps, left)
  OBVIOUS
<1>3. /\ gaps \subseteq inserted
      /\ \A g \in inserted : g \in gaps \/ (g \in left /\ g.resolution = "open")
      /\ \A g \in inserted : HoleOK(g) /\ (g.kind = "disconnect" => g.resolution = "open")
      /\ Distinct(inserted)
  BY <1>1, <1>2, RowsInserted
<1>4. PICK verdict \in {"backfilled", "superseded"} :
        gaps' = {IF SameBounds(g, gap) THEN [g EXCEPT !.resolution = verdict] ELSE g : g \in inserted}
  BY <1>2 DEF Resolved
<1>5. ASSUME NEW g \in inserted
      PROVE  /\ [g EXCEPT !.resolution = verdict] \in Rows
             /\ \A x : x = [g EXCEPT !.resolution = verdict] =>
                  x.from = g.from /\ x.upto = g.upto /\ x.kind = g.kind /\ x.resolution = verdict
  <2>1. g \in Rows
    BY <1>3 DEF HoleOK
  <2>2. verdict \in Resolutions
    BY DEF Resolutions
  <2> QED BY <2>1, <2>2 DEF Rows
<1>6. \A x \in gaps' : \E g \in inserted :
        /\ SameBounds(g, gap) => x = [g EXCEPT !.resolution = verdict]
        /\ ~SameBounds(g, gap) => x = g
  BY <1>4
<1>7. \A g \in inserted : ~SameBounds(g, gap) => g \in gaps'
  BY <1>4
<1>8. \A g \in inserted : SameBounds(g, gap) => [g EXCEPT !.resolution = verdict] \in gaps'
  BY <1>4
<1>9. \A g \in inserted : SameBounds(g, gap) => g.kind = "cadence"
  BY <1>3 DEF Taken, Distinct, SameBounds
<1>10. ASSUME NEW x \in gaps'
       PROVE  \E g \in inserted :
                /\ x.from = g.from /\ x.upto = g.upto /\ x.kind = g.kind /\ x \in Rows
                /\ SameBounds(g, gap) => x = [g EXCEPT !.resolution = verdict]
                /\ ~SameBounds(g, gap) => x = g
  <2>1. PICK g \in inserted :
          /\ SameBounds(g, gap) => x = [g EXCEPT !.resolution = verdict]
          /\ ~SameBounds(g, gap) => x = g
    BY <1>6
  <2>2. g \in Rows
    BY <1>3 DEF HoleOK
  <2> QED BY <1>5, <2>1, <2>2
<1>11. ASSUME NEW r \in left, NEW m \in Minutes, Inside(m, r) PROVE Cov(m)'
  <2>1. PICK h \in inserted : h.resolution = "open" /\ SameBounds(h, r)
    BY <1>2 DEF CanResolve, ResidualsOpen, OpenGaps
  <2>2. ~SameBounds(h, gap)
    BY <2>1 DEF CanResolve, ResidualsNarrow, SameBounds
  <2>3. Inside(m, h)
    BY <1>11, <2>1 DEF SameBounds, Inside
  <2> QED BY <1>7, <2>1, <2>2, <2>3 DEF Cov, OpenGaps
<1>12. \A m \in Minutes : Inside(m, gap) => Cov(m)'
  BY <1>11 DEF Cov
<1>13. ASSUME NEW m \in Minutes, Cov(m) PROVE Cov(m)'
  <2>1. CASE m \in bars
    BY <2>1 DEF Cov
  <2>2. CASE \E h \in OpenGaps(gaps) : Inside(m, h)
    <3>1. PICK h \in gaps : h.resolution = "open" /\ Inside(m, h)
      BY <2>2 DEF OpenGaps
    <3>2. CASE SameBounds(h, gap)
      BY <1>12, <3>1, <3>2 DEF SameBounds, Inside
    <3>3. CASE ~SameBounds(h, gap)
      BY <1>3, <1>7, <3>1, <3>3 DEF Cov, OpenGaps
    <3> QED BY <3>2, <3>3
  <2> QED BY <1>13, <2>1, <2>2 DEF Cov
<1>14. ResolvedMeansHeld'
  <2> SUFFICES ASSUME NEW x \in gaps', x.kind = "cadence", x.resolution # "open",
                      NEW m \in Minutes, Inside(m, x)
               PROVE  Cov(m)'
    BY DEF ResolvedMeansHeld, Cov
  <2>1. PICK g \in inserted :
          /\ x.from = g.from /\ x.upto = g.upto /\ x.kind = g.kind
          /\ ~SameBounds(g, gap) => x = g
    BY <1>10
  <2>2. CASE SameBounds(g, gap)
    BY <1>12, <2>1, <2>2 DEF SameBounds, Inside
  <2>3. CASE ~SameBounds(g, gap)
    <3>1. x = g /\ g \in gaps
      BY <1>3, <2>1, <2>3
    <3>2. Cov(m)
      BY <1>1, <3>1 DEF ResolvedMeansHeld, Cov
    <3> QED BY <1>13, <3>2
  <2> QED BY <2>2, <2>3
<1>15. RegistryOK'
  <2>1. ASSUME NEW x \in gaps' PROVE HoleOK(x)' /\ (x.kind = "disconnect" => x.resolution = "open")
    <3>1. PICK g \in inserted :
            /\ x.from = g.from /\ x.upto = g.upto /\ x.kind = g.kind /\ x \in Rows
            /\ SameBounds(g, gap) => x = [g EXCEPT !.resolution = verdict]
            /\ ~SameBounds(g, gap) => x = g
      BY <1>10
    <3>2. HoleOK(g) /\ (g.kind = "disconnect" => g.resolution = "open")
      BY <1>3
    <3>3. HoleOK(x)'
      BY <3>1, <3>2 DEF HoleOK
    <3>4. x.kind = "disconnect" => x.resolution = "open"
      BY <1>9, <3>1, <3>2
    <3> QED BY <3>3, <3>4
  <2>2. ASSUME NEW x \in gaps', NEW y \in gaps', SameBounds(x, y) PROVE x = y
    <3>1. PICK g \in inserted :
            /\ x.from = g.from /\ x.upto = g.upto
            /\ SameBounds(g, gap) => x = [g EXCEPT !.resolution = verdict]
            /\ ~SameBounds(g, gap) => x = g
      BY <1>10
    <3>2. PICK h \in inserted :
            /\ y.from = h.from /\ y.upto = h.upto
            /\ SameBounds(h, gap) => y = [h EXCEPT !.resolution = verdict]
            /\ ~SameBounds(h, gap) => y = h
      BY <1>10
    <3>3. g = h
      BY <1>3, <2>2, <3>1, <3>2, ZenonT(30) DEF Distinct, SameBounds
    <3> QED BY <3>1, <3>2, <3>3
  <2> QED BY <2>1, <2>2 DEF RegistryOK
<1>16. ASSUME NEW h \in gaps PROVE \E x \in gaps' : SameBounds(x, h) /\ x.kind = h.kind
  <2>1. h \in inserted
    BY <1>3
  <2>2. CASE SameBounds(h, gap)
    BY <1>5, <1>8, <2>1, <2>2 DEF SameBounds
  <2>3. CASE ~SameBounds(h, gap)
    BY <1>7, <2>1, <2>3 DEF SameBounds
  <2> QED BY <2>2, <2>3
<1> QED BY <1>13, <1>14, <1>15, <1>16 DEF NothingForgotten

-----------------------------------------------------------------------------
(* What the other conjuncts keep when the registry advances.               *)
LEMMA RepairStays ==
  ASSUME now \in Nat, now' \in Nat, now <= now', bars \subseteq bars', NothingForgotten,
         NEW p, RepairOK(p)
  PROVE  RepairOK(p)'
<1>1. ASSUME NEW g, Taken(g) PROVE Taken(g)'
  <2>1. HoleOK(g)'
    BY <1>1, RowsAge DEF Taken
  <2>2. \E h \in gaps' : SameBounds(h, g) /\ h.kind = "cadence"
    <3>1. PICK h \in gaps : SameBounds(h, g) /\ h.kind = "cadence"
      BY <1>1 DEF Taken
    <3>2. PICK x \in gaps' : SameBounds(x, h) /\ x.kind = h.kind
      BY DEF NothingForgotten
    <3> QED BY <3>1, <3>2 DEF SameBounds
  <2> QED BY <1>1, <2>1, <2>2 DEF Taken
<1>2. CASE p = Idle
  BY <1>2 DEF RepairOK
<1>3. CASE /\ p = [stage |-> "next", queue |-> p.queue]
           /\ \A g \in p.queue : Taken(g)
  <2>1. \A g \in p.queue : Taken(g)'
    BY <1>1, <1>3
  <2> QED BY <1>3, <2>1 DEF RepairOK
<1>4. CASE /\ p = [stage |-> p.stage, queue |-> p.queue, gap |-> p.gap, inside |-> p.inside]
           /\ p.stage \in {"write", "resolve"}
           /\ \A g \in p.queue : Taken(g)
           /\ Taken(p.gap) /\ p.inside \subseteq 0 .. now
           /\ p.stage = "resolve" => p.inside \subseteq bars
  <2>1. (\A g \in p.queue : Taken(g)') /\ Taken(p.gap)'
    BY <1>1, <1>4
  <2>2. p.inside \subseteq 0 .. now' /\ (p.stage = "resolve" => p.inside \subseteq bars')
    BY <1>4
  <2> QED BY <1>4, <2>1, <2>2 DEF RepairOK
<1> QED BY <1>2, <1>3, <1>4 DEF RepairOK

LEMMA RepairsStay ==
  ASSUME now \in Nat, now' \in Nat, now <= now', bars \subseteq bars', NothingForgotten,
         RepairsOK, repair' = repair
  PROVE  RepairsOK'
<1>1. ASSUME NEW r \in Repairers PROVE RepairOK(repair[r])'
  <2>1. PICK p : p = repair[r]
    OBVIOUS
  <2>2. RepairOK(p)
    BY <2>1 DEF RepairsOK
  <2>3. RepairOK(p)'
    BY <2>2, RepairStays
  <2> QED BY <2>1, <2>3 DEF RepairOK
<1> QED BY <1>1 DEF RepairsOK

(* A repair that moved to step p of its own.                               *)
LEMMA RepairMoves ==
  ASSUME now \in Nat, now' \in Nat, now <= now', bars \subseteq bars', NothingForgotten, RepairsOK,
         NEW r \in Repairers, NEW p, RepairOK(p)', repair' = [repair EXCEPT ![r] = p]
  PROVE  RepairsOK'
<1>1. ASSUME NEW q \in Repairers PROVE RepairOK(repair[q])'
  <2>1. PICK x : x = repair'[q]
    OBVIOUS
  <2>2. CASE q = r
    BY <2>1, <2>2 DEF RepairOK, RepairsOK
  <2>3. CASE q # r
    <3>1. x = repair[q]
      BY <2>1, <2>3 DEF RepairsOK
    <3>2. RepairOK(x)
      BY <3>1 DEF RepairsOK
    <3>3. RepairOK(x)'
      BY <3>2, RepairStays
    <3> QED BY <2>1, <3>3 DEF RepairOK
  <2> QED BY <2>2, <2>3
<1> QED BY <1>1 DEF RepairsOK

(* The rows waiting to be written stay open and past.                      *)
LEMMA PendingStays ==
  ASSUME now \in Nat, now' \in Nat, now <= now', PendingOK,
         opening' \in {opening, {}}, report' \in {report, {}}
  PROVE  PendingOK'
  BY RowsAge DEF PendingOK, Fresh, Distinct, SameBounds

(* What was on record stays on record while the watermark stands.          *)
LEMMA HolesStay ==
  ASSUME LiveInv, NothingForgotten, watermark' = watermark, expected' = expected,
         arriving' = arriving \/ arriving \in bars' \cup {None},
         \A g \in report : \/ g \in report'
                           \/ \A m \in Minutes : Inside(m, g) => Cov(m)'
  PROVE  HolesRecorded'
<1> SUFFICES ASSUME NEW m \in expected, m <= watermark
             PROVE  m = arriving' \/ Cov(m)' \/ \E g \in report' : Inside(m, g)
  BY DEF HolesRecorded, OnRecord, Cov
<1>1. m \in Minutes
  BY DEF LiveInv, SessionOK
<1>2. m \in bars \/ m = arriving \/ \E g \in OpenGaps(gaps) \cup report : Inside(m, g)
  BY DEF LiveInv, HolesRecorded, OnRecord
<1>3. CASE m \in bars \/ \E g \in OpenGaps(gaps) : Inside(m, g)
  BY <1>1, <1>3 DEF NothingForgotten, Cov
<1>4. CASE m = arriving
  BY <1>1, <1>4 DEF Cov
<1>5. CASE \E g \in report : Inside(m, g)
  BY <1>1, <1>5
<1> QED BY <1>2, <1>3, <1>4, <1>5

-----------------------------------------------------------------------------
(* The steps of the clock, the session and its poller.                     *)
LEMMA TickKeeps == LiveInv /\ Tick => LiveInv'
<1> SUFFICES ASSUME LiveInv, Tick PROVE LiveInv'
  OBVIOUS
<1>1. /\ now \in Nat /\ now' \in Minutes /\ now <= now' /\ now' = now + 1 /\ now' \in 1 .. MaxNow
      /\ gaps' = gaps /\ bars' = bars /\ repair' = repair
      /\ UNCHANGED <<session, watermark, observed, lastBar, droppedAt, arriving, opening, report,
                     expected>>
  BY DEF Tick, liveState, LiveInv, SessionOK
<1>2. NothingForgotten
  BY <1>1, RegistryStays
<1>3. RepairsOK'
  BY <1>1, <1>2, RepairsStay DEF LiveInv
<1>4. PendingOK'
  BY <1>1, PendingStays DEF LiveInv
<1>5. SessionOK' /\ SeenIsKept'
  BY <1>1 DEF LiveInv, SessionOK, SeenIsKept
<1>6. HolesRecorded'
  BY <1>1, <1>2, HolesStay
<1> QED BY <1>2, <1>3, <1>4, <1>5, <1>6 DEF LiveInv, NothingForgotten

LEMMA BootKeeps == LiveInv /\ BootLive => LiveInv'
<1> SUFFICES ASSUME LiveInv, BootLive PROVE LiveInv'
  OBVIOUS
<1>1. /\ now \in 1 .. MaxNow /\ now' = now /\ now' \in Minutes /\ gaps' = gaps /\ bars' = bars
      /\ repair' = repair /\ session = "off" /\ session' = "connecting"
      /\ watermark' = now - 1
      /\ UNCHANGED <<observed, lastBar, droppedAt, arriving, opening, report, expected>>
  BY DEF BootLive, LiveInv, SessionOK
<1>2. NothingForgotten
  BY <1>1, RegistryStays
<1>3. RepairsOK'
  BY <1>1, <1>2, RepairsStay DEF LiveInv
<1>4. PendingOK'
  BY <1>1, PendingStays DEF LiveInv
<1>5. SessionOK' /\ SeenIsKept'
  BY <1>1 DEF LiveInv, SessionOK, SeenIsKept
<1>6. HolesRecorded'
  BY <1>1 DEF LiveInv, SessionOK, HolesRecorded
<1> QED BY <1>2, <1>3, <1>4, <1>5, <1>6 DEF LiveInv, NothingForgotten

LEMMA ConnectKeeps == LiveInv /\ Connect => LiveInv'
<1> SUFFICES ASSUME LiveInv, Connect PROVE LiveInv'
  OBVIOUS
<1>1. /\ now \in 1 .. MaxNow /\ now' = now /\ now' \in Minutes /\ gaps' = gaps /\ bars' = bars
      /\ repair' = repair /\ session = "connecting" /\ session' = "live" /\ droppedAt' = None
      /\ droppedAt \in Minutes \cup {None} /\ (droppedAt = None \/ droppedAt < now)
      /\ opening' = IF droppedAt = None THEN {} ELSE {Gap(droppedAt, now, "disconnect", 0)}
      /\ expected' = {m \in Minutes : m > watermark} \ observed
      /\ UNCHANGED <<watermark, observed, lastBar, arriving, report>>
  BY DEF Connect, LiveInv, SessionOK
<1>2. NothingForgotten
  BY <1>1, RegistryStays
<1>3. RepairsOK'
  BY <1>1, <1>2, RepairsStay DEF LiveInv
<1>4. PendingOK'
  <2>1. Fresh(opening') /\ Distinct(opening')
    <3>1. CASE droppedAt = None
      BY <1>1, <3>1 DEF Fresh, Distinct
    <3>2. CASE droppedAt # None
      <4>1. PICK g : g = Gap(droppedAt, now, "disconnect", 0)
        OBVIOUS
      <4>2. opening' = {g}
        BY <1>1, <3>2, <4>1
      <4>3. droppedAt \in Nat /\ droppedAt < now
        BY <1>1, <3>2
      <4>4. "disconnect" \in GapKinds /\ "open" \in Resolutions
        BY DEF GapKinds, Resolutions
      <4>5. HoleOK(g) /\ g.resolution = "open"
        BY <1>1, <4>1, <4>3, <4>4 DEF Gap, HoleOK, Rows
      <4> QED BY <4>2, <4>5 DEF Fresh, Distinct
    <3> QED BY <3>1, <3>2
  <2> QED BY <1>1, <2>1 DEF LiveInv, PendingOK, Fresh, Distinct, HoleOK
<1>5. SessionOK' /\ SeenIsKept'
  BY <1>1 DEF LiveInv, SessionOK, SeenIsKept
<1>6. HolesRecorded'
  BY <1>1 DEF LiveInv, SessionOK, HolesRecorded
<1> QED BY <1>2, <1>3, <1>4, <1>5, <1>6 DEF LiveInv, NothingForgotten

LEMMA OpeningKeeps == LiveInv /\ WriteOpening => LiveInv'
<1> SUFFICES ASSUME LiveInv, WriteOpening PROVE LiveInv'
  OBVIOUS
<1>1. /\ now \in 1 .. MaxNow /\ now' = now /\ now' \in Minutes /\ gaps' = InsertGaps(gaps, opening)
      /\ bars' = bars /\ repair' = repair /\ Streaming /\ opening' = {}
      /\ UNCHANGED <<session, watermark, observed, lastBar, droppedAt, arriving, report,
                     expected>>
  BY DEF WriteOpening, LiveInv, SessionOK
<1>2. Fresh(opening) /\ Distinct(opening)
  BY DEF LiveInv, PendingOK
<1>3. NothingForgotten
  BY <1>1, <1>2, RegistryInserts
<1>4. RepairsOK'
  BY <1>1, <1>3, RepairsStay DEF LiveInv
<1>5. PendingOK'
  BY <1>1, PendingStays DEF LiveInv
<1>6. SessionOK' /\ SeenIsKept'
  BY <1>1 DEF LiveInv, SessionOK, SeenIsKept, Streaming
<1>7. HolesRecorded'
  BY <1>1, <1>3, HolesStay
<1> QED BY <1>3, <1>4, <1>5, <1>6, <1>7 DEF LiveInv, NothingForgotten

LEMMA RouteKeeps ==
  ASSUME LiveInv, NEW m \in Minutes, RouteKline(m)
  PROVE  LiveInv'
<1>1. /\ now \in 1 .. MaxNow /\ now' = now /\ now' \in Minutes /\ gaps' = gaps /\ bars' = bars
      /\ repair' = repair /\ Streaming /\ arriving = None /\ arriving' = m /\ m < now
      /\ observed' = IF m > watermark THEN observed \cup {m} ELSE observed
      /\ lastBar' = IF lastBar = None \/ lastBar < m THEN m ELSE lastBar
      /\ UNCHANGED <<session, watermark, droppedAt, opening, report, expected>>
  BY DEF RouteKline, Closed, LiveInv, SessionOK
<1>2. NothingForgotten
  BY <1>1, RegistryStays
<1>3. RepairsOK'
  BY <1>1, <1>2, RepairsStay DEF LiveInv
<1>4. PendingOK'
  BY <1>1, PendingStays DEF LiveInv
<1>5. SessionOK'
  BY <1>1 DEF LiveInv, SessionOK, Streaming
<1>6. SeenIsKept'
  <2>1. None \notin observed
    BY <1>1 DEF LiveInv, SessionOK
  <2> QED BY <1>1, <2>1 DEF LiveInv, SeenIsKept
<1>7. HolesRecorded'
  BY <1>1, <1>2, HolesStay
<1> QED BY <1>2, <1>3, <1>4, <1>5, <1>6, <1>7 DEF LiveInv, NothingForgotten

LEMMA BarKeeps == LiveInv /\ WriteBar => LiveInv'
<1> SUFFICES ASSUME LiveInv, WriteBar PROVE LiveInv'
  OBVIOUS
<1>1. /\ now \in 1 .. MaxNow /\ now' = now /\ now' \in Minutes /\ gaps' = gaps
      /\ bars' = bars \cup {arriving} /\ repair' = repair /\ Streaming
      /\ arriving \in Minutes /\ arriving < now /\ arriving' = None
      /\ UNCHANGED <<session, watermark, observed, lastBar, droppedAt, opening, report,
                     expected>>
  BY DEF WriteBar, InsertBars, LiveInv, SessionOK
<1>2. NothingForgotten
  BY <1>1, RegistryStays
<1>3. RepairsOK'
  BY <1>1, <1>2, RepairsStay DEF LiveInv
<1>4. PendingOK'
  BY <1>1, PendingStays DEF LiveInv
<1>5. SessionOK' /\ SeenIsKept'
  BY <1>1 DEF LiveInv, SessionOK, SeenIsKept, Streaming
<1>6. HolesRecorded'
  BY <1>1, <1>2, HolesStay
<1> QED BY <1>2, <1>3, <1>4, <1>5, <1>6 DEF LiveInv, NothingForgotten

(* The poll settles a minute only when it was seen or is in a row.         *)
LEMMA PollKeeps == LiveInv /\ Poll => LiveInv'
<1> SUFFICES ASSUME LiveInv, Poll PROVE LiveInv'
  OBVIOUS
<1>1. /\ now \in 1 .. MaxNow /\ now' = now /\ now' \in Minutes /\ gaps' = gaps /\ bars' = bars
      /\ repair' = repair /\ session = "live" /\ report = {} /\ Due # {}
      /\ watermark' = now - Grace /\ observed' = observed \ Due
      /\ UNCHANGED <<session, lastBar, droppedAt, arriving, opening, expected>>
  BY DEF Poll, LiveInv, SessionOK
<1>2. /\ watermark \in Minutes /\ now - Grace \in Minutes /\ now - Grace < now
      /\ watermark < now - Grace
  <2>1. PICK m \in Minutes : watermark < m /\ m + Grace <= now
    BY <1>1 DEF Due
  <2> QED BY <1>1, <2>1 DEF LiveInv, SessionOK
<1>3. PICK missing : missing = Due \ observed
  OBVIOUS
<1>4. report' = RowsOfRuns(missing, watermark + 1, now - Grace, "cadence")
  BY <1>3 DEF Poll, PollFinds, RowsOfRuns
<1>5. /\ Fresh(report') /\ Distinct(report')
      /\ \A m \in watermark + 1 .. now - Grace : m \in missing => \E g \in report' : Inside(m, g)
  <2>1. watermark + 1 \in Nat /\ now - Grace \in Nat /\ now \in Nat
    BY <1>1, <1>2
  <2> QED BY <1>2, <1>4, <2>1, RunsMakeRows
<1>6. NothingForgotten
  BY <1>1, RegistryStays
<1>7. RepairsOK'
  BY <1>1, <1>6, RepairsStay DEF LiveInv
<1>8. PendingOK'
  BY <1>1, <1>5 DEF LiveInv, PendingOK, Fresh, Distinct, HoleOK
<1>9. SessionOK' /\ SeenIsKept'
  <2>1. observed' \subseteq watermark' + 1 .. now'
    <3> SUFFICES ASSUME NEW x \in observed, x \notin Due PROVE x \in now - Grace + 1 .. now
      BY <1>1
    <3>1. x \in watermark + 1 .. now
      BY DEF LiveInv, SessionOK
    <3> QED BY <1>1, <1>2, <3>1 DEF Due
  <2> QED BY <1>1, <1>2, <2>1 DEF LiveInv, SessionOK, SeenIsKept
<1>10. HolesRecorded'
  <2> SUFFICES ASSUME NEW m \in expected, m <= now - Grace
               PROVE  \/ m \in bars \/ m = arriving
                      \/ \E g \in OpenGaps(gaps) \cup report' : Inside(m, g)
    BY <1>1 DEF HolesRecorded, OnRecord
  <2>1. CASE m <= watermark
    BY <1>1, <2>1 DEF LiveInv, HolesRecorded, OnRecord
  <2>2. CASE watermark < m
    <3>1. m \in Minutes
      BY DEF LiveInv, SessionOK
    <3>2. m \in watermark + 1 .. now - Grace /\ m \in Due
      BY <1>1, <1>2, <2>2, <3>1 DEF Due
    <3>3. CASE m \in observed
      BY <3>3 DEF LiveInv, SeenIsKept
    <3>4. CASE m \notin observed
      BY <1>3, <1>5, <3>2, <3>4
    <3> QED BY <3>3, <3>4
  <2>3. m \in Nat /\ watermark \in Nat
    BY <1>2 DEF LiveInv, SessionOK
  <2> QED BY <2>1, <2>2, <2>3
<1> QED BY <1>6, <1>7, <1>8, <1>9, <1>10 DEF LiveInv, NothingForgotten

LEMMA ReportKeeps == LiveInv /\ WriteReport => LiveInv'
<1> SUFFICES ASSUME LiveInv, WriteReport PROVE LiveInv'
  OBVIOUS
<1>1. /\ now \in 1 .. MaxNow /\ now' = now /\ now' \in Minutes /\ gaps' = InsertGaps(gaps, report)
      /\ bars' = bars /\ repair' = repair /\ session = "live" /\ report' = {}
      /\ UNCHANGED <<session, watermark, observed, lastBar, droppedAt, arriving, opening,
                     expected>>
  BY DEF WriteReport, LiveInv, SessionOK
<1>2. Fresh(report) /\ Distinct(report)
  BY DEF LiveInv, PendingOK
<1>3. NothingForgotten /\ \A m \in Minutes, g \in report : Inside(m, g) => Cov(m)'
  BY <1>1, <1>2, RegistryInserts
<1>4. RepairsOK'
  BY <1>1, <1>3, RepairsStay DEF LiveInv
<1>5. PendingOK'
  BY <1>1, PendingStays DEF LiveInv
<1>6. SessionOK' /\ SeenIsKept'
  BY <1>1 DEF LiveInv, SessionOK, SeenIsKept
<1>7. HolesRecorded'
  BY <1>1, <1>3, HolesStay
<1> QED BY <1>3, <1>4, <1>5, <1>6, <1>7 DEF LiveInv, NothingForgotten

(* No session stands after these, and none has anything to account for.    *)
LEMMA FailedConnectKeeps == LiveInv /\ FailConnect => LiveInv'
<1> SUFFICES ASSUME LiveInv, FailConnect PROVE LiveInv'
  OBVIOUS
<1>1. /\ now \in 1 .. MaxNow /\ now' = now /\ now' \in Minutes /\ gaps' = gaps /\ bars' = bars
      /\ repair' = repair
      /\ session = "connecting" /\ droppedAt' \in {droppedAt, lastBar, now}
      /\ UNCHANGED <<session, watermark, observed, lastBar, arriving, opening, report,
                     expected>>
  BY DEF FailConnect, OutageFrom, LiveInv, SessionOK
<1>2. NothingForgotten
  BY <1>1, RegistryStays
<1>3. RepairsOK'
  BY <1>1, <1>2, RepairsStay DEF LiveInv
<1>4. PendingOK'
  BY <1>1, PendingStays DEF LiveInv
<1>5. SessionOK' /\ SeenIsKept'
  BY <1>1 DEF LiveInv, SessionOK, SeenIsKept
<1>6. HolesRecorded'
  BY <1>1 DEF LiveInv, SessionOK, HolesRecorded
<1> QED BY <1>2, <1>3, <1>4, <1>5, <1>6 DEF LiveInv, NothingForgotten

LEMMA DropKeeps == LiveInv /\ Drop => LiveInv'
<1> SUFFICES ASSUME LiveInv, Drop PROVE LiveInv'
  OBVIOUS
<1>1. /\ now \in 1 .. MaxNow /\ now' = now /\ now' \in Minutes /\ gaps' = gaps /\ bars' = bars
      /\ repair' = repair
      /\ session' = "connecting" /\ droppedAt' \in {droppedAt, lastBar, now}
      /\ arriving' = None /\ opening' = {} /\ report' = {} /\ expected' = {}
      /\ UNCHANGED <<watermark, observed, lastBar>>
  BY DEF Drop, OutageFrom, LiveInv, SessionOK
<1>2. NothingForgotten
  BY <1>1, RegistryStays
<1>3. RepairsOK'
  BY <1>1, <1>2, RepairsStay DEF LiveInv
<1>4. PendingOK'
  BY <1>1, PendingStays DEF LiveInv
<1>5. SessionOK' /\ SeenIsKept'
  BY <1>1 DEF LiveInv, SessionOK, SeenIsKept
<1>6. HolesRecorded'
  BY <1>1 DEF LiveInv, SessionOK, HolesRecorded
<1> QED BY <1>2, <1>3, <1>4, <1>5, <1>6 DEF LiveInv, NothingForgotten

LEMMA PollerFailKeeps == LiveInv /\ PollerFails => LiveInv'
<1> SUFFICES ASSUME LiveInv, PollerFails PROVE LiveInv'
  OBVIOUS
<1>1. /\ now \in 1 .. MaxNow /\ now' = now /\ now' \in Minutes /\ gaps' = gaps /\ bars' = bars
      /\ repair' = repair
      /\ session' = "unpolled" /\ report' = {} /\ expected' = {}
      /\ UNCHANGED <<watermark, observed, lastBar, droppedAt, arriving, opening>>
  BY DEF PollerFails, LiveInv, SessionOK
<1>2. NothingForgotten
  BY <1>1, RegistryStays
<1>3. RepairsOK'
  BY <1>1, <1>2, RepairsStay DEF LiveInv
<1>4. PendingOK'
  BY <1>1, PendingStays DEF LiveInv
<1>5. SessionOK' /\ SeenIsKept'
  BY <1>1 DEF LiveInv, SessionOK, SeenIsKept
<1>6. HolesRecorded'
  BY <1>1 DEF LiveInv, SessionOK, HolesRecorded
<1> QED BY <1>2, <1>3, <1>4, <1>5, <1>6 DEF LiveInv, NothingForgotten

LEMMA DieKeeps == LiveInv /\ Die => LiveInv'
<1> SUFFICES ASSUME LiveInv, Die PROVE LiveInv'
  OBVIOUS
<1>1. /\ now \in 1 .. MaxNow /\ now' = now /\ now' \in Minutes /\ gaps' = gaps /\ bars' = bars
      /\ repair' = repair /\ session' = "off" /\ watermark' = 0 /\ observed' = {}
      /\ lastBar' = None /\ droppedAt' = None /\ arriving' = None /\ opening' = {}
      /\ report' = {} /\ expected' = {}
  BY DEF Die, LiveInv, SessionOK
<1>2. NothingForgotten
  BY <1>1, RegistryStays
<1>3. RepairsOK'
  BY <1>1, <1>2, RepairsStay DEF LiveInv
<1>4. PendingOK'
  BY <1>1, PendingStays DEF LiveInv
<1>5. SessionOK' /\ SeenIsKept'
  BY <1>1 DEF LiveInv, SessionOK, SeenIsKept
<1>6. HolesRecorded'
  BY <1>1 DEF HolesRecorded
<1> QED BY <1>2, <1>3, <1>4, <1>5, <1>6 DEF LiveInv, NothingForgotten

-----------------------------------------------------------------------------
(* The steps of a repair pass; the session stands still.                   *)
SessionStands ==
  UNCHANGED <<now, session, watermark, observed, lastBar, droppedAt, arriving, opening, report,
              expected>>

LEMMA PassKeeps ==
  ASSUME LiveInv, SessionStands, bars \subseteq bars', bars' \subseteq 0 .. now,
         NothingForgotten, RepairsOK'
  PROVE  LiveInv'
<1>1. /\ now \in 1 .. MaxNow /\ now' = now
      /\ UNCHANGED <<session, watermark, observed, lastBar, droppedAt, arriving, opening, report,
                     expected>>
  BY DEF SessionStands, LiveInv, SessionOK
<1>2. PendingOK'
  BY <1>1, PendingStays DEF LiveInv
<1>3. SessionOK' /\ SeenIsKept'
  BY <1>1 DEF LiveInv, SessionOK, SeenIsKept
<1>4. HolesRecorded'
  BY <1>1, HolesStay
<1> QED BY <1>2, <1>3, <1>4 DEF LiveInv, NothingForgotten

LEMMA BeginKeeps ==
  ASSUME LiveInv, NEW r \in Repairers, BeginPass(r)
  PROVE  LiveInv'
<1>1. /\ SessionStands /\ now \in 1 .. MaxNow /\ now' = now /\ now' \in Minutes
      /\ gaps' = gaps /\ bars' = bars /\ bars \subseteq 0 .. now
  BY DEF BeginPass, liveState, SessionStands, LiveInv, SessionOK
<1>2. PICK p : p = [stage |-> "next", queue |-> Repairable(gaps)]
  OBVIOUS
<1>3. repair' = [repair EXCEPT ![r] = p]
  BY <1>2 DEF BeginPass
<1>4. NothingForgotten
  BY <1>1, RegistryStays
<1>5. RepairOK(p)'
  <2>1. p = [stage |-> "next", queue |-> p.queue] /\ p.queue = Repairable(gaps)
    BY <1>2
  <2>2. ASSUME NEW g \in p.queue PROVE Taken(g)'
    <3>1. g \in gaps /\ g.kind \in {"cadence", "seam"}
      BY <2>1 DEF Repairable, OpenGaps
    <3>2. HoleOK(g) /\ g.kind = "cadence"
      BY <3>1 DEF LiveInv, RegistryOK, HoleOK
    <3> QED BY <1>1, <3>1, <3>2 DEF Taken, HoleOK, SameBounds
  <2> QED BY <2>1, <2>2 DEF RepairOK
<1>6. RepairsOK'
  <2>1. RepairsOK /\ now \in Nat /\ now' \in Nat /\ now <= now' /\ bars \subseteq bars'
    BY <1>1, <1>3 DEF LiveInv
  <2> QED BY <1>1, <1>3, <1>4, <1>5, <2>1, RepairMoves
<1> QED BY <1>1, <1>4, <1>6, PassKeeps

LEMMA FetchKeeps ==
  ASSUME LiveInv, NEW r \in Repairers, NEW served \in SUBSET Minutes, Fetch(r, served)
  PROVE  LiveInv'
<1>1. /\ SessionStands /\ now \in 1 .. MaxNow /\ now' = now /\ now' \in Minutes
      /\ gaps' = gaps /\ bars' = bars /\ bars \subseteq 0 .. now
  BY DEF Fetch, liveState, SessionStands, LiveInv, SessionOK
<1>2. PICK q : q = repair[r]
  OBVIOUS
<1>3. q.stage = "next" /\ q.queue # {} /\ \A g \in q.queue : Taken(g)
  BY <1>2 DEF Fetch, LiveInv, RepairsOK, RepairOK, Idle
<1>4. PICK gap : gap = CHOOSE g \in q.queue : \A h \in q.queue : g.from <= h.from
  OBVIOUS
<1>5. gap \in q.queue
  <2> DEFINE Starts == {g.from : g \in q.queue}
  <2>1. Starts \in SUBSET Nat /\ Starts # {}
    BY <1>3 DEF Taken, HoleOK, Rows
  <2>2. PICK x \in Starts : \A y \in Starts : x <= y
    <3> HIDE DEF Starts
    <3> QED BY <2>1, LeastExists
  <2>3. \E g \in q.queue : \A h \in q.queue : g.from <= h.from
    BY <2>2
  <2> QED BY <1>4, <2>3
<1>6. PICK p : p = [stage |-> "write", queue |-> q.queue \ {gap}, gap |-> gap,
                    inside |-> {m \in Merged(bars, served) : Inside(m, gap)}]
  OBVIOUS
<1>7. repair' = [repair EXCEPT ![r] = p] /\ served \subseteq CanServe(gap)
  BY <1>2, <1>4, <1>6 DEF Fetch
<1>8. NothingForgotten
  BY <1>1, RegistryStays
<1>9. RepairOK(p)
  <2>1. /\ p = [stage |-> p.stage, queue |-> p.queue, gap |-> p.gap, inside |-> p.inside]
        /\ p.stage = "write" /\ p.gap = gap /\ p.queue = q.queue \ {gap}
        /\ p.inside = {m \in Merged(bars, served) : Inside(m, gap)}
    BY <1>6
  <2>2. p.inside \subseteq 0 .. now
    BY <1>1, <1>7, <2>1 DEF Merged, CanServe, Closed
  <2> QED BY <1>3, <1>5, <2>1, <2>2 DEF RepairOK
<1>10. RepairOK(p)'
  BY <1>1, <1>8, <1>9, RepairStays
<1>11. RepairsOK'
  <2>1. RepairsOK /\ now \in Nat /\ now' \in Nat /\ now <= now' /\ bars \subseteq bars'
    BY <1>1, <1>7 DEF LiveInv
  <2> QED BY <1>1, <1>7, <1>8, <1>10, <2>1, RepairMoves
<1> QED BY <1>1, <1>8, <1>11, PassKeeps

LEMMA RecoveredKeeps ==
  ASSUME LiveInv, NEW r \in Repairers, WriteRecovered(r)
  PROVE  LiveInv'
<1>1. /\ SessionStands /\ now \in 1 .. MaxNow /\ now' = now /\ now' \in Minutes
      /\ gaps' = gaps /\ bars \subseteq 0 .. now
  BY DEF WriteRecovered, liveState, SessionStands, LiveInv, SessionOK
<1>2. PICK q : q = repair[r]
  OBVIOUS
<1>3. /\ q = [stage |-> q.stage, queue |-> q.queue, gap |-> q.gap, inside |-> q.inside]
      /\ \A g \in q.queue : Taken(g)
      /\ Taken(q.gap) /\ q.inside \subseteq 0 .. now
  BY <1>2 DEF WriteRecovered, LiveInv, RepairsOK, RepairOK, Idle
<1>4. PICK p : p = [q EXCEPT !.stage = "resolve"]
  OBVIOUS
<1>5. repair' = [repair EXCEPT ![r] = p] /\ bars' = bars \cup q.inside
  BY <1>2, <1>4 DEF WriteRecovered, InsertBars
<1>6. NothingForgotten
  BY <1>1, <1>5, RegistryStays
<1>7. RepairOK(p)'
  <2>1. /\ p = [stage |-> p.stage, queue |-> p.queue, gap |-> p.gap, inside |-> p.inside]
        /\ p.stage = "resolve" /\ p.queue = q.queue /\ p.gap = q.gap /\ p.inside = q.inside
    BY <1>3, <1>4
  <2>2. (\A g \in p.queue : Taken(g)') /\ Taken(p.gap)'
    BY <1>1, <1>3, <2>1 DEF Taken, HoleOK
  <2> QED BY <1>1, <1>3, <1>5, <2>1, <2>2 DEF RepairOK
<1>8. RepairsOK'
  <2>1. RepairsOK /\ now \in Nat /\ now' \in Nat /\ now <= now' /\ bars \subseteq bars'
    BY <1>1, <1>5 DEF LiveInv
  <2> QED BY <1>1, <1>5, <1>6, <1>7, <2>1, RepairMoves
<1> QED BY <1>1, <1>3, <1>5, <1>6, <1>8, PassKeeps

LEMMA EndLiveKeeps ==
  ASSUME LiveInv, NEW r \in Repairers, EndPass(r)
  PROVE  LiveInv'
<1>1. /\ SessionStands /\ now \in 1 .. MaxNow /\ now' = now /\ now' \in Minutes
      /\ gaps' = gaps /\ bars' = bars /\ bars \subseteq 0 .. now
      /\ repair' = [repair EXCEPT ![r] = Idle]
  BY DEF EndPass, liveState, SessionStands, LiveInv, SessionOK
<1>2. NothingForgotten
  BY <1>1, RegistryStays
<1>3. RepairOK(Idle)'
  BY DEF RepairOK
<1>4. RepairsOK'
  <2>1. RepairsOK /\ now \in Nat /\ now' \in Nat /\ now <= now' /\ bars \subseteq bars'
    BY <1>1 DEF LiveInv
  <2> QED BY <1>1, <1>2, <1>3, <2>1, RepairMoves
<1> QED BY <1>1, <1>2, <1>4, PassKeeps

(* The residuals hold every minute of the row that is still missing.       *)
LEMMA ResidualsCover ==
  ASSUME now \in Nat, NEW gap, HoleOK(gap), gap.kind = "cadence", now <= MaxNow,
         NEW inside, inside \subseteq bars,
         NEW left, left = Residuals(gap, inside)
  PROVE  /\ Fresh(left) /\ Distinct(left) /\ \A r \in left : r.kind = "cadence"
         /\ \A m \in Minutes : Inside(m, gap) => m \in bars \/ \E r \in left : Inside(m, r)
<1>1. /\ gap.from \in Nat /\ gap.upto - 1 \in Nat /\ gap.upto - 1 < now /\ gap.upto \in Nat
      /\ gap.from < gap.upto
  BY DEF HoleOK, Rows
<1>2. PICK missing : missing = {m \in Minutes : Inside(m, gap)} \ inside
  OBVIOUS
<1>3. left = RowsOfRuns(missing, gap.from, gap.upto - 1, "cadence")
  BY <1>2 DEF Residuals, RowsOfRuns
<1>4. /\ Fresh(left) /\ Distinct(left) /\ \A r \in left : r.kind = "cadence"
      /\ \A m \in gap.from .. gap.upto - 1 : m \in missing => \E g \in left : Inside(m, g)
  <2>1. PICK first \in Nat, last \in Nat : first = gap.from /\ last = gap.upto - 1
    BY <1>1
  <2>2. left = RowsOfRuns(missing, first, last, "cadence") /\ last < now
    BY <1>1, <1>3, <2>1
  <2>3. "cadence" \in {"cadence", "disconnect"}
    OBVIOUS
  <2>4. Fresh(RowsOfRuns(missing, first, last, "cadence"))
    BY <2>2, <2>3, RunsMakeRows
  <2>5. Distinct(RowsOfRuns(missing, first, last, "cadence"))
    BY <2>2, <2>3, RunsMakeRows
  <2>6. ASSUME NEW g \in left PROVE g.kind = "cadence"
    BY <2>2, <2>3, RunsMakeRows, Zenon
  <2>7. ASSUME NEW m \in first .. last, m \in missing PROVE \E g \in left : Inside(m, g)
    BY <2>2, <2>3, <2>7, RunsMakeRows
  <2> QED BY <2>1, <2>2, <2>4, <2>5, <2>6, <2>7
<1>5. ASSUME NEW m \in Minutes, Inside(m, gap) PROVE m \in bars \/ \E r \in left : Inside(m, r)
  <2>1. m \in gap.from .. gap.upto - 1
    BY <1>1, <1>5 DEF Inside
  <2>2. m \in inside \/ m \in missing
    BY <1>2, <1>5
  <2> QED BY <1>4, <2>1, <2>2
<1> QED BY <1>4, <1>5

LEMMA ResolveHoleKeeps ==
  ASSUME LiveInv, NEW r \in Repairers, ResolveRow(r)
  PROVE  LiveInv'
<1>1. /\ SessionStands /\ now \in 1 .. MaxNow /\ now' = now /\ now' \in Minutes
      /\ bars' = bars /\ bars \subseteq 0 .. now /\ now <= MaxNow /\ now \in Nat
  BY DEF ResolveRow, liveState, SessionStands, LiveInv, SessionOK
<1>2. PICK q : q = repair[r]
  OBVIOUS
<1>3. (\A g \in q.queue : Taken(g)) /\ Taken(q.gap) /\ q.inside \subseteq bars
  BY <1>2 DEF ResolveRow, LiveInv, RepairsOK, RepairOK, Idle
<1>4. PICK left : left = Residuals(q.gap, q.inside)
  OBVIOUS
<1>5. PICK p : p \in {Idle, [stage |-> "next", queue |-> q.queue]}
               /\ repair' = [repair EXCEPT ![r] = p]
               /\ \/ gaps' = gaps
                  \/ CanResolve(gaps, q.gap, left) /\ gaps' = Resolved(gaps, q.gap, left)
  BY <1>2, <1>4 DEF ResolveRow
<1>6. /\ Fresh(left) /\ Distinct(left) /\ \A g \in left : g.kind = "cadence"
      /\ \A m \in Minutes : Inside(m, q.gap) => m \in bars \/ \E g \in left : Inside(m, g)
  <2>1. HoleOK(q.gap) /\ q.gap.kind = "cadence"
    BY <1>3 DEF Taken
  <2> QED BY <1>1, <1>3, <1>4, <2>1, ResidualsCover
<1>7. NothingForgotten
  <2>1. CASE gaps' = gaps
    BY <1>1, <2>1, RegistryStays
  <2>2. CASE CanResolve(gaps, q.gap, left) /\ gaps' = Resolved(gaps, q.gap, left)
    <3>1. PICK gap : gap = q.gap
      OBVIOUS
    <3> QED BY <1>1, <1>3, <1>6, <2>2, <3>1, RowResolves
  <2> QED BY <1>5, <2>1, <2>2
<1>8. RepairOK(p)
  <2>1. CASE p = Idle
    BY <2>1 DEF RepairOK
  <2>2. CASE p = [stage |-> "next", queue |-> q.queue]
    BY <1>3, <2>2 DEF RepairOK
  <2> QED BY <1>5, <2>1, <2>2
<1>9. RepairsOK'
  <2>1. RepairsOK /\ now \in Nat /\ now' \in Nat /\ now <= now' /\ bars \subseteq bars'
    BY <1>1 DEF LiveInv
  <2>2. RepairOK(p)'
    BY <1>7, <1>8, <2>1, RepairStays
  <2> QED BY <1>5, <1>7, <2>1, <2>2, RepairMoves
<1> QED BY <1>1, <1>7, <1>9, PassKeeps

-----------------------------------------------------------------------------
LEMMA LiveStarts == LiveInit => LiveInv
<1> SUFFICES ASSUME LiveInit PROVE LiveInv
  OBVIOUS
<1>1. SessionOK /\ SeenIsKept
  BY DEF LiveInit, SessionOK, SeenIsKept
<1>2. RegistryOK /\ PendingOK /\ HolesRecorded /\ ResolvedMeansHeld
  BY DEF LiveInit, RegistryOK, PendingOK, Fresh, Distinct, HolesRecorded, ResolvedMeansHeld
<1>3. RepairsOK
  BY DEF LiveInit, RepairsOK, RepairOK
<1> QED BY <1>1, <1>2, <1>3 DEF LiveInv

LEMMA LiveKept == LiveInv /\ [LiveNext]_liveVars => LiveInv'
<1> SUFFICES ASSUME LiveInv, [LiveNext]_liveVars PROVE LiveInv'
  OBVIOUS
<1>1. CASE Tick
  BY <1>1, TickKeeps
<1>2. CASE BootLive
  BY <1>2, BootKeeps
<1>3. CASE Connect
  BY <1>3, ConnectKeeps
<1>4. CASE WriteOpening
  BY <1>4, OpeningKeeps
<1>5. CASE WriteBar
  BY <1>5, BarKeeps
<1>6. CASE Poll
  BY <1>6, PollKeeps
<1>7. CASE WriteReport
  BY <1>7, ReportKeeps
<1>8. CASE Drop
  BY <1>8, DropKeeps
<1>9. CASE FailConnect \/ PollerFails \/ Die
  BY <1>9, FailedConnectKeeps, PollerFailKeeps, DieKeeps
<1>10. ASSUME NEW m \in Minutes, RouteKline(m) PROVE LiveInv'
  BY <1>10, RouteKeeps
<1>11. ASSUME NEW r \in Repairers, BeginPass(r) \/ WriteRecovered(r) \/ ResolveRow(r) \/ EndPass(r)
       PROVE  LiveInv'
  BY <1>11, BeginKeeps, RecoveredKeeps, ResolveHoleKeeps, EndLiveKeeps
<1>12. ASSUME NEW r \in Repairers, NEW served \in SUBSET Minutes, Fetch(r, served)
       PROVE  LiveInv'
  BY <1>12, FetchKeeps
<1>13. CASE UNCHANGED liveVars
  BY <1>13 DEF liveVars, LiveInv, SessionOK, SeenIsKept, RegistryOK, HoleOK, PendingOK, Fresh,
     Distinct, RepairsOK, RepairOK, Taken, HolesRecorded, OnRecord, ResolvedMeansHeld
<1> QED BY <1>1, <1>2, <1>3, <1>4, <1>5, <1>6, <1>7, <1>8, <1>9, <1>10, <1>11, <1>12, <1>13
        DEF LiveNext

LEMMA LiveInvariant == LiveSpec => []LiveInv
  BY LiveStarts, LiveKept, PTL DEF LiveSpec

(* The types of the live ingest hold: no row reaches past the present, and *)
(* every row on record or on its way there is a cadence or an outage row.  *)
THEOREM LiveTyped == LiveSpec => []LiveTypeOK
<1>1. LiveInv => LiveTypeOK
  BY DEF LiveInv, SessionOK, RegistryOK, PendingOK, Fresh, HoleOK, Rows, LiveTypeOK
<1> QED BY <1>1, LiveInvariant, PTL

(* While a session stands with its poller, every minute it is expected to  *)
(* account for and its detector has settled is held, arriving or in a row  *)
(* that is open or being written, whatever the order of frames, polls,     *)
(* writes and repairs (CadenceGapDetector.poll, _write_gaps).  What the    *)
(* end of a session loses is outside it.                                   *)
THEOREM HolesStayRecorded == LiveSpec => []HolesRecorded
<1>1. LiveInv => HolesRecorded
  BY DEF LiveInv
<1> QED BY <1>1, LiveInvariant, PTL

(* Whatever the number of overlapping passes of KlineGapBackfiller, and    *)
(* wherever each is killed, resolve_gap marks no row with a minute that is *)
(* neither held nor in an open row.                                        *)
THEOREM ResolvedRowsAreHeld == LiveSpec => []ResolvedMeansHeld
<1>1. LiveInv => ResolvedMeansHeld
  BY DEF LiveInv
<1> QED BY <1>1, LiveInvariant, PTL
=============================================================================
