---------------------------- MODULE ArchiveBackfill ----------------------------
(* data/backfill/runner.py and plan.py over data/archive.py, the quality gates *)
(* of data/quality and the partition writer of data/parquet: one kline series  *)
(* whose partitions are months, fed by daily archives in the recent window and *)
(* by monthly archives before it.  A day is one bar.                           *)
(*                                                                             *)
(* Three stores survive a crash: the archive cache, the partition files and    *)
(* the registry's rows.  A partition is written before its row.                *)
EXTENDS GapRegistry, FiniteSets

CONSTANTS MonthLength,   \* days in a month
          LastDay,       \* the last day explored
          MaxHoles,      \* archives that are published late
          MaxRuns        \* runs of the backfill

ASSUME ArchiveAssumption ==
  MonthLength \in Nat \ {0} /\ LastDay \in Nat \ {0} /\ MaxHoles \in Nat /\ MaxRuns \in Nat

VARIABLES today, daily, monthly, spoiled,   \* the archive host
          cache, disk, rows, work, runs,
          finished                      \* history: the days finished runs owed

archiveVars == <<gaps, today, daily, monthly, spoiled, cache, disk, rows, work, runs, finished>>

AllDays == 1 .. LastDay
MonthOf(d) == (d - 1) \div MonthLength
Months == 0 .. MonthOf(LastDay)
MonthStart(m) == m * MonthLength + 1
MonthEnd(m) == (m + 1) * MonthLength
DaysOf(m) == MonthStart(m) .. MonthEnd(m)
Unrun == [stage |-> "idle"]
Low(S) == CHOOSE x \in S : \A y \in S : x <= y
High(S) == CHOOSE x \in S : \A y \in S : x >= y

ArchiveInit ==
  /\ gaps = {} /\ today \in 1 .. LastDay /\ cache = {} /\ work = Unrun /\ runs = 0
  /\ daily \in {(1 .. today - 1) \ h : h \in SUBSET AllDays}
  /\ Cardinality((1 .. today - 1) \ daily) <= MaxHoles
  /\ monthly = {m \in Months : MonthEnd(m) < today}
  /\ spoiled \in {{}} \cup {{d} : d \in AllDays}
  /\ disk = [m \in Months |-> {}] /\ rows = [m \in Months |-> {}] /\ finished = {}

\* The host publishes yesterday's archive, or an archive it held back.  A run
\* carries the date it was started with, so the date moves between runs.
DayPasses ==
  /\ today < LastDay /\ work = Unrun
  /\ today' = today + 1
  /\ daily' = daily \cup {today}
  /\ monthly' = {m \in Months : MonthEnd(m) < today'}
  /\ UNCHANGED <<gaps, spoiled, cache, disk, rows, work, runs, finished>>

PublishLate(d) ==
  /\ d \in (1 .. today - 1) \ daily
  /\ daily' = daily \cup {d}
  /\ UNCHANGED <<gaps, today, monthly, spoiled, cache, disk, rows, work, runs, finished>>

------------------------------------------------------------------------------
\* resolve_granularity: daily archives for this month and the one before.
IsDaily(m) == MonthOf(today) - m <= 1

\* _first_published: a binary search, which takes an unpublished probe to mean
\* that nothing before it is published.  None is the end of the range.
FirstPublished(Published, first, last) ==
  LET bisect[w \in {x \in (first .. last + 1) \X (first .. last + 1) : x[1] <= x[2]}] ==
        IF w[1] = w[2] THEN w[1]
        ELSE LET middle == (w[1] + w[2]) \div 2
             IN  IF middle \in Published THEN bisect[<<w[1], middle>>]
                 ELSE bisect[<<middle + 1, w[2]>>]
  IN  bisect[<<first, last + 1>>]

\* discover_earliest_archive_date: the months before the recent window, then its
\* days.  0 when nothing is published.
RecentStart == IF MonthOf(today) = 0 THEN 1 ELSE MonthStart(MonthOf(today) - 1)
EarliestDate ==
  LET lastMonth == MonthOf(today) - 2
      month == FirstPublished(monthly, 0, lastMonth)
      day   == FirstPublished(daily, RecentStart, today - 1)
  IN  IF lastMonth >= 0 /\ month <= lastMonth THEN MonthStart(month)
      ELSE IF RecentStart <= today - 1 /\ day <= today - 1 THEN day ELSE 0

\* plan_partitions and _monthly_partition: the archives of one month, each the
\* set of days it covers.  Days are clipped to the run, a monthly archive is not.
Planned(m, earliest, through) ==
  IF IsDaily(m) THEN {{d} : d \in {x \in DaysOf(m) : earliest <= x /\ x <= through}}
  ELSE {DaysOf(m)}

\* _archive_is_published, _fetch_or_none, ArchiveFetcher.fetch and _read_cache:
\* the cache first, then the host; an archive neither has is absent.  A digest
\* that keeps differing raises (Abort).
Served(archive, m) ==
  \/ archive \in cache
  \/ IF IsDaily(m) THEN archive \subseteq daily ELSE m \in monthly

HostHas(d) == IF IsDaily(MonthOf(d)) THEN d \in daily ELSE MonthOf(d) \in monthly

\* run_backfill and _backfill_symbol: discover, then one partition after another.
StartRun(through) ==
  /\ work = Unrun /\ runs < MaxRuns /\ through < today
  /\ EarliestDate \in 1 .. through
  /\ runs' = runs + 1
  /\ work' = [stage |-> "plan", earliest |-> EarliestDate, through |-> through,
              todo |-> MonthOf(EarliestDate) .. MonthOf(through),
              owed |-> {d \in EarliestDate .. through : HostHas(d)}]
  /\ UNCHANGED <<gaps, today, daily, monthly, spoiled, cache, disk, rows, finished>>

\* Mutation of IsComplete: absent archives do not keep a partition open.
IsComplete_DespiteAbsence(m) ==
  \E row \in rows[m] :
    /\ row.days = disk[m]
    /\ row.through >= Low({High(UNION Planned(m, work.earliest, work.through)), work.through})

\* _is_complete: a row without absent archives, that reaches as far as asked, and
\* whose digest is that of the file on disk.
IsComplete(m) ==
  \E row \in rows[m] :
    /\ row.absent = 0 /\ row.days = disk[m]
    /\ row.through >= Low({High(UNION Planned(m, work.earliest, work.through)), work.through})

\* Mutation of Narrows: only the start of the covered range is compared.
Narrows_AtStartOnly(m, from, through) == \E row \in rows[m] : ~(from <= row.from)

\* _require_no_narrowing compares the ends of the covered range.
Narrows(m, from, through) ==
  \E row \in rows[m] : ~(from <= row.from /\ through >= row.through)

\* _backfill_partition up to the write: skip, note an absent period (nothing is
\* recorded for a series with an interval), refuse, or fetch.
Advance(m) == [work EXCEPT !.todo = @ \ {m}]
Partition ==
  /\ work.stage = "plan" /\ work.todo # {}
  /\ LET m == Low(work.todo)
         archives == Planned(m, work.earliest, work.through)
         present  == {a \in archives : Served(a, m)}
         days     == UNION present
     IN  IF IsComplete(m) THEN work' = Advance(m) /\ UNCHANGED cache
         ELSE /\ cache' = cache \cup present
              /\ work' = IF present = {} THEN Advance(m)
                         ELSE IF Narrows(m, Low(days), High(days)) THEN Unrun
                         ELSE [stage |-> "write", earliest |-> work.earliest,
                               through |-> work.through, todo |-> work.todo,
                               owed |-> work.owed, days |-> days, absent |-> Cardinality(archives \ present)]
  /\ UNCHANGED <<gaps, today, daily, monthly, spoiled, disk, rows, runs, finished>>

\* gate_archive: checksum, header, timestamps, monotony and the ceilings on
\* rejected rows; an archive with a spoiled day passes none.
GatesPass(days) == days \cap spoiled = {}

\* ingest_partition: one refused member refuses the partition and ends the run,
\* or the records go out in one file that replaces the old one by a rename.
RefusePartition ==
  /\ work.stage = "write" /\ ~GatesPass(work.days)
  /\ work' = Unrun
  /\ UNCHANGED <<gaps, today, daily, monthly, spoiled, cache, disk, rows, runs, finished>>

IngestPartition ==
  /\ work.stage = "write" /\ GatesPass(work.days)
  /\ disk' = [disk EXCEPT ![Low(work.todo)] = work.days]
  /\ work' = [work EXCEPT !.stage = "record"]
  /\ UNCHANGED <<gaps, today, daily, monthly, spoiled, cache, rows, runs, finished>>

\* detect_cadence_gaps and _cadence_gaps; last_event_before and _seam_gaps.
CadenceGaps(days) ==
  {Gap(run[1], run[2] + 1, "cadence", run[2] - run[1] + 1) :
     run \in Runs((Low(days) .. High(days)) \ days, Low(days), High(days))}
SeamGaps(m, days) ==
  LET before == {k \in Months : k < m /\ rows[k] # {}}
      last   == High((CHOOSE row \in rows[High(before)] : TRUE).days)
  IN  IF before = {} \/ Low(days) <= last + 1 THEN {}
      ELSE {Gap(last + 1, Low(days), "seam", Low(days) - last - 1)}

\* record_partition: the row replaces the old one and the gaps join, in one
\* transaction.
RecordPartition ==
  /\ work.stage = "record"
  /\ LET m == Low(work.todo)
     IN  /\ rows' = [rows EXCEPT ![m] = {[from |-> Low(work.days), through |-> High(work.days),
                                          absent |-> work.absent, days |-> work.days]}]
         /\ gaps' = InsertGaps(gaps, CadenceGaps(work.days) \cup SeamGaps(m, work.days))
         /\ work' = [stage |-> "plan", earliest |-> work.earliest, through |-> work.through,
                     todo |-> work.todo \ {m}, owed |-> work.owed]
  /\ UNCHANGED <<today, daily, monthly, spoiled, cache, disk, runs, finished>>

EndRun ==
  /\ work.stage = "plan" /\ work.todo = {}
  /\ finished' = finished \cup work.owed /\ work' = Unrun
  /\ UNCHANGED <<gaps, today, daily, monthly, spoiled, cache, disk, rows, runs>>

\* A crash or a refused archive between any two steps.
Abort ==
  /\ work # Unrun
  /\ work' = Unrun
  /\ UNCHANGED <<gaps, today, daily, monthly, spoiled, cache, disk, rows, runs, finished>>

ArchiveNext ==
  \/ DayPasses \/ Partition \/ RefusePartition \/ IngestPartition \/ RecordPartition
  \/ EndRun \/ Abort
  \/ \E d \in AllDays : PublishLate(d) \/ StartRun(d)

ArchiveSpec == ArchiveInit /\ [][ArchiveNext]_archiveVars

------------------------------------------------------------------------------
\* Type invariant.  Days, digests and rows are those of the archive; a run is at one of its steps.
ArchiveTypeOK ==
  /\ today \in AllDays /\ daily \subseteq 1 .. today - 1 /\ finished \subseteq AllDays
  /\ \A m \in Months : disk[m] \subseteq DaysOf(m) /\ Cardinality(rows[m]) <= 1
  /\ \A m \in Months : \A row \in rows[m] : row.days # {} /\ row.days \subseteq DaysOf(m)
  /\ \A g \in gaps : /\ g.kind \in {"cadence", "seam"}
                     /\ g.from < g.upto /\ g.missing = g.upto - g.from

\* No step takes a registered day out of the registry or out of the partition
\* file: not a run asked for less, not one after a crash between file and row,
\* not one that meets a month in another granularity than the run before.
ArchiveNeverNarrows ==
  [][\A m \in Months : \A row \in rows[m] :
       /\ row.days \subseteq disk'[m]
       /\ \E new \in rows'[m] : row.days \subseteq new.days]_<<disk, rows>>

\* A run that ended without raising has put into the corpus every day it was
\* asked for, from the date it discovered on, that the host offered when it
\* began; a partition it skipped as complete is no exception, and no later run
\* or crash takes the day away.  The days before the first one a partition's row
\* covers are excepted: _is_complete compares the end of the range only.
FinishedRunHolds ==
  \A d \in finished :
    d \in disk[MonthOf(d)] \/ \E row \in rows[MonthOf(d)] : d < row.from
=============================================================================
