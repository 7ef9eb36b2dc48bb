------------------------------- MODULE MCCorpus -------------------------------
(* One part of the corpus's upkeep at a time: a series of it, followed through *)
(* the component that writes it (live klines, the live tape, archived klines), *)
(* or the schedule of two jobs.  Rows and files are keyed by series and the    *)
(* run ledger by job, so the state of two parts never meets.                   *)
EXTENDS LiveIngest, TapeCorpus, ArchiveBackfill, Scheduler, TLC

CONSTANTS b1, b2, ingest, converge

VARIABLE series

corpusVars == <<liveVars, tapeVars, archiveVars, vars, series>>
liveOnly == <<now, session, watermark, observed, lastBar, droppedAt, bars, arriving,
              opening, report, repair, faults, crashes, passes, expected>>
tapeOnly == <<clock, link, lastId, noticed, files, spool, part, sealing, mend,
              tapeFaults, tapePasses, received, early>>
archiveOnly == <<today, daily, monthly, spoiled, cache, disk, rows, work, runs, finished>>

\* Five prints over two days of three instants; three share an instant.
MCTime == <<1, 1, 1, 3, 5>>

\* Two processes, and a job that must not skip a fire time beside one that runs at
\* the present instant.
MCBeats == {b1, b2}
MCJobs == {ingest, converge}
MCOrder == <<ingest, converge>>
MCPolicy == [j \in Jobs |-> IF j = ingest THEN "RUN_EVERY_MISSED" ELSE "RUN_NOW"]
MCPeriod == [j \in Jobs |-> IF j = ingest THEN 1 ELSE 2]
MCMaxCatchUp == [j \in Jobs |-> 2]

\* The passes of the kline repair, and the processes, differ in nothing but their name.
MCSymmetry == Permutations(Repairers) \cup Permutations(Beats)

CorpusInit ==
  /\ LiveInit /\ TapeInit /\ ArchiveInit /\ Init
  /\ series \in {"klines", "aggTrades", "archive", "schedule"}
  /\ series # "archive" => today = 1 /\ spoiled = {}

CorpusNext ==
  \/ series = "klines" /\ LiveNext /\ UNCHANGED <<tapeOnly, archiveOnly, vars, series>>
  \/ series = "aggTrades" /\ TapeNext /\ UNCHANGED <<liveOnly, archiveOnly, vars, series>>
  \/ series = "archive" /\ ArchiveNext /\ UNCHANGED <<liveOnly, tapeOnly, vars, series>>
  \/ series = "schedule" /\ Next
     /\ UNCHANGED <<gaps, liveOnly, tapeOnly, archiveOnly, series>>

CorpusSpec == CorpusInit /\ [][CorpusNext]_corpusVars

\* Every writer keeps its state in the shape the code gives it.
CorpusTypeOK ==
  /\ series = "klines" => LiveTypeOK
  /\ series = "aggTrades" => TapeTypeOK
  /\ series = "archive" => ArchiveTypeOK
=============================================================================
