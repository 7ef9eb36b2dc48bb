---------------------------- MODULE MCScheduler -----------------------------
(* An instance of Scheduler for TLC: two processes, and one job that must  *)
(* not skip a fire time.  MCCorpus has one with two jobs.                  *)
EXTENDS Scheduler, TLC

CONSTANTS b1, b2, ingest

MCBeats      == {b1, b2}
MCJobs       == {ingest}
MCOrder      == <<ingest>>
MCPolicy     == [j \in Jobs |-> "RUN_EVERY_MISSED"]
MCPeriod     == [j \in Jobs |-> 1]
MCMaxCatchUp == [j \in Jobs |-> 2]
=============================================================================
