--------------------------- MODULE SchemaMigrations ---------------------------
(* The database schema as its twenty-one migrations build it                   *)
(* (migrations/versions), against what the program declares of it             *)
(* (platform/persistence/schema, privileges) and what a release says of       *)
(* undoing it (tools/release/migrations).  Columns are abstracted; tables,    *)
(* foreign keys, views, grants, guards and refusals are kept.                  *)
EXTENDS Integers, FiniteSets, TLC

VARIABLES revision,   \* the migration the database stands at
          relations,  \* name -> refs, app, ingest, guarded, for tables, views and readers
          defaults,   \* what fking_app gets by default on a table of the migrator's
          evidence,   \* kinds of row recorded that an older schema cannot hold
          everChained \* history: the chained relations there have been

schemaVars == <<revision, relations, defaults, evidence, everChained>>

Read    == {"SELECT"}
Append2 == {"SELECT", "INSERT"}
Write   == {"SELECT", "INSERT", "UPDATE", "DELETE"}
Resolve == {"SELECT", "INSERT", "UPDATE"}

\* A relation a migration creates: what it refers to, what is granted on it,
\* whether the append-only trigger is on it, and whether every privilege was
\* revoked first.
Relation(refs, app, ingest, guarded, revoked) ==
  [refs |-> refs, app |-> app, ingest |-> ingest, guarded |-> guarded, revoked |-> revoked]
AppendOnly(refs)  == Relation(refs, Append2, {}, TRUE, TRUE)
Granted(refs)     == Relation(refs, Write, {}, FALSE, FALSE)
AppMutable(refs)  == Relation(refs, Write, {}, FALSE, TRUE)
Ingested(refs)    == Relation(refs, Read, Write, FALSE, TRUE)
Invisible         == Relation({}, {}, Append2, FALSE, TRUE)
View(refs)        == Relation(refs, Read, {}, FALSE, TRUE)
Reader(refs)      == Relation(refs, {"EXECUTE"}, {}, FALSE, TRUE)

------------------------------------------------------------------------------
\* What each migration creates.
Reference0001 == "venue" :> Granted({}) @@ "instrument" :> Granted({"venue"})
                 @@ "venue_maintenance_window" :> Granted({"venue"})
Audit0002 == "audit_log" :> AppendOnly({}) @@ "trial_ledger" :> AppendOnly({})
             @@ "global_trial_count" :> Relation({"trial_ledger"}, Read, {}, FALSE, FALSE)
Market0003 == [n \in {"bar", "funding_rate"} |-> Relation({"instrument"}, Read, Write, FALSE, FALSE)]
Strategy0004 ==
  "strategy" :> Granted({}) @@ "strategy_version" :> Granted({"strategy", "strategy_version"})
  @@ "strategy_lifecycle_transition" :> AppendOnly({"strategy_version"})
Evaluation0004 ==
  "generation" :> Granted({}) @@ "evaluation" :> Granted({"strategy_version", "generation"})
  @@ "promotion" :> AppendOnly({"strategy_version", "evaluation"})
  @@ "retirement" :> AppendOnly({"strategy_version"})
Execution0005 ==
  "order" :> Granted({"instrument", "strategy_version"})
  @@ "fill" :> AppendOnly({"order", "instrument"})
  @@ "position_snapshot" :> AppendOnly({"instrument"}) @@ "account_snapshot" :> AppendOnly({"venue"})
Risk0005 ==
  "risk_decision" :> AppendOnly({"instrument", "strategy_version", "order"})
  @@ "limit_breach" :> AppendOnly({"risk_decision"}) @@ "kill_switch_event" :> AppendOnly({})
Agents0006 == "agent_run" :> Granted({}) @@ "agent_call" :> AppendOnly({"agent_run"})
Inbox0007 == "processed_events" :> Relation({}, {"SELECT", "INSERT", "DELETE"}, {}, FALSE, TRUE)
Ingest0009 ==
  [n \in {"ingest_partition", "ingest_file", "coverage_gap"} |-> Ingested({})]
  @@ "data_coverage" :> View({"ingest_partition", "ingest_file", "coverage_gap"})
Features0010 == "feature_values" :> Invisible @@ "fking_feature_as_of" :> Reader({"feature_values"})
Scheduler0013 == "scheduler_job_run" :> AppMutable({})
Alternative0014 == "alt_observations" :> Invisible @@ "fking_alt_as_of" :> Reader({"alt_observations"})
Genome0015 ==
  "evolution.genome" :> AppendOnly({}) @@ "evolution.genome_parent" :> AppendOnly({"evolution.genome"})
Lifecycle0015 ==
  "evolution.strategy" :> AppendOnly({"evolution.genome"})
  @@ "evolution.strategy_lifecycle_events" :> AppendOnly({"evolution.strategy", "evolution.genome"})
Derived0016 ==
  "evolution.strategy_current_state" :> View({"evolution.strategy_lifecycle_events"})
  @@ [n \in {"evolution.genome_ancestors", "evolution.genome_descendants"} |->
        Reader({"evolution.genome_parent"})]
Drawdown0017 == "risk_drawdown_state" :> AppMutable({}) @@ "risk_drawdown_mark" :> AppMutable({"risk_drawdown_state"})
Trials0018 ==
  "trial_execution" :> AppendOnly({})
  @@ [n \in {"trial_context_totals", "trial_lineage_totals"} |-> View({"trial_ledger"})]
Conviction0020 ==
  "risk_conviction_map" :> AppendOnly({}) @@ "risk_conviction_map_bucket" :> AppendOnly({"risk_conviction_map"})

Nothing == [n \in {} |-> {}]
Creates(k) ==
  CASE k = 1  -> Reference0001  [] k = 2  -> Audit0002      [] k = 3  -> Market0003
    [] k = 4  -> Strategy0004 @@ Evaluation0004             [] k = 5  -> Execution0005 @@ Risk0005
    [] k = 6  -> Agents0006     [] k = 7  -> Inbox0007      [] k = 9  -> Ingest0009
    [] k = 10 -> Features0010   [] k = 13 -> Scheduler0013  [] k = 14 -> Alternative0014
    [] k = 15 -> Genome0015 @@ Lifecycle0015                [] k = 16 -> Derived0016
    [] k = 17 -> Drawdown0017   [] k = 18 -> Trials0018     [] k = 20 -> Conviction0020
    [] OTHER  -> Nothing

Newest == 21
ReferenceTables == {"venue", "instrument", "venue_maintenance_window"}

\* A relation as it stands once created: a table nobody revoked from has what
\* fking_app gets by default.
Stands(r) == [refs |-> r.refs, ingest |-> r.ingest, guarded |-> r.guarded,
              app |-> IF r.revoked THEN r.app ELSE r.app \cup defaults]

------------------------------------------------------------------------------
\* 0008: every table by its class, each with everything revoked first.
AppendOnly0008 ==
  {"account_snapshot", "agent_call", "audit_log", "fill", "kill_switch_event", "limit_breach",
   "position_snapshot", "promotion", "retirement", "risk_decision",
   "strategy_lifecycle_transition", "trial_ledger"}
AppMutable0008 ==
  {"agent_run", "evaluation", "generation", "instrument", "order", "processed_events", "strategy",
   "strategy_version", "venue", "venue_maintenance_window"}
IngestOwned0008 == {"bar", "funding_rate"}

\* Mutation of LeastPrivilege: nothing is revoked before the grants.
LeastPrivilege_Additive(held) ==
  [n \in DOMAIN held |->
    CASE n \in AppendOnly0008  -> [held[n] EXCEPT !.app = @ \cup Append2]
      [] n \in AppMutable0008  -> [held[n] EXCEPT !.app = @ \cup Write]
      [] n \in IngestOwned0008 -> [held[n] EXCEPT !.app = @ \cup Read, !.ingest = @ \cup Write]
      [] OTHER                 -> [held[n] EXCEPT !.app = @ \cup Read]]

LeastPrivilege(held) ==
  [n \in DOMAIN held |->
    CASE n \in AppendOnly0008  -> [held[n] EXCEPT !.app = Append2, !.ingest = {}]
      [] n \in AppMutable0008  -> [held[n] EXCEPT !.app = Write, !.ingest = {}]
      [] n \in IngestOwned0008 -> [held[n] EXCEPT !.app = Read, !.ingest = Write]
      [] OTHER                 -> [held[n] EXCEPT !.app = Read, !.ingest = {}]]

\* 0011: live ingestion reads the reference tables.
ReadsReference(held, privileges) ==
  [n \in DOMAIN held |-> IF n \in ReferenceTables THEN [held[n] EXCEPT !.ingest = privileges] ELSE held[n]]

\* 0012: a gap is resolved once and never deleted.
GapsKept(held)   == [held EXCEPT !["coverage_gap"].ingest = @ \ {"DELETE", "TRUNCATE"},
                                 !["coverage_gap"].guarded = TRUE]
GapsLoose(held)  == [held EXCEPT !["coverage_gap"].ingest = @ \cup {"DELETE"},
                                 !["coverage_gap"].guarded = FALSE]

Chained == {"audit_log", "trial_ledger", "evolution.genome", "evolution.genome_parent",
            "evolution.strategy", "evolution.strategy_lifecycle_events", "trial_execution"}

SchemaInit ==
  /\ revision = 0 /\ relations = Nothing /\ defaults = {} /\ evidence = {} /\ everChained = {}

\* One migration, in a transaction of its own.
Upgrade ==
  /\ revision < Newest
  /\ revision' = revision + 1
  /\ LET k == revision + 1
         created == [n \in DOMAIN Creates(k) |-> Stands(Creates(k)[n])]
     IN  /\ \A n \in DOMAIN created : created[n].refs \subseteq DOMAIN relations \cup DOMAIN created
         /\ relations' = CASE k = 8  -> LeastPrivilege(relations)
                           [] k = 11 -> ReadsReference(relations, Read)
                           [] k = 12 -> GapsKept(relations)
                           [] OTHER  -> created @@ relations
         /\ defaults' = IF k = 8 THEN {} ELSE defaults
  /\ everChained' = everChained \cup (Chained \cap DOMAIN relations')
  /\ UNCHANGED evidence

\* The migrations whose downgrade raises, always or on what it finds.
RaisesAlways == {2, 15, 18, 19, 21}
RaisesOnFinding == {12}

\* Whether a downgrade goes through: it does not raise, and the narrower check
\* constraints it adds hold for the rows there are.
Reverts(k) ==
  /\ k \notin RaisesAlways
  /\ k = 11 => "live gap" \notin evidence
  /\ k = 12 => evidence \cap {"resolved gap", "recovered bar"} = {}

Downgrade ==
  /\ revision > 0 /\ Reverts(revision)
  /\ revision' = revision - 1
  /\ relations' = CASE revision = 8  -> relations
                    [] revision = 11 -> ReadsReference(relations, {})
                    [] revision = 12 -> GapsLoose(relations)
                    [] OTHER -> [n \in DOMAIN relations \ DOMAIN Creates(revision) |-> relations[n]]
  /\ defaults' = IF revision = 8 THEN {"UPDATE", "DELETE", "TRUNCATE"} ELSE defaults
  /\ UNCHANGED <<evidence, everChained>>

\* The program records what only a newer schema can hold.
Record(kind) ==
  /\ kind \notin evidence
  /\ CASE kind = "live gap" -> revision >= 11 [] OTHER -> revision >= 12
  /\ evidence' = evidence \cup {kind}
  /\ UNCHANGED <<revision, relations, defaults, everChained>>

SchemaNext == Upgrade \/ Downgrade \/ \E kind \in {"live gap", "resolved gap", "recovered bar"} : Record(kind)

SchemaSpec == SchemaInit /\ [][SchemaNext]_schemaVars

------------------------------------------------------------------------------
\* What the program declares: schema.METADATA's tables and foreign keys.
MetaReference == "venue" :> {} @@ "instrument" :> {"venue"} @@ "venue_maintenance_window" :> {"venue"}
MetaMarket == [n \in {"bar", "funding_rate"} |-> {"instrument"}]
MetaPartitions == [n \in {"ingest_partition", "ingest_file"} |-> {}]
MetaGaps == "coverage_gap" :> {}
MetaFeatures == [n \in {"feature_values", "alt_observations"} |-> {}]
MetaStrategy ==
  "strategy" :> {} @@ "strategy_version" :> {"strategy", "strategy_version"}
  @@ "strategy_lifecycle_transition" :> {"strategy_version"}
MetaEvaluation ==
  "generation" :> {} @@ "evaluation" :> {"strategy_version", "generation"}
  @@ "promotion" :> {"strategy_version", "evaluation"} @@ "retirement" :> {"strategy_version"}
MetaOrders == "order" :> {"instrument", "strategy_version"} @@ "fill" :> {"order", "instrument"}
MetaSnapshots == "position_snapshot" :> {"instrument"} @@ "account_snapshot" :> {"venue"}
MetaDecisions ==
  "risk_decision" :> {"instrument", "strategy_version", "order"} @@ "limit_breach" :> {"risk_decision"}
  @@ "kill_switch_event" :> {}
MetaAgents == "agent_run" :> {} @@ "agent_call" :> {"agent_run"}
MetaAudit == [n \in {"audit_log", "trial_ledger"} |-> {}]
MetaRuns == [n \in {"trial_execution", "processed_events", "scheduler_job_run"} |-> {}]
MetaDrawdown == "risk_drawdown_state" :> {} @@ "risk_drawdown_mark" :> {"risk_drawdown_state"}
MetaConviction == "risk_conviction_map" :> {} @@ "risk_conviction_map_bucket" :> {"risk_conviction_map"}
Metadata ==
  MetaReference @@ MetaMarket @@ MetaPartitions @@ MetaGaps @@ MetaFeatures @@ MetaStrategy
  @@ MetaEvaluation @@ MetaOrders @@ MetaSnapshots @@ MetaDecisions @@ MetaAgents @@ MetaAudit
  @@ MetaRuns @@ MetaDrawdown @@ MetaConviction

AppendOnlyTables ==
  AppendOnly0008 \cup {"trial_execution", "risk_conviction_map", "risk_conviction_map_bucket"}

\* CLASSIFICATION and PRIVILEGES.
ClassOf(n) ==
  CASE n \in AppendOnlyTables -> "append_only"
    [] n \in ReferenceTables  -> "reference"
    [] n \in {"bar", "funding_rate", "ingest_partition", "ingest_file"} -> "ingest_owned"
    [] n = "coverage_gap" -> "ingest_resolvable"
    [] n \in {"feature_values", "alt_observations"} -> "app_invisible"
    [] OTHER -> "app_mutable"
Privileges(class) ==
  CASE class = "append_only"       -> [app |-> Append2, ingest |-> {}]
    [] class = "app_mutable"       -> [app |-> Write, ingest |-> {}]
    [] class = "ingest_owned"      -> [app |-> Read, ingest |-> Write]
    [] class = "ingest_resolvable" -> [app |-> Read, ingest |-> Resolve]
    [] class = "app_invisible"     -> [app |-> {}, ingest |-> Append2]
    [] class = "reference"         -> [app |-> Write, ingest |-> Read]
Views == {"global_trial_count", "trial_context_totals", "trial_lineage_totals", "data_coverage"}
Readers == {"fking_feature_as_of", "fking_alt_as_of"}
Evolution == {n \in DOMAIN relations : n \in DOMAIN (Genome0015 @@ Lifecycle0015 @@ Derived0016)}

\* classify_downgrade, from the text of a migration's downgrade.
DowngradeKind(k) ==
  IF k \in RaisesAlways THEN "irreversible" ELSE IF k \in RaisesOnFinding THEN "conditional" ELSE "reversible"
BlocksRollback(k) == DowngradeKind(k) # "reversible"

------------------------------------------------------------------------------
\* Type invariant.
SchemaTyped ==
  /\ revision \in 0 .. Newest /\ defaults \subseteq {"UPDATE", "DELETE", "TRUNCATE"}
  /\ \A n \in DOMAIN relations : relations[n].refs \subseteq DOMAIN relations

\* Whatever was migrated up and down: the application cannot rewrite an
\* append-only table, nor read a table it must not see; a chained record never
\* disappears; rows only a newer schema can hold keep it in force; and at the
\* head the tables, foreign keys and grants are those the program declares.
SchemaHolds ==
  /\ \A n \in DOMAIN relations \cap (AppendOnlyTables \cup Chained) :
       relations[n].app \subseteq Append2 /\ relations[n].ingest = {} /\ relations[n].guarded
  /\ \A n \in DOMAIN relations : ClassOf(n) = "app_invisible" => relations[n].app = {}
  /\ everChained \subseteq DOMAIN relations
  /\ evidence # {} => revision >= IF evidence = {"live gap"} THEN 11 ELSE 12
  /\ revision = Newest =>
       /\ DOMAIN relations \ (Views \cup Readers \cup Evolution) = DOMAIN Metadata
       /\ \A n \in DOMAIN Metadata :
            /\ relations[n].refs = Metadata[n]
            /\ [app |-> relations[n].app, ingest |-> relations[n].ingest] = Privileges(ClassOf(n))
       /\ \A n \in Views : relations[n].app = Read /\ relations[n].ingest = {}

\* A migration a release calls reversible can be undone (tools/release/migrations
\* tells the operator which rollback procedure applies).
RollbackAsAdvertised == revision > 0 /\ ~BlocksRollback(revision) => Reverts(revision)
=============================================================================
