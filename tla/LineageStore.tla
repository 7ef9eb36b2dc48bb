------------------------------ MODULE LineageStore ------------------------------
(* The evolution record (evolution/store, lifecycle, lineage; migrations 0015  *)
(* and 0016): genomes with their parents, strategies, and the append-only      *)
(* stream of lifecycle events, written by transactions that read first and     *)
(* append later.  A row takes its number before its trigger takes the lock     *)
(* of the chain, so numbers and commits may come in different orders.          *)
EXTENDS Integers, Sequences, FiniteSets

CONSTANTS Curators,    \* concurrent transactions
          Records,     \* genome, strategy and parents of what may be recorded
          Decisions,   \* id, strategy, from, to of what callers decide, maybe more than once
          MaxEventSeq  \* bound on event numbers

VARIABLES genomes, parentage,   \* parentage: <<child, parent, ordinal>>
          strategies,           \* <<strategy, genome>>
          lifecycle,            \* rows of strategy_lifecycle_events
          eventSeq, chainLock,
          curator

lineageVars == <<genomes, parentage, strategies, lifecycle, eventSeq, chainLock, curator>>

Unborn == "nonexistent"
NoHolder == 0
Waiting == [step |-> "idle"]
\* LifecycleState.
Exits == {"quarantined", "retired"}
States == {Unborn, "proposed", "backtested", "validated", "paper", "challenger", "champion"} \cup Exits

ASSUME LineageAssumption ==
  /\ NoHolder \notin Curators /\ MaxEventSeq \in Nat \ {0}
  /\ \A r \in Records : r.genome # "none" /\ r.parents \in Seq(STRING)
  /\ \A d \in Decisions : d.from \in States

LineageInit ==
  /\ genomes = {} /\ parentage = {} /\ strategies = {} /\ lifecycle = {}
  /\ eventSeq = 1 /\ chainLock = NoHolder /\ curator = [c \in Curators |-> Waiting]

------------------------------------------------------------------------------
\* PERMITTED_TRANSITIONS.
Permitted(from) ==
  CASE from = Unborn        -> {"proposed"}
    [] from = "proposed"    -> {"backtested"} \cup Exits
    [] from = "backtested"  -> {"validated"} \cup Exits
    [] from = "validated"   -> {"paper"} \cup Exits
    [] from = "paper"       -> {"challenger"} \cup Exits
    [] from = "challenger"  -> {"champion"} \cup Exits
    [] from = "champion"    -> Exits
    [] from = "quarantined" -> {"backtested", "retired"}
    [] from = "retired"     -> {}

Posture(state) == CASE state = "paper" -> "notional" [] state = "challenger" -> "fractional"
                    [] state = "champion" -> "full" [] OTHER -> "none"

EventsOf(s) == {e \in lifecycle : e.strategy = s}
Latest(rows) == CHOOSE e \in rows : \A o \in rows : o.seq <= e.seq
\* derive_current_state and strategy_current_state: the last row by number.
CurrentState(s) == IF EventsOf(s) = {} THEN Unborn ELSE Latest(EventsOf(s)).to
LiveStrategies == {p[1] : p \in {q \in strategies : Posture(CurrentState(q[1])) # "none"}}

\* ancestors_within: the genome itself, its parents, theirs, and so on.
ParentsOf(edges, G) == {e[2] : e \in {x \in edges : x[1] \in G}}
AncestorsWithin(edges, g, generations) ==
  LET reached[n \in 0 .. generations] ==
        IF n = 0 THEN {g} ELSE reached[n - 1] \cup ParentsOf(edges, reached[n - 1])
  IN  reached[generations]
\* As many steps as there are genomes with a parent, and one more.
Generations(edges) == Cardinality({e[1] : e \in edges}) + 1
Ancestors(edges, g) == AncestorsWithin(edges, g, Generations(edges))
Acyclic(edges) == \A e \in edges : e[1] \notin Ancestors(edges, e[2])
\* quarantine_targets: everything downstream of a defective genome.
QuarantineTargets(g) == {h \in genomes \ {g} : g \in Ancestors(parentage, h)}

WouldCreateCycle(child, parent) == child = parent \/ child \in Ancestors(parentage, parent)

\* Mutation of Current: the decision is taken on trust.
Current_Trusted(d) == TRUE
Current(d) == CurrentState(d.strategy) = d.from

------------------------------------------------------------------------------
EdgesOf(r) == {<<r.genome, r.parents[n], n>> : n \in DOMAIN r.parents}

\* record_genome and admit_strategy read the graph, which must be without a
\* cycle, before they insert anything.
BeginRecord(c) ==
  \E r \in Records :
    /\ curator[c].step = "idle"
    /\ r.parents # <<>> => /\ Acyclic(parentage)
                           /\ \A n \in DOMAIN r.parents : ~WouldCreateCycle(r.genome, r.parents[n])
    /\ curator' = [curator EXCEPT ![c] =
         [step |-> IF r.strategy = "none" THEN "record" ELSE "number", record |-> r,
          event |-> [id |-> 0, strategy |-> r.strategy, from |-> Unborn, to |-> "proposed"]]]
    /\ UNCHANGED <<genomes, parentage, strategies, lifecycle, eventSeq, chainLock>>

\* What may be decided: an edge the lifecycle has.
Decidable(d) == d.to \in Permitted(d.from)
NothingRecorded == [genome |-> "none", strategy |-> "none", parents |-> <<>>]
\* append_lifecycle_event reads the current state and refuses another's.
BeginAppend(c) ==
  \E d \in Decisions :
    /\ curator[c].step = "idle"
    /\ Current(d) /\ Decidable(d)
    /\ curator' = [curator EXCEPT ![c] = [step |-> "number", record |-> NothingRecorded, event |-> d]]
    /\ UNCHANGED <<genomes, parentage, strategies, lifecycle, eventSeq, chainLock>>

\* What the database refuses: an unknown parent, a second parent at the same
\* place, a strategy or a genome funded twice, an event already applied or of
\* a strategy there is none of.
Conflicts(r, e) ==
  \/ \E n \in DOMAIN r.parents : r.parents[n] \notin genomes
  \/ \E x \in parentage, y \in EdgesOf(r) : x[1] = y[1] /\ x[3] = y[3] /\ x[2] # y[2]
  \/ r.strategy # "none" /\ \E p \in strategies : p[1] = r.strategy \/ p[2] = r.genome
  \/ r = NothingRecorded /\ e.strategy \notin {p[1] : p \in strategies}
  \/ \E o \in lifecycle : o.id = e.id /\ e.id # 0

CuratorIdle(c) == curator' = [curator EXCEPT ![c] = Waiting]
StoreRecord(r) ==
  /\ genomes' = genomes \cup ({r.genome} \ {"none"})
  /\ parentage' = parentage \cup {x \in EdgesOf(r) : \A y \in parentage : <<x[1], x[2]>> # <<y[1], y[2]>>}
  /\ strategies' = strategies \cup (IF r.strategy = "none" THEN {} ELSE {<<r.strategy, r.genome>>})

CommitRecord(c) ==
  /\ curator[c].step = "record" /\ CuratorIdle(c)
  /\ IF Conflicts(curator[c].record, [id |-> 0, strategy |-> "none"])
     THEN UNCHANGED <<genomes, parentage, strategies>> ELSE StoreRecord(curator[c].record)
  /\ UNCHANGED <<lifecycle, eventSeq, chainLock>>

\* The identity value is drawn while the row is formed, before the trigger runs.
NumberEvent(c) ==
  /\ curator[c].step = "number" /\ eventSeq < MaxEventSeq
  /\ curator' = [curator EXCEPT ![c] =
       [step |-> "chain", record |-> @.record, event |-> @.event, seq |-> eventSeq]]
  /\ eventSeq' = eventSeq + 1
  /\ UNCHANGED <<genomes, parentage, strategies, lifecycle, chainLock>>

\* lifecycle_event_chain: under the lock, the link is the hash of the row with
\* the highest number; then the unique keys are checked.
ChainEvent(c) ==
  /\ curator[c].step = "chain" /\ chainLock = NoHolder
  /\ IF Conflicts(curator[c].record, curator[c].event)
     THEN CuratorIdle(c) /\ UNCHANGED chainLock
     ELSE /\ chainLock' = c
          /\ curator' = [curator EXCEPT ![c] =
               [step |-> "commit", record |-> @.record, event |-> @.event, seq |-> @.seq,
                prev |-> IF lifecycle = {} THEN 0 ELSE Latest(lifecycle).seq]]
  /\ UNCHANGED <<genomes, parentage, strategies, lifecycle, eventSeq>>

CommitEvent(c) ==
  /\ curator[c].step = "commit"
  /\ LET t == curator[c]
     IN  /\ StoreRecord(t.record)
         /\ lifecycle' = lifecycle \cup
              {[seq |-> t.seq, prev |-> t.prev, id |-> t.event.id, strategy |-> t.event.strategy,
                from |-> t.event.from, to |-> t.event.to]}
  /\ chainLock' = NoHolder /\ CuratorIdle(c)
  /\ UNCHANGED eventSeq

LoseCurator(c) ==
  /\ curator[c].step # "idle" /\ CuratorIdle(c)
  /\ chainLock' = IF chainLock = c THEN NoHolder ELSE chainLock
  /\ UNCHANGED <<genomes, parentage, strategies, lifecycle, eventSeq>>

LineageNext ==
  \E c \in Curators :
    BeginRecord(c) \/ BeginAppend(c) \/ CommitRecord(c) \/ NumberEvent(c) \/ ChainEvent(c)
      \/ CommitEvent(c) \/ LoseCurator(c)

RecordSpec == LineageInit /\ [][LineageNext]_lineageVars

------------------------------------------------------------------------------
\* Type invariant.
LineageTyped ==
  /\ chainLock \in Curators \cup {NoHolder} /\ eventSeq \in 1 .. MaxEventSeq
  /\ \A e \in lifecycle : e.seq < eventSeq /\ e.to \in Permitted(e.from)
  /\ \A p \in strategies : p[2] \in genomes

\* Each strategy has one history: it begins with its genesis, every event
\* leaves the state the one before it entered, so nothing follows retirement
\* and what commands capital was backtested and validated first.
Earlier(e) == {o \in EventsOf(e.strategy) : o.seq < e.seq}
OneHistory ==
  /\ \A e \in lifecycle : e.from = IF Earlier(e) = {} THEN Unborn ELSE Latest(Earlier(e)).to
  /\ \A p \in strategies :
       /\ EventsOf(p[1]) # {}
       /\ p[1] \in LiveStrategies => {"backtested", "validated"} \subseteq {e.to : e \in EventsOf(p[1])}

\* The stream verifies: in the order of their numbers, every row links to the
\* one before it.
EventChainVerifies ==
  \A e \in lifecycle :
    LET before == {o \in lifecycle : o.seq < e.seq}
    IN  e.prev = (IF before = {} THEN 0 ELSE Latest(before).seq)

\* No genome is its own ancestor, so the walks end, and a defect reaches every
\* genome that descends from it; no two strategies fund one genome.
GenealogyHolds ==
  /\ Acyclic(parentage)
  /\ \A e \in parentage : e[1] \in QuarantineTargets(e[2]) /\ e[2] \in genomes
  /\ \A g \in genomes : \A h \in QuarantineTargets(g) : QuarantineTargets(h) \subseteq QuarantineTargets(g)
  /\ \A p, q \in strategies : p[2] = q[2] => p = q

EvolutionRecordHolds == OneHistory /\ EventChainVerifies /\ GenealogyHolds
=============================================================================
