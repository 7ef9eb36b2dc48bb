------------------------------ MODULE TrialLedger ------------------------------
(* The ledger every searched configuration is charged to (evolution/trials,    *)
(* migrations 0002, 0018 and 0021): registrations, executions and overflow     *)
(* charges written by transactions that serialise on an advisory lock, the     *)
(* totals a deflated Sharpe is computed from, and the verification of the hash *)
(* chain against the tip recorded in a backup (persistence/chain, tools/backup).*)
(* A row's hash is represented by its sequence number.                         *)
EXTENDS Integers, Sequences, FiniteSets, FiniteSetsExt

CONSTANTS Clerks,        \* concurrent transactions
          Specifications,\* id, values per parameter, symbols, variants, context, lineage, holdout
          NoClerk,
          MaxExecutions, \* bound on executions per specification
          MaxRows        \* bound on ledger sequence numbers

ASSUME LedgerAssumption ==
  /\ NoClerk \notin Clerks /\ MaxRows \in Nat \ {0}
  /\ \A s \in Specifications : s.values \in Seq(Nat) /\ s.symbols \in Nat /\ s.variants \in Nat
  /\ \A s, t \in Specifications : s.id = t.id => s = t

VARIABLES ledger, executions,
          ledgerSeq,     \* the next identity value; a rolled back row's is not reused
          ledgerLock,
          clerk,         \* what each transaction is doing
          backup         \* the tip of the manifest and the rows of the dump

ledgerVars == <<ledger, executions, ledgerSeq, ledgerLock, clerk, backup>>

Ids == {s.id : s \in Specifications}
SpecOf(id) == CHOOSE s \in Specifications : s.id = id
NoBackup == [step |-> "none"]
AtRest == [step |-> "idle"]

LedgerInit ==
  /\ ledger = {} /\ executions = {} /\ ledgerSeq = 1 /\ ledgerLock = NoClerk
  /\ clerk = [c \in Clerks |-> AtRest] /\ backup = NoBackup

------------------------------------------------------------------------------
\* TrialSpecification: what may be registered, and how many points it declares.
Declarable(s) ==
  /\ s.symbols >= 1 /\ s.variants >= 1
  /\ \A n \in DOMAIN s.values : s.values[n] >= 1
  /\ s.holdout => s.authorised
GridPoints(values) ==
  LET points[n \in 0 .. Len(values)] == IF n = 0 THEN 1 ELSE points[n - 1] * values[n]
  IN  points[Len(values)]
DeclaredGridPoints(s) == GridPoints(s.values) * s.symbols * s.variants

Registration(rows, id) == {r \in rows : r.spec = id /\ r.kind = "registration"}
\* sum(trials_charged): how many the trials are that the rows charged for.
TrialsOf(rows) == UNION {{r} \X (1 .. r.charged) : r \in rows}
SumOf(rows) == Cardinality(TrialsOf(rows))

\* What the views and the ledger's readers report.
InContext(context) == {r \in ledger : SpecOf(r.spec).context = context}
ContextTrials(context) == SumOf(InContext(context))
LineageTrials(context, lineage) == SumOf({r \in InContext(context) : SpecOf(r.spec).lineage = lineage})
GlobalTrials(rows) == Max({r.cumulative : r \in rows} \cup {0})
\* sharpe_evidence refuses a context nothing was charged to.
EvidenceRefused(context) == ContextTrials(context) < 1

------------------------------------------------------------------------------
\* Mutation of LockIsFree: nothing serialises the transactions.
LockIsFree_Always(c) == TRUE
LockIsFree(c) == ledgerLock = NoClerk

\* The chain's last row is the one with the largest running total.
LastLink(rows) == CHOOSE r \in rows : \A o \in rows : o.cumulative <= r.cumulative
\* fking_trial_ledger_accumulate: total and link are computed by the trigger.
Accumulated(rows, seq, spec, kind, points) ==
  [seq |-> seq, spec |-> spec, kind |-> kind, charged |-> points,
   cumulative |-> GlobalTrials(rows) + points,
   prev |-> IF rows = {} THEN 0 ELSE LastLink(rows).seq]

\* register and report_execution take the lock before anything else, and hold
\* it until they commit or roll back.
OpenLedger(c, task) ==
  /\ clerk[c].step = "idle" /\ LockIsFree(c)
  /\ ledgerLock' = c
  /\ clerk' = [clerk EXCEPT ![c] = task]
  /\ UNCHANGED <<ledger, executions, ledgerSeq, backup>>
OpenRegistration(c) ==
  \E s \in Specifications : Declarable(s) /\ OpenLedger(c, [step |-> "register", spec |-> s.id])
OpenExecution(c) ==
  \E id \in Ids, outcome \in {"completed", "failed"} :
    /\ Cardinality({e \in executions : e.spec = id}) < MaxExecutions
    /\ OpenLedger(c, [step |-> "execute", spec |-> id, outcome |-> outcome])

ReleaseLedger(c) ==
  /\ clerk' = [clerk EXCEPT ![c] = AtRest]
  /\ ledgerLock' = NoClerk
StageRows(c, rows, runs) ==
  /\ clerk' = [clerk EXCEPT ![c] = [step |-> "staged", rows |-> rows, runs |-> runs]]
  /\ UNCHANGED ledgerLock

\* The insert of a registration: one per specification.
InsertRegistration(c) ==
  /\ clerk[c].step = "register" /\ ledgerSeq < MaxRows
  /\ ledgerSeq' = ledgerSeq + 1
  /\ LET id == clerk[c].spec
     IN  IF Registration(ledger, id) # {} THEN ReleaseLedger(c)
         ELSE StageRows(c, {Accumulated(ledger, ledgerSeq, id, "registration", DeclaredGridPoints(SpecOf(id)))}, {})
  /\ UNCHANGED <<ledger, executions, backup>>

\* Mutation of Surplus: executions are counted from zero.
Surplus_OffByOne(index, declared) == index > declared + 1
\* Only executions beyond the declared grid are charged.
Surplus(index, declared) == index > declared

\* The insert of an execution, failed or completed; the trigger numbers it and
\* charges the surplus.
InsertExecution(c) ==
  /\ clerk[c].step = "execute" /\ ledgerSeq < MaxRows
  /\ LET id       == clerk[c].spec
         declared == Registration(ledger, id)
         index    == Cardinality({e \in executions : e.spec = id}) + 1
         run(charged) == {[spec |-> id, index |-> index, outcome |-> clerk[c].outcome, charged |-> charged]}
     IN  IF declared = {} THEN ReleaseLedger(c) /\ UNCHANGED ledgerSeq
         ELSE IF \E r \in declared : Surplus(index, r.charged)
         THEN /\ StageRows(c, {Accumulated(ledger, ledgerSeq, id, "execution_overflow", 1)}, run(TRUE))
              /\ ledgerSeq' = ledgerSeq + 1
         ELSE StageRows(c, {}, run(FALSE)) /\ UNCHANGED ledgerSeq
  /\ UNCHANGED <<ledger, executions, backup>>

CommitCharge(c) ==
  /\ clerk[c].step = "staged"
  /\ ledger' = ledger \cup clerk[c].rows /\ executions' = executions \cup clerk[c].runs
  /\ ReleaseLedger(c)
  /\ UNCHANGED <<ledgerSeq, backup>>

\* The connection or the process is lost: the transaction never happened.
LoseClerk(c) ==
  /\ clerk[c].step # "idle" /\ ReleaseLedger(c)
  /\ UNCHANGED <<ledger, executions, ledgerSeq, backup>>

------------------------------------------------------------------------------
\* ORDER BY seq: the n-th row is the one that n rows come up to.
UpTo(rows, r) == {o \in rows : o.seq <= r.seq}
InSeqOrder(rows) ==
  [n \in 1 .. Cardinality(rows) |-> CHOOSE r \in rows : Cardinality(UpTo(rows, r)) = n]
EmptyTip == 0
TipOf(rows) == Max({r.seq : r \in rows} \cup {EmptyTip})

\* verify_rows: every row links to the one before it, and the last is the tip.
LinksHold(rows) ==
  \A n \in DOMAIN rows : rows[n].prev = (IF n = 1 THEN EmptyTip ELSE rows[n - 1].seq)
Verification(rows, tip) ==
  IF ~LinksHold(rows) THEN "broken"
  ELSE LET last == IF rows = <<>> THEN EmptyTip ELSE rows[Len(rows)].seq
       IN  IF last < tip THEN "truncated" ELSE IF last > tip THEN "appended" ELSE "intact"

\* take_dump: the tip is read first, the rows are dumped in a later snapshot.
ReadTipForBackup ==
  /\ backup.step = "none"
  /\ backup' = [step |-> "tip", tip |-> TipOf(ledger)]
  /\ UNCHANGED <<ledger, executions, ledgerSeq, ledgerLock, clerk>>
DumpLedger ==
  /\ backup.step = "tip"
  /\ backup' = [step |-> "dumped", tip |-> backup.tip, rows |-> InSeqOrder(ledger)]
  /\ UNCHANGED <<ledger, executions, ledgerSeq, ledgerLock, clerk>>

LedgerNext ==
  \/ \E c \in Clerks :
       OpenRegistration(c) \/ OpenExecution(c) \/ InsertRegistration(c) \/ InsertExecution(c)
         \/ CommitCharge(c) \/ LoseClerk(c)
  \/ ReadTipForBackup \/ DumpLedger

LedgerSpec == LedgerInit /\ [][LedgerNext]_ledgerVars

------------------------------------------------------------------------------
\* Type invariant.
LedgerTyped ==
  /\ ledgerLock \in Clerks \cup {NoClerk} /\ ledgerSeq \in 1 .. MaxRows
  /\ \A r \in ledger : r.seq < ledgerSeq /\ r.spec \in Ids /\ r.charged >= 1
  /\ \A c \in Clerks : clerk[c].step # "idle" => ledgerLock # NoClerk

\* The counts a deflated Sharpe is computed from never lose a charge: each
\* specification was charged its declared grid once and one more for every
\* execution beyond it, completed or failed; the running total is the sum of
\* all charges, and no execution is on record for what was never registered.
RunsOf(id) == Cardinality({e \in executions : e.spec = id})
Owed(id) == IF Registration(ledger, id) = {} THEN 0
            ELSE Max({DeclaredGridPoints(SpecOf(id)), RunsOf(id)})
IdsOf(context) == {id \in Ids : SpecOf(id).context = context}
TrialsOwed(context) == UNION {{id} \X (1 .. Owed(id)) : id \in IdsOf(context)}
TrialsCounted ==
  /\ \A s \in Specifications :
       /\ ContextTrials(s.context) = Cardinality(TrialsOwed(s.context))
       /\ LineageTrials(s.context, s.lineage) <= ContextTrials(s.context)
       /\ Cardinality(Registration(ledger, s.id)) <= 1
       /\ EvidenceRefused(s.context) => \A t \in IdsOf(s.context) : RunsOf(t) = 0
  /\ GlobalTrials(ledger) = SumOf(ledger)
  /\ \A id \in Ids : RunsOf(id) > 0 => Registration(ledger, id) # {}

\* The committed rows, in the order of their numbers, are one chain, whatever
\* was rolled back between them; and a restored dump from which rows up to the
\* recorded tip are missing never passes for a complete one.
LedgerVerifies ==
  /\ LinksHold(InSeqOrder(ledger))
  /\ backup.step = "dumped" =>
       /\ Verification(backup.rows, backup.tip) \in {"intact", "appended"}
       /\ \A n \in 0 .. Len(backup.rows) :
            Verification(SubSeq(backup.rows, 1, n), backup.tip) = "intact"
              <=> (IF n = 0 THEN EmptyTip ELSE backup.rows[n].seq) = backup.tip

\* The ledger never loses a charge, and its chain is one the verification of a
\* restored backup accepts and a shortened one does not (evolution/trials,
\* persistence/chain).
LedgerHolds == TrialsCounted /\ LedgerVerifies
=============================================================================
