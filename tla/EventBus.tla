------------------------------ MODULE EventBus ------------------------------
(***************************************************************************)
(* The event bus: one Redis stream, one consumer group of several consumer *)
(* processes, and the Postgres table processed_events that deduplicates    *)
(* (platform/bus/_publisher.py, platform/bus/_consumer.py).                *)
(*                                                                         *)
(* A message id is an index of log; an event is its content digest, so a   *)
(* producer that publishes one event twice gets two ids and one event.     *)
(* Redis orders both replies by id, so a batch is a set of ids handled in  *)
(* ascending order.  XACK and XAUTOCLAIM do not look at an entry's owner,  *)
(* only at its presence and its idle time: the pending list is a set.      *)
(***************************************************************************)
EXTENDS Naturals, Sequences, FiniteSets

CONSTANTS
  Events,      \* content digests a producer may publish
  Malformed,   \* those _decode refuses (undecodable, unregistered, bad schema)
  Consumers,   \* consumer names of the one group
  BatchSize,   \* batch_size of run_once
  MaxLen,      \* max_stream_length: MAXLEN ~ keeps at least this many
  MaxPublish,  \* bound on the length of log
  MaxFaults    \* bound on crashes and raised exceptions

ASSUME BusAssumption ==
  /\ Malformed \subseteq Events
  /\ BatchSize \in Nat \ {0}
  /\ MaxLen \in Nat \ {0}
  /\ MaxPublish \in Nat
  /\ MaxFaults \in Nat

VARIABLES
  log,        \* every message ever added, by id
  first,      \* least id XADD's trimming has left in the stream
  cursor,     \* the group's last delivered id
  pel,        \* ids delivered and not acknowledged
  idle,       \* pending ids whose idle time has reached claim_idle_ms
  processed,  \* events with a committed processed_events row
  effects,    \* committed runs of the handler, per event
  dlq,        \* records on the dead-letter stream, per source message id
  half,       \* which half of run_once a consumer is in
  batch,      \* ids of the reply a consumer has not finished handling
  pc,         \* where in handle_one it stands
  faults      \* crashes and raised exceptions so far

streamVars == <<log, first, cursor, pel, idle>>
dbVars     == <<processed, effects>>
procVars   == <<half, batch, pc>>
vars == <<streamVars, dbVars, dlq, procVars, faults>>

Ids    == 1..Len(log)
MsgIds == 1..MaxPublish

(* The message of its batch that consumer c handles now. *)
Current(c, m) == m \in batch[c] /\ \A k \in batch[c] : m <= k

(* c has inserted the claim of event e in a transaction still open. *)
Holds(c, e) == pc[c] = "apply" /\ \E m \in batch[c] : Current(c, m) /\ log[m] = e

(* The outcome handle_one reaches before it acknowledges message m. *)
Decided(m) == \/ log[m] \in processed
              \/ log[m] \in Malformed /\ dlq[m] > 0

(* The n least elements of S: what COUNT leaves of an ordered scan. *)
Lowest(S, n) == {m \in S : Cardinality({k \in S : k < m}) < n}

-----------------------------------------------------------------------------
Init ==
  /\ log = <<>> /\ first = 1 /\ cursor = 0
  /\ pel = {} /\ idle = {}
  /\ processed = {} /\ effects = [e \in Events |-> 0]
  /\ dlq = [m \in MsgIds |-> 0]
  /\ half = [c \in Consumers |-> "reclaim"]
  /\ batch = [c \in Consumers |-> {}]
  /\ pc = [c \in Consumers |-> "poll"]
  /\ faults = 0

(* XADD MAXLEN ~: append, then drop any prefix that leaves MaxLen entries. *)
Publish(e) ==
  /\ Len(log) < MaxPublish
  /\ log' = Append(log, e)
  /\ first' \in {i \in first..Len(log') : i = first \/ Len(log') - i + 1 >= MaxLen}
  /\ UNCHANGED <<cursor, pel, idle, dbVars, dlq, procVars, faults>>

(* Time passes: a pending entry reaches the idle time XAUTOCLAIM asks for, *)
(* whether its consumer died or is merely slow.                            *)
IdleElapses(m) ==
  /\ m \in pel \ idle
  /\ idle' = idle \cup {m}
  /\ UNCHANGED <<log, first, cursor, pel, dbVars, dlq, procVars, faults>>

(* Mutation of Reclaim: nothing is ever taken over, as with XREADGROUP alone. *)
Reclaim_Nothing(c) ==
  /\ pc[c] = "poll" /\ half[c] = "reclaim"
  /\ pc' = [pc EXCEPT ![c] = "handle"]
  /\ UNCHANGED <<streamVars, dbVars, dlq, half, batch, faults>>

(* XAUTOCLAIM from 0-0: entries trimmed away leave the pending list, idle  *)
(* ones restart their idle time in this consumer's hands.                  *)
Reclaim(c) ==
  /\ pc[c] = "poll" /\ half[c] = "reclaim"
  /\ LET scanned == Lowest({m \in pel : m < first \/ m \in idle}, BatchSize)
         claimed == {m \in scanned : m >= first}
     IN /\ pel' = pel \ (scanned \ claimed)
        /\ idle' = idle \ scanned
        /\ batch' = [batch EXCEPT ![c] = claimed]
  /\ pc' = [pc EXCEPT ![c] = "handle"]
  /\ UNCHANGED <<log, first, cursor, dbVars, dlq, half, faults>>

(* XREADGROUP ">": the entries still in the stream past the group cursor. *)
Read(c) ==
  /\ pc[c] = "poll" /\ half[c] = "read"
  /\ LET from == IF cursor + 1 >= first THEN cursor + 1 ELSE first
         to   == IF from + BatchSize - 1 <= Len(log) THEN from + BatchSize - 1
                                                     ELSE Len(log)
     IN /\ cursor' = IF from <= to THEN to ELSE cursor
        /\ pel' = pel \cup from..to
        /\ batch' = [batch EXCEPT ![c] = from..to]
  /\ pc' = [pc EXCEPT ![c] = "handle"]
  /\ UNCHANGED <<log, first, idle, dbVars, dlq, half, faults>>

(* The loop over a reply ends: read after reclaim, the next pass after read. *)
FinishBatch(c) ==
  /\ pc[c] = "handle" /\ batch[c] = {}
  /\ half' = [half EXCEPT ![c] = IF @ = "reclaim" THEN "read" ELSE "reclaim"]
  /\ pc' = [pc EXCEPT ![c] = "poll"]
  /\ UNCHANGED <<streamVars, dbVars, dlq, batch, faults>>

(* _decode refuses the message: XADD to the dead-letter stream.  The XACK  *)
(* is a second command, the same one an applied message gets.              *)
DeadLetter(c, m) ==
  /\ pc[c] = "handle" /\ Current(c, m)
  /\ log[m] \in Malformed
  /\ dlq' = [dlq EXCEPT ![m] = @ + 1]
  /\ pc' = [pc EXCEPT ![c] = "ack"]
  /\ UNCHANGED <<streamVars, dbVars, half, batch, faults>>

(* Mutations of Claim: the key is looked up instead of inserted, so that   *)
(* nothing waits; the message is acknowledged first; _decode is skipped.   *)
Claim_WithoutWait(c, m) ==
  /\ pc[c] = "handle" /\ Current(c, m)
  /\ log[m] \notin Malformed
  /\ pc' = [pc EXCEPT ![c] = IF log[m] \in processed THEN "ack" ELSE "apply"]
  /\ UNCHANGED <<streamVars, dbVars, dlq, half, batch, faults>>
Claim_AckFirst(c, m) ==
  /\ pc[c] = "handle" /\ Current(c, m)
  /\ log[m] \notin Malformed
  /\ \A d \in Consumers \ {c} : ~Holds(d, log[m])
  /\ pel' = pel \ {m} /\ idle' = idle \ {m}
  /\ pc' = [pc EXCEPT ![c] = IF log[m] \in processed THEN "ack" ELSE "apply"]
  /\ UNCHANGED <<log, first, cursor, dbVars, dlq, half, batch, faults>>
Claim_Undecoded(c, m) ==
  /\ pc[c] = "handle" /\ Current(c, m)
  /\ \A d \in Consumers \ {c} : ~Holds(d, log[m])
  /\ pc' = [pc EXCEPT ![c] = IF log[m] \in processed THEN "ack" ELSE "apply"]
  /\ UNCHANGED <<streamVars, dbVars, dlq, half, batch, faults>>

(* INSERT ... ON CONFLICT DO NOTHING.  A row another transaction has       *)
(* inserted and not committed makes the statement wait for it.             *)
Claim(c, m) ==
  /\ pc[c] = "handle" /\ Current(c, m)
  /\ log[m] \notin Malformed
  /\ \A d \in Consumers \ {c} : ~Holds(d, log[m])
  /\ pc' = [pc EXCEPT ![c] = IF log[m] \in processed THEN "ack" ELSE "apply"]
  /\ UNCHANGED <<streamVars, dbVars, dlq, half, batch, faults>>

(* Mutation of Commit: the effect commits without the processed_events row. *)
Commit_WithoutRow(c, m) ==
  /\ pc[c] = "apply" /\ Current(c, m)
  /\ effects' = [effects EXCEPT ![log[m]] = @ + 1]
  /\ pc' = [pc EXCEPT ![c] = "ack"]
  /\ UNCHANGED <<streamVars, processed, dlq, half, batch, faults>>

(* The handler returns and its effect commits together with the claim. *)
Commit(c, m) ==
  /\ pc[c] = "apply" /\ Current(c, m)
  /\ processed' = processed \cup {log[m]}
  /\ effects' = [effects EXCEPT ![log[m]] = @ + 1]
  /\ pc' = [pc EXCEPT ![c] = "ack"]
  /\ UNCHANGED <<streamVars, dlq, half, batch, faults>>

(* Mutation of Ack: an acknowledged entry keeps its place in the idle scan. *)
Ack_StillIdle(c, m) ==
  /\ pc[c] = "ack" /\ Current(c, m)
  /\ pel' = pel \ {m}
  /\ batch' = [batch EXCEPT ![c] = @ \ {m}]
  /\ pc' = [pc EXCEPT ![c] = "handle"]
  /\ UNCHANGED <<log, first, cursor, idle, dbVars, dlq, half, faults>>

(* XACK, strictly after the commit (or after the dead-letter XADD). *)
Ack(c, m) ==
  /\ pc[c] = "ack" /\ Current(c, m)
  /\ pel' = pel \ {m} /\ idle' = idle \ {m}
  /\ batch' = [batch EXCEPT ![c] = @ \ {m}]
  /\ pc' = [pc EXCEPT ![c] = "handle"]
  /\ UNCHANGED <<log, first, cursor, dbVars, dlq, half, faults>>

(* The handler, Redis or Postgres raises out of run_once, or the process   *)
(* dies and is restarted under its stable name.  The open transaction      *)
(* rolls back, the rest of the reply is forgotten, the next run_once       *)
(* starts with the reclaim.                                                *)
Abort(c) ==
  /\ faults < MaxFaults
  /\ <<pc[c], half[c]>> # <<"poll", "reclaim">>
  /\ half' = [half EXCEPT ![c] = "reclaim"]
  /\ batch' = [batch EXCEPT ![c] = {}]
  /\ pc' = [pc EXCEPT ![c] = "poll"]
  /\ faults' = faults + 1
  /\ UNCHANGED <<streamVars, dbVars, dlq>>

HandleOne(c) == \E m \in batch[c] :
  DeadLetter(c, m) \/ Claim(c, m) \/ Commit(c, m) \/ Ack(c, m)

RunOnce(c) == Reclaim(c) \/ Read(c) \/ FinishBatch(c) \/ HandleOne(c)

Next ==
  \/ \E e \in Events : Publish(e)
  \/ \E m \in pel : IdleElapses(m)
  \/ \E c \in Consumers : RunOnce(c) \/ Abort(c)

Spec == Init /\ [][Next]_vars

(* run_once is called in a loop by every consumer process, its awaits      *)
(* return, and time passes.  Publishing and faults are owed by nobody.     *)
Fairness ==
  /\ \A c \in Consumers : WF_vars(RunOnce(c))
  /\ \A m \in MsgIds : WF_vars(IdleElapses(m))

FairSpec == Spec /\ Fairness

-----------------------------------------------------------------------------
(* Every variable keeps the type the code gives it; a batch and the        *)
(* pending list only name messages the stream has delivered.               *)
TypeOK ==
  /\ log \in Seq(Events) /\ Len(log) <= MaxPublish
  /\ first \in Nat \ {0} /\ cursor \in 0..Len(log)
  /\ pel \subseteq 1..cursor /\ idle \subseteq pel
  /\ processed \subseteq Events /\ effects \in [Events -> Nat]
  /\ dlq \in [MsgIds -> Nat]
  /\ half \in [Consumers -> {"reclaim", "read"}]
  /\ batch \in [Consumers -> SUBSET (1..cursor)]
  /\ pc \in [Consumers -> {"poll", "handle", "apply", "ack"}]
  /\ faults \in 0..MaxFaults

(* No event's effect is committed twice, however often it is published,    *)
(* redelivered, reclaimed from a slow consumer or retried after a crash    *)
(* (_claim_and_apply).                                                     *)
EffectAtMostOnce == \A e \in Events : effects[e] <= 1

(* A message that trimming has left alone is undelivered, pending, or      *)
(* decided: no order of commit, dead-letter, XACK, crash and reclaim       *)
(* acknowledges an event whose effect is not durable (handle_one).         *)
NoEventLost ==
  \A m \in Ids : m < first \/ m > cursor \/ m \in pel \/ Decided(m)

(* A malformed message never reaches a handler (_decode).  Between the     *)
(* claim and the commit no other consumer is inside the handler with the   *)
(* same event, so handlers need no lock of their own.                      *)
HandlerExclusive ==
  \A c, d \in Consumers : \A e \in Events :
    Holds(c, e) /\ Holds(d, e) => c = d /\ e \notin Malformed

(* Once faults have ceased every message leaves the pending list, decided, *)
(* unless trimming overtook it (run_once reclaims what was stranded).      *)
EventuallyDecided ==
  \A m \in MsgIds : (m <= Len(log)) ~>
    (m \notin pel /\ (m < first \/ (m <= cursor /\ Decided(m))))

-----------------------------------------------------------------------------
(* What the bus promises its callers, as ExactlyOnceEffect states it. *)
Promise == INSTANCE ExactlyOnceEffect WITH
             Valid <- Events \ Malformed,
             accepted <- {log[m] : m \in Ids},
             applied <- effects
PromiseKept == Promise!Spec
=============================================================================
