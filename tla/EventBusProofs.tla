--------------------------- MODULE EventBusProofs ---------------------------
(***************************************************************************)
(* Proofs about EventBus for any events, consumers, batch size, stream     *)
(* bound and number of faults.                                             *)
(***************************************************************************)
EXTENDS EventBus, Integers, TLAPS

(* Every step keeps the types: the group cursor never passes the end of    *)
(* the stream, and batches and the pending list stay behind it however     *)
(* reads, reclaims, acknowledgements and crashes interleave.               *)
LEMMA TypeStep == TypeOK /\ [Next]_vars => TypeOK'
<1> USE BusAssumption DEF MsgIds, Ids
<1> SUFFICES ASSUME TypeOK, [Next]_vars PROVE TypeOK'
  OBVIOUS
<1> USE DEF TypeOK, streamVars, dbVars, procVars
<1>1. ASSUME NEW e \in Events, Publish(e) PROVE TypeOK'
  <2>1. /\ log' \in Seq(Events) /\ Len(log') = Len(log) + 1
        /\ Len(log') <= MaxPublish
    BY <1>1 DEF Publish
  <2>2. first' \in Nat \ {0}
    BY <1>1, <2>1 DEF Publish
  <2>3. UNCHANGED <<cursor, pel, idle, processed, effects, dlq, half, batch, pc, faults>>
    BY <1>1 DEF Publish
  <2>4. cursor' \in 0..Len(log')
    BY <2>1, <2>3
  <2> QED
    BY <2>1, <2>2, <2>3, <2>4
<1>2. ASSUME NEW m \in pel, IdleElapses(m) PROVE TypeOK'
  BY <1>2 DEF IdleElapses
<1>3. ASSUME NEW c \in Consumers, Reclaim(c) PROVE TypeOK'
  BY <1>3 DEF Reclaim, Lowest
<1>4. ASSUME NEW c \in Consumers, Read(c) PROVE TypeOK'
  <2> DEFINE from == IF cursor + 1 >= first THEN cursor + 1 ELSE first
             to   == IF from + BatchSize - 1 <= Len(log) THEN from + BatchSize - 1
                                                         ELSE Len(log)
  <2>1. /\ from \in Nat /\ to \in Int /\ from >= cursor + 1 /\ to <= Len(log)
        /\ Len(log) \in Nat
    OBVIOUS
  <2>2. /\ cursor' = IF from <= to THEN to ELSE cursor
        /\ pel' = pel \cup from..to
        /\ batch' = [batch EXCEPT ![c] = from..to]
        /\ pc' = [pc EXCEPT ![c] = "handle"]
        /\ UNCHANGED <<log, first, idle, processed, effects, dlq, half, faults>>
    BY <1>4 DEF Read
  <2>3. cursor' \in cursor..Len(log) /\ from..to \subseteq 1..cursor'
    BY <2>1, <2>2
  <2>4. pel' \subseteq 1..cursor'
    <3>1. pel \subseteq 1..cursor /\ 1..cursor \subseteq 1..cursor'
      BY <2>3
    <3> HIDE DEF from, to
    <3> QED
      BY <2>2, <2>3, <3>1
  <2>5. batch' \in [Consumers -> SUBSET (1..cursor')]
    <3>1. 1..cursor \subseteq 1..cursor'
      BY <2>1, <2>3
    <3>2. from..to \in SUBSET (1..cursor') /\ SUBSET (1..cursor) \subseteq SUBSET (1..cursor')
      BY <2>3, <3>1
    <3> HIDE DEF from, to
    <3> QED
      BY <2>2, <3>2
  <2> QED
    BY <2>2, <2>3, <2>4, <2>5, SMTT(30)
<1>5. ASSUME NEW c \in Consumers, FinishBatch(c) PROVE TypeOK'
  BY <1>5 DEF FinishBatch
<1>6. ASSUME NEW c \in Consumers, NEW m \in batch[c], DeadLetter(c, m) PROVE TypeOK'
  <2>1. m \in MsgIds
    BY <1>6
  <2>2. dlq' \in [MsgIds -> Nat]
    BY <1>6, <2>1 DEF DeadLetter
  <2> QED
    BY <1>6, <2>2 DEF DeadLetter
<1>7. ASSUME NEW c \in Consumers, NEW m \in batch[c], Claim(c, m) PROVE TypeOK'
  BY <1>7 DEF Claim
<1>8. ASSUME NEW c \in Consumers, NEW m \in batch[c], Commit(c, m) PROVE TypeOK'
  <2>1. log[m] \in Events
    <3>1. m \in 1..Len(log)
      BY <1>8
    <3> QED
      BY <3>1
  <2>2. effects' \in [Events -> Nat]
    BY <1>8, <2>1, SMTT(30) DEF Commit
  <2> QED
    BY <1>8, <2>1, <2>2 DEF Commit
<1>9. ASSUME NEW c \in Consumers, NEW m \in batch[c], Ack(c, m) PROVE TypeOK'
  BY <1>9 DEF Ack
<1>10. ASSUME NEW c \in Consumers, Abort(c) PROVE TypeOK'
  BY <1>10 DEF Abort
<1>11. CASE UNCHANGED vars
  BY <1>11 DEF vars
<1> QED
  BY <1>1, <1>2, <1>3, <1>4, <1>5, <1>6, <1>7, <1>8, <1>9, <1>10, <1>11
     DEF Next, RunOnce, HandleOne

(* The type invariant, for every set of events and consumers and every     *)
(* bound: it holds initially and each action of run_once and publish       *)
(* keeps it.                                                               *)
THEOREM TypeCorrect == Spec => []TypeOK
<1>1. Init => TypeOK
  BY BusAssumption DEF Init, TypeOK, MsgIds
<1> QED
  BY <1>1, TypeStep, PTL DEF Spec

-----------------------------------------------------------------------------
(* The stream is append-only and outcomes are durable: a step never        *)
(* changes the event behind an id nor undoes the decision taken on it.     *)
LEMMA DecidedStable ==
  ASSUME TypeOK, [Next]_vars, NEW m \in Ids
  PROVE  m \in Ids' /\ log'[m] = log[m] /\ (Decided(m) => Decided(m)')
<1> USE BusAssumption DEF TypeOK, Ids, MsgIds, streamVars, dbVars, procVars
<1>1. m \in Ids' /\ log'[m] = log[m]
  <2>1. CASE \E e \in Events : Publish(e)
    BY <2>1 DEF Publish
  <2>2. CASE UNCHANGED log
    BY <2>2
  <2> QED
    BY <2>1, <2>2 DEF Next, vars, RunOnce, HandleOne, IdleElapses, Reclaim, Read,
       FinishBatch, DeadLetter, Claim, Commit, Ack, Abort
<1>2. processed \subseteq processed' /\ dlq'[m] >= dlq[m]
  <2>1. CASE \E c \in Consumers : \E k \in batch[c] : Commit(c, k)
    BY <2>1 DEF Commit
  <2>2. CASE \E c \in Consumers : \E k \in batch[c] : DeadLetter(c, k)
    BY <2>2 DEF DeadLetter
  <2>3. CASE UNCHANGED <<processed, dlq>>
    BY <2>3
  <2> QED
    BY <2>1, <2>2, <2>3 DEF Next, vars, RunOnce, HandleOne, Publish, IdleElapses,
       Reclaim, Read, FinishBatch, Claim, Ack, Abort
<1>3. m \in MsgIds /\ dlq[m] \in Nat /\ dlq'[m] \in Nat
  BY TypeStep, SMTT(30)
<1> QED
  BY <1>1, <1>2, <1>3 DEF Decided

(* What makes NoEventLost inductive: a consumer about to acknowledge a     *)
(* message has already made its outcome durable.                           *)
AckAfterDecision ==
  \A c \in Consumers : \A m \in batch[c] :
    pc[c] = "ack" /\ Current(c, m) => Decided(m)

(* At most one message of a batch is the current one. *)
LEMMA CurrentUnique ==
  ASSUME TypeOK, NEW c \in Consumers, NEW m, NEW k, Current(c, m), Current(c, k)
  PROVE  m = k
BY DEF TypeOK, Current

(* AckAfterDecision holds along every step: only DeadLetter, Claim and     *)
(* Commit bring a consumer to its acknowledgement, each with the outcome.  *)
LEMMA AckStep ==
  TypeOK /\ AckAfterDecision /\ [Next]_vars => AckAfterDecision'
<1> SUFFICES ASSUME TypeOK, AckAfterDecision, [Next]_vars,
                    NEW d \in Consumers, NEW n \in batch'[d],
                    pc'[d] = "ack", Current(d, n)'
             PROVE  Decided(n)'
  BY DEF AckAfterDecision
<1> USE BusAssumption DEF streamVars, dbVars, procVars
<1>1. CASE UNCHANGED <<batch[d], pc[d]>>
  <2>1. Current(d, n) /\ n \in batch[d] /\ pc[d] = "ack"
    BY <1>1 DEF Current
  <2>2. n \in Ids /\ Decided(n)
    BY <2>1 DEF AckAfterDecision, TypeOK, Ids
  <2> QED
    BY <2>2, DecidedStable
<1>2. ASSUME NEW m \in batch[d], DeadLetter(d, m) PROVE Decided(n)'
  <2>1. n = m
    BY <1>2, CurrentUnique DEF DeadLetter, Current
  <2> QED
    BY <1>2, <2>1 DEF DeadLetter, Decided, TypeOK, Ids, MsgIds
<1>3. ASSUME NEW m \in batch[d], Claim(d, m) PROVE Decided(n)'
  <2>1. n = m
    BY <1>3, CurrentUnique DEF Claim, Current
  <2> QED
    BY <1>3, <2>1 DEF Claim, Decided, TypeOK
<1>4. ASSUME NEW m \in batch[d], Commit(d, m) PROVE Decided(n)'
  <2>1. n = m
    BY <1>4, CurrentUnique DEF Commit, Current
  <2> QED
    BY <1>4, <2>1 DEF Commit, Decided
<1>5. ASSUME NEW m \in batch[d], Ack(d, m) PROVE FALSE
  BY <1>5 DEF Ack, TypeOK
<1>6. ASSUME Reclaim(d) \/ Read(d) \/ FinishBatch(d) \/ Abort(d) PROVE FALSE
  BY <1>6 DEF Reclaim, Read, FinishBatch, Abort, TypeOK
<1>7. ASSUME NEW c \in Consumers \ {d}, RunOnce(c) \/ Abort(c)
      PROVE  UNCHANGED <<batch[d], pc[d]>>
  BY <1>7 DEF RunOnce, HandleOne, Reclaim, Read, FinishBatch, DeadLetter, Claim,
     Commit, Ack, Abort, TypeOK
<1>8. ASSUME (\E e \in Events : Publish(e)) \/ (\E m \in pel : IdleElapses(m)) \/ UNCHANGED vars
      PROVE  UNCHANGED <<batch[d], pc[d]>>
  BY <1>8 DEF Publish, IdleElapses, vars
<1> QED
  BY <1>1, <1>2, <1>3, <1>4, <1>5, <1>6, <1>7, <1>8 DEF Next, RunOnce, HandleOne

(* Redelivery loses nothing: an event leaves the pending list only once    *)
(* its effect is committed or its dead-letter record is written, unless    *)
(* trimming removed the message itself.                                    *)
THEOREM NothingLost == Spec => []NoEventLost
<1> DEFINE LossInv == NoEventLost /\ AckAfterDecision
<1>1. Init => LossInv
  BY DEF Init, NoEventLost, AckAfterDecision, Ids
<1>2. TypeOK /\ LossInv /\ [Next]_vars => NoEventLost'
  <2> SUFFICES ASSUME TypeOK, NoEventLost, AckAfterDecision, [Next]_vars,
                      NEW n \in Ids'
               PROVE  \/ n < first' \/ n > cursor' \/ n \in pel' \/ Decided(n)'
    BY DEF NoEventLost
  <2> USE BusAssumption DEF streamVars, dbVars, procVars
  <2>0. ASSUME n \notin Ids PROVE n > cursor'
    BY <2>0 DEF Next, vars, RunOnce, HandleOne, Publish, IdleElapses, Reclaim, Read,
       FinishBatch, DeadLetter, Claim, Commit, Ack, Abort, TypeOK, Ids
  <2> SUFFICES ASSUME n \in Ids
               PROVE  \/ n < first' \/ n > cursor' \/ n \in pel' \/ Decided(n)'
    BY <2>0
  <2>1. \/ n < first \/ n > cursor \/ n \in pel \/ Decided(n)
    BY DEF NoEventLost
  <2>2. Decided(n) => Decided(n)'
    BY DecidedStable
  <2>3. ASSUME NEW e \in Events, Publish(e)
        PROVE  first' >= first /\ cursor' = cursor /\ pel' = pel
    BY <2>3 DEF Publish, TypeOK
  <2>4. ASSUME NEW c \in Consumers, Reclaim(c)
        PROVE  first' = first /\ cursor' = cursor /\ \A m \in pel \ pel' : m < first
    BY <2>4 DEF Reclaim, Lowest, TypeOK
  <2>5. ASSUME NEW c \in Consumers, Read(c), n > cursor
        PROVE  \/ n < first' \/ n > cursor' \/ n \in pel'
    BY <2>5 DEF Read, TypeOK, Ids
  <2>6. ASSUME NEW c \in Consumers, Read(c)
        PROVE  first' = first /\ pel \subseteq pel'
    BY <2>6 DEF Read
  <2>7. ASSUME NEW c \in Consumers, NEW m \in batch[c], Ack(c, m)
        PROVE  first' = first /\ cursor' = cursor /\ pel' = pel \ {m} /\ Decided(m)
    BY <2>7 DEF Ack, AckAfterDecision
  <2>8. CASE UNCHANGED <<first, cursor, pel>>
    BY <2>1, <2>2, <2>8
  <2>9. ASSUME NEW c \in Consumers, Read(c)
        PROVE  \/ n < first' \/ n > cursor' \/ n \in pel' \/ Decided(n)'
    BY <2>1, <2>2, <2>5, <2>6, <2>9
  <2>10. ASSUME NEW c \in Consumers, NEW m \in batch[c], Ack(c, m)
         PROVE  \/ n < first' \/ n > cursor' \/ n \in pel' \/ Decided(n)'
    BY <2>1, <2>2, <2>7, <2>10
  <2>11. ASSUME NEW c \in Consumers, Reclaim(c)
         PROVE  \/ n < first' \/ n > cursor' \/ n \in pel' \/ Decided(n)'
    BY <2>1, <2>2, <2>4, <2>11
  <2>12. ASSUME NEW e \in Events, Publish(e)
         PROVE  \/ n < first' \/ n > cursor' \/ n \in pel' \/ Decided(n)'
    BY <2>1, <2>2, <2>3, <2>12 DEF TypeOK, Ids, Publish
  <2> QED
    BY <2>8, <2>9, <2>10, <2>11, <2>12 DEF Next, vars, RunOnce, HandleOne, IdleElapses,
       FinishBatch, DeadLetter, Claim, Commit, Abort
<1> QED
  BY <1>1, <1>2, AckStep, TypeCorrect, PTL DEF Spec

-----------------------------------------------------------------------------
(* The handler's effect and its processed_events row commit together, and  *)
(* an event whose claim is open has no committed row yet.                  *)
EffectMatchesRow ==
  \A e \in Events : effects[e] = IF e \in processed THEN 1 ELSE 0

ClaimIsFresh ==
  \A c \in Consumers : \A e \in Events : Holds(c, e) => e \notin processed

DedupInv == EffectMatchesRow /\ ClaimIsFresh /\ HandlerExclusive

(* A consumer that neither claims nor leaves the handler in a step holds   *)
(* after it only what it held before.                                      *)
LEMMA HoldsStable ==
  ASSUME TypeOK, [Next]_vars, NEW c \in Consumers, UNCHANGED <<batch[c], pc[c]>>,
         NEW e \in Events, Holds(c, e)'
  PROVE  Holds(c, e)
<1>1. PICK m \in batch[c] : Current(c, m) /\ log'[m] = e
  BY DEF Holds, Current
<1>2. m \in Ids
  BY DEF TypeOK, Ids
<1>3. log[m] = e
  BY <1>1, <1>2, DecidedStable
<1> QED
  BY <1>1, <1>3 DEF Holds, Current

(* The one step that opens a claim: the event was neither processed nor    *)
(* claimed by anybody else.                                                *)
LEMMA ClaimOpens ==
  ASSUME TypeOK, NEW c \in Consumers, NEW m \in batch[c], Claim(c, m),
         NEW e \in Events, Holds(c, e)'
  PROVE  /\ e = log[m] /\ e \notin processed /\ e \notin Malformed
         /\ \A d \in Consumers \ {c} : ~Holds(d, e)
<1> USE DEF streamVars, dbVars, procVars
<1>1. PICK n \in batch[c] : Current(c, n) /\ log[n] = e
  BY DEF Claim, Holds, Current
<1>2. n = m
  BY <1>1, CurrentUnique DEF Claim
<1>3. pc'[c] = "apply" /\ log[m] \notin processed
  BY DEF Claim, Holds, TypeOK
<1> QED
  BY <1>1, <1>2, <1>3 DEF Claim

(* Deduplication is inductive: the wait on an open claim keeps handlers    *)
(* apart, and committing the effect with the row keeps the count at one.   *)
LEMMA DedupStep == TypeOK /\ DedupInv /\ [Next]_vars => DedupInv'
<1> SUFFICES ASSUME TypeOK, DedupInv, [Next]_vars PROVE DedupInv'
  OBVIOUS
<1> USE DEF streamVars, dbVars, procVars
<1>1. ASSUME NEW c \in Consumers, NEW m \in batch[c], Claim(c, m) PROVE DedupInv'
  <2>1. \A d \in Consumers \ {c} : UNCHANGED <<batch[d], pc[d]>>
    BY <1>1 DEF Claim, TypeOK
  <2>2. \A d \in Consumers \ {c} : \A e \in Events : Holds(d, e)' => Holds(d, e)
    BY <2>1, HoldsStable
  <2>3. UNCHANGED <<processed, effects>>
    BY <1>1 DEF Claim
  <2>4. \A e \in Events : Holds(c, e)' =>
          /\ e \notin processed /\ e \notin Malformed
          /\ \A d \in Consumers \ {c} : ~Holds(d, e)
    BY <1>1, ClaimOpens
  <2> QED
    BY <2>2, <2>3, <2>4 DEF DedupInv, EffectMatchesRow, ClaimIsFresh, HandlerExclusive
<1>2. ASSUME NEW c \in Consumers, NEW m \in batch[c], Commit(c, m) PROVE DedupInv'
  <2>1. \A d \in Consumers \ {c} : UNCHANGED <<batch[d], pc[d]>>
    BY <1>2 DEF Commit, TypeOK
  <2>2. \A d \in Consumers \ {c} : \A e \in Events : Holds(d, e)' => Holds(d, e)
    BY <2>1, HoldsStable
  <2>3. \A e \in Events : ~Holds(c, e)'
    BY <1>2 DEF Commit, Holds, TypeOK
  <2>4. log[m] \in Events /\ Holds(c, log[m])
    BY <1>2 DEF Commit, Holds, TypeOK
  <2>5. log[m] \notin processed
    BY <2>4 DEF DedupInv, ClaimIsFresh
  <2>6. EffectMatchesRow'
    BY <1>2, <2>4, <2>5 DEF Commit, DedupInv, EffectMatchesRow, TypeOK
  <2>7. ClaimIsFresh'
    BY <1>2, <2>2, <2>3, <2>4 DEF Commit, DedupInv, ClaimIsFresh, HandlerExclusive
  <2>8. HandlerExclusive'
    BY <2>2, <2>3 DEF DedupInv, HandlerExclusive
  <2> QED
    BY <2>6, <2>7, <2>8 DEF DedupInv
<1>3. ASSUME \A c \in Consumers : \A e \in Events : Holds(c, e)' => Holds(c, e),
             UNCHANGED <<processed, effects>>
      PROVE  DedupInv'
  BY <1>3 DEF DedupInv, EffectMatchesRow, ClaimIsFresh, HandlerExclusive
<1>4. ASSUME NEW c \in Consumers, NEW m \in batch[c], DeadLetter(c, m) \/ Ack(c, m)
      PROVE  DedupInv'
  <2>1. \A d \in Consumers \ {c} : UNCHANGED <<batch[d], pc[d]>>
    BY <1>4 DEF DeadLetter, Ack, TypeOK
  <2>2. \A e \in Events : ~Holds(c, e)'
    BY <1>4 DEF DeadLetter, Ack, Holds, TypeOK
  <2>3. UNCHANGED <<processed, effects>>
    BY <1>4 DEF DeadLetter, Ack
  <2> QED
    BY <1>3, <2>1, <2>2, <2>3, HoldsStable
<1>5. ASSUME NEW c \in Consumers, Reclaim(c) \/ Read(c) \/ FinishBatch(c) \/ Abort(c)
      PROVE  DedupInv'
  <2>1. \A d \in Consumers \ {c} : UNCHANGED <<batch[d], pc[d]>>
    BY <1>5 DEF Reclaim, Read, FinishBatch, Abort, TypeOK
  <2>2. \A e \in Events : ~Holds(c, e)'
    BY <1>5 DEF Reclaim, Read, FinishBatch, Abort, Holds, TypeOK
  <2>3. UNCHANGED <<processed, effects>>
    BY <1>5 DEF Reclaim, Read, FinishBatch, Abort
  <2> QED
    BY <1>3, <2>1, <2>2, <2>3, HoldsStable
<1>6. ASSUME (\E e \in Events : Publish(e)) \/ (\E m \in pel : IdleElapses(m)) \/ UNCHANGED vars
      PROVE  DedupInv'
  <2>1. \A d \in Consumers : UNCHANGED <<batch[d], pc[d]>>
    BY <1>6 DEF Publish, IdleElapses, vars
  <2>2. UNCHANGED <<processed, effects>>
    BY <1>6 DEF Publish, IdleElapses, vars
  <2> QED
    BY <1>3, <2>1, <2>2, HoldsStable
<1> QED
  BY <1>1, <1>2, <1>4, <1>5, <1>6 DEF Next, RunOnce, HandleOne

(* Initially nothing is claimed and nothing has taken effect. *)
LEMMA DedupInit == Init => DedupInv
BY DEF Init, DedupInv, EffectMatchesRow, ClaimIsFresh, HandlerExclusive, Holds

(* Exactly-once effect over at-least-once delivery: however a message is   *)
(* duplicated, reclaimed or retried, _claim_and_apply commits an event's   *)
(* effect at most once.                                                    *)
THEOREM AtMostOnce == Spec => []EffectAtMostOnce
<1>1. DedupInv => EffectAtMostOnce
  BY DEF DedupInv, EffectMatchesRow, EffectAtMostOnce
<1> QED
  BY <1>1, DedupInit, DedupStep, TypeCorrect, PTL DEF Spec

(* Two consumers are never inside the handler with the same event, nor     *)
(* any consumer with a malformed one.                                      *)
THEOREM Exclusive == Spec => []HandlerExclusive
<1>1. DedupInv => HandlerExclusive
  BY DEF DedupInv
<1> QED
  BY <1>1, DedupInit, DedupStep, TypeCorrect, PTL DEF Spec

-----------------------------------------------------------------------------
(* The bus implements the contract its callers rely on: a publish is a     *)
(* Publish of the abstract specification, the commit of a handler's        *)
(* transaction is its Apply, and every other step of publisher, consumers, *)
(* stream and clock is invisible.                                          *)
THEOREM Refinement == Spec => PromiseKept
<1>1. Init => Promise!Init
  BY DEF Init, Promise!Init, Ids
<1>2. TypeOK /\ DedupInv /\ [Next]_vars
        => [Promise!Next]_<<{log[m] : m \in Ids}, effects>>
  <2> SUFFICES ASSUME TypeOK, DedupInv, [Next]_vars
               PROVE  Promise!Next \/ UNCHANGED <<{log[m] : m \in Ids}, effects>>
    OBVIOUS
  <2> USE DEF streamVars, dbVars, procVars, Ids
  <2>1. ASSUME NEW e \in Events, Publish(e) PROVE Promise!Next
    <3>1. /\ log' = Append(log, e) /\ UNCHANGED effects
          /\ log \in Seq(Events)
      BY <2>1 DEF Publish, TypeOK
    <3>2. /\ Len(log') = Len(log) + 1 /\ log'[Len(log) + 1] = e
          /\ \A m \in 1..Len(log) : log'[m] = log[m]
      BY <3>1
    <3>3. {log'[m] : m \in 1..Len(log')} = {log[m] : m \in 1..Len(log)} \cup {e}
      <4>1. 1..Len(log') = 1..Len(log) \cup {Len(log) + 1}
        BY <3>1, <3>2
      <4> QED
        BY <3>2, <4>1
    <3> QED
      BY <3>1, <3>3 DEF Promise!Next, Promise!Publish
  <2>2. ASSUME NEW c \in Consumers, NEW m \in batch[c], Commit(c, m) PROVE Promise!Next
    <3>1. /\ m \in 1..Len(log) /\ log[m] \in Events
      BY <2>2 DEF TypeOK
    <3>2. Holds(c, log[m])
      BY <2>2 DEF Commit, Holds
    <3>3. log[m] \notin Malformed /\ effects[log[m]] = 0
      BY <3>1, <3>2 DEF DedupInv, HandlerExclusive, ClaimIsFresh, EffectMatchesRow
    <3>4. UNCHANGED log /\ effects' = [effects EXCEPT ![log[m]] = 1]
      BY <2>2, <3>3 DEF Commit
    <3> QED
      BY <3>1, <3>3, <3>4 DEF Promise!Next, Promise!Apply
  <2>3. CASE UNCHANGED <<log, effects>>
    BY <2>3
  <2> QED
    BY <2>1, <2>2, <2>3 DEF Next, vars, RunOnce, HandleOne, IdleElapses, Reclaim, Read,
       FinishBatch, DeadLetter, Claim, Ack, Abort
<1> QED
  BY <1>1, <1>2, DedupInit, DedupStep, TypeCorrect, PTL
     DEF Spec, PromiseKept, Promise!Spec
=============================================================================
