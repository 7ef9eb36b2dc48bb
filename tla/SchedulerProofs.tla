-------------------------- MODULE SchedulerProofs --------------------------
(***************************************************************************)
(* Type correctness of the scheduler, that a fire time is run at most once *)
(* and that a recorded outcome stands, for every number of beats and jobs, *)
(* with faults and lost locks without bound.                               *)
(***************************************************************************)
EXTENDS Scheduler, FiniteSetTheorems, NaturalsInduction, WellFoundedInduction, TLAPS

USE SchedulerAssumption DEF Times, Policies

(* A set of naturals below a bound has a greatest element. *)
LEMMA GreatestExists ==
  ASSUME NEW n \in Nat, NEW S \in SUBSET (0..n), S # {}
  PROVE  Greatest(S) \in S /\ \A u \in S : u <= Greatest(S)
<1> DEFINE Below == {n - u : u \in S}
<1>1. Below \subseteq Nat /\ Below # {}
  <2>1. \A u \in S : u \in 0..n
    OBVIOUS
  <2>2. \A u \in S : n - u \in Nat
    BY <2>1
  <2>3. Below \subseteq Nat
    BY <2>2
  <2>4. PICK u \in S : TRUE
    OBVIOUS
  <2>5. n - u \in Below
    BY <2>4
  <2> QED BY <2>3, <2>5
<1>2. PICK x \in Below : \A y \in Below : ~(<<y, x>> \in OpToRel(<, Nat))
  <2> HIDE DEF Below
  <2> QED BY <1>1, NatLessThanWellFounded, WFMin
<1>3. \A y \in Below : ~(y < x)
  BY <1>1, <1>2 DEF OpToRel
<1>4. PICK t \in S : x = n - t
  OBVIOUS
<1>5. \A u \in S : u <= t
  <2> SUFFICES ASSUME NEW u \in S PROVE u <= t
    OBVIOUS
  <2>1. ~(n - u < n - t)
    BY <1>3, <1>4
  <2> QED BY <2>1
<1> QED BY <1>4, <1>5 DEF Greatest

(* No fire time before the first: the cursor of a job that has never run   *)
(* is less than one period before time zero.                               *)
LEMMA NoEarlierMultiple ==
  ASSUME NEW P \in Nat \ {0}, NEW n \in Nat, NEW t \in Int,
         t >= (n \div P - 1) * P + 1, t % P = 0
  PROVE  t >= 0
<1> DEFINE q == n \div P
           k == t \div P
<1>1. q \in Nat /\ (q - 1) * P >= 0 - P
  <2>1. q \in Nat
    BY SMTT(30)
  <2>2. q * P >= 0 /\ q * P \in Int
    <3> HIDE DEF q
    <3> QED BY <2>1
  <2>3. (q - 1) * P = q * P - P
    <3> HIDE DEF q
    <3> QED BY <2>1
  <2> QED BY <2>1, <2>2, <2>3
<1>2. k \in Int /\ t = P * k
  OBVIOUS
<1>3. t > 0 - P
  <2> DEFINE x == (q - 1) * P
  <2>1. t >= x + 1
    OBVIOUS
  <2>2. x \in Int
    BY <1>1
  <2>3. x >= 0 - P
    BY <1>1
  <2> HIDE DEF x, q
  <2> QED BY <2>1, <2>2, <2>3
<1> HIDE DEF q, k
<1>4. ASSUME k < 0 PROVE FALSE
  <2>1. P * k <= P * (0 - 1)
    BY <1>2, <1>4
  <2> QED BY <2>1, <1>2, <1>3
<1>5. P * k >= 0
  BY <1>2, <1>4
<1> QED BY <1>2, <1>5

LedgerOK == ledger \in [Jobs -> [Times -> {"none", "open"} \cup Outcomes]]

(* The backlog at n is of the times up to n.                               *)
LEMMA MissedInTime ==
  ASSUME LedgerOK, NEW j \in Jobs, NEW n \in Times
  PROVE  Missed(j, n) \subseteq 0..n
<1>1. CASE Claimed(j) # {}
  <2>1. Greatest(Claimed(j)) \in Times
    BY <1>1, GreatestExists DEF Claimed
  <2> QED BY <1>1, <2>1 DEF Missed, After, FireTimesIn
<1>2. CASE Claimed(j) = {}
  <2> SUFFICES ASSUME NEW t \in Missed(j, n) PROVE t \in 0..n
    OBVIOUS
  <2>1. t \in ((n \div Period[j] - 1) * Period[j] + 1)..n /\ t % Period[j] = 0
    BY <1>2 DEF Missed, After, FireTimesIn
  <2>2. Period[j] \in Nat \ {0} /\ (n \div Period[j] - 1) * Period[j] + 1 \in Int
    OBVIOUS
  <2>3. t \in Int /\ t <= n /\ t >= (n \div Period[j] - 1) * Period[j] + 1
    BY <2>1, <2>2
  <2>4. Period[j] \in Nat \ {0} /\ n \in Nat /\ t \in Int
    BY <2>2, <2>3
  <2>5. t >= (n \div Period[j] - 1) * Period[j] + 1 /\ t % Period[j] = 0
    BY <2>1, <2>3
  <2>6. t >= 0
    BY <2>4, <2>5, NoEarlierMultiple, Zenon
  <2> QED BY <2>3, <2>6
<1> QED BY <1>1, <1>2

(* What is due at n is due no later than n (due_fire_times). *)
LEMMA DueInTime ==
  ASSUME LedgerOK, NEW j \in Jobs, NEW n \in Times
  PROVE  DueFireTimes(j, n) \subseteq 0..n
<1>1. Missed(j, n) \subseteq 0..n
  BY MissedInTime
<1>2. Missed(j, n) # {} => Greatest(Missed(j, n)) \in 0..n
  <2>1. n \in Nat /\ Missed(j, n) \in SUBSET (0..n)
    BY <1>1
  <2> QED BY <2>1, GreatestExists
<1> QED BY <1>1, <1>2 DEF DueFireTimes

-----------------------------------------------------------------------------
(* The inductive invariant of the types, in named parts.                   *)
Types ==
  /\ nowUtc \in Times /\ lock \in Beats \cup {NoBeat}
  /\ ledger \in [Jobs -> [Times -> {"none", "open"} \cup Outcomes]]
  /\ timesRun \in [Jobs -> [Times -> Nat]]
  /\ beat \in [Beats -> {"down", "boot", "sleep", "tick", "unwind"}]
  /\ pos \in [Beats -> Specs] /\ at \in [Beats -> Times]
  /\ due \in [Beats -> SUBSET Times] /\ got \in [Beats -> SUBSET Times]
  /\ stage \in [Beats -> [Jobs -> {"none", "queued", "ready", "running", "done", "broken"}]]
  /\ fires \in [Beats -> [Jobs -> SUBSET Times]]
  /\ failures \in 0..MaxFailures /\ drops \in 0..MaxDrops

(* The fires of a task are rows of the ledger. *)
Rows == \A b \in Beats, j \in Jobs : \A t \in fires[b][j] : ledger[j][t] # "none"

(* A task has fires as long as it is not done. *)
Busy == \A b \in Beats, j \in Jobs :
          (stage[b][j] \in {"none", "done"}) <=> (fires[b][j] = {})

(* Only a tick claims, and for a job that has no task. *)
Claiming ==
  \A b \in Beats :
    /\ beat[b] # "tick" => due[b] = {} /\ got[b] = {}
    /\ due[b] # {} \/ got[b] # {} => stage[b][Order[pos[b]]] = "none"

(* What a tick has won is in the ledger. *)
Won == \A b \in Beats : \A t \in got[b] : ledger[Order[pos[b]]][t] # "none"

TypeInv == Types /\ Rows /\ Busy /\ Claiming /\ Won

LEMMA TypeInvType == TypeInv => TypeOK
<1> SUFFICES ASSUME TypeInv PROVE TypeOK
  OBVIOUS
<1>1. \A b \in Beats, j \in Jobs : fires[b][j] \subseteq Claimed(j)
  BY SMTT(30) DEF TypeInv, Types, Rows, Claimed
<1>2. Types /\ Busy
  BY DEF TypeInv
<1> QED BY <1>1, <1>2 DEF Types, Busy, TypeOK

LEMMA Constants ==
  /\ 1 \in Specs /\ 0 \in Times
  /\ \A k \in Specs : Order[k] \in Jobs /\ (k # Cardinality(Jobs) => k + 1 \in Specs)
<1> DEFINE N == Cardinality(Jobs)
<1>1. N \in Nat
  BY FS_CardinalityType
<1>2. N # 0
  BY FS_EmptySet
<1>3. \A k \in 1..N : Order[k] \in Jobs
  OBVIOUS
<1>4. Specs = 1..N
  BY DEF Specs
<1> HIDE DEF N
<1>5. \A k \in 1..N : k # N => k + 1 \in 1..N
  BY <1>1
<1>6. 1 \in 1..N
  BY <1>1, <1>2
<1>7. \A k \in Specs : Order[k] \in Jobs /\ (k # N => k + 1 \in Specs)
  BY <1>3, <1>4, <1>5
<1> QED BY <1>4, <1>6, <1>7 DEF N

LEMMA TypeInit == Init => TypeInv
<1> SUFFICES ASSUME Init PROVE TypeInv
  OBVIOUS
<1>1. Types
  BY Constants DEF Init, Types
<1>2. Rows /\ Won
  BY DEF Init, Rows, Won
<1>3. Busy
  BY DEF Init, Busy
<1>4. Claiming
  BY DEF Init, Claiming
<1> QED BY <1>1, <1>2, <1>3, <1>4 DEF TypeInv

(* A step that touches neither the ledger nor the tasks nor a claim loop.  *)
LEMMA Aside ==
  /\ TypeInv /\ Types'
  /\ ledger' = ledger /\ due' = due /\ got' = got /\ stage' = stage /\ fires' = fires
  /\ \A b \in Beats : \/ beat'[b] = beat[b] /\ pos'[b] = pos[b]
                      \/ due[b] = {} /\ got[b] = {}
  => TypeInv'
<1> SUFFICES ASSUME
      TypeInv, Types', UNCHANGED <<ledger, due, got, stage, fires>>,
      \A b \in Beats : \/ beat'[b] = beat[b] /\ pos'[b] = pos[b]
                       \/ due[b] = {} /\ got[b] = {}
    PROVE TypeInv'
  OBVIOUS
<1>1. Rows'
  BY DEF TypeInv, Rows
<1>2. Busy'
  BY DEF TypeInv, Busy
<1>3. Claiming'
  BY DEF TypeInv, Claiming
<1>4. Won'
  <2>1. ASSUME NEW b \in Beats, NEW t \in got[b] PROVE ledger[Order[pos[b]]][t] # "none" /\ pos'[b] = pos[b]
    BY <2>1 DEF TypeInv, Won
  <2> QED BY <2>1 DEF Won
<1> QED BY <1>1, <1>2, <1>3, <1>4 DEF TypeInv

LEMMA TypeNextEntry ==
  ASSUME Types, NEW b \in Beats, NextEntry(b)
  PROVE  /\ beat' \in [Beats -> {"down", "boot", "sleep", "tick", "unwind"}]
         /\ pos' \in [Beats -> Specs] /\ at' \in [Beats -> Times]
         /\ \A c \in Beats \ {b} : beat'[c] = beat[c] /\ pos'[c] = pos[c]
<1>1. CASE pos[b] = Cardinality(Jobs)
  <2>1. /\ beat' = [beat EXCEPT ![b] = "sleep"]
        /\ pos' = [pos EXCEPT ![b] = 1] /\ at' = [at EXCEPT ![b] = 0]
    BY <1>1 DEF NextEntry
  <2> QED BY <2>1, Constants DEF Types
<1>2. CASE pos[b] # Cardinality(Jobs)
  <2>1. pos[b] + 1 \in Specs
    BY <1>2, Constants DEF Types
  <2>2. pos' = [pos EXCEPT ![b] = @ + 1] /\ UNCHANGED <<beat, at>>
    BY <1>2 DEF NextEntry
  <2> QED BY <2>1, <2>2 DEF Types
<1> QED BY <1>1, <1>2

LEMMA TypeStopped ==
  ASSUME TypeInv, NEW b \in Beats, Stopped(b), failures' \in 0..MaxFailures
  PROVE  TypeInv'
<1>1. Types'
  BY Constants DEF TypeInv, Types, Stopped
<1>2. Rows'
  BY DEF TypeInv, Types, Rows, Stopped
<1>3. Busy'
  BY DEF TypeInv, Types, Busy, Stopped
<1>4. Claiming'
  BY DEF TypeInv, Types, Claiming, Stopped
<1>5. Won'
  BY DEF TypeInv, Types, Won, Stopped
<1> QED BY <1>1, <1>2, <1>3, <1>4, <1>5 DEF TypeInv

LEMMA TypeUnwind ==
  ASSUME TypeInv, NEW b \in Beats, Unwind(b), failures' \in 0..MaxFailures
  PROVE  TypeInv'
<1>1. Types'
  BY DEF TypeInv, Types, Unwind, taskVars
<1>2. Rows' /\ Busy'
  BY DEF TypeInv, Rows, Busy, Unwind, taskVars
<1>3. Claiming'
  BY DEF TypeInv, Types, Claiming, Unwind, taskVars
<1>4. Won'
  BY DEF TypeInv, Types, Won, Unwind
<1> QED BY <1>1, <1>2, <1>3, <1>4 DEF TypeInv

LEMMA TypeTickStart ==
  ASSUME TypeInv, NEW b \in Beats, TickStart(b)
  PROVE  TypeInv'
<1>1. Types'
  BY Constants DEF TypeInv, Types, TickStart
<1>2. Rows'
  BY DEF TypeInv, TickStart, Rows
<1>3. got[b] = {} /\ got' = got /\ ledger' = ledger /\ \A c \in Beats \ {b} : pos'[c] = pos[c]
  BY DEF TypeInv, Types, TickStart, Claiming
<1>4. Won'
  BY <1>3 DEF TypeInv, Won
<1>5. Busy'
  BY DEF TypeInv, Types, TickStart, Busy
<1>6. Claiming'
  BY DEF TypeInv, Types, TickStart, Claiming
<1> QED BY <1>1, <1>2, <1>4, <1>5, <1>6 DEF TypeInv

LEMMA TypeConsider ==
  ASSUME TypeInv, NEW b \in Beats, Consider(b)
  PROVE  TypeInv'
<1> DEFINE j == Order[pos[b]]
<1>1. CASE NextEntry(b) /\ UNCHANGED due
  <2>1. Types'
    BY <1>1, TypeNextEntry DEF TypeInv, Types, Consider, taskVars
  <2>2. UNCHANGED <<ledger, due, got, stage, fires>>
    BY <1>1 DEF Consider, taskVars
  <2>3. \A c \in Beats : \/ beat'[c] = beat[c] /\ pos'[c] = pos[c]
                         \/ due[c] = {} /\ got[c] = {}
    BY <1>1, TypeNextEntry DEF TypeInv, Consider
  <2> QED BY <2>1, <2>2, <2>3, Aside
<1>2. CASE /\ stage[b][j] = "none" /\ due' = [due EXCEPT ![b] = DueFireTimes(j, at[b])]
           /\ UNCHANGED <<pos, beat, at>>
  <2>1. DueFireTimes(j, at[b]) \subseteq Times
    BY DueInTime, Constants, SMTT(30) DEF TypeInv, Types, LedgerOK
  <2> HIDE DEF j
  <2> USE <1>2 DEF Consider, taskVars
  <2>2. Types'
    BY <2>1 DEF TypeInv, Types
  <2>3. Rows' /\ Busy' /\ Won'
    BY DEF TypeInv, Rows, Busy, Won
  <2>4. Claiming'
    BY DEF TypeInv, Types, Claiming, j
  <2> QED BY <2>2, <2>3, <2>4 DEF TypeInv
<1> QED BY <1>1, <1>2 DEF Consider

LEMMA TypeClaim ==
  ASSUME TypeInv, NEW b \in Beats, Claim(b)
  PROVE  TypeInv'
<1> DEFINE j == Order[pos[b]]
<1>1. PICK t \in due[b] :
        LET wins == ledger[j][t] = "none" IN
        /\ ledger' = IF wins THEN [ledger EXCEPT ![j][t] = "open"] ELSE ledger
        /\ Tried(b, j, t, IF wins THEN got[b] \cup {t} ELSE got[b])
  BY DEF Claim
<1> DEFINE won == IF ledger[j][t] = "none" THEN got[b] \cup {t} ELSE got[b]
<1>2. /\ j \in Jobs /\ t \in Times /\ won \subseteq Times
      /\ stage[b][j] = "none" /\ fires[b][j] = {}
  <2>1. j \in Jobs
    BY Constants DEF TypeInv, Types
  <2>2. t \in Times /\ got[b] \subseteq Times
    BY DEF TypeInv, Types
  <2>3. stage[b][j] = "none"
    BY DEF TypeInv, Claiming
  <2>4. fires[b][j] = {}
    BY <2>1, <2>3 DEF TypeInv, Busy
  <2> QED BY <2>1, <2>2, <2>3, <2>4
<1>3. ledger' \in [Jobs -> [Times -> {"none", "open"} \cup Outcomes]]
  BY <1>1, <1>2 DEF TypeInv, Types
<1>4. /\ \A k \in Jobs, u \in Times : ledger[k][u] # "none" => ledger'[k][u] # "none"
      /\ \A u \in won : ledger'[j][u] # "none"
  <2>1. \A k \in Jobs, u \in Times : ledger[k][u] # "none" => ledger'[k][u] # "none"
    BY <1>1, <1>2 DEF TypeInv, Types
  <2>2. ledger'[j][t] # "none"
    BY <1>1, <1>2 DEF TypeInv, Types
  <2>3. \A u \in got[b] : u \in Times /\ ledger[j][u] # "none"
    BY DEF TypeInv, Types, Won
  <2> QED BY <1>2, <2>1, <2>2, <2>3
<1>5. Tried(b, j, t, won) /\ beat[b] = "tick" /\ UNCHANGED <<nowUtc, timesRun, lock, failures, drops>>
  BY <1>1 DEF Claim
<1>6. j = Order[pos[b]]
  OBVIOUS
<1> HIDE DEF won, j
<1>7. CASE due[b] # {t}
  <2>1. /\ due' = [due EXCEPT ![b] = @ \ {t}] /\ got' = [got EXCEPT ![b] = won]
        /\ UNCHANGED <<pos, beat, at, stage, fires>>
    BY <1>5, <1>7 DEF Tried, taskVars
  <2>2. Types'
    BY <1>2, <1>3, <1>5, <2>1 DEF TypeInv, Types
  <2>3. Rows'
    BY <1>4, <2>1 DEF TypeInv, Types, Rows
  <2>4. Busy'
    BY <2>1 DEF TypeInv, Busy
  <2>5. Claiming'
    BY <1>2, <1>5, <1>6, <2>1 DEF TypeInv, Types, Claiming
  <2>6. Won'
    BY <1>2, <1>4, <1>6, <2>1, Constants, ZenonT(30) DEF TypeInv, Types, Won
  <2> QED BY <2>2, <2>3, <2>4, <2>5, <2>6 DEF TypeInv
<1>8. CASE due[b] = {t}
  <2>1. /\ due' = [due EXCEPT ![b] = {}] /\ got' = [got EXCEPT ![b] = {}]
        /\ NextEntry(b)
    BY <1>5, <1>8 DEF Tried
  <2>2. \/ UNCHANGED <<stage, fires>>
        \/ /\ won # {} /\ stage' = [stage EXCEPT ![b][j] = "queued"]
           /\ fires' = [fires EXCEPT ![b][j] = won]
    BY <1>5, <1>8 DEF Tried, taskVars
  <2>3. /\ beat' \in [Beats -> {"down", "boot", "sleep", "tick", "unwind"}]
        /\ pos' \in [Beats -> Specs] /\ at' \in [Beats -> Times]
        /\ \A c \in Beats \ {b} : beat'[c] = beat[c] /\ pos'[c] = pos[c]
    BY <2>1, TypeNextEntry DEF TypeInv
  <2>4. /\ stage' \in [Beats -> [Jobs -> {"none", "queued", "ready", "running", "done", "broken"}]]
        /\ fires' \in [Beats -> [Jobs -> SUBSET Times]]
    <3>1. stage \in [Beats -> [Jobs -> {"none", "queued", "ready", "running", "done", "broken"}]]
          /\ fires \in [Beats -> [Jobs -> SUBSET Times]]
      BY DEF TypeInv, Types
    <3>2. [stage EXCEPT ![b][j] = "queued"]
            \in [Beats -> [Jobs -> {"none", "queued", "ready", "running", "done", "broken"}]]
      BY <1>2, <3>1
    <3>3. [fires EXCEPT ![b][j] = won] \in [Beats -> [Jobs -> SUBSET Times]]
      BY <1>2, <3>1
    <3> QED BY <2>2, <3>1, <3>2, <3>3
  <2>5. \A c \in Beats, k \in Jobs :
          \/ stage'[c][k] = stage[c][k] /\ fires'[c][k] = fires[c][k]
          \/ /\ c = b /\ k = j
             /\ stage'[c][k] = "queued" /\ fires'[c][k] = won /\ won # {}
    <3>1. CASE UNCHANGED <<stage, fires>>
      BY <3>1
    <3>2. CASE /\ won # {} /\ stage' = [stage EXCEPT ![b][j] = "queued"]
               /\ fires' = [fires EXCEPT ![b][j] = won]
      <4>1. stage \in [Beats -> [Jobs -> {"none", "queued", "ready", "running", "done", "broken"}]]
            /\ fires \in [Beats -> [Jobs -> SUBSET Times]]
        BY DEF TypeInv, Types
      <4> QED BY <1>2, <3>2, <4>1
    <3> QED BY <2>2, <3>1, <3>2
  <2>6. \A c \in Beats : /\ c # b => due'[c] = due[c] /\ got'[c] = got[c]
                         /\ c = b => due'[c] = {} /\ got'[c] = {}
    BY <2>1 DEF TypeInv, Types
  <2>7. Types'
    BY <1>3, <1>5, <2>1, <2>3, <2>4 DEF TypeInv, Types
  <2>8. Rows'
    <3> SUFFICES ASSUME NEW c \in Beats, NEW k \in Jobs, NEW u \in fires'[c][k]
                 PROVE  ledger'[k][u] # "none"
      BY DEF Rows
    <3>1. CASE c = b /\ k = j /\ fires'[c][k] = won
      BY <1>4, <3>1
    <3>2. CASE fires'[c][k] = fires[c][k]
      <4>1. fires[c][k] \subseteq Times
        BY DEF TypeInv, Types
      <4>2. u \in Times /\ ledger[k][u] # "none"
        BY <3>2, <4>1 DEF TypeInv, Rows
      <4> QED BY <1>4, <4>2
    <3> QED BY <2>5, <3>1, <3>2
  <2>9. Busy'
    BY <2>5, SMTT(30) DEF TypeInv, Busy
  <2>10. Claiming'
    <3> SUFFICES ASSUME NEW c \in Beats \ {b} 
                 PROVE  /\ beat'[c] # "tick" => due'[c] = {} /\ got'[c] = {}
                        /\ due'[c] # {} \/ got'[c] # {} => stage'[c][Order[pos'[c]]] = "none"
      BY <2>6 DEF Claiming
    <3>1. Order[pos[c]] \in Jobs
      BY Constants DEF TypeInv, Types
    <3>2. /\ beat'[c] = beat[c] /\ pos'[c] = pos[c]
          /\ due'[c] = due[c] /\ got'[c] = got[c]
          /\ stage'[c][Order[pos[c]]] = stage[c][Order[pos[c]]]
      BY <2>3, <2>5, <2>6, <3>1
    <3> QED BY <3>2 DEF TypeInv, Claiming
  <2>11. Won'
    <3> SUFFICES ASSUME NEW c \in Beats, NEW u \in got'[c]
                 PROVE  ledger'[Order[pos'[c]]][u] # "none"
      BY DEF Won
    <3>1. c # b /\ u \in got[c] /\ pos'[c] = pos[c]
      BY <2>3, <2>6
    <3>2. Order[pos[c]] \in Jobs /\ u \in Times /\ ledger[Order[pos[c]]][u] # "none"
      BY <3>1, Constants DEF TypeInv, Types, Won
    <3> QED BY <1>4, <3>1, <3>2
  <2> QED BY <2>7, <2>8, <2>9, <2>10, <2>11 DEF TypeInv
<1> QED BY <1>7, <1>8

LEMMA TypeTask ==
  ASSUME TypeInv, NEW b \in Beats, NEW j \in Jobs, Task(b, j) \/ BreakRun(b, j)
  PROVE  TypeInv'
<1>1. UNCHANGED <<nowUtc, lock, beat, pos, at, due, got, drops>>
  BY DEF Task, Acquire, StartFire, EndFire, BreakRun, tickVars
<1>2. PICK s \in {"queued", "ready", "running", "done", "broken"}, F \in SUBSET fires[b][j] :
        /\ stage' = [stage EXCEPT ![b][j] = s]
        /\ fires' = [fires EXCEPT ![b][j] = F]
        /\ s = "done" <=> F = {}
  <2> SUFFICES \E s \in {"queued", "ready", "running", "done", "broken"}, F \in SUBSET fires[b][j] :
        /\ stage' = [stage EXCEPT ![b][j] = s]
        /\ fires' = [fires EXCEPT ![b][j] = F]
        /\ s = "done" <=> F = {}
    OBVIOUS
  <2>1. CASE EndFire(b, j)
    <3>1. PICK t \in fires[b][j] :
            /\ fires' = [fires EXCEPT ![b][j] = @ \ {t}]
            /\ stage' = [stage EXCEPT ![b][j] = IF fires[b][j] = {t} THEN "done" ELSE "ready"]
      BY <2>1 DEF EndFire
    <3>2. fires[b][j] \ {t} \in SUBSET fires[b][j] /\ (fires[b][j] \ {t} = {} <=> fires[b][j] = {t})
      OBVIOUS
    <3>3. fires' = [fires EXCEPT ![b][j] = fires[b][j] \ {t}]
      BY <3>1
    <3>4. CASE fires[b][j] = {t}
      <4> WITNESS "done" \in {"queued", "ready", "running", "done", "broken"}, {} \in SUBSET fires[b][j]
      <4> QED BY <3>1, <3>3, <3>4
    <3>5. CASE fires[b][j] # {t}
      <4> WITNESS "ready" \in {"queued", "ready", "running", "done", "broken"},
                  fires[b][j] \ {t} \in SUBSET fires[b][j]
      <4> QED BY <3>1, <3>2, <3>3, <3>5
    <3> QED BY <3>4, <3>5
  <2>2. CASE Acquire(b, j) \/ StartFire(b, j) \/ BreakRun(b, j)
    <3>1. /\ fires' = fires /\ fires[b][j] # {}
          /\ \E s \in {"ready", "running", "broken"} : stage' = [stage EXCEPT ![b][j] = s]
      BY <2>2 DEF Acquire, StartFire, BreakRun, TypeInv, Busy
    <3>2. fires' = [fires EXCEPT ![b][j] = fires[b][j]]
      BY <3>1 DEF TypeInv, Types
    <3> QED BY <3>1, <3>2
  <2> QED BY <2>1, <2>2 DEF Task
<1>3. /\ stage[b][j] # "none"
      /\ \A c \in Beats, k \in Jobs :
           IF c = b /\ k = j THEN stage'[c][k] = s /\ fires'[c][k] = F
                             ELSE stage'[c][k] = stage[c][k] /\ fires'[c][k] = fires[c][k]
  BY <1>2 DEF TypeInv, Types, Task, Acquire, StartFire, EndFire, BreakRun
<1>4. /\ ledger' \in [Jobs -> [Times -> {"none", "open"} \cup Outcomes]]
      /\ \A k \in Jobs, u \in Times : ledger[k][u] # "none" => ledger'[k][u] # "none"
  <2>1. CASE EndFire(b, j)
    <3>1. PICK t \in Times : ledger' = Finished(j, t)
      BY <2>1 DEF EndFire, TypeInv, Types
    <3> QED BY <3>1 DEF Finished, TypeInv, Types, Outcomes
  <2>2. CASE UNCHANGED ledger
    BY <2>2 DEF TypeInv, Types
  <2> QED BY <2>1, <2>2 DEF Task, Acquire, StartFire, BreakRun
<1>5. timesRun' \in [Jobs -> [Times -> Nat]]
  <2>1. timesRun \in [Jobs -> [Times -> Nat]]
    BY DEF TypeInv, Types
  <2>2. CASE StartFire(b, j)
    <3>1. PICK t \in fires[b][j] : timesRun' = [timesRun EXCEPT ![j][t] = @ + 1]
      BY <2>2 DEF StartFire
    <3>2. t \in Times
      BY DEF TypeInv, Types
    <3>3. timesRun[j][t] + 1 \in Nat
      BY <2>1, <3>2
    <3> QED BY <2>1, <3>1, <3>2, <3>3
  <2>3. CASE UNCHANGED timesRun
    BY <2>1, <2>3
  <2> QED BY <2>2, <2>3 DEF Task, Acquire, EndFire, BreakRun
<1>6. failures' \in 0..MaxFailures
  <2>1. failures \in 0..MaxFailures /\ MaxFailures \in Nat
    BY DEF TypeInv, Types
  <2>2. \/ failures' = failures
        \/ failures < MaxFailures /\ failures' = failures + 1
    BY DEF Task, Acquire, StartFire, EndFire, BreakRun
  <2> QED BY <2>1, <2>2
<1>7. /\ stage' \in [Beats -> [Jobs -> {"none", "queued", "ready", "running", "done", "broken"}]]
      /\ fires' \in [Beats -> [Jobs -> SUBSET Times]]
  <2>1. /\ stage \in [Beats -> [Jobs -> {"none", "queued", "ready", "running", "done", "broken"}]]
        /\ fires \in [Beats -> [Jobs -> SUBSET Times]]
    BY DEF TypeInv, Types
  <2> QED BY <1>2, <2>1
<1>8. Types'
  BY <1>1, <1>4, <1>5, <1>6, <1>7 DEF TypeInv, Types
<1>9. Rows'
  <2> SUFFICES ASSUME NEW c \in Beats, NEW k \in Jobs, NEW u \in fires'[c][k]
               PROVE  ledger'[k][u] # "none"
    BY DEF Rows
  <2>1. u \in fires[c][k]
    BY <1>3
  <2>2. fires[c][k] \subseteq Times
    BY DEF TypeInv, Types
  <2>3. u \in Times /\ ledger[k][u] # "none"
    BY <2>1, <2>2 DEF TypeInv, Rows
  <2> QED BY <1>4, <2>3
<1>10. Busy'
  BY <1>2, <1>3 DEF TypeInv, Busy
<1>11. Claiming'
  <2> SUFFICES ASSUME NEW c \in Beats, due[c] # {} \/ got[c] # {}
               PROVE  beat[c] = "tick" /\ stage'[c][Order[pos[c]]] = "none"
    BY <1>1 DEF Claiming
  <2>1. beat[c] = "tick" /\ stage[c][Order[pos[c]]] = "none" /\ Order[pos[c]] \in Jobs
    BY Constants DEF TypeInv, Types, Claiming
  <2>2. ~(c = b /\ Order[pos[c]] = j)
    BY <1>3, <2>1
  <2> QED BY <1>3, <2>1, <2>2
<1>12. Won'
  BY <1>1, <1>4, Constants DEF TypeInv, Types, Won
<1> QED BY <1>8, <1>9, <1>10, <1>11, <1>12 DEF TypeInv

LEMMA TypeStep == TypeInv /\ [Next]_vars => TypeInv'
<1> SUFFICES ASSUME TypeInv, [Next]_vars PROVE TypeInv'
  OBVIOUS
<1>1. CASE UNCHANGED vars \/ Clock
  <2>1. UNCHANGED <<ledger, timesRun, lock, tickVars, taskVars, failures, drops>>
        /\ \/ nowUtc' = nowUtc
           \/ nowUtc < MaxTime /\ nowUtc' = nowUtc + 1
    BY <1>1 DEF Clock, vars
  <2>2. nowUtc' \in Times
    BY <2>1 DEF TypeInv, Types
  <2>3. Types'
    BY <2>1, <2>2 DEF tickVars, taskVars, TypeInv, Types
  <2> QED BY <2>1, <2>3, Aside DEF tickVars, taskVars
<1>2. ASSUME NEW b \in Beats, Boot(b) \/ LockLost(b) PROVE TypeInv'
  <2>1. Types'
    <3>1. CASE Boot(b)
      BY <3>1 DEF Boot, tickVars, taskVars, TypeInv, Types
    <3>2. CASE LockLost(b)
      <4>1. drops' \in 0..MaxDrops
        BY <3>2 DEF LockLost, TypeInv, Types
      <4> QED BY <3>2, <4>1 DEF LockLost, tickVars, taskVars, TypeInv, Types
    <3> QED BY <1>2, <3>1, <3>2
  <2>2. UNCHANGED <<ledger, due, got, stage, fires>>
    BY <1>2 DEF Boot, LockLost, tickVars, taskVars
  <2>3. \A c \in Beats : \/ beat'[c] = beat[c] /\ pos'[c] = pos[c]
                         \/ due[c] = {} /\ got[c] = {}
    BY <1>2 DEF Boot, LockLost, tickVars, TypeInv, Types, Claiming
  <2> QED BY <2>1, <2>2, <2>3, Aside
<1>3. ASSUME NEW b \in Beats, Sweep(b) PROVE TypeInv'
  <2>1. Types'
    BY <1>3, SMTT(30) DEF Sweep, taskVars, Outcomes, TypeInv, Types
  <2>2. \A k \in Jobs, u \in Times : ledger[k][u] # "none" => ledger'[k][u] # "none"
    BY <1>3 DEF Sweep, TypeInv, Types
  <2>3. Rows'
    BY <1>3, <2>2 DEF Sweep, taskVars, TypeInv, Types, Rows
  <2>4. Busy'
    BY <1>3 DEF Sweep, taskVars, TypeInv, Busy
  <2>5. Claiming'
    BY <1>3 DEF Sweep, taskVars, TypeInv, Types, Claiming
  <2>6. Won'
    BY <1>3, <2>2, Constants DEF Sweep, TypeInv, Types, Won
  <2> QED BY <2>1, <2>3, <2>4, <2>5, <2>6 DEF TypeInv
<1>4. ASSUME NEW b \in Beats, Crash(b) \/ Unwound(b) PROVE TypeInv'
  <2>1. Stopped(b) /\ failures' \in 0..MaxFailures
    BY <1>4 DEF Crash, Unwound, TypeInv, Types
  <2> QED BY <2>1, TypeStopped
<1>5. ASSUME NEW b \in Beats, ReapRaises(b) \/ BacklogRaises(b) \/ LedgerRaises(b) PROVE TypeInv'
  <2>1. /\ Unwind(b)
        /\ \/ failures' = failures
           \/ failures < MaxFailures /\ failures' = failures + 1
    BY <1>5 DEF ReapRaises, BacklogRaises, LedgerRaises
  <2>2. failures \in 0..MaxFailures /\ MaxFailures \in Nat
    BY DEF TypeInv, Types
  <2>3. failures' \in 0..MaxFailures
    BY <2>1, <2>2
  <2> QED BY <2>1, <2>3, TypeUnwind
<1> QED
  BY <1>1, <1>2, <1>3, <1>4, <1>5, TypeTickStart, TypeConsider, TypeClaim, TypeTask
  DEF Next, TickStep

(* TypeOK: every variable keeps its type, a task has fires as long as it   *)
(* is not done, and they are rows of the ledger (tick, claim, _run_one).   *)
THEOREM TypeCorrect == Spec => []TypeOK
<1>1. Spec => []TypeInv
  BY TypeInit, TypeStep, PTL DEF Spec
<1> QED BY <1>1, TypeInvType, PTL

-----------------------------------------------------------------------------
(* The fire times of job j that beat b has claimed and not yet recorded:   *)
(* those of its task, and those its tick has won for the entry it is at.   *)
Hold(b, j) == fires[b][j] \cup {t \in got[b] : Order[pos[b]] = j}

(* Of these only the one a task is running, or broke in, has been run. *)
Fresh(b, j) ==
  \A t \in Hold(b, j) :
    \/ timesRun[j][t] = 0
    \/ stage[b][j] \in {"running", "broken"} /\ Least(fires[b][j], t)

(* What makes RunAtMostOnce inductive: an unclaimed fire time has not run, *)
(* and a claimed one is in the hands of one beat until it is recorded.     *)
Own ==
  /\ \A j \in Jobs, t \in Times : timesRun[j][t] <= 1 /\ (ledger[j][t] = "none" => timesRun[j][t] = 0)
  /\ \A b \in Beats, c \in Beats, j \in Jobs : Hold(b, j) \cap Hold(c, j) # {} => b = c
  /\ \A b \in Beats, j \in Jobs : Fresh(b, j)

LEMMA OwnInit == Init => Own
<1> SUFFICES ASSUME Init PROVE Own
  OBVIOUS
<1>1. \A b \in Beats, j \in Jobs : Hold(b, j) = {}
  BY DEF Init, Hold
<1>2. \A j \in Jobs, t \in Times : timesRun[j][t] = 0
  BY DEF Init
<1> QED BY <1>1, <1>2 DEF Own, Fresh

(* A step that runs nothing and claims nothing. *)
LEMMA OwnKept ==
  /\ Own /\ timesRun' = timesRun
  /\ \A j \in Jobs, t \in Times : ledger'[j][t] = "none" => ledger[j][t] = "none"
  /\ \A b \in Beats, j \in Jobs : Hold(b, j)' \subseteq Hold(b, j) /\ Fresh(b, j)'
  => Own'
<1> SUFFICES ASSUME
      Own, timesRun' = timesRun,
      \A j \in Jobs, t \in Times : ledger'[j][t] = "none" => ledger[j][t] = "none",
      \A b \in Beats, j \in Jobs : Hold(b, j)' \subseteq Hold(b, j) /\ Fresh(b, j)'
    PROVE Own'
  OBVIOUS
<1>1. \A j \in Jobs, t \in Times : timesRun'[j][t] <= 1 /\ (ledger'[j][t] = "none" => timesRun'[j][t] = 0)
  BY DEF Own
<1>2. ASSUME NEW b \in Beats, NEW c \in Beats, NEW j \in Jobs, Hold(b, j)' \cap Hold(c, j)' # {}
      PROVE  b = c
  <2>1. Hold(b, j) \cap Hold(c, j) # {}
    BY <1>2
  <2> QED BY <2>1 DEF Own
<1> QED BY <1>1, <1>2 DEF Own

(* Such a step that leaves the tasks and the claim loops alone.            *)
LEMMA OwnAside ==
  /\ Own /\ timesRun' = timesRun /\ got' = got /\ stage' = stage /\ fires' = fires
  /\ \A j \in Jobs, t \in Times : ledger'[j][t] = "none" => ledger[j][t] = "none"
  /\ \A b \in Beats : pos'[b] = pos[b] \/ got[b] = {}
  => Own'
<1> SUFFICES ASSUME
      Own, timesRun' = timesRun, got' = got, stage' = stage, fires' = fires,
      \A j \in Jobs, t \in Times : ledger'[j][t] = "none" => ledger[j][t] = "none",
      \A b \in Beats : pos'[b] = pos[b] \/ got[b] = {}
    PROVE Own'
  OBVIOUS
<1>1. ASSUME NEW b \in Beats, NEW j \in Jobs PROVE Hold(b, j)' = Hold(b, j)
  BY DEF Hold
<1>2. ASSUME NEW b \in Beats, NEW j \in Jobs PROVE Fresh(b, j)'
  <2>1. Fresh(b, j)
    BY DEF Own
  <2> QED BY <1>1, <2>1 DEF Fresh, Least
<1> QED BY <1>1, <1>2, OwnKept

LEMMA OwnStopped ==
  ASSUME TypeInv, Own, NEW b \in Beats, Stopped(b)
  PROVE  Own'
<1>1. /\ \A j \in Jobs : Hold(b, j)' = {}
      /\ \A c \in Beats \ {b}, j \in Jobs : Hold(c, j)' = Hold(c, j)
  BY DEF TypeInv, Types, Stopped, Hold
<1>2. \A c \in Beats \ {b} : stage'[c] = stage[c] /\ fires'[c] = fires[c]
  BY DEF TypeInv, Types, Stopped
<1>3. timesRun' = timesRun /\ ledger' = ledger
  BY DEF Stopped
<1>4. ASSUME NEW c \in Beats, NEW j \in Jobs PROVE Fresh(c, j)'
  <2>1. CASE c = b
    BY <1>1, <2>1 DEF Fresh
  <2>2. CASE c # b
    <3>1. Fresh(c, j)
      BY DEF Own
    <3>2. Hold(c, j)' = Hold(c, j)
      BY <1>1, <2>2
    <3>3. stage'[c] = stage[c] /\ fires'[c] = fires[c]
      BY <1>2, <2>2
    <3> QED BY <1>3, <3>1, <3>2, <3>3 DEF Fresh, Least
  <2> QED BY <2>1, <2>2
<1>5. \A c \in Beats, j \in Jobs : Hold(c, j)' \subseteq Hold(c, j)
  BY <1>1
<1> QED BY <1>3, <1>4, <1>5, OwnKept

(* What a tick that raises had claimed without a task is nobody's.         *)
LEMMA OwnUnwind ==
  ASSUME TypeInv, Own, NEW b \in Beats, Unwind(b)
  PROVE  Own'
<1>1. UNCHANGED <<timesRun, ledger, stage, fires, pos>>
  BY DEF Unwind, taskVars
<1>2. \A c \in Beats : got'[c] \subseteq got[c]
  BY DEF TypeInv, Types, Unwind
<1>3. \A c \in Beats, j \in Jobs : Hold(c, j)' \subseteq Hold(c, j)
  BY <1>1, <1>2 DEF Hold
<1>4. ASSUME NEW c \in Beats, NEW j \in Jobs PROVE Fresh(c, j)'
  <2>1. Fresh(c, j)
    BY DEF Own
  <2> QED BY <1>1, <1>3, <2>1 DEF Fresh, Least
<1> QED BY <1>1, <1>3, <1>4, OwnKept

LEMMA OwnTickStart ==
  ASSUME TypeInv, Own, NEW b \in Beats, TickStart(b)
  PROVE  Own'
<1>1. /\ got[b] = {} /\ got' = got /\ fires' = fires /\ timesRun' = timesRun /\ ledger' = ledger
      /\ \A c \in Beats \ {b} : pos'[c] = pos[c]
      /\ \A c \in Beats, j \in Jobs : stage'[c][j] = stage[c][j] \/ fires[c][j] = {}
  <2>1. got[b] = {} /\ got' = got /\ fires' = fires /\ timesRun' = timesRun /\ ledger' = ledger
    BY DEF TypeInv, TickStart, Claiming
  <2>2. \A c \in Beats \ {b} : pos'[c] = pos[c]
    BY DEF TypeInv, Types, TickStart
  <2>3. \A c \in Beats, j \in Jobs : stage'[c][j] = stage[c][j] \/ stage[c][j] = "done"
    BY DEF TypeInv, Types, TickStart
  <2> QED BY <2>1, <2>2, <2>3 DEF TypeInv, Busy
<1>2. ASSUME NEW c \in Beats, NEW j \in Jobs PROVE Hold(c, j)' = Hold(c, j)
  BY <1>1 DEF Hold
<1>3. ASSUME NEW c \in Beats, NEW j \in Jobs PROVE Fresh(c, j)'
  <2>1. Fresh(c, j)
    BY DEF Own
  <2>2. CASE stage'[c][j] = stage[c][j]
    BY <1>1, <1>2, <2>1, <2>2 DEF Fresh, Least
  <2>3. CASE fires[c][j] = {}
    <3>1. \A t \in Hold(c, j) : timesRun[j][t] = 0
      BY <2>1, <2>3 DEF Fresh, Least
    <3> QED BY <1>1, <1>2, <3>1 DEF Fresh
  <2> QED BY <1>1, <2>2, <2>3
<1> QED BY <1>1, <1>2, <1>3, OwnKept

(* What a claim moves: the fires of one entry, and its claim loop.         *)
ClaimMoved(b, j, t, won) ==
  /\ Hold(b, j)' \subseteq won /\ stage'[b][j] \in {"none", "queued"}
  /\ \A k \in Jobs \ {j} : Hold(b, k)' = Hold(b, k)
  /\ \A c \in Beats \ {b}, k \in Jobs : Hold(c, k)' = Hold(c, k)
  /\ \A c \in Beats, k \in Jobs : c # b \/ k # j =>
       stage'[c][k] = stage[c][k] /\ fires'[c][k] = fires[c][k]
  /\ due' = [due EXCEPT ![b] = @ \ {t}]
  /\ due'[b] # {} => pos'[b] = pos[b]
  /\ beat'[b] = beat[b] \/ beat'[b] = "sleep"
  /\ \A c \in Beats \ {b} : pos'[c] = pos[c] /\ beat'[c] = beat[c]

LEMMA ClaimMoves ==
  ASSUME TypeInv, NEW b \in Beats, NEW j \in Jobs, j = Order[pos[b]],
         NEW t \in due[b], NEW won, Tried(b, j, t, won)
  PROVE  ClaimMoved(b, j, t, won)
<1>1. got \in [Beats -> SUBSET Times] /\ due \in [Beats -> SUBSET Times]
  BY DEF TypeInv, Types
<1>2. stage[b][j] = "none" /\ fires[b][j] = {}
  <2>1. stage[b][j] = "none"
    BY DEF TypeInv, Claiming
  <2> QED BY <2>1 DEF TypeInv, Busy
<1>5. /\ due' = [due EXCEPT ![b] = @ \ {t}]
      /\ due'[b] # {} => pos'[b] = pos[b]
      /\ beat'[b] = beat[b] \/ beat'[b] = "sleep"
      /\ \A c \in Beats \ {b} : pos'[c] = pos[c] /\ beat'[c] = beat[c]
  <2>1. CASE due[b] # {t}
    BY <2>1 DEF Tried
  <2>2. CASE due[b] = {t}
    <3>1. due' = [due EXCEPT ![b] = {}] /\ NextEntry(b)
      BY <2>2 DEF Tried
    <3>2. \A c \in Beats \ {b} : pos'[c] = pos[c] /\ beat'[c] = beat[c]
      BY <3>1, TypeNextEntry DEF TypeInv
    <3>3. due' = [due EXCEPT ![b] = @ \ {t}] /\ due'[b] = {}
      BY <1>1, <2>2, <3>1
    <3>4. beat'[b] = beat[b] \/ beat'[b] = "sleep"
      BY <3>1 DEF NextEntry, TypeInv, Types
    <3> QED BY <3>2, <3>3, <3>4
  <2> QED BY <2>1, <2>2
<1>3. /\ Hold(b, j)' \subseteq won /\ stage'[b][j] \in {"none", "queued"}
      /\ \A k \in Jobs \ {j} : Hold(b, k)' = Hold(b, k)
      /\ \A c \in Beats \ {b}, k \in Jobs : Hold(c, k)' = Hold(c, k)
      /\ \A c \in Beats, k \in Jobs : c # b \/ k # j =>
           stage'[c][k] = stage[c][k] /\ fires'[c][k] = fires[c][k]
  <2>1. CASE due[b] # {t}
    <3>1. /\ got' = [got EXCEPT ![b] = won] /\ pos' = pos /\ stage' = stage /\ fires' = fires
      BY <2>1 DEF Tried, taskVars
    <3>2. got'[b] = won /\ \A c \in Beats \ {b} : got'[c] = got[c]
      BY <1>1, <3>1
    <3>3. Hold(b, j)' \subseteq won
      BY <1>2, <3>1, <3>2 DEF Hold
    <3>4. \A k \in Jobs \ {j} : Hold(b, k)' = Hold(b, k)
      BY <3>1 DEF Hold
    <3>5. \A c \in Beats \ {b}, k \in Jobs : Hold(c, k)' = Hold(c, k)
      BY <3>1, <3>2 DEF Hold
    <3> QED BY <1>2, <3>1, <3>3, <3>4, <3>5
  <2>2. CASE due[b] = {t}
    <3>1. got' = [got EXCEPT ![b] = {}] /\ NextEntry(b)
      BY <2>2 DEF Tried
    <3>2. \A c \in Beats \ {b} : pos'[c] = pos[c]
      BY <3>1, TypeNextEntry DEF TypeInv
    <3>3. \/ UNCHANGED <<stage, fires>>
          \/ /\ stage' = [stage EXCEPT ![b][j] = "queued"]
             /\ fires' = [fires EXCEPT ![b][j] = won]
      BY <2>2 DEF Tried, taskVars
    <3>4. /\ \A c \in Beats, k \in Jobs : c # b \/ k # j =>
               stage'[c][k] = stage[c][k] /\ fires'[c][k] = fires[c][k]
          /\ fires'[b][j] \subseteq won /\ stage'[b][j] \in {"none", "queued"}
      <4>1. CASE UNCHANGED <<stage, fires>>
        BY <1>2, <4>1
      <4>2. CASE /\ stage' = [stage EXCEPT ![b][j] = "queued"]
                 /\ fires' = [fires EXCEPT ![b][j] = won]
        <5>1. stage \in [Beats -> [Jobs -> {"none", "queued", "ready", "running", "done", "broken"}]]
              /\ fires \in [Beats -> [Jobs -> SUBSET Times]]
          BY DEF TypeInv, Types
        <5> QED BY <1>2, <4>2, <5>1
      <4> QED BY <3>3, <4>1, <4>2
    <3>5. got'[b] = {} /\ \A c \in Beats \ {b} : got'[c] = got[c]
      BY <1>1, <3>1
    <3>6. Hold(b, j)' \subseteq won
      BY <3>4, <3>5 DEF Hold
    <3>7. \A k \in Jobs \ {j} : Hold(b, k)' = Hold(b, k)
      BY <3>4, <3>5 DEF Hold
    <3>8. \A c \in Beats \ {b}, k \in Jobs : Hold(c, k)' = Hold(c, k)
      BY <3>2, <3>4, <3>5, SMTT(30) DEF Hold
    <3> QED BY <3>4, <3>6, <3>7, <3>8
  <2> QED BY <2>1, <2>2
<1> QED BY <1>3, <1>5, Zenon DEF ClaimMoved

(* claim: what the tick wins was in nobody's hands and had not run. *)
LEMMA OwnClaim ==
  ASSUME TypeInv, TypeInv', Own, NEW b \in Beats, Claim(b)
  PROVE  Own'
<1>6. PICK j \in Jobs : j = Order[pos[b]]
  BY Constants DEF TypeInv, Types
<1>1. PICK t \in due[b] :
        LET wins == ledger[j][t] = "none" IN
        /\ ledger' = IF wins THEN [ledger EXCEPT ![j][t] = "open"] ELSE ledger
        /\ Tried(b, j, t, IF wins THEN got[b] \cup {t} ELSE got[b])
  BY <1>6 DEF Claim
<1> DEFINE won == IF ledger[j][t] = "none" THEN got[b] \cup {t} ELSE got[b]
<1>2. stage[b][j] = "none" /\ fires[b][j] = {}
  <2>1. stage[b][j] = "none"
    BY <1>6 DEF TypeInv, Claiming
  <2> QED BY <2>1 DEF TypeInv, Busy
<1>3. t \in Times
  BY DEF TypeInv, Types
<1>4. Tried(b, j, t, won) /\ timesRun' = timesRun
  BY <1>1 DEF Claim
<1>5. \A k \in Jobs, u \in Times :
        /\ ledger'[k][u] = "none" => ledger[k][u] = "none"
        /\ ledger[k][u] = "none" => timesRun[k][u] = 0
  BY <1>1, <1>2, <1>3 DEF TypeInv, Types, Own
<1>7. Hold(b, j) = got[b]
  BY <1>2, <1>6 DEF Hold
<1>8. \A u \in won : u \in got[b] \/ (u = t /\ ledger[j][t] = "none")
  OBVIOUS
<1>9. \A u \in won : timesRun[j][u] = 0
  <2>1. \A u \in got[b] : timesRun[j][u] = 0
    <3>1. Fresh(b, j)
      BY <1>2 DEF Own
    <3> QED BY <1>2, <1>7, <3>1 DEF Fresh
  <2>2. ledger[j][t] = "none" => timesRun[j][t] = 0
    BY <1>2, <1>3, <1>5
  <2> QED BY <1>8, <2>1, <2>2
<1>10. \A c \in Beats : t \in Hold(c, j) => ledger[j][t] # "none"
  BY <1>2 DEF TypeInv, Rows, Won, Hold
<1>0. got \in [Beats -> SUBSET Times]
  BY DEF TypeInv, Types
<1> HIDE DEF won
<1>16. PICK w : w = won
  OBVIOUS
<1>11. /\ Hold(b, j)' \subseteq won /\ stage'[b][j] \in {"none", "queued"}
       /\ \A k \in Jobs \ {j} : Hold(b, k)' = Hold(b, k)
       /\ \A c \in Beats \ {b}, k \in Jobs : Hold(c, k)' = Hold(c, k)
       /\ \A c \in Beats, k \in Jobs : c # b \/ k # j =>
            stage'[c][k] = stage[c][k] /\ fires'[c][k] = fires[c][k]
  <2>1. Tried(b, j, t, w)
    BY <1>4, <1>16
  <2>2. ClaimMoved(b, j, t, w)
    BY <1>6, <2>1, ClaimMoves
  <2> QED BY <1>16, <2>2, Zenon DEF ClaimMoved
<1>12. \A k \in Jobs, u \in Times : timesRun'[k][u] <= 1 /\ (ledger'[k][u] = "none" => timesRun'[k][u] = 0)
  BY <1>4, <1>5 DEF Own
<1>13. \A c \in Beats \ {b} : Hold(b, j)' \cap Hold(c, j)' = {}
  <2>1. \A c \in Beats \ {b} : Hold(b, j) \cap Hold(c, j) = {}
    BY <1>2 DEF Own
  <2>2. ASSUME NEW c \in Beats \ {b}, NEW u \in won, u \in Hold(c, j) PROVE FALSE
    <3>1. CASE u \in got[b]
      BY <1>7, <2>1, <2>2, <3>1
    <3>2. CASE u = t /\ ledger[j][t] = "none"
      BY <1>10, <2>2, <3>2
    <3> QED BY <1>8, <3>1, <3>2
  <2>3. \A c \in Beats \ {b} : Hold(c, j)' = Hold(c, j)
    BY <1>2, <1>11
  <2> QED BY <1>11, <2>2, <2>3
<1>14. ASSUME NEW c \in Beats, NEW d \in Beats, NEW k \in Jobs, Hold(c, k)' \cap Hold(d, k)' # {}
       PROVE  c = d
  <2>1. CASE k = j /\ (c = b \/ d = b)
    <3>1. Hold(c, j)' \cap Hold(d, j)' # {}
      BY <1>14, <2>1
    <3> QED BY <1>13, <2>1, <3>1
  <2>2. CASE ~(k = j /\ (c = b \/ d = b))
    <3>1. Hold(c, k)' = Hold(c, k) /\ Hold(d, k)' = Hold(d, k)
      BY <1>11, <2>2
    <3> QED BY <1>14, <3>1 DEF Own
  <2> QED BY <2>1, <2>2
<1>15. ASSUME NEW c \in Beats, NEW k \in Jobs PROVE Fresh(c, k)'
  <2>1. CASE c = b /\ k = j
    <3>1. \A u \in Hold(b, j)' : timesRun'[j][u] = 0
      BY <1>4, <1>9, <1>11
    <3> QED BY <2>1, <3>1 DEF Fresh
  <2>2. CASE ~(c = b /\ k = j)
    <3>1. Fresh(c, k) /\ Hold(c, k)' = Hold(c, k)
      BY <1>11, <2>2 DEF Own
    <3>2. stage'[c][k] = stage[c][k] /\ fires'[c][k] = fires[c][k]
      BY <1>11, <2>2
    <3> QED BY <1>4, <3>1, <3>2 DEF Fresh, Least
  <2> QED BY <2>1, <2>2
<1> QED BY <1>12, <1>14, <1>15 DEF Own

(* A step of one task that leaves its fires and its runs alone.            *)
LEMMA OwnTaskQuiet ==
  ASSUME TypeInv, Own, NEW b \in Beats, NEW j \in Jobs,
         Acquire(b, j) \/ BreakRun(b, j)
  PROVE  Own'
<1>1. /\ timesRun' = timesRun /\ ledger' = ledger /\ got' = got /\ pos' = pos /\ fires' = fires
      /\ \A c \in Beats, k \in Jobs :
           \/ stage'[c][k] = stage[c][k]
           \/ stage[c][k] = "queued"
           \/ stage[c][k] = "running" /\ stage'[c][k] = "broken"
  <2>1. stage \in [Beats -> [Jobs -> {"none", "queued", "ready", "running", "done", "broken"}]]
    BY DEF TypeInv, Types
  <2>2. CASE Acquire(b, j)
    BY <2>1, <2>2 DEF Acquire, tickVars
  <2>3. CASE BreakRun(b, j)
    BY <2>1, <2>3 DEF BreakRun, tickVars
  <2> QED BY <2>2, <2>3
<1>2. ASSUME NEW c \in Beats, NEW k \in Jobs PROVE Hold(c, k)' = Hold(c, k)
  BY <1>1 DEF Hold
<1>3. ASSUME NEW c \in Beats, NEW k \in Jobs PROVE Fresh(c, k)'
  <2>1. Fresh(c, k)
    BY DEF Own
  <2>2. CASE stage'[c][k] = stage[c][k]
    BY <1>1, <1>2, <2>1, <2>2 DEF Fresh, Least
  <2>3. CASE stage[c][k] = "queued"
    <3>1. \A u \in Hold(c, k) : timesRun[k][u] = 0
      BY <2>1, <2>3 DEF Fresh
    <3> QED BY <1>1, <1>2, <3>1 DEF Fresh
  <2>4. CASE stage[c][k] = "running" /\ stage'[c][k] = "broken"
    BY <1>1, <1>2, <2>1, <2>4 DEF Fresh, Least
  <2> QED BY <1>1, <2>2, <2>3, <2>4
<1> QED BY <1>1, <1>2, <1>3, OwnKept

(* _run_one starts the least of the fires, which nobody else holds.        *)
LEMMA OwnStartRun ==
  ASSUME TypeInv, Own, NEW b \in Beats, NEW j \in Jobs, StartFire(b, j)
  PROVE  Own'
<1>1. PICK t \in fires[b][j] : Least(fires[b][j], t) /\ timesRun' = [timesRun EXCEPT ![j][t] = @ + 1]
  BY DEF StartFire
<1>2. /\ stage[b][j] = "ready" /\ stage' = [stage EXCEPT ![b][j] = "running"]
      /\ ledger' = ledger /\ got' = got /\ pos' = pos /\ fires' = fires
  BY DEF StartFire, tickVars
<1>3. t \in Times /\ t \in Hold(b, j) /\ ledger[j][t] # "none"
  BY DEF TypeInv, Types, Rows, Hold
<1>4. timesRun[j][t] = 0
  <2>1. Fresh(b, j)
    BY DEF Own
  <2> QED BY <1>2, <1>3, <2>1 DEF Fresh
<1>5. timesRun \in [Jobs -> [Times -> Nat]]
  BY DEF TypeInv, Types
<1>6. /\ timesRun'[j][t] = 1
      /\ \A k \in Jobs, u \in Times : k # j \/ u # t => timesRun'[k][u] = timesRun[k][u]
  BY <1>1, <1>3, <1>4, <1>5
<1>7. \A k \in Jobs, u \in Times : timesRun'[k][u] <= 1 /\ (ledger'[k][u] = "none" => timesRun'[k][u] = 0)
  <2> SUFFICES ASSUME NEW k \in Jobs, NEW u \in Times
               PROVE  timesRun'[k][u] <= 1 /\ (ledger'[k][u] = "none" => timesRun'[k][u] = 0)
    OBVIOUS
  <2>1. CASE k = j /\ u = t
    BY <1>2, <1>3, <1>6, <2>1
  <2>2. CASE k # j \/ u # t
    BY <1>2, <1>6, <2>2 DEF Own
  <2> QED BY <2>1, <2>2
<1>8. ASSUME NEW c \in Beats, NEW k \in Jobs
      PROVE  Hold(c, k)' = Hold(c, k) /\ Hold(c, k) \subseteq Times
  <2>1. Hold(c, k)' = Hold(c, k)
    BY <1>2 DEF Hold
  <2>2. fires[c][k] \subseteq Times /\ got[c] \subseteq Times
    <3>1. fires \in [Beats -> [Jobs -> SUBSET Times]] /\ got \in [Beats -> SUBSET Times]
      BY DEF TypeInv, Types
    <3> QED BY <3>1
  <2> QED BY <2>1, <2>2 DEF Hold
<1>9. \A c \in Beats, d \in Beats, k \in Jobs : Hold(c, k)' \cap Hold(d, k)' # {} => c = d
  BY <1>8 DEF Own
<1>10. ASSUME NEW c \in Beats, NEW k \in Jobs PROVE Fresh(c, k)'
  <2> SUFFICES ASSUME NEW u \in Hold(c, k)
               PROVE  \/ timesRun'[k][u] = 0
                      \/ stage'[c][k] \in {"running", "broken"} /\ Least(fires'[c][k], u)
    BY <1>8 DEF Fresh
  <2>1. CASE k = j /\ u = t
    <3>1. c = b
      BY <1>3, <2>1 DEF Own
    <3>2. stage'[b][j] = "running"
      BY <1>2 DEF TypeInv, Types
    <3> QED BY <1>1, <1>2, <2>1, <3>1, <3>2
  <2>2. CASE k # j \/ u # t
    <3>1. Fresh(c, k) /\ u \in Times /\ timesRun'[k][u] = timesRun[k][u]
      BY <1>6, <1>8, <2>2 DEF Own
    <3>2. stage[c][k] \in {"running", "broken"} => stage'[c][k] = stage[c][k]
      BY <1>2 DEF TypeInv, Types
    <3> QED BY <1>2, <3>1, <3>2 DEF Fresh
  <2> QED BY <2>1, <2>2
<1> QED BY <1>7, <1>9, <1>10 DEF Own

(* What is left once the running fire is recorded has not been run.        *)
LEMMA OwnEndRun ==
  ASSUME TypeInv, Own, NEW b \in Beats, NEW j \in Jobs, EndFire(b, j)
  PROVE  Own'
<1>1. PICK t \in fires[b][j] :
        /\ Least(fires[b][j], t)
        /\ ledger' = Finished(j, t)
        /\ fires' = [fires EXCEPT ![b][j] = @ \ {t}]
        /\ stage' = [stage EXCEPT ![b][j] = IF fires[b][j] = {t} THEN "done" ELSE "ready"]
  BY DEF EndFire
<1>2. stage[b][j] = "running" /\ timesRun' = timesRun /\ got' = got /\ pos' = pos
  BY DEF EndFire, tickVars
<1>3. \A k \in Jobs, u \in Times : ledger'[k][u] = "none" => ledger[k][u] = "none"
  <2>1. t \in Times /\ ledger \in [Jobs -> [Times -> {"none", "open"} \cup Outcomes]]
    BY DEF TypeInv, Types
  <2> QED BY <1>1, <2>1 DEF Finished
<1>4. got[b] = {} \/ Order[pos[b]] # j
  BY <1>2 DEF TypeInv, Claiming
<1>5. fires[b][j] \subseteq Times
  BY DEF TypeInv, Types
<1>6. /\ fires'[b][j] = fires[b][j] \ {t}
      /\ \A c \in Beats, k \in Jobs : c # b \/ k # j =>
           fires'[c][k] = fires[c][k] /\ stage'[c][k] = stage[c][k]
  BY <1>1 DEF TypeInv, Types
<1>7. Hold(b, j)' = fires[b][j] \ {t} /\ Hold(b, j) = fires[b][j]
  BY <1>2, <1>4, <1>6 DEF Hold
<1>8. \A c \in Beats, k \in Jobs : c # b \/ k # j => Hold(c, k)' = Hold(c, k)
  BY <1>2, <1>6 DEF Hold
<1>9. Fresh(b, j)'
  <2> SUFFICES ASSUME NEW u \in fires[b][j] \ {t} PROVE timesRun[j][u] = 0
    BY <1>2, <1>7 DEF Fresh
  <2>1. ~Least(fires[b][j], u)
    BY <1>1, <1>5 DEF Least
  <2>2. Fresh(b, j)
    BY DEF Own
  <2> QED BY <1>7, <2>1, <2>2 DEF Fresh
<1>10. ASSUME NEW c \in Beats, NEW k \in Jobs PROVE Fresh(c, k)'
  <2>1. CASE c = b /\ k = j
    BY <1>9, <2>1
  <2>2. CASE c # b \/ k # j
    <3>1. Fresh(c, k)
      BY DEF Own
    <3> QED BY <1>2, <1>6, <1>8, <2>2, <3>1 DEF Fresh, Least
  <2> QED BY <2>1, <2>2
<1>11. \A c \in Beats, k \in Jobs : Hold(c, k)' \subseteq Hold(c, k)
  BY <1>7, <1>8
<1> QED BY <1>2, <1>3, <1>10, <1>11, OwnKept

LEMMA OwnStep == TypeInv /\ TypeInv' /\ Own /\ [Next]_vars => Own'
<1> SUFFICES ASSUME TypeInv, TypeInv', Own, [Next]_vars PROVE Own'
  OBVIOUS
<1>1. CASE UNCHANGED vars \/ Clock
  <2>1. UNCHANGED <<timesRun, got, stage, fires, ledger, pos>>
    BY <1>1 DEF Clock, vars, tickVars, taskVars
  <2> QED BY <2>1, OwnAside
<1>2. ASSUME NEW b \in Beats, Boot(b) \/ LockLost(b) \/ Sweep(b) PROVE Own'
  <2>1. UNCHANGED <<timesRun, got, stage, fires, pos>>
    BY <1>2 DEF Boot, LockLost, Sweep, tickVars, taskVars
  <2>2. \A j \in Jobs, t \in Times : ledger'[j][t] = "none" => ledger[j][t] = "none"
    BY <1>2 DEF Boot, LockLost, Sweep
  <2> QED BY <2>1, <2>2, OwnAside
<1>3. ASSUME NEW b \in Beats, ReapRaises(b) \/ BacklogRaises(b) \/ LedgerRaises(b) PROVE Own'
  BY <1>3, OwnUnwind DEF ReapRaises, BacklogRaises, LedgerRaises
<1>4. ASSUME NEW b \in Beats, Consider(b) PROVE Own'
  <2>1. UNCHANGED <<timesRun, got, stage, fires, ledger>> /\ got[b] = {}
    BY <1>4 DEF Consider, taskVars
  <2>2. \A c \in Beats : pos'[c] = pos[c] \/ got[c] = {}
    BY <1>4, <2>1, TypeNextEntry DEF Consider, TypeInv
  <2> QED BY <2>1, <2>2, OwnAside
<1>5. ASSUME NEW b \in Beats, Crash(b) \/ Unwound(b) PROVE Own'
  BY <1>5, OwnStopped DEF Crash, Unwound
<1> QED
  BY <1>1, <1>2, <1>3, <1>4, <1>5, OwnTickStart, OwnClaim, OwnTaskQuiet, OwnStartRun, OwnEndRun
  DEF Next, TickStep, Task

(* RunAtMostOnce: whatever beats crash, unwind, lose the lock or sweep one *)
(* another's runs, a fire time is run at most once (claim, _run_one).      *)
THEOREM OncePerFire == Spec => []RunAtMostOnce
<1>1. Own => RunAtMostOnce
  BY DEF Own, RunAtMostOnce
<1>2. Spec => [](TypeInv /\ Own)
  BY TypeInit, TypeStep, OwnInit, OwnStep, PTL DEF Spec
<1> QED BY <1>1, <1>2, PTL

(* VerdictsStand: only the sweep, a claim and the end of a run write the   *)
(* ledger, and none of them a recorded outcome (_sweep_abandoned, finish). *)
THEOREM OutcomeStands == Spec => VerdictsStand
<1>1. ASSUME TypeInv, [Next]_vars, NEW j \in Jobs, NEW t \in Times, ledger[j][t] \in Outcomes
      PROVE  ledger'[j][t] = ledger[j][t]
  <2>1. /\ ledger \in [Jobs -> [Times -> {"none", "open"} \cup Outcomes]]
        /\ ledger[j][t] # "none" /\ ledger[j][t] # "open"
    BY <1>1 DEF TypeInv, Types, Outcomes
  <2>2. CASE UNCHANGED ledger
    BY <2>2
  <2>3. ASSUME NEW b \in Beats, Sweep(b) PROVE ledger'[j][t] = ledger[j][t]
    BY <2>1, <2>3 DEF Sweep
  <2>4. ASSUME NEW b \in Beats, Claim(b) PROVE ledger'[j][t] = ledger[j][t]
    <3>1. PICK u \in due[b] :
            ledger' = IF ledger[Order[pos[b]]][u] = "none"
                        THEN [ledger EXCEPT ![Order[pos[b]]][u] = "open"] ELSE ledger
      BY <2>4 DEF Claim
    <3> QED BY <2>1, <3>1
  <2>5. ASSUME NEW b \in Beats, NEW k \in Jobs, EndFire(b, k) PROVE ledger'[j][t] = ledger[j][t]
    <3>1. PICK u : ledger' = Finished(k, u)
      BY <2>5 DEF EndFire
    <3> QED BY <2>1, <3>1 DEF Finished
  <2>6. UNCHANGED vars \/ Clock => UNCHANGED ledger
    BY DEF vars, Clock
  <2>7. ASSUME NEW b \in Beats,
               Boot(b) \/ Crash(b) \/ LockLost(b) \/ LedgerRaises(b) \/ ReapRaises(b)
                 \/ BacklogRaises(b) \/ Unwound(b)
        PROVE  UNCHANGED ledger
    BY <2>7 DEF Boot, Crash, LockLost, LedgerRaises, ReapRaises, BacklogRaises, Unwound, Unwind, Stopped
  <2>8. ASSUME NEW b \in Beats, TickStart(b) \/ Consider(b) PROVE UNCHANGED ledger
    BY <2>8 DEF TickStart, Consider
  <2>9. ASSUME NEW b \in Beats, NEW k \in Jobs, Acquire(b, k) \/ StartFire(b, k) \/ BreakRun(b, k)
        PROVE  UNCHANGED ledger
    BY <2>9 DEF Acquire, StartFire, BreakRun
  <2> QED
    BY <1>1, <2>2, <2>3, <2>4, <2>5, <2>6, <2>7, <2>8, <2>9 DEF Next, TickStep, Task
<1>2. TypeInv /\ [Next]_vars =>
        [\A j \in Jobs : \A t \in Times :
           ledger[j][t] \in Outcomes => ledger'[j][t] = ledger[j][t]]_vars
  BY <1>1
<1>3. Spec => []TypeInv
  BY TypeInit, TypeStep, PTL DEF Spec
<1> QED BY <1>2, <1>3, PTL DEF Spec, VerdictsStand

-----------------------------------------------------------------------------
(* A process that is down, or has not swept yet, has no task.              *)
Rested == \A b \in Beats : beat[b] \in {"down", "boot"} => \A j \in Jobs : fires[b][j] = {}

(* A beat that ticks holds the lock ...                                    *)
HoldsLock == \A b \in Beats : beat[b] \in {"boot", "sleep", "tick"} => lock = b

(* ... and what a beat has claimed is open until it records it, unless it  *)
(* is unwinding.                                                           *)
HandsOpen ==
  \A b \in Beats, j \in Jobs : beat[b] # "unwind" => \A t \in Hold(b, j) : ledger[j][t] = "open"

SoleInv == Rested /\ (drops = 0 => HoldsLock /\ HandsOpen)

LEMMA SoleInit == Init => SoleInv
<1> SUFFICES ASSUME Init PROVE SoleInv
  OBVIOUS
<1>1. Rested /\ HoldsLock
  BY DEF Init, Rested, HoldsLock
<1>2. HandsOpen
  BY DEF Init, HandsOpen, Hold
<1> QED BY <1>1, <1>2 DEF SoleInv

(* A beat that is not to take a claim or a lock away may go on.            *)
LEMMA SoleKept ==
  ASSUME SoleInv, lock' = lock, drops' = drops, ledger' = ledger, fires' = fires,
         \A c \in Beats, k \in Jobs : Hold(c, k)' = Hold(c, k),
         \A c \in Beats : beat'[c] = beat[c] \/ (beat[c] \in {"sleep", "tick"} /\ beat'[c] \in {"sleep", "tick"})
  PROVE  SoleInv'
<1>1. Rested'
  BY DEF SoleInv, Rested
<1>2. HoldsLock => HoldsLock'
  BY DEF HoldsLock
<1>3. HandsOpen => HandsOpen'
  <2> SUFFICES ASSUME HandsOpen, NEW c \in Beats, NEW k \in Jobs, beat'[c] # "unwind",
                      NEW t \in Hold(c, k)'
               PROVE  ledger'[k][t] = "open"
    BY DEF HandsOpen
  <2>1. t \in Hold(c, k) /\ beat[c] # "unwind"
    OBVIOUS
  <2> QED BY <2>1 DEF HandsOpen
<1> QED BY <1>1, <1>2, <1>3 DEF SoleInv

(* A beat that stops or unwinds: nobody else's lock goes with its own.     *)
LEMMA SoleReleased ==
  ASSUME TypeInv, SoleInv, NEW b \in Beats, Stopped(b) \/ Unwind(b)
  PROVE  SoleInv'
<1>1. /\ lock' = IF lock = b THEN NoBeat ELSE lock
      /\ ledger' = ledger /\ drops' = drops
      /\ \A c \in Beats \ {b} : beat'[c] = beat[c] /\ \A j \in Jobs : fires'[c][j] = fires[c][j]
      /\ \A c \in Beats \ {b}, j \in Jobs : Hold(c, j)' = Hold(c, j)
  BY ZenonT(60) DEF TypeInv, Types, Stopped, Unwind, taskVars, Hold
<1>2. \/ beat'[b] = "unwind"
      \/ beat'[b] = "down" /\ \A j \in Jobs : fires'[b][j] = {} /\ Hold(b, j)' = {}
  BY SMTT(30) DEF TypeInv, Types, Stopped, Unwind, Hold
<1>3. Rested'
  BY <1>1, <1>2 DEF SoleInv, Rested
<1>4. HoldsLock => HoldsLock'
  BY <1>1, <1>2 DEF HoldsLock
<1>5. HandsOpen => HandsOpen'
  <2> SUFFICES ASSUME HandsOpen, NEW c \in Beats, NEW k \in Jobs, beat'[c] # "unwind",
                      NEW t \in Hold(c, k)'
               PROVE  ledger'[k][t] = "open"
    BY DEF HandsOpen
  <2>1. c # b
    BY <1>2
  <2>2. t \in Hold(c, k) /\ beat[c] # "unwind"
    BY <1>1, <2>1
  <2> QED BY <1>1, <2>2 DEF HandsOpen
<1> QED BY <1>1, <1>3, <1>4, <1>5 DEF SoleInv

(* single_instance: the lock is free only when no beat ticks.              *)
LEMMA SoleBoot ==
  ASSUME TypeInv, SoleInv, NEW b \in Beats, Boot(b)
  PROVE  SoleInv'
<1>1. /\ lock = NoBeat /\ lock' = b /\ beat[b] = "down" /\ beat'[b] = "boot"
      /\ \A c \in Beats \ {b} : beat'[c] = beat[c]
      /\ ledger' = ledger /\ drops' = drops /\ fires' = fires
      /\ \A c \in Beats, k \in Jobs : Hold(c, k)' = Hold(c, k)
  BY DEF TypeInv, Types, Boot, taskVars, Hold
<1>2. Rested'
  BY <1>1 DEF SoleInv, Rested
<1>3. HoldsLock => HoldsLock'
  BY <1>1 DEF HoldsLock
<1>4. HandsOpen => HandsOpen'
  <2> SUFFICES ASSUME HandsOpen, NEW c \in Beats, NEW k \in Jobs, beat'[c] # "unwind",
                      NEW t \in Hold(c, k)'
               PROVE  ledger'[k][t] = "open"
    BY DEF HandsOpen
  <2>1. t \in Hold(c, k) /\ beat[c] # "unwind"
    BY <1>1
  <2> QED BY <1>1, <2>1 DEF HandsOpen
<1> QED BY <1>1, <1>2, <1>3, <1>4 DEF SoleInv

(* _sweep_abandoned closes nothing a beat that ticks has in hand.          *)
LEMMA SoleSweep ==
  ASSUME TypeInv, SoleInv, NEW b \in Beats, Sweep(b)
  PROVE  SoleInv'
<1>1. /\ beat[b] = "boot" /\ beat'[b] = "sleep" /\ \A c \in Beats \ {b} : beat'[c] = beat[c]
      /\ lock' = lock /\ drops' = drops /\ fires' = fires
      /\ \A c \in Beats, k \in Jobs : Hold(c, k)' = Hold(c, k)
  BY DEF TypeInv, Types, Sweep, taskVars, Hold
<1>2. Rested'
  BY <1>1 DEF SoleInv, Rested
<1>3. HoldsLock => HoldsLock'
  BY <1>1 DEF HoldsLock
<1>4. HoldsLock => HandsOpen'
  <2> SUFFICES ASSUME HoldsLock, NEW c \in Beats, NEW k \in Jobs, beat'[c] # "unwind"
               PROVE  Hold(c, k)' = {}
    BY DEF HandsOpen
  <2>1. beat[c] \in {"down", "boot"}
    <3>1. beat[c] \in {"down", "boot", "sleep", "tick", "unwind"}
      BY DEF TypeInv, Types
    <3>2. beat[c] \in {"sleep", "tick"} => c = b
      BY <1>1 DEF HoldsLock
    <3>3. beat[c] # "unwind"
      BY <1>1
    <3> QED BY <1>1, <3>1, <3>2, <3>3
  <2>2. fires[c][k] = {} /\ got[c] = {}
    BY <2>1 DEF SoleInv, Rested, TypeInv, Claiming
  <2>3. Hold(c, k) = {}
    BY <2>2 DEF Hold
  <2> QED BY <1>1, <2>3
<1> QED BY <1>1, <1>2, <1>3, <1>4 DEF SoleInv

LEMMA HandsInTime ==
  ASSUME TypeInv, NEW c \in Beats, NEW k \in Jobs
  PROVE  fires[c][k] \subseteq Times /\ got[c] \subseteq Times
<1>1. fires \in [Beats -> [Jobs -> SUBSET Times]] /\ got \in [Beats -> SUBSET Times]
  BY DEF TypeInv, Types
<1> QED BY <1>1

(* claim: a fire time is won open.                                         *)
LEMMA ClaimWins ==
  ASSUME TypeInv, NEW b \in Beats, Claim(b)
  PROVE  \E j \in Jobs, t \in due[b], w \in SUBSET Times :
           /\ j = Order[pos[b]] /\ Least(due[b], t) /\ t \in Times
           /\ ledger' = IF ledger[j][t] = "none" THEN [ledger EXCEPT ![j][t] = "open"] ELSE ledger
           /\ w = IF ledger[j][t] = "none" THEN got[b] \cup {t} ELSE got[b]
           /\ ClaimMoved(b, j, t, w)
           /\ beat[b] = "tick" /\ got[b] = Hold(b, j) /\ lock' = lock /\ drops' = drops
<1>1. PICK j \in Jobs : j = Order[pos[b]]
  BY Constants DEF TypeInv, Types
<1>2. PICK t \in due[b] :
        LET wins == ledger[j][t] = "none" IN
        /\ Least(due[b], t)
        /\ ledger' = IF wins THEN [ledger EXCEPT ![j][t] = "open"] ELSE ledger
        /\ Tried(b, j, t, IF wins THEN got[b] \cup {t} ELSE got[b])
  BY <1>1 DEF Claim
<1>3. PICK w : w = IF ledger[j][t] = "none" THEN got[b] \cup {t} ELSE got[b]
  OBVIOUS
<1>4. t \in Times /\ w \in SUBSET Times
  BY <1>3, SMTT(30) DEF TypeInv, Types
<1>5. ClaimMoved(b, j, t, w)
  <2>1. Tried(b, j, t, w)
    BY <1>2, <1>3
  <2> QED BY <1>1, <2>1, ClaimMoves
<1>6. beat[b] = "tick" /\ lock' = lock /\ drops' = drops
  BY DEF Claim
<1>7. got[b] = Hold(b, j)
  <2>1. stage[b][j] = "none"
    BY <1>1 DEF TypeInv, Claiming
  <2>2. fires[b][j] = {}
    BY <2>1 DEF TypeInv, Busy
  <2> QED BY <1>1, <2>2 DEF Hold
<1> QED BY <1>1, <1>2, <1>3, <1>4, <1>5, <1>6, <1>7

LEMMA SoleClaim ==
  ASSUME TypeInv, SoleInv, NEW b \in Beats, Claim(b)
  PROVE  SoleInv'
<1>1. PICK j \in Jobs, t \in due[b], w \in SUBSET Times :
           /\ j = Order[pos[b]] /\ Least(due[b], t) /\ t \in Times
           /\ ledger' = IF ledger[j][t] = "none" THEN [ledger EXCEPT ![j][t] = "open"] ELSE ledger
           /\ w = IF ledger[j][t] = "none" THEN got[b] \cup {t} ELSE got[b]
           /\ ClaimMoved(b, j, t, w)
           /\ beat[b] = "tick" /\ got[b] = Hold(b, j) /\ lock' = lock /\ drops' = drops
  BY ClaimWins, Zenon
<1>2. /\ beat'[b] \in {"tick", "sleep"} /\ \A c \in Beats \ {b} : beat'[c] = beat[c]
      /\ \A c \in Beats \ {b}, k \in Jobs : fires'[c][k] = fires[c][k]
  BY <1>1 DEF ClaimMoved
<1>3. /\ \A k \in Jobs, u \in Times : ledger[k][u] = "open" => ledger'[k][u] = "open"
      /\ ledger[j][t] = "none" => ledger'[j][t] = "open"
  BY <1>1 DEF TypeInv, Types
<1>4. \A c \in Beats, k \in Jobs : Hold(c, k) \subseteq Times
  BY HandsInTime DEF Hold
<1>5. Rested'
  BY <1>2 DEF SoleInv, Rested
<1>6. HoldsLock => HoldsLock'
  BY <1>1, <1>2 DEF HoldsLock
<1>7. HandsOpen => HandsOpen'
  <2> SUFFICES ASSUME HandsOpen, NEW c \in Beats, NEW k \in Jobs, beat'[c] # "unwind",
                      NEW u \in Hold(c, k)'
               PROVE  ledger'[k][u] = "open"
    BY DEF HandsOpen
  <2>1. beat[c] # "unwind"
    BY <1>1, <1>2
  <2>2. CASE u \in Hold(c, k)
    BY <1>3, <1>4, <2>1, <2>2 DEF HandsOpen
  <2>3. CASE u \notin Hold(c, k)
    <3>1. c = b /\ k = j
      <4>1. /\ \A l \in Jobs \ {j} : Hold(b, l)' = Hold(b, l)
            /\ \A d \in Beats \ {b}, l \in Jobs : Hold(d, l)' = Hold(d, l)
        BY <1>1, Zenon DEF ClaimMoved
      <4>2. Hold(c, k)' # Hold(c, k)
        BY <2>3
      <4> QED BY <4>1, <4>2
    <3>2. u \in w
      BY <1>1, <3>1, Zenon DEF ClaimMoved
    <3>3. u = t /\ ledger[j][t] = "none"
      BY <1>1, <2>3, <3>1, <3>2
    <3> QED BY <1>3, <3>1, <3>3
  <2> QED BY <2>2, <2>3
<1> QED BY <1>1, <1>5, <1>6, <1>7 DEF SoleInv

(* finish: the fire time recorded was in nobody else's hands.              *)
LEMMA SoleEndRun ==
  ASSUME TypeInv, Own, SoleInv, NEW b \in Beats, NEW j \in Jobs, EndFire(b, j)
  PROVE  SoleInv'
<1>1. PICK t \in fires[b][j] :
        ledger' = Finished(j, t) /\ fires' = [fires EXCEPT ![b][j] = @ \ {t}]
  BY DEF EndFire
<1>2. /\ stage[b][j] = "running" /\ UNCHANGED <<lock, drops, beat, got, pos>>
      /\ t \in Times
  BY DEF EndFire, tickVars, TypeInv, Types
<1>3. /\ fires'[b][j] = fires[b][j] \ {t}
      /\ \A c \in Beats, k \in Jobs : fires'[c][k] \subseteq fires[c][k]
      /\ \A c \in Beats, k \in Jobs : fires[c][k] \subseteq Times /\ got[c] \subseteq Times
  <2>1. fires \in [Beats -> [Jobs -> SUBSET Times]]
    BY DEF TypeInv, Types
  <2>2. /\ fires'[b][j] = fires[b][j] \ {t}
        /\ \A c \in Beats, k \in Jobs : c # b \/ k # j => fires'[c][k] = fires[c][k]
    BY <1>1, <2>1
  <2> QED BY <2>2, HandsInTime
<1>4. \A k \in Jobs, u \in Times : k # j \/ u # t => ledger'[k][u] = ledger[k][u]
  BY <1>1, <1>2 DEF Finished, TypeInv, Types
<1>5. Rested'
  BY <1>2, <1>3 DEF SoleInv, Rested
<1>6. HoldsLock => HoldsLock'
  BY <1>2 DEF HoldsLock
<1>7. HandsOpen => HandsOpen'
  <2> SUFFICES ASSUME HandsOpen, NEW c \in Beats, NEW k \in Jobs, beat'[c] # "unwind",
                      NEW u \in Hold(c, k)'
               PROVE  ledger'[k][u] = "open"
    BY DEF HandsOpen
  <2>1. u \in Hold(c, k) /\ u \in Times
    BY <1>2, <1>3 DEF Hold
  <2>2. k # j \/ u # t
    <3> SUFFICES ASSUME k = j, u = t PROVE FALSE
      OBVIOUS
    <3>1. t \in Hold(b, j) /\ t \in Hold(c, j)
      BY <2>1 DEF Hold
    <3>2. c = b
      BY <3>1 DEF Own
    <3>3. got[b] = {} \/ Order[pos[b]] # j
      BY <1>2 DEF TypeInv, Claiming
    <3> QED BY <1>2, <1>3, <3>2, <3>3 DEF Hold
  <2>3. ledger[k][u] = "open"
    BY <1>2, <2>1 DEF HandsOpen
  <2> QED BY <1>4, <2>1, <2>2, <2>3
<1> QED BY <1>2, <1>5, <1>6, <1>7 DEF SoleInv

LEMMA SoleStep == TypeInv /\ Own /\ SoleInv /\ [Next]_vars => SoleInv'
<1> SUFFICES ASSUME TypeInv, Own, SoleInv, [Next]_vars PROVE SoleInv'
  OBVIOUS
<1>1. CASE UNCHANGED vars \/ Clock
  <2>1. UNCHANGED <<lock, drops, ledger, fires, got, pos, beat>>
    BY <1>1 DEF Clock, vars, tickVars, taskVars
  <2> QED BY <2>1, SoleKept DEF Hold
<1>2. ASSUME NEW b \in Beats, NEW j \in Jobs, Acquire(b, j) \/ StartFire(b, j) \/ BreakRun(b, j)
      PROVE  SoleInv'
  <2>1. UNCHANGED <<lock, drops, ledger, fires, got, pos, beat>>
    BY <1>2 DEF Acquire, StartFire, BreakRun, tickVars
  <2> QED BY <2>1, SoleKept DEF Hold
<1>3. ASSUME NEW b \in Beats, TickStart(b) \/ Consider(b) PROVE SoleInv'
  <2>1. UNCHANGED <<lock, drops, ledger, fires, got>> /\ got[b] = {}
    BY <1>3 DEF TickStart, Consider, taskVars, TypeInv, Claiming
  <2>2. /\ beat[b] \in {"sleep", "tick"} /\ beat'[b] \in {"sleep", "tick"}
        /\ \A c \in Beats \ {b} : beat'[c] = beat[c] /\ pos'[c] = pos[c]
    <3>1. CASE TickStart(b)
      BY <3>1 DEF TickStart, TypeInv, Types
    <3>2. CASE Consider(b)
      BY <3>2, TypeNextEntry DEF Consider, NextEntry, TypeInv, Types
    <3> QED BY <1>3, <3>1, <3>2
  <2>3. \A c \in Beats, k \in Jobs : Hold(c, k)' = Hold(c, k)
    BY <2>1, <2>2 DEF Hold
  <2> QED BY <2>1, <2>2, <2>3, SoleKept
<1>4. ASSUME NEW b \in Beats, LockLost(b) PROVE SoleInv'
  <2>1. drops' # 0 /\ UNCHANGED <<beat, fires>>
    BY <1>4 DEF LockLost, TypeInv, Types, tickVars, taskVars
  <2> QED BY <2>1 DEF SoleInv, Rested
<1>5. ASSUME NEW b \in Beats,
             ReapRaises(b) \/ BacklogRaises(b) \/ LedgerRaises(b) \/ Crash(b) \/ Unwound(b)
      PROVE  SoleInv'
  BY <1>5, SoleReleased DEF ReapRaises, BacklogRaises, LedgerRaises, Crash, Unwound
<1> QED
  BY <1>1, <1>2, <1>3, <1>4, <1>5, SoleBoot, SoleSweep, SoleClaim, SoleEndRun DEF Next, TickStep, Task

(* SoleRunner: only as long as no lock connection has dropped under a live  *)
(* beat, and only of beats that are not unwinding: a job runs in one of     *)
(* them at a time, and nobody sweeps a run it is executing                  *)
(* (single_instance, _sweep_abandoned).  Of the rest OncePerFire speaks.    *)
THEOREM OneRunnerUntilLockLost == Spec => []SoleRunner
<1>1. TypeInv /\ SoleInv => SoleRunner
  <2> SUFFICES ASSUME TypeInv, SoleInv, drops = 0, NEW b \in Beats, NEW j \in Jobs,
                      stage[b][j] = "running", beat[b] # "unwind"
               PROVE  /\ \A t \in fires[b][j] : ledger[j][t] = "open"
                      /\ \A c \in Beats \ {b} : stage[c][j] = "running" => beat[c] = "unwind"
    BY DEF SoleRunner
  <2>1. \A c \in Beats : stage[c][j] = "running" => beat[c] \in {"sleep", "tick", "unwind"}
    <3>1. \A c \in Beats : beat[c] \in {"down", "boot", "sleep", "tick", "unwind"}
      BY DEF TypeInv, Types
    <3>2. \A c \in Beats : stage[c][j] = "running" => fires[c][j] # {}
      BY DEF TypeInv, Busy
    <3> QED BY <3>1, <3>2 DEF SoleInv, Rested
  <2>2. \A t \in fires[b][j] : ledger[j][t] = "open"
    BY DEF SoleInv, HandsOpen, Hold
  <2>3. \A c \in Beats : beat[c] \in {"sleep", "tick"} => lock = c
    BY DEF SoleInv, HoldsLock
  <2> QED BY <2>1, <2>2, <2>3
<1>2. Spec => [](TypeInv /\ Own /\ SoleInv)
  BY TypeInit, TypeStep, OwnInit, OwnStep, SoleInit, SoleStep, PTL DEF Spec
<1> QED BY <1>1, <1>2, PTL

-----------------------------------------------------------------------------
(* No fire time between two of S is missing from it.                       *)
Gapless(j, S) == \A s \in S, t \in S : FireTimesIn(j, s, t) \subseteq S

(* What the cursor has passed has no holes, nor would it have once the     *)
(* tick has claimed what it still has due, in ascending order.             *)
DueFollows(b, j) ==
  /\ Gapless(j, Claimed(j) \cup due[b])
  /\ \A s \in Claimed(j), t \in due[b] : s < t

NoHolesInv ==
  drops = 0 => \A j \in Jobs : Policy[j] = "RUN_EVERY_MISSED" =>
    /\ Gapless(j, Claimed(j))
    /\ \A b \in Beats : due[b] # {} /\ Order[pos[b]] = j => DueFollows(b, j)

LEMMA HolesInit == Init => NoHolesInv
<1> SUFFICES ASSUME Init PROVE NoHolesInv
  OBVIOUS
<1>1. \A j \in Jobs : Claimed(j) = {}
  BY DEF Init, Claimed
<1>2. \A b \in Beats : due[b] = {}
  BY DEF Init
<1> QED BY <1>1, <1>2 DEF NoHolesInv, Gapless

(* A step that claims nothing and finds nothing due.                       *)
LEMMA HolesKept ==
  ASSUME NoHolesInv, drops' = drops,
         \A j \in Jobs, t \in Times : ledger'[j][t] = "none" <=> ledger[j][t] = "none",
         \A b \in Beats : due'[b] = {} \/ (due'[b] = due[b] /\ pos'[b] = pos[b])
  PROVE  NoHolesInv'
<1>1. \A j \in Jobs : Claimed(j)' = Claimed(j)
  BY DEF Claimed
<1>2. ASSUME drops = 0, NEW j \in Jobs, Policy[j] = "RUN_EVERY_MISSED" PROVE Gapless(j, Claimed(j)')
  BY <1>1, <1>2 DEF NoHolesInv
<1>3. ASSUME drops = 0, NEW j \in Jobs, Policy[j] = "RUN_EVERY_MISSED",
             NEW b \in Beats, due'[b] # {}, Order[pos'[b]] = j
      PROVE  DueFollows(b, j)'
  <2>1. DueFollows(b, j) /\ due'[b] = due[b]
    BY <1>3 DEF NoHolesInv
  <2> QED BY <1>1, <2>1 DEF DueFollows, Gapless
<1> QED BY <1>2, <1>3 DEF NoHolesInv, Gapless

(* due_fire_times: the backlog begins where the claims end.                *)
LEMMA MissedFollows ==
  ASSUME LedgerOK, NEW j \in Jobs, NEW n \in Times, Gapless(j, Claimed(j))
  PROVE  /\ Gapless(j, Claimed(j) \cup Missed(j, n))
         /\ \A s \in Claimed(j), t \in Missed(j, n) : s < t
<1>1. Claimed(j) \subseteq Nat /\ Missed(j, n) \subseteq 0..n /\ n \in Nat
  <2>1. Missed(j, n) \subseteq 0..n
    BY MissedInTime
  <2> QED BY <2>1 DEF Claimed
<1>2. ASSUME NEW a \in Int, Missed(j, n) = FireTimesIn(j, a, n), \A s \in Claimed(j) : s <= a,
             a \in Claimed(j) \/ Claimed(j) = {}
      PROVE  /\ Gapless(j, Claimed(j) \cup Missed(j, n))
             /\ \A s \in Claimed(j), t \in Missed(j, n) : s < t
  <2>1. \A t \in Missed(j, n) : a < t
    BY <1>1, <1>2 DEF FireTimesIn
  <2>2. \A s \in Claimed(j), t \in Missed(j, n) : s < t
    BY <1>1, <1>2, <2>1
  <2>3. ASSUME NEW s \in Claimed(j) \cup Missed(j, n), NEW t \in Claimed(j) \cup Missed(j, n),
               NEW u \in FireTimesIn(j, s, t)
        PROVE  u \in Claimed(j) \cup Missed(j, n)
    <3>1. u \in Int /\ s < u /\ u <= t /\ u % Period[j] = 0 /\ s \in Int /\ t \in Int
      BY <1>1, <2>3 DEF FireTimesIn
    <3>2. CASE a < u
      <4>1. u <= n
        BY <1>1, <1>2, <3>1, <3>2
      <4> QED BY <1>2, <3>1, <3>2, <4>1 DEF FireTimesIn
    <3>3. CASE u <= a
      <4>1. s \in Claimed(j)
        BY <1>2, <2>1, <3>1, <3>3
      <4>2. a \in Claimed(j)
        BY <1>2, <4>1
      <4>3. u \in FireTimesIn(j, s, a)
        BY <3>1, <3>3, <1>2 DEF FireTimesIn
      <4> QED BY <4>1, <4>2, <4>3 DEF Gapless
    <3> QED BY <1>2, <3>1, <3>2, <3>3
  <2> QED BY <2>2, <2>3 DEF Gapless
<1>3. CASE Claimed(j) # {}
  <2>1. PICK a : a = Greatest(Claimed(j))
    OBVIOUS
  <2>2. a \in Claimed(j) /\ \A u \in Claimed(j) : u <= a
    BY <1>3, <2>1, GreatestExists DEF Claimed
  <2>3. Missed(j, n) = FireTimesIn(j, a, n)
    BY <1>3, <2>1 DEF Missed, After
  <2>4. a \in Int
    BY <1>1, <2>2
  <2> QED BY <1>2, <2>2, <2>3, <2>4
<1>4. CASE Claimed(j) = {}
  <2>1. (n \div Period[j] - 1) * Period[j] \in Int
    OBVIOUS
  <2>2. Missed(j, n) = FireTimesIn(j, (n \div Period[j] - 1) * Period[j], n)
    BY <1>4 DEF Missed, After
  <2> QED BY <1>2, <1>4, <2>1, <2>2
<1> QED BY <1>3, <1>4

LEMMA HolesConsider ==
  ASSUME TypeInv, NoHolesInv, NEW b \in Beats, Consider(b)
  PROVE  NoHolesInv'
<1>1. PICK j \in Jobs : j = Order[pos[b]]
  BY Constants DEF TypeInv, Types
<1>2. due[b] = {} /\ UNCHANGED <<ledger, drops>> /\ at[b] \in Times /\ LedgerOK
  BY DEF Consider, TypeInv, Types, LedgerOK
<1>3. CASE due' = due
  <2>1. \A c \in Beats : due'[c] = {} \/ (due'[c] = due[c] /\ pos'[c] = pos[c])
    <3>1. CASE NextEntry(b)
      BY <1>2, <1>3, <3>1, TypeNextEntry DEF TypeInv
    <3>2. CASE pos' = pos
      BY <1>3, <3>2
    <3> QED BY <3>1, <3>2 DEF Consider
  <2> QED BY <1>2, <2>1, HolesKept
<1>4. CASE due' = [due EXCEPT ![b] = DueFireTimes(j, at[b])] /\ pos' = pos
  <2>1. /\ due'[b] = DueFireTimes(j, at[b]) /\ \A c \in Beats \ {b} : due'[c] = due[c]
        /\ \A k \in Jobs : Claimed(k)' = Claimed(k)
    BY <1>2, <1>4 DEF TypeInv, Types, Claimed
  <2>2. ASSUME drops = 0, NEW k \in Jobs, Policy[k] = "RUN_EVERY_MISSED"
        PROVE  /\ Gapless(k, Claimed(k))
               /\ \A c \in Beats : due[c] # {} /\ Order[pos[c]] = k => DueFollows(c, k)
    BY <2>2 DEF NoHolesInv
  <2>3. ASSUME drops = 0, NEW k \in Jobs, Policy[k] = "RUN_EVERY_MISSED",
               NEW c \in Beats, due'[c] # {}, Order[pos'[c]] = k
        PROVE  DueFollows(c, k)'
    <3>1. CASE c # b
      <4>1. due'[c] = due[c] /\ DueFollows(c, k)
        BY <1>4, <2>1, <2>2, <2>3, <3>1
      <4> QED BY <2>1, <4>1 DEF DueFollows, Gapless
    <3>2. CASE c = b
      <4>1. k = j /\ due'[b] = Missed(k, at[b])
        BY <1>1, <1>4, <2>1, <2>3, <3>2 DEF DueFireTimes
      <4>2. /\ Gapless(k, Claimed(k) \cup Missed(k, at[b]))
            /\ \A s \in Claimed(k), t \in Missed(k, at[b]) : s < t
        BY <1>2, <2>2, <2>3, MissedFollows
      <4> QED BY <2>1, <3>2, <4>1, <4>2 DEF DueFollows, Gapless
    <3> QED BY <3>1, <3>2
  <2>4. ASSUME drops = 0, NEW k \in Jobs, Policy[k] = "RUN_EVERY_MISSED" PROVE Gapless(k, Claimed(k)')
    BY <2>1, <2>2, <2>4
  <2> QED BY <1>2, <2>3, <2>4 DEF NoHolesInv, Gapless
<1> QED BY <1>1, <1>3, <1>4 DEF Consider

(* claim: the least of what is due is the next fire time after the claims. *)
LEMMA HolesClaim ==
  ASSUME TypeInv, SoleInv, NoHolesInv, NEW b \in Beats, Claim(b)
  PROVE  NoHolesInv'
<1>1. PICK j \in Jobs, t \in due[b], w \in SUBSET Times :
           /\ j = Order[pos[b]] /\ Least(due[b], t) /\ t \in Times
           /\ ledger' = IF ledger[j][t] = "none" THEN [ledger EXCEPT ![j][t] = "open"] ELSE ledger
           /\ w = IF ledger[j][t] = "none" THEN got[b] \cup {t} ELSE got[b]
           /\ ClaimMoved(b, j, t, w)
           /\ beat[b] = "tick" /\ got[b] = Hold(b, j) /\ lock' = lock /\ drops' = drops
  BY ClaimWins, Zenon
<1>2. /\ Claimed(j)' = Claimed(j) \cup {t}
      /\ \A k \in Jobs \ {j} : Claimed(k)' = Claimed(k)
  <2>1. ledger \in [Jobs -> [Times -> {"none", "open"} \cup Outcomes]]
    BY DEF TypeInv, Types
  <2>2. \A u \in Times : (ledger'[j][u] # "none") <=> (ledger[j][u] # "none" \/ u = t)
    BY <1>1, <2>1
  <2>3. \A k \in Jobs \ {j}, u \in Times : ledger'[k][u] = ledger[k][u]
    BY <1>1, <2>1
  <2>4. t \in Times
    BY <1>1
  <2>5. Claimed(j)' = Claimed(j) \cup {t}
    BY <2>2, <2>4 DEF Claimed
  <2>6. ASSUME NEW k \in Jobs \ {j} PROVE Claimed(k)' = Claimed(k)
    BY <2>3 DEF Claimed
  <2> QED BY <2>5, <2>6
<1>3. /\ due'[b] = due[b] \ {t} /\ (due'[b] # {} => pos'[b] = pos[b])
      /\ \A c \in Beats \ {b} : due'[c] = due[c]
  <2>1. due' = [due EXCEPT ![b] = @ \ {t}] /\ (due'[b] # {} => pos'[b] = pos[b])
    BY <1>1 DEF ClaimMoved
  <2>2. DOMAIN due = Beats
    BY DEF TypeInv, Types
  <2>3. due' = [c \in Beats |-> IF c = b THEN due[b] \ {t} ELSE due[c]]
    BY <2>1, <2>2
  <2> QED BY <2>1, <2>3
<1> SUFFICES ASSUME drops = 0 PROVE NoHolesInv'
  BY <1>1 DEF NoHolesInv
<1>4. \A c \in Beats \ {b} : due'[c] = {}
  <2>1. \A c \in Beats : due[c] # {} => lock = c
    BY DEF TypeInv, Claiming, SoleInv, HoldsLock
  <2> QED BY <1>1, <1>3, <2>1
<1>5. ASSUME Policy[j] = "RUN_EVERY_MISSED"
      PROVE  /\ Gapless(j, Claimed(j) \cup {t})
             /\ Gapless(j, (Claimed(j) \cup {t}) \cup (due[b] \ {t}))
             /\ \A s \in Claimed(j) \cup {t}, u \in due[b] \ {t} : s < u
  <2>1. Gapless(j, Claimed(j)) /\ DueFollows(b, j)
    BY <1>1, <1>5 DEF NoHolesInv
  <2>2. Claimed(j) \subseteq Nat /\ due[b] \subseteq Nat
    BY SMTT(30) DEF Claimed, TypeInv, Types
  <2>3. \A u \in due[b] : t <= u
    BY <1>1 DEF Least
  <2>4. \A s \in Claimed(j) \cup {t}, u \in due[b] \ {t} : s < u
    BY <1>1, <2>1, <2>2, <2>3 DEF DueFollows
  <2>5. (Claimed(j) \cup {t}) \cup (due[b] \ {t}) = Claimed(j) \cup due[b]
    BY <1>1
  <2>6. ASSUME NEW s \in Claimed(j) \cup {t}, NEW u \in Claimed(j) \cup {t},
               NEW v \in FireTimesIn(j, s, u)
        PROVE  v \in Claimed(j) \cup {t}
    <3>1. v \in Int /\ s < v /\ v <= u /\ s \in Int /\ u \in Int
      BY <1>1, <2>2, <2>6 DEF FireTimesIn
    <3>2. CASE s \in Claimed(j) /\ u \in Claimed(j)
      BY <2>1, <2>6, <3>2 DEF Gapless
    <3>3. CASE s = t
      BY <1>1, <2>1, <2>2, <3>1, <3>3 DEF DueFollows
    <3>4. CASE s \in Claimed(j) /\ u = t
      <4>1. v \in Claimed(j) \cup due[b]
        BY <1>1, <2>1, <2>6, <3>4 DEF DueFollows, Gapless
      <4> QED BY <2>2, <2>3, <3>1, <3>4, <4>1
    <3> QED BY <2>6, <3>2, <3>3, <3>4
  <2>7. Gapless(j, Claimed(j) \cup {t})
    BY <2>6 DEF Gapless
  <2> QED BY <2>1, <2>4, <2>5, <2>7 DEF DueFollows
<1>6. ASSUME NEW k \in Jobs, Policy[k] = "RUN_EVERY_MISSED" PROVE Gapless(k, Claimed(k)')
  <2>1. CASE k = j
    BY <1>2, <1>5, <1>6, <2>1
  <2>2. CASE k # j
    BY <1>2, <1>6, <2>2 DEF NoHolesInv
  <2> QED BY <2>1, <2>2
<1>7. ASSUME NEW k \in Jobs, Policy[k] = "RUN_EVERY_MISSED",
             NEW c \in Beats, due'[c] # {}, Order[pos'[c]] = k
      PROVE  DueFollows(c, k)'
  <2>1. c = b /\ k = j
    BY <1>1, <1>3, <1>4, <1>7
  <2> QED BY <1>2, <1>3, <1>5, <1>7, <2>1 DEF DueFollows, Gapless
<1> QED BY <1>6, <1>7 DEF NoHolesInv, Gapless

LEMMA HolesStep == TypeInv /\ SoleInv /\ NoHolesInv /\ [Next]_vars => NoHolesInv'
<1> SUFFICES ASSUME TypeInv, SoleInv, NoHolesInv, [Next]_vars PROVE NoHolesInv'
  OBVIOUS
<1>1. CASE UNCHANGED vars \/ Clock
  <2>1. UNCHANGED <<drops, ledger, due, pos>>
    BY <1>1 DEF Clock, vars, tickVars, taskVars
  <2> QED BY <2>1, HolesKept
<1>2. ASSUME NEW b \in Beats, NEW j \in Jobs, Acquire(b, j) \/ StartFire(b, j) \/ BreakRun(b, j)
      PROVE  NoHolesInv'
  <2>1. UNCHANGED <<drops, ledger, due, pos>>
    BY <1>2 DEF Acquire, StartFire, BreakRun, tickVars
  <2> QED BY <2>1, HolesKept
<1>3. ASSUME NEW b \in Beats, NEW j \in Jobs, EndFire(b, j) PROVE NoHolesInv'
  <2>1. PICK t \in fires[b][j] : ledger' = Finished(j, t)
    BY <1>3 DEF EndFire
  <2>2. UNCHANGED <<drops, due, pos>>
    BY <1>3 DEF EndFire, tickVars
  <2>3. \A k \in Jobs, u \in Times : ledger'[k][u] = "none" <=> ledger[k][u] = "none"
    <3>1. t \in Times /\ ledger \in [Jobs -> [Times -> {"none", "open"} \cup Outcomes]]
      BY HandsInTime DEF TypeInv, Types
    <3> QED BY <2>1, <3>1 DEF Finished
  <2> QED BY <2>2, <2>3, HolesKept
<1>4. ASSUME NEW b \in Beats, Boot(b) PROVE NoHolesInv'
  <2>1. UNCHANGED <<drops, ledger, due, pos>>
    BY <1>4 DEF Boot
  <2> QED BY <2>1, HolesKept
<1>5. ASSUME NEW b \in Beats, Sweep(b) PROVE NoHolesInv'
  <2>1. UNCHANGED <<drops, due, pos>>
        /\ \A k \in Jobs, u \in Times : ledger'[k][u] = "none" <=> ledger[k][u] = "none"
    BY <1>5 DEF Sweep
  <2> QED BY <2>1, HolesKept
<1>6. ASSUME NEW b \in Beats, ReapRaises(b) \/ BacklogRaises(b) \/ LedgerRaises(b) PROVE NoHolesInv'
  <2>1. UNCHANGED <<drops, ledger>>
        /\ \A c \in Beats : due'[c] = {} \/ (due'[c] = due[c] /\ pos'[c] = pos[c])
    BY <1>6 DEF ReapRaises, BacklogRaises, LedgerRaises, Unwind, TypeInv, Types
  <2> QED BY <2>1, HolesKept
<1>7. ASSUME NEW b \in Beats, Crash(b) \/ Unwound(b) PROVE NoHolesInv'
  <2>1. UNCHANGED <<drops, ledger>>
        /\ \A c \in Beats : due'[c] = {} \/ (due'[c] = due[c] /\ pos'[c] = pos[c])
    BY <1>7 DEF Crash, Unwound, Stopped, TypeInv, Types
  <2> QED BY <2>1, HolesKept
<1>8. ASSUME NEW b \in Beats, LockLost(b) PROVE NoHolesInv'
  <2>1. drops' # 0
    BY <1>8 DEF LockLost, TypeInv, Types
  <2> QED BY <2>1 DEF NoHolesInv
<1>9. ASSUME NEW b \in Beats, TickStart(b) PROVE NoHolesInv'
  <2>1. UNCHANGED <<drops, ledger, due>> /\ due[b] = {}
        /\ \A c \in Beats \ {b} : pos'[c] = pos[c]
    BY <1>9 DEF TickStart, TypeInv, Types, Claiming
  <2> QED BY <2>1, HolesKept
<1> QED
  BY <1>1, <1>2, <1>3, <1>4, <1>5, <1>6, <1>7, <1>8, <1>9, HolesConsider, HolesClaim
  DEF Next, TickStep, Task

(* NoHoles: only of jobs under RUN_EVERY_MISSED, the other policies skip on *)
(* purpose, and only as long as no lock connection has dropped: the claims  *)
(* of such a job leave no fire time between them unclaimed, wherever a      *)
(* claim loop was cut short (due_fire_times).                               *)
THEOREM EveryMissedRunClaimedUntilLockLost == Spec => []NoHoles
<1>1. NoHolesInv => NoHoles
  BY DEF NoHolesInv, NoHoles, Gapless
<1>2. Spec => [](TypeInv /\ Own /\ SoleInv /\ NoHolesInv)
  BY TypeInit, TypeStep, OwnInit, OwnStep, SoleInit, SoleStep, HolesInit, HolesStep, PTL DEF Spec
<1> QED BY <1>1, <1>2, PTL
=============================================================================
