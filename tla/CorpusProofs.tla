----------------------------- MODULE CorpusProofs -----------------------------
(***************************************************************************)
(* That no delivered print is lost between spool and partition, for every  *)
(* tape, day length, number of crashes and interleaving of the seals with  *)
(* the repair; and that no run of the archive backfill loses a day, for    *)
(* every calendar, history of publication and number of runs and crashes.  *)
(***************************************************************************)
EXTENDS LiveIngestProofs, TapeCorpus, ArchiveBackfill, FiniteSetTheorems

-----------------------------------------------------------------------------
(* The tape: instants and days.                                            *)
Past(d) == clock >= SealableFrom(d)

LEMMA PrintsTyped ==
  /\ Prints \subseteq Nat \ {0} /\ \A i \in Prints : Time[i] \in Nat /\ DayOf(Time[i]) \in Nat
  /\ \E n \in Nat : Prints = 1 .. n
<1>1. PICK n \in Nat : Time \in [1 .. n -> Nat]
  BY TapeAssumption, FS_CardinalityType
<1>2. Prints = 1 .. n
  BY <1>1 DEF Prints
<1>3. \A t \in Nat : DayOf(t) \in Nat
  BY TapeAssumption DEF DayOf
<1>4. \E k \in Nat : Prints = 1 .. k
  BY <1>2, Zenon
<1>5. \A i \in Prints : Time[i] \in Nat /\ DayOf(Time[i]) \in Nat
  BY <1>1, <1>2, <1>3
<1>6. Prints \subseteq Nat \ {0}
  BY <1>2
<1> QED BY <1>4, <1>5, <1>6

LEMMA DayEnds ==
  ASSUME NEW t \in Nat
  PROVE  DayOf(t) \in Nat /\ t < (DayOf(t) + 1) * DayLength
  BY TapeAssumption DEF DayOf

LEMMA DaysOrdered ==
  ASSUME NEW t \in Nat, NEW u \in Nat, t <= u
  PROVE  DayOf(t) <= DayOf(u)
  BY TapeAssumption DEF DayOf

(* A print that may still arrive belongs to a day that is not sealed yet.  *)
LEMMA LateIsNotPast ==
  ASSUME NEW i \in Prints, clock \in Nat, clock <= Time[i] + MaxLate
  PROVE  ~Past(DayOf(Time[i]))
<1>1. PICK t \in Nat : t = Time[i]
  BY PrintsTyped
<1>2. PICK d \in Nat : d = DayOf(t) /\ t < (d + 1) * DayLength
  BY DayEnds
<1>3. PICK e \in Nat : e = (d + 1) * DayLength
  BY TapeAssumption
<1>4. clock <= t + MaxLate /\ t < e
  BY <1>1, <1>2, <1>3
<1>5. clock < e + SealGrace
  BY <1>4, TapeAssumption
<1>6. SealableFrom(d) = e + SealGrace
  BY <1>3 DEF SealableFrom
<1>7. e + SealGrace \in Nat
  BY TapeAssumption
<1> QED BY <1>1, <1>2, <1>5, <1>6, <1>7 DEF Past

-----------------------------------------------------------------------------
(* The invariant.  Of a day the delivered prints stand together: in the    *)
(* spool until the day is sealable, and from its first seal on in the      *)
(* partition and in every copy of it that a seal or a repair has in hand.  *)
Delivered(d) == received \cap PrintsOf(d)

ShapeOK ==
  /\ clock \in 0 .. MaxClock /\ link \in {"off", "connecting", "live"}
  /\ lastId \in Prints \cup {0} /\ received \subseteq Prints /\ files \subseteq Days
  /\ spool = [d \in Days |-> spool[d]] /\ part = [d \in Days |-> part[d]]
  /\ \A d \in Days : spool[d] \subseteq PrintsOf(d) /\ part[d] \subseteq PrintsOf(d)
  /\ \A d \in Days : spool[d] # {} => d \in files
  /\ \A i \in received : Time[i] <= clock

RowOK(g) ==
  /\ g = [from |-> g.from, upto |-> g.upto, kind |-> g.kind, missing |-> g.missing,
          resolution |-> g.resolution]
  /\ g.kind = "sequence" /\ g.from < g.upto /\ g.missing \in Nat \ {0}

RowsOK == \A g \in gaps \cup noticed : RowOK(g)

DayKept(d) ==
  /\ Delivered(d) \subseteq spool[d] \/ (spool[d] = {} /\ Past(d))
  /\ d \notin early =>
       /\ part[d] # {} => Past(d) /\ Delivered(d) \subseteq part[d]
       /\ Delivered(d) \subseteq spool[d] \/ Delivered(d) \subseteq part[d]

DaysKept == \A d \in Days : DayKept(d)

SealOK(t) ==
  \/ t = Resting
  \/ /\ t = [stage |-> "next", days |-> t.days]
     /\ t.days \subseteq Days /\ \A d \in t.days : Past(d)
  \/ /\ t = [stage |-> t.stage, days |-> t.days, day |-> t.day, prints |-> t.prints]
     /\ t.stage \in {"read", "write", "discard"}
     /\ t.days \subseteq Days /\ \A d \in t.days : Past(d)
     /\ t.day \in Days /\ Past(t.day) /\ t.prints \subseteq PrintsOf(t.day)
     /\ t.prints = {} \/ Delivered(t.day) \subseteq t.prints
     /\ t.stage = "write" => t.prints # {}
     /\ (t.prints = {} \/ t.stage = "discard") /\ t.day \notin early =>
          Delivered(t.day) \subseteq part[t.day]

SealsOK ==
  /\ sealing = [s \in Sealers |-> sealing[s]]
  /\ \A s \in Sealers : SealOK(sealing[s])

MendOK ==
  \/ mend = Resting
  \/ /\ mend.stage \in {"read", "write", "resolve"}
     /\ \E a \in Nat, b \in Nat : a <= b /\ mend.ids = a .. b
     /\ mend.recovered \subseteq Prints
     /\ mend.stage # "write" =>
          mend = [stage |-> mend.stage, gap |-> mend.gap, ids |-> mend.ids, held |-> mend.held,
                  recovered |-> mend.recovered]
     /\ mend.stage = "write" =>
          /\ mend.day \in Days /\ mend.file \subseteq PrintsOf(mend.day)
          /\ mend.file # {} /\ mend.day \notin early =>
               Past(mend.day) /\ Delivered(mend.day) \subseteq mend.file

TapeInv == ShapeOK /\ RowsOK /\ DaysKept /\ SealsOK /\ MendOK

-----------------------------------------------------------------------------
(* What every step keeps of the days: a sealable day gets no more prints,  *)
(* and a partition that holds what was delivered goes on holding it.       *)
Onward ==
  /\ \A d \in Days : Past(d) => Past(d)' /\ Delivered(d)' = Delivered(d)
  /\ early \subseteq early'
  /\ \A d \in Days : d \notin early' /\ Past(d) /\ Delivered(d) \subseteq part[d]
                       => Delivered(d) \subseteq part'[d]

LEMMA DaysTyped == Days \subseteq Nat /\ \A d \in Days : SealableFrom(d) \in Nat
<1>1. DayOf(MaxClock) \in Nat
  BY TapeAssumption, DayEnds
<1>2. Days \subseteq Nat
  BY <1>1 DEF Days
<1>3. ASSUME NEW d \in Nat PROVE SealableFrom(d) \in Nat
  <2>1. PICK e \in Nat : e = (d + 1) * DayLength
    BY TapeAssumption
  <2> QED BY <2>1, TapeAssumption DEF SealableFrom
<1> QED BY <1>2, <1>3

LEMMA PastStays ==
  ASSUME clock \in Nat, clock' \in Nat, clock <= clock', NEW d \in Days, Past(d)
  PROVE  Past(d)'
<1>1. PICK e \in Nat : e = SealableFrom(d)
  BY DaysTyped
<1>2. clock >= e
  BY <1>1 DEF Past
<1>3. clock' >= e
  BY <1>2
<1>4. SealableFrom(d)' = e
  BY <1>1 DEF SealableFrom
<1> QED BY <1>3, <1>4 DEF Past

LEMMA SealStays ==
  ASSUME Onward, NEW t, SealOK(t)
  PROVE  SealOK(t)'
<1>1. CASE t = Resting
  BY <1>1 DEF SealOK
<1>2. CASE /\ t = [stage |-> "next", days |-> t.days]
           /\ t.days \subseteq Days /\ \A d \in t.days : Past(d)
  <2>1. \A d \in t.days : Past(d)'
    BY <1>2 DEF Onward
  <2> QED BY <1>2, <2>1 DEF SealOK
<1>3. CASE t # Resting /\ t # [stage |-> "next", days |-> t.days]
  <2>1. /\ t = [stage |-> t.stage, days |-> t.days, day |-> t.day, prints |-> t.prints]
        /\ t.stage \in {"read", "write", "discard"}
        /\ t.days \subseteq Days /\ \A d \in t.days : Past(d)
        /\ t.day \in Days /\ Past(t.day) /\ t.prints \subseteq PrintsOf(t.day)
        /\ t.prints = {} \/ Delivered(t.day) \subseteq t.prints
        /\ t.stage = "write" => t.prints # {}
        /\ (t.prints = {} \/ t.stage = "discard") /\ t.day \notin early =>
             Delivered(t.day) \subseteq part[t.day]
    BY <1>3 DEF SealOK
  <2>2. PICK d \in Days : d = t.day
    BY <2>1
  <2>3. Past(d) /\ Past(d)' /\ Delivered(d)' = Delivered(d)
    BY <2>1, <2>2 DEF Onward
  <2>4. (t.prints = {} \/ t.stage = "discard") /\ d \notin early' => Delivered(d)' \subseteq part'[d]
    BY <2>1, <2>2, <2>3 DEF Onward
  <2>5. \A x \in t.days : Past(x)'
    BY <2>1 DEF Onward
  <2>6. Past(t.day)' /\ Delivered(t.day)' = Delivered(d)'
    BY <2>2, <2>3 DEF Past, Delivered
  <2> QED BY <2>1, <2>2, <2>3, <2>4, <2>5, <2>6 DEF SealOK
<1> QED BY <1>1, <1>2, <1>3 DEF SealOK

LEMMA SealsStay == ASSUME Onward, SealsOK, sealing' = sealing PROVE SealsOK'
<1>1. ASSUME NEW s \in Sealers PROVE SealOK(sealing[s])'
  <2>1. PICK t : t = sealing[s]
    OBVIOUS
  <2>2. SealOK(t)'
    BY <2>1, SealStays DEF SealsOK
  <2> QED BY <2>1, <2>2 DEF SealOK
<1> QED BY <1>1 DEF SealsOK

LEMMA SealMoves ==
  ASSUME Onward, SealsOK, NEW s \in Sealers, NEW t, SealOK(t)', sealing' = [sealing EXCEPT ![s] = t]
  PROVE  SealsOK'
<1>1. ASSUME NEW x \in Sealers PROVE SealOK(sealing[x])'
  <2>1. PICK u : u = sealing'[x]
    OBVIOUS
  <2>2. CASE x = s
    BY <2>1, <2>2 DEF SealOK, SealsOK
  <2>3. CASE x # s
    <3>1. u = sealing[x]
      BY <2>1, <2>3 DEF SealsOK
    <3>2. SealOK(u)'
      BY <3>1, SealStays DEF SealsOK
    <3> QED BY <2>1, <3>2 DEF SealOK
  <2> QED BY <2>2, <2>3
<1> QED BY <1>1 DEF SealsOK

LEMMA MendStays == ASSUME Onward, MendOK, mend' = mend PROVE MendOK'
<1>1. CASE mend = Resting \/ mend.stage # "write"
  BY <1>1 DEF MendOK
<1>2. CASE mend # Resting /\ mend.stage = "write"
  <2>1. PICK d \in Days : d = mend.day
    BY <1>2 DEF MendOK
  <2>2. mend.file # {} /\ d \notin early' => Past(d) /\ Delivered(d) \subseteq mend.file
    BY <1>2, <2>1 DEF MendOK, Onward
  <2>3. mend.file # {} /\ d \notin early' => Past(d)' /\ Delivered(d)' \subseteq mend.file
    BY <2>2 DEF Onward
  <2>4. (Past(mend.day))' = Past(d)' /\ Delivered(mend.day)' = Delivered(d)'
    BY <2>1 DEF Past, Delivered
  <2> QED BY <1>2, <2>1, <2>3, <2>4 DEF MendOK
<1> QED BY <1>1, <1>2

(* Nothing but the clock moves.                                            *)
LEMMA DaysQuiet ==
  ASSUME clock \in Nat, clock' \in Nat, clock <= clock', DaysKept,
         UNCHANGED <<received, spool, part, early>>
  PROVE  Onward /\ DaysKept'
<1>1. \A d \in Days : Delivered(d)' = Delivered(d)
  BY DEF Delivered
<1>2. \A d \in Days : Past(d) => Past(d)'
  BY PastStays
<1>3. Onward
  BY <1>1, <1>2 DEF Onward
<1>4. ASSUME NEW d \in Days PROVE DayKept(d)'
  BY <1>1, <1>2 DEF DaysKept, DayKept
<1> QED BY <1>3, <1>4 DEF DaysKept

-----------------------------------------------------------------------------
(* The steps of the clock and the session.                                 *)
LEMMA ClockKeeps == TapeInv /\ ClockTick => TapeInv'
<1> SUFFICES ASSUME TapeInv, ClockTick PROVE TapeInv'
  OBVIOUS
<1>1. /\ clock \in Nat /\ clock' \in 0 .. MaxClock /\ clock' \in Nat /\ clock <= clock'
      /\ UNCHANGED <<gaps, link, lastId, noticed, files, spool, part, sealing, mend, received, early>>
  BY TapeAssumption DEF ClockTick, history, TapeInv, ShapeOK
<1>2. Onward /\ DaysKept'
  BY <1>1, DaysQuiet DEF TapeInv
<1>3. SealsOK' /\ MendOK'
  BY <1>1, <1>2, SealsStay, MendStays DEF TapeInv
<1>4. ShapeOK'
  <2>1. \A x \in received : Time[x] <= clock'
    BY <1>1, PrintsTyped DEF TapeInv, ShapeOK
  <2> QED BY <1>1, <2>1 DEF TapeInv, ShapeOK
<1>5. RowsOK'
  BY <1>1 DEF TapeInv, RowsOK
<1> QED BY <1>2, <1>3, <1>4, <1>5 DEF TapeInv

LEMMA ElapsedIsPast == ShapeOK => Elapsed \subseteq Days /\ \A d \in Elapsed : Past(d)
  BY DEF ShapeOK, Elapsed, Past

(* A step that leaves the days and the clock alone.                        *)
DaysStand == UNCHANGED <<clock, spool, part, received, early>>

LEMMA StandsOnward == ASSUME TapeInv, DaysStand PROVE Onward /\ DaysKept'
<1>1. clock \in Nat /\ clock' \in Nat /\ clock <= clock' /\ UNCHANGED <<received, spool, part, early>>
  BY TapeAssumption DEF TapeInv, ShapeOK, DaysStand
<1> QED BY <1>1, DaysQuiet DEF TapeInv

LEMMA OpenKeeps ==
  ASSUME TapeInv, NEW s \in Sealers, sealing' = [sealing EXCEPT ![s] = [stage |-> "next", days |-> Elapsed]],
         link' \in {"off", "connecting", "live"}, lastId' \in {0, lastId},
         DaysStand, UNCHANGED <<gaps, noticed, files, mend>>
  PROVE  TapeInv'
<1>1. Onward /\ DaysKept'
  BY StandsOnward
<1>2. PICK t : t = [stage |-> "next", days |-> Elapsed]
  OBVIOUS
<1>3. SealOK(t)
  BY <1>2, ElapsedIsPast DEF TapeInv, SealOK
<1>4. SealOK(t)'
  BY <1>1, <1>3, SealStays
<1>5. SealsOK'
  <2>1. SealsOK /\ sealing' = [sealing EXCEPT ![s] = t]
    BY <1>2 DEF TapeInv
  <2> QED BY <1>1, <1>4, <2>1, SealMoves
<1>6. MendOK'
  BY <1>1, MendStays DEF TapeInv
<1>7. ShapeOK' /\ RowsOK'
  BY DEF TapeInv, ShapeOK, RowsOK, DaysStand
<1> QED BY <1>1, <1>5, <1>6, <1>7 DEF TapeInv

LEMMA OpenLinkKeeps == TapeInv /\ OpenLink => TapeInv'
<1> SUFFICES ASSUME TapeInv, OpenLink PROVE TapeInv'
  OBVIOUS
<1>1. PICK s \in Sealers : s = "connect"
  BY DEF Sealers
<1>2. /\ sealing' = [sealing EXCEPT ![s] = [stage |-> "next", days |-> Elapsed]]
      /\ link' \in {"off", "connecting", "live"} /\ lastId' \in {0, lastId}
      /\ DaysStand /\ UNCHANGED <<gaps, noticed, files, mend>>
  BY <1>1 DEF OpenLink, DaysStand, history
<1> QED BY <1>2, OpenKeeps

LEMMA PollSealKeeps == TapeInv /\ PollSeal => TapeInv'
<1> SUFFICES ASSUME TapeInv, PollSeal PROVE TapeInv'
  OBVIOUS
<1>1. PICK s \in Sealers : s = "poller"
  BY DEF Sealers
<1>2. /\ sealing' = [sealing EXCEPT ![s] = [stage |-> "next", days |-> Elapsed]]
      /\ link' \in {"off", "connecting", "live"} /\ lastId' \in {0, lastId}
      /\ DaysStand /\ UNCHANGED <<gaps, noticed, files, mend>>
  BY <1>1 DEF PollSeal, DaysStand, history
<1> QED BY <1>2, OpenKeeps

(* A step that may reset the session and its seals, and nothing else.      *)
LEMMA SessionKeeps ==
  ASSUME TapeInv, DaysStand, link' \in {"off", "connecting", "live"}, lastId' \in {0, lastId},
         gaps' \subseteq gaps \cup noticed, noticed' \in {noticed, {}}, SealsOK', MendOK',
         UNCHANGED files
  PROVE  TapeInv'
<1>1. DaysKept'
  BY StandsOnward
<1>2. ShapeOK' /\ RowsOK'
  BY DEF TapeInv, ShapeOK, RowsOK, DaysStand
<1> QED BY <1>1, <1>2 DEF TapeInv

LEMMA NoticedKeeps == TapeInv /\ WriteNoticed => TapeInv'
<1> SUFFICES ASSUME TapeInv, WriteNoticed PROVE TapeInv'
  OBVIOUS
<1>1. /\ DaysStand /\ link' \in {"off", "connecting", "live"} /\ lastId' \in {0, lastId}
      /\ gaps' \subseteq gaps \cup noticed /\ noticed' = {} /\ UNCHANGED <<files, sealing, mend>>
  BY DEF WriteNoticed, InsertGaps, DaysStand, history
<1>2. SealsOK' /\ MendOK'
  BY <1>1, StandsOnward, SealsStay, MendStays DEF TapeInv
<1> QED BY <1>1, <1>2, SessionKeeps

LEMMA LoseKeeps == TapeInv /\ LoseLink => TapeInv'
<1> SUFFICES ASSUME TapeInv, LoseLink PROVE TapeInv'
  OBVIOUS
<1>1. /\ DaysStand /\ link' \in {"off", "connecting", "live"} /\ lastId' \in {0, lastId}
      /\ gaps' \subseteq gaps \cup noticed /\ noticed' = noticed /\ UNCHANGED <<files, sealing, mend>>
  BY DEF LoseLink, DaysStand, history
<1>2. SealsOK' /\ MendOK'
  BY <1>1, StandsOnward, SealsStay, MendStays DEF TapeInv
<1> QED BY <1>1, <1>2, SessionKeeps

LEMMA KilledKeeps == TapeInv /\ Killed => TapeInv'
<1> SUFFICES ASSUME TapeInv, Killed PROVE TapeInv'
  OBVIOUS
<1>1. /\ DaysStand /\ link' \in {"off", "connecting", "live"} /\ lastId' \in {0, lastId}
      /\ gaps' \subseteq gaps \cup noticed /\ noticed' = {} /\ UNCHANGED <<files, mend>>
      /\ sealing' = [s \in Sealers |-> Resting]
  BY DEF Killed, DaysStand, history
<1>2. SealsOK'
  BY <1>1 DEF SealsOK, SealOK
<1>3. MendOK'
  BY <1>1, StandsOnward, MendStays DEF TapeInv
<1> QED BY <1>1, <1>2, <1>3, SessionKeeps

(* A print arrives while its day is not sealable: no seal and no repair    *)
(* has a copy of that day.                                                 *)
LEMMA ReceiveKeeps ==
  ASSUME TapeInv, NEW i \in Prints, Receive(i)
  PROVE  TapeInv'
<1>1. PICK d : d = DayOf(Time[i])
  OBVIOUS
<1>2. /\ clock \in Nat /\ clock \in 0 .. MaxClock /\ clock' = clock /\ Time[i] \in Nat /\ Time[i] <= clock
      /\ clock <= Time[i] + MaxLate /\ lastId <= i /\ link = "live"
      /\ files' = files \cup {d} /\ spool' = [spool EXCEPT ![d] = spool[d] \cup {i}]
      /\ noticed' = SequenceGap(i) /\ lastId' = i /\ received' = received \cup {i}
      /\ UNCHANGED <<gaps, link, part, sealing, mend, early>>
  BY <1>1, TapeAssumption, PrintsTyped DEF Receive, Append, TapeInv, ShapeOK
<1>3. d \in Days /\ i \in PrintsOf(d) /\ \A x \in Days : x # d => i \notin PrintsOf(x)
  <2>1. d <= DayOf(MaxClock)
    <3>1. Time[i] <= MaxClock
      BY <1>2, TapeAssumption
    <3>2. PICK t \in Nat : t = Time[i]
      BY <1>2
    <3> QED BY <1>1, <3>1, <3>2, DaysOrdered, TapeAssumption
  <2>2. d \in Nat /\ DayOf(MaxClock) \in Nat
    BY <1>1, <1>2, DayEnds, TapeAssumption
  <2>3. d \in Days
    BY <2>1, <2>2 DEF Days
  <2> QED BY <1>1, <2>3 DEF PrintsOf
<1>4. ~Past(d)
  BY <1>1, <1>2, LateIsNotPast
<1>5. /\ \A x \in Days : x # d => Delivered(x)' = Delivered(x) /\ spool'[x] = spool[x]
      /\ Delivered(d)' = Delivered(d) \cup {i} /\ spool'[d] = spool[d] \cup {i}
      /\ \A x \in Days : Past(x)' <=> Past(x)
  BY <1>2, <1>3 DEF Delivered, Past, TapeInv, ShapeOK
<1>6. Onward
  <2>1. \A x \in Days : Past(x) => x # d
    BY <1>4
  <2> QED BY <1>2, <1>5, <2>1 DEF Onward
<1>7. DaysKept'
  <2> SUFFICES ASSUME NEW x \in Days PROVE DayKept(x)'
    BY DEF DaysKept
  <2>1. DayKept(x)
    BY DEF TapeInv, DaysKept
  <2>2. CASE x # d
    BY <1>2, <1>5, <2>1, <2>2 DEF DayKept
  <2>3. CASE x = d
    <3>1. Delivered(d) \subseteq spool[d]
      BY <1>4, <2>1, <2>3 DEF DayKept
    <3>2. d \notin early => part[d] = {}
      BY <1>4, <2>1, <2>3 DEF DayKept
    <3> QED BY <1>2, <1>5, <2>3, <3>1, <3>2 DEF DayKept
  <2> QED BY <2>2, <2>3
<1>8. SealsOK' /\ MendOK'
  BY <1>2, <1>6, SealsStay, MendStays DEF TapeInv
<1>9. ShapeOK'
  <2>1. \A x \in Days : spool'[x] \subseteq PrintsOf(x) /\ (spool'[x] # {} => x \in files')
    BY <1>2, <1>3, <1>5 DEF TapeInv, ShapeOK
  <2>2. spool' = [x \in Days |-> spool'[x]]
    BY <1>2 DEF TapeInv, ShapeOK
  <2>3. \A x \in received' : Time[x] <= clock'
    BY <1>2 DEF TapeInv, ShapeOK
  <2> QED BY <1>2, <1>3, <2>1, <2>2, <2>3 DEF TapeInv, ShapeOK
<1>10. RowsOK'
  <2> SUFFICES ASSUME NEW g \in SequenceGap(i) PROVE RowOK(g)
    BY <1>2 DEF TapeInv, RowsOK
  <2>1. /\ lastId # 0 /\ ~(i <= lastId + 1)
        /\ g = Gap(Time[lastId], IF Time[i] > Time[lastId] THEN Time[i] ELSE Time[lastId] + 1,
                   "sequence", i - lastId - 1)
    BY DEF SequenceGap
  <2>2. lastId \in Nat /\ i \in Nat /\ Time[lastId] \in Nat
    BY <2>1, PrintsTyped DEF TapeInv, ShapeOK
  <2>3. i - lastId - 1 \in Nat \ {0}
    BY <2>1, <2>2
  <2>4. PICK upto \in Nat : upto = (IF Time[i] > Time[lastId] THEN Time[i] ELSE Time[lastId] + 1)
    BY <1>2, <2>2
  <2>5. Time[lastId] < upto
    BY <1>2, <2>2, <2>4
  <2> QED BY <2>1, <2>3, <2>4, <2>5 DEF Gap, RowOK
<1> QED BY <1>7, <1>8, <1>9, <1>10 DEF TapeInv

-----------------------------------------------------------------------------
(* The steps of a seal.                                                    *)
LEMMA NextDayKeeps ==
  ASSUME TapeInv, NEW s \in Sealers, NextDay(s)
  PROVE  TapeInv'
<1>1. DaysStand /\ UNCHANGED <<gaps, link, lastId, noticed, files, mend>>
  BY DEF NextDay, DaysStand, history
<1>2. Onward /\ MendOK'
  BY <1>1, StandsOnward, MendStays DEF TapeInv
<1>3. PICK t : t = sealing[s]
  OBVIOUS
<1>4. t = [stage |-> "next", days |-> t.days] /\ t.days \subseteq Days /\ \A x \in t.days : Past(x)
  BY <1>3 DEF NextDay, TapeInv, SealsOK, SealOK, Resting
<1>5. PICK d : d = CHOOSE x \in t.days : \A y \in t.days : x <= y
  OBVIOUS
<1>6. PICK u : u = IF t.days = {} THEN Resting
                   ELSE [stage |-> "read", days |-> t.days \ {d}, day |-> d, prints |-> spool[d]]
  OBVIOUS
<1>7. sealing' = [sealing EXCEPT ![s] = u]
  BY <1>3, <1>5, <1>6 DEF NextDay, Oldest
<1>8. SealOK(u)
  <2>1. CASE t.days = {}
    BY <1>6, <2>1 DEF SealOK
  <2>2. CASE t.days # {}
    <3>1. d \in t.days
      <4>1. t.days \in SUBSET Nat
        BY <1>4, DaysTyped
      <4> QED BY <1>5, <2>2, <4>1, LeastExists
    <3>2. /\ u = [stage |-> u.stage, days |-> u.days, day |-> u.day, prints |-> u.prints]
          /\ u.stage = "read" /\ u.days = t.days \ {d} /\ u.day = d /\ u.prints = spool[d]
      BY <1>6, <2>2
    <3>3. d \in Days /\ Past(d) /\ DayKept(d) /\ spool[d] \subseteq PrintsOf(d)
      BY <1>4, <3>1 DEF TapeInv, DaysKept, ShapeOK
    <3>4. spool[d] = {} \/ Delivered(d) \subseteq spool[d]
      BY <3>3 DEF DayKept
    <3>5. spool[d] = {} /\ d \notin early => Delivered(d) \subseteq part[d]
      BY <3>3 DEF DayKept
    <3> QED BY <1>4, <3>2, <3>3, <3>4, <3>5 DEF SealOK
  <2> QED BY <2>1, <2>2
<1>9. SealsOK'
  <2>1. SealOK(u)'
    BY <1>2, <1>8, SealStays
  <2> QED BY <1>2, <1>7, <2>1, SealMoves DEF TapeInv
<1> QED BY <1>1, <1>2, <1>9, SessionKeeps DEF TapeInv, ShapeOK

LEMMA SpoolGoneKeeps ==
  ASSUME TapeInv, NEW s \in Sealers, SpoolGone(s)
  PROVE  TapeInv'
<1>1. /\ DaysStand /\ link' \in {"off", "connecting", "live"}
      /\ UNCHANGED <<gaps, lastId, noticed, files, mend>>
      /\ sealing' = [sealing EXCEPT ![s] = Resting]
  BY DEF SpoolGone, DaysStand, history, TapeInv, ShapeOK
<1>2. Onward /\ MendOK'
  BY <1>1, StandsOnward, MendStays DEF TapeInv
<1>3. SealsOK'
  <2>1. SealOK(Resting)'
    BY DEF SealOK
  <2> QED BY <1>1, <1>2, <2>1, SealMoves DEF TapeInv
<1> QED BY <1>1, <1>2, <1>3, SessionKeeps

(* What a seal with a day in hand knows.                                   *)
LEMMA DayInHand ==
  ASSUME TapeInv, NEW s \in Sealers, NEW t, t = sealing[s], t.stage \in {"read", "write", "discard"}
  PROVE  /\ t = [stage |-> t.stage, days |-> t.days, day |-> t.day, prints |-> t.prints]
         /\ t.days \subseteq Days /\ \A x \in t.days : Past(x)
         /\ t.day \in Days /\ Past(t.day) /\ t.prints \subseteq PrintsOf(t.day)
         /\ t.prints = {} \/ Delivered(t.day) \subseteq t.prints
         /\ t.stage = "write" => t.prints # {}
         /\ (t.prints = {} \/ t.stage = "discard") /\ t.day \notin early =>
              Delivered(t.day) \subseteq part[t.day]
<1>1. SealOK(t)
  BY DEF TapeInv, SealsOK
<1>2. t # Resting /\ t # [stage |-> "next", days |-> t.days]
  BY DEF Resting
<1> QED BY <1>1, <1>2 DEF SealOK

LEMMA CompareKeeps ==
  ASSUME TapeInv, NEW s \in Sealers, Compare(s)
  PROVE  TapeInv'
<1>1. /\ DaysStand /\ UNCHANGED <<gaps, files, mend>>
      /\ link' \in {link, "off"} /\ lastId' \in {0, lastId} /\ noticed' \in {noticed, {}}
  BY DEF Compare, DaysStand, history
<1>2. Onward /\ MendOK'
  BY <1>1, StandsOnward, MendStays DEF TapeInv
<1>3. PICK t : t = sealing[s]
  OBVIOUS
<1>4. /\ t = [stage |-> t.stage, days |-> t.days, day |-> t.day, prints |-> t.prints]
      /\ t.stage = "read"
      /\ t.days \subseteq Days /\ \A x \in t.days : Past(x)
      /\ t.day \in Days /\ Past(t.day) /\ t.prints \subseteq PrintsOf(t.day)
      /\ t.prints = {} \/ Delivered(t.day) \subseteq t.prints
      /\ t.prints = {} /\ t.day \notin early => Delivered(t.day) \subseteq part[t.day]
  <2>1. t.stage = "read"
    BY <1>3 DEF Compare
  <2>2. t.stage \in {"read", "write", "discard"}
    BY <2>1
  <2> QED BY <1>3, <2>1, <2>2, DayInHand
<1>5. PICK u : u = [t EXCEPT !.stage = IF t.prints = {} THEN "discard" ELSE "write"]
  OBVIOUS
<1>6. SealOK(u)
  <2>1. /\ u = [stage |-> u.stage, days |-> u.days, day |-> u.day, prints |-> u.prints]
        /\ u.days = t.days /\ u.day = t.day /\ u.prints = t.prints
        /\ u.stage = IF t.prints = {} THEN "discard" ELSE "write"
    BY <1>4, <1>5
  <2> QED BY <1>4, <2>1 DEF SealOK
<1>7. SealsOK'
  <2>1. sealing' = [sealing EXCEPT ![s] = u] \/ sealing' = [x \in Sealers |-> Resting]
    BY <1>3, <1>5 DEF Compare
  <2>2. CASE sealing' = [sealing EXCEPT ![s] = u]
    <3>1. SealOK(u)'
      BY <1>2, <1>6, SealStays
    <3> QED BY <1>2, <2>2, <3>1, SealMoves DEF TapeInv
  <2>3. CASE sealing' = [x \in Sealers |-> Resting]
    BY <2>3 DEF SealsOK, SealOK
  <2> QED BY <2>1, <2>2, <2>3
<1> QED BY <1>1, <1>2, <1>7, SessionKeeps DEF TapeInv, ShapeOK

LEMMA WriteKeeps ==
  ASSUME TapeInv, NEW s \in Sealers, WritePartition(s)
  PROVE  TapeInv'
<1>1. PICK t : t = sealing[s]
  OBVIOUS
<1>2. PICK d : d = t.day
  OBVIOUS
<1>3. /\ part' = [part EXCEPT ![d] = t.prints] /\ t.prints \subseteq PrintsOf(d) /\ t.stage = "write"
      /\ sealing' = [sealing EXCEPT ![s] = [t EXCEPT !.stage = "discard"]]
      /\ UNCHANGED <<gaps, clock, link, lastId, noticed, files, spool, mend, received, early>>
  BY <1>1, <1>2 DEF WritePartition, Writable, history
<1>4. /\ t = [stage |-> t.stage, days |-> t.days, day |-> t.day, prints |-> t.prints]
      /\ t.days \subseteq Days /\ (\A x \in t.days : Past(x))
      /\ d \in Days /\ Past(d) /\ Delivered(d) \subseteq t.prints /\ t.prints # {}
  <2>1. t.stage \in {"read", "write", "discard"}
    BY <1>3
  <2> QED BY <1>1, <1>2, <1>3, <2>1, DayInHand
<1>5. /\ \A x \in Days : x # d => part'[x] = part[x]
      /\ part'[d] = t.prints /\ \A x \in Days : Delivered(x)' = Delivered(x)
      /\ \A x \in Days : Past(x)' <=> Past(x)
  BY <1>3, <1>4 DEF Delivered, Past, TapeInv, ShapeOK
<1>6. Onward
  BY <1>3, <1>4, <1>5 DEF Onward
<1>7. DaysKept'
  <2> SUFFICES ASSUME NEW x \in Days PROVE DayKept(x)'
    BY DEF DaysKept
  <2>1. DayKept(x)
    BY DEF TapeInv, DaysKept
  <2> QED BY <1>3, <1>4, <1>5, <2>1 DEF DayKept
<1>8. SealsOK'
  <2>1. PICK u : u = [t EXCEPT !.stage = "discard"]
    OBVIOUS
  <2>2. /\ u = [stage |-> u.stage, days |-> u.days, day |-> u.day, prints |-> u.prints]
        /\ u.days = t.days /\ u.day = d /\ u.prints = t.prints /\ u.stage = "discard"
    BY <1>2, <1>4, <2>1
  <2>3. (\A x \in u.days : Past(x)') /\ Past(u.day)' /\ Delivered(u.day)' \subseteq part'[u.day]
        /\ Delivered(u.day)' \subseteq u.prints
    BY <1>4, <1>5, <2>2
  <2>4. SealOK(u)'
    BY <1>3, <1>4, <2>2, <2>3 DEF SealOK
  <2> QED BY <1>3, <1>6, <2>1, <2>4, SealMoves DEF TapeInv
<1>9. MendOK'
  BY <1>3, <1>6, MendStays DEF TapeInv
<1>10. ShapeOK'
  <2>1. part' = [x \in Days |-> part'[x]] /\ \A x \in Days : part'[x] \subseteq PrintsOf(x)
    BY <1>3, <1>4, <1>5 DEF TapeInv, ShapeOK
  <2> QED BY <1>3, <2>1 DEF TapeInv, ShapeOK
<1>11. RowsOK'
  BY <1>3 DEF TapeInv, RowsOK
<1> QED BY <1>7, <1>8, <1>9, <1>10, <1>11 DEF TapeInv

LEMMA DiscardKeeps ==
  ASSUME TapeInv, NEW s \in Sealers, Discard(s)
  PROVE  TapeInv'
<1>1. PICK t : t = sealing[s]
  OBVIOUS
<1>2. PICK d : d = t.day
  OBVIOUS
<1>3. /\ t.stage = "discard" /\ files' = files \ {d} /\ spool' = [spool EXCEPT ![d] = {}]
      /\ sealing' = [sealing EXCEPT ![s] = [stage |-> "next", days |-> t.days]]
      /\ UNCHANGED <<gaps, clock, link, lastId, noticed, part, mend, received, early>>
  BY <1>1, <1>2 DEF Discard, history
<1>4. /\ t.days \subseteq Days /\ (\A x \in t.days : Past(x))
      /\ d \in Days /\ Past(d) /\ (d \notin early => Delivered(d) \subseteq part[d])
  <2>1. t.stage \in {"read", "write", "discard"}
    BY <1>3
  <2> QED BY <1>1, <1>2, <1>3, <2>1, DayInHand
<1>5. /\ \A x \in Days : x # d => spool'[x] = spool[x]
      /\ spool'[d] = {} /\ \A x \in Days : Delivered(x)' = Delivered(x)
      /\ \A x \in Days : Past(x)' <=> Past(x)
  BY <1>3, <1>4 DEF Delivered, Past, TapeInv, ShapeOK
<1>6. Onward
  BY <1>3, <1>5 DEF Onward
<1>7. DaysKept'
  <2> SUFFICES ASSUME NEW x \in Days PROVE DayKept(x)'
    BY DEF DaysKept
  <2>1. DayKept(x)
    BY DEF TapeInv, DaysKept
  <2> QED BY <1>3, <1>4, <1>5, <2>1 DEF DayKept
<1>8. SealsOK'
  <2>1. PICK u : u = [stage |-> "next", days |-> t.days]
    OBVIOUS
  <2>2. SealOK(u)'
    BY <1>4, <1>5, <2>1 DEF SealOK
  <2> QED BY <1>3, <1>6, <2>1, <2>2, SealMoves DEF TapeInv
<1>9. MendOK'
  BY <1>3, <1>6, MendStays DEF TapeInv
<1>10. ShapeOK'
  <2>1. /\ spool' = [x \in Days |-> spool'[x]]
        /\ \A x \in Days : spool'[x] \subseteq PrintsOf(x) /\ (spool'[x] # {} => x \in files')
    BY <1>3, <1>5 DEF TapeInv, ShapeOK
  <2> QED BY <1>3, <2>1 DEF TapeInv, ShapeOK
<1>11. RowsOK'
  BY <1>3 DEF TapeInv, RowsOK
<1> QED BY <1>7, <1>8, <1>9, <1>10, <1>11 DEF TapeInv

-----------------------------------------------------------------------------
(* The steps of the repair.                                                *)
LEMMA MendKeeps ==
  ASSUME TapeInv, DaysStand, UNCHANGED <<link, lastId, noticed, files, sealing>>, MendOK', RowsOK'
  PROVE  TapeInv'
<1>1. DaysKept' /\ SealsOK'
  BY StandsOnward, SealsStay DEF TapeInv
<1>2. ShapeOK'
  BY DEF TapeInv, ShapeOK, DaysStand
<1> QED BY <1>1, <1>2 DEF TapeInv

LEMMA LookKeeps ==
  ASSUME TapeInv, NEW g \in gaps, NEW served \in SUBSET Prints, Look(g, served)
  PROVE  TapeInv'
<1>1. /\ DaysStand /\ UNCHANGED <<gaps, link, lastId, noticed, files, sealing>>
      /\ (\A d \in DaysSpanned(g) : d \in Days) /\ Brackets(g) # {}
  BY DEF Look, DaysStand, history
<1>2. PICK first : first = LeftBracket(g) + 1
  OBVIOUS
<1>3. PICK ids : ids = first .. (first + g.missing - 1)
  OBVIOUS
<1>4. mend' = [stage |-> "read", gap |-> g, ids |-> ids, held |-> HeldIn(g) \cap ids,
               recovered |-> Recovered(g, served)]
  BY <1>2, <1>3 DEF Look
<1>5. first \in Nat /\ g.missing \in Nat \ {0}
  <2>1. Brackets(g) \subseteq Prints
    BY <1>1 DEF Brackets, HeldIn, TapeInv, ShapeOK, PrintsOf
  <2>2. PICK n \in Nat : Prints = 1 .. n
    BY PrintsTyped
  <2>3. Brackets(g) \in SUBSET (0 .. n)
    BY <2>1, <2>2
  <2>4. LeftBracket(g) \in Brackets(g)
    BY <1>1, <2>3, MostExists DEF LeftBracket
  <2>5. LeftBracket(g) \in Nat
    BY <2>3, <2>4
  <2> QED BY <1>2, <2>5 DEF TapeInv, RowsOK, RowOK
<1>6. \E a \in Nat, b \in Nat : a <= b /\ ids = a .. b
  <2>1. first + g.missing - 1 \in Nat /\ first <= first + g.missing - 1
    BY <1>5
  <2> QED BY <1>3, <1>5, <2>1
<1>7. MendOK'
  <2>1. Recovered(g, served) \subseteq Prints
    BY DEF Recovered
  <2> QED BY <1>4, <1>6, <2>1 DEF MendOK, Prints
<1>8. RowsOK'
  BY <1>1 DEF TapeInv, RowsOK
<1> QED BY <1>1, <1>7, <1>8, MendKeeps

LEMMA ReadKeeps == TapeInv /\ ReadPartition => TapeInv'
<1> SUFFICES ASSUME TapeInv, ReadPartition PROVE TapeInv'
  OBVIOUS
<1>1. DaysStand /\ UNCHANGED <<gaps, link, lastId, noticed, files, sealing>> /\ mend.stage = "read"
  BY DEF ReadPartition, DaysStand, history
<1>2. PICK owed : owed = {x \in Days : ~(mend.recovered \cap PrintsOf(x) \subseteq part[x])}
  OBVIOUS
<1>3. PICK d : d = CHOOSE x \in owed : \A y \in owed : x <= y
  OBVIOUS
<1>4. /\ mend.recovered \subseteq Prints
      /\ \E a \in Nat, b \in Nat : a <= b /\ mend.ids = a .. b
  BY <1>1 DEF TapeInv, MendOK, Resting
<1>5. mend' = IF mend.recovered = {} THEN Resting
              ELSE IF owed = {} THEN [mend EXCEPT !.stage = "resolve"]
              ELSE [stage |-> "write", gap |-> mend.gap, ids |-> mend.ids,
                    held |-> mend.held, recovered |-> mend.recovered,
                    day |-> d, file |-> part[d]]
  BY <1>2, <1>3 DEF ReadPartition
<1>6. RowsOK'
  BY <1>1 DEF TapeInv, RowsOK
<1>7. CASE mend.recovered = {}
  <2>1. MendOK'
    BY <1>5, <1>7 DEF MendOK, Resting
  <2> QED BY <1>1, <1>6, <2>1, MendKeeps
<1>8. CASE mend.recovered # {} /\ owed = {}
  <2>1. mend = [stage |-> mend.stage, gap |-> mend.gap, ids |-> mend.ids, held |-> mend.held,
                recovered |-> mend.recovered]
    BY <1>1 DEF TapeInv, MendOK, Resting
  <2>2. mend' = [mend EXCEPT !.stage = "resolve"]
    BY <1>5, <1>8
  <2>3. mend' = [stage |-> "resolve", gap |-> mend.gap, ids |-> mend.ids, held |-> mend.held,
                 recovered |-> mend.recovered]
    BY <2>1, <2>2
  <2>4. MendOK'
    BY <1>4, <2>3 DEF MendOK, Prints
  <2> QED BY <1>1, <1>6, <2>4, MendKeeps
<1>9. CASE mend.recovered # {} /\ owed # {}
  <2>1. d \in owed
    <3>1. owed \in SUBSET Nat
      BY <1>2, DaysTyped
    <3> QED BY <1>3, <1>9, <3>1, LeastExists
  <2>2. d \in Days /\ DayKept(d) /\ part[d] \subseteq PrintsOf(d)
    BY <1>2, <2>1 DEF TapeInv, DaysKept, ShapeOK
  <2>3. mend' = [stage |-> "write", gap |-> mend.gap, ids |-> mend.ids, held |-> mend.held,
                 recovered |-> mend.recovered, day |-> d, file |-> part[d]]
    BY <1>5, <1>9
  <2>4. part[d] # {} /\ d \notin early => Past(d)' /\ Delivered(d)' \subseteq part[d]
    <3>1. Past(d) => Past(d)' /\ Delivered(d)' = Delivered(d)
      BY <1>1, <2>2, StandsOnward DEF Onward
    <3> QED BY <2>2, <3>1 DEF DayKept
  <2>5. early' = early
    BY <1>1 DEF DaysStand
  <2>6. mend'.day = d /\ mend'.file = part[d]
    BY <2>3
  <2>7. mend'.stage = "write" /\ mend'.ids = mend.ids /\ mend'.recovered = mend.recovered
    BY <2>3
  <2>8. (Past(mend.day))' = Past(d)' /\ Delivered(mend.day)' = Delivered(d)'
    BY <2>6 DEF Past, Delivered
  <2>9. MendOK'
    BY <1>4, <2>2, <2>4, <2>5, <2>6, <2>7, <2>8 DEF MendOK, Prints, PrintsOf
  <2> QED BY <1>1, <1>6, <2>9, MendKeeps
<1> QED BY <1>7, <1>8, <1>9

(* The rewrite of a sealed day holds what the partition held when it was   *)
(* read, and a sealed day gets no more prints; any other day is early.     *)
LEMMA RewriteKeeps == TapeInv /\ Rewrite => TapeInv'
<1> SUFFICES ASSUME TapeInv, Rewrite PROVE TapeInv'
  OBVIOUS
<1>1. PICK d \in Days : d = mend.day
  BY DEF Rewrite, TapeInv, MendOK, Resting
<1>2. PICK merged : merged = MergedDay(mend.file, mend.recovered, d)
  OBVIOUS
<1>3. /\ mend.stage = "write" /\ merged # {} /\ merged \subseteq PrintsOf(d)
      /\ part' = [part EXCEPT ![d] = merged]
      /\ mend' = [stage |-> "read", gap |-> mend.gap, ids |-> mend.ids,
                  held |-> mend.held, recovered |-> mend.recovered]
      /\ early' = IF mend.file = {} THEN early \cup {d} ELSE early
      /\ UNCHANGED <<gaps, clock, link, lastId, noticed, files, spool, sealing, received>>
  BY <1>1, <1>2 DEF Rewrite, Writable
<1>4. /\ \A x \in Days : x # d => part'[x] = part[x]
      /\ part'[d] = merged /\ \A x \in Days : Delivered(x)' = Delivered(x)
      /\ \A x \in Days : Past(x)' <=> Past(x)
  BY <1>3 DEF Delivered, Past, TapeInv, ShapeOK
<1>5. d \notin early' => Past(d) /\ Delivered(d) \subseteq merged
  BY <1>1, <1>2, <1>3 DEF TapeInv, MendOK, Resting, MergedDay
<1>6. Onward
  BY <1>3, <1>4, <1>5 DEF Onward
<1>7. DaysKept'
  <2> SUFFICES ASSUME NEW x \in Days PROVE DayKept(x)'
    BY DEF DaysKept
  <2>1. DayKept(x)
    BY DEF TapeInv, DaysKept
  <2> QED BY <1>3, <1>4, <1>5, <2>1 DEF DayKept
<1>8. SealsOK'
  BY <1>3, <1>6, SealsStay DEF TapeInv
<1>9. MendOK'
  BY <1>3 DEF TapeInv, MendOK, Resting, Prints
<1>10. ShapeOK'
  <2>1. part' = [x \in Days |-> part'[x]] /\ \A x \in Days : part'[x] \subseteq PrintsOf(x)
    BY <1>3, <1>4 DEF TapeInv, ShapeOK
  <2> QED BY <1>3, <2>1 DEF TapeInv, ShapeOK
<1>11. RowsOK'
  BY <1>3 DEF TapeInv, RowsOK
<1> QED BY <1>7, <1>8, <1>9, <1>10, <1>11 DEF TapeInv

(* A residual names at least one absent print, and the registry takes none *)
(* that spans nothing.                                                     *)
LEMMA ResidualsCount ==
  ASSUME TapeInv, mend.stage = "resolve", NEW r \in TapeResiduals, r.from < r.upto
  PROVE  RowOK(r)
<1>1. PICK a \in Nat, b \in Nat : a <= b /\ mend.ids = a .. b
  BY DEF TapeInv, MendOK, Resting
<1>2. PICK first : first = CHOOSE i \in mend.ids : \A j \in mend.ids : i <= j
  OBVIOUS
<1>3. first \in Nat
  <2>1. mend.ids \in SUBSET Nat /\ mend.ids # {}
    <3>1. a \in a .. b /\ a .. b \subseteq Nat
      BY <1>1
    <3> QED BY <1>1, <3>1
  <2>2. first \in mend.ids
    BY <1>2, <2>1, LeastExists
  <2> QED BY <2>1, <2>2
<1>4. PICK last : last = first + Cardinality(mend.ids) - 1
  OBVIOUS
<1>5. last \in Nat
  <2>1. Cardinality(mend.ids) \in Nat \ {0}
    <3>1. Cardinality(a .. b) = b - a + 1
      BY <1>1, FS_Interval
    <3> QED BY <1>1, <3>1
  <2> QED BY <1>3, <1>4, <2>1
<1>6. PICK run \in Runs(mend.ids \ (mend.held \cup mend.recovered), first, last) :
        r = Gap(Time[run[1] - 1],
                Earlier(Later(Time[run[2] + 1], Time[run[1] - 1] + 1), mend.gap.upto),
                "sequence", run[2] - run[1] + 1)
  BY <1>2, <1>4 DEF TapeResiduals, AbsentRuns
<1>7. run[1] \in first .. last /\ run[2] \in first .. last /\ run[1] <= run[2]
  BY <1>3, <1>5, <1>6, RunsWithin
<1>8. run[2] - run[1] + 1 \in Nat \ {0}
  BY <1>3, <1>5, <1>7
<1> QED BY <1>6, <1>8 DEF Gap, RowOK

LEMMA ResolveKeeps == TapeInv /\ ResolveTapeGap => TapeInv'
<1> SUFFICES ASSUME TapeInv, ResolveTapeGap PROVE TapeInv'
  OBVIOUS
<1>1. /\ DaysStand /\ UNCHANGED <<link, lastId, noticed, files, sealing>>
      /\ mend.stage = "resolve" /\ mend' = Resting
  BY DEF ResolveTapeGap, DaysStand, history
<1>2. MendOK'
  BY <1>1 DEF MendOK, Resting
<1>3. ASSUME CanResolve(gaps, mend.gap, TapeResiduals),
             NEW g \in Resolved(gaps, mend.gap, TapeResiduals)
      PROVE  RowOK(g)
  <2>1. PICK verdict : verdict = IF TapeResiduals = {} THEN "backfilled" ELSE "superseded"
    OBVIOUS
  <2>2. PICK h \in InsertGaps(gaps, TapeResiduals) :
          g = IF SameBounds(h, mend.gap) THEN [h EXCEPT !.resolution = verdict] ELSE h
    BY <1>3, <2>1 DEF Resolved
  <2>3. RowOK(h)
    <3>1. CASE h \in gaps
      BY <3>1 DEF TapeInv, RowsOK
    <3>2. CASE h \in TapeResiduals
      <4>1. h.from < h.upto
        BY <1>3, <3>2 DEF CanResolve
      <4> QED BY <1>1, <3>2, <4>1, ResidualsCount
    <3> QED BY <2>2, <3>1, <3>2 DEF InsertGaps
  <2>4. CASE g = h
    BY <2>3, <2>4
  <2>5. CASE g = [h EXCEPT !.resolution = verdict]
    <3>1. h = [from |-> h.from, upto |-> h.upto, kind |-> h.kind, missing |-> h.missing,
               resolution |-> h.resolution]
      BY <2>3 DEF RowOK
    <3>2. g = [from |-> h.from, upto |-> h.upto, kind |-> h.kind, missing |-> h.missing,
               resolution |-> verdict]
      BY <2>5, <3>1
    <3> QED BY <2>3, <3>2 DEF RowOK
  <2> QED BY <2>2, <2>4, <2>5
<1>4. RowsOK'
  <2>1. \A g \in gaps' : RowOK(g)
    BY <1>3 DEF ResolveTapeGap, TapeInv, RowsOK
  <2> QED BY <1>1, <2>1 DEF TapeInv, RowsOK
<1> QED BY <1>1, <1>2, <1>4, MendKeeps

LEMMA AbandonKeeps == TapeInv /\ AbandonMend => TapeInv'
<1> SUFFICES ASSUME TapeInv, AbandonMend PROVE TapeInv'
  OBVIOUS
<1>1. /\ DaysStand /\ UNCHANGED <<gaps, link, lastId, noticed, files, sealing>> /\ mend' = Resting
  BY DEF AbandonMend, DaysStand, history
<1>2. MendOK' /\ RowsOK'
  BY <1>1 DEF MendOK, TapeInv, RowsOK
<1> QED BY <1>1, <1>2, MendKeeps

-----------------------------------------------------------------------------
LEMMA TapeInitHolds == TapeInit => TapeInv
<1> SUFFICES ASSUME TapeInit PROVE TapeInv
  OBVIOUS
<1>1. ShapeOK
  BY TapeAssumption DEF TapeInit, ShapeOK
<1>2. RowsOK
  BY DEF TapeInit, RowsOK
<1>3. DaysKept
  BY DEF TapeInit, DaysKept, DayKept, Delivered
<1>4. SealsOK /\ MendOK
  BY DEF TapeInit, SealsOK, SealOK, MendOK
<1> QED BY <1>1, <1>2, <1>3, <1>4 DEF TapeInv

LEMMA TapeStutters == TapeInv /\ UNCHANGED tapeVars => TapeInv'
<1> SUFFICES ASSUME TapeInv, UNCHANGED tapeVars PROVE TapeInv'
  OBVIOUS
<1>1. DaysStand /\ UNCHANGED <<gaps, link, lastId, noticed, files, sealing, mend>>
  BY DEF tapeVars, DaysStand
<1>2. MendOK' /\ RowsOK'
  BY <1>1, StandsOnward, MendStays DEF TapeInv, RowsOK
<1> QED BY <1>1, <1>2, MendKeeps

LEMMA TapeInductive == TapeInv /\ [TapeNext]_tapeVars => TapeInv'
<1> SUFFICES ASSUME TapeInv, [TapeNext]_tapeVars PROVE TapeInv'
  OBVIOUS
<1>1. CASE ClockTick \/ OpenLink \/ PollSeal \/ WriteNoticed \/ LoseLink \/ Killed
  BY <1>1, ClockKeeps, OpenLinkKeeps, PollSealKeeps, NoticedKeeps, LoseKeeps, KilledKeeps
<1>2. CASE \E i \in Prints : Receive(i)
  BY <1>2, ReceiveKeeps
<1>3. ASSUME NEW s \in Sealers,
             NextDay(s) \/ SpoolGone(s) \/ Compare(s) \/ WritePartition(s) \/ Discard(s)
      PROVE  TapeInv'
  BY <1>3, NextDayKeeps, SpoolGoneKeeps, CompareKeeps, WriteKeeps, DiscardKeeps
<1>4. CASE \E g \in gaps, served \in SUBSET Prints : Look(g, served)
  BY <1>4, LookKeeps
<1>5. CASE ReadPartition \/ Rewrite \/ ResolveTapeGap \/ AbandonMend
  BY <1>5, ReadKeeps, RewriteKeeps, ResolveKeeps, AbandonKeeps
<1>6. CASE UNCHANGED tapeVars
  BY <1>6, TapeStutters
<1> QED BY <1>1, <1>2, <1>3, <1>4, <1>5, <1>6 DEF TapeNext

LEMMA TapeInvHolds == TapeSpec => []TapeInv
  BY TapeInitHolds, TapeInductive, PTL DEF TapeSpec

(***************************************************************************)
(* The session, the spools, the partitions and the rows have their types:  *)
(* every print lies in the spool and the partition of its own day, a spool *)
(* with prints has its file, and every row the detector notices or the     *)
(* repair leaves spans time and counts at least one print.                 *)
(***************************************************************************)
THEOREM TapeTyped == TapeSpec => []TapeTypeOK
<1>1. TapeInv => TapeTypeOK
  <2> SUFFICES ASSUME TapeInv PROVE TapeTypeOK
    OBVIOUS
  <2>1. \A g \in gaps \cup noticed : g.kind = "sequence" /\ g.from < g.upto /\ g.missing > 0
    BY DEF TapeInv, RowsOK, RowOK
  <2> QED BY <2>1 DEF TapeInv, ShapeOK, TapeTypeOK
<1> QED BY <1>1, TapeInvHolds, PTL

(***************************************************************************)
(* A print the socket delivered stays in the spool or in the partition of  *)
(* its day (seal_elapsed_days, write_records and the repair's _write),     *)
(* through the seal of a connect racing that of the poller, a kill between *)
(* the write and the removal of the spool, and a repair of a sealed day.   *)
(***************************************************************************)
THEOREM PrintsKept == TapeSpec => []NoPrintLost
<1>1. TapeInv => NoPrintLost
  <2> SUFFICES ASSUME TapeInv, NEW i \in received, DayOf(Time[i]) \notin early
               PROVE  i \in spool[DayOf(Time[i])] \/ i \in part[DayOf(Time[i])]
    BY DEF NoPrintLost
  <2>1. PICK t \in Nat : t = Time[i] /\ t <= MaxClock
    <3>1. i \in Prints /\ Time[i] <= clock /\ clock \in 0 .. MaxClock
      BY DEF TapeInv, ShapeOK
    <3> QED BY <3>1, PrintsTyped, TapeAssumption
  <2>2. PICK d \in Days : d = DayOf(t)
    BY <2>1, DaysOrdered, DayEnds, TapeAssumption DEF Days
  <2>3. i \in Delivered(d)
    BY <2>1, <2>2 DEF Delivered, PrintsOf, TapeInv, ShapeOK
  <2> QED BY <2>1, <2>2, <2>3 DEF TapeInv, DaysKept, DayKept
<1> QED BY <1>1, TapeInvHolds, PTL

-----------------------------------------------------------------------------
(***************************************************************************)
(* The archive backfill.                                                   *)
(***************************************************************************)
(* The calendar.                                                           *)
LEMMA MonthsOrdered ==
  ASSUME NEW d \in Nat \ {0}, NEW e \in Nat \ {0}, d <= e
  PROVE  MonthOf(d) \in Nat /\ MonthOf(d) <= MonthOf(e)
  BY ArchiveAssumption DEF MonthOf

LEMMA MonthBounds ==
  ASSUME NEW m \in Nat
  PROVE  \E a \in Nat \ {0}, b \in Nat \ {0} : a <= b /\ DaysOf(m) = a .. b
<1>1. PICK q \in Nat : q = m * MonthLength
  BY ArchiveAssumption
<1>2. (m + 1) * MonthLength = q + MonthLength
  BY <1>1, ArchiveAssumption
<1>3. DaysOf(m) = (q + 1) .. (q + MonthLength)
  BY <1>1, <1>2 DEF MonthStart, MonthEnd, DaysOf
<1>4. q + 1 \in Nat \ {0} /\ q + MonthLength \in Nat \ {0} /\ q + 1 <= q + MonthLength
  BY ArchiveAssumption
<1> QED BY <1>3, <1>4

LEMMA InItsMonth ==
  ASSUME NEW d \in Nat \ {0}
  PROVE  MonthOf(d) \in Nat /\ d \in DaysOf(MonthOf(d))
<1>1. PICK m \in Nat : m = MonthOf(d)
  BY ArchiveAssumption DEF MonthOf
<1>2. m * MonthLength <= d - 1 /\ d - 1 < (m + 1) * MonthLength
  BY <1>1, ArchiveAssumption DEF MonthOf
<1>3. PICK a \in Nat, b \in Nat : a = m * MonthLength /\ b = (m + 1) * MonthLength
  BY ArchiveAssumption
<1> QED BY <1>1, <1>2, <1>3 DEF DaysOf, MonthStart, MonthEnd

LEMMA OnlyItsMonth ==
  ASSUME NEW m \in Nat, NEW d \in DaysOf(m)
  PROVE  d \in Nat \ {0} /\ MonthOf(d) = m
<1>1. PICK a \in Nat, b \in Nat : a = m * MonthLength /\ b = (m + 1) * MonthLength
  BY ArchiveAssumption
<1>2. d \in Nat \ {0} /\ a <= d - 1 /\ d - 1 < b
  BY <1>1 DEF DaysOf, MonthStart, MonthEnd
<1>3. m * MonthLength <= d - 1 /\ d - 1 < (m + 1) * MonthLength
  BY <1>1, <1>2
<1> QED BY <1>2, <1>3, ArchiveAssumption DEF MonthOf

LEMMA MonthsTyped ==
  /\ Months \subseteq Nat /\ AllDays \subseteq Nat \ {0}
  /\ \A d \in AllDays : MonthOf(d) \in Months
<1>1. AllDays \subseteq Nat \ {0} /\ LastDay \in Nat \ {0} /\ \A d \in AllDays : d <= LastDay
  BY ArchiveAssumption DEF AllDays
<1>2. MonthOf(LastDay) \in Nat
  BY <1>1, InItsMonth
<1>3. \A d \in AllDays : MonthOf(d) \in Nat /\ MonthOf(d) <= MonthOf(LastDay)
  BY <1>1, MonthsOrdered
<1> QED BY <1>1, <1>2, <1>3 DEF Months

LEMMA LowHigh ==
  ASSUME NEW S \in SUBSET Nat, S # {}, NEW b \in Nat, \A x \in S : x <= b
  PROVE  /\ Low(S) \in S /\ Low(S) \in Nat /\ \A x \in S : Low(S) <= x
         /\ High(S) \in S /\ High(S) \in Nat /\ \A x \in S : x <= High(S)
<1>1. \E x \in S : \A y \in S : x <= y
  BY LeastExists
<1>2. S \in SUBSET (0 .. b)
  OBVIOUS
<1>3. \E x \in S : \A y \in S : x >= y
  <2>1. PICK x \in S : \A y \in S : y <= x
    BY <1>2, MostExists
  <2> QED BY <2>1, <1>2
<1>4. Low(S) \in S /\ \A x \in S : Low(S) <= x
  BY <1>1 DEF Low
<1>5. High(S) \in S /\ \A x \in S : High(S) >= x
  BY <1>3 DEF High
<1> QED BY <1>4, <1>5

LEMMA DaysBounded ==
  ASSUME NEW m \in Nat, NEW S \in SUBSET DaysOf(m), S # {}
  PROVE  /\ Low(S) \in S /\ Low(S) \in Nat \ {0} /\ \A x \in S : Low(S) <= x
         /\ High(S) \in S /\ High(S) \in Nat \ {0} /\ \A x \in S : x <= High(S)
<1>1. PICK a \in Nat \ {0}, b \in Nat \ {0} : DaysOf(m) = a .. b
  BY MonthBounds
<1>2. S \in SUBSET Nat /\ (\A x \in S : x <= b) /\ \A x \in S : x # 0
  BY <1>1
<1>3. /\ Low(S) \in S /\ Low(S) \in Nat /\ (\A x \in S : Low(S) <= x)
      /\ High(S) \in S /\ High(S) \in Nat /\ \A x \in S : x <= High(S)
  BY <1>2, LowHigh
<1> QED BY <1>2, <1>3

(* The archives of a month, and the days they cover.                       *)
LEMMA PlannedDays ==
  ASSUME NEW m \in Nat, NEW e \in Nat, NEW t \in Nat
  PROVE  /\ \A a \in Planned(m, e, t) : a # {} /\ a \subseteq DaysOf(m)
         /\ IsDaily(m) => \A a \in Planned(m, e, t) : \E x \in DaysOf(m) : a = {x} /\ e <= x /\ x <= t
         /\ IsDaily(m) => \A x \in DaysOf(m) : e <= x /\ x <= t => {x} \in Planned(m, e, t)
         /\ ~IsDaily(m) => Planned(m, e, t) = {DaysOf(m)}
<1>1. DaysOf(m) # {}
  <2>1. PICK a \in Nat, b \in Nat : a <= b /\ DaysOf(m) = a .. b
    BY MonthBounds
  <2>2. a \in a .. b
    BY <2>1
  <2> QED BY <2>1, <2>2
<1> QED BY <1>1 DEF Planned

LEMMA PlannedFinite ==
  ASSUME NEW m \in Nat, NEW e \in Nat, NEW t \in Nat
  PROVE  IsFiniteSet(Planned(m, e, t))
<1>1. CASE ~IsDaily(m)
  BY <1>1, FS_Singleton DEF Planned
<1>2. CASE IsDaily(m)
  <2> DEFINE S == {x \in DaysOf(m) : e <= x /\ x <= t}
  <2>1. IsFiniteSet(DaysOf(m))
    BY MonthBounds, FS_Interval
  <2>2. IsFiniteSet(S)
    BY <2>1, FS_Subset
  <2> DEFINE T == {{x} : x \in S}
  <2>3. IsFiniteSet(T)
    <3>1. PICK f : f = [x \in S |-> {x}]
      OBVIOUS
    <3>2. f \in Surjection(S, T)
      BY <3>1 DEF Surjection
    <3> HIDE DEF T, S
    <3> QED BY <2>2, <3>2, FS_Surjection
  <2> QED BY <1>2, <2>3 DEF Planned
<1> QED BY <1>1, <1>2

(* What the cache owes a set of days of month m: the archive of each, or   *)
(* the month's own archive once its days are no longer asked for.          *)
Retained(m, days) ==
  \/ \A x \in days : {x} \in cache
  \/ ~IsDaily(m) /\ days = DaysOf(m)

ArchiveShape ==
  /\ today \in AllDays /\ daily \subseteq 1 .. today - 1 /\ finished \subseteq AllDays
  /\ disk = [m \in Months |-> disk[m]] /\ rows = [m \in Months |-> rows[m]]
  /\ \A m \in Months : disk[m] \subseteq DaysOf(m)

GapRowOK(g) ==
  /\ g.kind \in {"cadence", "seam"}
  /\ g.from \in Nat /\ g.upto \in Nat /\ g.from < g.upto /\ g.missing = g.upto - g.from

(* A partition's row and the days it stands for.                           *)
EntryOK(m, row) ==
  /\ row.days # {} /\ row.days \subseteq DaysOf(m) /\ row.days \subseteq disk[m]
  /\ row.from = Low(row.days) /\ row.through = High(row.days)
  /\ row.absent = 0 => row.days = row.from .. row.through
  /\ Retained(m, row.days)

EntriesOK ==
  \A m \in Months : (rows[m] = {} \/ \E row : rows[m] = {row}) /\ \A row \in rows[m] : EntryOK(m, row)

(* A day that a run owed is in the row of its month or before it.          *)
Covered(d) == \E row \in rows[MonthOf(d)] : d \in row.days \/ d < row.from
Offered(d) == d \in daily \/ ~IsDaily(MonthOf(d))
FinishedOK == \A d \in finished : Covered(d) /\ Offered(d)

InHandOK(m) ==
  /\ m \in work.todo /\ work.days # {} /\ work.days \subseteq DaysOf(m)
  /\ \A row \in rows[m] : row.days \subseteq work.days
  /\ \A d \in finished : MonthOf(d) = m => d \in work.days \/ d < Low(work.days)
  /\ \A d \in work.owed : MonthOf(d) = m => d \in work.days
  /\ Retained(m, work.days)
  /\ work.absent = 0 => work.days = Low(work.days) .. High(work.days)
  /\ work.stage = "record" => disk[m] = work.days

WorkOK ==
  \/ work = Unrun
  \/ /\ work.stage \in {"plan", "write", "record"}
     /\ work.earliest \in Nat \ {0} /\ work.through \in Nat /\ work.through < today
     /\ work.todo \subseteq MonthOf(work.earliest) .. MonthOf(work.through)
     /\ work.owed \subseteq work.earliest .. work.through
     /\ \A d \in work.owed : HostHas(d)
     /\ \A d \in work.owed : MonthOf(d) \in work.todo \/ Covered(d)
     /\ work.stage = "plan" =>
          work = [stage |-> "plan", earliest |-> work.earliest, through |-> work.through,
                  todo |-> work.todo, owed |-> work.owed]
     /\ work.stage # "plan" =>
          /\ work = [stage |-> work.stage, earliest |-> work.earliest, through |-> work.through,
                     todo |-> work.todo, owed |-> work.owed, days |-> work.days, absent |-> work.absent]
          /\ InHandOK(Low(work.todo))

GapRowsOK == \A g \in gaps : GapRowOK(g)

ArchiveInv == ArchiveShape /\ GapRowsOK /\ EntriesOK /\ FinishedOK /\ WorkOK

-----------------------------------------------------------------------------
(* The host only adds, and a month stops being daily for good.             *)
HostAdds ==
  /\ daily \subseteq daily' /\ cache \subseteq cache'
  /\ \A m \in Months : IsDaily(m)' => IsDaily(m)

LEMMA EntriesStand ==
  ASSUME HostAdds, EntriesOK, UNCHANGED <<rows, disk>>
  PROVE  EntriesOK'
<1> SUFFICES ASSUME NEW m \in Months, NEW row \in rows[m] PROVE EntryOK(m, row)'
  BY DEF EntriesOK
<1>1. EntryOK(m, row)
  BY DEF EntriesOK
<1>2. Retained(m, row.days)'
  BY <1>1 DEF EntryOK, Retained, HostAdds
<1> QED BY <1>1, <1>2 DEF EntryOK

LEMMA FinishedStands ==
  ASSUME HostAdds, ArchiveShape, FinishedOK, UNCHANGED <<rows, finished>>
  PROVE  FinishedOK'
<1> SUFFICES ASSUME NEW d \in finished PROVE Covered(d)' /\ Offered(d)'
  BY DEF FinishedOK
<1>1. Covered(d) /\ Offered(d) /\ MonthOf(d) \in Months
  BY MonthsTyped DEF FinishedOK, ArchiveShape
<1> QED BY <1>1 DEF Covered, Offered, HostAdds

LEMMA HostSteps ==
  ASSUME ArchiveInv, HostAdds, today' \in AllDays, daily' \subseteq 1 .. today' - 1,
         UNCHANGED <<gaps, rows, disk, finished>>, WorkOK'
  PROVE  ArchiveInv'
<1>1. EntriesOK' /\ FinishedOK'
  BY EntriesStand, FinishedStands DEF ArchiveInv
<1>2. ArchiveShape' /\ GapRowsOK'
  BY DEF ArchiveInv, ArchiveShape, GapRowsOK
<1> QED BY <1>1, <1>2 DEF ArchiveInv

LEMMA Unruns == work' = Unrun => WorkOK'
  BY DEF WorkOK

LEMMA DayPassesKeeps == ArchiveInv /\ DayPasses => ArchiveInv'
<1> SUFFICES ASSUME ArchiveInv, DayPasses PROVE ArchiveInv'
  OBVIOUS
<1>1. /\ today \in AllDays /\ today < LastDay /\ today' = today + 1 /\ daily' = daily \cup {today}
      /\ work' = Unrun /\ UNCHANGED <<gaps, rows, disk, finished, cache>>
      /\ daily \subseteq 1 .. today - 1
  BY DEF DayPasses, ArchiveInv, ArchiveShape
<1>2. today \in Nat \ {0} /\ today' \in Nat \ {0} /\ today <= today' /\ today' \in AllDays
  BY <1>1, ArchiveAssumption DEF AllDays
<1>3. HostAdds
  <2>1. MonthOf(today) \in Nat /\ MonthOf(today') \in Nat /\ MonthOf(today) <= MonthOf(today')
    BY <1>2, MonthsOrdered, InItsMonth
  <2>2. ASSUME NEW m \in Months, IsDaily(m)' PROVE IsDaily(m)
    <3>1. m \in Nat /\ MonthOf(today') - m <= 1
      BY <2>2, MonthsTyped DEF IsDaily, MonthOf
    <3> QED BY <2>1, <3>1 DEF IsDaily
  <2> QED BY <1>1, <2>2 DEF HostAdds
<1>4. daily' \subseteq 1 .. today' - 1
  BY <1>1, <1>2
<1> QED BY <1>1, <1>2, <1>3, <1>4, HostSteps, Unruns

(* What a run has in hand stands while the host publishes.                 *)
LEMMA WorkStays ==
  ASSUME ArchiveInv, daily \subseteq daily', cache \subseteq cache',
         UNCHANGED <<today, monthly, rows, disk, finished, work>>
  PROVE  HostAdds /\ WorkOK'
<1>1. /\ HostAdds /\ (\A m : IsDaily(m)' <=> IsDaily(m)) /\ (\A d : HostHas(d) => HostHas(d)')
      /\ \A d : Covered(d)' <=> Covered(d)
  BY DEF HostAdds, IsDaily, HostHas, Covered
<1>2. ASSUME NEW m, InHandOK(m) PROVE InHandOK(m)'
  BY <1>1, <1>2 DEF InHandOK, Retained
<1> QED BY <1>1, <1>2 DEF ArchiveInv, WorkOK

LEMMA PublishKeeps ==
  ASSUME ArchiveInv, NEW d \in AllDays, PublishLate(d)
  PROVE  ArchiveInv'
<1>1. /\ daily \subseteq daily' /\ cache \subseteq cache' /\ daily' \subseteq 1 .. today' - 1 /\ today' \in AllDays
      /\ UNCHANGED <<gaps, today, monthly, rows, disk, finished, work>>
  BY DEF PublishLate, ArchiveInv, ArchiveShape
<1> QED BY <1>1, WorkStays, HostSteps

LEMMA ArchiveStutters == ArchiveInv /\ UNCHANGED archiveVars => ArchiveInv'
<1> SUFFICES ASSUME ArchiveInv, UNCHANGED archiveVars PROVE ArchiveInv'
  OBVIOUS
<1>1. /\ daily \subseteq daily' /\ cache \subseteq cache' /\ daily' \subseteq 1 .. today' - 1 /\ today' \in AllDays
      /\ UNCHANGED <<gaps, today, monthly, rows, disk, finished, work>>
  BY DEF archiveVars, ArchiveInv, ArchiveShape
<1> QED BY <1>1, WorkStays, HostSteps

-----------------------------------------------------------------------------
(* The steps of a run that leave the files and the registry alone.         *)
LEMMA RunSteps ==
  ASSUME ArchiveInv, cache \subseteq cache', UNCHANGED <<gaps, today, daily, monthly, rows, disk, finished>>,
         WorkOK'
  PROVE  ArchiveInv'
<1>1. HostAdds /\ today' \in AllDays /\ daily' \subseteq 1 .. today' - 1
  BY DEF HostAdds, IsDaily, ArchiveInv, ArchiveShape
<1> QED BY <1>1, HostSteps

LEMMA StartKeeps ==
  ASSUME ArchiveInv, NEW through \in AllDays, StartRun(through)
  PROVE  ArchiveInv'
<1>1. PICK e : e = EarliestDate
  OBVIOUS
<1>2. /\ e \in Nat \ {0} /\ through \in Nat /\ through < today
      /\ work' = [stage |-> "plan", earliest |-> e, through |-> through,
                  todo |-> MonthOf(e) .. MonthOf(through),
                  owed |-> {d \in e .. through : HostHas(d)}]
      /\ cache \subseteq cache' /\ UNCHANGED <<gaps, today, daily, monthly, rows, disk, finished>>
  BY <1>1, MonthsTyped DEF StartRun
<1>3. \A d \in work'.owed : MonthOf(d) \in work'.todo
  <2> SUFFICES ASSUME NEW d \in e .. through PROVE MonthOf(d) \in MonthOf(e) .. MonthOf(through)
    BY <1>2
  <2>1. d \in Nat \ {0} /\ through \in Nat \ {0} /\ e <= d /\ d <= through
    BY <1>2
  <2>2. MonthOf(e) \in Nat /\ MonthOf(d) \in Nat /\ MonthOf(through) \in Nat
        /\ MonthOf(e) <= MonthOf(d) /\ MonthOf(d) <= MonthOf(through)
    BY <1>2, <2>1, MonthsOrdered, InItsMonth
  <2> QED BY <2>2
<1>4. \A d \in work'.owed : HostHas(d)'
  BY <1>2 DEF HostHas, IsDaily
<1>5. WorkOK'
  BY <1>2, <1>3, <1>4 DEF WorkOK, MonthOf
<1> QED BY <1>2, <1>5, RunSteps

LEMMA LeavesKeeps == ArchiveInv /\ (RefusePartition \/ Abort) => ArchiveInv'
<1> SUFFICES ASSUME ArchiveInv, RefusePartition \/ Abort PROVE ArchiveInv'
  OBVIOUS
<1>1. work' = Unrun /\ cache \subseteq cache' /\ UNCHANGED <<gaps, today, daily, monthly, rows, disk, finished>>
  BY DEF RefusePartition, Abort
<1> QED BY <1>1, Unruns, RunSteps

(* A run at work: what it was asked for, and the months left to it.        *)
LEMMA AtWork ==
  ASSUME ArchiveInv, work # Unrun
  PROVE  /\ work.stage \in {"plan", "write", "record"}
         /\ work.earliest \in Nat \ {0} /\ work.through \in Nat /\ work.through < today
         /\ work.todo \subseteq Months /\ work.owed \subseteq work.earliest .. work.through
         /\ work.owed \subseteq AllDays
         /\ work.todo # {} => Low(work.todo) \in work.todo
         /\ \A d \in work.owed : MonthOf(d) \in Nat /\ d \in DaysOf(MonthOf(d))
<1>1. /\ work.stage \in {"plan", "write", "record"}
      /\ work.earliest \in Nat \ {0} /\ work.through \in Nat /\ work.through < today
      /\ work.todo \subseteq MonthOf(work.earliest) .. MonthOf(work.through)
      /\ work.owed \subseteq work.earliest .. work.through
  BY DEF ArchiveInv, WorkOK
<1>2. today \in Nat /\ today <= LastDay /\ LastDay \in Nat \ {0}
  BY ArchiveAssumption DEF ArchiveInv, ArchiveShape, AllDays
<1>3. work.todo \subseteq Months
  <2> SUFFICES ASSUME NEW m \in work.todo PROVE m \in Months
    OBVIOUS
  <2>1. MonthOf(work.earliest) \in Nat
    BY <1>1, InItsMonth
  <2>2. CASE work.through = 0
    <3>1. MonthOf(0) \in Int /\ MonthOf(0) <= 0
      BY ArchiveAssumption DEF MonthOf
    <3>2. m = 0
      BY <1>1, <2>1, <2>2, <3>1
    <3>3. MonthOf(LastDay) \in Nat
      BY <1>2, InItsMonth
    <3> QED BY <3>2, <3>3 DEF Months
  <2>3. CASE work.through # 0
    <3>1. MonthOf(work.through) \in Nat /\ MonthOf(LastDay) \in Nat /\ MonthOf(work.through) <= MonthOf(LastDay)
      BY <1>1, <1>2, <2>3, MonthsOrdered, InItsMonth
    <3> QED BY <1>1, <2>1, <3>1 DEF Months
  <2> QED BY <2>2, <2>3
<1>4. work.owed \subseteq AllDays
  BY <1>1, <1>2 DEF AllDays
<1>5. ASSUME work.todo # {} PROVE Low(work.todo) \in work.todo
  <2>1. work.todo \in SUBSET Nat
    BY <1>3, MonthsTyped
  <2> QED BY <1>5, <2>1, LeastExists DEF Low
<1>6. \A d \in work.owed : MonthOf(d) \in Nat /\ d \in DaysOf(MonthOf(d))
  BY <1>4, MonthsTyped, InItsMonth
<1> QED BY <1>1, <1>3, <1>4, <1>5, <1>6

LEMMA EndKeeps == ArchiveInv /\ EndRun => ArchiveInv'
<1> SUFFICES ASSUME ArchiveInv, EndRun PROVE ArchiveInv'
  OBVIOUS
<1>1. /\ work # Unrun /\ work.todo = {} /\ finished' = finished \cup work.owed /\ work' = Unrun
      /\ UNCHANGED <<gaps, today, daily, monthly, cache, disk, rows>>
  BY DEF EndRun, Unrun
<1>2. \A d \in work.owed : HostHas(d) /\ Covered(d)
  BY <1>1 DEF ArchiveInv, WorkOK
<1>3. \A d \in work.owed : Offered(d)
  BY <1>2 DEF HostHas, Offered
<1>4. FinishedOK'
  BY <1>1, <1>2, <1>3 DEF ArchiveInv, FinishedOK, Covered, Offered, IsDaily
<1>5. ArchiveShape'
  BY <1>1, AtWork DEF ArchiveInv, ArchiveShape
<1>6. EntriesOK'
  <2>1. HostAdds
    BY <1>1 DEF HostAdds, IsDaily
  <2> QED BY <1>1, <2>1, EntriesStand DEF ArchiveInv
<1>7. GapRowsOK' /\ WorkOK'
  BY <1>1, Unruns DEF ArchiveInv, GapRowsOK
<1> QED BY <1>4, <1>5, <1>6, <1>7 DEF ArchiveInv

LEMMA EntryBounds ==
  ASSUME EntriesOK, NEW m \in Months, NEW row \in rows[m]
  PROVE  /\ row.days # {} /\ row.days \subseteq DaysOf(m) /\ row.days \subseteq disk[m]
         /\ row.from \in Nat \ {0} /\ row.through \in Nat \ {0} /\ row.from <= row.through
         /\ \A x \in row.days : x \in Nat /\ row.from <= x /\ x <= row.through
         /\ row.absent = 0 => \A x \in Nat : row.from <= x /\ x <= row.through => x \in row.days
         /\ Retained(m, row.days)
<1>1. /\ row.days # {} /\ row.days \subseteq DaysOf(m) /\ row.days \subseteq disk[m]
      /\ row.from = Low(row.days) /\ row.through = High(row.days)
      /\ row.absent = 0 => row.days = row.from .. row.through
      /\ Retained(m, row.days)
  BY DEF EntriesOK, EntryOK
<1>2. PICK S : S = row.days
  OBVIOUS
<1>3. m \in Nat /\ S \in SUBSET DaysOf(m) /\ S # {}
  BY <1>1, <1>2, MonthsTyped
<1>4. PICK a \in Nat \ {0}, b \in Nat \ {0} : a = Low(S) /\ b = High(S) /\ \A x \in S : a <= x /\ x <= b
  BY <1>3, DaysBounded
<1>5. \A x \in S : x \in Nat
  BY <1>3, OnlyItsMonth
<1>6. a <= b
  BY <1>3, <1>4, <1>5
<1>7. row.absent = 0 => S = a .. b
  BY <1>1, <1>2, <1>4
<1>8. row.absent = 0 => \A x \in Nat : a <= x /\ x <= b => x \in S
  BY <1>4, <1>7
<1> QED BY <1>1, <1>2, <1>4, <1>5, <1>6, <1>8

LEMMA PlannedCover ==
  ASSUME NEW m \in Nat, NEW e \in Nat, NEW t \in Nat
  PROVE  /\ UNION Planned(m, e, t) \subseteq DaysOf(m)
         /\ \A x \in DaysOf(m) : e <= x /\ x <= t => x \in UNION Planned(m, e, t)
<1>1. UNION Planned(m, e, t) \subseteq DaysOf(m)
  BY PlannedDays
<1>2. ASSUME NEW x \in DaysOf(m), e <= x, x <= t PROVE x \in UNION Planned(m, e, t)
  <2>1. CASE IsDaily(m)
    <3>1. {x} \in Planned(m, e, t)
      BY <1>2, <2>1, PlannedDays
    <3> QED BY <3>1
  <2>2. CASE ~IsDaily(m)
    BY <2>2, PlannedDays
  <2> QED BY <2>1, <2>2
<1> QED BY <1>1, <1>2

(* A complete partition's row reaches over every day the run owes of it.   *)
LEMMA CompleteCovers ==
  ASSUME ArchiveInv, work # Unrun, NEW m \in Months, IsComplete(m),
         NEW d \in work.owed, MonthOf(d) = m
  PROVE  Covered(d)
<1>1. PICK row \in rows[m] :
        /\ row.absent = 0
        /\ row.through >= Low({High(UNION Planned(m, work.earliest, work.through)), work.through})
  BY DEF IsComplete
<1>2. row.from \in Nat \ {0} /\ row.through \in Nat \ {0}
  BY EntryBounds DEF ArchiveInv
<1>3. \A x \in Nat : row.from <= x /\ x <= row.through => x \in row.days
  BY <1>1, EntryBounds DEF ArchiveInv
<1>4. PICK planned : planned = UNION Planned(m, work.earliest, work.through)
  OBVIOUS
<1>5. /\ work.earliest \in Nat /\ work.through \in Nat /\ d \in DaysOf(m) /\ m \in Nat
      /\ d \in Nat /\ work.earliest <= d /\ d <= work.through
  BY AtWork, MonthsTyped
<1>6. planned \subseteq DaysOf(m) /\ d \in planned
  BY <1>4, <1>5, PlannedCover
<1>7. PICK high \in Nat : high = High(planned) /\ d <= high
  BY <1>5, <1>6, DaysBounded
<1>8. Low({high, work.through}) \in {high, work.through}
  <2>1. {high, work.through} \in SUBSET Nat /\ {high, work.through} # {}
    BY <1>5
  <2> QED BY <2>1, LeastExists DEF Low
<1>9. d <= row.through
  BY <1>1, <1>2, <1>4, <1>5, <1>7, <1>8
<1>10. d \in row.days \/ d < row.from
  BY <1>2, <1>3, <1>5, <1>9
<1> QED BY <1>10 DEF Covered

LEMMA AdvanceKeeps ==
  ASSUME ArchiveInv, work.stage = "plan", NEW m \in Months, work' = Advance(m), cache \subseteq cache',
         UNCHANGED <<gaps, today, daily, monthly, rows, disk, finished>>,
         \A d \in work.owed : MonthOf(d) = m => Covered(d)
  PROVE  ArchiveInv'
<1>1. PICK todo : todo = work.todo \ {m}
  OBVIOUS
<1>2. /\ work.earliest \in Nat \ {0} /\ work.through \in Nat /\ work.through < today
      /\ work.todo \subseteq MonthOf(work.earliest) .. MonthOf(work.through)
      /\ work.owed \subseteq work.earliest .. work.through
      /\ \A d \in work.owed : HostHas(d)
      /\ \A d \in work.owed : MonthOf(d) \in work.todo \/ Covered(d)
      /\ work = [stage |-> "plan", earliest |-> work.earliest, through |-> work.through,
                 todo |-> work.todo, owed |-> work.owed]
  BY DEF ArchiveInv, WorkOK, Unrun
<1>3. work' = [stage |-> "plan", earliest |-> work.earliest, through |-> work.through,
               todo |-> todo, owed |-> work.owed]
  BY <1>1, <1>2 DEF Advance
<1>4. \A d \in work.owed : MonthOf(d) \in todo \/ Covered(d)'
  BY <1>1, <1>2 DEF Covered
<1>5. \A d \in work.owed : HostHas(d)'
  BY <1>2 DEF HostHas, IsDaily
<1>6. todo \subseteq MonthOf(work.earliest) .. MonthOf(work.through)
  BY <1>1, <1>2
<1>7. WorkOK'
  BY <1>2, <1>3, <1>4, <1>5, <1>6 DEF WorkOK, MonthOf
<1> QED BY <1>7, RunSteps

(* What an unskipped month gives a run: every day it has to keep or owes.  *)
Fetched(m, present, days) ==
  /\ days \subseteq DaysOf(m) /\ (present # {} => days # {})
  /\ ~IsDaily(m) /\ present # {} => days = DaysOf(m)
  /\ IsDaily(m) => \A x \in days : {x} \in present /\ work.earliest <= x /\ x <= work.through
  /\ IsDaily(m) => \A x \in DaysOf(m) :
       work.earliest <= x /\ x <= work.through /\ ({x} \in cache \/ x \in daily) => x \in days
  /\ \A d \in work.owed : MonthOf(d) = m => d \in days

LEMMA FetchedDays ==
  ASSUME ArchiveInv, work.stage = "plan", NEW m \in Months, m \in work.todo,
         NEW archives, archives = Planned(m, work.earliest, work.through),
         NEW present, present = {a \in archives : Served(a, m)},
         NEW days, days = UNION present
  PROVE  Fetched(m, present, days)
<1>1. work # Unrun /\ m \in Nat /\ work.earliest \in Nat /\ work.through \in Nat
  BY MonthsTyped DEF Unrun, ArchiveInv, WorkOK
<1>2. /\ \A a \in archives : a # {} /\ a \subseteq DaysOf(m)
      /\ IsDaily(m) => \A a \in archives : \E x \in DaysOf(m) : a = {x} /\ work.earliest <= x /\ x <= work.through
      /\ IsDaily(m) => \A x \in DaysOf(m) : work.earliest <= x /\ x <= work.through => {x} \in archives
      /\ ~IsDaily(m) => archives = {DaysOf(m)}
  BY <1>1, PlannedDays
<1>3. days \subseteq DaysOf(m)
  BY <1>2
<1>4. present # {} => days # {}
  <2> SUFFICES ASSUME NEW a \in present PROVE days # {}
    OBVIOUS
  <2> QED BY <1>2
<1>5. ASSUME ~IsDaily(m), present # {} PROVE days = DaysOf(m)
  <2>1. present = {DaysOf(m)}
    BY <1>2, <1>5
  <2> QED BY <2>1
<1>6. ASSUME IsDaily(m), NEW x \in days
      PROVE  {x} \in present /\ work.earliest <= x /\ x <= work.through
  <2>1. PICK a \in present : x \in a
    OBVIOUS
  <2>2. PICK y \in DaysOf(m) : a = {y} /\ work.earliest <= y /\ y <= work.through
    BY <1>2, <1>6, <2>1
  <2> QED BY <2>1, <2>2
<1>7. ASSUME IsDaily(m), NEW x \in DaysOf(m), work.earliest <= x, x <= work.through,
             {x} \in cache \/ x \in daily
      PROVE  x \in days
  <2>1. {x} \in archives
    BY <1>2, <1>7
  <2>2. Served({x}, m)
    BY <1>7 DEF Served
  <2>3. {x} \in present
    BY <2>1, <2>2
  <2> QED BY <2>3
<1>8. ASSUME NEW d \in work.owed, MonthOf(d) = m PROVE d \in days
  <2>1. HostHas(d) /\ d \in DaysOf(m) /\ work.earliest <= d /\ d <= work.through
    BY <1>1, <1>8, AtWork DEF ArchiveInv, WorkOK
  <2>2. CASE IsDaily(m)
    <3>1. d \in daily
      BY <1>8, <2>1, <2>2 DEF HostHas
    <3> QED BY <1>7, <2>1, <2>2, <3>1
  <2>3. CASE ~IsDaily(m)
    <3>1. m \in monthly
      BY <1>8, <2>1, <2>3 DEF HostHas
    <3>2. DaysOf(m) \in present
      BY <1>2, <2>3, <3>1 DEF Served
    <3> QED BY <2>1, <3>2
  <2> QED BY <2>2, <2>3
<1> QED BY <1>3, <1>4, <1>5, <1>6, <1>7, <1>8 DEF Fetched

LEMMA PartitionKeeps == ArchiveInv /\ Partition => ArchiveInv'
<1> SUFFICES ASSUME ArchiveInv, Partition PROVE ArchiveInv'
  OBVIOUS
<1>1. PICK m : m = Low(work.todo)
  OBVIOUS
<1>2. PICK archives : archives = Planned(m, work.earliest, work.through)
  OBVIOUS
<1>3. PICK present : present = {a \in archives : Served(a, m)}
  OBVIOUS
<1>4. PICK days : days = UNION present
  OBVIOUS
<1>5. PICK absent : absent = Cardinality(archives \ present)
  OBVIOUS
<1>6. /\ work.stage = "plan" /\ work.todo # {} /\ work # Unrun
      /\ UNCHANGED <<gaps, today, daily, monthly, rows, disk, finished>>
  BY DEF Partition, Unrun
<1>7. m \in work.todo /\ m \in Months /\ m \in Nat
  BY <1>1, <1>6, AtWork, MonthsTyped
<1>8. \/ IsComplete(m) /\ work' = Advance(m) /\ cache' = cache
      \/ /\ cache' = cache \cup present
         /\ \/ present = {} /\ work' = Advance(m)
            \/ work' = Unrun
            \/ /\ present # {} /\ ~Narrows(m, Low(days), High(days))
               /\ work' = [stage |-> "write", earliest |-> work.earliest, through |-> work.through,
                           todo |-> work.todo, owed |-> work.owed, days |-> days, absent |-> absent]
  BY <1>1, <1>2, <1>3, <1>4, <1>5 DEF Partition
<1>9. /\ days \subseteq DaysOf(m) /\ (present # {} => days # {})
      /\ ~IsDaily(m) /\ present # {} => days = DaysOf(m)
      /\ IsDaily(m) => \A x \in days : {x} \in present /\ work.earliest <= x /\ x <= work.through
      /\ IsDaily(m) => \A x \in DaysOf(m) :
           work.earliest <= x /\ x <= work.through /\ ({x} \in cache \/ x \in daily) => x \in days
      /\ \A d \in work.owed : MonthOf(d) = m => d \in days
  <2>1. Fetched(m, present, days)
    BY <1>2, <1>3, <1>4, <1>6, <1>7, FetchedDays
  <2> QED BY <2>1 DEF Fetched
<1>10. CASE IsComplete(m) /\ work' = Advance(m) /\ cache' = cache
  BY <1>6, <1>7, <1>10, CompleteCovers, AdvanceKeeps
<1>11. CASE cache' = cache \cup present /\ present = {} /\ work' = Advance(m)
  <2>1. \A d \in work.owed : MonthOf(d) # m
    BY <1>4, <1>9, <1>11
  <2> QED BY <1>6, <1>7, <1>11, <2>1, AdvanceKeeps
<1>12. CASE cache' = cache \cup present /\ work' = Unrun
  BY <1>6, <1>12, Unruns, RunSteps
<1>13. CASE /\ cache' = cache \cup present /\ present # {} /\ ~Narrows(m, Low(days), High(days))
            /\ work' = [stage |-> "write", earliest |-> work.earliest, through |-> work.through,
                        todo |-> work.todo, owed |-> work.owed, days |-> days, absent |-> absent]
  <2>1. days # {} /\ Low(days) \in days /\ High(days) \in days
        /\ Low(days) \in Nat \ {0} /\ High(days) \in Nat \ {0} /\ \A x \in days : Low(days) <= x /\ x <= High(days)
    BY <1>7, <1>9, <1>13, DaysBounded
  <2>2. /\ work.earliest \in Nat \ {0} /\ work.through \in Nat /\ work.through < today
        /\ work.todo \subseteq MonthOf(work.earliest) .. MonthOf(work.through)
        /\ work.owed \subseteq work.earliest .. work.through
        /\ \A d \in work.owed : HostHas(d)
        /\ \A d \in work.owed : MonthOf(d) \in work.todo \/ Covered(d)
    BY <1>6 DEF ArchiveInv, WorkOK
  <2>3. ASSUME NEW row \in rows[m]
        PROVE  /\ row.from \in Nat /\ row.through \in Nat /\ row.from <= row.through
               /\ Low(days) <= row.from /\ row.through <= High(days)
    BY <1>7, <1>13, <2>1, EntryBounds DEF Narrows, ArchiveInv
  <2>4. ASSUME NEW x \in DaysOf(m), IsDaily(m), Low(days) <= x, x <= High(days)
        PROVE  work.earliest <= x /\ x <= work.through
    <3>1. work.earliest <= Low(days) /\ High(days) <= work.through
      BY <1>9, <2>1, <2>4
    <3>2. x \in Nat
      BY <1>7, OnlyItsMonth
    <3> QED BY <2>1, <2>2, <2>4, <3>1, <3>2
  <2>5. ASSUME NEW row \in rows[m], NEW x \in row.days PROVE x \in days
    <3>1. x \in Nat /\ row.from <= x /\ x <= row.through /\ x \in DaysOf(m) /\ Retained(m, row.days)
      BY <1>7, <2>5, EntryBounds DEF ArchiveInv
    <3>2. Low(days) <= x /\ x <= High(days)
      BY <2>1, <2>3, <3>1
    <3>3. CASE IsDaily(m)
      <4>1. {x} \in cache
        BY <3>1, <3>3 DEF Retained
      <4> QED BY <1>9, <2>4, <3>1, <3>2, <3>3, <4>1
    <3>4. CASE ~IsDaily(m)
      BY <1>9, <1>13, <3>1, <3>4
    <3> QED BY <3>3, <3>4
  <2>6. ASSUME NEW d \in finished, MonthOf(d) = m PROVE d \in days \/ d < Low(days)
    <3>1. PICK row \in rows[m] : d \in row.days \/ d < row.from
      BY <2>6 DEF ArchiveInv, FinishedOK, Covered
    <3>2. CASE d \in row.days
      BY <2>5, <3>2
    <3>3. CASE d < row.from /\ ~(d < Low(days))
      <4>1. d \in Nat \ {0} /\ d \in DaysOf(m) /\ Offered(d)
        BY <2>6, MonthsTyped, InItsMonth DEF ArchiveInv, ArchiveShape, FinishedOK
      <4>2. Low(days) <= d /\ d <= High(days)
        BY <2>1, <2>3, <3>3, <4>1
      <4>3. CASE IsDaily(m)
        <5>1. d \in daily
          BY <2>6, <4>1, <4>3 DEF Offered
        <5> QED BY <1>9, <2>4, <4>1, <4>2, <4>3, <5>1
      <4>4. CASE ~IsDaily(m)
        BY <1>9, <1>13, <4>1, <4>4
      <4> QED BY <4>3, <4>4
    <3> QED BY <3>1, <3>2, <3>3
  <2>7. ASSUME absent = 0, NEW x \in Low(days) .. High(days) PROVE x \in days
    <3>1. present = archives
      <4>1. IsFiniteSet(archives \ present)
        BY <1>2, <1>7, <2>2, PlannedFinite, FS_Subset
      <4>2. archives \ present = {}
        BY <1>5, <2>7, <4>1, FS_EmptySet
      <4> QED BY <1>3, <4>2
    <3>2. PICK a \in Nat, b \in Nat : DaysOf(m) = a .. b
      BY <1>7, MonthBounds
    <3>3. x \in DaysOf(m)
      <4>1. Low(days) \in a .. b /\ High(days) \in a .. b
        BY <1>9, <2>1, <3>2
      <4> QED BY <2>7, <3>2, <4>1
    <3>4. CASE IsDaily(m)
      <4>1. work.earliest <= x /\ x <= work.through
        BY <2>1, <2>4, <2>7, <3>3, <3>4
      <4>2. {x} \in archives
        BY <1>2, <1>7, <2>2, <3>3, <3>4, <4>1, PlannedDays
      <4> QED BY <1>4, <3>1, <4>2
    <3>5. CASE ~IsDaily(m)
      BY <1>9, <1>13, <3>3, <3>5
    <3> QED BY <3>4, <3>5
  <2>8. absent = 0 => days = Low(days) .. High(days)
    <3>1. days \subseteq Low(days) .. High(days)
      <4>1. \A x \in days : x \in Nat
        BY <1>7, <1>9, OnlyItsMonth
      <4> QED BY <2>1, <4>1
    <3> QED BY <2>7, <3>1
  <2>9. Retained(m, days)'
    <3>1. CASE IsDaily(m)
      BY <1>9, <1>13, <3>1 DEF Retained
    <3>2. CASE ~IsDaily(m)
      BY <1>6, <1>9, <1>13, <3>2 DEF Retained, IsDaily
    <3> QED BY <3>1, <3>2
  <2>10. /\ work'.days = days /\ work'.todo = work.todo /\ work'.owed = work.owed /\ work'.absent = absent
         /\ work'.stage = "write" /\ work'.earliest = work.earliest /\ work'.through = work.through
    BY <1>13
  <2>11. InHandOK(m)'
    BY <1>6, <1>7, <1>9, <2>1, <2>5, <2>6, <2>8, <2>9, <2>10 DEF InHandOK, Retained
  <2>12. \A d \in work.owed : HostHas(d)' /\ (MonthOf(d) \in work.todo \/ Covered(d)')
    BY <1>6, <2>2 DEF HostHas, IsDaily, Covered
  <2>13. WorkOK'
    BY <1>1, <1>6, <1>13, <2>2, <2>10, <2>11, <2>12 DEF WorkOK, InHandOK
  <2> QED BY <1>6, <1>13, <2>13, RunSteps
<1> QED BY <1>8, <1>10, <1>11, <1>12, <1>13

-----------------------------------------------------------------------------
(* The steps that write: the file first, then the row.                     *)
LEMMA InHand ==
  ASSUME ArchiveInv, work.stage \in {"write", "record"}, NEW m, m = Low(work.todo)
  PROVE  /\ m \in Months /\ m \in Nat /\ m \in work.todo /\ InHandOK(m) /\ work # Unrun
         /\ work = [stage |-> work.stage, earliest |-> work.earliest, through |-> work.through,
                    todo |-> work.todo, owed |-> work.owed, days |-> work.days, absent |-> work.absent]
<1>1. /\ InHandOK(m) /\ work # Unrun
      /\ work = [stage |-> work.stage, earliest |-> work.earliest, through |-> work.through,
                 todo |-> work.todo, owed |-> work.owed, days |-> work.days, absent |-> work.absent]
  BY DEF ArchiveInv, WorkOK, Unrun
<1>2. m \in work.todo
  BY <1>1 DEF InHandOK
<1>3. m \in Months /\ m \in Nat
  BY <1>1, <1>2, AtWork, MonthsTyped
<1> QED BY <1>1, <1>2, <1>3

LEMMA IngestKeeps == ArchiveInv /\ IngestPartition => ArchiveInv'
<1> SUFFICES ASSUME ArchiveInv, IngestPartition PROVE ArchiveInv'
  OBVIOUS
<1>1. PICK m : m = Low(work.todo)
  OBVIOUS
<1>2. /\ work.stage = "write" /\ disk' = [disk EXCEPT ![m] = work.days]
      /\ work' = [work EXCEPT !.stage = "record"]
      /\ UNCHANGED <<gaps, today, daily, monthly, cache, rows, finished>>
  BY <1>1 DEF IngestPartition
<1>3. /\ m \in Months /\ m \in Nat /\ m \in work.todo /\ InHandOK(m) /\ work # Unrun
      /\ work = [stage |-> work.stage, earliest |-> work.earliest, through |-> work.through,
                 todo |-> work.todo, owed |-> work.owed, days |-> work.days, absent |-> work.absent]
  <2>1. work.stage \in {"write", "record"}
    BY <1>2
  <2> QED BY <1>1, <2>1, InHand
<1>4. disk' = [k \in Months |-> disk'[k]] /\ disk'[m] = work.days /\ \A k \in Months : k # m => disk'[k] = disk[k]
  BY <1>2, <1>3 DEF ArchiveInv, ArchiveShape
<1>5. ArchiveShape'
  <2>1. \A k \in Months : disk'[k] \subseteq DaysOf(k)
    BY <1>3, <1>4 DEF ArchiveInv, ArchiveShape, InHandOK
  <2> QED BY <1>2, <1>4, <2>1 DEF ArchiveInv, ArchiveShape
<1>6. EntriesOK'
  <2> SUFFICES ASSUME NEW k \in Months, NEW row \in rows[k] PROVE EntryOK(k, row)'
    BY <1>2 DEF ArchiveInv, EntriesOK
  <2>1. EntryOK(k, row)
    BY DEF ArchiveInv, EntriesOK
  <2>2. row.days \subseteq disk'[k]
    BY <1>3, <1>4, <2>1 DEF EntryOK, InHandOK
  <2>3. Retained(k, row.days)'
    BY <1>2, <2>1 DEF EntryOK, Retained, IsDaily
  <2> QED BY <2>1, <2>2, <2>3 DEF EntryOK
<1>7. FinishedOK'
  BY <1>2 DEF ArchiveInv, FinishedOK, Covered, Offered, IsDaily
<1>8. GapRowsOK'
  BY <1>2 DEF ArchiveInv, GapRowsOK
<1>9. WorkOK'
  <2>1. work' = [stage |-> "record", earliest |-> work.earliest, through |-> work.through,
                 todo |-> work.todo, owed |-> work.owed, days |-> work.days, absent |-> work.absent]
    BY <1>2, <1>3
  <2>2. /\ work'.days = work.days /\ work'.todo = work.todo /\ work'.owed = work.owed
        /\ work'.absent = work.absent /\ work'.stage = "record"
        /\ work'.earliest = work.earliest /\ work'.through = work.through
    BY <2>1
  <2>3. InHandOK(m)'
    BY <1>2, <1>3, <1>4, <2>2 DEF InHandOK, Retained, IsDaily
  <2>4. \A d \in work.owed : HostHas(d)' /\ (MonthOf(d) \in work.todo \/ Covered(d)')
    BY <1>2, <1>3 DEF ArchiveInv, WorkOK, HostHas, IsDaily, Covered
  <2>5. /\ work.earliest \in Nat \ {0} /\ work.through \in Nat /\ work.through < today
        /\ work.todo \subseteq MonthOf(work.earliest) .. MonthOf(work.through)
        /\ work.owed \subseteq work.earliest .. work.through
    BY <1>3 DEF ArchiveInv, WorkOK
  <2> QED BY <1>1, <1>2, <2>1, <2>2, <2>3, <2>4, <2>5 DEF WorkOK
<1> QED BY <1>5, <1>6, <1>7, <1>8, <1>9 DEF ArchiveInv

(* The gap rows a partition is recorded with span at least a day.          *)
LEMMA NewGaps ==
  ASSUME ArchiveInv, NEW m \in Months, NEW days \in SUBSET DaysOf(m), days # {},
         NEW g \in CadenceGaps(days) \cup SeamGaps(m, days)
  PROVE  GapRowOK(g)
<1>1. m \in Nat /\ Low(days) \in Nat \ {0} /\ High(days) \in Nat
  BY MonthsTyped, DaysBounded
<1>2. CASE g \in CadenceGaps(days)
  <2>1. PICK run \in Runs((Low(days) .. High(days)) \ days, Low(days), High(days)) :
          g = Gap(run[1], run[2] + 1, "cadence", run[2] - run[1] + 1)
    BY <1>2 DEF CadenceGaps
  <2>2. run[1] \in Nat /\ run[2] \in Nat /\ run[1] <= run[2]
    BY <1>1, <2>1, RunsWithin
  <2>3. PICK a \in Nat, b \in Nat : a = run[1] /\ b = run[2] /\ a <= b
    BY <2>2
  <2> QED BY <2>1, <2>3 DEF Gap, GapRowOK
<1>3. CASE g \in SeamGaps(m, days)
  <2>1. PICK before : before = {k \in Months : k < m /\ rows[k] # {}}
    OBVIOUS
  <2>2. PICK last : last = High((CHOOSE row \in rows[High(before)] : TRUE).days)
    OBVIOUS
  <2>3. before # {} /\ ~(Low(days) <= last + 1) /\ g = Gap(last + 1, Low(days), "seam", Low(days) - last - 1)
    BY <1>3, <2>1, <2>2 DEF SeamGaps
  <2>4. PICK k \in before : k = High(before)
    <3>1. before \in SUBSET Nat
      BY <2>1, MonthsTyped
    <3>2. \A x \in before : x <= m
      BY <1>1, <2>1, <3>1
    <3> QED BY <1>1, <2>3, <3>1, <3>2, LowHigh
  <2>5. PICK row \in rows[k] : row = CHOOSE r \in rows[k] : TRUE
    BY <2>1
  <2>6. k \in Months /\ k \in Nat /\ row.days # {} /\ row.days \subseteq DaysOf(k) /\ last = High(row.days)
    BY <2>1, <2>2, <2>4, <2>5, MonthsTyped DEF ArchiveInv, EntriesOK, EntryOK
  <2>7. last \in Nat
    <3>1. PICK S : S = row.days
      OBVIOUS
    <3> QED BY <2>6, <3>1, DaysBounded
  <2> QED BY <1>1, <2>3, <2>7 DEF Gap, GapRowOK
<1> QED BY <1>2, <1>3

LEMMA RecordKeeps == ArchiveInv /\ RecordPartition => ArchiveInv'
<1> SUFFICES ASSUME ArchiveInv, RecordPartition PROVE ArchiveInv'
  OBVIOUS
<1>1. PICK m : m = Low(work.todo)
  OBVIOUS
<1>2. PICK new : new = [from |-> Low(work.days), through |-> High(work.days), absent |-> work.absent,
                        days |-> work.days]
  OBVIOUS
<1>3. /\ work.stage = "record" /\ rows' = [rows EXCEPT ![m] = {new}]
      /\ gaps' = InsertGaps(gaps, CadenceGaps(work.days) \cup SeamGaps(m, work.days))
      /\ work' = [stage |-> "plan", earliest |-> work.earliest, through |-> work.through,
                  todo |-> work.todo \ {m}, owed |-> work.owed]
      /\ UNCHANGED <<today, daily, monthly, cache, disk, finished>>
  BY <1>1, <1>2 DEF RecordPartition
<1>4. m \in Months /\ m \in Nat /\ m \in work.todo /\ InHandOK(m) /\ work # Unrun
  <2>1. work.stage \in {"write", "record"}
    BY <1>3
  <2> QED BY <1>1, <2>1, InHand
<1>5. rows' = [k \in Months |-> rows'[k]] /\ rows'[m] = {new} /\ \A k \in Months : k # m => rows'[k] = rows[k]
  BY <1>3, <1>4 DEF ArchiveInv, ArchiveShape
<1>6. ArchiveShape'
  BY <1>3, <1>5 DEF ArchiveInv, ArchiveShape
<1>7. GapRowsOK'
  <2>1. work.days \in SUBSET DaysOf(m) /\ work.days # {}
    BY <1>4 DEF InHandOK
  <2>2. \A g \in CadenceGaps(work.days) \cup SeamGaps(m, work.days) : GapRowOK(g)
    BY <1>4, <2>1, NewGaps
  <2> QED BY <1>3, <2>2 DEF ArchiveInv, GapRowsOK, InsertGaps, GapRowOK
<1>8. EntriesOK'
  <2> SUFFICES ASSUME NEW k \in Months
               PROVE  (rows'[k] = {} \/ \E row : rows'[k] = {row}) /\ \A row \in rows'[k] : EntryOK(k, row)'
    BY DEF EntriesOK
  <2>1. CASE k # m
    <3>1. rows'[k] = rows[k] /\ (rows[k] = {} \/ \E row : rows[k] = {row}) /\ \A row \in rows[k] : EntryOK(k, row)
      BY <1>5, <2>1 DEF ArchiveInv, EntriesOK
    <3>2. ASSUME NEW row \in rows[k] PROVE EntryOK(k, row)'
      BY <1>3, <3>1, <3>2 DEF EntryOK, Retained, IsDaily
    <3> QED BY <3>1, <3>2
  <2>2. CASE k = m
    <3>1. PICK days : days = work.days
      OBVIOUS
    <3>2. /\ days # {} /\ days \subseteq DaysOf(m) /\ disk[m] = days
          /\ Retained(m, days) /\ (work.absent = 0 => days = Low(days) .. High(days))
      BY <1>3, <1>4, <3>1 DEF InHandOK
    <3>3. Retained(m, days)'
      BY <1>3, <3>2 DEF Retained, IsDaily
    <3>4. new.days = days /\ new.from = Low(days) /\ new.through = High(days) /\ new.absent = work.absent
      BY <1>2, <3>1
    <3>5. EntryOK(m, new)'
      BY <1>3, <3>2, <3>3, <3>4 DEF EntryOK, Retained
    <3> QED BY <1>5, <2>2, <3>5
  <2> QED BY <2>1, <2>2
<1>9. ASSUME NEW d, MonthOf(d) \in Months, Covered(d) \/ MonthOf(d) = m,
             MonthOf(d) = m => d \in work.days \/ d < Low(work.days)
      PROVE  Covered(d)'
  <2>1. CASE MonthOf(d) = m
    BY <1>2, <1>5, <1>9, <2>1 DEF Covered
  <2>2. CASE MonthOf(d) # m
    BY <1>5, <1>9, <2>2 DEF Covered
  <2> QED BY <2>1, <2>2
<1>10. FinishedOK'
  <2>1. \A d \in finished : Covered(d)'
    BY <1>4, <1>9, MonthsTyped DEF ArchiveInv, ArchiveShape, FinishedOK, InHandOK
  <2> QED BY <1>3, <2>1 DEF ArchiveInv, FinishedOK, Offered, IsDaily
<1>11. WorkOK'
  <2>1. /\ work.earliest \in Nat \ {0} /\ work.through \in Nat /\ work.through < today
        /\ work.todo \subseteq MonthOf(work.earliest) .. MonthOf(work.through)
        /\ work.owed \subseteq work.earliest .. work.through
        /\ \A d \in work.owed : HostHas(d)
        /\ \A d \in work.owed : MonthOf(d) \in work.todo \/ Covered(d)
    BY <1>4 DEF ArchiveInv, WorkOK
  <2>2. PICK todo : todo = work.todo \ {m}
    OBVIOUS
  <2>3. ASSUME NEW d \in work.owed PROVE MonthOf(d) \in todo \/ Covered(d)'
    <3>1. MonthOf(d) \in Months
      BY <1>4, AtWork, MonthsTyped
    <3>2. MonthOf(d) = m => d \in work.days
      BY <1>4 DEF InHandOK
    <3>3. MonthOf(d) \in todo \/ Covered(d) \/ MonthOf(d) = m
      BY <2>1, <2>2
    <3> QED BY <1>9, <3>1, <3>2, <3>3
  <2>4. \A d \in work.owed : HostHas(d)'
    BY <1>3, <2>1 DEF HostHas, IsDaily
  <2>5. todo \subseteq MonthOf(work.earliest) .. MonthOf(work.through)
    BY <2>1, <2>2
  <2>6. work' = [stage |-> "plan", earliest |-> work.earliest, through |-> work.through,
                 todo |-> todo, owed |-> work.owed]
    BY <1>3, <2>2
  <2> QED BY <1>3, <2>1, <2>3, <2>4, <2>5, <2>6 DEF WorkOK, MonthOf
<1> QED BY <1>6, <1>7, <1>8, <1>10, <1>11 DEF ArchiveInv

-----------------------------------------------------------------------------
LEMMA ArchiveInitHolds == ArchiveInit => ArchiveInv
<1> SUFFICES ASSUME ArchiveInit PROVE ArchiveInv
  OBVIOUS
<1>1. ArchiveShape
  BY DEF ArchiveInit, ArchiveShape, AllDays
<1>2. GapRowsOK /\ EntriesOK /\ FinishedOK /\ WorkOK
  BY DEF ArchiveInit, GapRowsOK, EntriesOK, FinishedOK, WorkOK
<1> QED BY <1>1, <1>2 DEF ArchiveInv

LEMMA ArchiveInductive == ArchiveInv /\ [ArchiveNext]_archiveVars => ArchiveInv'
<1> SUFFICES ASSUME ArchiveInv, [ArchiveNext]_archiveVars PROVE ArchiveInv'
  OBVIOUS
<1>1. CASE DayPasses \/ Partition \/ RefusePartition \/ IngestPartition \/ RecordPartition \/ EndRun \/ Abort
  BY <1>1, DayPassesKeeps, PartitionKeeps, LeavesKeeps, IngestKeeps, RecordKeeps, EndKeeps
<1>2. CASE \E d \in AllDays : PublishLate(d) \/ StartRun(d)
  BY <1>2, PublishKeeps, StartKeeps
<1>3. CASE UNCHANGED archiveVars
  BY <1>3, ArchiveStutters
<1> QED BY <1>1, <1>2, <1>3 DEF ArchiveNext

LEMMA ArchiveInvHolds == ArchiveSpec => []ArchiveInv
  BY ArchiveInitHolds, ArchiveInductive, PTL DEF ArchiveSpec

(***************************************************************************)
(* Days, digests and rows stay those of the archive: at most one row per   *)
(* partition, of days of its own month, and gap rows that count the days   *)
(* they span (record_partition, _cadence_gaps, _seam_gaps).                *)
(***************************************************************************)
THEOREM ArchiveTyped == ArchiveSpec => []ArchiveTypeOK
<1>1. ArchiveInv => ArchiveTypeOK
  <2> SUFFICES ASSUME ArchiveInv PROVE ArchiveTypeOK
    OBVIOUS
  <2>1. \A m \in Months : Cardinality(rows[m]) <= 1
    <3> SUFFICES ASSUME NEW m \in Months PROVE Cardinality(rows[m]) <= 1
      OBVIOUS
    <3>1. CASE rows[m] = {}
      BY <3>1, FS_EmptySet
    <3>2. CASE \E row : rows[m] = {row}
      BY <3>2, FS_Singleton
    <3> QED BY <3>1, <3>2 DEF ArchiveInv, EntriesOK
  <2>2. \A m \in Months : \A row \in rows[m] : row.days # {} /\ row.days \subseteq DaysOf(m)
    BY DEF ArchiveInv, EntriesOK, EntryOK
  <2> QED BY <2>1, <2>2 DEF ArchiveInv, ArchiveShape, GapRowsOK, GapRowOK, ArchiveTypeOK
<1> QED BY <1>1, ArchiveInvHolds, PTL

(***************************************************************************)
(* A run that ended has every day it was asked for and the host offered    *)
(* in the partition of its month, or before the first day of that month's  *)
(* row, and neither a partition skipped by _is_complete, a later run, a    *)
(* refused archive nor a crash takes the day away.                         *)
(***************************************************************************)
THEOREM FinishedRunsKept == ArchiveSpec => []FinishedRunHolds
<1>1. ArchiveInv => FinishedRunHolds
  <2> SUFFICES ASSUME ArchiveInv, NEW d \in finished
               PROVE  d \in disk[MonthOf(d)] \/ \E row \in rows[MonthOf(d)] : d < row.from
    BY DEF FinishedRunHolds
  <2>1. PICK row \in rows[MonthOf(d)] : d \in row.days \/ d < row.from
    BY DEF ArchiveInv, FinishedOK, Covered
  <2>2. MonthOf(d) \in Months
    BY MonthsTyped DEF ArchiveInv, ArchiveShape
  <2>3. row.days \subseteq disk[MonthOf(d)]
    BY <2>2 DEF ArchiveInv, EntriesOK, EntryOK
  <2> QED BY <2>1, <2>3
<1> QED BY <1>1, ArchiveInvHolds, PTL

LEMMA RowsNeverNarrow ==
  ArchiveInv /\ [ArchiveNext]_archiveVars =>
    [\A m \in Months : \A row \in rows[m] :
       /\ row.days \subseteq disk'[m]
       /\ \E new \in rows'[m] : row.days \subseteq new.days]_<<disk, rows>>
<1> SUFFICES ASSUME ArchiveInv, [ArchiveNext]_archiveVars, ~UNCHANGED <<disk, rows>>,
                    NEW m \in Months, NEW row \in rows[m]
             PROVE  row.days \subseteq disk'[m] /\ \E new \in rows'[m] : row.days \subseteq new.days
  OBVIOUS
<1>1. row.days \subseteq disk[m]
  BY EntryBounds DEF ArchiveInv
<1>2. IngestPartition \/ RecordPartition
  BY DEF ArchiveNext, archiveVars, DayPasses, PublishLate, StartRun, Partition, RefusePartition,
         EndRun, Abort
<1>3. PICK k : k = Low(work.todo)
  OBVIOUS
<1>4. k \in Months /\ InHandOK(k)
  <2>1. work.stage \in {"write", "record"}
    BY <1>2 DEF IngestPartition, RecordPartition
  <2> QED BY <1>3, <2>1, InHand
<1>5. CASE IngestPartition
  BY <1>1, <1>3, <1>4, <1>5 DEF IngestPartition, InHandOK, ArchiveInv, ArchiveShape
<1>6. CASE RecordPartition
  <2>1. PICK new : new = [from |-> Low(work.days), through |-> High(work.days), absent |-> work.absent,
                          days |-> work.days]
    OBVIOUS
  <2>2. rows' = [rows EXCEPT ![k] = {new}] /\ disk' = disk /\ new.days = work.days
    BY <1>3, <1>6, <2>1 DEF RecordPartition
  <2> QED BY <1>1, <1>4, <2>2 DEF InHandOK, ArchiveInv, ArchiveShape
<1> QED BY <1>2, <1>5, <1>6

(***************************************************************************)
(* No step takes a registered day out of the registry or its partition     *)
(* file: _require_no_narrowing compares the two ends only, and the archive *)
(* cache is why nothing between them is lost.                              *)
(***************************************************************************)
THEOREM NeverNarrows == ArchiveSpec => ArchiveNeverNarrows
<1>1. ArchiveInv /\ [ArchiveNext]_archiveVars =>
        [\A m \in Months : \A row \in rows[m] :
           /\ row.days \subseteq disk'[m]
           /\ \E new \in rows'[m] : row.days \subseteq new.days]_<<disk, rows>>
  BY RowsNeverNarrow
<1> QED BY <1>1, ArchiveInvHolds, PTL DEF ArchiveSpec, ArchiveNeverNarrows
=============================================================================
