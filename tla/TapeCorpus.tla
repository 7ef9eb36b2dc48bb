------------------------------ MODULE TapeCorpus ------------------------------
(* The trade tape of one series: data/live/tape.py spools what the socket      *)
(* delivers and seals each elapsed day into one partition file, and            *)
(* data/backfill/trade_gaps.py fills sequence gaps from REST by rewriting      *)
(* partitions.  The seal runs in a thread, so its steps interleave with the    *)
(* appends of the event loop; the repair is another process altogether.        *)
(*                                                                             *)
(* A print is its aggregate id; Time gives the instant the venue stamped.      *)
EXTENDS GapRegistry, FiniteSets

CONSTANTS Time,        \* the event time of print i, a sequence of instants
          DayLength,   \* instants in a day
          SealGrace,   \* SEAL_GRACE
          MaxLate,     \* a print arrives at most this long after its event time
          MaxClock, MaxTapeFaults, MaxTapePasses

ASSUME TapeAssumption ==
  /\ IsFiniteSet(DOMAIN Time) /\ DOMAIN Time = 1 .. Cardinality(DOMAIN Time)
  /\ Time \in [DOMAIN Time -> Nat]
  /\ \A i \in DOMAIN Time : \A j \in 1 .. i : Time[j] <= Time[i]
  /\ DayLength \in Nat \ {0} /\ MaxClock \in Nat /\ SealGrace \in Nat /\ MaxLate \in Nat
  /\ MaxLate < SealGrace      \* what the comment on SEAL_GRACE sizes it for

VARIABLES clock, link, lastId, noticed, files, spool, part, sealing, mend,
          tapeFaults, tapePasses,
          received, early      \* history: the prints delivered, and the days a
                               \* repair gave a partition before any seal did

tapeVars == <<gaps, clock, link, lastId, noticed, files, spool, part, sealing, mend,
              tapeFaults, tapePasses, received, early>>
history == <<received, early>>

Prints == DOMAIN Time
DayOf(t) == t \div DayLength
Days == 0 .. DayOf(MaxClock)
Sealers == {"connect", "poller"}   \* the seal on connect and the one on the timer
Resting == [stage |-> "idle"]
PrintsOf(d) == {i \in Prints : DayOf(Time[i]) = d}

TapeInit ==
  /\ gaps = {} /\ clock = 0 /\ link = "off" /\ lastId = 0 /\ noticed = {}
  /\ files = {} /\ spool = [d \in Days |-> {}] /\ part = [d \in Days |-> {}]
  /\ sealing = [s \in Sealers |-> Resting] /\ mend = Resting
  /\ tapeFaults = 0 /\ tapePasses = 0 /\ received = {} /\ early = {}

ClockTick == /\ clock < MaxClock /\ clock' = clock + 1
             /\ UNCHANGED <<gaps, link, lastId, noticed, files, spool, part, sealing, mend,
                            tapeFaults, tapePasses, history>>

\* Mutation of SealableFrom: a day is sealed the instant it ends.
SealableFrom_NoGrace(d) == (d + 1) * DayLength

\* _sealable_from, over the spool directory: also spools of an earlier process.
SealableFrom(d) == (d + 1) * DayLength + SealGrace
Elapsed == {d \in files : clock >= SealableFrom(d)}

\* The session opens (from a fresh process, with a fresh detector, or after a
\* drop) and seals what has elapsed; the seal before it may still be running.
OpenLink ==
  /\ link # "live"
  /\ sealing["connect"] = Resting
  /\ link' = "live"
  /\ lastId' = IF link = "off" THEN 0 ELSE lastId
  /\ sealing' = [sealing EXCEPT !["connect"] = [stage |-> "next", days |-> Elapsed]]
  /\ UNCHANGED <<gaps, clock, noticed, files, spool, part, mend, tapeFaults, tapePasses, history>>

PollSeal ==
  /\ link = "live" /\ sealing["poller"] = Resting /\ Elapsed # {}
  /\ sealing' = [sealing EXCEPT !["poller"] = [stage |-> "next", days |-> Elapsed]]
  /\ UNCHANGED <<gaps, clock, link, lastId, noticed, files, spool, part, mend, tapeFaults,
                 tapePasses, history>>

\* Mutation of SequenceGap: two prints of one instant leave a row that spans
\* nothing.
SequenceGap_ZeroLength(i) ==
  IF lastId = 0 \/ i <= lastId + 1 THEN {}
  ELSE {Gap(Time[lastId], Time[i], "sequence", i - lastId - 1)}

\* _route_agg_trade with the sequence detector, then append.  Frames are read
\* once the seal on connect is done.  Ids come in order; one may come twice.
SequenceGap(i) ==
  IF lastId = 0 \/ i <= lastId + 1 THEN {}
  ELSE {Gap(Time[lastId], IF Time[i] > Time[lastId] THEN Time[i] ELSE Time[lastId] + 1,
            "sequence", i - lastId - 1)}

\* append: the day comes from the print's own time.
Append(i) == /\ files' = files \cup {DayOf(Time[i])}
             /\ spool' = [spool EXCEPT ![DayOf(Time[i])] = @ \cup {i}]

Receive(i) ==
  /\ link = "live" /\ sealing["connect"] = Resting /\ noticed = {}
  /\ lastId <= i /\ Time[i] <= clock /\ clock <= Time[i] + MaxLate
  /\ Append(i)
  /\ noticed' = SequenceGap(i) /\ lastId' = i /\ received' = received \cup {i}
  /\ UNCHANGED <<gaps, clock, link, part, sealing, mend, tapeFaults, tapePasses, early>>

WriteNoticed ==
  /\ link = "live" /\ noticed # {}
  /\ gaps' = InsertGaps(gaps, noticed) /\ noticed' = {}
  /\ UNCHANGED <<clock, link, lastId, files, spool, part, sealing, mend, tapeFaults, tapePasses,
                 history>>

\* A transport error: the handles are closed, the spools stay.  The thread of a
\* cancelled poller runs on.
LoseLink ==
  /\ link = "live" /\ noticed = {} /\ sealing["connect"] = Resting /\ tapeFaults < MaxTapeFaults
  /\ link' = "connecting" /\ tapeFaults' = tapeFaults + 1
  /\ UNCHANGED <<gaps, clock, lastId, noticed, files, spool, part, sealing, mend, tapePasses,
                 history>>

\* The process dies; every line appended has reached the operating system.
Killed ==
  /\ link # "off" /\ tapeFaults < MaxTapeFaults
  /\ link' = "off" /\ tapeFaults' = tapeFaults + 1 /\ lastId' = 0 /\ noticed' = {}
  /\ sealing' = [s \in Sealers |-> Resting]
  /\ UNCHANGED <<gaps, clock, files, spool, part, mend, tapePasses, history>>

------------------------------------------------------------------------------
\* seal_elapsed_days, one day at a time and oldest first: read the spool, compare
\* the counts, write the partition whole, remove the spool.
Oldest(days) == CHOOSE x \in days : \A y \in days : x <= y

NextDay(s) ==
  LET days == sealing[s].days
      d    == Oldest(days)
  IN  /\ sealing[s].stage = "next" /\ (days # {} => d \in files)
      /\ sealing' = [sealing EXCEPT ![s] =
           IF days = {} THEN Resting
           ELSE [stage |-> "read", days |-> days \ {d}, day |-> d, prints |-> spool[d]]]
      /\ UNCHANGED <<gaps, clock, link, lastId, noticed, files, spool, part, mend, tapeFaults,
                     tapePasses, history>>

\* Another seal has removed the spool since the days were listed: the read raises, and
\* FileNotFoundError is one of TRANSPORT_ERRORS.  On connect the session ends of it.
SpoolGone(s) ==
  LET days == sealing[s].days
  IN  /\ sealing[s].stage = "next" /\ days # {} /\ Oldest(days) \notin files
      /\ sealing' = [sealing EXCEPT ![s] = Resting]
      /\ link' = IF s = "connect" THEN "connecting" ELSE link
      /\ UNCHANGED <<gaps, clock, lastId, noticed, files, spool, part, mend, tapeFaults,
                     tapePasses, history>>

\* _require_no_narrowing, a comparison of counts; a refusal raises, and the
\* process dies of it (at once on connect, at the end of the session otherwise).
NoNarrowing(d, prints) == Cardinality(part[d]) <= Cardinality(prints)

Compare(s) ==
  LET t == sealing[s]
  IN  /\ t.stage = "read"
      /\ IF t.prints = {} THEN /\ sealing' = [sealing EXCEPT ![s].stage = "discard"]
                               /\ UNCHANGED <<link, lastId, noticed>>
         ELSE IF NoNarrowing(t.day, t.prints)
         THEN /\ sealing' = [sealing EXCEPT ![s].stage = "write"]
              /\ UNCHANGED <<link, lastId, noticed>>
         ELSE /\ sealing' = [x \in Sealers |-> Resting]
              /\ link' = "off" /\ lastId' = 0 /\ noticed' = {}
      /\ UNCHANGED <<gaps, clock, files, spool, part, mend, tapeFaults, tapePasses, history>>

\* write_sourced_records: a batch that is empty or reaches outside its day is
\* refused; one the file already holds changes nothing; else the file is replaced.
Writable(d, prints) == prints # {} /\ prints \subseteq PrintsOf(d)

\* write_records: staged and moved into place, so the file changes at once.
WritePartition(s) ==
  LET t == sealing[s]
  IN  /\ t.stage = "write" /\ Writable(t.day, t.prints)
      /\ part' = [part EXCEPT ![t.day] = t.prints]
      /\ sealing' = [sealing EXCEPT ![s].stage = "discard"]
      /\ UNCHANGED <<gaps, clock, link, lastId, noticed, files, spool, mend, tapeFaults, tapePasses,
                     history>>

Discard(s) ==
  LET t == sealing[s]
  IN  /\ t.stage = "discard"
      /\ files' = files \ {t.day} /\ spool' = [spool EXCEPT ![t.day] = {}]
      /\ sealing' = [sealing EXCEPT ![s] = [stage |-> "next", days |-> t.days]]
      /\ UNCHANGED <<gaps, clock, link, lastId, noticed, part, mend, tapeFaults, tapePasses, history>>

------------------------------------------------------------------------------
\* TradeGapBackfiller, a process of its own.
Mendable == {g \in OpenGaps(gaps) : g.kind = "sequence"}
DaysSpanned(g) == DayOf(g.from) .. DayOf(g.upto)
HeldIn(g) == UNION {part[d] : d \in DaysSpanned(g)}
\* _left_bracket_id: the newest print held at the instant the gap starts.
Brackets(g) == {i \in HeldIn(g) : Time[i] = g.from}
LeftBracket(g) == CHOOSE i \in Brackets(g) : \A j \in Brackets(g) : j <= i

\* A day counts as sealed when its partition file exists.  The venue serves some
\* of the missing prints; what the corpus holds already is not recovered again.
\* A gap with a day unsealed is deferred, one without a bracket left alone.
CanServePrints(ids) == {i \in ids \cap Prints : Time[i] <= clock}
Recovered(g, served) == served \ HeldIn(g)

Look(g, served) ==
  /\ mend = Resting /\ tapePasses < MaxTapePasses /\ g \in Mendable
  /\ \A d \in DaysSpanned(g) : d \in Days /\ part[d] # {}
  /\ Brackets(g) # {}
  /\ LET first == LeftBracket(g) + 1
         ids   == first .. (first + g.missing - 1)
     IN  /\ served \subseteq CanServePrints(ids)
         /\ mend' = [stage |-> "read", gap |-> g, ids |-> ids,
                     held |-> HeldIn(g) \cap ids, recovered |-> Recovered(g, served)]
  /\ tapePasses' = tapePasses + 1
  /\ UNCHANGED <<gaps, clock, link, lastId, noticed, files, spool, part, sealing, tapeFaults,
                 history>>

\* _write reads the partition of each day it has a print for, and rewrites it
\* whole with the prints merged in.  With nothing recovered the pass counts the
\* gap as unrepaired and leaves its row.
ReadPartition ==
  /\ mend.stage = "read"
  /\ LET owed == {d \in Days : ~(mend.recovered \cap PrintsOf(d) \subseteq part[d])}
         d    == CHOOSE x \in owed : \A y \in owed : x <= y
     IN  mend' = IF mend.recovered = {} THEN Resting
                 ELSE IF owed = {} THEN [mend EXCEPT !.stage = "resolve"]
                 ELSE [stage |-> "write", gap |-> mend.gap, ids |-> mend.ids,
                       held |-> mend.held, recovered |-> mend.recovered,
                       day |-> d, file |-> part[d]]
  /\ UNCHANGED <<gaps, clock, link, lastId, noticed, files, spool, part, sealing, tapeFaults,
                 tapePasses, history>>

\* reconcile_trades over one day, as it was read.
MergedDay(file, recovered, d) == file \cup (recovered \cap PrintsOf(d))

Rewrite ==
  /\ mend.stage = "write"
  /\ Writable(mend.day, MergedDay(mend.file, mend.recovered, mend.day))
  /\ part' = [part EXCEPT ![mend.day] = MergedDay(mend.file, mend.recovered, mend.day)]
  /\ mend' = [stage |-> "read", gap |-> mend.gap, ids |-> mend.ids,
              held |-> mend.held, recovered |-> mend.recovered]
  /\ early' = IF mend.file = {} THEN early \cup {mend.day} ELSE early
  /\ UNCHANGED <<gaps, clock, link, lastId, noticed, files, spool, sealing, tapeFaults, tapePasses,
                 received>>

\* _residual_gaps: a run of absent ids is bounded by the instants of the prints
\* on either side of it; a side nobody has seen is a KeyError, which ends the pass.
Later(a, b) == IF a < b THEN b ELSE a
Earlier(a, b) == IF a < b THEN a ELSE b
AbsentRuns ==
  LET first == CHOOSE i \in mend.ids : \A j \in mend.ids : i <= j
  IN  Runs(mend.ids \ (mend.held \cup mend.recovered), first, first + Cardinality(mend.ids) - 1)
SidesKnown == \A run \in AbsentRuns : CanServePrints({run[2] + 1}) # {}
TapeResiduals ==
  {Gap(Time[run[1] - 1],
       Earlier(Later(Time[run[2] + 1], Time[run[1] - 1] + 1), mend.gap.upto),
       "sequence", run[2] - run[1] + 1) : run \in AbsentRuns}

ResolveTapeGap ==
  /\ mend.stage = "resolve"
  /\ gaps' = IF SidesKnown /\ CanResolve(gaps, mend.gap, TapeResiduals)
             THEN Resolved(gaps, mend.gap, TapeResiduals) ELSE gaps
  /\ mend' = Resting
  /\ UNCHANGED <<clock, link, lastId, noticed, files, spool, part, sealing, tapeFaults, tapePasses,
                 history>>

\* The pass is killed, or the endpoint refuses, or the two sources disagree.
AbandonMend ==
  /\ mend # Resting
  /\ mend' = Resting
  /\ UNCHANGED <<gaps, clock, link, lastId, noticed, files, spool, part, sealing, tapeFaults,
                 tapePasses, history>>

TapeNext ==
  \/ ClockTick \/ OpenLink \/ PollSeal \/ WriteNoticed \/ LoseLink \/ Killed
  \/ \E i \in Prints : Receive(i)
  \/ \E s \in Sealers : NextDay(s) \/ SpoolGone(s) \/ Compare(s) \/ WritePartition(s) \/ Discard(s)
  \/ \E g \in gaps, served \in SUBSET Prints : Look(g, served)
  \/ ReadPartition \/ Rewrite \/ ResolveTapeGap \/ AbandonMend

TapeSpec == TapeInit /\ [][TapeNext]_tapeVars

------------------------------------------------------------------------------
\* Type invariant.  A print is in the spool, a partition or a thread; every actor is at a step of its own.
TapeTypeOK ==
  /\ clock \in 0 .. MaxClock /\ link \in {"off", "connecting", "live"}
  /\ lastId \in Prints \cup {0} /\ received \subseteq Prints /\ files \subseteq Days
  /\ \A d \in Days : spool[d] \subseteq PrintsOf(d) /\ part[d] \subseteq PrintsOf(d)
  /\ \A d \in Days : spool[d] # {} => d \in files
  /\ \A g \in gaps \cup noticed : g.kind = "sequence" /\ g.from < g.upto /\ g.missing > 0

\* A print the socket delivered is in its day's spool or in its day's partition,
\* whatever the seal's thread, a second seal, a crash between the write and the
\* removal of the spool, and a repair rewriting the same file do.  Excepted is a
\* day a repair reached before its seal, which trade_gaps.py:29 says none does:
\* where the prints on both sides of a gap share an instant, _left_bracket_id
\* takes the right one for the left and the ids it derives run past the gap.
NoPrintLost ==
  \A i \in received : LET d == DayOf(Time[i]) IN
    d \notin early => i \in spool[d] \/ i \in part[d]

\* "A rewrite may not shrink a partition" (tape.py:31).
NeverShrinks == [][\A d \in Days : part[d] \subseteq part'[d]]_part
=============================================================================
