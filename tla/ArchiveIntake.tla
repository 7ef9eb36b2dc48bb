------------------------------ MODULE ArchiveIntake ------------------------------
(* How one archive partition enters the corpus: the checksummed download and   *)
(* its cache (data/archive.py), the declared format of its date                *)
(* (data/format_resolver.py), the row parsers with their counted rejections     *)
(* (data/loaders), the ordered gates (data/quality) and the atomic partition    *)
(* write (data/parquet). A version is one publication of a day's file, told     *)
(* apart by its digest; Torn stands for any bytes that are none of them. A row  *)
(* has the instant it happened and the reason its other fields are refused.    *)
EXTENDS Integers, FiniteSets, SequencesExt

CONSTANTS Dates,                 \* the days of the partition
          DayTicks,              \* instants in a day
          Cutover,               \* SPOT_MICROSECOND_CUTOVER
          Scale,                 \* ticks of each epoch unit per instant
          EarliestPlausible,     \* EARLIEST_PLAUSIBLE_UTC
          BarTicks,              \* the bar duration
          Versions,              \* Versions[d]: what the host may publish for a day
          Files,                 \* Files[v]: the header and the rows of a version
          ResidualPer, OhlcPer,  \* one rejected row admitted in so many
          MaxAttempts,           \* MAX_DOWNLOAD_ATTEMPTS
          MaxRuns,               \* bound on ingestion runs
          MaxChanges             \* bound on republications and rotted files

ASSUME DatesAssumption == Dates \subseteq Nat /\ Dates # {} /\ DayTicks > 0 /\ BarTicks > 0
ASSUME ScaleAssumption == Scale["ms"] = 1 /\ Scale["us"] > Scale["ms"]
ASSUME CeilingAssumption == OhlcPer >= ResidualPer /\ ResidualPer > 0 /\ MaxAttempts > 0

VARIABLES dataset,    \* klines: one partition a month; trades: boolean columns, no cadence
          published,  \* the version the host serves for each day, or Absent
          siblings,   \* the version whose digest its .CHECKSUM file names
          disk,       \* cached bytes and cached sibling of each day
          fetch,      \* the fetch under way
          fetched,    \* the days this run has fetched, with the digest each was given
          corpus,     \* the partition file
          runs, changes

intakeVars == <<dataset, published, siblings, disk, fetch, fetched, corpus, runs, changes>>

Absent == "absent"
Torn == "torn"
FetchIdle == [step |-> "idle"]
NoPartition == [rows |-> <<>>, gaps |-> {}, from |-> <<>>]

IntakeInit ==
  /\ dataset \in {"klines", "trades"}
  /\ published \in {p \in [Dates -> {Absent} \cup UNION {Versions[d] : d \in Dates}] :
                      \A d \in Dates : p[d] \in {Absent} \cup Versions[d]}
  /\ siblings = published
  /\ disk = [d \in Dates |-> [bytes |-> Absent, sibling |-> Absent]]
  /\ fetch = FetchIdle /\ fetched = <<>> /\ corpus = NoPartition /\ runs = 0 /\ changes = 0

------------------------------------------------------------------------------
\* The host publishes a day anew or withdraws it; its checksum file follows separately.
Republish(d, version) ==
  /\ published[d] # version /\ published' = [published EXCEPT ![d] = version]
  /\ changes < MaxChanges /\ changes' = changes + 1
  /\ UNCHANGED <<dataset, siblings, disk, fetch, fetched, corpus, runs>>
RepublishSibling(d) ==
  /\ siblings' = [siblings EXCEPT ![d] = published[d]]
  /\ UNCHANGED <<dataset, published, disk, fetch, fetched, corpus, runs, changes>>

StartIntake ==
  /\ fetch.step = "idle" /\ fetched = <<>> /\ runs < MaxRuns
  /\ runs' = runs + 1
  /\ fetch' = [step |-> "cache", day |-> Min(Dates), attempt |-> 1]
  /\ UNCHANGED <<dataset, published, siblings, disk, fetched, corpus, changes>>

Fail == fetch' = FetchIdle /\ fetched' = <<>>
NextDay(got) ==
  /\ fetched' = got
  /\ fetch' = IF fetch.day = Max(Dates) THEN [step |-> "ingest"]
              ELSE [step |-> "cache", day |-> fetch.day + 1, attempt |-> 1]
Got(digest) == Append(fetched, [day |-> fetch.day, digest |-> digest])

\* _read_cache: both halves on disk, rehashed on every hit; disagreement is refused.
ReadCache ==
  /\ fetch.step = "cache"
  /\ LET held == disk[fetch.day]
     IN IF held.bytes = Absent \/ held.sibling = Absent
        THEN fetch' = [fetch EXCEPT !.step = "sibling"] /\ UNCHANGED fetched
        ELSE IF held.bytes = held.sibling THEN NextDay(Got(held.sibling)) ELSE Fail
  /\ UNCHANGED <<dataset, published, siblings, disk, corpus, runs, changes>>
\* The sibling is fetched anew on each attempt; an unpublished day is an answer.
ReadSibling ==
  /\ fetch.step = "sibling"
  /\ IF siblings[fetch.day] = Absent THEN NextDay(fetched)
     ELSE fetch' = [step |-> "download", day |-> fetch.day, attempt |-> fetch.attempt,
                    expected |-> siblings[fetch.day]] /\ UNCHANGED fetched
  /\ UNCHANGED <<dataset, published, siblings, disk, corpus, runs, changes>>
Download(bytes) ==
  /\ fetch.step = "download"
  /\ bytes \in {published[fetch.day], Torn}
  /\ CASE bytes = Absent -> NextDay(fetched) /\ UNCHANGED disk
       [] bytes = fetch.expected ->
            /\ disk' = [disk EXCEPT ![fetch.day].bytes = bytes]
            /\ fetch' = [fetch EXCEPT !.step = "keep"] /\ UNCHANGED fetched
       [] OTHER ->
            /\ IF fetch.attempt < MaxAttempts
               THEN fetch' = [step |-> "sibling", day |-> fetch.day, attempt |-> fetch.attempt + 1]
                    /\ UNCHANGED fetched
               ELSE Fail
            /\ UNCHANGED disk
  /\ UNCHANGED <<dataset, published, siblings, corpus, runs, changes>>
\* The sibling is written beside the bytes only after they are in place.
KeepSibling ==
  /\ fetch.step = "keep"
  /\ disk' = [disk EXCEPT ![fetch.day].sibling = fetch.expected]
  /\ NextDay(Got(fetch.expected))
  /\ UNCHANGED <<dataset, published, siblings, corpus, runs, changes>>

\* The process is killed, or the bytes on disk rot.
Crash ==
  /\ fetch # FetchIdle /\ Fail
  /\ UNCHANGED <<dataset, published, siblings, disk, corpus, runs, changes>>
Rot(d) ==
  /\ disk[d].bytes # Absent /\ disk' = [disk EXCEPT ![d].bytes = Torn]
  /\ changes < MaxChanges /\ changes' = changes + 1
  /\ UNCHANGED <<dataset, published, siblings, fetch, fetched, corpus, runs>>

------------------------------------------------------------------------------
\* resolve_archive_format: the unit is declared for the archive's own date.
DeclaredUnit(day) == IF day < Cutover THEN "ms" ELSE "us"
Now == (Max(Dates) + 1) * DayTicks
Raw(row) == row.event * Scale[row.unit]
\* epoch_to_utc, read under a unit and refused outside the plausible range.
Plausible(raw, unit) ==
  /\ EarliestPlausible * Scale[unit] <= raw /\ raw < (Now + DayTicks) * Scale[unit]
ReadEpoch(raw, unit) == raw \div Scale[unit]

FlawsRead == {"field_count", "decimal_unparseable", "price_not_positive"} \cup
             (IF dataset = "klines" THEN {"ohlc_not_bracketing", "volume_negative"} ELSE {"boolean_unrecognised"})
\* The row parsers: field count, then epoch, then the values of the dataset's columns.
RejectionOf(row, unit) ==
  CASE row.flaw = "field_count" -> row.flaw
    [] row.flaw # "field_count" /\ ~Plausible(Raw(row), unit) -> "epoch_out_of_range"
    [] OTHER -> IF row.flaw \in FlawsRead THEN row.flaw ELSE "none"

RowsOf(version) == Files[version].rows
Accepted(version, unit) ==
  LET kept == SelectSeq(RowsOf(version), LAMBDA r : RejectionOf(r, unit) = "none")
  IN [i \in DOMAIN kept |-> [event |-> ReadEpoch(Raw(kept[i]), unit), mark |-> kept[i].mark]]
Rejections(version, unit, reasons) ==
  Cardinality({i \in DOMAIN RowsOf(version) : RejectionOf(RowsOf(version)[i], unit) \in reasons})
WithinCeiling(version, unit, reasons, per) ==
  Rejections(version, unit, reasons) * per <= Len(RowsOf(version))

Monotone(rows) == \A i \in 2..Len(rows) : rows[i - 1].event <= rows[i].event
\* assert_residual_rejections_within_ceiling: every reason no other gate owns.
Residual == {"field_count", "epoch_out_of_range", "decimal_unparseable", "price_not_positive"}
HasHeader == FALSE  \* spot archives open with data

\* gate_archive, gate by gate; nothing is kept of a file any of them refuses.
GatePasses(bytes, digest, day) ==
  /\ bytes = digest /\ bytes # Torn
  /\ Files[bytes].header = HasHeader
  /\ LET unit == DeclaredUnit(day)
     IN /\ RowsOf(bytes) # <<>> => Plausible(Raw(RowsOf(bytes)[1]), unit)
        /\ Monotone(Accepted(bytes, unit))
        /\ WithinCeiling(bytes, unit, {"boolean_unrecognised"}, ResidualPer)
        /\ WithinCeiling(bytes, unit, {"ohlc_not_bracketing"}, OhlcPer)
        /\ Rejections(bytes, unit, {"volume_negative"}) = 0
        /\ WithinCeiling(bytes, unit, Residual, ResidualPer)

\* detect_cadence_gaps, over the whole partition: a gap may span two of its days.
CadenceGaps(rows) ==
  {[after |-> rows[i - 1].event, before |-> rows[i].event,
    missing |-> (rows[i].event - rows[i - 1].event + BarTicks - 1) \div BarTicks - 1] :
     i \in {j \in 2..Len(rows) : rows[j].event - rows[j - 1].event > BarTicks}}

InsidePartition(rows) ==
  \A i \in DOMAIN rows : rows[i].event \div DayTicks \in {fetched[k].day : k \in DOMAIN fetched}

PartitionIsOrdered(rows) == Monotone(rows)
\* write_sourced_records: nothing empty is written, and the partition is replaced in one
\* rename unless it already holds the same digest.
WriteRecords(rows) ==
  corpus' = IF rows = <<>> \/ ~InsidePartition(rows) THEN corpus
            ELSE [rows |-> rows, gaps |-> IF dataset = "klines" THEN CadenceGaps(rows) ELSE {},
                  from |-> fetched]

\* ingest_partition: the files are read again from disk and gated in date order.
IngestPartition ==
  /\ fetch.step = "ingest"
  /\ LET bytes(k) == disk[fetched[k].day].bytes
         passed == \A k \in DOMAIN fetched : GatePasses(bytes(k), fetched[k].digest, fetched[k].day)
         rows == FlattenSeq([k \in DOMAIN fetched |-> Accepted(bytes(k), DeclaredUnit(fetched[k].day))])
     IN IF fetched # <<>> /\ passed /\ PartitionIsOrdered(rows) THEN WriteRecords(rows)
        ELSE UNCHANGED corpus
  /\ Fail
  /\ UNCHANGED <<dataset, published, siblings, disk, runs, changes>>

IntakeNext ==
  \/ StartIntake \/ ReadCache \/ ReadSibling \/ KeepSibling \/ Crash \/ IngestPartition
  \/ \E d \in Dates : RepublishSibling(d) \/ Rot(d) \/ \E v \in {Absent} \cup Versions[d] : Republish(d, v)
  \/ \E bytes \in {Torn, Absent} \cup UNION {Versions[d] : d \in Dates} : Download(bytes)

------------------------------------------------------------------------------
\* Type invariant.
IntakeTyped ==
  /\ dataset \in {"klines", "trades"} /\ runs \in 0..MaxRuns
  /\ DOMAIN disk = Dates /\ DOMAIN published = Dates /\ DOMAIN siblings = Dates
  /\ fetch.step \in {"idle", "cache", "sibling", "download", "keep", "ingest"}
  /\ Len(fetched) <= Cardinality(Dates) /\ corpus.gaps # {} => dataset = "klines"

\* What the partition holds is what the exchange published: every record is a sound row of
\* the one publication of its day whose digest was verified, at the instant it happened in
\* whatever unit it was written in, and a row is left out only under its declared ceiling.
CorpusIsWhatWasPublished ==
  \A k \in DOMAIN corpus.from :
    LET day == corpus.from[k].day
        rows == RowsOf(corpus.from[k].digest)
        plain(r) == [event |-> r.event, mark |-> r.mark]
        held == {r \in Range(corpus.rows) : r.event \div DayTicks = day}
        lost == {r \in Range(rows) : plain(r) \notin held}
    IN /\ held \subseteq {plain(r) : r \in {o \in Range(rows) : o.flaw \notin FlawsRead}}
       /\ Cardinality(lost) * ResidualPer <= 2 * Len(rows)
       /\ dataset = "klines" => \A r \in lost : r.flaw # "volume_negative"

\* No bar goes missing in silence: every instant of the bar lattice between the first and
\* the last record is held or lies inside one reported gap, which counts it.
HolesAreReported ==
  LET rows == corpus.rows
      heldEvents == {rows[i].event : i \in DOMAIN rows}
      inside(g) == {t \in g.after + 1..g.before - 1 : (t - rows[1].event) % BarTicks = 0}
  IN dataset = "klines" /\ rows # <<>> =>
       /\ \A t \in rows[1].event..rows[Len(rows)].event :
            (t - rows[1].event) % BarTicks = 0 /\ t \notin heldEvents => \E g \in corpus.gaps : t \in inside(g)
       /\ \A g \in corpus.gaps : inside(g) \cap heldEvents = {} /\ g.missing = Cardinality(inside(g))

IntakeHolds == CorpusIsWhatWasPublished /\ HolesAreReported
==============================================================================
