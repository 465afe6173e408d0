----------------------------- MODULE DbnValidation -----------------------------
(***************************************************************************)
(* What dbn.py checks of one DBN file before it is put in place: the       *)
(* metadata, the number of bytes it decompresses to, and, record by        *)
(* record, what --strict-validate asks for.  The records are read in       *)
(* chunks, and what was seen of the earlier ones is carried along; the     *)
(* definitions at the end say the same of the whole file at once.          *)
(*                                                                         *)
(* A file is a record: does its metadata decode and answer the query, does *)
(* it decompress without error, which timestamp its schema has, the        *)
(* records, and the instruments its symbology maps.                        *)
(***************************************************************************)
EXTENDS Naturals, Sequences

CONSTANTS Instrument,      \* the instrument ids that occur; 0 is the system's
          Timestamp,       \* the timestamps that occur; 0 means none
          StartNs, EndNs,  \* the UTC day of the query: [start, end)
          ChunkLength,     \* the 65,536 records of a chunk
          MinDeepCap       \* the 64 MiB every deep validation may decompress

ASSUME DbnAssumption ==
    /\ Instrument \subseteq Nat
    /\ Timestamp \subseteq Nat
    /\ StartNs \in Nat \ {0} /\ EndNs \in Nat
    /\ ChunkLength \in Nat \ {0}
    /\ MinDeepCap \in Nat

DbnFile == [answers : BOOLEAN, intact : BOOLEAN, field : {"ts_recv", "ts_event", "none"},
            records : Seq([id : Instrument, ts : Timestamp]), mapped : SUBSET Instrument]

\* What write_empty_dbn_file writes: the metadata of the query and nothing else.
EmptyFile ==
    [answers |-> TRUE, intact |-> TRUE, field |-> "none", records |-> << >>, mapped |-> {}]

SystemId == 0
Active(file, i) == file.records[i].id # SystemId

\* The header and the metadata are a unit of size, and so is every record.
DecompressedSize(file) == 1 + Len(file.records)

-----------------------------------------------------------------------------
(* validate_dbn_metadata *)

\* _deep_validate_cap: twice what the estimate allots to the partition.
DeepCap(bytes) == IF 2 * bytes < MinDeepCap THEN MinDeepCap ELSE 2 * bytes

\* _read_metadata and the comparison with the query; a deep validation reads on to
\* the end, and so does the budget check of a strict one.
MetadataPasses(file, exhaustive, bytes) ==
    /\ file.answers
    /\ exhaustive => file.intact /\ DecompressedSize(file) <= DeepCap(bytes)

\* _validate_records: the chunk after the first `done` records, ...
ChunkAfter(file, done) == {i \in 1..Len(file.records) : done < i /\ i <= done + ChunkLength}

\* ... which is passed over if it has no timestamps, ...
Timed(file, chunk) == {i \in chunk : file.records[i].ts # 0}
Untimed(file, chunk) == file.field = "none" \/ Timed(file, chunk) = {}

\* ... must lie in the day, ...
InDay(file, chunk) ==
    \A i \in Timed(file, chunk) : StartNs <= file.records[i].ts /\ file.records[i].ts < EndNs

\* ... and must not go back behind the last record of the same instrument.  `last`
\* is last_ts_recv_by_instrument, 0 where there is none.
Of(file, chunk, id) == {i \in chunk : file.records[i].id = id}

InOrder_Mutant(file, chunk, last) ==
    \A i, j \in chunk :
        i < j /\ Active(file, i) /\ file.records[i].id = file.records[j].id =>
            file.records[i].ts <= file.records[j].ts

InOrder(file, chunk, last) ==
    \A i \in chunk : Active(file, i) =>
        /\ last[file.records[i].id] <= file.records[i].ts
        /\ \A j \in Of(file, chunk, file.records[i].id) :
               i < j => file.records[i].ts <= file.records[j].ts

ChunkPasses(file, chunk, last) ==
    \/ Untimed(file, chunk)
    \/ /\ InDay(file, chunk)
       /\ file.field = "ts_recv" => InOrder(file, chunk, last)

Newest(file, chunk, id) ==
    CHOOSE i \in Of(file, chunk, id) : \A j \in Of(file, chunk, id) : j <= i

LastAfter(file, chunk, last) ==
    IF file.field # "ts_recv" \/ Untimed(file, chunk) THEN last
    ELSE [id \in Instrument |->
              IF id = SystemId \/ Of(file, chunk, id) = {} THEN last[id]
              ELSE file.records[Newest(file, chunk, id)].ts]

SeenAfter(file, chunk, seen) ==
    seen \cup {file.records[i].id : i \in {j \in chunk : Active(file, j)}}

\* After the last chunk: every instrument seen is one the symbology maps.
SymbologyPasses(file, seen) ==
    file.records = << >> \/ (file.mapped # {} /\ seen \subseteq file.mapped)

-----------------------------------------------------------------------------
(* ... and what it amounts to *)

Ordered(file, indexes) ==
    \A i, j \in indexes :
        i < j /\ Active(file, i) /\ file.records[i].id = file.records[j].id =>
            file.records[i].ts <= file.records[j].ts

Covered(file) ==
    file.records # << >> =>
        /\ file.mapped # {}
        /\ \A i \in DOMAIN file.records : Active(file, i) => file.records[i].id \in file.mapped

\* Every timestamp of an instrument lies in the day, every instrument is mapped, and
\* the timestamps `indexes` selects never go back.
Sound(file, indexes) ==
    /\ Covered(file)
    /\ file.field # "none" => InDay(file, {i \in DOMAIN file.records : Active(file, i)})
    /\ file.field = "ts_recv" => Ordered(file, indexes)

\* Instrument 0 is a sentinel to the README, whatever its timestamps; InDay, as the
\* code, refuses a file for them.
SystemInDay(file) ==
    file.field # "none" => InDay(file, {i \in DOMAIN file.records : ~Active(file, i)})
=============================================================================
