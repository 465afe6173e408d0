------------------------------- MODULE DbnProofs -------------------------------
(***************************************************************************)
(* What the chunked validation of dbn.py amounts to, for every file, day   *)
(* and length of chunks: the state carried from chunk to chunk describes   *)
(* the records read so far, and with it each chunk is decided as it would  *)
(* be decided with the whole file at hand.                                 *)
(***************************************************************************)
EXTENDS DbnValidation, FiniteSetTheorems, SequenceTheorems, WellFoundedInduction, TLAPS

\* The records read so far are accounted for.
Carried(file, done, last, seen) ==
    /\ seen = {file.records[i].id : i \in {j \in 1..done : Active(file, j)}}
    /\ file.field # "none" => InDay(file, 1..done)
    /\ file.field = "ts_recv" =>
           /\ Ordered(file, Timed(file, 1..done))
           /\ \A i \in 1..done : Active(file, i) =>
                  file.records[i].ts <= last[file.records[i].id]
    /\ \A id \in Instrument : last[id] # 0 =>
           \E i \in 1..done : /\ file.records[i].id = id /\ Active(file, i)
                              /\ file.records[i].ts = last[id]

-----------------------------------------------------------------------------
(* Files and chunks *)

\* Instruments and timestamps are numbers.
LEMMA FileTypes ==
    ASSUME NEW file \in DbnFile
    PROVE  /\ Len(file.records) \in Nat
           /\ DOMAIN file.records = 1..Len(file.records)
           /\ \A i \in 1..Len(file.records) :
                  /\ file.records[i].id \in Instrument /\ file.records[i].id \in Nat
                  /\ file.records[i].ts \in Timestamp /\ file.records[i].ts \in Nat
<1>1. file.records \in Seq([id : Instrument, ts : Timestamp])
  BY DEF DbnFile
<1>2. /\ Len(file.records) \in Nat
      /\ DOMAIN file.records = 1..Len(file.records)
      /\ \A i \in 1..Len(file.records) : file.records[i] \in [id : Instrument, ts : Timestamp]
  BY <1>1, LenProperties, ElementOfSeq
<1>3. QED
  BY <1>2, DbnAssumption

\* A chunk is the next interval of records, and its size moves `done` to its end.
LEMMA ChunkInterval ==
    ASSUME NEW file \in DbnFile, NEW done \in Nat, done <= Len(file.records),
           ChunkAfter(file, done) # {}
    PROVE  \E e \in Nat :
               /\ done < e /\ e <= Len(file.records)
               /\ ChunkAfter(file, done) = (done + 1)..e
               /\ done + Cardinality(ChunkAfter(file, done)) = e
<1> DEFINE n == Len(file.records)
           e == IF done + ChunkLength < n THEN done + ChunkLength ELSE n
<1>1. n \in Nat /\ ChunkLength \in Nat \ {0}
  BY FileTypes, DbnAssumption
<1>2. done < n
  BY <1>1 DEF ChunkAfter
<1>3. e \in Nat /\ done < e /\ e <= n
  BY <1>1, <1>2
<1>4. ChunkAfter(file, done) = (done + 1)..e
  BY <1>1, <1>2 DEF ChunkAfter
<1>5. Cardinality((done + 1)..e) = e - (done + 1) + 1
  <2>1. done + 1 \in Int /\ e \in Int /\ done + 1 <= e
    BY <1>3
  <2>2. Cardinality((done + 1)..e) = IF done + 1 > e THEN 0 ELSE e - (done + 1) + 1
    BY ONLY <2>1, FS_Interval
  <2>3. QED
    BY ONLY <2>1, <2>2
<1>6. done + Cardinality(ChunkAfter(file, done)) = e
  BY <1>3, <1>4, <1>5
<1>7. QED
  BY <1>3, <1>4, <1>6

\* A set of positions that is not empty has a last one.
LEMMA LastExists ==
    ASSUME NEW n \in Nat, NEW S \in SUBSET (1..n), S # {}
    PROVE  \E i \in S : \A j \in S : j <= i
<1> DEFINE T == {n - i : i \in S}
<1>1. T \subseteq Nat /\ T # {}
  <2>1. \A i \in S : n - i \in Nat
    OBVIOUS
  <2>2. QED
    BY <2>1
<1>2. PICK x \in T : \A y \in T : ~ (<<y, x>> \in OpToRel(<, Nat))
  BY <1>1, NatLessThanWellFounded, WFMin
<1>3. \A y \in T : ~ (y < x)
  BY <1>1, <1>2 DEF OpToRel
<1>4. PICK i \in S : x = n - i
  OBVIOUS
<1>5. ASSUME NEW j \in S
      PROVE  j <= i
  <2>1. n - j \in T
    OBVIOUS
  <2>2. ~ (n - j < n - i)
    BY <1>3, <1>4, <2>1
  <2>3. QED
    BY <2>2
<1>6. QED
  BY <1>5

\* The last record of an instrument in a chunk.
LEMMA NewestIsLast ==
    ASSUME NEW file, NEW n \in Nat, NEW chunk \in SUBSET (1..n), NEW id,
           Of(file, chunk, id) # {}
    PROVE  /\ Newest(file, chunk, id) \in Of(file, chunk, id)
           /\ \A j \in Of(file, chunk, id) : j <= Newest(file, chunk, id)
<1>1. Of(file, chunk, id) \in SUBSET (1..n)
  BY DEF Of
<1>2. \E i \in Of(file, chunk, id) : \A j \in Of(file, chunk, id) : j <= i
  BY <1>1, LastExists
<1>3. QED
  BY <1>2 DEF Newest

-----------------------------------------------------------------------------
(* Carrying on *)

\* Before the first chunk nothing is carried.
LEMMA CarriedAtFirst ==
    ASSUME NEW file \in DbnFile, NEW last, \A id \in Instrument : last[id] = 0
    PROVE  Carried(file, 0, last, {})
<1>1. 1..0 = {}
  OBVIOUS
<1>2. QED
  BY <1>1 DEF Carried, InDay, Ordered, Timed

\* A chunk that passes leaves the state describing one chunk more.
LEMMA CarryOn ==
    ASSUME NEW file \in DbnFile, NEW done \in Nat, done <= Len(file.records),
           NEW last \in [Instrument -> Nat], NEW seen,
           Carried(file, done, last, seen),
           NEW e \in Nat, done < e, e <= Len(file.records),
           NEW chunk, chunk = (done + 1)..e,
           ChunkPasses(file, chunk, last)
    PROVE  Carried(file, e, LastAfter(file, chunk, last), SeenAfter(file, chunk, seen))
<1> DEFINE ts(i) == file.records[i].ts
           idOf(i) == file.records[i].id
           after == LastAfter(file, chunk, last)
<1>1. /\ \A i \in 1..e : i \in 1..Len(file.records)
      /\ \A i \in 1..e : idOf(i) \in Instrument /\ ts(i) \in Nat
      /\ \A i : i \in 1..e <=> i \in 1..done \/ i \in chunk
      /\ chunk \in SUBSET (1..e)
      /\ \A i \in 1..done, j \in chunk : i < j
  BY FileTypes
<1>2. SeenAfter(file, chunk, seen) = {idOf(i) : i \in {j \in 1..e : Active(file, j)}}
  BY <1>1 DEF Carried, SeenAfter
<1>3. ASSUME file.field # "none"
      PROVE  InDay(file, 1..e)
  <2>1. InDay(file, 1..done)
    BY <1>3 DEF Carried
  <2>2. InDay(file, chunk)
    BY <1>3 DEF ChunkPasses, Untimed, InDay
  <2>3. QED
    BY <1>1, <2>1, <2>2 DEF InDay, Timed
<1>4. CASE file.field # "ts_recv" \/ Untimed(file, chunk)
  <2>1. after = last
    BY <1>4 DEF LastAfter
  <2>2. ASSUME file.field = "ts_recv"
        PROVE  Timed(file, chunk) = {}
    BY <1>4, <2>2 DEF Untimed
  <2>3. ASSUME file.field = "ts_recv"
        PROVE  Ordered(file, Timed(file, 1..e))
    <3>1. Timed(file, 1..e) = Timed(file, 1..done)
      BY <1>1, <2>2, <2>3 DEF Timed
    <3>2. QED
      BY <2>3, <3>1 DEF Carried
  <2>4. ASSUME file.field = "ts_recv", NEW i \in 1..e, Active(file, i)
        PROVE  ts(i) <= last[idOf(i)]
    <3>1. CASE i \in 1..done
      BY <2>4, <3>1 DEF Carried
    <3>2. CASE i \in chunk
      <4>1. ts(i) = 0
        BY <2>2, <2>4, <3>2 DEF Timed
      <4>2. last[idOf(i)] \in Nat
        BY <1>1
      <4>3. QED
        BY <4>1, <4>2
    <3>3. QED
      BY <1>1, <3>1, <3>2
  <2>5. ASSUME NEW id \in Instrument, last[id] # 0
        PROVE  \E i \in 1..e : idOf(i) = id /\ Active(file, i) /\ ts(i) = last[id]
    BY <1>1, <2>5 DEF Carried
  <2>6. QED
    BY <1>2, <1>3, <2>1, <2>3, <2>4, <2>5 DEF Carried
<1>5. CASE file.field = "ts_recv" /\ ~Untimed(file, chunk)
  <2>1. InOrder(file, chunk, last)
    BY <1>5 DEF ChunkPasses
  <2>2. /\ Ordered(file, Timed(file, 1..done))
        /\ \A i \in 1..done : Active(file, i) => ts(i) <= last[idOf(i)]
        /\ \A id \in Instrument : last[id] # 0 =>
               \E i \in 1..done : idOf(i) = id /\ Active(file, i) /\ ts(i) = last[id]
    BY <1>5 DEF Carried
  <2>3. \A i \in chunk : Active(file, i) => last[idOf(i)] <= ts(i)
    BY <2>1 DEF InOrder
  <2>4. \A i, j \in chunk : Active(file, i) /\ idOf(i) = idOf(j) /\ i < j => ts(i) <= ts(j)
    BY <2>1 DEF InOrder, Of
  <2>5. \A id \in Instrument :
            after[id] = IF id = SystemId \/ Of(file, chunk, id) = {} THEN last[id]
                        ELSE ts(Newest(file, chunk, id))
    BY <1>5 DEF LastAfter
  <2>6. \A id : Of(file, chunk, id) # {} =>
            /\ Newest(file, chunk, id) \in chunk
            /\ idOf(Newest(file, chunk, id)) = id
            /\ \A i \in chunk : idOf(i) = id => i <= Newest(file, chunk, id)
    BY <1>1, NewestIsLast DEF Of
  <2>7. Ordered(file, Timed(file, 1..e))
    <3>1. SUFFICES ASSUME NEW i \in Timed(file, 1..e), NEW j \in Timed(file, 1..e),
                          i < j, Active(file, i), idOf(i) = idOf(j)
                   PROVE  ts(i) <= ts(j)
      BY DEF Ordered
    <3>2. i \in 1..e /\ j \in 1..e /\ ts(i) # 0 /\ ts(j) # 0
      BY DEF Timed
    <3>3. Active(file, j)
      BY <3>1 DEF Active
    <3>4. CASE i \in 1..done /\ j \in 1..done
      BY <2>2, <3>1, <3>2, <3>4 DEF Ordered, Timed
    <3>5. CASE i \in 1..done /\ j \in chunk
      <4>1. ts(i) <= last[idOf(i)] /\ last[idOf(i)] <= ts(j)
        BY <2>2, <2>3, <3>1, <3>3, <3>5
      <4>2. ts(i) \in Nat /\ ts(j) \in Nat /\ last[idOf(i)] \in Nat
        BY <1>1, <3>2
      <4>3. QED
        BY <4>1, <4>2
    <3>6. CASE i \in chunk /\ j \in chunk
      BY <2>4, <3>1, <3>6
    <3>7. ~(i \in chunk /\ j \in 1..done)
      BY <1>1, <3>1, <3>2
    <3>8. QED
      BY <1>1, <3>2, <3>4, <3>5, <3>6, <3>7
  <2>8. ASSUME NEW i \in 1..e, Active(file, i)
        PROVE  ts(i) <= after[idOf(i)]
    <3> DEFINE id == idOf(i)
    <3>1. id \in Instrument /\ id # SystemId
      BY <1>1, <2>8 DEF Active
    <3>2. CASE Of(file, chunk, id) = {}
      <4>1. i \notin chunk
        BY <3>2 DEF Of
      <4>2. QED
        BY <1>1, <2>2, <2>5, <2>8, <3>1, <3>2, <4>1
    <3>3. CASE Of(file, chunk, id) # {}
      <4> DEFINE k == Newest(file, chunk, id)
      <4>1. after[id] = ts(k) /\ k \in chunk /\ idOf(k) = id
        BY <2>5, <2>6, <3>1, <3>3
      <4>2. Active(file, k)
        BY <3>1, <4>1 DEF Active
      <4>3. CASE i \in 1..done
        <5>1. ts(i) <= last[id] /\ last[id] <= ts(k)
          BY <2>2, <2>3, <2>8, <4>1, <4>2, <4>3
        <5>2. ts(i) \in Nat /\ ts(k) \in Nat /\ last[id] \in Nat
          BY <1>1, <3>1, <4>1
        <5>3. QED
          BY <4>1, <5>1, <5>2
      <4>4. CASE i \in chunk
        <5>1. i <= k /\ i \in Nat /\ k \in Nat /\ ts(i) \in Nat
          BY <1>1, <2>6, <3>3, <4>1, <4>4
        <5>2. i = k \/ i < k
          BY <5>1
        <5>3. QED
          BY <2>4, <2>8, <4>1, <4>4, <5>1, <5>2
      <4>5. QED
        BY <1>1, <4>3, <4>4
    <3>4. QED
      BY <3>2, <3>3
  <2>9. ASSUME NEW id \in Instrument, after[id] # 0
        PROVE  \E i \in 1..e : idOf(i) = id /\ Active(file, i) /\ ts(i) = after[id]
    <3>1. CASE id = SystemId \/ Of(file, chunk, id) = {}
      <4>1. after[id] = last[id]
        BY <2>5, <3>1
      <4>2. PICK i \in 1..done : idOf(i) = id /\ Active(file, i) /\ ts(i) = last[id]
        BY <2>2, <2>9, <4>1
      <4>3. i \in 1..e
        BY <1>1
      <4>4. QED
        BY <4>1, <4>2, <4>3
    <3>2. CASE id # SystemId /\ Of(file, chunk, id) # {}
      BY <1>1, <2>5, <2>6, <3>2 DEF Active
    <3>3. QED
      BY <3>1, <3>2
  <2>10. QED
    BY <1>2, <1>3, <2>7, <2>8, <2>9 DEF Carried
<1>6. QED
  BY <1>4, <1>5

\* What is carried stays within its types.
LEMMA CarriedTypes ==
    ASSUME NEW file \in DbnFile, NEW chunk \in SUBSET (1..Len(file.records)),
           NEW last \in [Instrument -> Timestamp \cup {0}], NEW seen \in SUBSET Instrument
    PROVE  /\ LastAfter(file, chunk, last) \in [Instrument -> Timestamp \cup {0}]
           /\ SeenAfter(file, chunk, seen) \in SUBSET Instrument
<1> DEFINE n == Len(file.records)
<1>1. /\ n \in Nat
      /\ \A i \in 1..n : file.records[i].id \in Instrument /\ file.records[i].ts \in Timestamp
  BY FileTypes
<1>2. SeenAfter(file, chunk, seen) \in SUBSET Instrument
  BY <1>1 DEF SeenAfter
<1>3. ASSUME NEW id \in Instrument, Of(file, chunk, id) # {}
      PROVE  file.records[Newest(file, chunk, id)].ts \in Timestamp
  <2>1. Newest(file, chunk, id) \in Of(file, chunk, id)
    BY <1>1, <1>3, NewestIsLast
  <2>2. Newest(file, chunk, id) \in 1..n
    BY <2>1 DEF Of
  <2>3. QED
    BY <1>1, <2>2
<1>4. LastAfter(file, chunk, last) \in [Instrument -> Timestamp \cup {0}]
  BY <1>3 DEF LastAfter
<1>5. QED
  BY <1>2, <1>4

-----------------------------------------------------------------------------
(* The verdict *)

\* No chunk of a sound file is refused, wherever the chunks before it have ended,
\* provided the records of instrument 0 lie in the day too.
LEMMA SoundPasses ==
    ASSUME NEW file \in DbnFile, NEW done \in Nat, done <= Len(file.records),
           NEW last \in [Instrument -> Nat], NEW seen,
           Carried(file, done, last, seen),
           Sound(file, DOMAIN file.records), SystemInDay(file)
    PROVE  ChunkPasses(file, ChunkAfter(file, done), last)
<1> DEFINE n == Len(file.records)
           chunk == ChunkAfter(file, done)
           ts(i) == file.records[i].ts
           idOf(i) == file.records[i].id
<1>1. /\ n \in Nat /\ DOMAIN file.records = 1..n
      /\ \A i \in 1..n : idOf(i) \in Instrument /\ ts(i) \in Nat
  BY FileTypes
<1>2. chunk \in SUBSET (1..n) /\ \A i \in chunk : done < i
  BY DEF ChunkAfter
<1>3. SUFFICES ASSUME ~Untimed(file, chunk)
               PROVE  /\ InDay(file, chunk)
                      /\ file.field = "ts_recv" => InOrder(file, chunk, last)
  BY DEF ChunkPasses
<1>4. InDay(file, chunk)
  BY <1>1, <1>2, <1>3 DEF Sound, SystemInDay, Untimed, InDay, Timed
<1>5. ASSUME file.field = "ts_recv"
      PROVE  InOrder(file, chunk, last)
  <2>1. \A i, j \in 1..n : i < j /\ Active(file, i) /\ idOf(i) = idOf(j) => ts(i) <= ts(j)
    BY <1>1, <1>5 DEF Sound, Ordered
  <2>2. ASSUME NEW i \in chunk, Active(file, i)
        PROVE  last[idOf(i)] <= ts(i)
    <3>1. idOf(i) \in Instrument /\ ts(i) \in Nat /\ last[idOf(i)] \in Nat
      BY <1>1, <1>2
    <3>2. CASE last[idOf(i)] = 0
      BY <3>1, <3>2
    <3>3. CASE last[idOf(i)] # 0
      <4>1. PICK k \in 1..done : idOf(k) = idOf(i) /\ Active(file, k) /\ ts(k) = last[idOf(i)]
        BY <3>1, <3>3 DEF Carried
      <4>2. k < i /\ k \in 1..n /\ i \in 1..n
        BY <1>1, <1>2
      <4>3. QED
        BY <2>1, <4>1, <4>2
    <3>4. QED
      BY <3>2, <3>3
  <2>3. ASSUME NEW i \in chunk, Active(file, i), NEW j \in Of(file, chunk, idOf(i)), i < j
        PROVE  ts(i) <= ts(j)
    BY <1>2, <2>1, <2>3 DEF Of
  <2>4. QED
    BY <2>2, <2>3 DEF InOrder
<1>6. QED
  BY <1>4, <1>5

\* When every record is read, the symbology passes exactly if it covers the file, ...
LEMMA SymbologyExact ==
    ASSUME NEW file \in DbnFile, NEW last, NEW seen,
           Carried(file, Len(file.records), last, seen)
    PROVE  SymbologyPasses(file, seen) <=> Covered(file)
<1>1. DOMAIN file.records = 1..Len(file.records)
  BY FileTypes
<1>2. seen = {file.records[i].id : i \in {j \in DOMAIN file.records : Active(file, j)}}
  BY <1>1 DEF Carried
<1>3. QED
  BY <1>2 DEF SymbologyPasses, Covered

\* ... and if it does, the file is sound.
LEMMA CarriedSound ==
    ASSUME NEW file \in DbnFile, NEW last, NEW seen,
           Carried(file, Len(file.records), last, seen),
           SymbologyPasses(file, seen)
    PROVE  Sound(file, Timed(file, DOMAIN file.records))
<1>1. DOMAIN file.records = 1..Len(file.records)
  BY FileTypes
<1>2. Covered(file)
  BY SymbologyExact
<1>3. ASSUME file.field # "none"
      PROVE  InDay(file, {i \in DOMAIN file.records : Active(file, i)})
  <2>1. InDay(file, DOMAIN file.records)
    BY <1>1, <1>3 DEF Carried
  <2>2. QED
    BY <2>1 DEF InDay, Timed
<1>4. QED
  BY <1>1, <1>2, <1>3 DEF Sound, Carried
=============================================================================
