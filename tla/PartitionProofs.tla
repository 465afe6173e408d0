---------------------------- MODULE PartitionProofs ----------------------------
(***************************************************************************)
(* The calls of _stream_one stay within their types; a stream is asked for *)
(* again only while the attempts before were small; the ledger's attempts  *)
(* are the requests made; and the chunked validation decides a file as a   *)
(* whole: for every number of partitions, attempts and bytes, every file   *)
(* and every length of chunks.                                             *)
(***************************************************************************)
EXTENDS PartitionStream, DbnProofs, TotalProofs

\* The requests of a call count its attempts, and each attempt that is followed by
\* another has lost less than the cut-off.
AttemptsCounted ==
    \A p \in Partition :
        /\ call[p].pc = "queued" => call[p].attempt = 0 /\ requests[p] = 0 /\ lost[p] = 0
        /\ call[p].pc = "request" => requests[p] = call[p].attempt
        /\ call[p].pc = "stream" => requests[p] = call[p].attempt + 1
        /\ call[p].pc \in {"request", "stream"} => lost[p] <= call[p].attempt * (Cutoff - 1)

\* Before the records are read nothing is carried; while they are, what is carried
\* describes those read so far; a file that is put in place is sound.
Fresh(p) ==
    /\ call[p].done = 0 /\ call[p].seen = {}
    /\ \A id \in Instrument : call[p].last[id] = 0

StrictReads ==
    \A p \in Partition :
        /\ call[p].pc \in {"queued", "request", "stream", "blank", "validate"} => Fresh(p)
        /\ opt.strict /\ call[p].pc = "records" =>
               /\ call[p].done <= Len(call[p].file.records)
               /\ Carried(call[p].file, call[p].done, call[p].last, call[p].seen)
        /\ opt.strict /\ call[p].pc = "place" =>
               Sound(call[p].file, Timed(call[p].file, DOMAIN call[p].file.records))

IInv == TypeOK /\ AttemptsCounted /\ StrictReads

-----------------------------------------------------------------------------
(* The locals of a call *)

\* An empty file is a DBN file.
LEMMA EmptyFileType == EmptyFile \in DbnFile
<1>1. << >> \in Seq([id : Instrument, ts : Timestamp])
  BY EmptySeq
<1>2. QED
  BY <1>1 DEF EmptyFile, DbnFile

\* The states in which nothing is carried.
LEMMA NoCallType ==
    ASSUME NEW pc \in {"queued", "request", "ended"}, NEW bytes \in Nat
    PROVE  NoCall(pc, bytes) \in Locals
<1>1. 0 \in 0..(MaxAttempts - 1)
  BY PartitionStreamAssumption
<1>2. QED
  BY <1>1, EmptyFileType DEF NoCall, Locals

\* The fields of a call's locals.
LEMMA LocalsFields ==
    ASSUME TypeOK, NEW p \in Partition
    PROVE  /\ call[p] \in Locals
           /\ call[p].attempt \in 0..(MaxAttempts - 1)
           /\ call[p].attempt \in Nat
           /\ call[p].file \in DbnFile
           /\ call[p].done \in Nat
           /\ call[p].last \in [Instrument -> Timestamp \cup {0}]
           /\ call[p].last \in [Instrument -> Nat]
           /\ call[p].seen \in SUBSET Instrument
<1>1. call[p] \in Locals
  BY DEF TypeOK
<1>2. /\ call[p].attempt \in 0..(MaxAttempts - 1)
      /\ call[p].file \in DbnFile
      /\ call[p].done \in Nat
      /\ call[p].last \in [Instrument -> Timestamp \cup {0}]
      /\ call[p].seen \in SUBSET Instrument
  BY <1>1 DEF Locals
<1>3. call[p].attempt \in Nat
  BY <1>2, PartitionStreamAssumption
<1>4. call[p].last \in [Instrument -> Nat]
  <2>1. Timestamp \cup {0} \subseteq Nat
    BY DbnAssumption
  <2>2. QED
    BY <1>2, <2>1
<1>5. QED
  BY <1>1, <1>2, <1>3, <1>4

-----------------------------------------------------------------------------
(* What a step of one call leaves alone *)

\* It is the step of that call alone, and the options stay.
LEMMA OwnStep ==
    ASSUME TypeOK, NEW p \in Partition, Call(p)
    PROVE  /\ opt' = opt
           /\ \A q \in Partition \ {p} :
                  /\ call'[q] = call[q] /\ outcome'[q] = outcome[q]
                  /\ requests'[q] = requests[q] /\ lost'[q] = lost[q]
<1> DEFINE Rest == /\ opt' = opt
                   /\ \A q \in Partition \ {p} :
                          /\ call'[q] = call[q] /\ outcome'[q] = outcome[q]
                          /\ requests'[q] = requests[q] /\ lost'[q] = lost[q]
<1>1. /\ \A locals : Becomes(p, locals) =>
              \A q \in Partition \ {p} : call'[q] = call[q] /\ outcome'[q] = outcome[q]
      /\ \A how : Settle(p, how) =>
              \A q \in Partition \ {p} : call'[q] = call[q] /\ outcome'[q] = outcome[q]
      /\ \A to : Go(p, to) =>
              \A q \in Partition \ {p} : call'[q] = call[q] /\ outcome'[q] = outcome[q]
  BY DEF TypeOK, Becomes, Settle, Go
<1>2. CASE Start(p)
  BY <1>1, <1>2 DEF Start, At, history
<1>3. CASE Request(p)
  BY <1>1, <1>3 DEF Request, At, TypeOK
<1>4. CASE Received(p)
  BY <1>1, <1>4 DEF Received, At, history
<1>5. CASE Blank(p)
  BY <1>1, <1>5 DEF Blank, At, history
<1>6. CASE IoError(p)
  BY <1>1, <1>6 DEF IoError, At, history
<1>7. CASE \E e \in Error, bytes \in 0..MaxBytes : Fails(p, e, bytes)
  BY <1>1, <1>7 DEF Fails, At, TypeOK
<1>8. CASE Validate(p)
  BY <1>1, <1>8 DEF Validate, Passes, At, history
<1>9. CASE ValidateChunk(p)
  BY <1>1, <1>9 DEF ValidateChunk, At, history
<1>10. CASE ValidateEnd(p)
  BY <1>1, <1>10 DEF ValidateEnd, Passes, At, history
<1>11. CASE Place(p)
  BY <1>1, <1>11 DEF Place, At, history
<1>12. QED
  BY <1>2, <1>3, <1>4, <1>5, <1>6, <1>7, <1>8, <1>9, <1>10, <1>11 DEF Call

\* A call that goes on keeps its types, and so does one that ends.
LEMMA MoveTypes ==
    ASSUME TypeOK, NEW p \in Partition
    PROVE  /\ \A locals \in Locals : Becomes(p, locals) =>
                  call' \in [Partition -> Locals] /\ outcome' = outcome /\ call'[p] = locals
           /\ \A to \in {"blank", "records", "place"} : Go(p, to) =>
                  /\ call' \in [Partition -> Locals] /\ outcome' = outcome
                  /\ call'[p] = [call[p] EXCEPT !.pc = to]
           /\ \A how \in Settled \cup {"cached", "raised"} : Settle(p, how) =>
                  /\ call' \in [Partition -> Locals]
                  /\ outcome' \in [Partition -> Settled \cup {"none", "cached", "raised"}]
                  /\ call'[p] = NoCall("ended", 0) /\ outcome'[p] = how
<1>1. call \in [Partition -> Locals]
      /\ outcome \in [Partition -> Settled \cup {"none", "cached", "raised"}]
  BY DEF TypeOK
<1>2. ASSUME NEW locals \in Locals, Becomes(p, locals)
      PROVE  call' \in [Partition -> Locals] /\ outcome' = outcome /\ call'[p] = locals
  BY <1>1, <1>2 DEF Becomes
<1>3. ASSUME NEW to \in {"blank", "records", "place"}, Go(p, to)
      PROVE  /\ call' \in [Partition -> Locals] /\ outcome' = outcome
             /\ call'[p] = [call[p] EXCEPT !.pc = to]
  <2>1. [call[p] EXCEPT !.pc = to] \in Locals
    BY <1>1 DEF Locals
  <2>2. QED
    BY <1>2, <1>3, <2>1 DEF Go
<1>4. ASSUME NEW how \in Settled \cup {"cached", "raised"}, Settle(p, how)
      PROVE  /\ call' \in [Partition -> Locals]
             /\ outcome' \in [Partition -> Settled \cup {"none", "cached", "raised"}]
             /\ call'[p] = NoCall("ended", 0) /\ outcome'[p] = how
  <2>1. NoCall("ended", 0) \in Locals
    BY NoCallType
  <2>2. QED
    BY <1>1, <1>4, <2>1 DEF Settle
<1>5. QED
  BY <1>2, <1>3, <1>4

-----------------------------------------------------------------------------
(* Types *)

\* A chunk is finite and within the file.
LEMMA ChunkTypes ==
    ASSUME TypeOK, NEW p \in Partition
    PROVE  /\ Chunk(p) \in SUBSET (1..Len(call[p].file.records))
           /\ Cardinality(Chunk(p)) \in Nat
<1>1. Len(call[p].file.records) \in Nat
  BY LocalsFields, FileTypes
<1>2. Chunk(p) \in SUBSET (1..Len(call[p].file.records))
  BY DEF Chunk, ChunkAfter
<1>3. IsFiniteSet(Chunk(p))
  <2> DEFINE n == Len(call[p].file.records)
  <2>1. IsFiniteSet(1..n)
    <3>1. 1 \in Int /\ n \in Int
      BY <1>1
    <3>2. QED
      BY ONLY <3>1, FS_Interval
  <2>2. QED
    BY ONLY <1>2, <2>1, FS_Subset
<1>4. QED
  BY ONLY <1>2, <1>3, FS_CardinalityType

\* How a request that breaks off may go on.
LEMMA FailsCases ==
    ASSUME TypeOK, NEW p \in Partition, NEW e \in Error, NEW bytes \in 0..MaxBytes,
           Fails(p, e, bytes)
    PROVE  /\ call[p].pc = "stream" /\ bytes \in Nat
           /\ opt' = opt /\ fatal' = fatal /\ ledger' = ledger /\ requests' = requests
           /\ lost' \in [Partition -> Nat] /\ lost'[p] = lost[p] + bytes
           /\ retries' \in Nat
           /\ \/ /\ call[p].attempt + 1 \in 0..(MaxAttempts - 1) /\ bytes <= Cutoff - 1
                 /\ [call[p] EXCEPT !.pc = "request", !.tmp = bytes, !.attempt = @ + 1] \in Locals
                 /\ Becomes(p, [call[p] EXCEPT !.pc = "request", !.tmp = bytes, !.attempt = @ + 1])
              \/ Settle(p, "failed")
              \/ Go(p, "blank")
              \/ Settle(p, "raised")
<1>1. bytes \in Nat /\ lost \in [Partition -> Nat] /\ retries \in Nat
  BY PartitionStreamAssumption DEF TypeOK
<1>2. lost' \in [Partition -> Nat] /\ lost'[p] = lost[p] + bytes
  BY <1>1 DEF Fails
<1>3. retries' \in Nat
  BY <1>1 DEF Fails, Recorded
<1>4. ASSUME MayRetry(p, bytes)
      PROVE  /\ call[p].attempt + 1 \in 0..(MaxAttempts - 1) /\ bytes <= Cutoff - 1
             /\ [call[p] EXCEPT !.pc = "request", !.tmp = bytes, !.attempt = @ + 1] \in Locals
  <2>1. /\ call[p].attempt \in Nat /\ MaxAttempts \in Nat \ {0} /\ Cutoff \in Nat \ {0}
        /\ call[p] \in Locals
    BY LocalsFields, PartitionStreamAssumption
  <2>2. call[p].attempt + 1 \in 0..(MaxAttempts - 1) /\ bytes <= Cutoff - 1
    BY <1>1, <1>4, <2>1 DEF MayRetry
  <2>3. QED
    BY ONLY <1>1, <2>1, <2>2 DEF Locals
<1>5. QED
  BY <1>1, <1>2, <1>3, <1>4 DEF Fails, At

\* Every step of a call preserves the types.
LEMMA CallTypes ==
    ASSUME IInv, NEW p \in Partition, Call(p)
    PROVE  TypeOK'
<1> DEFINE Moved == call' \in [Partition -> Locals]
           Told == outcome' \in [Partition -> Settled \cup {"none", "cached", "raised"}]
           Kept == requests' = requests /\ lost' = lost /\ retries' = retries
<1>1. /\ TypeOK
      /\ opt \in Options /\ call \in [Partition -> Locals]
      /\ outcome \in [Partition -> Settled \cup {"none", "cached", "raised"}]
      /\ requests \in [Partition -> 0..MaxAttempts]
      /\ lost \in [Partition -> Nat]
      /\ retries \in Nat /\ fatal \in BOOLEAN /\ ledger \in SUBSET Nat
  BY DEF IInv, TypeOK
<1>l. call[p] \in Locals
  BY <1>1
<1>2. SUFFICES /\ Moved /\ Told
               /\ requests' \in [Partition -> 0..MaxAttempts]
               /\ lost' \in [Partition -> Nat] /\ retries' \in Nat
               /\ opt' = opt /\ fatal' = fatal /\ ledger' = ledger
  BY ONLY <1>1, <1>2 DEF TypeOK
<1>3. CASE Start(p)
  <2>1. NoCall("request", 0) \in Locals
    BY NoCallType
  <2>2. Moved /\ Told
    BY <1>1, <1>3, <2>1, MoveTypes DEF Start
  <2>3. QED
    BY <1>1, <1>3, <2>2 DEF Start, At, history
<1>4. CASE Request(p)
  <2>1. [call[p] EXCEPT !.pc = "stream", !.tmp = 0] \in Locals
    BY ONLY <1>l, 0 \in Nat DEF Locals
  <2>2. Moved /\ Told
    BY <1>1, <1>4, <2>1, MoveTypes DEF Request
  <2>3. requests[p] + 1 \in 0..MaxAttempts
    <3>1. requests[p] = call[p].attempt
      BY <1>4 DEF IInv, AttemptsCounted, Request, At
    <3>2. QED
      BY <1>1, <3>1, LocalsFields, PartitionStreamAssumption
  <2>4. QED
    BY <1>1, <1>4, <2>2, <2>3 DEF Request, At
<1>5. CASE Received(p)
  <2>1. PICK f \in Streams[p] :
            Becomes(p, [call[p] EXCEPT !.pc = "validate", !.tmp = DecompressedSize(f), !.file = f])
    BY <1>5 DEF Received
  <2>2. f \in DbnFile
    BY PartitionStreamAssumption
  <2>3. DecompressedSize(f) \in Nat
    BY <2>2, FileTypes DEF DecompressedSize
  <2>4. [call[p] EXCEPT !.pc = "validate", !.tmp = DecompressedSize(f), !.file = f] \in Locals
    BY ONLY <1>l, <2>2, <2>3 DEF Locals
  <2>5. Moved /\ Told
    BY <1>1, <2>1, <2>4, MoveTypes
  <2>6. QED
    BY <1>1, <1>5, <2>5 DEF Received, At, history
<1>6. CASE Blank(p)
  <2>1. DecompressedSize(EmptyFile) \in Nat
    BY EmptyFileType, FileTypes DEF DecompressedSize
  <2>2. [call[p] EXCEPT !.pc = "validate", !.tmp = DecompressedSize(EmptyFile),
                        !.file = EmptyFile, !.degraded = TRUE] \in Locals
    BY ONLY <1>l, <2>1, EmptyFileType DEF Locals
  <2>3. Moved /\ Told
    BY <1>1, <1>6, <2>2, MoveTypes DEF Blank
  <2>4. QED
    BY <1>1, <1>6, <2>3 DEF Blank, At, history
<1>7. CASE IoError(p)
  BY <1>1, <1>7, MoveTypes DEF IoError, At, history
<1>8. CASE \E e \in Error, bytes \in 0..MaxBytes : Fails(p, e, bytes)
  <2>1. PICK e \in Error, bytes \in 0..MaxBytes : Fails(p, e, bytes)
    BY <1>8
  <2>2. Moved /\ Told
    BY <1>1, <2>1, FailsCases, MoveTypes DEF Settled
  <2>3. QED
    BY <1>1, <2>1, <2>2, FailsCases
<1>9. CASE Validate(p)
  BY <1>1, <1>9, MoveTypes DEF Validate, Passes, At, history, Settled
<1>10. CASE ValidateChunk(p)
  <2> DEFINE next == [call[p] EXCEPT !.done = @ + Cardinality(Chunk(p)),
                                     !.last = LastAfter(call[p].file, Chunk(p), @),
                                     !.seen = SeenAfter(call[p].file, Chunk(p), @)]
  <2>1. next \in Locals
    <3>1. call[p].done + Cardinality(Chunk(p)) \in Nat
      BY <1>1, LocalsFields, ChunkTypes
    <3>2. /\ LastAfter(call[p].file, Chunk(p), call[p].last) \in [Instrument -> Timestamp \cup {0}]
          /\ SeenAfter(call[p].file, Chunk(p), call[p].seen) \in SUBSET Instrument
      BY <1>1, LocalsFields, ChunkTypes, CarriedTypes
    <3>3. QED
      BY ONLY <1>l, <3>1, <3>2 DEF Locals
  <2>2. Moved /\ Told
    BY <1>1, <1>10, <2>1, MoveTypes DEF ValidateChunk, Settled
  <2>3. QED
    BY <1>1, <1>10, <2>2 DEF ValidateChunk, At, history
<1>11. CASE ValidateEnd(p)
  BY <1>1, <1>11, MoveTypes DEF ValidateEnd, Passes, At, history, Settled
<1>12. CASE Place(p)
  BY <1>1, <1>12, MoveTypes DEF Place, At, history, Settled
<1>13. QED
  BY <1>3, <1>4, <1>5, <1>6, <1>7, <1>8, <1>9, <1>10, <1>11, <1>12 DEF Call

\* Every step of the main thread preserves the types.
LEMMA MainTypes ==
    ASSUME TypeOK, Main
    PROVE  TypeOK'
<1>1. AttemptsEstimated \in Nat
  <2>1. In(Settled) \subseteq Partition
    BY DEF In
  <2>2. IsFiniteSet(In(Settled))
    BY <2>1, PartitionStreamAssumption, FS_Subset
  <2>3. Cardinality(In(Settled)) \in Nat
    BY <2>2, FS_CardinalityType
  <2>4. retries \in Nat
    BY DEF TypeOK
  <2>5. QED
    BY <2>3, <2>4 DEF AttemptsEstimated
<1>2. QED
  BY <1>1 DEF Main, Collect, WriteLedger, TypeOK, history

-----------------------------------------------------------------------------
(* Attempts *)

\* One more attempt that has lost less than the cut-off.
LEMMA OneMore ==
    ASSUME NEW n \in Nat, NEW c \in Nat, NEW l \in Nat, NEW b \in Nat, l <= n * c, b <= c
    PROVE  l + b <= (n + 1) * c
<1>1. (n + 1) * c = n * c + c
  OBVIOUS
<1>2. n * c \in Nat
  OBVIOUS
<1>3. QED
  BY <1>1, <1>2

\* Every step of a call keeps the count of its attempts.
LEMMA CallCounts ==
    ASSUME IInv, NEW p \in Partition, Call(p)
    PROVE  AttemptsCounted'
<1> DEFINE Counted ==
               /\ call[p].pc = "queued" =>
                      call[p].attempt = 0 /\ requests[p] = 0 /\ lost[p] = 0
               /\ call[p].pc = "request" => requests[p] = call[p].attempt
               /\ call[p].pc = "stream" => requests[p] = call[p].attempt + 1
               /\ call[p].pc \in {"request", "stream"} =>
                      lost[p] <= call[p].attempt * (Cutoff - 1)
<1>1. TypeOK /\ AttemptsCounted /\ Counted
  BY DEF IInv, AttemptsCounted
<1>2. SUFFICES Counted'
  <2>1. \A q \in Partition \ {p} :
            call'[q] = call[q] /\ requests'[q] = requests[q] /\ lost'[q] = lost[q]
    BY <1>1, OwnStep
  <2>2. QED
    BY <1>1, <1>2, <2>1 DEF AttemptsCounted
<1>3. ASSUME NEW how \in Settled \cup {"cached", "raised"}, Settle(p, how)
      PROVE  Counted'
  <2>1. call'[p] = NoCall("ended", 0)
    BY <1>1, <1>3, MoveTypes
  <2>2. call'[p].pc = "ended"
    BY <2>1 DEF NoCall
  <2>3. QED
    BY <2>2
<1>4. ASSUME NEW to \in {"blank", "records", "place"}, Go(p, to)
      PROVE  Counted'
  <2>1. call'[p] = [call[p] EXCEPT !.pc = to] /\ call[p] \in Locals
    BY <1>1, <1>4, MoveTypes, LocalsFields
  <2>2. call'[p].pc = to
    BY <2>1 DEF Locals
  <2>3. QED
    BY <2>2
<1>5. CASE Start(p)
  <2>1. NoCall("request", 0) \in Locals
    BY NoCallType
  <2>2. CASE Becomes(p, NoCall("request", 0))
    <3>1. call'[p] = NoCall("request", 0)
      BY <1>1, <2>1, <2>2, MoveTypes
    <3>2. requests'[p] = 0 /\ lost'[p] = 0
      BY <1>1, <1>5 DEF Start, At, history
    <3>3. QED
      BY <3>1, <3>2, PartitionStreamAssumption DEF NoCall
  <2>3. QED
    BY <1>3, <1>5, <2>2 DEF Start
<1>6. CASE Request(p)
  <2>1. [call[p] EXCEPT !.pc = "stream", !.tmp = 0] \in Locals
    BY <1>1, LocalsFields DEF Locals
  <2>2. call'[p] = [call[p] EXCEPT !.pc = "stream", !.tmp = 0]
    BY <1>1, <1>6, <2>1, MoveTypes DEF Request
  <2>3. call'[p].pc = "stream" /\ call'[p].attempt = call[p].attempt
    BY <1>1, <2>2, LocalsFields DEF Locals
  <2>4. lost'[p] = lost[p] /\ requests'[p] = requests[p] + 1 /\ call[p].pc = "request"
    BY <1>1, <1>6 DEF Request, At, TypeOK
  <2>5. QED
    BY <1>1, <2>3, <2>4
<1>7. CASE Received(p)
  <2>1. call'[p].pc = "validate"
    BY <1>1, <1>7, LocalsFields DEF Received, Becomes, TypeOK, Locals
  <2>2. QED
    BY <2>1
<1>8. CASE Blank(p)
  <2>1. call'[p].pc = "validate"
    BY <1>1, <1>8, LocalsFields DEF Blank, Becomes, TypeOK, Locals
  <2>2. QED
    BY <2>1
<1>9. CASE \E e \in Error, bytes \in 0..MaxBytes : Fails(p, e, bytes)
  <2>1. PICK e \in Error, bytes \in 0..MaxBytes : Fails(p, e, bytes)
    BY <1>9
  <2> DEFINE again == [call[p] EXCEPT !.pc = "request", !.tmp = bytes, !.attempt = @ + 1]
  <2>2. CASE bytes <= Cutoff - 1 /\ again \in Locals /\ Becomes(p, again)
    <3>1. call'[p] = again
      BY <1>1, <2>2, MoveTypes
    <3>2. call'[p].pc = "request" /\ call'[p].attempt = call[p].attempt + 1
      BY <1>1, <3>1, LocalsFields DEF Locals
    <3>3. /\ lost[p] \in Nat /\ bytes \in Nat /\ Cutoff - 1 \in Nat
          /\ call[p].attempt \in Nat
      <4>1. lost[p] \in Nat
        BY <1>1 DEF TypeOK
      <4>2. bytes \in Nat /\ Cutoff - 1 \in Nat
        BY PartitionStreamAssumption
      <4>3. QED
        BY <1>1, <4>1, <4>2, LocalsFields
    <3>4. call[p].pc = "stream" /\ lost'[p] = lost[p] + bytes /\ requests' = requests
      BY <1>1, <2>1, FailsCases
    <3>5. lost[p] <= call[p].attempt * (Cutoff - 1) /\ requests[p] = call[p].attempt + 1
      BY <1>1, <3>4
    <3>6. lost[p] + bytes <= (call[p].attempt + 1) * (Cutoff - 1)
      BY ONLY <2>2, <3>3, <3>5, OneMore
    <3>7. QED
      BY <3>2, <3>4, <3>5, <3>6
  <2>3. QED
    BY <1>1, <1>3, <1>4, <2>1, <2>2, FailsCases DEF Settled
<1>10. CASE ValidateChunk(p)
  <2>1. call'[p].pc \in {"records", "ended"}
    <3>1. call[p].pc = "records" /\ call[p] \in Locals
      BY <1>1, <1>10, LocalsFields DEF ValidateChunk, At
    <3> DEFINE next == [call[p] EXCEPT !.done = @ + Cardinality(Chunk(p)),
                                       !.last = LastAfter(call[p].file, Chunk(p), @),
                                       !.seen = SeenAfter(call[p].file, Chunk(p), @)]
    <3>2. ASSUME Becomes(p, next)
          PROVE  call'[p].pc = "records"
      <4>1. call'[p] = next
        BY <1>1, <3>2 DEF Becomes, TypeOK
      <4>2. QED
        BY <3>1, <4>1 DEF Locals
    <3>3. ASSUME Settle(p, "failed")
          PROVE  call'[p].pc = "ended"
      <4>1. call'[p] = NoCall("ended", 0)
        BY <1>1, <3>3, MoveTypes DEF Settled
      <4>2. QED
        BY <4>1 DEF NoCall
    <3>4. QED
      BY <1>10, <3>2, <3>3 DEF ValidateChunk
  <2>2. QED
    BY <2>1
<1>11. CASE IoError(p) \/ Validate(p) \/ ValidateEnd(p) \/ Place(p)
  BY <1>3, <1>4, <1>11 DEF IoError, Validate, ValidateEnd, Place, Passes, Settled
<1>12. QED
  BY <1>5, <1>6, <1>7, <1>8, <1>9, <1>10, <1>11 DEF Call

-----------------------------------------------------------------------------
(* The validation of the records *)

\* When no chunk is left every record is read.
LEMMA AllRead ==
    ASSUME TypeOK, NEW p \in Partition, Chunk(p) = {},
           call[p].done <= Len(call[p].file.records)
    PROVE  call[p].done = Len(call[p].file.records)
<1> DEFINE n == Len(call[p].file.records)
           d == call[p].done
<1>1. n \in Nat /\ d \in Nat /\ ChunkLength \in Nat \ {0}
  BY LocalsFields, FileTypes, DbnAssumption
<1>2. ASSUME d < n
      PROVE  FALSE
  <2>1. d + 1 \in Chunk(p)
    BY <1>1, <1>2 DEF Chunk, ChunkAfter
  <2>2. QED
    BY <2>1
<1>3. QED
  BY <1>1, <1>2

\* Every step of a call keeps what is carried true of the records read.
LEMMA CallReads ==
    ASSUME IInv, NEW p \in Partition, Call(p)
    PROVE  StrictReads'
<1> DEFINE Early == {"queued", "request", "stream", "blank", "validate"}
           Reads ==
               /\ call[p].pc \in Early => Fresh(p)
               /\ opt.strict /\ call[p].pc = "records" =>
                      /\ call[p].done <= Len(call[p].file.records)
                      /\ Carried(call[p].file, call[p].done, call[p].last, call[p].seen)
               /\ opt.strict /\ call[p].pc = "place" =>
                      Sound(call[p].file, Timed(call[p].file, DOMAIN call[p].file.records))
<1>1. TypeOK /\ StrictReads /\ Reads
  BY DEF IInv, StrictReads
<1>2. opt' = opt /\ call[p] \in Locals
  BY <1>1, OwnStep, LocalsFields
<1>3. SUFFICES Reads'
  <2>1. \A q \in Partition \ {p} : call'[q] = call[q]
    BY <1>1, OwnStep
  <2>2. QED
    BY <1>1, <1>2, <1>3, <2>1 DEF StrictReads, Fresh
<1>4. ASSUME NEW how \in Settled \cup {"cached", "raised"}, Settle(p, how)
      PROVE  Reads'
  <2>1. call'[p] = NoCall("ended", 0)
    BY <1>1, <1>4, MoveTypes
  <2>2. call'[p].pc = "ended"
    BY <2>1 DEF NoCall
  <2>3. QED
    BY <2>2
<1>5. ASSUME NEW to \in {"blank", "records", "place"}, Go(p, to)
      PROVE  /\ call'[p].pc = to /\ call'[p].file = call[p].file
             /\ call'[p].done = call[p].done /\ call'[p].last = call[p].last
             /\ call'[p].seen = call[p].seen
  <2>1. call'[p] = [call[p] EXCEPT !.pc = to]
    BY <1>1, <1>5, MoveTypes
  <2>2. QED
    BY <1>2, <2>1 DEF Locals
<1>6. ASSUME call'[p].pc \in Early, Fresh(p)'
      PROVE  Reads'
  BY <1>6
<1>7. CASE Start(p)
  <2>1. CASE Becomes(p, NoCall("request", 0))
    <3>1. call'[p] = NoCall("request", 0)
      BY <1>1, <2>1 DEF Becomes, TypeOK
    <3>2. call'[p].pc = "request" /\ Fresh(p)'
      BY <3>1 DEF NoCall, Fresh
    <3>3. QED
      BY <1>6, <3>2
  <2>2. QED
    BY <1>4, <1>7, <2>1 DEF Start
<1>8. CASE Request(p)
  <2>1. call'[p] = [call[p] EXCEPT !.pc = "stream", !.tmp = 0] /\ call[p].pc = "request"
    BY <1>1, <1>8 DEF Request, At, Becomes, TypeOK
  <2>2. /\ call'[p].pc = "stream" /\ call'[p].done = call[p].done
        /\ call'[p].last = call[p].last /\ call'[p].seen = call[p].seen
    BY <1>2, <2>1 DEF Locals
  <2>3. QED
    BY <1>1, <1>6, <2>1, <2>2 DEF Fresh
<1>9. CASE Received(p)
  <2>1. PICK f \in Streams[p] :
            Becomes(p, [call[p] EXCEPT !.pc = "validate", !.tmp = DecompressedSize(f), !.file = f])
    BY <1>9 DEF Received
  <2>2. /\ call[p].pc = "stream"
        /\ call'[p] = [call[p] EXCEPT !.pc = "validate", !.tmp = DecompressedSize(f), !.file = f]
    BY <1>1, <1>9, <2>1 DEF Received, At, Becomes, TypeOK
  <2>3. /\ call'[p].pc = "validate" /\ call'[p].done = call[p].done
        /\ call'[p].last = call[p].last /\ call'[p].seen = call[p].seen
    BY <1>2, <2>2 DEF Locals
  <2>4. QED
    BY <1>1, <1>6, <2>2, <2>3 DEF Fresh
<1>10. CASE Blank(p)
  <2>1. /\ call[p].pc = "blank"
        /\ call'[p] = [call[p] EXCEPT !.pc = "validate", !.tmp = DecompressedSize(EmptyFile),
                                      !.file = EmptyFile, !.degraded = TRUE]
    BY <1>1, <1>10 DEF Blank, At, Becomes, TypeOK
  <2>2. /\ call'[p].pc = "validate" /\ call'[p].done = call[p].done
        /\ call'[p].last = call[p].last /\ call'[p].seen = call[p].seen
    BY <1>2, <2>1 DEF Locals
  <2>3. QED
    BY <1>1, <1>6, <2>1, <2>2 DEF Fresh
<1>11. CASE \E e \in Error, bytes \in 0..MaxBytes : Fails(p, e, bytes)
  <2>1. PICK e \in Error, bytes \in 0..MaxBytes : Fails(p, e, bytes)
    BY <1>11
  <2> DEFINE again == [call[p] EXCEPT !.pc = "request", !.tmp = bytes, !.attempt = @ + 1]
  <2>2. call[p].pc = "stream" /\ Fresh(p)
    BY <1>1, <2>1, FailsCases
  <2>3. CASE Becomes(p, again)
    <3>1. call'[p] = again
      BY <1>1, <2>3 DEF Becomes, TypeOK
    <3>2. /\ call'[p].pc = "request" /\ call'[p].done = call[p].done
          /\ call'[p].last = call[p].last /\ call'[p].seen = call[p].seen
      BY <1>2, <3>1 DEF Locals
    <3>3. QED
      BY <1>6, <2>2, <3>2 DEF Fresh
  <2>4. CASE Go(p, "blank")
    BY <1>5, <1>6, <2>2, <2>4 DEF Fresh
  <2>5. QED
    BY <1>1, <1>4, <2>1, <2>3, <2>4, FailsCases DEF Settled
<1>12. CASE Validate(p)
  <2>1. Fresh(p)
    BY <1>1, <1>12 DEF Validate, At
  <2>2. CASE opt.strict /\ Go(p, "records")
    <3>1. /\ Len(call[p].file.records) \in Nat
          /\ call[p].done = 0 /\ call[p].seen = {} /\ call[p].file \in DbnFile
      BY <1>1, <2>1, LocalsFields, FileTypes DEF Fresh
    <3>2. Carried(call[p].file, 0, call[p].last, {})
      BY <2>1, <3>1, CarriedAtFirst DEF Fresh
    <3>3. call[p].done <= Len(call[p].file.records)
      BY <3>1
    <3>4. QED
      BY <1>5, <2>2, <3>1, <3>2, <3>3
  <2>3. CASE ~opt.strict /\ Go(p, "place")
    BY <1>2, <1>5, <2>3
  <2>4. QED
    BY <1>4, <1>12, <2>2, <2>3 DEF Validate, Passes, Settled
<1>13. CASE ValidateChunk(p)
  <2> DEFINE file == call[p].file
             chunk == Chunk(p)
             next == [call[p] EXCEPT !.done = @ + Cardinality(Chunk(p)),
                                     !.last = LastAfter(call[p].file, Chunk(p), @),
                                     !.seen = SeenAfter(call[p].file, Chunk(p), @)]
  <2>1. CASE ChunkPasses(file, chunk, call[p].last) /\ Becomes(p, next)
    <3>1. call'[p] = next /\ call[p].pc = "records" /\ chunk # {}
      BY <1>1, <1>13, <2>1 DEF ValidateChunk, At, Becomes, TypeOK
    <3>2. /\ call'[p].pc = "records" /\ call'[p].file = file
          /\ call'[p].done = call[p].done + Cardinality(chunk)
          /\ call'[p].last = LastAfter(file, chunk, call[p].last)
          /\ call'[p].seen = SeenAfter(file, chunk, call[p].seen)
      BY <1>2, <3>1 DEF Locals
    <3>3. ASSUME opt.strict
          PROVE  /\ call'[p].done <= Len(file.records)
                 /\ Carried(file, call'[p].done, call'[p].last, call'[p].seen)
      <4>1. /\ call[p].done <= Len(file.records)
            /\ Carried(file, call[p].done, call[p].last, call[p].seen)
        BY <1>1, <3>1, <3>3
      <4>2. file \in DbnFile /\ call[p].done \in Nat /\ call[p].last \in [Instrument -> Nat]
        BY <1>1, LocalsFields
      <4>3. PICK e \in Nat : /\ call[p].done < e /\ e <= Len(file.records)
                             /\ chunk = (call[p].done + 1)..e
                             /\ call[p].done + Cardinality(chunk) = e
        BY <3>1, <4>1, <4>2, ChunkInterval DEF Chunk
      <4>4. Carried(file, e, LastAfter(file, chunk, call[p].last),
                    SeenAfter(file, chunk, call[p].seen))
        BY <2>1, <4>1, <4>2, <4>3, CarryOn
      <4>5. QED
        BY <3>2, <4>3, <4>4
    <3>4. QED
      BY <1>2, <3>2, <3>3
  <2>2. QED
    BY <1>4, <1>13, <2>1 DEF ValidateChunk, Settled
<1>14. CASE ValidateEnd(p)
  <2>1. CASE SymbologyPasses(call[p].file, call[p].seen) /\ Go(p, "place")
    <3>1. call[p].pc = "records" /\ Chunk(p) = {} /\ call[p].file \in DbnFile
      BY <1>1, <1>14, LocalsFields DEF ValidateEnd, At
    <3>2. ASSUME opt.strict
          PROVE  Sound(call[p].file, Timed(call[p].file, DOMAIN call[p].file.records))
      <4>1. call[p].done = Len(call[p].file.records)
        BY <1>1, <3>1, <3>2, AllRead
      <4>2. Carried(call[p].file, Len(call[p].file.records), call[p].last, call[p].seen)
        BY <1>1, <3>1, <3>2, <4>1
      <4>3. QED
        BY <2>1, <3>1, <4>2, CarriedSound
    <3>3. QED
      BY <1>2, <1>5, <2>1, <3>2
  <2>2. QED
    BY <1>4, <1>14, <2>1 DEF ValidateEnd, Passes, Settled
<1>15. CASE IoError(p) \/ Place(p)
  BY <1>4, <1>15 DEF IoError, Place, Settled
<1>16. QED
  BY <1>7, <1>8, <1>9, <1>10, <1>11, <1>12, <1>13, <1>14, <1>15 DEF Call

-----------------------------------------------------------------------------
(* The invariant *)

\* It holds before any call has begun.
LEMMA InitInvariant == Init => IInv
<1> SUFFICES ASSUME Init
             PROVE  IInv
  OBVIOUS
<1>1. PICK bytes \in {0, MaxBytes} : call = [p \in Partition |-> NoCall("queued", bytes)]
  BY DEF Init
<1>2. bytes \in Nat
  BY PartitionStreamAssumption
<1>3. NoCall("queued", bytes) \in Locals
  BY <1>2, NoCallType
<1>4. 0 \in 0..MaxAttempts
  BY PartitionStreamAssumption
<1>5. TypeOK
  BY <1>1, <1>3, <1>4 DEF Init, TypeOK
<1>6. /\ requests = [p \in Partition |-> 0] /\ lost = [p \in Partition |-> 0]
      /\ \A p \in Partition : /\ call[p].pc = "queued" /\ call[p].attempt = 0
                              /\ Fresh(p)
  BY <1>1 DEF Init, NoCall, Fresh
<1>7. AttemptsCounted
  BY <1>6 DEF AttemptsCounted
<1>8. StrictReads
  BY <1>6 DEF StrictReads
<1>9. QED
  BY <1>5, <1>7, <1>8 DEF IInv

\* Every step keeps it.
LEMMA StepInvariant == IInv /\ [Next]_vars => IInv'
<1> SUFFICES ASSUME IInv, [Next]_vars
             PROVE  IInv'
  OBVIOUS
<1>1. ASSUME NEW p \in Partition, Call(p)
      PROVE  IInv'
  BY <1>1, CallTypes, CallCounts, CallReads DEF IInv
<1>2. CASE Main
  <2>1. TypeOK'
    BY <1>2, MainTypes DEF IInv
  <2>2. UNCHANGED <<opt, call, requests, lost>>
    BY <1>2 DEF Main, Collect, WriteLedger, history
  <2>3. AttemptsCounted' /\ StrictReads'
    BY <2>2 DEF IInv, AttemptsCounted, StrictReads, Fresh
  <2>4. QED
    BY <2>1, <2>3 DEF IInv
<1>3. CASE UNCHANGED vars
  <2>1. /\ UNCHANGED <<opt, call, outcome, requests, lost>>
        /\ UNCHANGED <<retries, fatal, ledger>>
    BY <1>3 DEF vars, history, run
  <2>2. QED
    BY <2>1 DEF IInv, TypeOK, AttemptsCounted, StrictReads, Fresh
<1>4. QED
  BY <1>1, <1>2, <1>3 DEF Next, Step, Quiet

\* It holds in every state the calls reach.
THEOREM CallsInvariant == Spec => []IInv
  BY InitInvariant, StepInvariant, PTL DEF Spec

\* Whatever Databento answers, the variables stay within their types: no partition is
\* asked for more than _MAX_STREAM_RETRIES times.
THEOREM CallTypesCorrect == Spec => []TypeOK
<1>1. IInv => TypeOK
  BY DEF IInv
<1>2. QED
  BY <1>1, CallsInvariant, PTL

\* When a stream is asked for again, each of the attempts before has lost less than the
\* cut-off, for every cut-off and every number of attempts.
THEOREM RestartsStaySmall == Spec => []RestartsSmall
<1>1. IInv => RestartsSmall
  BY DEF IInv, AttemptsCounted, RestartsSmall
<1>2. QED
  BY <1>1, CallsInvariant, PTL

-----------------------------------------------------------------------------
(* The verdict of the strict validation *)

\* A call that is put in place has been read whole and found sound, and one the
\* validation refuses is not a sound file of the size that was estimated, or has a record
\* of instrument 0 outside the day.
LEMMA StrictStep ==
    ASSUME IInv, NEW p \in Partition, Call(p), opt.strict, outcome[p] = "none"
    PROVE  /\ outcome'[p] = "placed" =>
                  Sound(call[p].file, Timed(call[p].file, DOMAIN call[p].file.records))
           /\ SystemInDay(call[p].file) =>
              (outcome'[p] = "failed" /\ call[p].pc \in {"validate", "records"} =>
                  ~(/\ MetadataPasses(call[p].file, TRUE, Allotted[p])
                    /\ Sound(call[p].file, DOMAIN call[p].file.records)))
<1> DEFINE file == call[p].file
           Verdict ==
               /\ outcome'[p] = "placed" => Sound(file, Timed(file, DOMAIN file.records))
               /\ SystemInDay(file) =>
                  (outcome'[p] = "failed" /\ call[p].pc \in {"validate", "records"} =>
                      ~(/\ MetadataPasses(file, TRUE, Allotted[p])
                        /\ Sound(file, DOMAIN file.records)))
<1>1. TypeOK /\ StrictReads
  BY DEF IInv
<1>2. /\ file \in DbnFile /\ call[p].done \in Nat /\ call[p].last \in [Instrument -> Nat]
  BY <1>1, LocalsFields
<1>3. \A how \in Settled \cup {"cached", "raised"} : Settle(p, how) => outcome'[p] = how
  BY <1>1, MoveTypes
<1>4. /\ \A locals : Becomes(p, locals) => outcome'[p] = "none"
      /\ \A to : Go(p, to) => outcome'[p] = "none"
  BY DEF Becomes, Go
<1>5. CASE Start(p)
  BY <1>3, <1>4, <1>5 DEF Start
<1>6. CASE Request(p) \/ Received(p) \/ Blank(p)
  BY <1>4, <1>6 DEF Request, Received, Blank
<1>7. CASE IoError(p)
  BY <1>3, <1>7 DEF IoError
<1>8. CASE \E e \in Error, bytes \in 0..MaxBytes : Fails(p, e, bytes)
  <2>1. call[p].pc = "stream"
    BY <1>8 DEF Fails, At
  <2>2. outcome'[p] \in {"none", "failed", "raised"}
    BY <1>3, <1>4, <1>8 DEF Fails, Settled
  <2>3. QED
    BY <2>1, <2>2
<1>9. CASE Validate(p)
  <2>1. outcome'[p] = "none" \/ (outcome'[p] = "failed" /\ ~MetadataPasses(file, TRUE, Allotted[p]))
    BY <1>3, <1>4, <1>9 DEF Validate, Passes, Settled
  <2>2. QED
    BY <2>1
<1>10. CASE ValidateChunk(p)
  <2>1. /\ call[p].done <= Len(file.records)
        /\ Carried(file, call[p].done, call[p].last, call[p].seen)
    BY <1>1, <1>10 DEF ValidateChunk, At, StrictReads
  <2>2. \/ outcome'[p] = "none"
        \/ outcome'[p] = "failed" /\ ~ChunkPasses(file, Chunk(p), call[p].last)
    BY <1>3, <1>4, <1>10 DEF ValidateChunk, Settled
  <2>3. Sound(file, DOMAIN file.records) /\ SystemInDay(file) =>
            ChunkPasses(file, Chunk(p), call[p].last)
    BY <1>2, <2>1, SoundPasses DEF Chunk
  <2>4. QED
    BY <2>2, <2>3
<1>11. CASE ValidateEnd(p)
  <2>1. /\ call[p].done <= Len(file.records)
        /\ Carried(file, call[p].done, call[p].last, call[p].seen)
        /\ Chunk(p) = {}
    BY <1>1, <1>11 DEF ValidateEnd, At, StrictReads
  <2>2. call[p].done = Len(file.records)
    BY <1>1, <2>1, AllRead
  <2>3. SymbologyPasses(file, call[p].seen) <=> Covered(file)
    BY <1>2, <2>1, <2>2, SymbologyExact
  <2>4. \/ outcome'[p] = "none"
        \/ outcome'[p] = "failed" /\ ~SymbologyPasses(file, call[p].seen)
    BY <1>3, <1>4, <1>11 DEF ValidateEnd, Passes, Settled
  <2>5. QED
    BY <2>3, <2>4 DEF Sound
<1>12. CASE Place(p)
  <2>1. call[p].pc = "place"
    BY <1>12 DEF Place, At
  <2>2. QED
    BY <1>1, <2>1 DEF StrictReads
<1>13. QED
  BY <1>5, <1>6, <1>7, <1>8, <1>9, <1>10, <1>11, <1>12 DEF Call

\* A strict run puts no file in place where an instrument goes back in time, leaves the
\* day or is not mapped, and refuses none that is in order, for every length of the
\* chunks and every file whose records of instrument 0, if it has any, lie in the day.
THEOREM StrictDecides == Spec => StrictExact
<1> DEFINE Verdict(p) ==
        LET file == call[p].file
            ends(how) == outcome[p] = "none" /\ outcome'[p] = how
        IN  /\ ends("placed") => Sound(file, Timed(file, DOMAIN file.records))
            /\ ends("failed") /\ call[p].pc \in {"validate", "records"} /\ SystemInDay(file) =>
                   ~(MetadataPasses(file, TRUE, Allotted[p]) /\ Sound(file, DOMAIN file.records))
<1>1. IInv /\ [Next]_vars => [opt.strict => \A p \in Partition : Verdict(p)]_vars
  <2> SUFFICES ASSUME IInv, Next, opt.strict, NEW p \in Partition, outcome[p] = "none"
               PROVE  Verdict(p)
    OBVIOUS
  <2>1. ASSUME NEW q \in Partition, Call(q)
        PROVE  Verdict(p)
    <3>1. CASE q = p
      BY <2>1, <3>1, StrictStep
    <3>2. CASE q # p
      <4>1. outcome'[p] = outcome[p]
        BY <2>1, <3>2, OwnStep DEF IInv
      <4>2. QED
        BY <4>1
    <3>3. QED
      BY <3>1, <3>2
  <2>2. CASE Main \/ Quiet
    <3>1. outcome' = outcome
      BY <2>2 DEF Main, Collect, WriteLedger, Quiet, vars
    <3>2. QED
      BY <3>1
  <2>3. QED
    BY <2>1, <2>2 DEF Next, Step
<1>2. QED
  BY <1>1, CallsInvariant, PTL DEF Spec, StrictExact

-----------------------------------------------------------------------------
(* The attempts in the ledger *)

\* The retries that a call has asked for.
Retried ==
    [p \in Partition |->
        IF call[p].pc = "request" \/ requests[p] = 0 THEN requests[p] ELSE requests[p] - 1]

\* The client's count is the sum of these, a partition that was asked for has a request,
\* and once the record is written every call has returned.
RetriesCounted ==
    /\ retries = Total(Retried, Partition)
    /\ \A p \in Partition :
           /\ outcome[p] # "none" => call[p].pc = "ended"
           /\ outcome[p] = "cached" => requests[p] = 0
           /\ call[p].pc \notin {"queued", "request", "ended"} \/ outcome[p] \in Settled =>
                  requests[p] > 0
    /\ ledger # {} => Returned
    /\ AttemptsReported

LEMMA RetriedType == TypeOK => Retried \in [Partition -> Int]
BY PartitionStreamAssumption DEF TypeOK, Retried

\* A step of a call adds a retry of its own, or none.
LEMMA CallRetries ==
    ASSUME IInv, RetriesCounted, NEW p \in Partition, Call(p)
    PROVE  RetriesCounted'
<1> DEFINE Mine ==
               /\ outcome'[p] # "none" => call'[p].pc = "ended"
               /\ outcome'[p] = "cached" => requests'[p] = 0
               /\ call'[p].pc \notin {"queued", "request", "ended"} \/ outcome'[p] \in Settled =>
                      requests'[p] > 0
           Again == retries' = retries + 1 /\ Retried'[p] = Retried[p] + 1
           Same == retries' = retries /\ Retried'[p] = Retried[p]
<1>1. /\ TypeOK /\ AttemptsCounted /\ requests[p] \in Nat /\ retries \in Nat
      /\ requests \in [Partition -> 0..MaxAttempts]
  BY PartitionStreamAssumption DEF IInv, TypeOK
<1>2. call[p].pc # "ended"
  BY <1>1 DEF Call, Start, Request, Received, Blank, IoError, Fails, Validate, ValidateChunk,
              ValidateEnd, Place, At
<1>3. outcome[p] = "none" /\ ledger = {} /\ ledger' = ledger
  <2>1. outcome[p] = "none"
    BY <1>2 DEF RetriesCounted
  <2>2. ~ Returned
    BY <2>1 DEF Returned, In, Settled
  <2>3. ledger' = ledger
    BY DEF Call, Start, Request, Received, Blank, IoError, Fails, Validate, ValidateChunk,
           ValidateEnd, Place, At
  <2>. QED
    BY <2>1, <2>2, <2>3 DEF RetriesCounted
<1>4. SUFFICES Mine /\ (Again \/ Same)
  <2>1. \A q \in Partition \ {p} :
            call'[q] = call[q] /\ outcome'[q] = outcome[q] /\ requests'[q] = requests[q]
    BY <1>1, OwnStep
  <2>2. \A q \in Partition \ {p} : Retried'[q] = Retried[q]
    BY <2>1 DEF Retried
  <2>3. /\ \A q \in Partition : Retried[q] \in Int /\ Retried'[q] \in Int
        /\ IsFiniteSet(Partition)
    BY <1>1, <1>4, <2>2, RetriedType, PartitionStreamAssumption
  <2>4. Total(Retried', Partition) = Total(Retried, Partition) - Retried[p] + Retried'[p]
    BY <2>2, <2>3, TotalChanged
  <2>5. retries' = Total(Retried', Partition)
    <3>1. Retried[p] \in Int /\ retries = Total(Retried, Partition)
      BY <2>3 DEF RetriesCounted
    <3>. QED
      BY <1>1, <1>4, <2>4, <3>1
  <2>6. \A q \in Partition :
           /\ outcome'[q] # "none" => call'[q].pc = "ended"
           /\ outcome'[q] = "cached" => requests'[q] = 0
           /\ call'[q].pc \notin {"queued", "request", "ended"} \/ outcome'[q] \in Settled =>
                  requests'[q] > 0
    BY <1>4, <2>1 DEF RetriesCounted
  <2>7. (ledger # {} => Returned)' /\ AttemptsReported'
    BY <1>3 DEF AttemptsReported
  <2>. QED
    BY <2>5, <2>6, <2>7 DEF RetriesCounted
<1>5. ASSUME NEW how \in Settled \cup {"cached", "raised"}, Settle(p, how),
             UNCHANGED <<requests, retries>>, call[p].pc # "request",
             how = "cached" => requests[p] = 0, how \in Settled => requests[p] > 0
      PROVE  Mine /\ Same
  <2>1. call'[p] = NoCall("ended", 0) /\ outcome'[p] = how
    BY <1>1, <1>5, MoveTypes
  <2>2. call'[p].pc = "ended"
    BY <2>1 DEF NoCall
  <2>. QED
    BY <1>5, <2>1, <2>2 DEF Retried, Settled
<1>6. ASSUME outcome' = outcome, UNCHANGED <<requests, retries>>,
             call[p].pc # "request", call'[p].pc # "request" \/ requests[p] = 0,
             call'[p].pc \notin {"queued", "request", "ended"} => requests[p] > 0
      PROVE  Mine /\ Same
  BY <1>3, <1>6 DEF Retried, Settled
<1>7. ASSUME NEW to \in {"blank", "records", "place"}, Go(p, to),
             UNCHANGED <<requests, retries>>, requests[p] > 0, call[p].pc # "request"
      PROVE  Mine /\ Same
  <2>1. call'[p] = [call[p] EXCEPT !.pc = to] /\ outcome' = outcome /\ call[p] \in Locals
    BY <1>1, <1>7, MoveTypes, LocalsFields
  <2>2. call'[p].pc = to
    BY <2>1 DEF Locals
  <2>. QED
    BY <1>6, <1>7, <2>1, <2>2
<1>8. call[p].pc \notin {"queued", "request", "ended"} => requests[p] > 0
  BY DEF RetriesCounted
<1>9. CASE Start(p)
  <2>0. requests[p] = 0 /\ UNCHANGED <<requests, retries>> /\ call[p].pc = "queued"
    BY <1>1, <1>9 DEF Start, At, AttemptsCounted, history
  <2>1. CASE Becomes(p, NoCall("request", 0))
    <3>1. NoCall("request", 0) \in Locals
      BY NoCallType
    <3>2. call'[p] = NoCall("request", 0) /\ outcome' = outcome
      BY <1>1, <2>1, <3>1, MoveTypes
    <3>3. call'[p].pc = "request"
      BY <3>2 DEF NoCall
    <3>. QED
      BY <1>6, <2>0, <3>2, <3>3
  <2>2. CASE Settle(p, "cached")
    BY <1>5, <2>0, <2>2 DEF Settled
  <2>. QED
    BY <1>9, <2>1, <2>2 DEF Start
<1>10. CASE Request(p)
  <2>1. [call[p] EXCEPT !.pc = "stream", !.tmp = 0] \in Locals
    BY <1>1, LocalsFields DEF Locals
  <2>2. call'[p] = [call[p] EXCEPT !.pc = "stream", !.tmp = 0] /\ outcome' = outcome
    BY <1>1, <1>10, <2>1, MoveTypes DEF Request
  <2>3. call'[p].pc = "stream"
    BY <1>1, <2>2, LocalsFields DEF Locals
  <2>4. requests'[p] = requests[p] + 1 /\ call[p].pc = "request" /\ retries' = retries
    BY <1>1, <1>10 DEF Request, At
  <2>5. Retried[p] = requests[p] /\ Retried'[p] = requests[p]
    BY <1>1, <2>3, <2>4 DEF Retried
  <2>. QED
    BY <1>1, <1>3, <2>2, <2>3, <2>4, <2>5 DEF Settled
<1>11. CASE Received(p) \/ Blank(p)
  <2>1. call'[p].pc = "validate" /\ outcome' = outcome
    <3>1. CASE Received(p)
      BY <1>1, <3>1, LocalsFields DEF Received, Becomes, TypeOK, Locals
    <3>2. CASE Blank(p)
      BY <1>1, <3>2, LocalsFields DEF Blank, Becomes, TypeOK, Locals
    <3>. QED
      BY <1>11, <3>1, <3>2
  <2>2. call[p].pc \in {"stream", "blank"} /\ UNCHANGED <<requests, retries>>
    BY <1>11 DEF Received, Blank, At, history
  <2>. QED
    BY <1>6, <1>8, <2>1, <2>2
<1>12. CASE IoError(p)
  <2>1. call[p].pc \in {"blank", "place"} /\ UNCHANGED <<requests, retries>> /\ Settle(p, "raised")
    BY <1>12 DEF IoError, At, history
  <2>. QED
    BY <1>5, <1>8, <2>1 DEF Settled
<1>13. CASE \E e \in Error, bytes \in 0..MaxBytes : Fails(p, e, bytes)
  <2>1. PICK e \in Error, bytes \in 0..MaxBytes : Fails(p, e, bytes)
    BY <1>13
  <2>2. call[p].pc = "stream" /\ requests' = requests /\ requests[p] > 0
    BY <1>8, <2>1 DEF Fails, At
  <2> DEFINE again == [call[p] EXCEPT !.pc = "request", !.tmp = bytes, !.attempt = @ + 1]
  <2>3. CASE Retryable(e) /\ MayRetry(p, bytes)
    <3>1. Becomes(p, again) /\ retries' = retries + 1
      BY <2>1, <2>3 DEF Fails, Recorded
    <3>2. call'[p] = again /\ outcome' = outcome
      BY <1>1, <3>1 DEF Becomes, TypeOK
    <3>3. call'[p].pc = "request"
      BY <1>1, <3>2, LocalsFields DEF Locals
    <3>4. Retried[p] = requests[p] - 1 /\ Retried'[p] = requests[p]
      BY <1>1, <2>2, <3>3 DEF Retried
    <3>. QED
      BY <1>1, <1>3, <2>2, <3>1, <3>2, <3>3, <3>4 DEF Settled
  <2>4. CASE ~ (Retryable(e) /\ MayRetry(p, bytes))
    <3>1. retries' = retries /\ (Settle(p, "failed") \/ Go(p, "blank") \/ Settle(p, "raised"))
      BY <2>1, <2>4 DEF Fails
    <3>. QED
      BY <1>5, <1>7, <2>2, <3>1 DEF Settled
  <2>. QED
    BY <2>3, <2>4
<1>14. CASE Validate(p) \/ ValidateEnd(p)
  <2>1. /\ call[p].pc \in {"validate", "records"} /\ UNCHANGED <<requests, retries>>
        /\ Go(p, "records") \/ Go(p, "place") \/ Settle(p, "failed")
    BY <1>14 DEF Validate, ValidateEnd, Passes, At, history
  <2>. QED
    BY <1>5, <1>7, <1>8, <2>1 DEF Settled
<1>15. CASE ValidateChunk(p)
  <2>1. call[p].pc = "records" /\ UNCHANGED <<requests, retries>>
    BY <1>15 DEF ValidateChunk, At, history
  <2>2. CASE Settle(p, "failed")
    BY <1>5, <1>8, <2>1, <2>2 DEF Settled
  <2>3. CASE ~ Settle(p, "failed")
    <3> DEFINE next == [call[p] EXCEPT !.done = @ + Cardinality(Chunk(p)),
                                       !.last = LastAfter(call[p].file, Chunk(p), @),
                                       !.seen = SeenAfter(call[p].file, Chunk(p), @)]
    <3>1. call'[p].pc = "records" /\ outcome' = outcome
      <4>1. Becomes(p, next)
        BY <1>15, <2>3 DEF ValidateChunk
      <4>2. call'[p] = next /\ outcome' = outcome
        BY <1>1, <4>1 DEF Becomes, TypeOK
      <4>3. next.pc = call[p].pc
        BY <1>1, LocalsFields DEF Locals
      <4>. QED
        BY <2>1, <4>2, <4>3
    <3>. QED
      BY <1>6, <1>8, <2>1, <3>1
  <2>. QED
    BY <2>2, <2>3
<1>16. CASE Place(p)
  <2>1. /\ call[p].pc = "place" /\ UNCHANGED <<requests, retries>>
        /\ Settle(p, "no_data") \/ Settle(p, "placed")
    BY <1>16 DEF Place, At, history
  <2>. QED
    BY <1>5, <1>8, <2>1 DEF Settled
<1>. QED
  BY <1>9, <1>10, <1>11, <1>12, <1>13, <1>14, <1>15, <1>16 DEF Call

\* When every call has returned, a request that was no retry is that of a settled partition.
LEMMA AllReported ==
    ASSUME IInv, RetriesCounted, Returned
    PROVE  AttemptsEstimated = Total(requests, Partition)
<1>1. In(Settled) \in SUBSET Partition
  BY DEF In
<1>2. \A p \in Partition :
          /\ Retried[p] \in Int
          /\ requests[p] = IF p \in In(Settled) THEN Retried[p] + 1 ELSE Retried[p]
  <2> SUFFICES ASSUME NEW p \in Partition
               PROVE  /\ Retried[p] \in Int
                      /\ requests[p] = IF p \in In(Settled) THEN Retried[p] + 1 ELSE Retried[p]
    OBVIOUS
  <2>1. Retried[p] \in Int /\ requests[p] \in Nat
    BY RetriedType, PartitionStreamAssumption DEF IInv, TypeOK
  <2>2. outcome[p] \in Settled \cup {"cached"} /\ call[p].pc = "ended"
    BY DEF Returned, In, RetriesCounted, Settled
  <2>. QED
    BY <2>1, <2>2 DEF RetriesCounted, In, Retried, Settled
<1>3. Total(requests, Partition) = Total(Retried, Partition) + Cardinality(In(Settled))
  BY <1>1, <1>2, PartitionStreamAssumption, TotalCount
<1>4. Total(Retried, Partition) \in Int /\ Cardinality(In(Settled)) \in Nat
  BY <1>1, <1>2, PartitionStreamAssumption, TotalType, FS_Subset, FS_CardinalityType
<1>. QED
  BY <1>3, <1>4 DEF AttemptsEstimated, RetriesCounted

LEMMA RetriesStep == IInv /\ RetriesCounted /\ [Next]_vars => RetriesCounted'
<1> SUFFICES ASSUME IInv, RetriesCounted, [Next]_vars
             PROVE  RetriesCounted'
  OBVIOUS
<1>1. ASSUME NEW p \in Partition, Call(p)
      PROVE  RetriesCounted'
  BY <1>1, CallRetries
<1>2. ASSUME UNCHANGED <<call, outcome, requests, retries>>, ledger' # {} => Returned,
             \A n \in ledger' : n = Total(requests, Partition)
      PROVE  RetriesCounted'
  <2>1. Retried' = Retried
    BY <1>2 DEF Retried
  <2>. QED
    BY <1>2, <2>1 DEF RetriesCounted, Returned, In, AttemptsReported
<1>3. CASE UNCHANGED <<call, outcome, requests, retries, ledger>>
  BY <1>2, <1>3 DEF RetriesCounted, AttemptsReported
<1>4. CASE WriteLedger
  BY <1>2, <1>4, AllReported DEF WriteLedger, history
<1>. QED
  BY <1>1, <1>3, <1>4 DEF Next, Step, Main, Collect, Quiet, vars, history, run

LEMMA RetriesInit == Init => RetriesCounted
<1> SUFFICES ASSUME Init
             PROVE  RetriesCounted
  OBVIOUS
<1>1. PICK bytes \in {0, MaxBytes} : call = [p \in Partition |-> NoCall("queued", bytes)]
  BY DEF Init
<1>2. \A p \in Partition : call[p].pc = "queued" /\ outcome[p] = "none" /\ requests[p] = 0
  BY <1>1 DEF Init, NoCall
<1>3. \A p \in Partition : Retried[p] = 0
  BY <1>2 DEF Retried
<1>4. Total(Retried, Partition) = 0
  BY <1>3, PartitionStreamAssumption, TotalZero
<1>. QED
  BY <1>2, <1>4 DEF Init, RetriesCounted, Returned, AttemptsReported, Settled

\* The attempts that a run reports are the requests it has made, for every number of
\* partitions and attempts, every answer and every order of the threads.
THEOREM AttemptsAreRequests == Spec => []AttemptsReported
<1>1. RetriesCounted => AttemptsReported
  BY DEF RetriesCounted
<1>. QED
  BY <1>1, CallsInvariant, RetriesInit, RetriesStep, PTL DEF Spec
=============================================================================
