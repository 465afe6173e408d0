---------------------------- MODULE LifecycleProofs ----------------------------
(***************************************************************************)
(* For every archive, every set of jobs, any number of runs and syncs:     *)
(* what exit code 0, the coverage manifest and the ledger tell, and what   *)
(* has been asked for before anything is spent.                            *)
(***************************************************************************)
EXTENDS RunLifecycle, TotalProofs, SequenceTheorems, TLAPS

-----------------------------------------------------------------------------
(* Scopes and sets of days *)

LEMMA PartFinite == IsFiniteSet(Part)
<1>1. IsFiniteSet(Days)
  <2>1. LastDay \in Int /\ 0 \in Int
    BY LifecycleAssumption
  <2>. QED
    BY ONLY <2>1, FS_Interval DEF Days
<1>. QED
  BY <1>1, LifecycleAssumption, FS_Product DEF Part

\* The configuration a job is run with, and its scope.
LEMMA ConfigType ==
    ASSUME job \in Job
    PROVE  /\ Scope \subseteq Part /\ IsFiniteSet(Scope)
           /\ config.validate_only \in BOOLEAN /\ config.validate_cached \in BOOLEAN
           /\ config.dry_run \in BOOLEAN /\ config.yes \in BOOLEAN
           /\ config.deep_validate \in BOOLEAN
<1>1. Invocations[job] \in Invocation(Key, Days)
  BY LifecycleAssumption
<1>2. /\ config = BuildConfig(Invocations[job])
      /\ Invocations[job].keys \subseteq Key
      /\ Invocations[job].start \in Days /\ Invocations[job].end \in Days
  BY <1>1 DEF config, Configs, Invocation
<1>3. config.keys \subseteq Key /\ config.start \in Days /\ config.end \in Days
  BY <1>2 DEF BuildConfig
<1>4. config.start..config.end \subseteq Days
  BY <1>3, LifecycleAssumption DEF Days
<1>5. Scope \subseteq Part
  BY <1>3, <1>4 DEF Scope, Effective, Part
<1>6. IsFiniteSet(Scope)
  BY <1>5, PartFinite, FS_Subset
<1>. QED
  BY <1>2, <1>5, <1>6 DEF BuildConfig

\* Both depend on the job alone.
LEMMA SameJob == job' = job => config' = config /\ Scope' = Scope
BY DEF config, Configs, Scope

\* A set of days that is not empty has a first and a last one.
LEMMA Extremes ==
    ASSUME NEW S \in SUBSET Days, S # {}
    PROVE  /\ Min(S) \in S /\ \A d \in S : Min(S) <= d
           /\ Max(S) \in S /\ \A d \in S : d <= Max(S)
<1>0. LastDay \in Nat /\ \A d \in S : d \in Nat /\ d <= LastDay
  BY LifecycleAssumption DEF Days
<1>1. \E x \in S : \A y \in S : x <= y
  <2>1. PICK x \in S : \A y \in S : ~ (<<y, x>> \in OpToRel(<, Nat))
    BY <1>0, NatLessThanWellFounded, WFMin
  <2>2. \A y \in S : ~ (y < x)
    BY <1>0, <2>1 DEF OpToRel
  <2>. QED
    BY <1>0, <2>2
<1>2. \E x \in S : \A y \in S : x >= y
  <2> DEFINE T == {LastDay - d : d \in S}
  <2>1. T \subseteq Nat /\ T # {}
    <3>1. \A d \in S : LastDay - d \in Nat
      BY <1>0
    <3>. QED
      BY <3>1
  <2>2. PICK x \in T : \A y \in T : ~ (<<y, x>> \in OpToRel(<, Nat))
    BY <2>1, NatLessThanWellFounded, WFMin
  <2>3. \A y \in T : ~ (y < x)
    BY <2>1, <2>2 DEF OpToRel
  <2>4. PICK d \in S : x = LastDay - d
    BY <2>2
  <2>5. \A e \in S : ~ (LastDay - e < LastDay - d)
    BY <2>3, <2>4
  <2>. QED
    BY <1>0, <2>5
<1>3. Min(S) \in S /\ \A d \in S : Min(S) <= d
  BY <1>1 DEF Min
<1>4. Max(S) \in S /\ \A d \in S : Max(S) >= d
  BY <1>2 DEF Max
<1>. QED
  BY <1>0, <1>3, <1>4

\* A span covers the days it is made of, and only days.
LEMMA HullCovers ==
    ASSUME NEW S \in SUBSET Days
    PROVE  S \subseteq Hull(S) /\ Hull(S) \subseteq Days
<1>1. CASE S = {}
  BY <1>1 DEF Hull
<1>2. CASE S # {}
  <2>1. /\ Min(S) \in Days /\ Max(S) \in Days
        /\ \A d \in S : d \in Days /\ Min(S) <= d /\ d <= Max(S)
    BY <1>2, Extremes
  <2>2. Hull(S) = Min(S)..Max(S)
    BY <1>2 DEF Hull
  <2>. QED
    BY ONLY <2>1, <2>2, LifecycleAssumption DEF Days
<1>. QED
  BY <1>1, <1>2

\* The days told of a bucket are days.
LEMMA DaysTyped ==
    ASSUME NEW P \in SUBSET Part, NEW k \in Key
    PROVE  DaysOf(P, k) \subseteq Days /\ \A d : <<k, d>> \in P => d \in DaysOf(P, k)
BY DEF DaysOf, Part

-----------------------------------------------------------------------------
(* Syncs *)

\* What is at one place: files, ledger, rotated ledgers.
Typed(b) ==
    /\ b.parts \in [Part -> Content]
    /\ b.ledger \in Seq(Records)
    /\ b.rotated \subseteq Records

\* What a sync plans is a state of the receiver with every file of the sender.
LEMMA PlannedTyped ==
    ASSUME NEW from, NEW to, Typed(from), Typed(to), NEW full \in Planned(from, to)
    PROVE  Typed(full) /\ Present(from.parts) \subseteq Present(full.parts)
<1> DEFINE differing == {p \in Present(from.parts) : from.parts[p] # to.parts[p]}
           unseen == {p \in differing : to.parts[p] # "absent"}
<1>1. PICK same \in SUBSET unseen, l \in {from.ledger, to.ledger} :
          full = [parts |-> [p \in Part |-> IF p \in differing \ same THEN from.parts[p]
                                            ELSE to.parts[p]],
                  ledger |-> l, rotated |-> to.rotated \cup from.rotated]
  BY DEF Planned
<1>2. /\ full.parts = [p \in Part |-> IF p \in differing \ same THEN from.parts[p]
                                      ELSE to.parts[p]]
      /\ full.ledger = l /\ full.rotated = to.rotated \cup from.rotated
  BY <1>1
<1>3. Typed(full)
  BY <1>2 DEF Typed
<1>4. ASSUME NEW p \in Present(from.parts)
      PROVE  p \in Present(full.parts)
  <2>1. p \in Part /\ from.parts[p] # "absent"
    BY DEF Present
  <2>2. full.parts[p] # "absent"
    BY <1>2, <2>1
  <2>. QED
    BY <2>1, <2>2 DEF Present
<1>. QED
  BY <1>3, <1>4

\* So is what has come when some of the transfers failed.
LEMMA PartOfTyped ==
    ASSUME NEW to, NEW full, Typed(to), Typed(full), NEW got \in PartOf(to, full)
    PROVE  Typed(got)
<1>1. PICK late \in SUBSET Part, l \in {to.ledger, full.ledger}, r \in {to.rotated, full.rotated} :
          got = [parts |-> [p \in Part |-> IF p \in late THEN to.parts[p] ELSE full.parts[p]],
                 ledger |-> l, rotated |-> r]
  BY DEF PartOf
<1>. QED
  BY <1>1 DEF Typed

\* The manifest of a sync tells at least of what the one before it told.
LEMMA SyncManifestTyped ==
    ASSUME manifest \in Manifests, NEW local \in SUBSET Part, NEW s3 \in SUBSET Part,
           runs + 1 \in 0..MaxRuns
    PROVE  /\ SyncManifest(local, s3) \in Manifests
           /\ manifest.expected \subseteq SyncManifest(local, s3).expected
<1> DEFINE expected ==
               UNION {{k} \X (PreviousSpan(k) \cup Hull(DaysOf(local \cup s3, k))) : k \in Key}
           told == manifest.expected \cup manifest.local \cup manifest.s3
<1>1. told \subseteq Part
  BY DEF Manifests
<1>2. \A k \in Key : DaysOf(told, k) \subseteq Days /\ DaysOf(local \cup s3, k) \subseteq Days
  BY <1>1, DaysTyped
<1>3. \A k \in Key : PreviousSpan(k) \subseteq Days /\ Hull(DaysOf(local \cup s3, k)) \subseteq Days
  BY <1>2, HullCovers DEF PreviousSpan
<1>4. expected \subseteq Part
  <2>1. ASSUME NEW p \in expected
        PROVE  p \in Part
    <3>1. PICK k \in Key : p \in {k} \X (PreviousSpan(k) \cup Hull(DaysOf(local \cup s3, k)))
      OBVIOUS
    <3>2. PreviousSpan(k) \cup Hull(DaysOf(local \cup s3, k)) \subseteq Days
      BY <1>3
    <3>. QED
      BY <3>1, <3>2 DEF Part
  <2>. QED
    BY <2>1
<1>5. ASSUME NEW p \in manifest.expected
      PROVE  p \in expected
  <2>1. p \in Part /\ p \in told
    BY <1>1
  <2>2. PICK k \in Key, d \in Days : p = <<k, d>>
    BY <2>1 DEF Part
  <2>3. d \in DaysOf(told, k)
    BY <1>1, <2>1, <2>2, DaysTyped
  <2>4. d \in PreviousSpan(k)
    BY <1>2, <2>3, HullCovers DEF PreviousSpan
  <2>. QED
    BY <2>2, <2>4
<1>6. SyncManifest(local, s3) = [run |-> runs + 1, local |-> local, s3 |-> s3, expected |-> expected]
  BY DEF SyncManifest
<1>7. SyncManifest(local, s3).expected = expected
  BY <1>6
<1>8. SyncManifest(local, s3) \in Manifests
  <2> HIDE DEF expected
  <2>. QED
    BY <1>4, <1>6 DEF Manifests
<1>. QED
  BY <1>5, <1>7, <1>8

-----------------------------------------------------------------------------
(* Types *)

FilesOK ==
    /\ archive \in [Part -> Content]
    /\ manifest \in Manifests /\ published \in Manifests
    /\ ledger \in Seq(Records) /\ rotated \subseteq Records
    /\ Typed(bucket)

RunOK ==
    /\ runs \in 0..MaxRuns /\ cmd \in {"none", "download", "push", "pull"}
    /\ job \in Job
    /\ pc \in {"idle", "preflight", "survey", "estimate", "decide", "stream", "validate",
               "manifest", "rotate", "append"}
    /\ exit \in {-1, 0, 1, 2, 3, 4, 5, 130, 137, 143}

WorkOK ==
    /\ work \subseteq Part /\ quote \in [Key -> Mills \cup {0}]
    /\ outcome \in [Part -> Outcome \cup {"none"}]
    /\ result \in Counts /\ issues \in Nat

LEMMA TypeParts == TypeOK <=> FilesOK /\ RunOK /\ WorkOK
BY DEF TypeOK, FilesOK, RunOK, WorkOK, Typed

\* Between runs there is no work; during one, it is part of the scope.
StageInv ==
    /\ pc # "idle" => runs >= 1 /\ cmd = "download"
    /\ work \subseteq Scope
    /\ pc \in {"idle", "preflight", "survey"} => work = {}
    /\ pc \in {"estimate", "decide", "stream", "rotate", "append"} => work # {}
    /\ pc = "validate" => work # {} \/ config.validate_only \/ config.validate_cached

\* The counts of a stream are those of disjoint parts of its work.
LEMMA CountTypes ==
    ASSUME job \in Job, work \subseteq Scope
    PROVE  /\ IsFiniteSet(work) /\ Cardinality(Scope) \in Nat /\ Cardinality(work) \in Nat
           /\ \A o : Count(o) \in Nat
           /\ Count("placed") + Count("no_data") + Count("failed") <= Cardinality(work)
           /\ Cardinality(work) <= Cardinality(Scope)
           /\ CachedCount \in Nat
<1> DEFINE W(o) == {p \in work : outcome[p] = o}
           two == W("placed") \cup W("no_data")
<1>1. IsFiniteSet(work) /\ Cardinality(work) <= Cardinality(Scope)
      /\ Cardinality(work) \in Nat /\ Cardinality(Scope) \in Nat
  BY ConfigType, FS_Subset, FS_CardinalityType
<1>2. \A o : W(o) \in SUBSET work
  OBVIOUS
<1>3. \A o : IsFiniteSet(W(o)) /\ Cardinality(W(o)) \in Nat
  BY <1>1, <1>2, FS_Subset, FS_CardinalityType
<1>4. W("placed") \cap W("no_data") = {} /\ two \cap W("failed") = {}
  OBVIOUS
<1>5. IsFiniteSet(two) /\ Cardinality(two) = Cardinality(W("placed")) + Cardinality(W("no_data"))
  <2>1. Cardinality(two) = Cardinality(W("placed")) + Cardinality(W("no_data")) - Cardinality({})
    <3> HIDE DEF W
    <3>. QED
      BY ONLY <1>3, <1>4, FS_Union
  <2>2. IsFiniteSet(two)
    BY <1>3, FS_Union
  <2> HIDE DEF W
  <2>. QED
    BY <1>3, <2>1, <2>2, FS_EmptySet
<1>6. Cardinality(two \cup W("failed")) = Cardinality(two) + Cardinality(W("failed")) - Cardinality({})
  <2> HIDE DEF W, two
  <2>. QED
    BY ONLY <1>3, <1>4, <1>5, FS_Union
<1>7. Cardinality(two \cup W("failed")) <= Cardinality(work)
  <2>1. two \cup W("failed") \in SUBSET work
    OBVIOUS
  <2>. QED
    BY ONLY <1>1, <2>1, FS_Subset
<1>8. \A o : Count(o) = Cardinality(W(o))
  BY DEF Count
<1>9. Count("placed") + Count("no_data") + Count("failed") <= Cardinality(work)
  <2> HIDE DEF W, two
  <2>. QED
    BY <1>1, <1>3, <1>5, <1>6, <1>7, <1>8, FS_EmptySet
<1>. QED
  <2> HIDE DEF W, two
  <2>. QED
    BY <1>1, <1>3, <1>8, <1>9 DEF CachedCount

\* What a run writes down of itself is a record, and its manifest a manifest.
LEMMA RecordType == TypeOK /\ StageInv /\ pc # "idle" => Record \in Records
<1> SUFFICES ASSUME TypeOK, StageInv, pc # "idle" PROVE Record \in Records
  OBVIOUS
<1>1. runs \in 1..MaxRuns /\ issues \in Nat /\ result \in Counts
  BY LifecycleAssumption DEF TypeOK, StageInv
<1>2. ExitCode \in {0, 3, 5}
  BY DEF ExitCode
<1>. QED
  BY <1>1, <1>2 DEF Record, Records

LEMMA RangeTyped == ASSUME NEW S, NEW s \in Seq(S) PROVE Range(s) \subseteq S
BY DEF Range

LEMMA FilesStep == TypeOK /\ StageInv /\ [Next]_vars => FilesOK'
<1> SUFFICES ASSUME TypeOK, StageInv, [Next]_vars PROVE FilesOK'
  OBVIOUS
<1>0. FilesOK /\ RunOK /\ WorkOK /\ Typed(Here) /\ Typed(bucket)
  BY TypeParts DEF FilesOK, Typed, Here
<1>1. CASE UNCHANGED files
  BY <1>0, <1>1 DEF files, FilesOK, Typed
<1>2. ASSUME archive' \in [Part -> Content],
             UNCHANGED <<manifest, ledger, rotated, bucket, published>>
      PROVE  FilesOK'
  BY <1>0, <1>2 DEF FilesOK, Typed
<1>3. ASSUME NEW p \in Part, Land(p)
      PROVE  FilesOK'
  <2>1. archive' \in [Part -> Content]
    BY <1>0, <1>3 DEF Land, Landing, FilesOK, Content, Valid
  <2>. QED
    BY <1>2, <1>3, <2>1 DEF Land
<1>4. CASE StopStream
  <2>1. archive' \in [Part -> Content]
    BY <1>0, <1>4 DEF StopStream, Landing, FilesOK, Content, Valid
  <2>. QED
    BY <1>2, <1>4, <2>1 DEF StopStream
<1>5. CASE WriteManifest
  <2>1. Scope \subseteq Part /\ Collected \subseteq Part /\ runs \in 0..MaxRuns
    BY <1>0, ConfigType DEF RunOK, Collected, Existing
  <2>2. manifest' \in Manifests
    BY <1>0, <1>5, <2>1 DEF WriteManifest, Manifests, FilesOK
  <2>. QED
    BY <1>0, <1>5, <2>2 DEF WriteManifest, FilesOK, Typed
<1>6. CASE Rotate
  <2>1. Range(ledger) \subseteq Records
    BY <1>0, RangeTyped DEF FilesOK
  <2>2. \/ ledger' = <<>> /\ rotated' = rotated \cup Range(ledger)
        \/ UNCHANGED <<ledger, rotated>>
    BY <1>6 DEF Rotate
  <2>3. ledger' \in Seq(Records)
    <3>1. <<>> \in Seq(Records)
      OBVIOUS
    <3>. QED
      BY ONLY <1>0, <2>2, <3>1 DEF FilesOK
  <2>4. rotated' \subseteq Records
    BY ONLY <1>0, <2>1, <2>2 DEF FilesOK
  <2>. QED
    BY <1>0, <1>6, <2>3, <2>4 DEF Rotate, FilesOK, Typed
<1>7. CASE WriteLedger
  <2>1. Record \in Records
    BY <1>7, RecordType DEF WriteLedger
  <2>2. ledger' \in Seq(Records)
    BY <1>0, <1>7, <2>1, AppendProperties DEF WriteLedger, Appended, FilesOK
  <2>. QED
    BY <1>0, <1>7, <2>2 DEF WriteLedger, FilesOK, Typed
<1>8. CASE Push
  <2>0. runs + 1 \in 0..MaxRuns
    BY <1>0, <1>8, LifecycleAssumption DEF Push, SyncBegins, RunOK
  <2>1. PICK full \in Planned(Here, bucket) :
             \/ UNCHANGED <<manifest, bucket, published>>
             \/ /\ bucket' \in PartOf(bucket, full)
                /\ \/ /\ manifest' = SyncManifest(Present(archive), Present(bucket'.parts))
                      /\ published' \in {manifest', published}
                   \/ UNCHANGED <<manifest, published>>
    BY <1>8 DEF Push
  <2>2. Typed(full)
    BY <1>0, PlannedTyped
  <2>3. Typed(bucket')
    BY <1>0, <2>1, <2>2, PartOfTyped
  <2>4. manifest' \in Manifests
    <3>1. Present(archive) \subseteq Part /\ Present(bucket'.parts) \subseteq Part
      BY DEF Present
    <3>2. SyncManifest(Present(archive), Present(bucket'.parts)) \in Manifests
      BY ONLY <1>0, <2>0, <3>1, SyncManifestTyped DEF FilesOK
    <3>. QED
      BY <1>0, <2>1, <3>2 DEF FilesOK
  <2>5. published' \in Manifests
    BY <1>0, <2>1, <2>4 DEF FilesOK
  <2>. QED
    BY <1>0, <1>8, <2>3, <2>4, <2>5 DEF Push, FilesOK, Typed
<1>9. CASE Pull
  <2>0. runs + 1 \in 0..MaxRuns
    BY <1>0, <1>9, LifecycleAssumption DEF Pull, SyncBegins, RunOK
  <2>1. PICK full \in Planned(bucket, Here) :
             \/ UNCHANGED <<archive, ledger, rotated, manifest>>
             \/ \E got \in PartOf(Here, full) :
                    /\ archive' = got.parts /\ ledger' = got.ledger /\ rotated' = got.rotated
                    /\ \/ manifest' = SyncManifest(Present(archive'), Present(bucket.parts))
                       \/ UNCHANGED manifest
    BY <1>9 DEF Pull
  <2>2. Typed(full)
    BY <1>0, PlannedTyped
  <2>3. CASE UNCHANGED <<archive, ledger, rotated, manifest>>
    BY <1>0, <1>9, <2>3 DEF Pull, FilesOK, Typed
  <2>4. ASSUME NEW got \in PartOf(Here, full),
               archive' = got.parts, ledger' = got.ledger, rotated' = got.rotated,
               \/ manifest' = SyncManifest(Present(archive'), Present(bucket.parts))
               \/ UNCHANGED manifest
        PROVE  FilesOK'
    <3>1. Typed(got)
      BY <1>0, <2>2, PartOfTyped
    <3>2. Present(archive') \subseteq Part /\ Present(bucket.parts) \subseteq Part
      BY DEF Present
    <3>3. SyncManifest(Present(archive'), Present(bucket.parts)) \in Manifests
      BY ONLY <1>0, <2>0, <3>2, SyncManifestTyped DEF FilesOK
    <3>. QED
      BY <1>0, <1>9, <2>4, <3>1, <3>3 DEF Pull, FilesOK, Typed
  <2>. QED
    BY <2>1, <2>3, <2>4
<1>10. CASE Begin \/ Preflight \/ Survey \/ Estimate \/ Decide \/ StreamReturns \/ Validate \/ Cut
  BY <1>1, <1>10 DEF Begin, Preflight, Survey, Estimate, Decide, StreamReturns, Validate, Cut
<1>11. CASE UNCHANGED vars
  BY <1>1, <1>11 DEF vars
<1>. QED
  BY <1>3, <1>4, <1>5, <1>6, <1>7, <1>8, <1>9, <1>10, <1>11 DEF Next

LEMMA RunStep == TypeOK /\ [Next]_vars => RunOK'
<1> SUFFICES ASSUME TypeOK, [Next]_vars PROVE RunOK'
  OBVIOUS
<1> USE LifecycleAssumption DEF RunOK, Goto, End, run
<1>0. RunOK
  BY TypeParts
<1>1. CASE Begin \/ Push \/ Pull
  BY <1>0, <1>1 DEF Begin, Push, Pull, SyncBegins
<1>2. CASE Preflight \/ Survey \/ Estimate \/ Decide \/ Validate \/ WriteManifest \/ Rotate
  BY <1>0, <1>2 DEF Preflight, Survey, Estimate, Decide, Validate, WriteManifest, Rotate
<1>3. CASE StopStream \/ StreamReturns \/ Cut \/ \E p \in Part : Land(p)
  BY <1>0, <1>3 DEF StopStream, StreamReturns, Cut, Interrupt, Kill, Land
<1>4. CASE WriteLedger
  BY <1>0, <1>4 DEF WriteLedger, ExitCode
<1>5. CASE UNCHANGED vars
  BY <1>0, <1>5 DEF vars
<1>. QED
  BY <1>1, <1>2, <1>3, <1>4, <1>5 DEF Next

LEMMA WorkStep == TypeOK /\ StageInv /\ [Next]_vars => WorkOK'
<1> SUFFICES ASSUME TypeOK, StageInv, [Next]_vars PROVE WorkOK'
  OBVIOUS
<1>0. WorkOK /\ RunOK /\ Scope \subseteq Part /\ IsFiniteSet(Scope)
  BY TypeParts, ConfigType DEF RunOK
<1>a. NoOutcome \in [Part -> Outcome \cup {"none"}] /\ NoResult \in Counts
      /\ NoQuote \in [Key -> Mills \cup {0}]
  BY DEF NoOutcome, NoResult, Counts, NoQuote
<1> USE DEF WorkOK, Goto, End
<1>1. CASE Begin \/ Preflight \/ Cut
  BY <1>0, <1>a, <1>1 DEF Begin, Preflight, Cut, Interrupt, Kill
<1>2. CASE Survey
  BY <1>0, <1>2 DEF Survey, Missing
<1>3. CASE Estimate
  BY <1>0, <1>3 DEF Estimate
<1>4. CASE Decide
  BY <1>0, <1>a, <1>4 DEF Decide
<1>5. CASE StopStream \/ \E p \in Part : Land(p)
  BY <1>0, <1>a, <1>5 DEF StopStream, Land, Outcome
<1>6. CASE StreamReturns
  <2>1. Count("placed") \in Nat /\ Count("no_data") \in Nat /\ Count("failed") \in Nat
        /\ CachedCount \in Nat
    BY <1>0, CountTypes DEF RunOK, StageInv
  <2>2. result' \in Counts
    BY <1>0, <1>6, <2>1 DEF StreamReturns, Counts
  <2>. QED
    BY <1>0, <1>a, <1>6, <2>2 DEF StreamReturns
<1>7. CASE Validate
  <2>1. Cardinality(Invalid) \in Nat
    BY <1>0, FS_Subset, FS_CardinalityType DEF Invalid, Existing
  <2>. QED
    BY <1>0, <1>7, <2>1 DEF Validate
<1>8. CASE WriteManifest \/ Rotate \/ WriteLedger
  BY <1>0, <1>8 DEF WriteManifest, Rotate, WriteLedger
<1>9. CASE Push \/ Pull
  BY <1>0, <1>9 DEF Push, Pull, SyncBegins
<1>10. CASE UNCHANGED vars
  BY <1>0, <1>10 DEF vars
<1>. QED
  BY <1>1, <1>2, <1>3, <1>4, <1>5, <1>6, <1>7, <1>8, <1>9, <1>10 DEF Next

LEMMA StageStep == TypeOK /\ StageInv /\ [Next]_vars => StageInv'
<1> SUFFICES ASSUME TypeOK, StageInv, [Next]_vars PROVE StageInv'
  OBVIOUS
<1>0. RunOK /\ runs \in Nat /\ pc \in {"idle", "preflight", "survey", "estimate", "decide", "stream",
                                      "validate", "manifest", "rotate", "append"}
  BY TypeParts, LifecycleAssumption DEF RunOK
<1>1. job' = job => Scope' = Scope /\ config' = config
  BY SameJob
<1> USE DEF StageInv, Goto, End, run
<1>2. CASE Begin
  <2>1. work' = {} /\ cmd' = "download" /\ runs' >= 1
        /\ pc' \in {"idle", "preflight", "survey"}
    BY <1>0, <1>2 DEF Begin
  <2>. QED
    BY <2>1
<1>3. CASE Preflight \/ Survey
  BY <1>0, <1>1, <1>3 DEF Preflight, Survey, Missing
<1>4. CASE Estimate \/ Decide
  BY <1>0, <1>1, <1>4 DEF Estimate, Decide
<1>5. CASE StopStream \/ StreamReturns \/ Cut \/ \E p \in Part : Land(p)
  BY <1>0, <1>1, <1>5 DEF StopStream, StreamReturns, Cut, Interrupt, Kill, Land
<1>6. CASE Validate \/ WriteManifest \/ Rotate \/ WriteLedger
  BY <1>0, <1>1, <1>6 DEF Validate, WriteManifest, Rotate, WriteLedger
<1>7. CASE Push \/ Pull
  BY <1>0, <1>1, <1>7 DEF Push, Pull, SyncBegins
<1>8. CASE UNCHANGED vars
  BY <1>0, <1>1, <1>8 DEF vars
<1>. QED
  BY <1>2, <1>3, <1>4, <1>5, <1>6, <1>7, <1>8 DEF Next

LEMMA TypeInit == Init => TypeOK /\ StageInv
<1> SUFFICES ASSUME Init PROVE TypeOK /\ StageInv
  OBVIOUS
<1>1. archive \in [Part -> Content] /\ Typed(bucket)
  BY LifecycleAssumption DEF Init, Typed
<1>2. NoManifest \in Manifests
  BY LifecycleAssumption DEF NoManifest, Manifests
<1>3. FilesOK
  BY <1>1, <1>2 DEF Init, FilesOK
<1>4. RunOK
  BY LifecycleAssumption DEF Init, RunOK
<1>5. WorkOK
  BY DEF Init, WorkOK, NoQuote, NoOutcome, NoResult, Counts
<1>6. StageInv
  BY DEF Init, StageInv
<1>. QED
  BY <1>3, <1>4, <1>5, <1>6, TypeParts

\* The files, the manifests and the ledgers keep their types, and every record tells of a run.
THEOREM TypesCorrect == Spec => [](TypeOK /\ StageInv)
<1>1. TypeOK /\ StageInv /\ [Next]_vars => TypeOK' /\ StageInv'
  <2>1. TypeOK /\ StageInv /\ [Next]_vars => FilesOK' /\ RunOK' /\ WorkOK'
    BY FilesStep, RunStep, WorkStep
  <2>2. FilesOK' /\ RunOK' /\ WorkOK' => TypeOK'
    BY DEF TypeOK, FilesOK, RunOK, WorkOK, Typed
  <2>. QED
    BY <2>1, <2>2, StageStep
<1>. QED
  BY <1>1, TypeInit, PTL DEF Spec

-----------------------------------------------------------------------------
(* What a run has established *)

\* The counts tell of the archive.
Told ==
    /\ result.failed = Cardinality(Missing)
    /\ result.placed + result.no_data + result.failed + result.cached = Cardinality(Scope)

CoverInv ==
    /\ pc \in {"survey", "estimate", "decide", "stream", "rotate", "append"} =>
           ~config.validate_only
    /\ pc # "stream" => outcome = NoOutcome
    /\ pc \in {"estimate", "decide"} => work = Missing
    /\ pc = "stream" => Missing = {p \in work : outcome[p] \in {"none", "failed"}}
    /\ pc \in {"validate", "manifest", "rotate", "append"} /\ work # {} =>
           Told /\ ~config.validate_only
    /\ pc \in {"preflight", "survey", "estimate", "decide", "stream"} => result = NoResult
    /\ pc \in {"validate", "manifest"} /\ work = {} =>
           result = NoResult /\ (config.validate_only \/ Missing = {})
    /\ pc = "manifest" /\ work = {} => Invalid = {}
    /\ pc \in {"manifest", "rotate", "append"} /\ config.validate_cached =>
           issues = Cardinality(Invalid)

\* What is missing and what is refused depends on the job and the files.
LEMMA SameArchive ==
    ASSUME job' = job, archive' = archive
    PROVE  /\ config' = config /\ Scope' = Scope
           /\ Missing' = Missing /\ Existing' = Existing /\ Invalid' = Invalid
BY SameJob DEF Missing, Existing, Invalid, Present

\* When every partition is settled the counts cover the scope, and what failed is missing.
LEMMA SettledTold ==
    ASSUME TypeOK, StageInv, pc = "stream", Unsettled = {},
           Missing = {p \in work : outcome[p] \in {"none", "failed"}}
    PROVE  /\ Count("failed") = Cardinality(Missing)
           /\ Count("placed") + Count("no_data") + Count("failed") + CachedCount
                = Cardinality(Scope)
<1>1. Missing = {p \in work : outcome[p] = "failed"}
  BY DEF Unsettled
<1>2. /\ Count("placed") \in Nat /\ Count("no_data") \in Nat /\ Count("failed") \in Nat
      /\ Cardinality(Scope) \in Nat
  BY CountTypes DEF TypeOK, StageInv
<1>3. Count("failed") = Cardinality(Missing)
  BY <1>1 DEF Count
<1>. QED
  BY ONLY <1>2, <1>3 DEF CachedCount

LEMMA CoverStep == TypeOK /\ StageInv /\ CoverInv /\ [Next]_vars => CoverInv'
<1> SUFFICES ASSUME TypeOK, StageInv, CoverInv, [Next]_vars PROVE CoverInv'
  OBVIOUS
<1>0. /\ pc \in {"idle", "preflight", "survey", "estimate", "decide", "stream", "validate",
                 "manifest", "rotate", "append"}
      /\ job \in Job /\ IsFiniteSet(Scope)
      /\ config.validate_only \in BOOLEAN /\ config.validate_cached \in BOOLEAN
  BY ConfigType DEF TypeOK
<1>1. UNCHANGED <<job, archive>> =>
          /\ config' = config /\ Scope' = Scope
          /\ Missing' = Missing /\ Existing' = Existing /\ Invalid' = Invalid
  BY SameArchive
<1>2. ASSUME pc' = "idle", outcome' = NoOutcome
      PROVE  CoverInv'
  BY <1>2 DEF CoverInv
<1>3. CASE Begin
  <2>1. CASE pc' = "idle"
    BY <1>2, <1>3, <2>1 DEF Begin
  <2>2. CASE pc' # "idle"
    <3>1. /\ pc' \in {"preflight", "survey"} /\ outcome' = NoOutcome /\ result' = NoResult
          /\ pc' = "survey" => ~config'.validate_only
      BY <1>3, <2>2 DEF Begin, End
    <3>. QED
      BY <3>1 DEF CoverInv
  <2>. QED
    BY <2>1, <2>2
<1>4. CASE Preflight
  <2>1. UNCHANGED <<job, archive, outcome, result>> /\ outcome = NoOutcome /\ result = NoResult
    BY <1>4 DEF Preflight, files, run, CoverInv
  <2>2. CASE pc' = "idle"
    BY <1>2, <2>1, <2>2
  <2>3. CASE pc' # "idle"
    <3>1. work' = {} /\ pc' = IF config.validate_only THEN "validate" ELSE "survey"
      BY <1>4, <2>3 DEF Preflight, Goto, End, StageInv
    <3>. QED
      BY <1>0, <1>1, <2>1, <3>1 DEF CoverInv
  <2>. QED
    BY <2>2, <2>3
<1>5. CASE Survey
  <2>1. /\ UNCHANGED <<job, archive, outcome, result>> /\ outcome = NoOutcome
        /\ result = NoResult /\ ~config.validate_only /\ work = {}
    BY <1>5 DEF Survey, files, run, CoverInv, StageInv
  <2>2. \/ pc' = "estimate" /\ work' = Missing
        \/ pc' = "validate" /\ work' = {} /\ Missing = {}
        \/ pc' = "idle"
    BY <1>5, <2>1 DEF Survey, Goto, End
  <2>. QED
    BY <1>1, <1>2, <2>1, <2>2 DEF CoverInv
<1>6. CASE Estimate
  <2>1. /\ UNCHANGED <<job, archive, outcome, result>> /\ outcome = NoOutcome
        /\ result = NoResult /\ ~config.validate_only /\ work = Missing
    BY <1>6 DEF Estimate, files, run, CoverInv
  <2>2. pc' = "idle" \/ (pc' = "decide" /\ work' = work)
    BY <1>6 DEF Estimate, Goto, End
  <2>. QED
    BY <1>1, <1>2, <2>1, <2>2 DEF CoverInv
<1>7. CASE Decide
  <2>1. /\ UNCHANGED <<job, archive, outcome, result>> /\ outcome = NoOutcome
        /\ result = NoResult /\ ~config.validate_only /\ work = Missing
    BY <1>7 DEF Decide, files, run, CoverInv
  <2>2. pc' = "idle" \/ (pc' = "stream" /\ work' = work)
    BY <1>7 DEF Decide, Goto, End
  <2>3. work = {p \in work : NoOutcome[p] \in {"none", "failed"}}
    BY ConfigType, <1>0, <2>1 DEF NoOutcome, Missing
  <2>. QED
    BY <1>1, <1>2, <2>1, <2>2, <2>3 DEF CoverInv
<1>8. ASSUME NEW p \in Part, Land(p)
      PROVE  CoverInv'
  <2>1. /\ pc = "stream" /\ pc' = "stream" /\ p \in work /\ outcome[p] = "none"
        /\ UNCHANGED <<job, work, result>> /\ result = NoResult /\ ~config.validate_only
        /\ Missing = {q \in work : outcome[q] \in {"none", "failed"}}
    BY <1>8 DEF Land, run, Unsettled, CoverInv
  <2>2. config' = config /\ Scope' = Scope
    BY <2>1, SameJob
  <2>3. p \in Scope /\ archive[p] = "absent"
    BY <2>1 DEF Missing, Present, StageInv
  <2>4. CASE archive' = archive /\ outcome' = [outcome EXCEPT ![p] = "failed"]
    <3>1. Missing' = {q \in work : outcome'[q] \in {"none", "failed"}}
      BY <1>1, <2>1, <2>4 DEF TypeOK
    <3>. QED
      BY <2>1, <2>2, <3>1 DEF CoverInv
  <2>5. ASSUME NEW c \in Content \ {"absent"}, archive' = [archive EXCEPT ![p] = c],
               NEW o \in {"placed", "no_data"}, outcome' = [outcome EXCEPT ![p] = o]
        PROVE  CoverInv'
    <3>1. Missing' = Missing \ {p}
      BY <2>2, <2>5 DEF Missing, Present, TypeOK
    <3>2. {q \in work : outcome'[q] \in {"none", "failed"}}
              = {q \in work : outcome[q] \in {"none", "failed"}} \ {p}
      BY <2>5 DEF TypeOK
    <3>. QED
      BY <2>1, <2>2, <3>1, <3>2 DEF CoverInv
  <2>. QED
    BY <1>8, <2>4, <2>5 DEF Land, Landing, Content, Valid
<1>9. CASE StopStream \/ Cut
  BY <1>2, <1>9 DEF StopStream, Cut, Interrupt, Kill, End
<1>10. CASE StreamReturns
  <2>1. CASE pc' = "idle"
    BY <1>2, <1>10, <2>1 DEF StreamReturns
  <2>2. CASE pc' # "idle"
    <3>1. /\ pc' = IF config.validate_cached THEN "validate" ELSE "manifest"
          /\ UNCHANGED <<job, archive, work>> /\ outcome' = NoOutcome /\ work # {}
          /\ ~config.validate_only
          /\ result' = [placed |-> Count("placed"), no_data |-> Count("no_data"),
                        failed |-> Count("failed"), cached |-> CachedCount]
      BY <1>10, <2>2 DEF StreamReturns, files, run, Goto, End, StageInv, CoverInv
    <3>2. /\ Count("failed") = Cardinality(Missing)
          /\ Count("placed") + Count("no_data") + Count("failed") + CachedCount
               = Cardinality(Scope)
      BY <1>10, SettledTold DEF StreamReturns, CoverInv
    <3>3. Told'
      BY <1>1, <3>1, <3>2 DEF Told
    <3>. QED
      BY <1>0, <1>1, <3>1, <3>3 DEF CoverInv
  <2>. QED
    BY <2>1, <2>2
<1>11. CASE Validate
  <2>1. CASE pc' = "idle"
    BY <1>2, <1>11, <2>1 DEF Validate, CoverInv
  <2>2. CASE pc' # "idle"
    <3>1. /\ pc = "validate" /\ pc' = "manifest" /\ issues' = Cardinality(Invalid)
          /\ UNCHANGED <<job, archive, work, outcome, result>>
          /\ work = {} => Invalid = {}
      BY <1>11, <2>2 DEF Validate, files, run, End
    <3>2. Told => Told'
      BY <1>1, <3>1 DEF Told
    <3>. QED
      BY <1>0, <1>1, <3>1, <3>2 DEF CoverInv
  <2>. QED
    BY <2>1, <2>2
<1>12. CASE WriteManifest \/ Rotate \/ WriteLedger
  <2>1. /\ UNCHANGED <<job, archive, outcome, result>> /\ outcome = NoOutcome
        /\ pc \in {"manifest", "rotate", "append"}
    BY <1>12 DEF WriteManifest, Rotate, WriteLedger, run, CoverInv
  <2>2. Told => Told'
    BY <1>1, <2>1 DEF Told
  <2>3. \/ pc' = "idle"
        \/ /\ pc' \in {"rotate", "append"} /\ work # {} /\ UNCHANGED <<work, issues>>
    BY <1>12 DEF WriteManifest, Rotate, WriteLedger, Goto, End, StageInv
  <2>. QED
    BY <1>0, <1>1, <1>2, <2>1, <2>2, <2>3 DEF CoverInv
<1>13. CASE Push \/ Pull
  <2>1. pc' = "idle" /\ outcome' = NoOutcome
    BY <1>13 DEF Push, Pull, SyncBegins, CoverInv
  <2>. QED
    BY <1>2, <2>1
<1>14. CASE UNCHANGED vars
  <2>1. Told => Told'
    BY <1>1, <1>14 DEF Told, vars, files, run
  <2>. QED
    BY <1>1, <1>14, <2>1 DEF vars, files, run, CoverInv
<1>. QED
  BY <1>3, <1>4, <1>5, <1>6, <1>7, <1>8, <1>9, <1>10, <1>11, <1>12, <1>13, <1>14 DEF Next

-----------------------------------------------------------------------------
(* Exit code 0 *)

LEMMA ZeroStep ==
    TypeOK /\ StageInv /\ CoverInv /\ ZeroMeansCovered /\ [Next]_vars => ZeroMeansCovered'
<1> SUFFICES ASSUME TypeOK, StageInv, CoverInv, ZeroMeansCovered, [Next]_vars
             PROVE  ZeroMeansCovered'
  OBVIOUS
<1>0. /\ job \in Job /\ issues \in Nat /\ result \in Counts /\ IsFiniteSet(Scope)
      /\ config.validate_only \in BOOLEAN /\ config.validate_cached \in BOOLEAN
  BY ConfigType DEF TypeOK
<1>1. UNCHANGED <<job, archive>> =>
          config' = config /\ Missing' = Missing /\ Invalid' = Invalid
  BY SameArchive
<1>2. ASSUME pc' # "idle" \/ cmd' # "download" \/ exit' # 0
      PROVE  ZeroMeansCovered'
  BY <1>2 DEF ZeroMeansCovered, Downloaded
<1>3. CASE Begin \/ Preflight \/ Estimate \/ StreamReturns \/ Validate \/ Rotate
  BY <1>2, <1>3 DEF Begin, Preflight, Estimate, StreamReturns, Validate, Rotate, Goto, End, StageInv
<1>4. CASE Survey
  BY <1>1, <1>2, <1>4 DEF Survey, Goto, End, files, run, CoverInv, ZeroMeansCovered
<1>5. CASE Decide
  BY <1>1, <1>2, <1>5 DEF Decide, Goto, End, files, run, CoverInv, ZeroMeansCovered
<1>6. CASE StopStream \/ Cut \/ \E p \in Part : Land(p)
  BY <1>2, <1>6 DEF StopStream, Cut, Interrupt, Kill, Land, End
<1>7. CASE WriteManifest
  <2>1. UNCHANGED <<job, archive>>
    BY <1>7 DEF WriteManifest, run
  <2>2. CASE pc' = "idle" /\ exit' = 0
    <3>1. work = {}
      BY <1>7, <2>2 DEF WriteManifest, Goto, End
    <3>. QED
      BY <1>0, <1>1, <1>7, <2>1, <3>1 DEF WriteManifest, CoverInv, ZeroMeansCovered
  <2>. QED
    BY <1>2, <2>2
<1>8. CASE WriteLedger
  <2>1. UNCHANGED <<job, archive>> /\ pc = "append"
    BY <1>8 DEF WriteLedger, run
  <2>2. CASE exit' = 0
    <3>1. result.failed = 0 /\ issues = 0
      BY <1>0, <1>8, <2>2 DEF WriteLedger, End, ExitCode, Counts
    <3>2. IsFiniteSet(Missing) /\ IsFiniteSet(Invalid)
      BY <1>0, FS_Subset DEF Missing, Invalid, Existing
    <3>3. Missing = {}
      BY <2>1, <3>1, <3>2, FS_EmptySet DEF CoverInv, Told, StageInv
    <3>4. config.validate_cached => Invalid = {}
      BY <2>1, <3>1, <3>2, FS_EmptySet DEF CoverInv
    <3>5. ~config.validate_only
      BY <2>1 DEF CoverInv
    <3>. QED
      BY <1>1, <2>1, <3>3, <3>4, <3>5 DEF ZeroMeansCovered
  <2>. QED
    BY <1>2, <2>2
<1>9. CASE Push \/ Pull
  BY <1>2, <1>9 DEF Push, Pull, SyncBegins
<1>10. CASE UNCHANGED vars
  BY <1>1, <1>10 DEF vars, files, run, ZeroMeansCovered, Downloaded
<1>. QED
  BY <1>3, <1>4, <1>5, <1>6, <1>7, <1>8, <1>9, <1>10 DEF Next

LEMMA Established == Spec => [](TypeOK /\ StageInv /\ CoverInv)
<1>1. Init => CoverInv
  BY DEF Init, CoverInv
<1>. QED
  BY <1>1, TypesCorrect, CoverStep, PTL DEF Spec

\* Exit code 0 means what a caller takes it to mean: nothing of the scope is missing, and
\* nothing in it is refused by the validation that was asked for.
THEOREM ZeroCovers == Spec => []ZeroMeansCovered
<1>1. Init => ZeroMeansCovered
  BY DEF Init, ZeroMeansCovered, Downloaded
<1>. QED
  BY <1>1, Established, ZeroStep, PTL DEF Spec

-----------------------------------------------------------------------------
(* The ledger *)

LEMMA LedgerStep ==
    TypeOK /\ StageInv /\ CoverInv /\ LedgerTells /\ [Next]_vars => LedgerTells'
<1> SUFFICES ASSUME TypeOK, StageInv, CoverInv, LedgerTells, [Next]_vars
             PROVE  LedgerTells'
  OBVIOUS
<1>0. /\ job \in Job /\ result \in Counts /\ IsFiniteSet(Scope)
  BY ConfigType DEF TypeOK
<1>1. UNCHANGED <<job, archive>> => Scope' = Scope /\ Missing' = Missing
  BY SameArchive
<1>2. ASSUME ~StreamedToTheEnd'
      PROVE  LedgerTells'
  BY <1>2 DEF LedgerTells
<1> USE DEF StreamedToTheEnd, Downloaded
<1>3. CASE Begin \/ Preflight \/ Survey \/ Estimate \/ Decide
  <2>1. result' = NoResult
    BY <1>3 DEF Begin, Preflight, Survey, Estimate, Decide, CoverInv
  <2>. QED
    BY <1>2, <2>1
<1>4. CASE StopStream \/ StreamReturns \/ Cut \/ \E p \in Part : Land(p)
  BY <1>2, <1>4 DEF StopStream, StreamReturns, Cut, Interrupt, Kill, Land, Goto, End
<1>5. CASE Validate \/ WriteManifest \/ Rotate
  <2>1. pc' = "idle" /\ exit' # 4 => work = {} /\ pc \in {"validate", "manifest"}
    BY <1>5 DEF Validate, WriteManifest, Rotate, Goto, End
  <2>2. result' = result
    BY <1>5 DEF Validate, WriteManifest, Rotate
  <2>3. pc' = "idle" /\ exit' # 4 => result' = NoResult
    BY <2>1, <2>2 DEF CoverInv
  <2>. QED
    BY <1>2, <2>3
<1>6. CASE WriteLedger
  <2>1. UNCHANGED <<job, archive, runs, result>> /\ pc = "append" /\ Told
    BY <1>6 DEF WriteLedger, run, CoverInv, StageInv
  <2>2. CASE ledger' = Append(ledger, Record) /\ exit' = ExitCode
    <3>1. Record \in Records /\ ledger \in Seq(Records)
      BY <2>1, RecordType DEF TypeOK
    <3>2. /\ ledger' # <<>> /\ Len(ledger') = Len(ledger) + 1
          /\ ledger'[Len(ledger) + 1] = Record
      BY <2>2, <3>1, AppendProperties
    <3>3. Last(ledger') = Record
      BY <3>2 DEF Last
    <3>4. /\ Record.run = runs /\ Record.exit_code = ExitCode /\ Record.counts = result
      BY DEF Record
    <3>5. (ExitCode = 3) = (Missing # {})
      <4>1. IsFiniteSet(Missing)
        BY <1>0, FS_Subset DEF Missing
      <4>2. Cardinality(Missing) \in Nat /\ (Cardinality(Missing) = 0 <=> Missing = {})
        BY <4>1, FS_EmptySet, FS_CardinalityType
      <4>. QED
        BY <2>1, <4>2 DEF Told, ExitCode
    <3>. QED
      BY <1>1, <2>1, <2>2, <3>2, <3>3, <3>4, <3>5 DEF LedgerTells, Told
  <2>. QED
    BY <1>2, <1>6, <2>2 DEF WriteLedger, Appended, End
<1>7. CASE Push \/ Pull
  BY <1>2, <1>7 DEF Push, Pull, SyncBegins
<1>8. CASE UNCHANGED vars
  BY <1>1, <1>8 DEF vars, files, run, LedgerTells
<1>. QED
  BY <1>3, <1>4, <1>5, <1>6, <1>7, <1>8 DEF Next

\* A run that streams to its end leaves its own record as the last one, with its exit code
\* and counts that add up to the scope.
THEOREM LedgerIsTrue == Spec => []LedgerTells
<1>1. Init => LedgerTells
  BY DEF Init, LedgerTells, StreamedToTheEnd, Downloaded
<1>. QED
  BY <1>1, Established, LedgerStep, PTL DEF Spec

LEMMA AppendKeeps ==
    ASSUME NEW S, NEW s \in Seq(S), NEW e
    PROVE  \A r \in Range(s) : r \in Range(Append(s, e))
<1> DEFINE T == S \cup {e}
<1>1. s \in Seq(T) /\ e \in T
  OBVIOUS
<1>2. /\ Append(s, e) \in Seq(T) /\ Len(Append(s, e)) = Len(s) + 1
      /\ \A i \in 1..Len(s) : Append(s, e)[i] = s[i]
  BY <1>1, AppendProperties
<1>3. DOMAIN s = 1..Len(s) /\ DOMAIN Append(s, e) = 1..(Len(s) + 1) /\ Len(s) \in Nat
  BY <1>1, <1>2, LenProperties
<1>4. ASSUME NEW i \in DOMAIN s
      PROVE  s[i] \in Range(Append(s, e))
  BY <1>2, <1>3, <1>4 DEF Range
<1>. QED
  BY <1>4 DEF Range

\* Moving the ledger aside and appending to it loses no record, wherever the run stops.
THEOREM RecordsKept == Spec => RunsKeepRecords
<1>1. TypeOK /\ [Next]_vars => (cmd' # "pull" => Kept \subseteq Kept') \/ UNCHANGED vars
  <2> SUFFICES ASSUME TypeOK, [Next]_vars, cmd' # "pull"
               PROVE  Kept \subseteq Kept'
    BY DEF vars
  <2>1. CASE UNCHANGED <<ledger, rotated>>
    BY <2>1 DEF Kept
  <2>2. CASE Rotate
    BY <2>2 DEF Rotate, Kept
  <2>3. CASE WriteLedger
    <3>1. CASE ledger' = Append(ledger, Record)
      <4>1. \A r \in Range(ledger) : r \in Range(ledger')
        BY <3>1, AppendKeeps DEF TypeOK
      <4>. QED
        BY <2>3, <4>1 DEF WriteLedger, Kept
    <3>. QED
      BY <2>1, <2>3, <3>1 DEF WriteLedger, Appended
  <2>4. CASE Pull
    BY <2>4 DEF Pull, SyncBegins
  <2>5. CASE UNCHANGED vars \/ Push \/ StopStream \/ \E p \in Part : Land(p)
    BY <2>1, <2>5 DEF vars, files, Push, StopStream, Land
  <2>6. CASE Begin \/ Preflight \/ Survey \/ Estimate \/ Decide \/ StreamReturns \/ Validate
             \/ WriteManifest \/ Cut
    BY <2>1, <2>6 DEF Begin, Preflight, Survey, Estimate, Decide, StreamReturns, Validate,
                      WriteManifest, Cut, files
  <2>. QED
    BY <2>2, <2>3, <2>4, <2>5, <2>6 DEF Next
<1>. QED
  BY <1>1, Established, PTL DEF Spec, RunsKeepRecords

-----------------------------------------------------------------------------
(* The coverage manifest *)

\* The manifest is of an earlier run until this one has written its own.
ManifestInv ==
    /\ manifest.run <= runs
    /\ pc \in {"preflight", "survey", "estimate", "decide", "stream", "validate", "manifest"} =>
           manifest.run < runs
    /\ pc \in {"rotate", "append"} =>
           manifest.run = runs /\ manifest.expected = Scope /\ manifest.local = Existing

\* What the manifest of a sync that ended well tells of both sides.
SyncTold ==
    /\ manifest.local = Present(archive)
    /\ manifest.s3 = Present(bucket.parts)
    /\ cmd = "push" => published = manifest /\ manifest.local \subseteq manifest.s3
    /\ cmd = "pull" => manifest.s3 \subseteq manifest.local

LEMMA PushTold ==
    TypeOK /\ ManifestInv /\ Push => (exit' = 0 /\ manifest'.run = runs' => SyncTold')
<1> SUFFICES ASSUME TypeOK, ManifestInv, Push, exit' = 0, manifest'.run = runs'
             PROVE  SyncTold'
  OBVIOUS
<1>1. /\ runs' = runs + 1 /\ cmd' = "push" /\ archive' = archive
      /\ runs \in Nat /\ manifest.run \in Nat
  BY LifecycleAssumption DEF Push, SyncBegins, TypeOK, Manifests
<1>2. manifest' # manifest
  BY <1>1 DEF ManifestInv
<1>3. PICK full \in Planned(Here, bucket) :
          /\ bucket' = full
          /\ manifest' = SyncManifest(Present(archive), Present(bucket'.parts))
          /\ published' = manifest'
  BY <1>2 DEF Push
<1>4. Present(archive) \subseteq Present(full.parts)
  <2>1. Typed(Here) /\ Typed(bucket)
    BY DEF TypeOK, Typed, Here
  <2>2. Here.parts = archive
    BY DEF Here
  <2>. QED
    BY <2>1, <2>2, PlannedTyped
<1>5. manifest'.local = Present(archive) /\ manifest'.s3 = Present(bucket'.parts)
  BY <1>3 DEF SyncManifest
<1>6. Present(archive)' = Present(archive) /\ Present(bucket.parts)' = Present(bucket'.parts)
  BY <1>1 DEF Present
<1>. QED
  BY <1>1, <1>3, <1>4, <1>5, <1>6 DEF SyncTold

LEMMA PullTold ==
    TypeOK /\ ManifestInv /\ Pull => (exit' = 0 /\ manifest'.run = runs' => SyncTold')
<1> SUFFICES ASSUME TypeOK, ManifestInv, Pull, exit' = 0, manifest'.run = runs'
             PROVE  SyncTold'
  OBVIOUS
<1>1. /\ runs' = runs + 1 /\ cmd' = "pull" /\ bucket' = bucket
      /\ runs \in Nat /\ manifest.run \in Nat
  BY LifecycleAssumption DEF Pull, SyncBegins, TypeOK, Manifests
<1>2. manifest' # manifest
  BY <1>1 DEF ManifestInv
<1>3. PICK full \in Planned(bucket, Here) :
          /\ archive' = full.parts
          /\ manifest' = SyncManifest(Present(archive'), Present(bucket.parts))
  BY <1>2 DEF Pull
<1>4. Present(bucket.parts) \subseteq Present(full.parts)
  <2>1. Typed(Here) /\ Typed(bucket)
    BY DEF TypeOK, Typed, Here
  <2>. QED
    BY <2>1, PlannedTyped
<1>5. manifest'.local = Present(archive') /\ manifest'.s3 = Present(bucket.parts)
  BY <1>3 DEF SyncManifest
<1>6. Present(archive)' = Present(archive') /\ Present(bucket.parts)' = Present(bucket.parts)
  BY <1>1 DEF Present
<1>. QED
  BY <1>1, <1>3, <1>4, <1>5, <1>6 DEF SyncTold

LEMMA ManifestStep ==
    TypeOK /\ StageInv /\ ManifestInv /\ [Next]_vars => ManifestInv'
<1> SUFFICES ASSUME TypeOK, StageInv, ManifestInv, [Next]_vars PROVE ManifestInv'
  OBVIOUS
<1>0. /\ runs \in Nat /\ manifest.run \in Nat
      /\ pc \in {"idle", "preflight", "survey", "estimate", "decide", "stream", "validate",
                 "manifest", "rotate", "append"}
  BY LifecycleAssumption DEF TypeOK, Manifests
<1>1. UNCHANGED <<job, archive>> => Scope' = Scope /\ Existing' = Existing
  BY SameArchive
<1>2. CASE Begin
  <2>1. manifest' = manifest /\ runs' = runs + 1 /\ pc' \in {"idle", "preflight", "survey"}
    BY <1>0, <1>2 DEF Begin, End, files
  <2>. QED
    BY <1>0, <2>1 DEF ManifestInv
<1>3. ASSUME UNCHANGED <<manifest, runs>>, pc # "idle",
             pc' = pc \/ pc' = "idle" \/ pc \notin {"rotate", "append"},
             pc' = pc \/ pc' \notin {"rotate", "append"},
             UNCHANGED <<job, archive>> \/ pc' \notin {"rotate", "append"}
      PROVE  ManifestInv'
  BY <1>0, <1>1, <1>3 DEF ManifestInv
<1>4. CASE Preflight \/ Survey \/ Estimate \/ Decide \/ Validate \/ StreamReturns \/ Cut
  BY <1>3, <1>4 DEF Preflight, Survey, Estimate, Decide, Validate, StreamReturns, Cut, Interrupt,
                    Kill, Goto, End, files, run
<1>5. CASE StopStream \/ \E p \in Part : Land(p)
  BY <1>3, <1>5 DEF StopStream, Land, End, run
<1>6. CASE WriteManifest
  <2>1. UNCHANGED <<job, archive, runs>> /\ pc' \in {"idle", "rotate"}
    BY <1>6 DEF WriteManifest, Goto, End, run
  <2>2. CASE manifest' = [run |-> runs, expected |-> Scope, local |-> Collected, s3 |-> {}]
    BY <1>0, <1>1, <2>1, <2>2 DEF ManifestInv, Collected
  <2>3. CASE manifest' = manifest /\ pc' = "idle"
    BY <2>1, <2>3 DEF ManifestInv
  <2>. QED
    BY <1>6, <2>2, <2>3 DEF WriteManifest, End
<1>7. CASE Rotate \/ WriteLedger
  <2>1. UNCHANGED <<job, archive, runs, manifest>> /\ pc \in {"rotate", "append"}
        /\ pc' \in {"idle", "append"}
    BY <1>7 DEF Rotate, WriteLedger, Goto, End, run
  <2>. QED
    BY <1>1, <2>1 DEF ManifestInv
<1>8. CASE Push \/ Pull
  <2>1. runs' = runs + 1 /\ pc' = "idle"
    BY <1>8 DEF Push, Pull, SyncBegins
  <2>2. manifest' = manifest \/ manifest'.run = runs + 1
    BY <1>8 DEF Push, Pull, SyncManifest
  <2>. QED
    BY <1>0, <2>1, <2>2 DEF ManifestInv
<1>9. CASE UNCHANGED vars
  BY <1>1, <1>9 DEF vars, files, run, ManifestInv
<1>. QED
  BY <1>2, <1>4, <1>5, <1>6, <1>7, <1>8, <1>9 DEF Next

\* Whoever ended well last, the manifest he wrote agrees with the files.
OwnTold ==
    StreamedToTheEnd \/ (Downloaded /\ exit = 0 /\ manifest.run = runs) =>
        manifest.run = runs /\ manifest.expected = Scope /\ manifest.local = Existing

LEMMA OwnStep ==
    TypeOK /\ StageInv /\ CoverInv /\ ManifestInv /\ OwnTold /\ [Next]_vars => OwnTold'
<1> SUFFICES ASSUME TypeOK, StageInv, CoverInv, ManifestInv, OwnTold, [Next]_vars
             PROVE  OwnTold'
  OBVIOUS
<1> USE DEF StreamedToTheEnd, Downloaded
<1>0. runs \in Nat /\ manifest.run \in Nat
  BY LifecycleAssumption DEF TypeOK, Manifests
<1>1. UNCHANGED <<job, archive>> => Scope' = Scope /\ Existing' = Existing
  BY SameArchive
<1>2. ASSUME pc' # "idle" \/ cmd' # "download" \/ exit' \notin {0, 3, 5}
      PROVE  OwnTold'
  BY <1>2 DEF OwnTold
<1>3. ASSUME result' = NoResult, manifest'.run # runs'
      PROVE  OwnTold'
  BY <1>3 DEF OwnTold
<1>4. CASE Begin
  BY <1>0, <1>3, <1>4 DEF Begin, files, ManifestInv
<1>5. CASE Preflight \/ Survey \/ Estimate \/ Decide
  <2>1. UNCHANGED <<manifest, runs, result>> /\ result = NoResult /\ manifest.run < runs
    BY <1>5 DEF Preflight, Survey, Estimate, Decide, files, run, CoverInv, ManifestInv
  <2>. QED
    BY <1>0, <1>3, <2>1
<1>6. CASE StopStream \/ StreamReturns \/ Cut \/ Rotate \/ \E p \in Part : Land(p)
  BY <1>2, <1>6 DEF StopStream, StreamReturns, Cut, Interrupt, Kill, Rotate, Land, Goto, End
<1>7. CASE Validate
  <2>1. CASE work = {}
    <3>1. UNCHANGED <<manifest, runs, result>> /\ result = NoResult /\ manifest.run < runs
      BY <1>7, <2>1 DEF Validate, files, run, CoverInv, ManifestInv
    <3>. QED
      BY <1>0, <1>3, <3>1
  <2>2. CASE work # {}
    BY <1>2, <1>7, <2>2 DEF Validate
  <2>. QED
    BY <2>1, <2>2
<1>8. CASE WriteManifest
  <2>1. CASE manifest' = [run |-> runs, expected |-> Scope, local |-> Collected, s3 |-> {}]
    BY <1>1, <1>8, <2>1 DEF WriteManifest, run, OwnTold, Collected
  <2>. QED
    BY <1>2, <1>8, <2>1 DEF WriteManifest, End
<1>9. CASE WriteLedger
  BY <1>1, <1>9 DEF WriteLedger, run, ManifestInv, OwnTold
<1>10. CASE Push \/ Pull
  BY <1>2, <1>10 DEF Push, Pull, SyncBegins
<1>11. CASE UNCHANGED vars
  BY <1>1, <1>11 DEF vars, files, run, OwnTold
<1>. QED
  BY <1>4, <1>5, <1>6, <1>7, <1>8, <1>9, <1>10, <1>11 DEF Next

SyncsTold == cmd \in {"push", "pull"} /\ exit = 0 /\ manifest.run = runs => SyncTold

LEMMA SyncsStep ==
    TypeOK /\ StageInv /\ ManifestInv /\ SyncsTold /\ [Next]_vars => SyncsTold'
<1> SUFFICES ASSUME TypeOK, StageInv, ManifestInv, SyncsTold, [Next]_vars PROVE SyncsTold'
  OBVIOUS
<1>1. CASE Push \/ Pull
  BY <1>1, PushTold, PullTold DEF SyncsTold
<1>2. ASSUME cmd' = "download"
      PROVE  SyncsTold'
  BY <1>2 DEF SyncsTold
<1>3. CASE Begin
  BY <1>2, <1>3 DEF Begin
<1>4. ASSUME pc # "idle", cmd' = cmd
      PROVE  SyncsTold'
  BY <1>2, <1>4 DEF StageInv
<1>5. CASE Preflight \/ Survey \/ Estimate \/ Decide \/ Validate \/ StreamReturns \/ StopStream
  BY <1>4, <1>5 DEF Preflight, Survey, Estimate, Decide, Validate, StreamReturns, StopStream, run
<1>6. CASE WriteManifest \/ Rotate \/ WriteLedger \/ Cut \/ \E p \in Part : Land(p)
  BY <1>4, <1>6 DEF WriteManifest, Rotate, WriteLedger, Cut, Land, run
<1>7. CASE UNCHANGED vars
  BY <1>7 DEF vars, files, run, SyncsTold, SyncTold, Present
<1>. QED
  BY <1>1, <1>3, <1>5, <1>6, <1>7 DEF Next

\* The manifest a run leaves agrees with the files: of its scope after a download, on both
\* sides after a sync.
THEOREM ManifestIsTrue == Spec => []ManifestAgrees
<1>1. Init => ManifestInv /\ OwnTold /\ SyncsTold
  BY DEF Init, NoManifest, ManifestInv, OwnTold, SyncsTold, StreamedToTheEnd, Downloaded
<1>2. OwnTold /\ SyncsTold => ManifestAgrees
  BY DEF OwnTold, SyncsTold, SyncTold, ManifestAgrees
<1>. QED
  BY <1>1, <1>2, Established, ManifestStep, OwnStep, SyncsStep, PTL DEF Spec

\* A day reported missing stays so until a sync brings it.
THEOREM HolesKept == Spec => HolesStay
<1>1. TypeOK /\ StageInv /\ [Next]_vars =>
          (cmd' \in {"push", "pull"} => Holes(manifest) \ Present(archive') \subseteq Holes(manifest'))
              \/ UNCHANGED vars
  <2> SUFFICES ASSUME TypeOK, StageInv, Next, cmd' \in {"push", "pull"}
               PROVE  Holes(manifest) \ Present(archive') \subseteq Holes(manifest')
    OBVIOUS
  <2>1. Push \/ Pull
    <3>1. ASSUME cmd' = cmd, pc # "idle"
          PROVE  FALSE
      BY <3>1 DEF StageInv
    <3>2. CASE Begin
      BY <3>2 DEF Begin
    <3>3. CASE Preflight \/ Survey \/ Estimate \/ Decide \/ Validate \/ StreamReturns \/ StopStream
      BY <3>1, <3>3 DEF Preflight, Survey, Estimate, Decide, Validate, StreamReturns, StopStream, run
    <3>4. CASE WriteManifest \/ Rotate \/ WriteLedger \/ Cut \/ \E p \in Part : Land(p)
      BY <3>1, <3>4 DEF WriteManifest, Rotate, WriteLedger, Cut, Land, run
    <3>. QED
      BY <3>2, <3>3, <3>4 DEF Next
  <2>2. runs + 1 \in 0..MaxRuns /\ manifest \in Manifests
    BY <2>1, LifecycleAssumption DEF Push, Pull, SyncBegins, TypeOK
  <2>3. ASSUME NEW local \in SUBSET Part, NEW s3 \in SUBSET Part,
               manifest' = SyncManifest(local, s3), local = Present(archive')
        PROVE  Holes(manifest) \ Present(archive') \subseteq Holes(manifest')
    <3>1. manifest.expected \subseteq manifest'.expected
      BY ONLY <2>2, <2>3, SyncManifestTyped
    <3>2. manifest'.local = Present(archive')
      BY <2>3 DEF SyncManifest
    <3>. QED
      BY <3>1, <3>2 DEF Holes
  <2>4. CASE manifest' = manifest
    <3>1. \A p \in Holes(manifest) : p \in Holes(manifest')
      BY <2>4
    <3>. QED
      BY <3>1
  <2>5. CASE Push
    <3>1. Present(archive') = Present(archive)
      BY <2>5 DEF Push
    <3>2. Present(archive') \subseteq Part /\ Present(bucket'.parts) \subseteq Part
      BY DEF Present
    <3>3. \/ manifest' = manifest
          \/ manifest' = SyncManifest(Present(archive'), Present(bucket'.parts))
      BY <2>5, <3>1 DEF Push
    <3>. QED
      BY <2>3, <2>4, <3>2, <3>3
  <2>6. CASE Pull
    <3>1. Present(archive') \subseteq Part /\ Present(bucket.parts) \subseteq Part
      BY DEF Present
    <3>2. \/ manifest' = manifest
          \/ manifest' = SyncManifest(Present(archive'), Present(bucket.parts))
      BY <2>6 DEF Pull
    <3>. QED
      BY <2>3, <2>4, <3>1, <3>2
  <2>. QED
    BY <2>1, <2>5, <2>6
<1>. QED
  BY <1>1, Established, PTL DEF Spec, HolesStay

-----------------------------------------------------------------------------
(* What a run may spend *)

\* SetToSeq lists every element of the set.
LEMMA ListsAll ==
    ASSUME NEW S, IsFiniteSet(S)
    PROVE  /\ SetToSeq(S) \in Seq(S) /\ Len(SetToSeq(S)) \in Nat
           /\ \A x \in S : \E i \in 1..Len(SetToSeq(S)) : SetToSeq(S)[i] = x
<1> DEFINE n == Cardinality(S)
           s == SetToSeq(S)
<1>1. n \in Nat /\ ExistsBijection(1..n, S)
  BY FS_CardinalityType
<1>2. \E f \in [1..n -> S] : IsInjective(f)
  BY <1>1 DEF ExistsBijection, Bijection, Injection
<1>3. s \in [1..n -> S] /\ IsInjective(s)
  BY <1>2 DEF SetToSeq
<1>4. IsFiniteSet(1..n) /\ Cardinality(1..n) = n
  <2>1. 1 \in Int /\ n \in Int
    BY <1>1
  <2> HIDE DEF n
  <2>2. IsFiniteSet(1..n) /\ Cardinality(1..n) = IF 1 > n THEN 0 ELSE n - 1 + 1
    BY ONLY <2>1, FS_Interval
  <2>. QED
    BY <1>1, <2>2
<1>5. s \in Surjection(1..n, S)
  <2>1. s \in Injection(1..n, S)
    BY <1>3 DEF Injection
  <2> HIDE DEF s
  <2>. QED
    BY <1>4, <2>1, FS_Injection
<1>6. s \in Seq(S) /\ Len(s) = n
  <2> HIDE DEF s, n
  <2>. QED
    BY <1>1, <1>3
<1>. QED
  BY <1>1, <1>5, <1>6 DEF Surjection

\* Every bucket that something is missing in is one that the plan's checks look at.
LEMMA PlannedKeys ==
    ASSUME work \subseteq Part
    PROVE  BusyKeys \subseteq Plan!BusyKeys /\ Plan!BusyKeys \subseteq Key
<1>1. IsFiniteSet(work)
  BY PartFinite, FS_Subset
<1> DEFINE parts == SetToSeq(work)
<1>2. /\ Len(parts) \in Nat
      /\ \A p \in work : \E i \in 1..Len(parts) : parts[i] = p
  BY <1>1, ListsAll
<1>3. InOrder = [i \in 1..Len(parts) |-> parts[i][1]]
  BY DEF InOrder
<1> HIDE DEF parts
<1>4. Len(InOrder) = Len(parts)
  BY <1>2, <1>3
<1>5. ASSUME NEW k \in BusyKeys
      PROVE  k \in Plan!BusyKeys
  <2>1. PICK p \in work : p[1] = k
    BY DEF BusyKeys
  <2>2. PICK i \in 1..Len(parts) : parts[i] = p
    BY <1>2
  <2>3. InOrder[i] = k /\ i \in Plan!Positions /\ k \in Key
    BY <1>3, <1>4, <2>1, <2>2 DEF Plan!Positions, Part
  <2>. QED
    BY <2>3 DEF Plan!BusyKeys, Plan!PositionsOf
<1>6. Plan!BusyKeys \subseteq Key
  BY DEF Plan!BusyKeys
<1>. QED
  BY <1>5, <1>6

LEMMA SameTotal == \A f, S : Plan!Total(f, S) = Total(f, S)
BY DEF Plan!Total, Total, Plan!FoldFunctionOnSet, Plan!MapThenFoldSet, FoldFunctionOnSet, MapThenFoldSet

\* What is rounded to c cents is less than half a cent more.
LEMMA HalfUp ==
    ASSUME NEW m \in Nat, NEW c \in Nat, Plan!HalfUpCents(m) <= c
    PROVE  m < 10 * c + 5
<1> DEFINE q == (m + 5) \div 10
           r == (m + 5) % 10
<1>1. q \in Nat /\ r \in Nat /\ r < 10 /\ m + 5 = 10 * q + r
  <2>1. m + 5 \in Nat /\ 10 \in Nat \ {0}
    OBVIOUS
  <2>. QED
    BY ONLY <2>1, DivMod
<1>2. q <= c
  BY DEF Plan!HalfUpCents
<1> HIDE DEF q, r
<1>. QED
  BY <1>1, <1>2

\* The cap that is named is the one that build_config takes.
LEMMA NamedCap ==
    ASSUME NEW flag \in Cap, NEW variable \in Cap
    PROVE  /\ Chosen(flag, variable) # None <=> {flag, variable} # {None}
           /\ Chosen(flag, variable) # None =>
                  Chosen(flag, variable) \in Nat /\ Named(flag, variable) = Chosen(flag, variable)
<1>1. Chosen(flag, variable) # None <=> {flag, variable} # {None}
  BY DEF Chosen
<1>2. ASSUME Chosen(flag, variable) # None
      PROVE  Chosen(flag, variable) \in Nat /\ Named(flag, variable) = Chosen(flag, variable)
  <2> DEFINE c == Chosen(flag, variable)
  <2>1. c \in {flag, variable} /\ c # None /\ (flag # None => c = flag)
    BY <1>2 DEF Chosen
  <2>2. \A d \in {flag, variable} : d # None /\ (flag # None => d = flag) => d = c
    BY <2>1 DEF Chosen
  <2>3. c \in Nat
    BY <2>1 DEF Cap
  <2> HIDE DEF c
  <2>4. Named(flag, variable) = c
    BY <2>1, <2>2 DEF Named
  <2>. QED
    BY <2>3, <2>4 DEF c
<1>. QED
  BY <1>1, <1>2

\* A run has been admitted, and has estimated what it is about to decide on.
AskedInv ==
    /\ pc # "idle" => Starts(Invocations[job], HighVolume)
    /\ pc = "decide" => \A k \in Key \ BusyKeys : quote[k] = 0

LEMMA AskedStep == TypeOK /\ StageInv /\ AskedInv /\ [Next]_vars => AskedInv'
<1> SUFFICES ASSUME TypeOK, StageInv, AskedInv, [Next]_vars
             PROVE  AskedInv'
  OBVIOUS
<1>1. ASSUME job' = job, pc # "idle", pc' # "decide"
      PROVE  AskedInv'
  BY <1>1 DEF AskedInv
<1>2. CASE Begin
  BY <1>2 DEF Begin, End, AskedInv
<1>3. CASE Preflight \/ Survey \/ Decide \/ StopStream \/ StreamReturns
  BY <1>1, <1>3 DEF Preflight, Survey, Decide, StopStream, StreamReturns, Goto, End, run
<1>4. CASE Validate \/ WriteManifest \/ Rotate \/ WriteLedger \/ Cut
  BY <1>1, <1>4 DEF Validate, WriteManifest, Rotate, WriteLedger, Cut, Interrupt, Kill, Goto, End, run
<1>5. CASE \E p \in Part : Land(p)
  BY <1>1, <1>5 DEF Land, run
<1>6. CASE Estimate
  <2>1. CASE pc' = "decide"
    <3>1. /\ work' = work /\ job' = job /\ pc = "estimate"
          /\ \E price : quote' = [k \in Key |-> IF k \in BusyKeys THEN price[k] ELSE 0]
      BY <1>6, <2>1 DEF Estimate, Goto, End, run
    <3>2. BusyKeys' = BusyKeys
      BY <3>1 DEF BusyKeys
    <3>. QED
      BY <3>1, <3>2 DEF AskedInv
  <2>2. CASE pc' # "decide"
    BY <1>1, <1>6, <2>2 DEF Estimate, run
  <2>. QED
    BY <2>1, <2>2
<1>7. CASE Push \/ Pull
  BY <1>7 DEF Push, Pull, SyncBegins, AskedInv
<1>8. CASE UNCHANGED vars
  BY <1>8 DEF vars, run, AskedInv, BusyKeys
<1>. QED
  BY <1>2, <1>3, <1>4, <1>5, <1>6, <1>7, <1>8 DEF Next

\* The step on which a run goes on to stream.
LEMMA StreamsOnlyAffordable ==
    ASSUME TypeOK, AskedInv, Decide, pc' = "stream"
    PROVE  LET i == Invocations[job]
               cap == Named(i.max_cost_cents, i.env.max_cost_cents)
               bucketCap == Named(i.max_cost_cents_per_bucket, i.env.max_cost_cents_per_bucket)
           IN  /\ "dry_run" \notin i.flags
               /\ {i.max_cost_cents, i.env.max_cost_cents} # {None}
               /\ Total(quote, Key) < 10 * cap + 5
               /\ {i.max_cost_cents_per_bucket, i.env.max_cost_cents_per_bucket} # {None} =>
                      \A k \in Key : quote[k] < 10 * bucketCap + 5
               /\ cap = 0 => /\ "allow_free_only" \in i.flags \/ i.env.allow_free_only
                             /\ \A k \in Key : quote[k] < 5
<1> DEFINE i == Invocations[job]
           cap == config.max_cost_cents
           bucketCap == config.max_cost_cents_per_bucket
<1>1. /\ i \in Invocation(Key, Days) /\ config = BuildConfig(i) /\ work \subseteq Part
      /\ quote \in [Key -> Nat] /\ IsFiniteSet(Key)
  <2>1. job \in Job /\ work \subseteq Part /\ quote \in [Key -> Mills \cup {0}]
    BY DEF TypeOK
  <2>2. i \in Invocation(Key, Days) /\ Mills \cup {0} \subseteq Nat /\ IsFiniteSet(Key)
    BY <2>1, LifecycleAssumption
  <2>3. config = BuildConfig(i)
    BY <2>1 DEF config, Configs
  <2>. QED
    BY <2>1, <2>2, <2>3
<1>2. /\ i.max_cost_cents \in Cap /\ i.env.max_cost_cents \in Cap
      /\ i.max_cost_cents_per_bucket \in Cap /\ i.env.max_cost_cents_per_bucket \in Cap
  BY <1>1 DEF Invocation, Environment
<1>3. /\ cap = Chosen(i.max_cost_cents, i.env.max_cost_cents)
      /\ bucketCap = Chosen(i.max_cost_cents_per_bucket, i.env.max_cost_cents_per_bucket)
      /\ config.dry_run = ("dry_run" \in i.flags)
      /\ config.allow_free_only = ("allow_free_only" \in i.flags \/ i.env.allow_free_only)
  BY <1>1 DEF BuildConfig
<1>4. Affordable /\ ~ config.dry_run /\ pc = "decide"
  BY DEF Decide, Goto, End
<1>5. cap # None /\ cap = 0 => config.allow_free_only
  BY <1>1, <1>4 DEF AskedInv, Starts, Admissible
<1> HIDE DEF i, cap, bucketCap
<1>6. /\ cap \in Nat /\ cap = Named(i.max_cost_cents, i.env.max_cost_cents)
      /\ {i.max_cost_cents, i.env.max_cost_cents} # {None}
  BY <1>2, <1>3, <1>4, NamedCap DEF Affordable, cap
<1>7. /\ BusyKeys \subseteq Plan!BusyKeys /\ Plan!BusyKeys \subseteq Key
      /\ \A k \in Key \ Plan!BusyKeys : quote[k] = 0
  BY <1>1, <1>4, PlannedKeys DEF AskedInv
<1>8. Total(quote, Key) < 10 * cap + 5
  <2>1. Total(quote, Plan!BusyKeys) \in Nat
    BY <1>1, <1>7, TotalNat
  <2>2. Plan!HalfUpCents(Total(quote, Plan!BusyKeys)) <= cap
    BY <1>4, SameTotal DEF Affordable, Plan!CheckCostCap, Plan!TotalCents, cap
  <2>3. Total(quote, Key) = Total(quote, Plan!BusyKeys)
    <3> DEFINE B == Plan!BusyKeys
               R == Key \ B
    <3>1. /\ IsFiniteSet(B) /\ IsFiniteSet(R) /\ B \cap R = {} /\ B \cup R = Key
          /\ (\A k \in B \cup R : quote[k] \in Int) /\ \A k \in R : quote[k] = 0
      BY <1>1, <1>7, FS_Subset
    <3>2. Total(quote, B) \in Nat
      BY <2>1
    <3> HIDE DEF B, R
    <3>3. Total(quote, B \cup R) = Total(quote, B) + Total(quote, R)
      BY <3>1, TotalUnion
    <3>4. Total(quote, R) = 0
      BY <3>1, TotalZero
    <3>5. Total(quote, Key) = Total(quote, B \cup R)
      <4>1. B \cup R = Key
        BY <3>1
      <4>. QED
        BY ONLY <4>1, Zenon
    <3>6. Total(quote, Key) = Total(quote, B)
      BY <3>2, <3>3, <3>4, <3>5
    <3>. QED
      BY <3>6 DEF B
  <2>. QED
    BY <1>6, <2>1, <2>2, <2>3, HalfUp
<1>9. ASSUME {i.max_cost_cents_per_bucket, i.env.max_cost_cents_per_bucket} # {None}, NEW k \in Key
      PROVE  quote[k] < 10 * Named(i.max_cost_cents_per_bucket, i.env.max_cost_cents_per_bucket) + 5
  <2>1. /\ bucketCap # None /\ bucketCap \in Nat
        /\ bucketCap = Named(i.max_cost_cents_per_bucket, i.env.max_cost_cents_per_bucket)
    BY <1>2, <1>3, <1>9, NamedCap
  <2>2. CASE k \in Plan!BusyKeys
    <3>1. Plan!HalfUpCents(quote[k]) <= bucketCap
      BY <1>4, <2>1, <2>2 DEF Affordable, Plan!CheckBucketCaps, Plan!KeyCents, bucketCap
    <3>. QED
      BY <1>1, <2>1, <3>1, HalfUp
  <2>3. CASE k \notin Plan!BusyKeys
    BY <1>7, <2>1, <2>3
  <2>. QED
    BY <2>2, <2>3
<1>10. ASSUME cap = 0, NEW k \in Key
       PROVE  quote[k] < 5
  <2>1. CASE k \in Plan!BusyKeys
    <3>1. Plan!HalfUpCents(quote[k]) = 0
      BY <1>4, <1>10, <2>1 DEF Affordable, Plan!CheckBucketCaps, Plan!KeyCents, cap
    <3>. QED
      BY <1>1, <3>1, HalfUp
  <2>2. CASE k \notin Plan!BusyKeys
    BY <1>7, <2>2
  <2>. QED
    BY <2>1, <2>2
<1>11. cap = 0 => "allow_free_only" \in i.flags \/ i.env.allow_free_only
  <2>1. cap # None
    BY <1>6 DEF None
  <2>. QED
    BY <1>3, <1>5, <2>1, Zenon
<1>. QED
  BY <1>3, <1>4, <1>6, <1>8, <1>9, <1>10, <1>11 DEF i

\* Nothing is asked of Databento by --validate-only or without a key, and nothing streamed
\* that a named cap, rounded once, and the cap per bucket do not allow: for every command
\* line and environment, every set of buckets and every estimate of them.
THEOREM OnlyAskedIsSpent == Spec => SpendsOnlyAsked
<1> DEFINE Asked ==
        LET i == Invocations[job]
            cap == Named(i.max_cost_cents, i.env.max_cost_cents)
            bucketCap == Named(i.max_cost_cents_per_bucket, i.env.max_cost_cents_per_bucket)
            total == Total(quote, Key)
        IN  /\ pc # pc' /\ pc' \in {"decide", "stream"} =>
                   "validate_only" \notin i.flags /\ i.env.api_key
            /\ pc # pc' /\ pc' = "stream" =>
                   /\ "dry_run" \notin i.flags
                   /\ {i.max_cost_cents, i.env.max_cost_cents} # {None}
                   /\ total < 10 * cap + 5
                   /\ {i.max_cost_cents_per_bucket, i.env.max_cost_cents_per_bucket} # {None} =>
                          \A k \in Key : quote[k] < 10 * bucketCap + 5
                   /\ cap = 0 => /\ "allow_free_only" \in i.flags \/ i.env.allow_free_only
                                 /\ \A k \in Key : quote[k] < 5
<1>1. Init => AskedInv
  BY DEF Init, AskedInv
<1>2. TypeOK /\ StageInv /\ CoverInv /\ AskedInv /\ [Next]_vars => Asked \/ UNCHANGED vars
  <2> SUFFICES ASSUME TypeOK, StageInv, CoverInv, AskedInv, Next, pc # pc',
                      pc' \in {"decide", "stream"}
               PROVE  Asked
    OBVIOUS
  <2>1. \/ Estimate /\ pc' = "decide"
        \/ Decide /\ pc' = "stream"
    <3>1. CASE Begin \/ Preflight \/ Survey \/ Estimate \/ Decide
      BY <3>1 DEF Begin, Preflight, Survey, Estimate, Decide, Goto, End
    <3>2. CASE StopStream \/ StreamReturns \/ Cut \/ \E p \in Part : Land(p)
      BY <3>2 DEF StopStream, StreamReturns, Cut, Interrupt, Kill, Land, Goto, End
    <3>3. CASE Validate \/ WriteManifest \/ Rotate \/ WriteLedger
      BY <3>3 DEF Validate, WriteManifest, Rotate, WriteLedger, Goto, End
    <3>4. CASE Push \/ Pull
      BY <3>4 DEF Push, Pull, SyncBegins
    <3>. QED
      BY <3>1, <3>2, <3>3, <3>4 DEF Next
  <2>2. "validate_only" \notin Invocations[job].flags /\ Invocations[job].env.api_key
    <3>1. pc \in {"estimate", "decide"}
      BY <2>1 DEF Estimate, Decide
    <3>2. ~ config.validate_only /\ Starts(Invocations[job], HighVolume)
      BY <3>1 DEF CoverInv, AskedInv
    <3>3. config = BuildConfig(Invocations[job])
      BY DEF config, Configs, TypeOK
    <3>. QED
      BY <3>2, <3>3 DEF BuildConfig, Starts, RequiresApiKey
  <2>. QED
    BY <2>1, <2>2, StreamsOnlyAffordable
<1>. QED
  BY <1>1, <1>2, Established, AskedStep, PTL DEF Spec, SpendsOnlyAsked
=============================================================================
