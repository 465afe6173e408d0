-------------------------- MODULE StreamMissingProofs --------------------------
(***************************************************************************)
(* Proofs about the download scheduler, for every list of partitions,      *)
(* number of workers, cap, estimate and order of results: the types, the   *)
(* in-flight planning cap, the accounting of the partitions and of their   *)
(* cents, and the rounding of the estimate into shares.                    *)
(***************************************************************************)
EXTENDS StreamMissing, TotalProofs, FiniteSetTheorems, TLAPS

\* How far the iterator is, and what has become of the partitions behind it.
FeedInv ==
    /\ skipped \subseteq 1..cursor
    /\ pending # 0 => /\ pending = cursor
                      /\ pending \notin skipped
                      /\ fut[pending] = "none"
    /\ \A p \in Positions : fut[p] # "none" => p <= cursor /\ p \notin skipped
    /\ \A p \in active : fut[p] # "none"
    /\ batch \subseteq active

\* Partitions with outcome o that have been collected.
Collected(o) == {p \in Positions \ active : fut[p] = o}

\* Until something stops the run, every partition the iterator is past is
\* skipped, pending, active or collected, and the counters add up to them.
LedgerInv ==
    stop = "none" =>
        /\ cursor = counts.completed + Cardinality(active) + Cardinality(skipped)
                        + (IF pending = 0 THEN 0 ELSE 1)
        /\ \A p \in 1..cursor : \/ p \in skipped \/ p = pending
                                \/ p \in active \/ fut[p] \in Outcome
        /\ \A p \in Positions : fut[p] \in {"queued", "running", "raised"} => p \in active
        /\ \A o \in {"placed", "no_data", "failed"} : counts[o] = Cardinality(Collected(o))

\* The loop is left without a reason to stop only when everything was pulled
\* and collected, and the verdict is passed on exactly that.
ExitInv ==
    /\ pc \in {"unwind", "shutdown"} /\ stop = "none" =>
            active = {} /\ pending = 0 /\ cursor = Len(Work)
    /\ pc # "done" => result = "running"
    /\ result \in {"ok", "suspicious", "accounting"} =>
            /\ stop = "none" /\ pc = "done"
            /\ active = {} /\ pending = 0 /\ cursor = Len(Work)
            /\ (counts.completed # Len(Work)) <=> (result = "accounting")

IInv == TypeOK /\ InFlightWithinCap /\ FeedInv /\ LedgerInv /\ ExitInv

-----------------------------------------------------------------------------
(* Lemmas about the operators *)

\* Whole-number division of naturals gives a natural: what divmod returns.
LEMMA DivType ==
    ASSUME NEW a \in Nat, NEW b \in Nat \ {0}
    PROVE  a \div b \in Nat
BY SMT

\* Positions, and every set of them, are finite.
LEMMA PositionsFinite ==
    /\ Len(Work) \in Nat
    /\ IsFiniteSet(Positions)
    /\ \A S \in SUBSET Positions : IsFiniteSet(S) /\ Cardinality(S) \in Nat
<1>1. Len(Work) \in Nat
  BY PlanAssumption
<1>2. IsFiniteSet(Positions)
  BY <1>1, FS_Interval DEF Positions
<1>. QED
  BY <1>1, <1>2, FS_Subset, FS_CardinalityType

\* The share of a partition in its bucket's cents is a natural number
\* (_allocated_estimate_for_item never allocates a negative amount).
LEMMA ShareType ==
    ASSUME NEW p \in Positions, NEW m \in [Key -> Nat], NEW i \in Nat
    PROVE  Share(m, Work[p], i) \in Nat
<1> DEFINE k == Work[p]
<1> DEFINE n == Cardinality(PositionsOf(k))
<1> DEFINE c == KeyCents(m, k)
<1>1. k \in Key
  BY PlanAssumption DEF Positions
<1>2. n \in Nat \ {0}
  <2>1. PositionsOf(k) \in SUBSET Positions /\ p \in PositionsOf(k)
    BY DEF PositionsOf
  <2>2. IsFiniteSet(PositionsOf(k)) /\ n \in Nat
    BY <2>1, PositionsFinite
  <2>. QED
    BY <2>1, <2>2, FS_EmptySet
<1>3. c \in Nat
  <2>1. m[k] + 5 \in Nat
    BY <1>1
  <2>. QED
    BY <2>1, DivType DEF KeyCents, HalfUpCents
<1>4. c \div n \in Nat
  BY <1>2, <1>3, DivType
<1>. QED
  BY <1>4 DEF Share

-----------------------------------------------------------------------------
(* Types *)

\* The variables start with values of their types.
LEMMA TypeInit == Init => TypeOK
<1> SUFFICES ASSUME Init PROVE TypeOK
  OBVIOUS
<1>1. cap \in Nat /\ mills \in [Key -> Nat]
  BY StreamAssumption DEF Init
<1>. QED
  BY <1>1, PositionsFinite DEF Init, TypeOK, FutState, Finished, Outcome

\* Every step keeps the types: in particular a share that is allocated, and so
\* every running total, is a number the cap can be compared with.
LEMMA TypeStep == TypeOK /\ [Next]_vars => TypeOK'
<1> SUFFICES ASSUME TypeOK, [Next]_vars PROVE TypeOK'
  OBVIOUS
<1> USE DEF TypeOK, plan, feed, books
<1>0. Len(Work) \in Nat
  BY PositionsFinite
<1>1. CASE Admit
  BY <1>1 DEF Admit
<1>2. CASE PassOver
  <2>1. cursor + 1 \in Positions /\ cursor' \in 0..Len(Work) /\ skipped' \in SUBSET Positions
    BY <1>0, <1>2 DEF PassOver, CanPull, Positions
  <2>. QED
    BY <1>2, <2>1 DEF PassOver
<1>3. CASE Pull
  <2> DEFINE p == cursor + 1
  <2>1. p \in Positions /\ cursor' = p /\ pending' = p /\ p \in 0..Len(Work)
    BY <1>0, <1>3 DEF Pull, CanPull, Positions
  <2>2. Work[p] \in Key /\ alloc[Work[p]] \in Nat
    BY <2>1, PlanAssumption DEF Positions
  <2>3. Share(mills, Work[p], alloc[Work[p]]) \in Nat
    BY <2>1, <2>2, ShareType
  <2>4. cost' \in [Positions -> Nat] /\ alloc' \in [Key -> Nat]
    BY <1>3, <2>1, <2>2, <2>3 DEF Pull
  <2>. QED
    BY <1>3, <2>1, <2>4 DEF Pull
<1>4. CASE Submit
  <2>1. pending \in Positions
    BY <1>0, <1>4 DEF Submit, Positions
  <2>2. cost[pending] \in Nat
    BY <2>1
  <2>3. fut' \in [Positions -> FutState] /\ active' \in SUBSET Positions
    BY <1>4, <2>1 DEF Submit, FutState
  <2>4. outstanding' \in Int /\ pending' \in 0..Len(Work)
    BY <1>0, <1>4, <2>2 DEF Submit
  <2>. QED
    BY <1>4, <2>3, <2>4 DEF Submit
<1>5. CASE CapAbort
  BY <1>5 DEF CapAbort
<1>6. CASE SubmitReturns
  BY <1>6 DEF SubmitReturns
<1>7. CASE WaitReturns
  BY <1>7 DEF WaitReturns
<1>8. ASSUME NEW p \in Positions, Collect(p) PROVE TypeOK'
  <2>1. cost[p] \in Nat /\ Work[p] \in Key
    <3>1. cost[p] \in Nat
      OBVIOUS
    <3>2. p \in 1..Len(Work) /\ Work \in Seq(Key)
      BY PlanAssumption DEF Positions
    <3>. QED
      BY ONLY <3>1, <3>2
  <2>2. counts' \in [{"placed", "no_data", "failed", "completed"} -> Nat]
    <3>1. counts' = Tallied(fut[p])
      BY <1>8 DEF Collect
    <3>2. counts \in [{"placed", "no_data", "failed", "completed"} -> Nat]
      OBVIOUS
    <3>. QED
      BY ONLY <3>1, <3>2 DEF Tallied
  <2>3. noDataByKey' \in [Key -> Nat]
    <3>1. noDataByKey' = CountedNoData(fut[p], Work[p])
      BY <1>8 DEF Collect
    <3>2. noDataByKey \in [Key -> Nat]
      OBVIOUS
    <3>. QED
      BY ONLY <2>1, <3>1, <3>2 DEF CountedNoData
  <2>4. committed' \in Nat /\ landed' \in Nat /\ outstanding' \in Int
    <3>1. /\ committed' = IF fut[p] \in Charged THEN committed + cost[p] ELSE committed
          /\ landed' = IF fut[p] \in Landed THEN landed + cost[p] ELSE landed
          /\ outstanding' = outstanding - cost[p]
      BY <1>8 DEF Collect
    <3>2. committed \in Nat /\ landed \in Nat /\ outstanding \in Int
      OBVIOUS
    <3>. QED
      BY ONLY <2>1, <3>1, <3>2
  <2>. QED
    BY <1>8, <2>2, <2>3, <2>4 DEF Collect
<1>9. ASSUME NEW p \in Positions, CollectRaised(p) PROVE TypeOK'
  <2>1. cost[p] \in Nat
    OBVIOUS
  <2>. QED
    BY <1>9, <2>1 DEF CollectRaised
<1>10. CASE Unwind
  BY <1>10 DEF Unwind, WithoutQueued, FutState
<1>11. CASE Finish
  BY <1>11 DEF Finish, Verdict
<1>12. CASE Interrupt \/ BreakOff
  BY <1>12 DEF Interrupt, BreakOff
<1>13. CASE SecondInterrupt
  BY <1>13 DEF SecondInterrupt, FutState
<1>14. ASSUME NEW p \in Positions, Begin(p) PROVE TypeOK'
  BY <1>14 DEF Begin, FutState
<1>15. ASSUME NEW p \in Positions, End(p) PROVE TypeOK'
  BY <1>15 DEF End, FutState
<1>16. CASE UNCHANGED vars
  BY <1>16 DEF vars
<1>. QED
  BY <1>1, <1>2, <1>3, <1>4, <1>5, <1>6, <1>7, <1>8, <1>9, <1>10, <1>11, <1>12, <1>13, <1>14,
     <1>15, <1>16 DEF Next, Main, Quiet

\* Type correctness of the scheduler.
THEOREM TypeCorrect == Spec => []TypeOK
BY TypeInit, TypeStep, PTL DEF Spec

-----------------------------------------------------------------------------
(* The in-flight planning cap *)

\* A step keeps committed + outstanding within the cap: a submission is guarded,
\* and a collected future moves its estimate from one total to the other or
\* drops it.
LEMMA CapStep == TypeOK /\ InFlightWithinCap /\ [Next]_vars => InFlightWithinCap'
<1> SUFFICES ASSUME TypeOK, InFlightWithinCap, [Next]_vars PROVE InFlightWithinCap'
  OBVIOUS
<1> USE DEF InFlightWithinCap
<1>1. CASE Submit
  <2>1. pending \in Positions
    BY <1>1, PositionsFinite DEF Submit, TypeOK, Positions
  <2>2. cost[pending] \in Nat /\ committed \in Nat /\ outstanding \in Int /\ cap \in Nat
    BY <2>1 DEF TypeOK
  <2>3. /\ committed + outstanding + cost[pending] <= cap
        /\ outstanding' = outstanding + cost[pending]
        /\ committed' = committed /\ cap' = cap
    BY <1>1 DEF Submit, Fits, plan
  <2>. QED
    BY <2>2, <2>3
<1>2. ASSUME NEW p \in Positions, Collect(p) PROVE InFlightWithinCap'
  <2>1. cost[p] \in Nat /\ committed \in Nat /\ outstanding \in Int /\ cap \in Nat
    BY DEF TypeOK
  <2>. QED
    BY <1>2, <2>1 DEF Collect, plan
<1>3. ASSUME NEW p \in Positions, CollectRaised(p) PROVE InFlightWithinCap'
  <2>1. cost[p] \in Nat /\ committed \in Nat /\ outstanding \in Int /\ cap \in Nat
    BY DEF TypeOK
  <2>. QED
    BY <1>3, <2>1 DEF CollectRaised, plan
<1>4. CASE UNCHANGED <<cap, committed, outstanding>>
  BY <1>4
<1>. QED
  BY <1>1, <1>2, <1>3, <1>4 DEF Next, Main, Admit, PassOver, Pull, CapAbort, SubmitReturns,
     WaitReturns, Unwind, Finish, Interrupt, SecondInterrupt, BreakOff, Begin, End, Quiet, vars, plan,
     books

\* The estimates committed and in flight never exceed the planning cap, whatever
\* the partitions, estimates, workers and order of results.
THEOREM WithinCap == Spec => []InFlightWithinCap
<1>1. Init => InFlightWithinCap
  BY StreamAssumption DEF Init, InFlightWithinCap
<1>. QED
  BY <1>1, TypeInit, TypeStep, CapStep, PTL DEF Spec

-----------------------------------------------------------------------------
(* The accounting of the partitions *)

\* Futures only leave "none" by a submission; a step that keeps the iterator and
\* the active set, and lets no future become or stop being "none", keeps FeedInv.
LEMMA FeedKept ==
    ASSUME TypeOK, FeedInv, UNCHANGED <<cursor, skipped, pending>>,
           active' \subseteq active, batch' \subseteq active',
           \A p \in Positions : fut'[p] = "none" <=> fut[p] = "none"
    PROVE  FeedInv'
<1>1. pending # 0 => pending \in Positions
  BY PositionsFinite DEF TypeOK, Positions
<1>2. active \subseteq Positions
  BY DEF TypeOK
<1>. QED
  BY <1>1, <1>2 DEF FeedInv

\* Where the iterator is and where each partition stands stay consistent.
LEMMA FeedStep == TypeOK /\ FeedInv /\ [Next]_vars => FeedInv'
<1> SUFFICES ASSUME TypeOK, FeedInv, [Next]_vars PROVE FeedInv'
  OBVIOUS
<1>0. /\ Len(Work) \in Nat /\ cursor \in 0..Len(Work) /\ pending \in 0..Len(Work)
      /\ active \subseteq Positions /\ batch \subseteq Positions
      /\ fut \in [Positions -> FutState]
  BY PositionsFinite DEF TypeOK
<1>1. CASE UNCHANGED <<cursor, skipped, pending, fut, active, batch>>
  BY <1>1 DEF FeedInv
<1>2. CASE PassOver
  BY <1>0, <1>2 DEF PassOver, CanPull, FeedInv, Positions
<1>3. CASE Pull
  <2>1. /\ pending = 0 /\ cursor < Len(Work)
        /\ cursor' = cursor + 1 /\ pending' = cursor + 1
        /\ UNCHANGED <<skipped, fut, active, batch>>
    BY <1>3 DEF Pull, CanPull
  <2>2. cursor + 1 \in Positions /\ cursor + 1 \notin skipped /\ fut[cursor + 1] = "none"
    BY <1>0, <2>1 DEF FeedInv, Positions
  <2>. QED
    BY <1>0, <2>1, <2>2 DEF FeedInv, Positions
<1>4. CASE Submit
  <2>1. /\ pending # 0 /\ pending' = 0
        /\ fut' = [fut EXCEPT ![pending] = "queued"]
        /\ active' = active \cup {pending}
        /\ UNCHANGED <<cursor, skipped, batch>>
    BY <1>4 DEF Submit
  <2>2. pending \in Positions /\ pending <= cursor /\ pending \notin skipped
    BY <1>0, <2>1 DEF FeedInv, Positions
  <2>. QED
    BY <1>0, <2>1, <2>2 DEF FeedInv
<1>5. CASE WaitReturns
  BY <1>5, FeedKept DEF WaitReturns, feed
<1>6. ASSUME NEW p \in Positions, Collect(p) PROVE FeedInv'
  BY <1>6, FeedKept DEF Collect, feed, FeedInv
<1>7. ASSUME NEW p \in Positions, CollectRaised(p) PROVE FeedInv'
  BY <1>7, FeedKept DEF CollectRaised, feed
<1>8. CASE Interrupt
  BY <1>8, FeedKept DEF Interrupt, feed
<1>9. CASE Unwind
  <2>1. \A p \in Positions : fut'[p] = "none" <=> fut[p] = "none"
    BY <1>9 DEF Unwind, WithoutQueued
  <2>. QED
    BY <1>9, <2>1, FeedKept DEF Unwind, feed, FeedInv
<1>10. CASE SecondInterrupt
  <2>1. \A p \in Positions : fut'[p] = "none" <=> fut[p] = "none"
    BY <1>10 DEF SecondInterrupt
  <2>. QED
    BY <1>10, <2>1, FeedKept DEF SecondInterrupt, feed, FeedInv
<1>11. ASSUME NEW p \in Positions, Begin(p) PROVE FeedInv'
  <2>1. \A q \in Positions : fut'[q] = "none" <=> fut[q] = "none"
    BY <1>0, <1>11 DEF Begin
  <2>. QED
    BY <1>11, <2>1, FeedKept DEF Begin, feed, FeedInv
<1>12. ASSUME NEW p \in Positions, End(p) PROVE FeedInv'
  <2>1. \A q \in Positions : fut'[q] = "none" <=> fut[q] = "none"
    BY <1>0, <1>12 DEF End, Finished, Outcome
  <2>. QED
    BY <1>12, <2>1, FeedKept DEF End, feed, FeedInv
<1>. QED
  BY <1>1, <1>2, <1>3, <1>4, <1>5, <1>6, <1>7, <1>8, <1>9, <1>10, <1>11, <1>12
     DEF Next, Main, Admit, CapAbort, SubmitReturns, Finish, BreakOff, Quiet, vars, feed

\* The main thread leaves its loop for lack of work only when the iterator is
\* exhausted, nothing is held back and nothing is in flight.
LEMMA ExitStep == TypeOK /\ ExitInv /\ [Next]_vars => ExitInv'
<1> SUFFICES ASSUME TypeOK, ExitInv, [Next]_vars PROVE ExitInv'
  OBVIOUS
<1> USE DEF ExitInv
<1>1. CASE Admit
  BY <1>1 DEF Admit, feed, books
<1>2. CASE SubmitReturns
  <2>1. /\ pc = "submit" /\ NothingToSubmit
        /\ pc' = IF batch # {} THEN "collect" ELSE IF active # {} THEN "wait" ELSE "unwind"
        /\ UNCHANGED <<active, pending, cursor, stop, result>>
    BY <1>2 DEF SubmitReturns, feed
  <2>2. active = {} => pending = 0 /\ cursor = Len(Work)
    <3>1. active = {} => HasRoom
      BY FS_EmptySet, PlanAssumption DEF HasRoom
    <3>. QED
      BY <2>1, <3>1 DEF NothingToSubmit
  <2>. QED
    BY <2>1, <2>2
<1>3. CASE Finish
  <2>1. /\ pc = "shutdown" /\ pc' = "done" /\ result' = Verdict
        /\ UNCHANGED <<active, pending, cursor, stop, counts>>
    BY <1>3 DEF Finish, feed, books
  <2>2. stop \in {"none", "planning_cap", "fatal", "sigint", "sigterm"}
    BY DEF TypeOK
  <2>. QED
    BY <2>1, <2>2 DEF Verdict
<1>4. CASE Unwind
  BY <1>4 DEF Unwind, feed, books
<1>5. CASE SecondInterrupt \/ BreakOff
  BY <1>5 DEF SecondInterrupt, BreakOff, feed, books
<1>6. CASE \E p \in Positions : Begin(p) \/ End(p)
  BY <1>6 DEF Begin, End, feed, books
<1>7. CASE UNCHANGED vars
  BY <1>7 DEF vars, feed, books
<1>8. CASE PassOver \/ Pull \/ Submit \/ WaitReturns \/ \E p \in Positions : Collect(p)
  BY <1>8 DEF PassOver, Pull, CanPull, Submit, WaitReturns, Collect
<1>9. CASE CapAbort \/ Interrupt \/ \E p \in Positions : CollectRaised(p)
  BY <1>9 DEF CapAbort, Interrupt, CollectRaised
<1>. QED
  BY <1>1, <1>2, <1>3, <1>4, <1>5, <1>6, <1>7, <1>8, <1>9 DEF Next, Main, Quiet

\* A step that changes neither the iterator, the active set, the counters nor
\* the outcome of any partition outside the active set keeps the ledger.
LEMMA LedgerKept ==
    ASSUME TypeOK, LedgerInv, UNCHANGED <<cursor, skipped, pending, active, counts, stop>>,
           \A p \in Positions : p \notin active => fut'[p] = fut[p]
    PROVE  LedgerInv'
<1>1. \A o : Collected(o)' = Collected(o)
  BY DEF Collected
<1>2. 1..cursor \subseteq Positions
  BY PositionsFinite DEF TypeOK, Positions
<1>. QED
  BY <1>1, <1>2 DEF LedgerInv

\* The counters keep adding up to the partitions the iterator is past.
LEMMA LedgerStep ==
    TypeOK /\ FeedInv /\ ExitInv /\ LedgerInv /\ [Next]_vars => LedgerInv'
<1> SUFFICES ASSUME TypeOK, FeedInv, ExitInv, LedgerInv, [Next]_vars PROVE LedgerInv'
  OBVIOUS
<1>0. /\ Len(Work) \in Nat /\ cursor \in 0..Len(Work) /\ pending \in 0..Len(Work)
      /\ active \in SUBSET Positions /\ skipped \in SUBSET Positions
      /\ fut \in [Positions -> FutState] /\ counts.completed \in Nat
  BY PositionsFinite DEF TypeOK
<1>1. /\ IsFiniteSet(active) /\ Cardinality(active) \in Nat
      /\ IsFiniteSet(skipped) /\ Cardinality(skipped) \in Nat
      /\ \A o : IsFiniteSet(Collected(o)) /\ Cardinality(Collected(o)) \in Nat
  <2>1. \A o : Collected(o) \in SUBSET Positions
    BY DEF Collected
  <2>. QED
    BY <1>0, <2>1, PositionsFinite
<1> DEFINE sum == counts.completed + Cardinality(active) + Cardinality(skipped)
<1>s. /\ stop = "none" /\ pending = 0 => cursor = sum
      /\ stop = "none" /\ pending # 0 => cursor = sum + 1
  <2>1. stop = "none" => cursor = sum + (IF pending = 0 THEN 0 ELSE 1)
    BY DEF LedgerInv
  <2>2. sum \in Nat
    BY <1>0, <1>1
  <2>. QED
    BY ONLY <2>1, <2>2
<1>2. CASE UNCHANGED <<cursor, skipped, pending, fut, active, counts, stop>>
  BY <1>2, LedgerKept
<1>3. CASE PassOver
  <2>1. /\ pending = 0 /\ cursor' = cursor + 1 /\ skipped' = skipped \cup {cursor + 1}
        /\ UNCHANGED <<pending, fut, active, counts, stop>>
    BY <1>3 DEF PassOver, CanPull, books
  <2>2. cursor + 1 \notin skipped
    BY <1>0 DEF FeedInv
  <2>3. Cardinality(skipped') = Cardinality(skipped) + 1
    BY <1>1, <2>1, <2>2, FS_AddElement
  <2>4. \A o : Collected(o)' = Collected(o)
    BY <2>1 DEF Collected
  <2>5. stop = "none" => cursor' = counts.completed + Cardinality(active) + Cardinality(skipped')
    BY <1>0, <1>1, <1>s, <2>1, <2>3
  <2>6. stop = "none" => \A p \in 1..cursor' : \/ p \in skipped' \/ p = pending
                                              \/ p \in active \/ fut[p] \in Outcome
    BY <1>0, <2>1 DEF LedgerInv
  <2>. QED
    BY <2>1, <2>4, <2>5, <2>6, <1>0, <1>1 DEF LedgerInv
<1>4. CASE Pull
  <2>1. /\ pending = 0 /\ cursor' = cursor + 1 /\ pending' = cursor + 1
        /\ UNCHANGED <<skipped, fut, active, counts, stop>>
    BY <1>4 DEF Pull, CanPull, books
  <2>2. \A o : Collected(o)' = Collected(o)
    BY <2>1 DEF Collected
  <2>. QED
    BY <1>0, <1>1, <2>1, <2>2 DEF LedgerInv
<1>5. CASE Submit
  <2>1. /\ pending # 0 /\ pending' = 0
        /\ fut' = [fut EXCEPT ![pending] = "queued"]
        /\ active' = active \cup {pending}
        /\ UNCHANGED <<cursor, skipped, counts, stop>>
    BY <1>5 DEF Submit
  <2>2. pending \in Positions /\ fut[pending] = "none" /\ pending \notin active
    BY <1>0, <2>1 DEF FeedInv, Positions
  <2>3. Cardinality(active') = Cardinality(active) + 1
    BY <1>1, <2>1, <2>2, FS_AddElement
  <2>4. \A o \in {"placed", "no_data", "failed"} : Collected(o)' = Collected(o)
    BY <1>0, <2>1, <2>2 DEF Collected
  <2>5. \A p \in Positions : p # pending => fut'[p] = fut[p]
    BY <1>0, <2>1
  <2>6. \A p \in 1..cursor : p \in Positions
    BY <1>0 DEF Positions
  <2>7. stop = "none" => cursor' = counts.completed + Cardinality(active') + Cardinality(skipped)
    BY <1>0, <1>1, <1>s, <2>1, <2>3
  <2>8. stop = "none" => \A p \in 1..cursor' : \/ p \in skipped
                                              \/ p \in active' \/ fut'[p] \in Outcome
    BY <2>1, <2>5, <2>6 DEF LedgerInv
  <2>9. stop = "none" => \A p \in Positions :
            fut'[p] \in {"queued", "running", "raised"} => p \in active'
    BY <2>1, <2>5 DEF LedgerInv
  <2>10. Cardinality(active') \in Nat
    BY <1>1, <2>3
  <2>11. stop = "none" => \A o \in {"placed", "no_data", "failed"} :
            counts[o] = Cardinality(Collected(o)')
    BY <2>4 DEF LedgerInv
  <2>12. stop = "none" => cursor' = counts.completed + Cardinality(active') + Cardinality(skipped) + 0
    BY <1>0, <1>1, <2>7, <2>10
  <2>. QED
    BY <2>1, <2>8, <2>9, <2>11, <2>12 DEF LedgerInv
<1>6. ASSUME NEW p \in Positions, Collect(p) PROVE LedgerInv'
  <2>1. /\ p \in active /\ fut[p] \in Outcome
        /\ active' = active \ {p}
        /\ counts' = Tallied(fut[p])
        /\ UNCHANGED <<cursor, skipped, pending, fut, stop>>
    BY <1>6 DEF Collect, feed, FeedInv
  <2>2. Cardinality(active') = Cardinality(active) - 1
    BY <1>1, <2>1, FS_RemoveElement
  <2>3. counts'.completed = counts.completed + 1
    BY <2>1 DEF Tallied, TypeOK
  <2>4. ASSUME NEW o \in {"placed", "no_data", "failed"}, stop = "none"
        PROVE  counts'[o] = Cardinality(Collected(o)')
    <3>1. counts[o] \in Nat /\ counts[o] = Cardinality(Collected(o))
      BY <2>4 DEF LedgerInv, TypeOK
    <3>2. CASE fut[p] = o
      <4>1. Collected(o)' = Collected(o) \cup {p} /\ p \notin Collected(o)
        BY <2>1, <3>2 DEF Collected
      <4>2. counts'[o] = counts[o] + 1
        BY <2>1, <3>2 DEF Tallied, TypeOK
      <4>. QED
        BY <1>1, <3>1, <4>1, <4>2, FS_AddElement
    <3>3. CASE fut[p] # o
      <4>1. Collected(o)' = Collected(o)
        BY <2>1, <3>3 DEF Collected
      <4>2. counts'[o] = counts[o]
        BY <2>1, <3>3 DEF Tallied, TypeOK
      <4>. QED
        BY <3>1, <4>1, <4>2
    <3>. QED
      BY <3>2, <3>3
  <2>5. stop = "none" => \A q \in Positions :
            fut[q] \in {"queued", "running", "raised"} => q \in active'
    BY <2>1 DEF LedgerInv, Outcome
  <2>6. stop = "none" =>
            cursor = counts'.completed + Cardinality(active') + Cardinality(skipped)
                         + (IF pending = 0 THEN 0 ELSE 1)
    BY <1>0, <1>1, <2>2, <2>3 DEF LedgerInv
  <2>7. stop = "none" => \A q \in 1..cursor :
            q \in skipped \/ q = pending \/ q \in active' \/ fut[q] \in Outcome
    BY <2>1 DEF LedgerInv
  <2>. QED
    BY <2>1, <2>4, <2>5, <2>6, <2>7 DEF LedgerInv
<1>7. CASE Unwind
  <2>1. stop = "none" => fut' = fut
    <3>1. SUFFICES ASSUME stop = "none" PROVE fut' = fut
      OBVIOUS
    <3>2. \A q \in Positions : fut[q] # "queued"
      BY <1>7, <3>1 DEF Unwind, ExitInv, LedgerInv
    <3>3. fut' = [q \in Positions |-> fut[q]]
      BY <1>7, <3>2 DEF Unwind, WithoutQueued
    <3>. QED
      BY <1>0, <3>3
  <2>2. UNCHANGED <<cursor, skipped, pending, active, counts, stop>>
    BY <1>7 DEF Unwind, feed, books
  <2>. QED
    BY <2>1, <2>2, LedgerKept DEF LedgerInv
<1>8. CASE \/ CapAbort \/ Interrupt \/ SecondInterrupt
           \/ \E p \in Positions : CollectRaised(p)
  BY <1>8 DEF CapAbort, Interrupt, SecondInterrupt, CollectRaised, LedgerInv
<1>9. ASSUME NEW p \in Positions, Begin(p) PROVE LedgerInv'
  <2>1. /\ fut[p] = "queued" /\ fut' = [fut EXCEPT ![p] = "running"]
        /\ UNCHANGED <<cursor, skipped, pending, active, counts, stop>>
    BY <1>9 DEF Begin, feed, books
  <2>2. stop = "none" => p \in active
    BY <2>1 DEF LedgerInv
  <2>3. \A q \in Positions : q # p => fut'[q] = fut[q]
    BY <1>0, <2>1
  <2>. QED
    BY <2>1, <2>2, <2>3, LedgerKept DEF LedgerInv
<1>10. ASSUME NEW p \in Positions, End(p) PROVE LedgerInv'
  <2>1. /\ fut[p] = "running" /\ \E o \in Finished : fut' = [fut EXCEPT ![p] = o]
        /\ UNCHANGED <<cursor, skipped, pending, active, counts, stop>>
    BY <1>10 DEF End, feed, books
  <2>2. stop = "none" => p \in active
    BY <2>1 DEF LedgerInv
  <2>3. \A q \in Positions : q # p => fut'[q] = fut[q]
    BY <1>0, <2>1
  <2>. QED
    BY <2>1, <2>2, <2>3, LedgerKept DEF LedgerInv
<1>. QED
  BY <1>2, <1>3, <1>4, <1>5, <1>6, <1>7, <1>8, <1>9, <1>10
     DEF Next, Main, Admit, SubmitReturns, WaitReturns, Finish, BreakOff, Quiet, vars, feed, books

\* The inductive invariant holds at the start ...
LEMMA InvInit == Init => IInv
<1> SUFFICES ASSUME Init PROVE IInv
  OBVIOUS
<1>1. TypeOK
  BY TypeInit
<1>2. InFlightWithinCap
  BY StreamAssumption DEF Init, InFlightWithinCap
<1>3. FeedInv
  BY DEF Init, FeedInv
<1>4. LedgerInv
  <2>1. \A o \in {"placed", "no_data", "failed"} : Collected(o) = {}
    BY DEF Init, Collected
  <2>. QED
    BY <2>1, FS_EmptySet DEF Init, LedgerInv
<1>5. ExitInv
  BY DEF Init, ExitInv
<1>. QED
  BY <1>1, <1>2, <1>3, <1>4, <1>5 DEF IInv

\* ... and every step keeps it.
LEMMA InvStep == IInv /\ [Next]_vars => IInv'
BY TypeStep, CapStep, FeedStep, LedgerStep, ExitStep DEF IInv

\* What the ledger says at the verdict: a run ends with an accounting failure
\* only when the archive changed under it, and one that returns a result has
\* settled every partition exactly as its counters say.
LEMMA VerdictIsExact == IInv => AccountingExact
<1> SUFFICES ASSUME IInv PROVE AccountingExact
  OBVIOUS
<1> USE DEF IInv
<1>1. Cardinality(skipped) \in Nat /\ (Cardinality(skipped) = 0 <=> skipped = {})
  BY PositionsFinite, FS_EmptySet DEF TypeOK
<1>2. counts.completed \in Nat /\ Len(Work) \in Nat
  BY PositionsFinite DEF TypeOK
<1>3. ASSUME result \in {"ok", "suspicious", "accounting"}
      PROVE  /\ Len(Work) = counts.completed + Cardinality(skipped)
             /\ stop = "none" /\ active = {} /\ pending = 0 /\ cursor = Len(Work)
  <2>1. stop = "none" /\ active = {} /\ pending = 0 /\ cursor = Len(Work)
    BY <1>3 DEF ExitInv
  <2>2. cursor = counts.completed + Cardinality(active) + Cardinality(skipped) + 0
    BY <2>1 DEF LedgerInv
  <2>3. Cardinality(active) = 0
    BY <2>1, FS_EmptySet
  <2>. QED
    BY <1>1, <1>2, <2>1, <2>2, <2>3
<1>4. result = "accounting" => skipped # {}
  BY <1>1, <1>2, <1>3 DEF ExitInv
<1>5. ASSUME result \in {"ok", "suspicious"}
      PROVE  /\ skipped = {}
             /\ InState(Outcome) = Positions
             /\ counts.placed = Cardinality(InState({"placed"}))
             /\ counts.no_data = Cardinality(InState({"no_data"}))
             /\ counts.failed = Cardinality(InState({"failed"}))
  <2>1. counts.completed = Len(Work)
    BY <1>5 DEF ExitInv
  <2>2. skipped = {}
    BY <1>1, <1>2, <1>3, <1>5, <2>1
  <2>3. \A p \in Positions : fut[p] \in Outcome
    BY <1>3, <1>5, <2>2 DEF LedgerInv, Positions
  <2>4. \A o : Collected(o) = InState({o})
    BY <1>3, <1>5 DEF Collected, InState
  <2>. QED
    BY <1>3, <1>5, <2>2, <2>3, <2>4 DEF LedgerInv, InState
<1>. QED
  BY <1>4, <1>5 DEF AccountingExact

\* For every list of partitions and every interleaving of results, signals and
\* errors: the accounting failure means a changed archive, and a returned result
\* accounts for every partition of the summary.
THEOREM AccountingIsExact == Spec => []AccountingExact
<1>1. Spec => []IInv
  BY InvInit, InvStep, PTL DEF Spec
<1>. QED
  BY <1>1, VerdictIsExact, PTL

-----------------------------------------------------------------------------
(* Buckets without data *)

\* The counts per bucket are those of the collected futures, ...
NoDataIn(k) == {p \in Collected("no_data") : Work[p] = k}

NoDataInv ==
    stop = "none" => \A k \in Key : noDataByKey[k] = Cardinality(NoDataIn(k))

\* ... and a result is only returned when no bucket of them is suspicious.
OkInv == result = "ok" => \A k \in BusyKeys : ~AllNoData(k)

\* A step that keeps the active set and the counts, and no future outside the active
\* set, keeps the counts right.
LEMMA NoDataKept ==
    ASSUME NoDataInv, UNCHANGED <<active, noDataByKey, stop>>,
           \A p \in Positions : p \notin active => fut'[p] = fut[p]
    PROVE  NoDataInv'
<1>1. \A k : NoDataIn(k)' = NoDataIn(k)
  BY DEF NoDataIn, Collected
<1>. QED
  BY <1>1 DEF NoDataInv

\* The counts per bucket stay those of the collected futures.
LEMMA NoDataStep == IInv /\ NoDataInv /\ [Next]_vars => NoDataInv'
<1> SUFFICES ASSUME IInv, NoDataInv, [Next]_vars PROVE NoDataInv'
  OBVIOUS
<1>0. /\ TypeOK /\ FeedInv /\ LedgerInv /\ ExitInv
      /\ fut \in [Positions -> FutState] /\ active \in SUBSET Positions
      /\ noDataByKey \in [Key -> Nat]
  BY DEF IInv, TypeOK
<1>1. CASE UNCHANGED <<fut, active, noDataByKey, stop>>
  BY <1>1, NoDataKept
<1>2. CASE Submit
  <2>1. /\ pending # 0 /\ fut' = [fut EXCEPT ![pending] = "queued"]
        /\ active' = active \cup {pending} /\ UNCHANGED <<noDataByKey, stop>>
    BY <1>2 DEF Submit
  <2>2. pending \in Positions /\ fut[pending] = "none"
    BY <1>0, <2>1, PositionsFinite DEF FeedInv, TypeOK, Positions
  <2>3. Collected("no_data")' = Collected("no_data")
    BY <1>0, <2>1, <2>2 DEF Collected
  <2>4. \A k : NoDataIn(k)' = NoDataIn(k)
    BY <2>3 DEF NoDataIn
  <2>. QED
    BY <2>1, <2>4 DEF NoDataInv
<1>3. ASSUME NEW p \in Positions, Collect(p) PROVE NoDataInv'
  <2>1. /\ p \in active /\ active' = active \ {p} /\ UNCHANGED <<fut, stop>>
        /\ noDataByKey' = CountedNoData(fut[p], Work[p])
    BY <1>0, <1>3 DEF Collect, FeedInv
  <2>2. ASSUME stop = "none", NEW k \in Key
        PROVE  noDataByKey'[k] = Cardinality(NoDataIn(k)')
    <3>1. /\ noDataByKey[k] = Cardinality(NoDataIn(k)) /\ noDataByKey[k] \in Nat
          /\ IsFiniteSet(NoDataIn(k))
      <4>1. NoDataIn(k) \in SUBSET Positions
        BY DEF NoDataIn, Collected
      <4>. QED
        BY <1>0, <2>2, <4>1, PositionsFinite DEF NoDataInv
    <3>2. CASE fut[p] = "no_data" /\ Work[p] = k
      <4>1. NoDataIn(k)' = NoDataIn(k) \cup {p} /\ p \notin NoDataIn(k)
        BY <2>1, <3>2 DEF NoDataIn, Collected
      <4>2. noDataByKey'[k] = noDataByKey[k] + 1
        BY <1>0, <2>1, <3>2 DEF CountedNoData
      <4>. QED
        BY <3>1, <4>1, <4>2, FS_AddElement
    <3>3. CASE ~(fut[p] = "no_data" /\ Work[p] = k)
      <4>1. NoDataIn(k)' = NoDataIn(k)
        BY <2>1, <3>3 DEF NoDataIn, Collected
      <4>2. noDataByKey'[k] = noDataByKey[k]
        BY <1>0, <2>1, <3>3 DEF CountedNoData
      <4>. QED
        BY <3>1, <4>1, <4>2
    <3>. QED
      BY <3>2, <3>3
  <2>. QED
    BY <2>1, <2>2 DEF NoDataInv
<1>4. CASE \/ CapAbort \/ Interrupt \/ SecondInterrupt
           \/ \E p \in Positions : CollectRaised(p)
  BY <1>4 DEF CapAbort, Interrupt, SecondInterrupt, CollectRaised, NoDataInv
<1>5. CASE Unwind
  <2>1. stop = "none" => \A p \in Positions : p \notin active => fut'[p] = fut[p]
    <3>1. SUFFICES ASSUME stop = "none", NEW p \in Positions, p \notin active
                   PROVE  fut'[p] = fut[p]
      OBVIOUS
    <3>2. fut[p] # "queued"
      BY <1>0, <3>1 DEF LedgerInv
    <3>. QED
      BY <1>5, <3>2 DEF Unwind, WithoutQueued
  <2>2. UNCHANGED <<active, noDataByKey, stop>>
    BY <1>5 DEF Unwind, books
  <2>. QED
    BY <2>1, <2>2, NoDataKept DEF NoDataInv
<1>6. ASSUME NEW p \in Positions, Begin(p) \/ End(p) PROVE NoDataInv'
  <2>1. /\ fut[p] \in {"queued", "running"} /\ UNCHANGED <<active, noDataByKey, stop>>
        /\ \A q \in Positions : q # p => fut'[q] = fut[q]
    BY <1>0, <1>6 DEF Begin, End, books
  <2>2. stop = "none" => p \in active
    BY <1>0, <2>1 DEF LedgerInv
  <2>. QED
    BY <2>1, <2>2, NoDataKept DEF NoDataInv
<1>. QED
  BY <1>1, <1>2, <1>3, <1>4, <1>5, <1>6
     DEF Next, Main, Admit, PassOver, Pull, SubmitReturns, WaitReturns, Finish, BreakOff, Quiet, vars,
         feed, books

\* A verdict, once given, is not changed, nor are the counts it rests on.
LEMMA OkStep == IInv /\ OkInv /\ [Next]_vars => OkInv'
<1> SUFFICES ASSUME IInv, OkInv, [Next]_vars PROVE OkInv'
  OBVIOUS
<1>1. CASE Finish
  <2>1. result' = Verdict /\ noDataByKey' = noDataByKey
    BY <1>1 DEF Finish, books
  <2>2. stop \in {"none", "planning_cap", "fatal", "sigint", "sigterm"}
    BY DEF IInv, TypeOK
  <2>. QED
    BY <2>1, <2>2 DEF Verdict, OkInv, AllNoData
<1>2. CASE UNCHANGED <<result, noDataByKey>>
  BY <1>2 DEF OkInv, AllNoData
<1>3. CASE pc # "done" /\ UNCHANGED result
  BY <1>3 DEF IInv, ExitInv, OkInv
<1>4. CASE Admit \/ SecondInterrupt \/ BreakOff
  BY <1>4 DEF Admit, SecondInterrupt, BreakOff, OkInv, IInv, ExitInv
<1>. QED
  BY <1>1, <1>2, <1>3, <1>4
     DEF Next, Main, PassOver, Pull, Submit, CanPull, CapAbort, SubmitReturns, WaitReturns, Collect,
         CollectRaised, Unwind, Interrupt, Begin, End, Quiet, vars, feed, books

\* A bucket that came back empty has all its partitions among the collected ones.
LEMMA OkIsNotSilent == IInv /\ NoDataInv /\ OkInv => NoSilentEmptyBucket
<1> SUFFICES ASSUME IInv, NoDataInv, OkInv, result = "ok", NEW k \in BusyKeys,
                    ExpectedWeekdays[k] >= SuspiciousWeekdays,
                    \A p \in PositionsOf(k) : fut[p] = "no_data"
             PROVE  FALSE
  BY DEF NoSilentEmptyBucket
<1>1. stop = "none" /\ active = {}
  BY DEF IInv, ExitInv
<1>2. NoDataIn(k) = PositionsOf(k)
  BY <1>1 DEF NoDataIn, Collected, PositionsOf
<1>3. k \in Key
  BY DEF BusyKeys
<1>4. noDataByKey[k] = Cardinality(PositionsOf(k))
  BY <1>1, <1>2, <1>3 DEF NoDataInv
<1>. QED
  BY <1>4 DEF OkInv, AllNoData

\* A result is never returned for a bucket that came back without data although it
\* covers enough weekdays, whatever the order in which its partitions were settled.
THEOREM NoBucketSilentlyEmpty == Spec => []NoSilentEmptyBucket
<1>1. Init => NoDataInv /\ OkInv
  <2> SUFFICES ASSUME Init PROVE NoDataInv /\ OkInv
    OBVIOUS
  <2>1. \A k : NoDataIn(k) = {}
    BY DEF Init, NoDataIn, Collected
  <2>. QED
    BY <2>1, FS_EmptySet DEF Init, NoDataInv, OkInv
<1>. QED
  BY <1>1, InvInit, InvStep, NoDataStep, OkStep, OkIsNotSilent, PTL DEF Spec

-----------------------------------------------------------------------------
(* Workers that outlive the call *)

\* Futures that no worker has finished, or that were killed, are active, of which there are never more than
\* workers, and fewer once a future has raised.
PoolInv ==
    /\ \A p \in Positions : fut[p] \in {"queued", "running", "lost"} => p \in active
    /\ Cardinality(active) <= MaxWorkers
    /\ stop = "fatal" => Cardinality(active) < MaxWorkers
    /\ pc = "admission" \/ stop = "planning_cap" => active = {}
    /\ stop # "none" => pc \in {"unwind", "shutdown", "done"}

\* The main thread waits for the running ones unless the error was fatal or the wait
\* was broken off; no queued one is left to begin.
LeftInv ==
    /\ pc \in {"shutdown", "done"} => InState({"queued"}) = {}
    /\ pc = "done" => \/ Running = {}
                      \/ result = "fatal" /\ stop = "fatal"
                      \/ result = "broken_off"

\* The active futures are finite in number.
LEMMA ActiveFinite ==
    ASSUME TypeOK
    PROVE  IsFiniteSet(active) /\ Cardinality(active) \in Nat /\ MaxWorkers \in Nat \ {0}
BY PositionsFinite, PlanAssumption DEF TypeOK

\* The pool is never overcommitted.
LEMMA PoolStep == TypeOK /\ FeedInv /\ PoolInv /\ [Next]_vars => PoolInv'
<1> SUFFICES ASSUME TypeOK, FeedInv, PoolInv, [Next]_vars PROVE PoolInv'
  OBVIOUS
<1>0. /\ fut \in [Positions -> FutState] /\ active \in SUBSET Positions
      /\ IsFiniteSet(active) /\ Cardinality(active) \in Nat /\ MaxWorkers \in Nat \ {0}
  BY ActiveFinite DEF TypeOK
<1>1. CASE UNCHANGED <<fut, active, stop>> /\ (pc' = pc \/ pc' # "admission")
           /\ (stop # "none" => pc' \in {"unwind", "shutdown", "done"})
  BY <1>1 DEF PoolInv
<1>2. CASE Submit
  <2>1. /\ HasRoom /\ pending # 0 /\ pc = "submit" /\ pc' = pc /\ stop' = stop
        /\ fut' = [fut EXCEPT ![pending] = "queued"] /\ active' = active \cup {pending}
    BY <1>2 DEF Submit
  <2>2. stop = "none"
    BY <2>1 DEF PoolInv
  <2>3. Cardinality(active') <= MaxWorkers
    <3>1. pending \in Positions /\ pending \notin active
      BY <2>1, PositionsFinite DEF FeedInv, TypeOK, Positions
    <3>2. Cardinality(active') = Cardinality(active) + 1
      BY <1>0, <2>1, <3>1, FS_AddElement
    <3>3. Cardinality(active) < MaxWorkers
      BY <2>1 DEF HasRoom
    <3>. QED
      BY <1>0, <3>2, <3>3
  <2>4. \A p \in Positions : fut'[p] \in {"queued", "running", "lost"} => p \in active'
    BY <1>0, <2>1 DEF PoolInv
  <2>. QED
    BY <2>1, <2>2, <2>3, <2>4 DEF PoolInv
<1>3. ASSUME NEW p \in Positions, Collect(p) \/ CollectRaised(p) PROVE PoolInv'
  <2>1. /\ pc = "collect" /\ p \in active /\ active' = active \ {p} /\ fut' = fut
        /\ fut[p] \in Finished /\ pc' \in {"submit", "unwind"}
        /\ \/ stop' = stop
           \/ stop' = "fatal" /\ pc' = "unwind"
    BY <1>3 DEF Collect, CollectRaised, FeedInv, Finished
  <2>2. Cardinality(active') = Cardinality(active) - 1
    BY <1>0, <2>1, FS_RemoveElement
  <2>3. Cardinality(active') < MaxWorkers /\ Cardinality(active') <= MaxWorkers
    <3>1. Cardinality(active) <= MaxWorkers
      BY DEF PoolInv
    <3>. QED
      BY <1>0, <2>2, <3>1
  <2>4. \A q \in Positions : fut'[q] \in {"queued", "running", "lost"} => q \in active'
    BY <2>1 DEF PoolInv, Finished, Outcome
  <2>5. stop = "none"
    BY <2>1 DEF PoolInv
  <2>. QED
    BY <2>1, <2>3, <2>4, <2>5 DEF PoolInv
<1>4. CASE CapAbort
  BY <1>4 DEF CapAbort, feed, PoolInv
<1>5. CASE Interrupt
  BY <1>5 DEF Interrupt, feed, PoolInv
<1>6. CASE Unwind
  <2>1. \A p \in Positions : fut'[p] \in {"queued", "running", "lost"} => fut[p] \in {"queued", "running", "lost"}
    BY <1>6 DEF Unwind, WithoutQueued
  <2>. QED
    BY <1>6, <2>1 DEF Unwind, feed, PoolInv
<1>7. CASE SecondInterrupt
  <2>1. \A p \in Positions : fut'[p] \in {"queued", "running", "lost"} => fut[p] \in {"queued", "running", "lost"}
    BY <1>7 DEF SecondInterrupt
  <2>. QED
    BY <1>7, <2>1 DEF SecondInterrupt, feed, PoolInv
<1>8. ASSUME NEW p \in Positions, Begin(p) \/ End(p) PROVE PoolInv'
  <2>1. \A q \in Positions : fut'[q] \in {"queued", "running", "lost"} => fut[q] \in {"queued", "running", "lost"}
    BY <1>0, <1>8 DEF Begin, End
  <2>. QED
    BY <1>8, <2>1 DEF Begin, End, feed, PoolInv
<1>. QED
  BY <1>1, <1>2, <1>3, <1>4, <1>5, <1>6, <1>7, <1>8
     DEF Next, Main, Admit, PassOver, Pull, CanPull, SubmitReturns, WaitReturns, Finish, BreakOff, Quiet,
         vars, feed, books, PoolInv

\* What is left when the call returns.
LEMMA LeftStep == IInv /\ PoolInv /\ LeftInv /\ [Next]_vars => LeftInv'
<1> SUFFICES ASSUME IInv, PoolInv, LeftInv, [Next]_vars PROVE LeftInv'
  OBVIOUS
<1>0. fut \in [Positions -> FutState] /\ TypeOK
  BY DEF IInv, TypeOK
<1>1. CASE Admit
  <2>1. pc = "admission" => InState({"queued"}) = {} /\ Running = {}
    BY DEF PoolInv, InState, Running
  <2>2. fut' = fut /\ pc = "admission"
    BY <1>1 DEF Admit
  <2>. QED
    BY <2>1, <2>2 DEF LeftInv, InState, Running
<1>2. CASE Unwind
  BY <1>2 DEF Unwind, WithoutQueued, LeftInv, InState
<1>3. CASE Finish
  <2>1. /\ pc = "shutdown" /\ fut' = fut /\ stop' = stop /\ result' = Verdict
        /\ ShutdownWaits => Running = {}
    BY <1>3 DEF Finish
  <2>2. CASE stop = "fatal"
    BY <2>1, <2>2 DEF Verdict, LeftInv, InState
  <2>3. CASE stop # "fatal"
    <3>1. Running = {}
      <4>1. stop \in {"none", "planning_cap", "fatal", "sigint", "sigterm"}
        BY <1>0 DEF TypeOK
      <4>2. stop = "planning_cap" => Running = {}
        BY DEF PoolInv, InState, Running
      <4>. QED
        BY <2>1, <2>3, <4>1, <4>2 DEF ShutdownWaits
    <3>. QED
      BY <2>1, <3>1 DEF LeftInv, InState, Running
  <2>. QED
    BY <2>2, <2>3
<1>4. CASE SecondInterrupt
  <2>1. /\ pc = "shutdown"
        /\ fut' = [p \in Positions |-> IF fut[p] = "running" THEN "lost" ELSE fut[p]]
    BY <1>4 DEF SecondInterrupt
  <2>2. \A p \in Positions : fut'[p] # "running" /\ (fut'[p] = "queued" => fut[p] = "queued")
    BY <2>1
  <2>. QED
    BY <2>1, <2>2 DEF LeftInv, InState, Running
<1>5. CASE BreakOff
  BY <1>5 DEF BreakOff, LeftInv, InState
<1>6. ASSUME NEW p \in Positions, Begin(p) \/ End(p) PROVE LeftInv'
  <2>1. /\ UNCHANGED <<pc, stop, result>> /\ fut[p] \in {"queued", "running"}
        /\ \A q \in Positions : fut'[q] = "queued" => fut[q] = "queued"
    BY <1>0, <1>6 DEF Begin, End, Finished, Outcome
  <2>2. CASE pc \in {"shutdown", "done"}
    <3>1. End(p)
      BY <1>6, <2>2 DEF Begin, LeftInv, InState
    <3>2. \A q \in Positions : fut'[q] = "running" => fut[q] = "running"
      BY <1>0, <3>1 DEF End, Finished, Outcome
    <3>. QED
      BY <2>1, <2>2, <3>2 DEF LeftInv, InState, Running
  <2>. QED
    BY <2>1, <2>2 DEF LeftInv
<1>7. CASE UNCHANGED <<pc, fut, stop, result>>
  BY <1>7 DEF LeftInv, InState, Running
<1>8. CASE pc' \notin {"shutdown", "done"}
  BY <1>8 DEF LeftInv
<1>. QED
  BY <1>1, <1>2, <1>3, <1>4, <1>5, <1>6, <1>7, <1>8
     DEF Next, Main, PassOver, Pull, Submit, CanPull, CapAbort, SubmitReturns, WaitReturns, Collect,
         CollectRaised, Interrupt, Quiet, vars

\* The workers that are left when the call returns are those of a fatal error, which
\* took one of them, or of a wait that was broken off, for every size of the pool.
THEOREM OrphansAreExplained == Spec => []OrphansExplained
<1>1. Init => PoolInv /\ LeftInv
  BY FS_EmptySet, PlanAssumption DEF Init, PoolInv, LeftInv
<1>2. IInv /\ PoolInv /\ [Next]_vars => PoolInv'
  BY PoolStep DEF IInv
<1>3. IInv /\ PoolInv /\ LeftInv => OrphansExplained
  <2> SUFFICES ASSUME IInv, PoolInv, LeftInv, pc = "done", Running # {}, result # "broken_off"
               PROVE  result = "fatal" /\ Cardinality(Running) < MaxWorkers
    BY DEF OrphansExplained
  <2>1. result = "fatal" /\ stop = "fatal"
    BY DEF LeftInv
  <2>2. /\ IsFiniteSet(active) /\ Cardinality(active) \in Nat /\ MaxWorkers \in Nat
        /\ Cardinality(active) < MaxWorkers
    BY <2>1, ActiveFinite DEF IInv, PoolInv
  <2>3. Running \subseteq active
    BY DEF PoolInv, Running, InState
  <2>4. /\ Cardinality(Running) \in Nat /\ Cardinality(Running) <= Cardinality(active)
    BY <2>2, <2>3, FS_Subset, FS_CardinalityType
  <2>. QED
    BY <2>1, <2>2, <2>4
<1>. QED
  BY <1>1, <1>2, <1>3, InvInit, InvStep, LeftStep, PTL DEF Spec

-----------------------------------------------------------------------------
(* The cents *)

\* The collected partitions that were charged, and those that left a file.
ChargedOnes == {p \in InState(Outcome) \ active : fut[p] # "cached"}
LandedOnes == {p \in InState(Outcome) \ active : fut[p] \in {"placed", "no_data"}}

\* The partitions that Databento may have been asked for, or may still be.
Spent == active \cup InState({"raised", "placed", "no_data", "failed"})

SpentInv == CostOf(Spent) <= cap

LEMMA CostOfType ==
    ASSUME TypeOK, NEW S \in SUBSET Positions
    PROVE  /\ IsFiniteSet(S) /\ \A p \in S : cost[p] \in Nat /\ cost[p] \in Int
           /\ CostOf(S) \in Nat
           /\ \A T \in SUBSET S : CostOf(T) \in Nat /\ CostOf(T) <= CostOf(S)
<1>1. IsFiniteSet(S) /\ \A p \in S : cost[p] \in Nat
  BY PositionsFinite DEF TypeOK
<1>. QED
  BY <1>1, TotalNat DEF CostOf

\* A partition more, and a partition less.
LEMMA CostWith ==
    ASSUME TypeOK, NEW S \in SUBSET Positions, NEW p \in Positions \ S
    PROVE  CostOf(S \cup {p}) = CostOf(S) + cost[p]
BY CostOfType, TotalWith DEF CostOf, TypeOK

LEMMA CostWithout ==
    ASSUME TypeOK, NEW S \in SUBSET Positions, NEW p \in S
    PROVE  CostOf(S \ {p}) = CostOf(S) - cost[p]
<1>1. CostOf(S) = cost[p] + CostOf(S \ {p})
  BY CostOfType, TotalWithout DEF CostOf
<1>2. CostOf(S) \in Nat /\ CostOf(S \ {p}) \in Nat /\ cost[p] \in Nat
  BY CostOfType
<1>. QED
  BY <1>1, <1>2

LEMMA CostUnion ==
    ASSUME TypeOK, NEW S \in SUBSET Positions, NEW T \in SUBSET Positions, S \cap T = {}
    PROVE  CostOf(S \cup T) = CostOf(S) + CostOf(T)
<1>1. \A p \in S \cup T : cost[p] \in Int
  BY DEF TypeOK
<1>. QED
  BY <1>1, CostOfType, TotalUnion DEF CostOf

LEMMA Ones ==
    ASSUME TypeOK
    PROVE  /\ active \in SUBSET Positions /\ Spent \in SUBSET Positions
           /\ ChargedOnes \in SUBSET Positions /\ LandedOnes \in SUBSET Positions
           /\ ChargedOnes \cap active = {} /\ ChargedOnes \subseteq Spent
BY DEF TypeOK, Spent, ChargedOnes, LandedOnes, InState, Outcome

LEMMA TotalsAre ==
    TotalsMatchFutures <=> /\ outstanding = CostOf(active)
                           /\ committed = CostOf(ChargedOnes)
                           /\ landed = CostOf(LandedOnes)
BY DEF TotalsMatchFutures, ChargedOnes, LandedOnes

LEMMA NextTotalsAre ==
    TotalsMatchFutures' <=> /\ outstanding' = Total(cost', active')
                            /\ committed' = Total(cost', ChargedOnes')
                            /\ landed' = Total(cost', LandedOnes')
BY DEF TotalsMatchFutures, ChargedOnes, LandedOnes, CostOf

\* A step that leaves alone the cents, the active set and the futures outside it.
LEMMA TotalsKept ==
    ASSUME TypeOK, TotalsMatchFutures, SpentInv,
           UNCHANGED <<cap, active, committed, outstanding, landed>>,
           \A p \in Positions : p \notin active => fut'[p] = fut[p],
           \A p \in Positions : p \in active \/ fut[p] # "none" => cost'[p] = cost[p]
    PROVE  TotalsMatchFutures' /\ SpentInv'
<1>1. ChargedOnes' = ChargedOnes /\ LandedOnes' = LandedOnes
  BY DEF ChargedOnes, LandedOnes, InState
<1>2. Spent' = Spent
  BY DEF Spent, InState
<1>3. /\ IsFiniteSet(active) /\ IsFiniteSet(ChargedOnes) /\ IsFiniteSet(LandedOnes)
      /\ IsFiniteSet(Spent)
  BY Ones, CostOfType
<1>4. /\ \A p \in active : cost'[p] = cost[p]
      /\ \A p \in ChargedOnes : cost'[p] = cost[p]
      /\ \A p \in LandedOnes : cost'[p] = cost[p]
      /\ \A p \in Spent : cost'[p] = cost[p]
  BY Ones DEF ChargedOnes, LandedOnes, Spent, InState, Outcome
<1>5. /\ Total(cost', active) = CostOf(active) /\ Total(cost', Spent) = CostOf(Spent)
      /\ Total(cost', ChargedOnes) = CostOf(ChargedOnes)
      /\ Total(cost', LandedOnes) = CostOf(LandedOnes)
  BY <1>3, <1>4, TotalSame DEF CostOf
<1>. QED
  BY <1>1, <1>2, <1>5, TotalsAre, NextTotalsAre DEF SpentInv, CostOf

\* The totals stay those of the futures, and what is spent within the cap.
LEMMA TotalsStep ==
    IInv /\ PoolInv /\ TotalsMatchFutures /\ SpentInv /\ [Next]_vars =>
        TotalsMatchFutures' /\ SpentInv'
<1> SUFFICES ASSUME IInv, PoolInv, TotalsMatchFutures, SpentInv, [Next]_vars
             PROVE  TotalsMatchFutures' /\ SpentInv'
  OBVIOUS
<1>0. /\ TypeOK /\ FeedInv /\ LedgerInv /\ ExitInv
      /\ fut \in [Positions -> FutState] /\ active \in SUBSET Positions
      /\ cost \in [Positions -> Nat] /\ outstanding \in Int /\ committed \in Nat /\ landed \in Nat
      /\ cap \in Nat
  BY DEF IInv, TypeOK
<1>1. CASE UNCHANGED <<cap, fut, active, cost, committed, outstanding, landed>>
  BY <1>0, <1>1, TotalsKept
<1>2. CASE Pull
  <2> DEFINE p == cursor + 1
  <2>1. /\ cost' = [cost EXCEPT ![p] = Share(mills, Work[p], alloc[Work[p]])] /\ cursor < Len(Work)
        /\ UNCHANGED <<cap, fut, active, committed, outstanding, landed>>
    BY <1>2 DEF Pull, CanPull, plan, books
  <2>2. p \in Positions /\ fut[p] = "none" /\ p \notin active
    BY <1>0, <2>1, PositionsFinite DEF FeedInv, TypeOK, Positions
  <2>3. \A q \in Positions : q \in active \/ fut[q] # "none" => cost'[q] = cost[q]
    BY <1>0, <2>1, <2>2
  <2>. QED
    BY <1>0, <2>1, <2>3, TotalsKept
<1>3. CASE Submit
  <2>1. /\ Fits(cost[pending]) /\ pending # 0 /\ pc = "submit"
        /\ fut' = [fut EXCEPT ![pending] = "queued"] /\ active' = active \cup {pending}
        /\ outstanding' = outstanding + cost[pending]
        /\ UNCHANGED <<cap, cost, committed, landed>>
    BY <1>3 DEF Submit, plan
  <2>2. pending \in Positions /\ fut[pending] = "none" /\ pending \notin active
    BY <1>0, <2>1, PositionsFinite DEF FeedInv, TypeOK, Positions
  <2>3. ChargedOnes' = ChargedOnes /\ LandedOnes' = LandedOnes
    BY <1>0, <2>1, <2>2 DEF ChargedOnes, LandedOnes, InState, Outcome
  <2>4. CostOf(active \cup {pending}) = CostOf(active) + cost[pending]
    BY <1>0, <2>2, CostWith
  <2>5. TotalsMatchFutures'
    BY <2>1, <2>3, <2>4, TotalsAre, NextTotalsAre DEF CostOf
  <2>6. stop = "none"
    BY <2>1 DEF PoolInv
  <2>7. Spent' = (active \cup ChargedOnes) \cup {pending} /\ pending \notin active \cup ChargedOnes
    BY <1>0, <2>1, <2>2, <2>6 DEF Spent, ChargedOnes, InState, Outcome, LedgerInv
  <2>8. CostOf(Spent') = CostOf(active) + CostOf(ChargedOnes) + cost[pending]
    <3>1. active \cup ChargedOnes \in SUBSET Positions /\ active \cap ChargedOnes = {}
      BY <1>0, Ones
    <3>2. CostOf(active \cup ChargedOnes) = CostOf(active) + CostOf(ChargedOnes)
      BY <1>0, <3>1, CostUnion
    <3>3. CostOf((active \cup ChargedOnes) \cup {pending}) =
              CostOf(active \cup ChargedOnes) + cost[pending]
      BY <1>0, <2>2, <2>7, <3>1, CostWith
    <3>. QED
      BY <2>7, <3>2, <3>3
  <2>9. CostOf(Spent') <= cap
    <3>1. outstanding = CostOf(active) /\ committed = CostOf(ChargedOnes)
      BY TotalsAre
    <3>2. committed + outstanding + cost[pending] <= cap
      BY <2>1 DEF Fits
    <3>3. cost[pending] \in Nat
      BY <1>0, <2>2
    <3>. QED
      BY <1>0, <2>8, <3>1, <3>2, <3>3
  <2>. QED
    BY <2>1, <2>5, <2>9 DEF SpentInv, CostOf
<1>4. ASSUME NEW p \in Positions, Collect(p) PROVE TotalsMatchFutures' /\ SpentInv'
  <2>1. /\ p \in active /\ fut[p] \in Outcome /\ active' = active \ {p}
        /\ outstanding' = outstanding - cost[p]
        /\ committed' = IF fut[p] \in Charged THEN committed + cost[p] ELSE committed
        /\ landed' = IF fut[p] \in Landed THEN landed + cost[p] ELSE landed
        /\ UNCHANGED <<cap, cost, fut>>
    BY <1>0, <1>4 DEF Collect, FeedInv, plan, feed
  <2>2. p \notin ChargedOnes /\ p \notin LandedOnes
    BY <2>1 DEF ChargedOnes, LandedOnes
  <2>3. ChargedOnes' = IF fut[p] \in Charged THEN ChargedOnes \cup {p} ELSE ChargedOnes
    BY <1>0, <2>1 DEF ChargedOnes, InState, Charged, Outcome
  <2>4. LandedOnes' = IF fut[p] \in Landed THEN LandedOnes \cup {p} ELSE LandedOnes
    BY <1>0, <2>1 DEF LandedOnes, InState, Landed, Outcome
  <2>5. /\ CostOf(ChargedOnes \cup {p}) = CostOf(ChargedOnes) + cost[p]
        /\ CostOf(LandedOnes \cup {p}) = CostOf(LandedOnes) + cost[p]
        /\ CostOf(active \ {p}) = CostOf(active) - cost[p]
    BY <1>0, <2>1, <2>2, Ones, CostWith, CostWithout
  <2>6. /\ outstanding' = CostOf(active') /\ committed' = CostOf(ChargedOnes')
        /\ landed' = CostOf(LandedOnes')
    BY <2>1, <2>3, <2>4, <2>5, TotalsAre
  <2>7. Spent' \subseteq Spent
    BY <2>1 DEF Spent, InState
  <2>8. CostOf(Spent') <= cap
    <3>1. CostOf(Spent') <= CostOf(Spent) /\ CostOf(Spent') \in Nat /\ CostOf(Spent) \in Nat
      BY <1>0, <2>7, Ones, CostOfType
    <3>. QED
      BY <1>0, <3>1 DEF SpentInv
  <2>. QED
    BY <2>1, <2>6, <2>8, NextTotalsAre DEF SpentInv, CostOf
<1>5. ASSUME NEW p \in Positions, CollectRaised(p) PROVE TotalsMatchFutures' /\ SpentInv'
  <2>1. /\ p \in active /\ fut[p] = "raised" /\ active' = active \ {p}
        /\ outstanding' = outstanding - cost[p]
        /\ UNCHANGED <<cap, cost, fut, committed, landed>>
    BY <1>0, <1>5 DEF CollectRaised, FeedInv, plan, feed
  <2>2. ChargedOnes' = ChargedOnes /\ LandedOnes' = LandedOnes /\ Spent' = Spent
    BY <1>0, <2>1 DEF ChargedOnes, LandedOnes, Spent, InState, Outcome
  <2>3. CostOf(active \ {p}) = CostOf(active) - cost[p]
    BY <1>0, <2>1, Ones, CostWithout
  <2>. QED
    BY <2>1, <2>2, <2>3, TotalsAre, NextTotalsAre DEF SpentInv, CostOf
<1>6. CASE Unwind \/ SecondInterrupt
  <2>1. UNCHANGED <<cap, active, cost, committed, outstanding, landed>>
    BY <1>6 DEF Unwind, SecondInterrupt, plan, feed, books
  <2>2. \A p \in Positions : p \notin active => fut'[p] = fut[p]
    BY <1>0, <1>6 DEF Unwind, WithoutQueued, SecondInterrupt, PoolInv
  <2>. QED
    BY <1>0, <2>1, <2>2, TotalsKept
<1>7. ASSUME NEW p \in Positions, Begin(p) \/ End(p) PROVE TotalsMatchFutures' /\ SpentInv'
  <2>1. /\ UNCHANGED <<cap, active, cost, committed, outstanding, landed>>
        /\ fut[p] \in {"queued", "running"}
        /\ \A q \in Positions : q # p => fut'[q] = fut[q]
    BY <1>0, <1>7 DEF Begin, End, plan, feed, books
  <2>2. p \in active
    BY <2>1 DEF PoolInv
  <2>. QED
    BY <1>0, <2>1, <2>2, TotalsKept
<1>. QED
  BY <1>1, <1>2, <1>3, <1>4, <1>5, <1>6, <1>7
     DEF Next, Main, Admit, PassOver, CapAbort, SubmitReturns, WaitReturns, Finish, Interrupt, BreakOff,
         Quiet, vars, plan, feed, books

\* Nothing costs anything before it is pulled.
LEMMA NoCost == ASSUME Init PROVE \A S \in SUBSET Positions : CostOf(S) = 0
<1>1. ASSUME NEW S \in SUBSET Positions
      PROVE  CostOf(S) = 0
  <2>1. TypeOK
    BY TypeInit
  <2>2. IsFiniteSet(S) /\ \A p \in S : cost[p] = 0
    BY <2>1, CostOfType DEF Init
  <2> DEFINE Good == {T \in SUBSET S : Total(cost, T) = 0}
  <2>3. ASSUME NEW T \in SUBSET S, \A p \in T : T \ {p} \in Good
        PROVE  T \in Good
    <3>1. CASE T = {}
      BY <3>1, TotalEmpty
    <3>2. CASE T # {}
      <4>1. PICK p \in T : TRUE
        BY <3>2
      <4>2. CostOf(T \ {p}) = CostOf(T) - cost[p] /\ CostOf(T) \in Nat
        BY <2>1, <4>1, CostWithout, CostOfType
      <4>3. CostOf(T \ {p}) = 0 /\ cost[p] = 0
        BY <2>2, <2>3, <4>1 DEF CostOf
      <4>. QED
        BY <4>2, <4>3 DEF CostOf
    <3>. QED
      BY <3>1, <3>2
  <2>4. SUBSET S \subseteq Good
    <3> HIDE DEF Good
    <3>. QED
      BY <2>2, <2>3, OnFiniteSets
  <2>. QED
    BY <2>4 DEF CostOf
<1>. QED
  BY <1>1

LEMMA TotalsInit == Init => TotalsMatchFutures /\ SpentInv
<1> SUFFICES ASSUME Init PROVE TotalsMatchFutures /\ SpentInv
  OBVIOUS
<1>1. TypeOK
  BY TypeInit
<1>2. CostOf(active) = 0 /\ CostOf(ChargedOnes) = 0 /\ CostOf(LandedOnes) = 0 /\ CostOf(Spent) = 0
  BY <1>1, Ones, NoCost
<1>3. outstanding = 0 /\ committed = 0 /\ landed = 0
  BY DEF Init
<1>. QED
  BY <1>1, <1>2, <1>3, TotalsAre DEF SpentInv, TypeOK

LEMMA PoolInit == Init => PoolInv
BY FS_EmptySet, PlanAssumption DEF Init, PoolInv

LEMMA Booked == Spec => [](IInv /\ PoolInv /\ TotalsMatchFutures /\ SpentInv)
<1>1. IInv /\ PoolInv /\ [Next]_vars => PoolInv'
  BY PoolStep DEF IInv
<1>. QED
  BY <1>1, InvInit, InvStep, PoolInit, TotalsInit, TotalsStep, PTL DEF Spec

\* The running totals are those of the futures they stand for, in whatever order
\* results, errors and signals come.
THEOREM TotalsMatch == Spec => []TotalsMatchFutures
BY Booked, PTL

\* Whatever may have been billed costs at most the cap, by the plan's estimates, also
\* while workers outlive a fatal error.
THEOREM SpentWithinCap == Spec => []SpendWithinCap
<1>1. IInv /\ PoolInv /\ SpentInv => SpendWithinCap
  <2> SUFFICES ASSUME IInv, PoolInv, SpentInv PROVE SpendWithinCap
    OBVIOUS
  <2> DEFINE S == InState({"running", "lost", "raised", "placed", "no_data", "failed"})
  <2>1. S \in SUBSET Spent /\ Spent \in SUBSET Positions
    BY Ones DEF IInv, PoolInv, Spent, InState
  <2>2. CostOf(S) <= CostOf(Spent) /\ CostOf(S) \in Nat /\ CostOf(Spent) \in Nat /\ cap \in Nat
    <3> HIDE DEF S
    <3>. QED
      BY <2>1, CostOfType DEF IInv, TypeOK
  <2>3. CostOf(S) <= cap
    BY <2>2 DEF SpentInv
  <2>. QED
    BY <2>3 DEF SpendWithinCap
<1>. QED
  BY <1>1, Booked, PTL

-----------------------------------------------------------------------------
(* How a bucket's cents are spread *)

Pulled(k) == {p \in 1..cursor : p \notin skipped /\ Work[p] = k}

Count(k) == Cardinality(PositionsOf(k))

\* The first partitions of a bucket have a cent more.
Quotient(k) == KeyCents(mills, k) \div Count(k)
Rest(k) == KeyCents(mills, k) % Count(k)

AllocInv ==
    /\ \A k \in Key : alloc[k] = Cardinality(Pulled(k))
    /\ \A p \in Positions : p > cursor \/ p \in skipped => cost[p] = 0
    /\ \A k \in BusyKeys :
          CostOf(PositionsOf(k)) =
              alloc[k] * Quotient(k) + (IF alloc[k] <= Rest(k) THEN alloc[k] ELSE Rest(k))

LEMMA BucketFacts ==
    ASSUME TypeOK, NEW k \in BusyKeys
    PROVE  /\ k \in Key /\ PositionsOf(k) \in SUBSET Positions /\ IsFiniteSet(PositionsOf(k))
           /\ Count(k) \in Nat \ {0} /\ KeyCents(mills, k) \in Nat
           /\ Quotient(k) \in Nat /\ Rest(k) \in Nat /\ Rest(k) < Count(k)
           /\ KeyCents(mills, k) = Count(k) * Quotient(k) + Rest(k)
           /\ alloc[k] \in Nat
<1>1. k \in Key /\ PositionsOf(k) \in SUBSET Positions /\ PositionsOf(k) # {}
  BY DEF BusyKeys, PositionsOf
<1>2. IsFiniteSet(PositionsOf(k)) /\ Count(k) \in Nat \ {0}
  BY <1>1, PositionsFinite, FS_EmptySet DEF Count
<1>3. KeyCents(mills, k) \in Nat
  <2>1. mills[k] + 5 \in Nat
    BY <1>1 DEF TypeOK
  <2>. QED
    BY <2>1, DivType DEF KeyCents, HalfUpCents
<1>4. /\ Quotient(k) \in Nat /\ Rest(k) \in Nat /\ Rest(k) < Count(k)
      /\ KeyCents(mills, k) = Count(k) * Quotient(k) + Rest(k)
  BY <1>2, <1>3, DivMod DEF Quotient, Rest
<1>5. alloc[k] \in Nat
  BY <1>1 DEF TypeOK
<1>. QED
  BY <1>1, <1>2, <1>3, <1>4, <1>5

\* One share more.
LEMMA OneMoreShare ==
    ASSUME NEW a \in Nat, NEW q \in Nat, NEW r \in Nat
    PROVE  (a + 1) * q + (IF a + 1 <= r THEN a + 1 ELSE r) =
               a * q + (IF a <= r THEN a ELSE r) + (q + (IF a < r THEN 1 ELSE 0))
<1>1. (a + 1) * q = a * q + q /\ a * q \in Nat
  OBVIOUS
<1>2. (IF a + 1 <= r THEN a + 1 ELSE r) = (IF a <= r THEN a ELSE r) + (IF a < r THEN 1 ELSE 0)
  OBVIOUS
<1>. QED
  BY <1>1, <1>2

\* What has been allocated is never more than the bucket's cents, and in the end all of them.
LEMMA SharesAddUp ==
    ASSUME NEW n \in Nat, NEW a \in Nat, a <= n, NEW q \in Nat, NEW r \in Nat, r < n
    PROVE  /\ a * q + (IF a <= r THEN a ELSE r) <= n * q + r
           /\ a = n => a * q + (IF a <= r THEN a ELSE r) = n * q + r
<1>1. a * q \in Nat /\ n * q \in Nat /\ a * q <= n * q
  BY TimesMonotonic
<1>. QED
  BY <1>1

LEMMA AllocIsConserved == TypeOK /\ AllocInv => AllocationConserves
<1> SUFFICES ASSUME TypeOK, AllocInv, NEW k \in BusyKeys
             PROVE  /\ CostOf(PositionsOf(k)) <= KeyCents(mills, k)
                    /\ alloc[k] = Count(k) => CostOf(PositionsOf(k)) = KeyCents(mills, k)
  BY DEF AllocationConserves, Count
<1>1. alloc[k] <= Count(k)
  <2>1. Pulled(k) \in SUBSET PositionsOf(k)
    BY PositionsFinite DEF Pulled, PositionsOf, Positions, TypeOK
  <2>. QED
    BY <2>1, BucketFacts, FS_Subset DEF AllocInv, Count
<1>2. CostOf(PositionsOf(k)) =
          alloc[k] * Quotient(k) + (IF alloc[k] <= Rest(k) THEN alloc[k] ELSE Rest(k))
  BY DEF AllocInv
<1>. QED
  BY <1>1, <1>2, BucketFacts, SharesAddUp

LEMMA AllocStep == TypeOK /\ FeedInv /\ AllocInv /\ [Next]_vars => AllocInv'
<1> SUFFICES ASSUME TypeOK, FeedInv, AllocInv, [Next]_vars PROVE AllocInv'
  OBVIOUS
<1>0. /\ Len(Work) \in Nat /\ cursor \in 0..Len(Work) /\ skipped \in SUBSET Positions
      /\ alloc \in [Key -> Nat] /\ cost \in [Positions -> Nat] /\ mills \in [Key -> Nat]
  BY PositionsFinite DEF TypeOK
<1>1. CASE UNCHANGED <<mills, cursor, skipped, alloc, cost>>
  BY <1>1 DEF AllocInv, Pulled, Quotient, Rest, CostOf
<1>2. CASE PassOver
  <2>1. /\ cursor' = cursor + 1 /\ skipped' = skipped \cup {cursor + 1}
        /\ UNCHANGED <<mills, alloc, cost>>
    BY <1>2 DEF PassOver, plan
  <2>2. \A k : Pulled(k)' = Pulled(k)
    BY <1>0, <2>1 DEF Pulled
  <2>3. \A p \in Positions : p > cursor' \/ p \in skipped' => p > cursor \/ p \in skipped
    BY <1>0, <2>1 DEF Positions
  <2>. QED
    BY <2>1, <2>2, <2>3 DEF AllocInv, Quotient, Rest, CostOf
<1>3. CASE Pull
  <2>0. PICK p \in Positions, k \in Key : p = cursor + 1 /\ k = Work[p]
    <3>1. cursor + 1 \in Positions
      BY <1>0, <1>3 DEF Pull, CanPull, Positions
    <3>. QED
      BY <3>1, PlanAssumption DEF Positions
  <2> DEFINE share == Share(mills, k, alloc[k])
  <2>1. /\ cursor' = p /\ cursor < Len(Work) /\ cost' = [cost EXCEPT ![p] = share]
        /\ alloc' = [alloc EXCEPT ![k] = @ + 1] /\ UNCHANGED <<mills, skipped>>
    BY <1>3, <2>0 DEF Pull, CanPull, plan
  <2>2. /\ p \in Positions /\ p \notin skipped /\ k \in Key /\ p \in PositionsOf(k)
        /\ k \in BusyKeys /\ cost[p] = 0
    <3>1. p \notin skipped
      BY <1>0, <2>0 DEF FeedInv
    <3>2. p \in PositionsOf(k)
      BY <2>0 DEF PositionsOf
    <3>3. k \in BusyKeys
      BY <2>0, <3>2 DEF BusyKeys
    <3>4. cost[p] = 0
      <4>1. p > cursor
        BY <1>0, <2>0
      <4>. QED
        BY <1>0, <2>0, <4>1 DEF AllocInv
    <3>. QED
      BY <2>0, <3>1, <3>2, <3>3, <3>4
  <2>3. share \in Nat
    <3>1. mills \in [Key -> Nat] /\ alloc[k] \in Nat
      BY <2>2 DEF TypeOK
    <3>2. Share(mills, Work[p], alloc[k]) \in Nat
      BY <3>1, ShareType
    <3>. QED
      BY <2>0, <3>2
  <2> HIDE DEF share
  <2>4. \A l \in Key : alloc'[l] = Cardinality(Pulled(l)')
    <3>1. ASSUME NEW l \in Key, l # k
          PROVE  Pulled(l)' = Pulled(l)
      BY <1>0, <2>0, <2>1, <3>1 DEF Pulled
    <3>2. Pulled(k)' = Pulled(k) \cup {p} /\ p \notin Pulled(k)
      <4>1. 1..(cursor + 1) = (1..cursor) \cup {cursor + 1} /\ cursor + 1 \notin 1..cursor
        BY <1>0
      <4>. QED
        BY <2>0, <2>1, <2>2, <4>1 DEF Pulled
    <3>3. IsFiniteSet(Pulled(k))
      <4>1. Pulled(k) \in SUBSET Positions
        BY <1>0 DEF Pulled, Positions
      <4>. QED
        BY <4>1, PositionsFinite
    <3>4. Cardinality(Pulled(k)') = Cardinality(Pulled(k)) + 1
      BY <3>2, <3>3, FS_AddElement
    <3>5. alloc'[k] = alloc[k] + 1 /\ \A l \in Key : l # k => alloc'[l] = alloc[l]
      BY <1>0, <2>1, <2>2
    <3>6. \A l \in Key : alloc[l] = Cardinality(Pulled(l))
      BY DEF AllocInv
    <3>7. alloc'[k] = Cardinality(Pulled(k)')
      BY <2>2, <3>4, <3>5, <3>6
    <3>8. ASSUME NEW l \in Key, l # k
          PROVE  alloc'[l] = Cardinality(Pulled(l)')
      BY <3>1, <3>5, <3>6, <3>8
    <3>. QED
      BY <3>7, <3>8
  <2>5. \A q \in Positions : q > cursor' \/ q \in skipped' => cost'[q] = 0
    <3>1. \A q \in Positions : q # p => cost'[q] = cost[q]
      BY <1>0, <2>1
    <3>2. ~ (p > cursor' \/ p \in skipped')
      BY <1>0, <2>0, <2>1, <2>2
    <3>3. \A q \in Positions : q > cursor' => q > cursor
      BY <1>0, <2>0, <2>1 DEF Positions
    <3>. QED
      BY <2>1, <3>1, <3>2, <3>3 DEF AllocInv
  <2>6. ASSUME NEW l \in BusyKeys
        PROVE  Total(cost', PositionsOf(l)) =
                   alloc'[l] * Quotient(l) + (IF alloc'[l] <= Rest(l) THEN alloc'[l] ELSE Rest(l))
    <3> DEFINE spread(a) == a * Quotient(l) + (IF a <= Rest(l) THEN a ELSE Rest(l))
    <3>1. IsFiniteSet(PositionsOf(l)) /\ PositionsOf(l) \in SUBSET Positions /\ l \in Key
      BY BucketFacts
    <3>2. Total(cost, PositionsOf(l)) = spread(alloc[l])
      BY DEF AllocInv, CostOf
    <3>3. CASE l # k
      <4>1. alloc'[l] = alloc[l] /\ \A q \in PositionsOf(l) : cost[q] = cost'[q]
        BY <1>0, <2>1, <2>2, <3>1, <3>3 DEF PositionsOf
      <4>2. Total(cost, PositionsOf(l)) = Total(cost', PositionsOf(l))
        BY <3>1, <4>1, TotalSame
      <4>. QED
        BY <3>2, <4>1, <4>2
    <3>4. CASE l = k
      <4> DEFINE S == PositionsOf(l)
      <4>1. /\ IsFiniteSet(S \ {p}) /\ p \in S /\ cost'[p] = share
            /\ \A q \in S \ {p} : cost[q] = cost'[q]
            /\ \A q \in S : cost[q] \in Int /\ cost'[q] \in Int
        <5>1. p \in S /\ IsFiniteSet(S \ {p})
          BY <2>2, <3>1, <3>4, FS_RemoveElement
        <5>2. \A q \in S : q \in Positions
          BY <3>1
        <5>. QED
          BY <1>0, <2>1, <2>2, <2>3, <5>1, <5>2
      <4>2. /\ Total(cost, S) = cost[p] + Total(cost, S \ {p})
            /\ Total(cost', S) = cost'[p] + Total(cost', S \ {p})
        <5> HIDE DEF S
        <5>. QED
          BY <3>1, <4>1, TotalWithout DEF S
      <4>3. Total(cost, S \ {p}) = Total(cost', S \ {p})
        <5> HIDE DEF S
        <5>. QED
          BY <4>1, TotalSame
      <4>4. Total(cost, S) \in Int /\ Total(cost, S \ {p}) \in Int
        <5> HIDE DEF S
        <5>. QED
          BY <3>1, <4>1, TotalType DEF S
      <4>5. Total(cost', S) = spread(alloc[l]) + share
        BY <2>2, <2>3, <3>2, <4>1, <4>2, <4>3, <4>4
      <4>6. /\ alloc'[l] = alloc[l] + 1 /\ alloc[l] \in Nat
            /\ Quotient(l) \in Nat /\ Rest(l) \in Nat
        BY <1>0, <2>1, <2>2, <3>4, BucketFacts
      <4>7. share = Quotient(l) + (IF alloc[l] < Rest(l) THEN 1 ELSE 0)
        BY <3>4 DEF share, Share, Quotient, Rest, Count
      <4>8. spread(alloc[l] + 1) = spread(alloc[l]) + share
        BY <4>6, <4>7, OneMoreShare
      <4>. QED
        BY <4>5, <4>6, <4>8
    <3>. QED
      BY <3>3, <3>4
  <2>7. \A l : Quotient(l)' = Quotient(l) /\ Rest(l)' = Rest(l)
    BY <2>1 DEF Quotient, Rest
  <2>. QED
    BY <2>4, <2>5, <2>6, <2>7 DEF AllocInv, CostOf
<1>. QED
  BY <1>1, <1>2, <1>3
     DEF Next, Main, Admit, Submit, CapAbort, SubmitReturns, WaitReturns, Collect, CollectRaised, Unwind,
         Finish, Interrupt, SecondInterrupt, BreakOff, Begin, End, Quiet, vars, plan, feed, books

LEMMA AllocInit == Init => AllocInv
<1> SUFFICES ASSUME Init PROVE AllocInv
  OBVIOUS
<1>1. TypeOK /\ cursor = 0 /\ alloc = [k \in Key |-> 0] /\ cost = [p \in Positions |-> 0]
  BY TypeInit DEF Init
<1>2. \A k \in Key : Pulled(k) = {}
  BY <1>1 DEF Pulled
<1>3. ASSUME NEW k \in BusyKeys
      PROVE  CostOf(PositionsOf(k)) =
                 alloc[k] * Quotient(k) + (IF alloc[k] <= Rest(k) THEN alloc[k] ELSE Rest(k))
  <2>1. CostOf(PositionsOf(k)) = 0
    BY <1>1, BucketFacts, NoCost
  <2>2. alloc[k] = 0 /\ Quotient(k) \in Nat /\ Rest(k) \in Nat
    BY <1>1, BucketFacts
  <2>. QED
    BY <2>1, <2>2
<1>. QED
  BY <1>1, <1>2, <1>3, FS_EmptySet DEF AllocInv

LEMMA Allocated == Spec => [](IInv /\ PoolInv /\ TotalsMatchFutures /\ AllocInv)
<1>1. IInv /\ AllocInv /\ [Next]_vars => AllocInv'
  BY AllocStep DEF IInv
<1>. QED
  BY <1>1, Booked, AllocInit, PTL DEF Spec

\* The shares of a bucket's partitions add up to its cents, for every estimate and
\* number of partitions.
THEOREM SharesConserve == Spec => []AllocationConserves
<1>1. IInv /\ AllocInv => AllocationConserves
  BY AllocIsConserved DEF IInv
<1>. QED
  BY <1>1, Allocated, PTL

-----------------------------------------------------------------------------
(* The planning cap error *)

\* All that can be in flight or charged, and one partition more, is within the buckets' cents.
LEMMA EverythingFits ==
    ASSUME TypeOK, FeedInv, TotalsMatchFutures, AllocInv, SumKeyCents(mills) <= cap, pending # 0
    PROVE  Fits(cost[pending])
<1>1. pending \in Positions /\ pending \notin active /\ pending \notin ChargedOnes
  BY PositionsFinite DEF FeedInv, TypeOK, Positions, ChargedOnes, InState, Outcome
<1> DEFINE S == (active \cup ChargedOnes) \cup {pending}
<1>2. CostOf(S) = CostOf(active) + CostOf(ChargedOnes) + cost[pending]
  <2>1. active \cup ChargedOnes \in SUBSET Positions /\ active \cap ChargedOnes = {}
    BY Ones
  <2>2. CostOf(active \cup ChargedOnes) = CostOf(active) + CostOf(ChargedOnes)
    BY Ones, <2>1, CostUnion
  <2>3. CostOf(S) = CostOf(active \cup ChargedOnes) + cost[pending]
    BY <1>1, <2>1, CostWith
  <2>. QED
    BY <2>2, <2>3
<1>3. CostOf(S) <= CostOf(Positions) /\ CostOf(S) \in Nat /\ CostOf(Positions) \in Nat
  <2>1. S \in SUBSET Positions
    BY <1>1, Ones
  <2> HIDE DEF S
  <2>. QED
    BY <2>1, CostOfType
<1>4. CostOf(Positions) <= SumKeyCents(mills) /\ SumKeyCents(mills) \in Int
  <2> DEFINE perKey == [k \in BusyKeys |-> Total(cost, {p \in Positions : Work[p] = k})]
             cents == [k \in BusyKeys |-> KeyCents(mills, k)]
  <2>1. IsFiniteSet(BusyKeys)
    BY PlanAssumption, FS_Subset DEF BusyKeys
  <2>2. Total(perKey, BusyKeys) = Total(cost, {p \in Positions : Work[p] \in BusyKeys})
    <3>1. \A p \in Positions : cost[p] \in Int
      BY DEF TypeOK
    <3>. QED
      BY <2>1, <3>1, PositionsFinite, TotalByClass
  <2>3. {p \in Positions : Work[p] \in BusyKeys} = Positions
    BY PlanAssumption DEF Positions, PositionsOf, BusyKeys
  <2>4. \A k \in BusyKeys : perKey[k] \in Int /\ cents[k] \in Int /\ perKey[k] <= cents[k]
    <3>1. ASSUME NEW k \in BusyKeys
          PROVE  perKey[k] \in Int /\ cents[k] \in Int /\ perKey[k] <= cents[k]
      <4>1. perKey[k] = CostOf(PositionsOf(k)) /\ cents[k] = KeyCents(mills, k)
        BY DEF CostOf, PositionsOf
      <4>2. CostOf(PositionsOf(k)) <= KeyCents(mills, k)
        BY AllocIsConserved DEF AllocationConserves
      <4>3. CostOf(PositionsOf(k)) \in Nat /\ KeyCents(mills, k) \in Nat
        BY BucketFacts, CostOfType
      <4>. QED
        BY <4>1, <4>2, <4>3
    <3>. QED
      BY <3>1
  <2> HIDE DEF perKey, cents
  <2>5. Total(perKey, BusyKeys) <= Total(cents, BusyKeys) /\ Total(cents, BusyKeys) \in Int
    BY <2>1, <2>4, TotalMonotonic, TotalType
  <2>. QED
    BY <2>2, <2>3, <2>5 DEF cents, SumKeyCents, CostOf
<1>5. outstanding = CostOf(active) /\ committed = CostOf(ChargedOnes)
  BY TotalsAre
<1>6. /\ cap \in Nat /\ CostOf(active) \in Nat /\ CostOf(ChargedOnes) \in Nat
      /\ cost[pending] \in Nat
  BY <1>1, Ones, CostOfType DEF TypeOK
<1> HIDE DEF S
<1>7. committed + outstanding + cost[pending] <= cap
  BY <1>2, <1>3, <1>4, <1>5, <1>6
<1>. QED
  BY <1>7 DEF Fits

\* A plan whose rounded cents fit is never stopped by the cap.
NoAbortInv == SumKeyCents(mills) <= cap => stop # "planning_cap" /\ result # "planning_cap"

LEMMA NoAbortStep ==
    IInv /\ TotalsMatchFutures /\ AllocInv /\ NoAbortInv /\ [Next]_vars => NoAbortInv'
<1> SUFFICES ASSUME IInv, TotalsMatchFutures, AllocInv, NoAbortInv, [Next]_vars PROVE NoAbortInv'
  OBVIOUS
<1>1. UNCHANGED <<mills, cap>>
  BY DEF Next, Main, Admit, PassOver, Pull, Submit, CapAbort, SubmitReturns, WaitReturns, Collect,
         CollectRaised, Unwind, Finish, Interrupt, SecondInterrupt, BreakOff, Begin, End, Quiet, vars, plan
<1>2. SumKeyCents(mills)' = SumKeyCents(mills)
  BY <1>1 DEF SumKeyCents, KeyCents
<1>3. CASE CapAbort
  <2>1. pending # 0 /\ ~ Fits(cost[pending])
    BY <1>3 DEF CapAbort
  <2>2. ~ (SumKeyCents(mills) <= cap)
    BY <2>1, EverythingFits DEF IInv
  <2>. QED
    BY <1>1, <1>2, <2>2 DEF NoAbortInv
<1>4. CASE Finish
  BY <1>1, <1>2, <1>4 DEF Finish, Verdict, NoAbortInv
<1>5. CASE UNCHANGED <<stop, result>>
  BY <1>1, <1>2, <1>5 DEF NoAbortInv
<1>6. CASE Admit \/ Interrupt \/ SecondInterrupt \/ BreakOff
  BY <1>1, <1>2, <1>6 DEF Admit, Interrupt, SecondInterrupt, BreakOff, NoAbortInv
<1>7. ASSUME NEW p \in Positions, CollectRaised(p) PROVE NoAbortInv'
  BY <1>1, <1>2, <1>7 DEF CollectRaised, NoAbortInv
<1>. QED
  BY <1>3, <1>4, <1>5, <1>6, <1>7
     DEF Next, Main, PassOver, Pull, Submit, SubmitReturns, WaitReturns, Collect, Unwind, Begin, End, Quiet,
         vars

\* Only rounding each bucket's estimate on its own can make the cap stop a run that was
\* admitted: for every work list, cap, estimate and order of results.
THEOREM OnlyRoundingAborts == Spec => []AbortOnlyByRounding
<1>1. Init => NoAbortInv
  BY DEF Init, NoAbortInv
<1>2. IInv /\ TotalsMatchFutures /\ AllocInv /\ NoAbortInv => AbortOnlyByRounding
  BY EverythingFits DEF IInv, NoAbortInv, AbortOnlyByRounding
<1>. QED
  BY <1>1, <1>2, Allocated, NoAbortStep, PTL DEF Spec
=============================================================================
