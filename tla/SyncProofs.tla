------------------------------ MODULE SyncProofs ------------------------------
(***************************************************************************)
(* For any number of runs, machines, partitions and workers: what locks,   *)
(* inventories, plans and pools amount to is a mirror.                     *)
(***************************************************************************)
EXTENDS SyncRun, TLAPS

-----------------------------------------------------------------------------
(* Types *)

LEMMA ValueFacts ==
    /\ Absent \in Value /\ Nothing.files \in Store /\ Nothing.digest \in [Part -> Value]
    /\ Nothing \in Inventory /\ NoItems \in [Key -> ItemState]
    /\ \A p \in Part : Data(p) \in Key /\ Side(p) \in Key
    /\ \A k \in Key : k[1] \in Part
BY DEF Value, Store, Nothing, Inventory, NoItems, ItemState, Data, Side, Key

\* An inventory of a store is one.
LEMMA DigestTypes ==
    ASSUME NEW files \in Store
    PROVE  [p \in Part |-> KnownDigest(files, p)] \in [Part -> Value]
BY ValueFacts DEF KnownDigest, Store

LEMMA RemoteTypes ==
    ASSUME TypeOK, NEW r \in Run
    PROVE  /\ [p \in Part |-> RemoteDigest(r, p)] \in [Part -> Value]
           /\ Source(r).digest \in [Part -> Value]
<1>1. \A p \in Part : RemoteDigest(r, p) \in Value
  BY ValueFacts DEF RemoteDigest, TypeOK, Store
<1>2. here[r].digest \in [Part -> Value]
  BY DEF TypeOK, Inventory
<1>3. RemoteInventory(r).digest = [p \in Part |-> RemoteDigest(r, p)]
  <2>1. there[r] \in [files : Store, digest : [Part -> Value]]
    BY DEF TypeOK, Inventory
  <2>. QED
    BY <2>1 DEF RemoteInventory
<1>. QED
  BY <1>1, <1>2, <1>3 DEF Source

ControlOK ==
    /\ cfg \in [Run -> Configs] /\ home \in [Run -> Machine]
    /\ lock \in SUBSET Run
    /\ pc \in [Run -> {"idle", "walk", "list", "digests", "run", "drain", "publish", "done"}]
    /\ result \in [Run -> {"none", "refused", "error", "noop", "declined", "ok", "failed",
                           "fatal", "interrupted", "broken_off", "killed"}]

PlanOK ==
    /\ here \in [Run -> Inventory] /\ there \in [Run -> Inventory]
    /\ item \in [Run -> [Key -> ItemState]]
    /\ digest \in [Run -> [Part -> Value]]

StoresOK ==
    /\ local \in [Machine -> Store] /\ tmp \in [Machine -> Store]
    /\ remote \in Store /\ meta \in [Part -> Value]
    /\ manifest \in SUBSET Part

LEMMA TypeParts == TypeOK <=> ControlOK /\ PlanOK /\ StoresOK
BY DEF TypeOK, ControlOK, PlanOK, StoresOK

LEMMA ControlStep == TypeOK /\ [Next]_vars => ControlOK'
<1> SUFFICES ASSUME TypeOK, [Next]_vars PROVE ControlOK'
  OBVIOUS
<1> USE DEF ControlOK, setup, control, To, Leave
<1>0. ControlOK
  BY TypeParts
<1>1. ASSUME NEW r \in Run, MainStep(r)
      PROVE  ControlOK'
  <2>1. CASE Refuse(r) \/ Acquire(r) \/ WalkLocal(r) \/ ListRemote(r) \/ InventoryFails(r)
    BY <1>0, <2>1 DEF Refuse, Acquire, WalkLocal, ListRemote, InventoryFails
  <2>2. CASE ComputePlan(r)
    BY <1>0, <2>2 DEF ComputePlan
  <2>3. CASE \/ Fatal(r) \/ Interrupt(r) \/ Drained(r) \/ BreakOff(r) \/ Refresh(r) \/ Publish(r)
    BY <1>0, <2>3 DEF Fatal, Interrupt, Drained, BreakOff, Refresh, Publish
  <2>. QED
    BY <1>1, <2>1, <2>2, <2>3 DEF MainStep
<1>2. ASSUME NEW r \in Run, WorkerStep(r)
      PROVE  ControlOK'
  BY <1>0, <1>2 DEF WorkerStep, Begin, Upload, Fetch, Check, Replace, DeleteRemote, DeleteLocal
<1>3. ASSUME NEW r \in Run, Kill(r)
      PROVE  ControlOK'
  BY <1>0, <1>3 DEF Kill
<1>4. CASE Quiet \/ UNCHANGED vars
  BY <1>0, <1>4 DEF Quiet, vars
<1>. QED
  BY <1>1, <1>2, <1>3, <1>4 DEF Next

LEMMA PlanStep == TypeOK /\ [Next]_vars => PlanOK'
<1> SUFFICES ASSUME TypeOK, [Next]_vars PROVE PlanOK'
  OBVIOUS
<1> USE DEF PlanOK, plan, items
<1>0. PlanOK
  BY TypeParts
<1>1. ASSUME NEW r \in Run, MainStep(r)
      PROVE  PlanOK'
  <2>1. CASE Refuse(r) \/ Acquire(r) \/ InventoryFails(r)
    BY <1>0, <2>1, ValueFacts DEF Refuse, Acquire, InventoryFails
  <2>2. CASE WalkLocal(r)
    <3>1. PICK files \in Store :
              here' = [here EXCEPT ![r] =
                  [files |-> files, digest |-> [p \in Part |-> KnownDigest(files, p)]]]
      BY <2>2 DEF WalkLocal, Readable
    <3>2. [files |-> files, digest |-> [p \in Part |-> KnownDigest(files, p)]] \in Inventory
      BY DigestTypes DEF Inventory
    <3>3. here' \in [Run -> Inventory]
      BY <1>0, <3>1, <3>2
    <3>. QED
      BY <1>0, <2>2, <3>3 DEF WalkLocal
  <2>3. ASSUME there' = [there EXCEPT ![r].files = remote], UNCHANGED <<here, item, digest>>
        PROVE  PlanOK'
    <3>1. [there[r] EXCEPT !.files = remote] \in Inventory
      BY <1>0 DEF Inventory, TypeOK
    <3>2. there' \in [Run -> Inventory]
      BY <1>0, <2>3, <3>1
    <3>. QED
      BY <1>0, <2>3, <3>2
  <2>4. CASE ListRemote(r)
    BY <2>3, <2>4 DEF ListRemote
  <2>5. CASE ComputePlan(r)
    <3>1. here' \in [Run -> Inventory] /\ there' \in [Run -> Inventory]
      BY <1>0, <2>5, ValueFacts DEF ComputePlan
    <3>2. item' \in [Run -> [Key -> ItemState]] /\ digest' \in [Run -> [Part -> Value]]
      <4>1. CASE UNCHANGED items
        BY <1>0, <4>1
      <4>2. ASSUME NEW T, item' = [item EXCEPT ![r] =
                       [k \in Key |-> IF k \in T THEN "transfer"
                                      ELSE IF k \in Deletes(r) THEN "delete" ELSE "none"]],
                   digest' = [digest EXCEPT ![r] = Source(r).digest]
            PROVE  item' \in [Run -> [Key -> ItemState]] /\ digest' \in [Run -> [Part -> Value]]
        <5>1. Source(r).digest \in [Part -> Value]
          BY RemoteTypes
        <5>2. [k \in Key |-> IF k \in T THEN "transfer"
                             ELSE IF k \in Deletes(r) THEN "delete" ELSE "none"]
                 \in [Key -> ItemState]
          BY DEF ItemState, Planned
        <5>3. digest' \in [Run -> [Part -> Value]]
          BY <1>0, <4>2, <5>1
        <5>. QED
          BY <1>0, <4>2, <5>2, <5>3
      <4>. QED
        BY <2>5, <4>1, <4>2 DEF ComputePlan
    <3>. QED
      BY <3>1, <3>2
  <2>6. CASE Fatal(r) \/ Interrupt(r) \/ Drained(r) \/ BreakOff(r)
    <3>1. Cancelled(r) \in [Key -> ItemState]
      BY <1>0 DEF Cancelled, ItemState
    <3>. QED
      BY <1>0, <2>6, <3>1, ValueFacts DEF Fatal, Interrupt, Drained, BreakOff, Forget
  <2>7. CASE Refresh(r)
    BY <1>0, <2>3, <2>7, ValueFacts DEF Refresh, Forget
  <2>8. CASE Publish(r)
    BY <1>0, <2>8, ValueFacts DEF Publish, Forget
  <2>. QED
    BY <1>1, <2>1, <2>2, <2>4, <2>5, <2>6, <2>7, <2>8 DEF MainStep
<1>2. ASSUME NEW r \in Run, WorkerStep(r)
      PROVE  PlanOK'
  <2>1. /\ UNCHANGED <<here, there, digest>>
        /\ \E k \in Key, to \in ItemState : item' = [item EXCEPT ![r][k] = to]
    BY <1>2 DEF WorkerStep, Begin, Upload, Fetch, Check, Replace, DeleteRemote, DeleteLocal, Fail,
                Settle, ItemState, Busy
  <2>2. item' \in [Run -> [Key -> ItemState]]
    BY <1>0, <2>1
  <2>. QED
    BY <1>0, <2>1, <2>2
<1>3. ASSUME NEW r \in Run, Kill(r)
      PROVE  PlanOK'
  BY <1>0, <1>3, ValueFacts DEF Kill, Forget
<1>4. CASE Quiet \/ UNCHANGED vars
  BY <1>0, <1>4 DEF Quiet, vars
<1>. QED
  BY <1>1, <1>2, <1>3, <1>4 DEF Next

LEMMA StoresStep == TypeOK /\ [Next]_vars => StoresOK'
<1> SUFFICES ASSUME TypeOK, [Next]_vars PROVE StoresOK'
  OBVIOUS
<1> USE DEF StoresOK, archive, bucket
<1>0. StoresOK /\ ControlOK /\ PlanOK
  BY TypeParts
<1>1. ASSUME NEW r \in Run, MainStep(r)
      PROVE  StoresOK'
  BY <1>0, <1>1 DEF MainStep, Refuse, Acquire, WalkLocal, ListRemote, InventoryFails, ComputePlan,
                    Fatal, Interrupt, Drained, BreakOff, Refresh, Publish
<1>2. ASSUME NEW r \in Run, NEW k \in Key,
             \/ Begin(r, k) \/ Upload(r, k) \/ Fetch(r, k) \/ Check(r, k)
             \/ Replace(r, k) \/ DeleteRemote(r, k) \/ DeleteLocal(r, k)
      PROVE  StoresOK'
  <2>0. /\ home[r] \in Machine /\ local[home[r]] \in Store /\ tmp[home[r]] \in Store
        /\ local[home[r]][k] \in Value /\ tmp[home[r]][k] \in Value /\ remote[k] \in Value
        /\ \A p \in Part : digest[r][p] \in Value
    BY <1>0 DEF Store, ControlOK, PlanOK
  <2>a. \A v \in Value : [tmp EXCEPT ![home[r]][k] = v] \in [Machine -> Store]
    <3>1. ASSUME NEW v \in Value
          PROVE  [tmp EXCEPT ![home[r]][k] = v] \in [Machine -> Store]
      <4>1. [tmp[home[r]] EXCEPT ![k] = v] \in Store
        BY <2>0 DEF Store
      <4>. QED
        BY <1>0, <2>0, <4>1
    <3>. QED
      BY <3>1
  <2>b. \A v \in Value : [local EXCEPT ![home[r]][k] = v] \in [Machine -> Store]
    <3>1. ASSUME NEW v \in Value
          PROVE  [local EXCEPT ![home[r]][k] = v] \in [Machine -> Store]
      <4>1. [local[home[r]] EXCEPT ![k] = v] \in Store
        BY <2>0 DEF Store
      <4>. QED
        BY <1>0, <2>0, <4>1
    <3>. QED
      BY <3>1
  <2>1. CASE Begin(r, k)
    BY <1>0, <2>1 DEF Begin
  <2>2. CASE Upload(r, k) \/ DeleteRemote(r, k)
    <3>1. UNCHANGED <<local, tmp, manifest>>
      BY <2>2 DEF Upload, DeleteRemote
    <3>2. remote' = remote \/ \E v \in Value : remote' = [remote EXCEPT ![k] = v]
      BY <2>0, <2>2, ValueFacts DEF Upload, DeleteRemote, Put
    <3>3. meta' = meta \/ \E v \in Value : meta' = [meta EXCEPT ![k[1]] = v]
      BY <2>0, <2>2, ValueFacts DEF Upload, DeleteRemote, Put
    <3>4. remote' \in Store
      BY <1>0, <3>2 DEF Store
    <3>. QED
      BY <1>0, <3>1, <3>3, <3>4
  <2>3. CASE Fetch(r, k) \/ Check(r, k)
    <3>1. tmp' = tmp \/ \E v \in Value : tmp' = [tmp EXCEPT ![home[r]][k] = v]
      BY <2>0, <2>3, ValueFacts DEF Fetch, Check
    <3>2. tmp' \in [Machine -> Store]
      BY <1>0, <2>a, <3>1
    <3>. QED
      BY <1>0, <2>3, <3>2 DEF Fetch, Check
  <2>4. CASE Replace(r, k) \/ DeleteLocal(r, k)
    <3>1. local' = local \/ \E v \in Value : local' = [local EXCEPT ![home[r]][k] = v]
      BY <2>0, <2>4, ValueFacts DEF Replace, DeleteLocal
    <3>2. tmp' = tmp \/ \E v \in Value : tmp' = [tmp EXCEPT ![home[r]][k] = v]
      BY <2>0, <2>4, ValueFacts DEF Replace, DeleteLocal
    <3>3. local' \in [Machine -> Store]
      BY <1>0, <2>b, <3>1
    <3>4. tmp' \in [Machine -> Store]
      BY <1>0, <2>a, <3>2
    <3>. QED
      BY <1>0, <2>4, <3>3, <3>4 DEF Replace, DeleteLocal
  <2>. QED
    BY <1>2, <2>1, <2>2, <2>3, <2>4
<1>3. ASSUME NEW r \in Run, Kill(r)
      PROVE  StoresOK'
  BY <1>0, <1>3 DEF Kill
<1>4. CASE Quiet \/ UNCHANGED vars
  BY <1>0, <1>4 DEF Quiet, vars
<1>. QED
  BY <1>1, <1>2, <1>3, <1>4 DEF Next, WorkerStep

LEMMA TypeInit == Init => TypeOK
<1> SUFFICES ASSUME Init PROVE TypeOK
  OBVIOUS
<1>1. StoresOK
  <2>1. remote \in Store
    BY SyncAssumption DEF Init
  <2>2. \A p \in Part : remote[Side(p)] \in Value
    BY <2>1, ValueFacts DEF Store
  <2>3. meta \in [Part -> Value]
    BY <2>2, ValueFacts DEF Init
  <2>4. local \in [Machine -> Store]
    BY SyncAssumption DEF Init
  <2>. QED
    BY <2>1, <2>3, <2>4, ValueFacts DEF Init, StoresOK
<1>2. PlanOK
  BY ValueFacts DEF Init, PlanOK
<1>3. ControlOK
  BY DEF Init, ControlOK
<1>. QED
  BY <1>1, <1>2, <1>3, TypeParts

LEMMA TypeStep == TypeOK /\ [Next]_vars => TypeOK'
<1>1. TypeOK /\ [Next]_vars => ControlOK' /\ PlanOK' /\ StoresOK'
  BY ControlStep, PlanStep, StoresStep
<1>. QED
  BY <1>1 DEF TypeOK, ControlOK, PlanOK, StoresOK

\* The stores, the inventories and the plans keep their types.
THEOREM TypesCorrect == Spec => []TypeOK
BY TypeInit, TypeStep, PTL DEF Spec

-----------------------------------------------------------------------------
(* Taking turns *)

\* A machine's lock has one holder; plans are made and carried out under it, and only a run
\* that does not wait for its workers leaves items without it.
OrderInv ==
    /\ \A r, s \in lock : home[r] = home[s] => r = s
    /\ \A r \in Run : pc[r] \notin {"idle", "done"} <=> r \in lock
    /\ \A r \in Run : result[r] = "none" <=> pc[r] # "done"
    /\ \A r \in Run :
          pc[r] \notin {"run", "drain", "publish"} /\ result[r] \notin Unwaited
              => item[r] = NoItems

\* Such a run at work is the only one.
LEMMA Bystanders ==
    ASSUME OrderInv, TakingTurns, NEW r \in Run, item[r] # NoItems \/ pc[r] \notin {"idle", "done"}
    PROVE  /\ pc[r] \notin {"idle", "done"}
           /\ item[r] # NoItems => pc[r] \in {"run", "drain", "publish"}
           /\ \A s \in Run \ {r} : pc[s] \in {"idle", "done"} /\ item[s] = NoItems
<1>1. \A s \in Run : item[s] # NoItems => pc[s] \in {"run", "drain", "publish"}
  BY DEF OrderInv, TakingTurns
<1>2. r \in lock
  BY <1>1 DEF OrderInv
<1>3. \A s \in Run \ {r} : s \notin lock
  BY <1>2 DEF OrderInv, TakingTurns
<1>. QED
  BY <1>1, <1>2, <1>3 DEF OrderInv

LEMMA OrderStep == TypeOK /\ OrderInv /\ [Next]_vars => OrderInv'
<1> SUFFICES ASSUME TypeOK, OrderInv, [Next]_vars PROVE OrderInv'
  OBVIOUS
<1>0. ControlOK /\ PlanOK
  BY TypeParts
<1>a. ASSUME NEW r \in Run, NEW how, how # "none", Leave(r, how), home' = home,
             \A s \in Run \ {r} : item'[s] = item[s],
             how \notin Unwaited => item'[r] = NoItems
      PROVE  OrderInv'
  BY <1>0, <1>a DEF Leave, OrderInv, ControlOK
<1>b. ASSUME NEW r \in Run, NEW to, to \notin {"idle", "done"}, pc[r] \notin {"idle", "done"},
             To(r, to), home' = home,
             \A s \in Run \ {r} : item'[s] = item[s],
             \/ to \in {"run", "drain", "publish"}
             \/ item'[r] = item[r] /\ pc[r] \in {"walk", "list"}
      PROVE  OrderInv'
  BY <1>0, <1>b DEF To, OrderInv, ControlOK
<1>1. ASSUME NEW r \in Run, Refuse(r)
      PROVE  OrderInv'
  <2>1. item'[r] = NoItems
    <3>1. pc[r] = "idle" /\ result[r] \notin Unwaited
      BY <1>1 DEF Refuse, At, OrderInv, Unwaited
    <3>. QED
      BY <1>1, <3>1 DEF Refuse, items, OrderInv
  <2>. QED
    BY <1>1, <1>a, <2>1 DEF Refuse, setup, items
<1>2. ASSUME NEW r \in Run, Acquire(r)
      PROVE  OrderInv'
  <2>1. /\ UNCHANGED <<home, result, item>>
        /\ pc[r] = "idle" /\ pc' = [pc EXCEPT ![r] = "walk"]
        /\ lock' = lock \cup {r} /\ \A s \in lock : home[s] # home[r]
    BY <1>2 DEF Acquire, At, LockFree, setup, items
  <2>2. \A q, s \in lock' : home'[q] = home'[s] => q = s
    BY <2>1 DEF OrderInv
  <2>3. \A q \in Run : pc'[q] = IF q = r THEN "walk" ELSE pc[q]
    BY <1>0, <2>1 DEF ControlOK
  <2>. QED
    BY <2>1, <2>2, <2>3 DEF OrderInv
<1>3. ASSUME NEW r \in Run, WalkLocal(r) \/ ListRemote(r)
      PROVE  OrderInv'
  BY <1>3, <1>b DEF WalkLocal, ListRemote, At, setup, items
<1>4. ASSUME NEW r \in Run, InventoryFails(r)
      PROVE  OrderInv'
  <2>1. item'[r] = NoItems
    BY <1>4 DEF InventoryFails, items, OrderInv, Unwaited
  <2>. QED
    BY <1>4, <1>a, <2>1 DEF InventoryFails, setup, items
<1>5. ASSUME NEW r \in Run, ComputePlan(r)
      PROVE  OrderInv'
  <2>1. item[r] = NoItems /\ home' = home /\ \A s \in Run \ {r} : item'[s] = item[s]
    BY <1>0, <1>5 DEF ComputePlan, At, setup, items, OrderInv, Unwaited, PlanOK
  <2>2. CASE UNCHANGED items /\ (Leave(r, "noop") \/ Leave(r, "declined"))
    <3>1. item'[r] = NoItems
      BY <2>1, <2>2 DEF items
    <3>. QED
      BY <1>a, <2>1, <2>2, <3>1
  <2>3. CASE To(r, "run")
    BY <1>5, <1>b, <2>1, <2>3 DEF ComputePlan, At
  <2>. QED
    BY <1>5, <2>2, <2>3 DEF ComputePlan
<1>6. ASSUME NEW r \in Run, Fatal(r) \/ BreakOff(r)
      PROVE  OrderInv'
  <2>1. \A s \in Run \ {r} : item'[s] = item[s]
    BY <1>0, <1>6 DEF Fatal, BreakOff, Forget, items, PlanOK
  <2>. QED
    BY <1>6, <1>a, <2>1 DEF Fatal, BreakOff, setup, Unwaited
<1>7. ASSUME NEW r \in Run, Interrupt(r)
      PROVE  OrderInv'
  <2>1. \A s \in Run \ {r} : item'[s] = item[s]
    BY <1>0, <1>7 DEF Interrupt, PlanOK
  <2>2. To(r, "drain") /\ pc[r] = "run" /\ home' = home
    BY <1>7 DEF Interrupt, At, setup
  <2>. QED
    BY <1>b, <2>1, <2>2
<1>8. ASSUME NEW r \in Run, Drained(r) \/ Publish(r)
      PROVE  OrderInv'
  <2>1. item'[r] = NoItems /\ \A s \in Run \ {r} : item'[s] = item[s]
    BY <1>0, <1>8 DEF Drained, Publish, Forget, PlanOK
  <2>. QED
    BY <1>8, <1>a, <2>1 DEF Drained, Publish, setup
<1>9. ASSUME NEW r \in Run, Refresh(r)
      PROVE  OrderInv'
  <2>1. \A s \in Run \ {r} : item'[s] = item[s]
    BY <1>0, <1>9 DEF Refresh, Forget, items, PlanOK
  <2>2. CASE Forget(r) /\ \E how \in {"error", "failed", "ok"} : Leave(r, how)
    <3>1. item'[r] = NoItems
      BY <1>0, <2>2 DEF Forget, PlanOK
    <3>. QED
      BY <1>9, <1>a, <2>1, <2>2, <3>1 DEF Refresh, setup
  <2>3. CASE To(r, "publish")
    <3>1. pc[r] = "run" /\ home' = home
      BY <1>9 DEF Refresh, At, setup
    <3>. QED
      BY <1>b, <2>1, <2>3, <3>1
  <2>. QED
    BY <1>9, <2>2, <2>3 DEF Refresh
<1>10. ASSUME NEW r \in Run, WorkerStep(r)
       PROVE  OrderInv'
  <2>1. /\ UNCHANGED <<home, lock, pc, result>>
        /\ \E k \in Key, to \in ItemState : item' = [item EXCEPT ![r][k] = to]
    BY <1>10 DEF WorkerStep, Begin, Upload, Fetch, Check, Replace, DeleteRemote, DeleteLocal, Fail,
                 Settle, ItemState, Busy, setup, control
  <2>2. item[r] # NoItems
    BY <1>10 DEF WorkerStep, Begin, Upload, Fetch, Check, Replace, DeleteRemote, DeleteLocal, NoItems
  <2>3. \A s \in Run \ {r} : item'[s] = item[s]
    BY <1>0, <2>1 DEF PlanOK
  <2>. QED
    BY <2>1, <2>2, <2>3 DEF OrderInv
<1>11. ASSUME NEW r \in Run, Kill(r)
       PROVE  OrderInv'
  <2>1. item'[r] = NoItems /\ \A s \in Run \ {r} : item'[s] = item[s]
    BY <1>0, <1>11 DEF Kill, Forget, PlanOK
  <2>2. CASE Leave(r, "killed")
    BY <1>11, <1>a, <2>1, <2>2 DEF Kill, setup
  <2>3. CASE UNCHANGED control
    BY <1>11, <2>1, <2>3 DEF Kill, setup, control, OrderInv
  <2>. QED
    BY <1>11, <2>2, <2>3 DEF Kill
<1>12. CASE Quiet \/ UNCHANGED vars
  BY <1>12 DEF Quiet, vars, setup, control, items, OrderInv
<1>. QED
  BY <1>1, <1>2, <1>3, <1>4, <1>5, <1>6, <1>7, <1>8, <1>9, <1>10, <1>11, <1>12 DEF Next, MainStep

-----------------------------------------------------------------------------
(* What a run that has the bucket to itself knows *)

\* Destination and source agree on a key, as far as sizes tell.
Agree(r, k) ==
    LET from == M!Source(r)[k]  to == M!Target(r)[k]
    IN  /\ from # Absent => to # Absent /\ SizeOf(k, from) = SizeOf(k, to)
        /\ cfg[r].delete /\ from = Absent => to = Absent

LEMMA MirrorsIs == \A r \in Run : M!Mirrors(r) <=> \A k \in Key : Agree(r, k)
BY DEF M!Mirrors, Agree

Settled == {"none", "moved", "deleted"}

\* What waits to be moved is at the source, what waits to be deleted is not, and what is
\* done or was not planned agrees.
KeyInv(r, k) ==
    /\ item[r][k] \in {"transfer", "moving", "fetched", "checked"} => M!Source(r)[k] # Absent
    /\ item[r][k] \in {"fetched", "checked"} =>
           ~cfg[r].push /\ tmp[home[r]][k] = remote[k]
    /\ item[r][k] \in {"delete", "deleting"} => cfg[r].delete /\ M!Source(r)[k] = Absent
    /\ pc[r] \in {"run", "publish"} /\ item[r][k] \in Settled => Agree(r, k)

PlanInv(r) ==
    /\ pc[r] \in {"list", "digests"} => here[r].files = local[home[r]]
    /\ \A k \in Key : KeyInv(r, k)

ListInv(r) ==
    /\ pc[r] \in {"digests", "publish"} => there[r].files = remote
    /\ pc[r] = "publish" => \A k \in Key : item[r][k] \in Settled

TurnInv ==
    TakingTurns => \A r \in Run : ListInv(r) /\ (~Unreadable => PlanInv(r))

-----------------------------------------------------------------------------
(* Which steps change what *)

\* A verdict is final.
LEMMA Final ==
    ASSUME TypeOK, OrderInv, [Next]_vars
    PROVE  /\ UNCHANGED <<cfg, home>>
           /\ \A r \in Run : result[r] # "none" => result'[r] = result[r]
<1>0. ControlOK
  BY TypeParts
<1>1. ASSUME NEW r \in Run, MainStep(r)
      PROVE  /\ UNCHANGED <<cfg, home>>
             /\ result' = result \/ (pc[r] # "done" /\ \E how : Leave(r, how))
  <2>1. CASE Refuse(r) \/ Acquire(r) \/ WalkLocal(r) \/ ListRemote(r) \/ InventoryFails(r)
    BY <2>1 DEF Refuse, Acquire, WalkLocal, ListRemote, InventoryFails, At, To, setup
  <2>2. CASE ComputePlan(r)
    BY <2>2 DEF ComputePlan, At, To, setup
  <2>3. CASE Fatal(r) \/ Interrupt(r) \/ Drained(r) \/ BreakOff(r)
    BY <2>3 DEF Fatal, Interrupt, Drained, BreakOff, At, To, setup
  <2>4. CASE Refresh(r) \/ Publish(r)
    BY <2>4 DEF Refresh, Publish, At, To, setup
  <2>. QED
    BY <1>1, <2>1, <2>2, <2>3, <2>4 DEF MainStep
<1>2. ASSUME NEW r \in Run, Kill(r)
      PROVE  /\ UNCHANGED <<cfg, home>>
             /\ result' = result \/ (pc[r] # "done" /\ \E how : Leave(r, how))
  BY <1>2 DEF Kill, At, setup, control
<1>3. ASSUME NEW r \in Run, WorkerStep(r)
      PROVE  UNCHANGED <<cfg, home, result>>
  BY <1>3 DEF WorkerStep, Begin, Upload, Fetch, Check, Replace, DeleteRemote, DeleteLocal,
              setup, control
<1>4. CASE Quiet \/ UNCHANGED vars
  BY <1>4 DEF Quiet, vars, setup, control
<1>5. ASSUME NEW r \in Run, pc[r] # "done", NEW how, Leave(r, how)
      PROVE  \A s \in Run : result[s] # "none" => result'[s] = result[s]
  BY <1>0, <1>5 DEF Leave, OrderInv, ControlOK
<1>. QED
  BY <1>1, <1>2, <1>3, <1>4, <1>5 DEF Next

LEMMA TurnsBefore ==
    ASSUME TypeOK, OrderInv, [Next]_vars, TakingTurns'
    PROVE  TakingTurns
BY Final DEF TakingTurns, Unwaited

\* The main thread writes neither archive nor bucket, and nothing of another run's.
LEMMA MainFrame ==
    ASSUME TypeOK, NEW r \in Run, MainStep(r) \/ Kill(r)
    PROVE  /\ UNCHANGED <<cfg, home, local, tmp, remote>>
           /\ \A s \in Run \ {r} : /\ pc'[s] = pc[s] /\ item'[s] = item[s]
                                   /\ here'[s] = here[s] /\ there'[s] = there[s]
                                   /\ digest'[s] = digest[s]
<1>0. ControlOK /\ PlanOK
  BY TypeParts
<1> USE DEF ControlOK, PlanOK, To, Leave, Forget, setup, control, plan, items, archive, bucket
<1>1. CASE Refuse(r) \/ Acquire(r) \/ WalkLocal(r) \/ ListRemote(r) \/ InventoryFails(r)
  BY <1>0, <1>1 DEF Refuse, Acquire, WalkLocal, ListRemote, InventoryFails
<1>2. CASE ComputePlan(r)
  BY <1>0, <1>2 DEF ComputePlan
<1>3. CASE Fatal(r) \/ Interrupt(r) \/ Drained(r) \/ BreakOff(r)
  BY <1>0, <1>3 DEF Fatal, Interrupt, Drained, BreakOff
<1>4. CASE Refresh(r) \/ Publish(r)
  BY <1>0, <1>4 DEF Refresh, Publish
<1>5. CASE Kill(r)
  BY <1>0, <1>5 DEF Kill
<1>. QED
  BY <1>1, <1>2, <1>3, <1>4, <1>5 DEF MainStep

\* A worker touches one key, and nobody else's items.
LEMMA WorkerFrame ==
    ASSUME TypeOK, NEW r \in Run, NEW k \in Key,
           \/ Begin(r, k) \/ Upload(r, k) \/ Fetch(r, k) \/ Check(r, k)
           \/ Replace(r, k) \/ DeleteRemote(r, k) \/ DeleteLocal(r, k)
    PROVE  /\ UNCHANGED <<cfg, home, lock, pc, result, here, there, digest, manifest>>
           /\ \A s \in Run \ {r} : item'[s] = item[s]
           /\ \E to \in ItemState : item' = [item EXCEPT ![r][k] = to]
           /\ remote' = remote \/ \E v \in Value : remote' = [remote EXCEPT ![k] = v]
           /\ local' = local \/ \E v \in Value : local' = [local EXCEPT ![home[r]][k] = v]
           /\ tmp' = tmp \/ \E v \in Value : tmp' = [tmp EXCEPT ![home[r]][k] = v]
<1>0. ControlOK /\ PlanOK /\ StoresOK
  BY TypeParts
<1>1. /\ home[r] \in Machine
      /\ local[home[r]][k] \in Value /\ tmp[home[r]][k] \in Value /\ remote[k] \in Value
      /\ Absent \in Value
  BY <1>0, ValueFacts DEF ControlOK, StoresOK, Store
<1> USE DEF setup, control, plan, archive, bucket
<1>2. \E to \in ItemState : item' = [item EXCEPT ![r][k] = to]
  BY DEF Begin, Upload, Fetch, Check, Replace, DeleteRemote, DeleteLocal, Fail, Settle, ItemState,
         Busy
<1>3. \A s \in Run \ {r} : item'[s] = item[s]
  BY <1>0, <1>2 DEF PlanOK
<1>4. CASE Begin(r, k)
  BY <1>2, <1>3, <1>4 DEF Begin
<1>5. CASE Upload(r, k) \/ DeleteRemote(r, k)
  BY <1>1, <1>2, <1>3, <1>5 DEF Upload, DeleteRemote, Put
<1>6. CASE Fetch(r, k) \/ Check(r, k)
  BY <1>1, <1>2, <1>3, <1>6 DEF Fetch, Check
<1>7. CASE Replace(r, k) \/ DeleteLocal(r, k)
  BY <1>1, <1>2, <1>3, <1>7 DEF Replace, DeleteLocal
<1>. QED
  BY <1>4, <1>5, <1>6, <1>7

-----------------------------------------------------------------------------
(* ... keep what it knows *)

\* What a run knows of a key lasts while the key is left alone.
LEMMA KeyKept ==
    ASSUME NEW r \in Run, NEW k \in Key, UNCHANGED <<cfg, home>>, pc'[r] = pc[r],
           item'[r][k] = item[r][k], remote'[k] = remote[k],
           local'[home[r]][k] = local[home[r]][k], tmp'[home[r]][k] = tmp[home[r]][k],
           KeyInv(r, k)
    PROVE  KeyInv(r, k)'
BY DEF KeyInv, Agree, M!Source, M!Target

\* A run that has not planned yet, or is over, claims nothing.
LEMMA Claimless ==
    ASSUME NEW r \in Run, item'[r] = NoItems, pc'[r] \in {"idle", "walk", "done"}
    PROVE  ListInv(r)' /\ PlanInv(r)'
BY DEF ListInv, PlanInv, KeyInv, NoItems, Settled

LEMMA RunKept ==
    ASSUME NEW r \in Run, UNCHANGED <<cfg, home, local, tmp, remote>>, pc'[r] = pc[r],
           item'[r] = item[r], here'[r] = here[r], there'[r] = there[r]
    PROVE  (ListInv(r) => ListInv(r)') /\ (PlanInv(r) => PlanInv(r)')
BY KeyKept DEF ListInv, PlanInv

\* What a worker does with its key leaves the run with a true claim on it.
LEMMA WorkerKeeps ==
    ASSUME TypeOK, NEW r \in Run, NEW k \in Key, PlanInv(r), pc[r] \in {"run", "drain"},
           \/ Begin(r, k) \/ Upload(r, k) \/ Fetch(r, k) \/ Check(r, k)
           \/ Replace(r, k) \/ DeleteRemote(r, k) \/ DeleteLocal(r, k)
    PROVE  PlanInv(r)'
<1>0. ControlOK /\ PlanOK /\ StoresOK
  BY TypeParts
<1>1. /\ UNCHANGED <<cfg, home, pc>>
      /\ home[r] \in Machine
      /\ \A to : item' = [item EXCEPT ![r][k] = to] => item'[r][k] = to
      /\ \A v : remote' = [remote EXCEPT ![k] = v] => remote'[k] = v
      /\ \A v : local' = [local EXCEPT ![home[r]][k] = v] => local'[home[r]][k] = v
      /\ \A v : tmp' = [tmp EXCEPT ![home[r]][k] = v] => tmp'[home[r]][k] = v
  BY <1>0, WorkerFrame DEF ControlOK, PlanOK, StoresOK, Store
<1>2. \A j \in Key \ {k} : KeyInv(r, j)'
  <2>1. ASSUME NEW j \in Key \ {k}
        PROVE  /\ item'[r][j] = item[r][j] /\ remote'[j] = remote[j]
               /\ local'[home[r]][j] = local[home[r]][j] /\ tmp'[home[r]][j] = tmp[home[r]][j]
    <3>1. \A to : item' = [item EXCEPT ![r][k] = to] => item'[r][j] = item[r][j]
      BY <1>0 DEF PlanOK
    <3>2. \A v : remote' = [remote EXCEPT ![k] = v] => remote'[j] = remote[j]
      BY <1>0 DEF StoresOK, Store
    <3>3. \A v : local' = [local EXCEPT ![home[r]][k] = v] =>
                     local'[home[r]][j] = local[home[r]][j]
      BY <1>0, <1>1 DEF StoresOK, Store
    <3>4. \A v : tmp' = [tmp EXCEPT ![home[r]][k] = v] =>
                     tmp'[home[r]][j] = tmp[home[r]][j]
      BY <1>0, <1>1 DEF StoresOK, Store
    <3>5. item'[r][j] = item[r][j]
      BY <3>1, WorkerFrame
    <3>6. remote'[j] = remote[j]
      BY <3>2, WorkerFrame
    <3>7. local'[home[r]][j] = local[home[r]][j]
      <4>1. CASE local' = local
        BY <4>1
      <4>2. ASSUME NEW v \in Value, local' = [local EXCEPT ![home[r]][k] = v]
            PROVE  local'[home[r]][j] = local[home[r]][j]
        BY <3>3, <4>2
      <4>3. local' = local \/ \E v \in Value : local' = [local EXCEPT ![home[r]][k] = v]
        BY WorkerFrame
      <4>. QED
        BY <4>1, <4>2, <4>3
    <3>8. tmp'[home[r]][j] = tmp[home[r]][j]
      <4>1. CASE tmp' = tmp
        BY <4>1
      <4>2. ASSUME NEW v \in Value, tmp' = [tmp EXCEPT ![home[r]][k] = v]
            PROVE  tmp'[home[r]][j] = tmp[home[r]][j]
        BY <3>4, <4>2
      <4>3. tmp' = tmp \/ \E v \in Value : tmp' = [tmp EXCEPT ![home[r]][k] = v]
        BY WorkerFrame
      <4>. QED
        BY <4>1, <4>2, <4>3
    <3>. QED
      BY <3>5, <3>6, <3>7, <3>8
  <2>. QED
    BY <1>1, <2>1, KeyKept DEF PlanInv
<1>3. KeyInv(r, k)'
  <2>0. KeyInv(r, k)
    BY DEF PlanInv
  <2>a. ASSUME item'[r][k] \in {"failed", "raised"}
        PROVE  KeyInv(r, k)'
    BY <2>a DEF KeyInv, Settled
  <2>b. Fail(r, k) => item'[r][k] \in {"failed", "raised"}
    BY <1>1 DEF Fail, Settle
  <2>1. CASE Begin(r, k)
    <3>1. \/ item[r][k] = "transfer" /\ item'[r][k] = "moving"
          \/ item[r][k] = "delete" /\ item'[r][k] = "deleting"
      BY <1>1, <2>1 DEF Begin, Settle
    <3>2. M!Source(r)' = M!Source(r)
      BY <2>1 DEF Begin, M!Source, setup, archive, bucket
    <3>. QED
      BY <1>1, <2>0, <3>1, <3>2 DEF KeyInv, Settled
  <2>2. CASE Upload(r, k)
    <3>1. cfg[r].push /\ item[r][k] = "moving" /\ local' = local
      BY <2>2 DEF Upload, archive
    <3>2. CASE Put(r, k) /\ local[home[r]][k] # Absent /\ Settle(r, k, "moved")
      <4>1. remote'[k] = local[home[r]][k] /\ item'[r][k] = "moved"
        BY <1>1, <3>2 DEF Put, Settle
      <4>2. Agree(r, k)'
        BY <1>1, <3>1, <3>2, <4>1 DEF Agree, M!Source, M!Target
      <4>. QED
        BY <4>1, <4>2 DEF KeyInv, Settled
    <3>3. CASE Fail(r, k)
      BY <2>a, <2>b, <3>3
    <3>. QED
      BY <2>2, <3>2, <3>3 DEF Upload
  <2>3. CASE Fetch(r, k)
    <3>1. ~cfg[r].push /\ item[r][k] = "moving" /\ UNCHANGED <<local, remote>>
      BY <2>3 DEF Fetch, bucket
    <3>2. CASE remote[k] # Absent /\ tmp' = [tmp EXCEPT ![home[r]][k] = remote[k]]
               /\ Settle(r, k, "fetched")
      BY <1>1, <3>1, <3>2 DEF KeyInv, Settle, Settled, M!Source
    <3>. QED
      BY <2>3, <2>a, <2>b, <3>2 DEF Fetch
  <2>4. CASE Check(r, k)
    <3>1. item[r][k] = "fetched" /\ UNCHANGED <<local, remote>>
      BY <2>4 DEF Check, bucket
    <3>2. CASE Settle(r, k, "checked") /\ UNCHANGED tmp
      BY <1>1, <2>0, <3>1, <3>2 DEF KeyInv, Settle, Settled, M!Source
    <3>3. CASE Settle(r, k, "failed")
      BY <1>1, <2>a, <3>3 DEF Settle
    <3>. QED
      BY <2>4, <3>2, <3>3 DEF Check
  <2>5. CASE Replace(r, k)
    <3>1. /\ item[r][k] = "checked" /\ remote' = remote /\ ~cfg[r].push
          /\ tmp[home[r]][k] = remote[k]
      BY <2>0, <2>5 DEF Replace, bucket, KeyInv
    <3>2. CASE local' = [local EXCEPT ![home[r]][k] = tmp[home[r]][k]] /\ tmp[home[r]][k] # Absent
               /\ Settle(r, k, "moved")
      <4>1. local'[home[r]][k] = remote[k] /\ item'[r][k] = "moved"
        BY <1>1, <3>1, <3>2 DEF Settle
      <4>2. Agree(r, k)'
        BY <1>1, <3>1, <3>2, <4>1 DEF Agree, M!Source, M!Target
      <4>. QED
        BY <4>1, <4>2 DEF KeyInv, Settled
    <3>3. CASE Settle(r, k, "raised")
      BY <1>1, <2>a, <3>3 DEF Settle
    <3>. QED
      BY <2>5, <3>2, <3>3 DEF Replace
  <2>6. CASE DeleteRemote(r, k)
    <3>1. cfg[r].push /\ item[r][k] = "deleting" /\ local' = local
      BY <2>6 DEF DeleteRemote, archive
    <3>2. CASE remote' = [remote EXCEPT ![k] = Absent] /\ Settle(r, k, "deleted")
      <4>1. remote'[k] = Absent /\ item'[r][k] = "deleted" /\ local[home[r]][k] = Absent
        BY <1>1, <2>0, <3>1, <3>2 DEF Settle, KeyInv, M!Source
      <4>2. Agree(r, k)'
        BY <1>1, <3>1, <4>1 DEF Agree, M!Source, M!Target
      <4>. QED
        BY <4>1, <4>2 DEF KeyInv, Settled
    <3>. QED
      BY <2>6, <2>a, <2>b, <3>2 DEF DeleteRemote
  <2>7. CASE DeleteLocal(r, k)
    <3>1. ~cfg[r].push /\ item[r][k] = "deleting" /\ remote' = remote
      BY <2>7 DEF DeleteLocal, bucket
    <3>2. CASE local' = [local EXCEPT ![home[r]][k] = Absent] /\ Settle(r, k, "deleted")
      <4>1. local'[home[r]][k] = Absent /\ item'[r][k] = "deleted" /\ remote[k] = Absent
        BY <1>1, <2>0, <3>1, <3>2 DEF Settle, KeyInv, M!Source
      <4>2. Agree(r, k)'
        BY <1>1, <3>1, <4>1 DEF Agree, M!Source, M!Target
      <4>. QED
        BY <4>1, <4>2 DEF KeyInv, Settled
    <3>3. CASE Settle(r, k, "failed")
      BY <1>1, <2>a, <3>3 DEF Settle
    <3>. QED
      BY <2>7, <3>2, <3>3 DEF DeleteLocal
  <2>. QED
    BY <2>1, <2>2, <2>3, <2>4, <2>5, <2>6, <2>7
<1>. QED
  BY <1>1, <1>2, <1>3 DEF PlanInv

\* The plan covers whatever the two sides do not agree on.
LEMMA PlanCovers ==
    ASSUME TypeOK, NEW r \in Run,
           here[r].files = local[home[r]], there[r].files = remote, NEW k \in Key
    PROVE  LET T == Transfers(PlanningMode(cfg[r]), Source(r), Target(r))
           IN  /\ k \in T => M!Source(r)[k] # Absent
               /\ k \in Deletes(r) => cfg[r].delete /\ M!Source(r)[k] = Absent
               /\ k \notin T \cup Deletes(r) => Agree(r, k)
<1>1. RemoteInventory(r).files = remote
  BY DEF RemoteInventory, TypeOK, Inventory
<1>2. Source(r).files = M!Source(r) /\ Target(r).files = M!Target(r)
  BY <1>1 DEF Source, Target, M!Source, M!Target
<1>3. k \in Transfers(PlanningMode(cfg[r]), Source(r), Target(r)) => M!Source(r)[k] # Absent
  BY <1>2 DEF Transfers, Differs
<1>4. k \in Deletes(r) => cfg[r].delete /\ M!Source(r)[k] = Absent
  BY <1>2 DEF Deletes, Extraneous
<1>5. ASSUME k \notin Transfers(PlanningMode(cfg[r]), Source(r), Target(r)), k \notin Deletes(r)
      PROVE  Agree(r, k)
  <2>1. M!Source(r)[k] # Absent =>
            M!Target(r)[k] # Absent /\ SizeOf(k, M!Source(r)[k]) = SizeOf(k, M!Target(r)[k])
    BY <1>2, <1>5 DEF Transfers, Differs, EntriesMatch
  <2>2. cfg[r].delete /\ M!Source(r)[k] = Absent => M!Target(r)[k] = Absent
    BY <1>2, <1>5 DEF Deletes, Extraneous
  <2>. QED
    BY <2>1, <2>2 DEF Agree
<1>. QED
  BY <1>3, <1>4, <1>5

LEMMA TurnStep == TypeOK /\ OrderInv /\ TurnInv /\ [Next]_vars => TurnInv'
<1> SUFFICES ASSUME TypeOK, OrderInv, TurnInv, [Next]_vars, TakingTurns', NEW s \in Run
             PROVE  (ListInv(s) /\ (~Unreadable => PlanInv(s)))'
  BY DEF TurnInv
<1>0. ControlOK /\ PlanOK /\ StoresOK
  BY TypeParts
<1>t. TakingTurns /\ \A r \in Run : ListInv(r) /\ (~Unreadable => PlanInv(r))
  BY TurnsBefore DEF TurnInv
<1>1. ASSUME NEW r \in Run, MainStep(r) \/ Kill(r)
      PROVE  (ListInv(s) /\ (~Unreadable => PlanInv(s)))'
  <2>0. UNCHANGED <<cfg, home, local, tmp, remote>>
    BY <1>1, MainFrame
  <2>1. CASE s # r
    BY <1>1, <1>t, <2>1, MainFrame, RunKept
  <2>2. CASE s = r
    <3> USE <2>2
    <3>1. CASE Refuse(r) \/ Acquire(r) \/ InventoryFails(r)
      <4>1. item[r] = NoItems
        BY <1>t, <3>1 DEF Refuse, Acquire, InventoryFails, At, OrderInv, TakingTurns, Unwaited
      <4>2. item'[r] = NoItems /\ pc'[r] \in {"idle", "walk", "done"}
        BY <1>0, <3>1, <4>1 DEF Refuse, Acquire, InventoryFails, Leave, items, ControlOK
      <4>. QED
        BY <4>2, Claimless
    <3>2. CASE WalkLocal(r)
      <4>1. pc'[r] = "list" /\ item'[r] = NoItems
        BY <1>0, <1>t, <3>2 DEF WalkLocal, At, To, items, OrderInv, TakingTurns, ControlOK
      <4>2. ASSUME ~Unreadable
            PROVE  here'[r].files = local[home[r]]
        <5>1. PICK files \in Readable(local[home[r]]) :
                  here' = [here EXCEPT ![r] =
                     [files |-> files, digest |-> [p \in Part |-> KnownDigest(files, p)]]]
          BY <3>2 DEF WalkLocal
        <5>2. files = local[home[r]]
          BY <1>0, <4>2, <5>1 DEF Readable, Store, StoresOK, ControlOK
        <5>. QED
          BY <1>0, <5>1, <5>2 DEF PlanOK
      <4>3. \A k \in Key : KeyInv(r, k)'
        BY <4>1 DEF KeyInv, NoItems
      <4>. QED
        BY <2>0, <4>1, <4>2, <4>3 DEF ListInv, PlanInv
    <3>3. CASE ListRemote(r)
      <4>1. pc[r] = "list" /\ pc'[r] = "digests" /\ item'[r] = NoItems /\ here' = here
        BY <1>0, <1>t, <3>3 DEF ListRemote, At, To, items, OrderInv, TakingTurns, ControlOK
      <4>2. there'[r].files = remote
        BY <1>0, <3>3 DEF ListRemote, PlanOK, Inventory
      <4>3. \A k \in Key : KeyInv(r, k)'
        BY <4>1 DEF KeyInv, NoItems
      <4>. QED
        BY <1>t, <2>0, <4>1, <4>2, <4>3 DEF ListInv, PlanInv
    <3>4. CASE ComputePlan(r)
      <4>0. item[r] = NoItems /\ pc[r] = "digests"
        BY <1>t, <3>4 DEF ComputePlan, At, OrderInv, TakingTurns
      <4>1. CASE UNCHANGED items /\ (Leave(r, "noop") \/ Leave(r, "declined"))
        <5>1. item'[r] = NoItems /\ pc'[r] = "done"
          BY <1>0, <4>0, <4>1 DEF Leave, items, ControlOK
        <5>. QED
          BY <5>1, Claimless
      <4>2. DEFINE T == Transfers(PlanningMode(cfg[r]), Source(r), Target(r))
      <4>3. CASE To(r, "run") /\ item' = [item EXCEPT ![r] =
                       [k \in Key |-> IF k \in T THEN "transfer"
                                      ELSE IF k \in Deletes(r) THEN "delete" ELSE "none"]]
        <5>1. pc'[r] = "run"
          BY <1>0, <4>3 DEF To, ControlOK
        <5>2. ASSUME ~Unreadable, NEW k \in Key
              PROVE  KeyInv(r, k)'
          <6>1. here[r].files = local[home[r]] /\ there[r].files = remote
            BY <1>t, <4>0, <5>2 DEF ListInv, PlanInv
          <6>2. /\ k \in T => M!Source(r)[k] # Absent
                /\ k \in Deletes(r) => cfg[r].delete /\ M!Source(r)[k] = Absent
                /\ k \notin T \cup Deletes(r) => Agree(r, k)
            BY <6>1, PlanCovers
          <6>3. item'[r][k] = IF k \in T THEN "transfer"
                              ELSE IF k \in Deletes(r) THEN "delete" ELSE "none"
            BY <1>0, <4>3 DEF PlanOK
          <6>4. M!Source(r)' = M!Source(r) /\ cfg' = cfg /\ (Agree(r, k) => Agree(r, k)')
            BY <2>0 DEF M!Source, M!Target, Agree
          <6> HIDE DEF T
          <6>. QED
            BY <6>2, <6>3, <6>4 DEF KeyInv, Settled
        <5>. QED
          BY <5>1, <5>2 DEF ListInv, PlanInv
      <4>. QED
        BY <3>4, <4>1, <4>3 DEF ComputePlan
    <3>5. CASE Fatal(r) \/ BreakOff(r)
      <4>1. result'[r] \in Unwaited
        BY <1>0, <3>5 DEF Fatal, BreakOff, Leave, Unwaited, ControlOK
      <4>. QED
        BY <4>1 DEF TakingTurns
    <3>6. CASE Interrupt(r)
      <4>1. pc'[r] = "drain"
        BY <1>0, <3>6 DEF Interrupt, To, ControlOK
      <4>2. ASSUME NEW k \in Key, KeyInv(r, k)
            PROVE  KeyInv(r, k)'
        <5>1. item'[r][k] = IF item[r][k] \in Planned THEN "none" ELSE item[r][k]
          BY <1>0, <3>6 DEF Interrupt, Cancelled, PlanOK
        <5>2. M!Source(r)' = M!Source(r)
          BY <2>0 DEF M!Source
        <5>. QED
          BY <2>0, <4>1, <4>2, <5>1, <5>2 DEF KeyInv, Planned
      <4>. QED
        BY <1>t, <4>1, <4>2 DEF ListInv, PlanInv
    <3>7. CASE Drained(r) \/ Publish(r) \/ Kill(r)
      <4>1. item'[r] = NoItems
        BY <1>0, <3>7 DEF Drained, Publish, Kill, Forget, PlanOK
      <4>2. pc'[r] = "done"
        BY <1>0, <3>7 DEF Drained, Publish, Kill, Leave, At, control, ControlOK
      <4>. QED
        BY <4>1, <4>2, Claimless
    <3>8. CASE Refresh(r)
      <4>1. CASE Forget(r) /\ \E how \in {"error", "failed", "ok"} : Leave(r, how)
        <5>1. item'[r] = NoItems /\ pc'[r] = "done"
          BY <1>0, <4>1 DEF Forget, Leave, PlanOK, ControlOK
        <5>. QED
          BY <5>1, Claimless
      <4>2. CASE /\ Uploads(r) /\ there' = [there EXCEPT ![r].files = remote]
                 /\ To(r, "publish") /\ UNCHANGED items
        <5>1. pc[r] = "run" /\ pc'[r] = "publish" /\ item'[r] = item[r]
          BY <1>0, <3>8, <4>2 DEF Refresh, At, To, items, ControlOK
        <5>2. there'[r].files = remote
          BY <1>0, <4>2 DEF PlanOK, Inventory
        <5>3. \A k \in Key : item[r][k] \in Settled
          <6>1. \A k \in Key : item[r][k] \notin Planned \cup Busy \cup {"raised", "failed"}
            BY <3>8, <4>2 DEF Refresh, Uploads, Failed, ItemsIn
          <6>2. \A k \in Key : item[r][k] \in ItemState
            BY <1>0 DEF PlanOK
          <6>. QED
            BY <6>1, <6>2 DEF ItemState, Settled
        <5>4. ASSUME NEW k \in Key, KeyInv(r, k)
              PROVE  KeyInv(r, k)'
          <6>1. Agree(r, k) => Agree(r, k)'
            BY <2>0 DEF M!Source, M!Target, Agree
          <6>. QED
            BY <5>1, <5>3, <5>4, <6>1 DEF KeyInv, Settled
        <5>. QED
          BY <1>t, <2>0, <5>1, <5>2, <5>3, <5>4 DEF ListInv, PlanInv
      <4>. QED
        BY <3>8, <4>1, <4>2 DEF Refresh
    <3>. QED
      BY <1>1, <3>1, <3>2, <3>3, <3>4, <3>5, <3>6, <3>7, <3>8 DEF MainStep
  <2>. QED
    BY <2>1, <2>2
<1>2. ASSUME NEW r \in Run, NEW k \in Key,
             \/ Begin(r, k) \/ Upload(r, k) \/ Fetch(r, k) \/ Check(r, k)
             \/ Replace(r, k) \/ DeleteRemote(r, k) \/ DeleteLocal(r, k)
      PROVE  (ListInv(s) /\ (~Unreadable => PlanInv(s)))'
  <2>1. /\ item[r][k] \in Planned \cup Busy
    BY <1>2 DEF Begin, Upload, Fetch, Check, Replace, DeleteRemote, DeleteLocal, Planned, Busy
  <2>2. item[r] # NoItems /\ item[r][k] \notin Settled
    BY <2>1 DEF NoItems, Planned, Busy, Settled
  <2>3. pc[r] \in {"run", "drain"}
    BY <1>t, <2>2, Bystanders DEF ListInv
  <2>4. pc' = pc /\ \A q \in Run \ {r} : item'[q] = item[q]
    BY <1>2, WorkerFrame
  <2>5. CASE s # r
    <3>1. item'[s] = NoItems /\ pc'[s] \in {"idle", "done"}
      BY <1>t, <2>2, <2>4, <2>5, Bystanders
    <3>. QED
      BY <3>1, Claimless
  <2>6. CASE s = r
    <3>1. ListInv(r)'
      BY <2>3, <2>4 DEF ListInv
    <3>2. ~Unreadable => PlanInv(r)'
      BY <1>2, <1>t, <2>3, WorkerKeeps
    <3>. QED
      BY <2>6, <3>1, <3>2
  <2>. QED
    BY <2>5, <2>6
<1>3. CASE Quiet \/ UNCHANGED vars
  <2>1. UNCHANGED <<cfg, home, local, tmp, remote, pc, item, here, there>>
    BY <1>3 DEF Quiet, vars, setup, control, plan, items, archive, bucket
  <2>. QED
    BY <1>t, <2>1, RunKept
<1>. QED
  BY <1>1, <1>2, <1>3 DEF Next, WorkerStep

-----------------------------------------------------------------------------
(* The mirror *)

IInv == TypeOK /\ OrderInv /\ TurnInv

LEMMA InvInit == Init => IInv
<1> SUFFICES ASSUME Init PROVE OrderInv /\ TurnInv
  BY TypeInit DEF IInv
<1>1. OrderInv
  BY DEF Init, OrderInv
<1>2. \A r \in Run : pc[r] = "idle" /\ item[r] = NoItems
  BY DEF Init
<1>3. \A r \in Run : ListInv(r) /\ PlanInv(r)
  BY <1>2 DEF ListInv, PlanInv, KeyInv, NoItems
<1>. QED
  BY <1>1, <1>3 DEF TurnInv

LEMMA InvStep == IInv /\ [Next]_vars => IInv'
BY TypeStep, OrderStep, TurnStep DEF IInv

\* A run's end is its report.
LEMMA Reports ==
    ASSUME TypeOK, OrderInv, NEW r \in Run, NEW how, how # "none",
           pc[r] # "done", Leave(r, how),
           UNCHANGED <<cfg, home, local, remote>>, Undisturbed,
           how \in {"ok", "noop"} => M!Mirrors(r)
    PROVE  M!Report(r)
<1> DEFINE V == [q \in Run |-> Verdict(result[q])]
<1>1. result[r] = "none"
  BY DEF OrderInv
<1>2. \A q \in Run : result'[q] = IF q = r THEN how ELSE result[q]
  BY DEF TypeOK, Leave
<1>3. V[r] = "none" /\ V' = [V EXCEPT ![r] = Verdict(how)]
  BY <1>1, <1>2 DEF Verdict
<1>4. Verdict(how) = "other" \/ (Verdict(how) = "mirrored" /\ M!Mirrors(r))
  BY DEF Verdict
<1>. QED
  BY <1>3, <1>4 DEF M!Report, M!given

\* A worker that writes to the archive or the bucket copies what the source has, or
\* removes what it has not.
LEMMA Moves ==
    ASSUME TypeOK, NEW r \in Run, NEW k \in Key, KeyInv(r, k), result[r] = "none",
           \/ Begin(r, k) \/ Upload(r, k) \/ Fetch(r, k) \/ Check(r, k)
           \/ Replace(r, k) \/ DeleteRemote(r, k) \/ DeleteLocal(r, k)
    PROVE  M!Move(r) \/ UNCHANGED <<local, remote>>
<1>1. UNCHANGED <<cfg, home, result>>
  BY WorkerFrame
<1>2. ASSUME M!Copy(r, k) \/ M!Remove(r, k)
      PROVE  M!Move(r)
  <2>1. UNCHANGED Undisturbed
    BY <1>1 DEF Undisturbed, TakingTurns
  <2>. QED
    BY <1>1, <1>2, <2>1 DEF M!Move, M!given, Verdict
<1>3. CASE Upload(r, k)
  <2>1. cfg[r].push /\ local' = local
    BY <1>3 DEF Upload, archive
  <2>2. CASE Put(r, k) /\ local[home[r]][k] # Absent
    <3>1. M!Copy(r, k)
      BY <2>1, <2>2 DEF Put, M!Copy, M!Write, M!Source
    <3>. QED
      BY <1>2, <3>1
  <2>. QED
    BY <1>3, <2>1, <2>2 DEF Upload
<1>4. CASE Replace(r, k)
  <2>1. ~cfg[r].push /\ remote' = remote /\ tmp[home[r]][k] = remote[k]
    BY <1>4 DEF Replace, bucket, KeyInv
  <2>2. CASE tmp[home[r]][k] # Absent /\ local' = [local EXCEPT ![home[r]][k] = tmp[home[r]][k]]
    <3>1. M!Copy(r, k)
      BY <2>1, <2>2 DEF M!Copy, M!Write, M!Source
    <3>. QED
      BY <1>2, <3>1
  <2>. QED
    BY <1>4, <2>1, <2>2 DEF Replace, archive
<1>5. CASE DeleteRemote(r, k)
  <2>1. cfg[r].push /\ local' = local /\ cfg[r].delete /\ local[home[r]][k] = Absent
    BY <1>5 DEF DeleteRemote, archive, KeyInv, M!Source
  <2>2. CASE remote' = [remote EXCEPT ![k] = Absent]
    <3>1. M!Remove(r, k)
      BY <2>1, <2>2 DEF M!Remove, M!Write, M!Source
    <3>. QED
      BY <1>2, <3>1
  <2>. QED
    BY <1>5, <2>1, <2>2 DEF DeleteRemote
<1>6. CASE DeleteLocal(r, k)
  <2>1. ~cfg[r].push /\ remote' = remote /\ cfg[r].delete /\ remote[k] = Absent
    BY <1>6 DEF DeleteLocal, bucket, KeyInv, M!Source
  <2>2. CASE local' = [local EXCEPT ![home[r]][k] = Absent]
    <3>1. M!Remove(r, k)
      BY <2>1, <2>2 DEF M!Remove, M!Write, M!Source
    <3>. QED
      BY <1>2, <3>1
  <2>. QED
    BY <1>6, <2>1, <2>2 DEF DeleteLocal
<1>7. CASE Begin(r, k) \/ Fetch(r, k) \/ Check(r, k)
  BY <1>7 DEF Begin, Fetch, Check, archive, bucket
<1>. QED
  BY <1>3, <1>4, <1>5, <1>6, <1>7

\* A run at work is one that has not ended, if it has the bucket to itself.
LEMMA AtWork ==
    ASSUME OrderInv, TakingTurns, NEW r \in Run, NEW k \in Key,
           \/ Begin(r, k) \/ Upload(r, k) \/ Fetch(r, k) \/ Check(r, k)
           \/ Replace(r, k) \/ DeleteRemote(r, k) \/ DeleteLocal(r, k)
    PROVE  result[r] = "none"
<1>1. item[r][k] # "none"
  BY DEF Begin, Upload, Fetch, Check, Replace, DeleteRemote, DeleteLocal
<1>2. item[r] # NoItems
  BY <1>1 DEF NoItems
<1>. QED
  BY <1>2 DEF OrderInv, TakingTurns

\* Exit code 0 is reported of a mirror only.
LEMMA SuccessMirrors ==
    ASSUME IInv, Undisturbed, NEW r \in Run,
           NEW how \in {"ok", "noop"}, Leave(r, how),
           ComputePlan(r) \/ Refresh(r) \/ Publish(r)
    PROVE  M!Mirrors(r)
<1>0. ListInv(r) /\ PlanInv(r) /\ \A k \in Key : KeyInv(r, k)
  BY DEF IInv, TurnInv, PlanInv, Undisturbed
<1>t. TypeOK
  BY DEF IInv
<1>1. CASE ComputePlan(r)
  <2>1. /\ here[r].files = local[home[r]] /\ there[r].files = remote
    BY <1>0, <1>1 DEF ComputePlan, At, ListInv, PlanInv
  <2>2. Transfers(PlanningMode(cfg[r]), Source(r), Target(r)) \cup Deletes(r) = {}
    BY <1>1, <1>t DEF ComputePlan, Leave, To, TypeOK
  <2>3. \A k \in Key : Agree(r, k)
    BY <1>t, <2>1, <2>2, PlanCovers
  <2>. QED
    BY <2>3, MirrorsIs
<1>2. CASE Refresh(r)
  <2>1. pc[r] = "run" /\ ~Failed(r)
    BY <1>2, <1>t DEF Refresh, At, Leave, To, TypeOK
  <2>2. \A k \in Key : item[r][k] \notin Planned \cup Busy \cup {"raised", "failed"}
    BY <1>2, <2>1 DEF Refresh, Failed, ItemsIn
  <2>3. \A k \in Key : item[r][k] \in Settled
    BY <1>t, <2>2 DEF TypeOK, ItemState, Settled
  <2>4. \A k \in Key : Agree(r, k)
    BY <1>0, <2>1, <2>3 DEF KeyInv
  <2>. QED
    BY <2>4, MirrorsIs
<1>3. CASE Publish(r)
  <2>1. pc[r] = "publish"
    BY <1>3 DEF Publish, At
  <2>2. \A k \in Key : Agree(r, k)
    BY <1>0, <2>1 DEF KeyInv, ListInv
  <2>. QED
    BY <2>2, MirrorsIs
<1>. QED
  BY <1>1, <1>2, <1>3

LEMMA MainEnds ==
    ASSUME NEW r \in Run, MainStep(r) \/ Kill(r)
    PROVE  \/ UNCHANGED result
           \/ /\ pc[r] # "done"
              /\ \E how : /\ how \notin {"none", "ok", "noop"}
                          /\ Leave(r, how)
           \/ /\ pc[r] # "done"
              /\ \E how \in {"ok", "noop"} : Leave(r, how)
              /\ ComputePlan(r) \/ Refresh(r) \/ Publish(r)
<1>1. CASE Refuse(r) \/ Acquire(r) \/ WalkLocal(r) \/ ListRemote(r)
  BY <1>1 DEF Refuse, Acquire, WalkLocal, ListRemote, At, To
<1>2. CASE InventoryFails(r) \/ Fatal(r) \/ Interrupt(r) \/ Drained(r) \/ BreakOff(r)
  BY <1>2 DEF InventoryFails, Fatal, Interrupt, Drained, BreakOff, At, To
<1>3. CASE ComputePlan(r)
  BY <1>3 DEF ComputePlan, At, To
<1>4. CASE Refresh(r)
  BY <1>4 DEF Refresh, At, To
<1>5. CASE Publish(r)
  BY <1>5 DEF Publish, At
<1>6. CASE Kill(r)
  BY <1>6 DEF Kill, At, control
<1>. QED
  BY <1>1, <1>2, <1>3, <1>4, <1>5, <1>6 DEF MainStep

LEMMA MirrorStep == IInv /\ [Next]_vars => [M!Next]_(M!vars)
<1> SUFFICES ASSUME IInv, [Next]_vars PROVE [M!Next]_(M!vars)
  OBVIOUS
<1>0. TypeOK /\ OrderInv /\ TurnInv
  BY DEF IInv
<1>f. UNCHANGED <<cfg, home>>
  BY <1>0, Final
<1>1. CASE ~Undisturbed
  <2>1. ~Undisturbed'
    BY <1>0, <1>1, TurnsBefore DEF Undisturbed
  <2>. QED
    BY <1>1, <1>f, <2>1 DEF M!Next, M!Disturbed, M!given
<1>2. CASE Undisturbed
  <2>t. TakingTurns
    BY <1>2 DEF Undisturbed
  <2>s. ASSUME UNCHANGED <<local, remote, result>>
        PROVE  UNCHANGED M!vars
    <3>1. UNCHANGED Undisturbed
      BY <1>f, <2>s DEF Undisturbed, TakingTurns
    <3>. QED
      BY <1>f, <2>s, <3>1 DEF M!vars, M!given, Verdict
  <2>1. ASSUME NEW r \in Run, MainStep(r) \/ Kill(r)
        PROVE  [M!Next]_(M!vars)
    <3>0. UNCHANGED <<cfg, home, local, remote>>
      BY <1>0, <2>1, MainFrame
    <3>1. CASE UNCHANGED result
      BY <2>s, <3>0, <3>1
    <3>2. ASSUME pc[r] # "done", NEW how, how \notin {"none", "ok", "noop"}, Leave(r, how)
          PROVE  M!Report(r)
      BY <1>0, <1>2, <3>0, <3>2, Reports
    <3>3. ASSUME pc[r] # "done", NEW how \in {"ok", "noop"}, Leave(r, how),
                 ComputePlan(r) \/ Refresh(r) \/ Publish(r)
          PROVE  M!Report(r)
      <4>1. M!Mirrors(r)
        BY <1>2, <3>3, SuccessMirrors
      <4>. QED
        BY <1>0, <1>2, <3>0, <3>3, <4>1, Reports
    <3>. QED
      BY <2>1, <3>1, <3>2, <3>3, MainEnds DEF M!Next
  <2>2. ASSUME NEW r \in Run, NEW k \in Key,
               \/ Begin(r, k) \/ Upload(r, k) \/ Fetch(r, k) \/ Check(r, k)
               \/ Replace(r, k) \/ DeleteRemote(r, k) \/ DeleteLocal(r, k)
        PROVE  [M!Next]_(M!vars)
    <3>1. KeyInv(r, k)
      BY <1>0, <1>2 DEF TurnInv, PlanInv, Undisturbed
    <3>2. result[r] = "none"
      BY <1>0, <2>2, <2>t, AtWork
    <3>3. M!Move(r) \/ UNCHANGED <<local, remote>>
      BY <1>0, <2>2, <3>1, <3>2, Moves
    <3>4. UNCHANGED result
      BY <1>0, <2>2, WorkerFrame
    <3>. QED
      BY <2>s, <3>3, <3>4 DEF M!Next
  <2>3. CASE Quiet \/ UNCHANGED vars
    BY <2>s, <2>3 DEF Quiet, vars, control, archive, bucket
  <2>. QED
    BY <2>1, <2>2, <2>3 DEF Next, WorkerStep
<1>. QED
  BY <1>1, <1>2

\* Whatever the runs, machines, keys and workers: push and pull implement the mirror.  As
\* long as the runs take turns and a scan reads every file, nothing arrives that the source
\* has not got, nothing is removed that it has, and exit code 0 means that the sides have
\* the same names with the same sizes.
THEOREM Mirrored == Spec => MirrorImplemented
<1>1. Init => M!Init
  BY DEF Init, M!Init, Verdict
<1>2. IInv /\ [Next]_vars => [M!Next]_(M!vars)
  BY MirrorStep
<1>. QED
  BY <1>1, <1>2, InvInit, InvStep, PTL DEF Spec, MirrorImplemented, M!Spec

-----------------------------------------------------------------------------
(* What steps may not do *)

\* A copy or a removal leaves alone what both sides have.
LEMMA MoveSpares ==
    ASSUME TypeOK, NEW r \in Run, M!Move(r), NEW k \in Key,
           local[home[r]][k] # Absent, remote[k] # Absent
    PROVE  local'[home[r]][k] # Absent /\ remote'[k] # Absent
<1>1. PICK j \in Key : M!Copy(r, j) \/ M!Remove(r, j)
  BY DEF M!Move
<1>2. home[r] \in Machine /\ remote \in Store /\ local \in [Machine -> Store]
  BY DEF TypeOK
<1>3. M!Write(r, j) /\ (j = k => M!Source(r)[k] # Absent)
  BY <1>1 DEF M!Copy, M!Remove, M!Source
<1>. QED
  BY <1>2, <1>3 DEF M!Write, Store

\* When every file can be read and no run leaves its workers behind, a sync with --delete
\* spares what both sides have.
THEOREM DeletesSpare ==
    ASSUME ~Unreadable
    PROVE  Spec => DeletesOnlyExtraneous
<1>1. ASSUME IInv, [Next]_vars, TakingTurns,
             NEW m \in Machine, NEW k \in Key, NEW q \in Run, home[q] = m,
             local[m][k] # Absent, remote[k] # Absent
      PROVE  local'[m][k] # Absent /\ remote'[k] # Absent
  <2>0. TypeOK /\ OrderInv /\ TurnInv
    BY <1>1 DEF IInv
  <2>1. CASE UNCHANGED <<local, remote>>
    BY <1>1, <2>1
  <2>2. ASSUME NEW r \in Run, M!Move(r)
        PROVE  local'[m][k] # Absent /\ remote'[k] # Absent
    <3>1. home[r] = m
      BY <1>1 DEF TakingTurns
    <3>. QED
      BY <1>1, <2>0, <2>2, <3>1, MoveSpares
  <2>3. ASSUME NEW r \in Run, NEW j \in Key,
               \/ Begin(r, j) \/ Upload(r, j) \/ Fetch(r, j) \/ Check(r, j)
               \/ Replace(r, j) \/ DeleteRemote(r, j) \/ DeleteLocal(r, j)
        PROVE  M!Move(r) \/ UNCHANGED <<local, remote>>
    <3>1. KeyInv(r, j) /\ result[r] = "none"
      BY <1>1, <2>0, <2>3, AtWork DEF TurnInv, PlanInv
    <3>. QED
      BY <2>0, <2>3, <3>1, Moves
  <2>4. ASSUME NEW r \in Run, MainStep(r) \/ Kill(r)
        PROVE  UNCHANGED <<local, remote>>
    BY <2>0, <2>4, MainFrame
  <2>5. CASE Quiet \/ UNCHANGED vars
    BY <2>1, <2>5 DEF Quiet, vars, archive, bucket
  <2>. QED
    BY <1>1, <2>1, <2>2, <2>3, <2>4, <2>5 DEF Next, WorkerStep
<1>2. IInv /\ [Next]_vars =>
          (TakingTurns => \A m \in Machine, k \in Key :
              /\ (\E r \in Run : home[r] = m) /\ local[m][k] # Absent
              /\ remote[k] # Absent
              => local'[m][k] # Absent /\ remote'[k] # Absent) \/ UNCHANGED vars
  BY <1>1
<1>. QED
  BY <1>2, InvInit, InvStep, PTL DEF Spec, DeletesOnlyExtraneous

\* The manifest that a push with something to do leaves when it returns 0 lists what is in
\* the bucket, if the runs take turns.
THEOREM ManifestIsCurrent == Spec => ManifestCurrent
<1>1. ASSUME IInv, [Next]_vars, TakingTurns, NEW r \in Run, cfg[r].push, Ends(r, {"ok"})
      PROVE  manifest' = {p \in Part : remote[Data(p)] # Absent}
  <2>0. TypeOK /\ OrderInv /\ ListInv(r)
    BY <1>1 DEF IInv, TurnInv
  <2>1. PICK q \in Run : MainStep(q) \/ Kill(q)
    <3>1. result' # result
      BY <1>1 DEF Ends
    <3>2. ~(Quiet \/ UNCHANGED vars)
      BY <3>1 DEF Quiet, vars, control
    <3>3. ASSUME NEW q \in Run, WorkerStep(q)
          PROVE  UNCHANGED result
      BY <3>3 DEF WorkerStep, Begin, Upload, Fetch, Check, Replace, DeleteRemote, DeleteLocal,
                  control
    <3>. QED
      BY <1>1, <3>1, <3>2, <3>3 DEF Next
  <2>2. ASSUME NEW how, Leave(q, how)
        PROVE  q = r /\ how = "ok"
    <3>1. \A s \in Run : result'[s] = IF s = q THEN how ELSE result[s]
      BY <2>0, <2>2 DEF Leave, TypeOK
    <3>. QED
      BY <1>1, <3>1 DEF Ends
  <2>3. result' # result
    BY <1>1 DEF Ends
  <2>4. CASE ComputePlan(q)
    BY <2>2, <2>3, <2>4 DEF ComputePlan, To
  <2>5. CASE Refresh(q)
    <3>1. q = r
      BY <2>2, <2>3, <2>5 DEF Refresh, To
    <3>2. Leave(r, "failed")
      BY <1>1, <2>2, <2>3, <2>5, <3>1 DEF Refresh, To, Uploads
    <3>. QED
      BY <2>2, <3>1, <3>2
  <2>6. CASE Publish(q)
    <3>1. q = r
      BY <2>2, <2>6 DEF Publish
    <3>2. there[r].files = remote
      BY <2>0, <2>6, <3>1 DEF Publish, At, ListInv
    <3>. QED
      BY <2>2, <2>6, <3>1, <3>2 DEF Publish
  <2>7. ComputePlan(q) \/ Refresh(q) \/ Publish(q)
    BY <2>1, <2>2, <2>3, MainEnds
  <2>. QED
    BY <2>4, <2>5, <2>6, <2>7
<1>2. IInv /\ [Next]_vars =>
          (TakingTurns => \A r \in Run :
              cfg[r].push /\ Ends(r, {"ok"}) =>
                  manifest' = {p \in Part : remote[Data(p)] # Absent}) \/ UNCHANGED vars
  BY <1>1
<1>. QED
  BY <1>2, InvInit, InvStep, PTL DEF Spec, ManifestCurrent

-----------------------------------------------------------------------------
(* Verification *)

\* No run at its archive has left workers behind.
Orderly(r) == \A s \in Run : home[s] = home[r] => result[s] \notin Unwaited

\* What has passed the check is what the plan knew the digest of: nobody else writes the
\* temporary files of an archive whose lock is held.
VerifyInv ==
    \A r \in Run, p \in Part :
        /\ Orderly(r) /\ cfg[r].verify /\ digest[r][p] # Absent
        /\ item[r][Data(p)] = "checked"
        => tmp[home[r]][Data(p)] = digest[r][p]

\* At an orderly archive one run at a time has items.
LEMMA Sole ==
    ASSUME OrderInv, NEW r \in Run, NEW s \in Run, Orderly(r), home[s] = home[r],
           item[r] # NoItems, item[s] # NoItems
    PROVE  r = s
<1>1. r \in lock /\ s \in lock
  BY DEF OrderInv, Orderly
<1>. QED
  BY <1>1 DEF OrderInv

\* The main thread checks nothing and moves nothing.
LEMMA MainItems ==
    ASSUME TypeOK, NEW r \in Run, MainStep(r) \/ Kill(r), NEW k \in Key
    PROVE  /\ item'[r][k] = "checked" => item[r][k] = "checked" /\ digest'[r] = digest[r]
           /\ item[r][k] = "checked" => item'[r][k] # "moved"
<1>0. PlanOK
  BY TypeParts
<1>1. CASE UNCHANGED items
  BY <1>1 DEF items
<1>2. CASE Forget(r)
  <2>1. item'[r][k] = "none"
    BY <1>0, <1>2 DEF Forget, NoItems, PlanOK
  <2>. QED
    BY <2>1
<1>3. CASE item' = [item EXCEPT ![r] = Cancelled(r)] /\ UNCHANGED digest
  <2>1. item'[r][k] = "none" \/ item'[r][k] = item[r][k]
    BY <1>0, <1>3 DEF Cancelled, PlanOK
  <2>. QED
    BY <1>3, <2>1
<1>4. ASSUME NEW T, item' = [item EXCEPT ![r] =
                       [j \in Key |-> IF j \in T THEN "transfer"
                                      ELSE IF j \in Deletes(r) THEN "delete" ELSE "none"]]
      PROVE  item'[r][k] \in {"transfer", "delete", "none"}
  BY <1>0, <1>4 DEF PlanOK
<1>5. CASE Refuse(r) \/ Acquire(r) \/ WalkLocal(r) \/ ListRemote(r) \/ InventoryFails(r)
  BY <1>1, <1>5 DEF Refuse, Acquire, WalkLocal, ListRemote, InventoryFails
<1>6. CASE ComputePlan(r)
  <2>1. UNCHANGED items \/ item'[r][k] \in {"transfer", "delete", "none"}
    BY <1>4, <1>6 DEF ComputePlan
  <2>. QED
    BY <1>1, <2>1
<1>7. CASE Fatal(r) \/ Interrupt(r) \/ BreakOff(r)
  BY <1>1, <1>2, <1>3, <1>7 DEF Fatal, Interrupt, BreakOff
<1>8. CASE Drained(r) \/ Refresh(r) \/ Publish(r) \/ Kill(r)
  BY <1>1, <1>2, <1>8 DEF Drained, Refresh, Publish, Kill
<1>. QED
  BY <1>5, <1>6, <1>7, <1>8 DEF MainStep

LEMMA VerifyStep == IInv /\ VerifyInv /\ [Next]_vars => VerifyInv'
<1> SUFFICES ASSUME IInv, VerifyInv, [Next]_vars, NEW r \in Run, NEW p \in Part,
                    Orderly(r)', cfg'[r].verify, digest'[r][p] # Absent,
                    item'[r][Data(p)] = "checked"
             PROVE  tmp'[home'[r]][Data(p)] = digest'[r][p]
  BY DEF VerifyInv
<1>0. TypeOK /\ OrderInv /\ ControlOK /\ PlanOK /\ StoresOK
  BY TypeParts DEF IInv
<1>1. UNCHANGED <<cfg, home>> /\ Orderly(r) /\ Data(p) \in Key /\ home[r] \in Machine
  BY <1>0, Final, ValueFacts DEF Orderly, Unwaited, ControlOK
<1>2. ASSUME item[r][Data(p)] = "checked", digest'[r] = digest[r],
             tmp'[home[r]][Data(p)] = tmp[home[r]][Data(p)]
      PROVE  tmp'[home'[r]][Data(p)] = digest'[r][p]
  BY <1>1, <1>2 DEF VerifyInv
<1>3. ASSUME NEW q \in Run, MainStep(q) \/ Kill(q)
      PROVE  tmp'[home'[r]][Data(p)] = digest'[r][p]
  <2>1. UNCHANGED tmp
    BY <1>0, <1>3, MainFrame
  <2>2. item[r][Data(p)] = "checked" /\ digest'[r] = digest[r]
    BY <1>0, <1>1, <1>3, MainFrame, MainItems
  <2>. QED
    BY <1>2, <2>1, <2>2
<1>4. ASSUME NEW q \in Run, NEW k \in Key,
             \/ Begin(q, k) \/ Upload(q, k) \/ Fetch(q, k) \/ Check(q, k)
             \/ Replace(q, k) \/ DeleteRemote(q, k) \/ DeleteLocal(q, k)
      PROVE  tmp'[home'[r]][Data(p)] = digest'[r][p]
  <2>1. /\ UNCHANGED digest
        /\ \A s \in Run \ {q} : item'[s] = item[s]
        /\ \E to \in ItemState : item' = [item EXCEPT ![q][k] = to]
        /\ tmp' = tmp \/ \E v \in Value : tmp' = [tmp EXCEPT ![home[q]][k] = v]
    BY <1>0, <1>4, WorkerFrame
  <2>2. ASSUME home[q] # home[r] \/ k # Data(p)
        PROVE  tmp'[home[r]][Data(p)] = tmp[home[r]][Data(p)]
    <3>1. ASSUME NEW v \in Value, tmp' = [tmp EXCEPT ![home[q]][k] = v]
          PROVE  tmp'[home[r]][Data(p)] = tmp[home[r]][Data(p)]
      BY <1>0, <1>1, <2>2, <3>1 DEF StoresOK, Store
    <3>. QED
      BY <2>1, <3>1
  <2>3. item[q] # NoItems
    <3>1. item[q][k] # "none"
      BY <1>4 DEF Begin, Upload, Fetch, Check, Replace, DeleteRemote, DeleteLocal
    <3>. QED
      BY <3>1 DEF NoItems
  <2>4. CASE q # r
    <3>1. item[r][Data(p)] = "checked"
      BY <2>1, <2>4
    <3>2. item[r] # NoItems
      BY <1>1, <3>1 DEF NoItems
    <3>3. home[q] # home[r]
      BY <1>0, <1>1, <2>3, <2>4, <3>2, Sole
    <3>. QED
      BY <1>2, <2>1, <2>2, <3>1, <3>3
  <2>5. CASE q = r /\ k # Data(p)
    <3>1. ASSUME NEW to \in ItemState, item' = [item EXCEPT ![q][k] = to]
          PROVE  item'[r][Data(p)] = item[r][Data(p)]
      BY <1>0, <1>1, <2>5, <3>1 DEF PlanOK
    <3>. QED
      BY <1>2, <2>1, <2>2, <2>5, <3>1
  <2>6. CASE q = r /\ k = Data(p)
    <3>1. \A to : item' = [item EXCEPT ![r][k] = to] => to = "checked"
      BY <1>0, <1>1, <2>6 DEF PlanOK
    <3>2. Check(r, k) /\ Settle(r, k, "checked")
      BY <1>4, <2>6, <3>1 DEF Begin, Upload, Fetch, Check, Replace, DeleteRemote, DeleteLocal,
                              Settle, Fail
    <3>3. UNCHANGED tmp /\ (Verifies(r, k) => tmp[home[r]][k] = digest[r][k[1]])
      BY <1>0, <2>6, <3>1, <3>2 DEF Check, Settle
    <3>4. k[1] = p /\ IsData(k)
      BY <2>6 DEF Data, IsData
    <3>5. Verifies(r, k)
      BY <1>1, <2>1, <3>4 DEF Verifies
    <3>. QED
      BY <1>1, <2>1, <2>6, <3>3, <3>4, <3>5
  <2>. QED
    BY <2>4, <2>5, <2>6
<1>5. CASE Quiet \/ UNCHANGED vars
  BY <1>2, <1>5 DEF Quiet, vars, items, archive
<1>. QED
  BY <1>3, <1>4, <1>5 DEF Next, WorkerStep

\* A verified pull whose plan knows a file's digest puts that very file in place, whatever
\* other machines do to the bucket meanwhile.
THEOREM PullsVerified == Spec => VerifiedPull
<1>1. ASSUME IInv, VerifyInv, [Next]_vars, NEW r \in Run, NEW p \in Part,
             \A s \in Run : home[s] = home[r] => result[s] \notin Unwaited,
             cfg[r].verify, digest[r][p] # Absent,
             item[r][Data(p)] = "checked", item'[r][Data(p)] = "moved"
      PROVE  local'[home[r]][Data(p)] = digest[r][p]
  <2>0. /\ TypeOK /\ OrderInv /\ ControlOK /\ PlanOK /\ StoresOK
        /\ Data(p) \in Key /\ home[r] \in Machine
    BY <1>1, TypeParts, ValueFacts DEF IInv, ControlOK
  <2>1. tmp[home[r]][Data(p)] = digest[r][p]
    BY <1>1 DEF VerifyInv, Orderly
  <2>2. ASSUME NEW q \in Run, MainStep(q) \/ Kill(q)
        PROVE  FALSE
    BY <1>1, <2>0, <2>2, MainFrame, MainItems
  <2>3. ASSUME NEW q \in Run, NEW k \in Key,
               \/ Begin(q, k) \/ Upload(q, k) \/ Fetch(q, k) \/ Check(q, k)
               \/ Replace(q, k) \/ DeleteRemote(q, k) \/ DeleteLocal(q, k)
        PROVE  Replace(r, Data(p)) /\ local' = [local EXCEPT ![home[r]][Data(p)] =
                                                   tmp[home[r]][Data(p)]]
    <3>1. /\ \A s \in Run \ {q} : item'[s] = item[s]
          /\ \E to \in ItemState : item' = [item EXCEPT ![q][k] = to]
      BY <2>0, <2>3, WorkerFrame
    <3>2. q = r
      BY <1>1, <3>1
    <3>3. k = Data(p)
      <4>1. ASSUME NEW to \in ItemState, item' = [item EXCEPT ![q][k] = to], k # Data(p)
            PROVE  item'[r][Data(p)] = item[r][Data(p)]
        BY <2>0, <3>2, <4>1 DEF PlanOK
      <4>. QED
        BY <1>1, <3>1, <4>1
    <3>4. Replace(r, Data(p))
      BY <1>1, <2>3, <3>2, <3>3 DEF Begin, Upload, Fetch, Check, DeleteRemote, DeleteLocal
    <3>5. ~Settle(r, Data(p), "raised")
      BY <1>1, <2>0 DEF Settle, PlanOK
    <3>. QED
      BY <3>4, <3>5 DEF Replace
  <2>4. ~(Quiet \/ UNCHANGED vars)
    BY <1>1 DEF Quiet, vars, items
  <2>5. local' = [local EXCEPT ![home[r]][Data(p)] = tmp[home[r]][Data(p)]]
    BY <1>1, <2>2, <2>3, <2>4 DEF Next, WorkerStep
  <2>. QED
    BY <2>0, <2>1, <2>5 DEF StoresOK, Store
<1>2. IInv /\ VerifyInv /\ [Next]_vars =>
          (\A r \in Run, p \in Part :
              /\ \A s \in Run : home[s] = home[r] => result[s] \notin Unwaited
              /\ cfg[r].verify /\ digest[r][p] # Absent
              /\ item[r][Data(p)] = "checked" /\ item'[r][Data(p)] = "moved"
              => local'[home[r]][Data(p)] = digest[r][p]) \/ UNCHANGED vars
  BY <1>1
<1>3. Init => VerifyInv
  BY ValueFacts DEF Init, VerifyInv, NoItems
<1>. QED
  BY <1>2, <1>3, InvInit, InvStep, VerifyStep, PTL DEF Spec, VerifiedPull

-----------------------------------------------------------------------------
(* Pairs *)

\* Every data file has its sidecar, and every sidecar its data file.
Paired(store) == \A p \in Part : store[Side(p)] = store[Data(p)]

Unfailed == \A r \in Run : result[r] \in {"none", "refused", "noop", "declined", "ok"}

Resting == \A r \in Run : pc[r] \notin {"run", "drain", "publish"}

\* Data file and sidecar are planned together, or left alone together.
PairAt(r, p) ==
    /\ \A k \in {Data(p), Side(p)} :
          item[r][k] \in {"moved", "deleted"} => M!Target(r)[k] = M!Source(r)[k]
    /\ item[r][Data(p)] = "none" <=> item[r][Side(p)] = "none"
    /\ item[r][Data(p)] = "none" => M!Target(r)[Side(p)] = M!Target(r)[Data(p)]

PairInv ==
    TakingTurns /\ Unfailed =>
        /\ \A m \in Machine : Resting \/ (\A r \in Run : home[r] # m) => Paired(local[m])
        /\ Resting => Paired(remote)
        /\ \A r \in Run : pc[r] \in {"run", "publish"} =>
              Paired(M!Source(r)) /\ \A p \in Part : PairAt(r, p)

\* Between paired sides a plan keeps pairs together.
LEMMA PlanPairs ==
    ASSUME TypeOK, NEW r \in Run, NEW p \in Part,
           here[r].files = local[home[r]], there[r].files = remote,
           Paired(local[home[r]]), Paired(remote)
    PROVE  LET T == Transfers(PlanningMode(cfg[r]), Source(r), Target(r))
           IN  /\ Data(p) \in T <=> Side(p) \in T
               /\ Data(p) \in Deletes(r) <=> Side(p) \in Deletes(r)
<1>0. Data(p) \in Key /\ Side(p) \in Key /\ IsData(Data(p)) /\ ~IsData(Side(p))
      /\ Data(Side(p)[1]) = Data(p)
  BY ValueFacts DEF Data, Side, IsData
<1>1. RemoteInventory(r).files = remote
  BY DEF RemoteInventory, TypeOK, Inventory
<1>2. /\ Source(r).files[Side(p)] = Source(r).files[Data(p)]
      /\ Target(r).files[Side(p)] = Target(r).files[Data(p)]
  BY <1>1 DEF Source, Target, Paired
<1>3. Data(p) \in Deletes(r) <=> Side(p) \in Deletes(r)
  BY <1>0, <1>2 DEF Deletes, Extraneous
<1>4. ASSUME NEW mode, Differs(mode, Source(r), Target(r), Side(p))
      PROVE  Differs(mode, Source(r), Target(r), Data(p))
  <2>1. EntriesMatch(mode, Side(p), Source(r), Target(r))
    BY <1>0 DEF EntriesMatch, SizeOf, SameDigest
  <2>. QED
    BY <1>2, <1>4, <2>1 DEF Differs
<1>5. ASSUME NEW mode
      PROVE  Data(p) \in Transfers(mode, Source(r), Target(r))
                <=> Side(p) \in Transfers(mode, Source(r), Target(r))
  <2>1. Data(p) \in Transfers(mode, Source(r), Target(r))
           <=> Differs(mode, Source(r), Target(r), Data(p))
    BY <1>0 DEF Transfers
  <2>2. Side(p) \in Transfers(mode, Source(r), Target(r))
           <=> Differs(mode, Source(r), Target(r), Data(p))
    BY <1>0, <1>2, <1>4 DEF Transfers, Differs
  <2>. QED
    BY <2>1, <2>2
<1>. QED
  BY <1>3, <1>5

LEMMA PairInit ==
    ASSUME \A s \in Archives \cup Buckets : Paired(s)
    PROVE  Init => PairInv
<1> SUFFICES ASSUME Init PROVE PairInv
  OBVIOUS
<1>1. Paired(remote) /\ \A m \in Machine : Paired(local[m])
  BY DEF Init
<1>2. \A r \in Run : pc[r] = "idle"
  BY DEF Init
<1>. QED
  BY <1>1, <1>2 DEF PairInv

\* A worker's key keeps its part of the pair.
LEMMA WorkerPairs ==
    ASSUME TypeOK, NEW r \in Run, NEW k \in Key, KeyInv(r, k),
           Paired(M!Source(r)), \A p \in Part : PairAt(r, p),
           \/ Begin(r, k) \/ Upload(r, k) \/ Fetch(r, k) \/ Check(r, k)
           \/ Replace(r, k) \/ DeleteRemote(r, k) \/ DeleteLocal(r, k)
    PROVE  Paired(M!Source(r))' /\ \A p \in Part : PairAt(r, p)'
<1>0. ControlOK /\ PlanOK /\ StoresOK
  BY TypeParts
<1>1. /\ UNCHANGED <<cfg, home>>
      /\ home[r] \in Machine
      /\ \E to \in ItemState : item' = [item EXCEPT ![r][k] = to]
  BY <1>0, WorkerFrame DEF ControlOK
<1>s. M!Source(r)' = M!Source(r)
  <2>1. CASE cfg[r].push
    <3>1. local' = local
      BY <2>1 DEF Begin, Upload, Fetch, Check, Replace, DeleteRemote, DeleteLocal, KeyInv,
                  archive
    <3>. QED
      BY <1>1, <2>1, <3>1 DEF M!Source
  <2>2. CASE ~cfg[r].push
    <3>1. remote' = remote
      BY <2>2 DEF Begin, Upload, Fetch, Check, Replace, DeleteRemote, DeleteLocal, bucket
    <3>. QED
      BY <1>1, <2>2, <3>1 DEF M!Source
  <2>. QED
    BY <2>1, <2>2
<1>2. \A j \in Key \ {k} : item'[r][j] = item[r][j]
  BY <1>0, <1>1 DEF PlanOK
<1>3. \A j \in Key \ {k} : M!Target(r)'[j] = M!Target(r)[j]
  <2>1. CASE cfg[r].push
    <3>1. \A v : remote' = [remote EXCEPT ![k] = v] =>
                    \A j \in Key \ {k} : remote'[j] = remote[j]
      BY <1>0 DEF StoresOK, Store
    <3>2. \A j \in Key \ {k} : remote'[j] = remote[j]
      BY <3>1, WorkerFrame
    <3>. QED
      BY <1>1, <2>1, <3>2 DEF M!Target
  <2>2. CASE ~cfg[r].push
    <3>1. ASSUME NEW v \in Value, local' = [local EXCEPT ![home[r]][k] = v]
          PROVE  \A j \in Key \ {k} : local'[home[r]][j] = local[home[r]][j]
      BY <1>0, <1>1, <3>1 DEF StoresOK, Store
    <3>2. local' = local \/ \E v \in Value : local' = [local EXCEPT ![home[r]][k] = v]
      BY WorkerFrame
    <3>3. \A j \in Key \ {k} : local'[home[r]][j] = local[home[r]][j]
      BY <3>1, <3>2
    <3>. QED
      BY <1>1, <2>2, <3>3 DEF M!Target
  <2>. QED
    BY <2>1, <2>2
<1>4. item[r][k] # "none" /\ item'[r][k] # "none"
  <2>1. \A to : item' = [item EXCEPT ![r][k] = to] => item'[r][k] = to
    BY <1>0 DEF PlanOK
  <2>. QED
    BY <2>1 DEF Begin, Upload, Fetch, Check, Replace, DeleteRemote, DeleteLocal, Settle, Fail
<1>5. item'[r][k] \in {"moved", "deleted"} => M!Target(r)'[k] = M!Source(r)[k]
  <2>0. /\ \A to : item' = [item EXCEPT ![r][k] = to] => item'[r][k] = to
        /\ \A v : remote' = [remote EXCEPT ![k] = v] => remote'[k] = v
        /\ \A v : local' = [local EXCEPT ![home[r]][k] = v] => local'[home[r]][k] = v
    BY <1>0, <1>1 DEF PlanOK, StoresOK, Store
  <2>a. Fail(r, k) => item'[r][k] \notin {"moved", "deleted"}
    BY <2>0 DEF Fail, Settle
  <2>1. CASE Begin(r, k) \/ Fetch(r, k) \/ Check(r, k)
    BY <2>0, <2>a, <2>1 DEF Begin, Fetch, Check, Settle
  <2>2. CASE Upload(r, k)
    <3>1. cfg[r].push
      BY <2>2 DEF Upload
    <3>2. Put(r, k) \/ Fail(r, k)
      BY <2>2 DEF Upload
    <3>3. Put(r, k) => remote'[k] = local[home[r]][k]
      BY <2>0 DEF Put
    <3>. QED
      BY <1>1, <2>a, <3>1, <3>2, <3>3 DEF M!Source, M!Target
  <2>3. CASE Replace(r, k)
    <3>1. ~cfg[r].push /\ tmp[home[r]][k] = remote[k]
      BY <2>3 DEF Replace, KeyInv
    <3>2. \/ local' = [local EXCEPT ![home[r]][k] = tmp[home[r]][k]]
          \/ Settle(r, k, "raised")
      BY <2>3 DEF Replace
    <3>3. local'[home[r]][k] = remote[k] \/ item'[r][k] = "raised"
      BY <2>0, <3>1, <3>2 DEF Settle
    <3>. QED
      BY <1>1, <3>1, <3>3 DEF M!Source, M!Target
  <2>4. CASE DeleteRemote(r, k)
    <3>1. cfg[r].push /\ M!Source(r)[k] = Absent
      BY <2>4 DEF DeleteRemote, KeyInv
    <3>2. remote' = [remote EXCEPT ![k] = Absent] \/ Fail(r, k)
      BY <2>4 DEF DeleteRemote
    <3>. QED
      BY <1>1, <2>0, <2>a, <3>1, <3>2 DEF M!Target
  <2>5. CASE DeleteLocal(r, k)
    <3>1. ~cfg[r].push /\ M!Source(r)[k] = Absent
      BY <2>5 DEF DeleteLocal, KeyInv
    <3>2. local' = [local EXCEPT ![home[r]][k] = Absent] \/ Settle(r, k, "failed")
      BY <2>5 DEF DeleteLocal
    <3>3. local'[home[r]][k] = Absent \/ item'[r][k] = "failed"
      BY <2>0, <3>2 DEF Settle
    <3>. QED
      BY <1>1, <3>1, <3>3 DEF M!Target
  <2>. QED
    BY <2>1, <2>2, <2>3, <2>4, <2>5
<1>6. ASSUME NEW p \in Part
      PROVE  PairAt(r, p)'
  <2>1. Data(p) \in Key /\ Side(p) \in Key /\ PairAt(r, p)
    BY ValueFacts
  <2>2. /\ \A j \in Key : item'[r][j] = "none" <=> item[r][j] = "none"
        /\ \A j \in Key : item'[r][j] = "none" => M!Target(r)'[j] = M!Target(r)[j]
        /\ \A j \in Key : item[r][j] # item'[r][j] => j = k
    BY <1>2, <1>3, <1>4
  <2>3. \A j \in Key : item'[r][j] \in {"moved", "deleted"} /\ j # k =>
            item[r][j] = item'[r][j] /\ M!Target(r)'[j] = M!Target(r)[j]
    BY <1>2, <1>3
  <2>. QED
    BY <1>5, <1>s, <2>1, <2>2, <2>3 DEF PairAt
<1>. QED
  BY <1>s, <1>6 DEF Paired

LEMMA PairKept ==
    ASSUME NEW r \in Run, UNCHANGED <<cfg, home, local, remote>>, item'[r] = item[r]
    PROVE  /\ Paired(M!Source(r)) => Paired(M!Source(r))'
           /\ \A p \in Part : PairAt(r, p) => PairAt(r, p)'
BY DEF PairAt, Paired, M!Source, M!Target

\* When all is settled the destination is paired.
LEMMA SettledPairs ==
    ASSUME NEW r \in Run, Paired(M!Source(r)), \A p \in Part : PairAt(r, p),
           \A k \in Key : item[r][k] \in Settled
    PROVE  Paired(M!Target(r))
<1> SUFFICES ASSUME NEW p \in Part
             PROVE  M!Target(r)[Side(p)] = M!Target(r)[Data(p)]
  BY DEF Paired
<1>1. /\ item[r][Data(p)] \in Settled /\ item[r][Side(p)] \in Settled
      /\ PairAt(r, p) /\ M!Source(r)[Side(p)] = M!Source(r)[Data(p)]
  BY ValueFacts DEF Paired
<1>. QED
  BY <1>1 DEF PairAt, Settled

LEMMA PairStep ==
    ASSUME IInv, ~Unreadable, PairInv, [Next]_vars
    PROVE  PairInv'
<1> SUFFICES ASSUME TakingTurns', Unfailed'
             PROVE  /\ \A m \in Machine :
                          Resting' \/ (\A r \in Run : home'[r] # m) => Paired(local'[m])
                    /\ Resting' => Paired(remote')
                    /\ \A s \in Run : pc'[s] \in {"run", "publish"} =>
                          Paired(M!Source(s))' /\ \A p \in Part : PairAt(s, p)'
  BY DEF PairInv, Paired
<1>0. TypeOK /\ OrderInv /\ TurnInv /\ ControlOK /\ PlanOK /\ StoresOK
  BY TypeParts DEF IInv
<1>1. UNCHANGED <<cfg, home>> /\ TakingTurns
  BY <1>0, Final, TurnsBefore
<1>2. Unfailed
  <2>1. \A r \in Run : result[r] = "none" \/ result'[r] = result[r]
    BY <1>0, Final
  <2>. QED
    BY <2>1 DEF Unfailed
<1>3. /\ \A m \in Machine : Resting \/ (\A r \in Run : home[r] # m) => Paired(local[m])
      /\ Resting => Paired(remote)
      /\ \A r \in Run : pc[r] \in {"run", "publish"} =>
            Paired(M!Source(r)) /\ \A p \in Part : PairAt(r, p)
  BY <1>1, <1>2 DEF PairInv
<1>k. \A r \in Run : ListInv(r) /\ PlanInv(r) /\ \A k \in Key : KeyInv(r, k)
  BY <1>0, <1>1 DEF TurnInv, PlanInv
<1>4. ASSUME NEW r \in Run, MainStep(r) \/ Kill(r)
      PROVE  /\ \A m \in Machine :
                    Resting' \/ (\A q \in Run : home'[q] # m) => Paired(local'[m])
             /\ Resting' => Paired(remote')
             /\ \A s \in Run : pc'[s] \in {"run", "publish"} =>
                   Paired(M!Source(s))' /\ \A p \in Part : PairAt(s, p)'
  <2>0. /\ UNCHANGED <<local, remote>>
        /\ \A s \in Run \ {r} : pc'[s] = pc[s] /\ item'[s] = item[s]
    BY <1>0, <1>4, MainFrame
  <2>1. ASSUME Resting', ~Resting
        PROVE  Paired(M!Source(r)) /\ Paired(M!Target(r))
    <3>1. pc[r] \in {"run", "drain", "publish"} /\ pc'[r] \notin {"run", "drain", "publish"}
      BY <2>0, <2>1 DEF Resting
    <3>2. ASSUME NEW how, Leave(r, how)
          PROVE  how \in {"none", "refused", "noop", "declined", "ok"}
      <4>1. result'[r] = how
        BY <1>0, <3>2 DEF Leave, ControlOK
      <4>. QED
        BY <4>1 DEF Unfailed
    <3>3. CASE Fatal(r) \/ Drained(r) \/ BreakOff(r) \/ Kill(r)
      <4>1. \/ Leave(r, "fatal") \/ Leave(r, "interrupted") \/ Leave(r, "broken_off")
            \/ Leave(r, "killed")
        BY <3>1, <3>3 DEF Fatal, Drained, BreakOff, Kill, At
      <4>. QED
        BY <3>2, <4>1
    <3>4. CASE Interrupt(r)
      <4>1. pc'[r] = "drain"
        BY <1>0, <3>4 DEF Interrupt, To, ControlOK
      <4>. QED
        BY <3>1, <4>1
    <3>5. CASE Refresh(r)
      <4>1. ~To(r, "publish")
        BY <1>0, <3>1 DEF To, ControlOK
      <4>2. ~Failed(r) /\ pc[r] = "run"
        BY <3>2, <3>5, <4>1 DEF Refresh, At
      <4>3. \A k \in Key : item[r][k] \notin Planned \cup Busy \cup {"raised", "failed"}
        BY <3>5, <4>2 DEF Refresh, Failed, ItemsIn
      <4>4. \A k \in Key : item[r][k] \in Settled
        BY <1>0, <4>3 DEF PlanOK, ItemState, Settled
      <4>. QED
        BY <1>3, <4>2, <4>4, SettledPairs
    <3>6. CASE Publish(r)
      <4>1. pc[r] = "publish"
        BY <3>6 DEF Publish, At
      <4>2. \A k \in Key : item[r][k] \in Settled
        BY <1>k, <4>1 DEF ListInv
      <4>. QED
        BY <1>3, <4>1, <4>2, SettledPairs
    <3>7. CASE Refuse(r) \/ Acquire(r) \/ WalkLocal(r) \/ ListRemote(r) \/ InventoryFails(r)
               \/ ComputePlan(r)
      BY <3>1, <3>7 DEF Refuse, Acquire, WalkLocal, ListRemote, InventoryFails, ComputePlan, At
    <3>. QED
      BY <1>4, <3>3, <3>4, <3>5, <3>6, <3>7 DEF MainStep
  <2>2. ASSUME Resting'
        PROVE  Paired(remote) /\ \A m \in Machine : Paired(local[m])
    <3>1. CASE Resting
      BY <1>3, <3>1
    <3>2. CASE ~Resting
      <4>1. Paired(remote) /\ Paired(local[home[r]])
        BY <2>1, <2>2, <3>2 DEF M!Source, M!Target
      <4>2. \A m \in Machine : m = home[r] \/ \A q \in Run : home[q] # m
        BY <1>1 DEF TakingTurns
      <4>. QED
        BY <1>3, <4>1, <4>2
    <3>. QED
      BY <3>1, <3>2
  <2>3. ASSUME NEW s \in Run, pc'[s] \in {"run", "publish"}
        PROVE  Paired(M!Source(s))' /\ \A p \in Part : PairAt(s, p)'
    <3>1. CASE s # r
      BY <1>1, <1>3, <2>0, <2>3, <3>1, PairKept
    <3>2. CASE s = r /\ ComputePlan(r)
      <4>1. pc[r] = "digests"
        BY <3>2 DEF ComputePlan, At
      <4>2. Resting
        BY <1>0, <1>1, <4>1, Bystanders DEF Resting
      <4>3. Paired(remote) /\ Paired(local[home[r]])
        BY <1>0, <1>3, <4>2 DEF ControlOK
      <4>4. here[r].files = local[home[r]] /\ there[r].files = remote
        BY <1>k, <4>1 DEF ListInv, PlanInv
      <4>5. DEFINE T == Transfers(PlanningMode(cfg[r]), Source(r), Target(r))
      <4>6. item' = [item EXCEPT ![r] =
                        [k \in Key |-> IF k \in T THEN "transfer"
                                       ELSE IF k \in Deletes(r) THEN "delete" ELSE "none"]]
        <5>1. \A how : ~Leave(r, how)
          BY <1>0, <2>3, <3>2 DEF Leave, ControlOK
        <5>. QED
          BY <3>2, <5>1 DEF ComputePlan
      <4>7. \A k \in Key : item'[r][k] = IF k \in T THEN "transfer"
                                         ELSE IF k \in Deletes(r) THEN "delete" ELSE "none"
        BY <1>0, <4>6 DEF PlanOK
      <4>8. Paired(M!Source(r)) /\ Paired(M!Target(r))
        BY <4>3 DEF M!Source, M!Target
      <4>9. ASSUME NEW p \in Part
            PROVE  PairAt(r, p)'
        <5>1. /\ Data(p) \in T <=> Side(p) \in T
              /\ Data(p) \in Deletes(r) <=> Side(p) \in Deletes(r)
          BY <1>0, <4>3, <4>4, PlanPairs
        <5>2. M!Target(r)'[Side(p)] = M!Target(r)'[Data(p)]
          BY <1>1, <2>0, <4>8 DEF Paired, M!Target
        <5>3. Data(p) \in Key /\ Side(p) \in Key
          BY ValueFacts
        <5> HIDE DEF T
        <5>. QED
          BY <4>7, <5>1, <5>2, <5>3 DEF PairAt
      <4>10. Paired(M!Source(r))'
        BY <1>1, <2>0, <4>8 DEF Paired, M!Source
      <4>. QED
        BY <3>2, <4>9, <4>10
    <3>3. CASE s = r /\ Refresh(r)
      <4>1. pc[r] = "run" /\ UNCHANGED items
        BY <1>0, <2>3, <3>3 DEF Refresh, At, Leave, ControlOK
      <4>. QED
        BY <1>1, <1>3, <2>0, <3>3, <4>1, PairKept DEF items
    <3>4. CASE s = r /\ (Refuse(r) \/ Acquire(r) \/ WalkLocal(r) \/ ListRemote(r)
                         \/ InventoryFails(r))
      BY <1>0, <2>3, <3>4 DEF Refuse, Acquire, WalkLocal, ListRemote, InventoryFails, To, Leave,
                              ControlOK
    <3>5. CASE s = r /\ (\/ Fatal(r) \/ Interrupt(r) \/ Drained(r) \/ BreakOff(r)
                         \/ Publish(r) \/ Kill(r))
      BY <1>0, <2>3, <3>5 DEF Fatal, Interrupt, Drained, BreakOff, Publish, Kill, At, To, Leave, control,
                              ControlOK
    <3>. QED
      BY <1>4, <3>1, <3>2, <3>3, <3>4, <3>5 DEF MainStep
  <2>. QED
    BY <1>1, <1>3, <2>0, <2>2, <2>3
<1>5. ASSUME NEW r \in Run, NEW k \in Key,
             \/ Begin(r, k) \/ Upload(r, k) \/ Fetch(r, k) \/ Check(r, k)
             \/ Replace(r, k) \/ DeleteRemote(r, k) \/ DeleteLocal(r, k)
      PROVE  /\ \A m \in Machine :
                    Resting' \/ (\A q \in Run : home'[q] # m) => Paired(local'[m])
             /\ Resting' => Paired(remote')
             /\ \A s \in Run : pc'[s] \in {"run", "publish"} =>
                   Paired(M!Source(s))' /\ \A p \in Part : PairAt(s, p)'
  <2>1. item[r][k] \in Planned \cup Busy
    BY <1>5 DEF Begin, Upload, Fetch, Check, Replace, DeleteRemote, DeleteLocal, Planned, Busy
  <2>2. item[r] # NoItems /\ item[r][k] \notin Settled
    BY <2>1 DEF NoItems, Planned, Busy, Settled
  <2>3. pc[r] \in {"run", "drain"}
    BY <1>0, <1>1, <1>k, <2>2, Bystanders DEF ListInv
  <2>4. pc' = pc
    BY <1>0, <1>5, WorkerFrame
  <2>5. ~Resting'
    BY <2>3, <2>4 DEF Resting
  <2>6. ASSUME NEW m \in Machine, \A q \in Run : home[q] # m
        PROVE  local'[m] = local[m]
    <3>1. ASSUME NEW v \in Value, local' = [local EXCEPT ![home[r]][k] = v]
          PROVE  local'[m] = local[m]
      BY <1>0, <2>6, <3>1 DEF StoresOK
    <3>2. local' = local \/ \E v \in Value : local' = [local EXCEPT ![home[r]][k] = v]
      BY <1>0, <1>5, WorkerFrame
    <3>. QED
      BY <3>1, <3>2
  <2>7. ASSUME NEW s \in Run, pc'[s] \in {"run", "publish"}
        PROVE  Paired(M!Source(s))' /\ \A p \in Part : PairAt(s, p)'
    <3>1. s = r
      BY <1>0, <1>1, <2>2, <2>4, <2>7, Bystanders
    <3>2. pc[r] \in {"run", "publish"}
      BY <2>4, <2>7, <3>1
    <3>. QED
      BY <1>0, <1>3, <1>5, <1>k, <3>1, <3>2, WorkerPairs
  <2>. QED
    BY <1>1, <1>3, <2>5, <2>6, <2>7
<1>6. CASE Quiet \/ UNCHANGED vars
  <2>1. UNCHANGED <<cfg, home, local, remote, pc, item>>
    BY <1>6 DEF Quiet, vars, setup, control, items, archive, bucket
  <2>. QED
    BY <1>3, <2>1, PairKept DEF Resting
<1>. QED
  BY <1>4, <1>5, <1>6 DEF Next, WorkerStep

\* Archives that keep a sidecar beside every file still do, on both sides, after any
\* number of runs that took turns, read every file and did not fail.
THEOREM PairsAreKept ==
    ASSUME \A s \in Archives \cup Buckets : Paired(s)
    PROVE  Spec => []PairsKept
<1>1. Init => PairInv \/ Unreadable
  BY PairInit
<1>2. IInv /\ (PairInv \/ Unreadable) /\ [Next]_vars => (PairInv \/ Unreadable)'
  BY PairStep
<1>3. PairInv \/ Unreadable => PairsKept
  BY DEF PairInv, PairsKept, Undisturbed, Paired, Honest, Unfailed, Resting
<1>. QED
  BY <1>1, <1>2, <1>3, InvInit, InvStep, PTL DEF Spec
=============================================================================
