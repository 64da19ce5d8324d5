------------------------- MODULE GateVisibilityProofs -------------------------
(***************************************************************************)
(* Theorems of GateVisibility.  The lock carries everything: what an owner *)
(* did is in its view, and what former owners did is in the view of the    *)
(* lock, so whoever is granted it knows all of it.                         *)
(***************************************************************************)
EXTENDS GateVisibility, SequenceTheorems, TLAPS

Locked(t) == pc[t] \in InLock

\* Owners exclude each other unless both are shared.
OwnersCompatible ==
  \A t, u \in Threads : Locked(t) /\ Locked(u) /\ t # u => t \in Shared /\ u \in Shared

\* A view never claims a store that does not exist.
ViewsInRange == \A t \in Threads : view[t].store \in 1 .. Len(stores)

\* An owner knows the latest store and every conflicting access; once it has
\* touched the data it knows that too, and the gate it found is still open.
OwnerKnows ==
  \A t \in Threads : Locked(t) =>
    /\ view[t].store = Len(stores)
    /\ \A u \in accessed : Conflict(t, u) => u \in view[t].data
    /\ pc[t] \in {"close", "release"} => t \in view[t].data
    /\ t \in Callers /\ pc[t] \in {"task", "close"} => stores[Len(stores)].open

\* What no present owner knows, the lock does.
LockKnows ==
  /\ lockView.store \in 1 .. Len(stores)
  /\ readView.store \in 1 .. Len(stores)
  /\ (\A t \in Threads : Locked(t) => t \in Shared) => lockView.store = Len(stores)
  /\ \A t \in accessed : ~Locked(t) => t \in (IF t \in Shared THEN readView.data ELSE lockView.data)

\* A releasing store carries the work behind every store up to its own.
StoresCarryWork ==
  /\ \A k \in 1 .. Len(stores) :
       stores[k].by # None => stores[k].by \in accessed \ Shared
  /\ \A k \in 1 .. Len(stores) :
       stores[k].by \in Releasing => StoredUpTo(k) \subseteq stores[k].data

\* Exactly the threads past their task have touched the data.
AccessedControl ==
  \A t \in Threads : t \in accessed <=> pc[t] \in {"close", "release", "done"}

\* Shared calls never come to store.
SharedReadOnly == \A t \in Shared : pc[t] # "close"

\* Writers know neither checks nor rejections.
WriterControl ==
  \A t \in Writers : pc[t] \in {"lock", "task", "close", "release", "done"}

VisibilityInv ==
  /\ TypeOK /\ OwnersCompatible /\ ViewsInRange /\ OwnerKnows /\ LockKnows
  /\ StoresCarryWork /\ AccessedControl /\ SharedReadOnly /\ WriterControl
  /\ OpeningsConsumedOnce /\ RejectionSeesWork

StoreType == [open : BOOLEAN, by : (Threads \ Shared) \cup {None}, data : SUBSET Threads]
ViewType  == [store : Nat, data : SUBSET Threads]

Controls  == InLock \cup {"check", "lock", "rejected", "refused", "done"}

LEMMA TypeParts ==
  TypeOK <=> /\ stores \in Seq(StoreType) /\ Len(stores) > 0
             /\ view \in [Threads -> ViewType]
             /\ lockView \in ViewType /\ readView \in ViewType
             /\ accessed \subseteq Threads
             /\ pc \in [Threads -> Controls]
BY DEF TypeOK, StoreType, ViewType, Controls

(***************************************************************************)
(* The effects of the operations.                                          *)
(***************************************************************************)

\* Joining two views gives a view that knows what either knows.
LEMMA JoinView ==
  ASSUME NEW v \in ViewType, NEW w \in ViewType
  PROVE  /\ Join(v, w) \in ViewType
         /\ Join(v, w).store = v.store \/ Join(v, w).store = w.store
         /\ Join(v, w).store >= v.store /\ Join(v, w).store >= w.store
         /\ Join(v, w).data = v.data \cup w.data
BY DEF Join, ViewType

\* A load leaves the view at the store it has read.
LEMMA LoadEffect ==
  ASSUME TypeOK, ViewsInRange, NEW i \in Threads, NEW open \in BOOLEAN, Load(i, open)
  PROVE  \E k \in view[i].store .. Len(stores) :
           /\ k \in 1 .. Len(stores)
           /\ stores[k].open = open
           /\ view' = [view EXCEPT ![i] = ViewAfter(i, k)]
           /\ ViewAfter(i, k) \in ViewType
           /\ ViewAfter(i, k).store = k
           /\ view[i].data \subseteq ViewAfter(i, k).data
           /\ i \in Acquiring => stores[k].data \subseteq ViewAfter(i, k).data
<1>1. PICK k \in view[i].store .. Len(stores) :
        stores[k].open = open /\ view' = [view EXCEPT ![i] = ViewAfter(i, k)]
  BY DEF Load
<1>2. k \in 1 .. Len(stores)
  BY DEF ViewsInRange, TypeOK
<1>3. stores[k] \in StoreType /\ view[i] \in ViewType
  BY <1>2, TypeParts, ElementOfSeq
<1>4. ViewAfter(i, k) \in ViewType
  BY <1>2, <1>3 DEF ViewAfter, StoreType, ViewType
<1> QED
  BY <1>1, <1>2, <1>4 DEF ViewAfter

(***************************************************************************)
(* Type correctness.                                                       *)
(***************************************************************************)

LEMMA InitType == Init => TypeOK
<1> SUFFICES ASSUME Init PROVE TypeOK
  OBVIOUS
<1>1. PICK open \in BOOLEAN : stores = <<[open |-> open, by |-> None, data |-> {}]>>
  BY DEF Init
<1> QED
  BY <1>1 DEF Init, TypeOK, NoView, InLock

LEMMA StepType ==
  ASSUME TypeOK, ViewsInRange, SharedReadOnly, NEW t \in Threads, Step(t)
  PROVE  TypeOK'
<1>t. /\ stores \in Seq(StoreType) /\ Len(stores) > 0
      /\ view \in [Threads -> ViewType]
      /\ lockView \in ViewType /\ readView \in ViewType
      /\ accessed \subseteq Threads
      /\ pc \in [Threads -> Controls]
  BY TypeParts
<1>g. SUFFICES /\ stores' \in Seq(StoreType) /\ Len(stores') > 0
               /\ view' \in [Threads -> ViewType]
               /\ lockView' \in ViewType /\ readView' \in ViewType
               /\ accessed' \subseteq Threads
               /\ pc' \in [Threads -> Controls]
  BY DEF TypeOK, StoreType, ViewType, Controls
<1>l. ASSUME NEW open \in BOOLEAN, Load(t, open)
      PROVE  view' \in [Threads -> ViewType]
  <2>1. PICK k : view' = [view EXCEPT ![t] = ViewAfter(t, k)] /\ ViewAfter(t, k) \in ViewType
    BY <1>l, LoadEffect
  <2> QED
    BY <1>t, <2>1
<1>1. CASE FirstCheck(t)
  BY <1>1, <1>l, <1>t DEF FirstCheck, Goto, Controls
<1>2. CASE AcquireLock(t)
  <2>1. Taken(t) \in ViewType
    BY <1>t, JoinView DEF Taken
  <2> QED
    BY <1>2, <2>1, <1>t DEF AcquireLock, Goto, InLock, Controls
<1>3. CASE SecondCheck(t)
  BY <1>3, <1>l, <1>t DEF SecondCheck, Goto, Controls, InLock
<1>4. CASE RunTask(t)
  BY <1>4, <1>t DEF RunTask, Access, Goto, Controls, InLock, ViewType
<1>5. CASE StoreGate(t)
  <2>1. t \in Threads \ Shared
    BY <1>5 DEF StoreGate, SharedReadOnly
  <2>2. PICK open \in BOOLEAN : Store(t, open)
    BY <1>5 DEF StoreGate
  <2> DEFINE s == [open |-> open, by |-> t, data |-> IF t \in Releasing THEN view[t].data ELSE {}]
  <2>3. s \in StoreType
    BY <1>t, <2>1 DEF StoreType, ViewType
  <2>4. stores' = Append(stores, s) /\ view' = [view EXCEPT ![t] = [store |-> Len(stores) + 1, data |-> view[t].data]]
    BY <2>2 DEF Store
  <2> HIDE DEF s
  <2>5. stores' \in Seq(StoreType) /\ Len(stores') > 0
    BY <2>3, <2>4, <1>t
  <2>6. view' \in [Threads -> ViewType]
    <3>1. [store |-> Len(stores) + 1, data |-> view[t].data] \in ViewType
      BY <1>t DEF ViewType
    <3> QED
      BY <3>1, <2>4, <1>t
  <2> QED
    BY <1>5, <2>5, <2>6, <1>t DEF StoreGate, Goto, Controls, InLock
<1>6. CASE ReleaseLock(t)
  <2>1. lockView' \in ViewType /\ readView' \in ViewType
    BY <1>6, <1>t, JoinView DEF ReleaseLock, Publish
  <2> QED
    BY <1>6, <2>1, <1>t DEF ReleaseLock, Goto, Controls, InLock
<1> QED
  BY <1>1, <1>2, <1>3, <1>4, <1>5, <1>6 DEF Step

(***************************************************************************)
(* The invariant.                                                          *)
(***************************************************************************)

LEMMA InitVisibilityInv == Init => VisibilityInv
<1> SUFFICES ASSUME Init PROVE VisibilityInv
  OBVIOUS
<1>1. PICK open \in BOOLEAN : stores = <<[open |-> open, by |-> None, data |-> {}]>>
  BY DEF Init
<1>2. Len(stores) = 1 /\ stores[1] = [open |-> open, by |-> None, data |-> {}]
  BY <1>1
<1>3. \A t \in Threads : view[t] = NoView /\ ~Locked(t) /\ pc[t] \in {"check", "lock"}
  BY DEF Init, Locked, InLock
<1>4. TypeOK
  BY InitType
<1>5. StoredUpTo(1) = {}
  BY <1>2 DEF StoredUpTo
<1>6. None \notin Releasing
  BY VisibilityAssumption
<1>7. LockKnows /\ ViewsInRange
  BY <1>2, <1>3 DEF LockKnows, ViewsInRange, NoView, Init
<1>8. StoresCarryWork
  BY <1>2, <1>6 DEF StoresCarryWork
<1>9. WriterControl
  BY VisibilityAssumption DEF Init, WriterControl, Threads
<1>10. AccessedControl /\ SharedReadOnly
  BY <1>3 DEF AccessedControl, SharedReadOnly, Shared, Threads, Init
<1>11. OpeningsConsumedOnce /\ RejectionSeesWork
  BY <1>2, <1>3 DEF OpeningsConsumedOnce, RejectionSeesWork, Threads
<1> QED
  BY <1>3, <1>4, <1>7, <1>8, <1>9, <1>10, <1>11 DEF VisibilityInv, OwnersCompatible, OwnerKnows

\* The lock-free check concerns nobody but its call.
LEMMA FirstCheckInv ==
  ASSUME VisibilityInv, NEW t \in Threads, FirstCheck(t), TypeOK'
  PROVE  VisibilityInv'
<1> USE DEF VisibilityInv
<1>0. UNCHANGED <<stores, lockView, readView, accessed>> /\ t \in Callers /\ pc[t] = "check"
  BY DEF FirstCheck
<1>1. PICK open \in BOOLEAN, k \in 1 .. Len(stores) :
        /\ view' = [view EXCEPT ![t] = ViewAfter(t, k)]
        /\ ViewAfter(t, k).store = k
        /\ t \in Acquiring => stores[k].data \subseteq ViewAfter(t, k).data
        /\ pc' = [pc EXCEPT ![t] = IF open THEN "lock" ELSE "rejected"]
  <2>1. CASE Load(t, TRUE) /\ Goto(t, "lock")
    BY <2>1, LoadEffect DEF Goto
  <2>2. CASE Load(t, FALSE) /\ Goto(t, "rejected")
    BY <2>2, LoadEffect DEF Goto
  <2> QED
    BY <2>1, <2>2 DEF FirstCheck
<1>2. \A u \in Threads : u # t => pc'[u] = pc[u] /\ view'[u] = view[u]
  BY <1>1, TypeParts
<1>3. pc'[t] \in {"lock", "rejected"} /\ view'[t] = ViewAfter(t, k)
  BY <1>1, TypeParts
<1>4. \A u \in Threads : Locked(u)' <=> Locked(u)
  BY <1>0, <1>2, <1>3 DEF Locked, InLock
<1>5. \A u \in Threads : Locked(u) => u # t
  BY <1>0 DEF Locked, InLock
<1>6. OwnersCompatible' /\ LockKnows'
  BY <1>0, <1>4, TypeParts DEF OwnersCompatible, LockKnows
<1>7. ViewsInRange'
  BY <1>0, <1>1, <1>2, <1>3 DEF ViewsInRange
<1>8. OwnerKnows'
  BY <1>0, <1>2, <1>4, <1>5 DEF OwnerKnows
<1>9. StoresCarryWork' /\ OpeningsConsumedOnce'
  BY <1>0 DEF StoresCarryWork, StoredUpTo, OpeningsConsumedOnce
<1>10. AccessedControl' /\ SharedReadOnly' /\ WriterControl'
  BY <1>0, <1>2, <1>3, VisibilityAssumption
  DEF AccessedControl, SharedReadOnly, WriterControl, Shared, Threads
<1>11. RejectionSeesWork'
  <2> SUFFICES ASSUME NEW i \in Callers,
                      \/ pc'[i] = "refused"
                      \/ pc'[i] = "rejected" /\ i \in Acquiring /\ stores[view'[i].store].by \in Releasing
               PROVE  StoredUpTo(view'[i].store) \subseteq view'[i].data
    BY <1>0 DEF RejectionSeesWork, StoredUpTo
  <2>1. CASE i # t
    BY <2>1, <1>2 DEF RejectionSeesWork, Threads
  <2>2. CASE i = t
    BY <2>2, <1>1, <1>3 DEF StoresCarryWork
  <2> QED
    BY <2>1, <2>2
<1> QED
  BY <1>6, <1>7, <1>8, <1>9, <1>10, <1>11

\* Whoever is granted the lock learns all that its former owners did.
LEMMA AcquireLockInv ==
  ASSUME VisibilityInv, NEW t \in Threads, AcquireLock(t), TypeOK'
  PROVE  VisibilityInv'
<1> USE DEF VisibilityInv
<1>0. /\ UNCHANGED <<stores, lockView, readView, accessed>>
      /\ pc[t] = "lock" /\ Compatible(t)
      /\ view' = [view EXCEPT ![t] = Taken(t)]
      /\ pc' = [pc EXCEPT ![t] = IF t \in Callers THEN "second" ELSE "task"]
  BY DEF AcquireLock, Goto
<1>1. \A u \in Threads : u # t => pc'[u] = pc[u] /\ view'[u] = view[u]
  BY <1>0, TypeParts
<1>2. pc'[t] = (IF t \in Callers THEN "second" ELSE "task") /\ view'[t] = Taken(t)
  BY <1>0, TypeParts
<1>3. \A u \in Threads : u # t => (Locked(u)' <=> Locked(u))
  BY <1>1 DEF Locked
<1>4. Locked(t)' /\ ~Locked(t)
  BY <1>0, <1>2 DEF Locked, InLock
<1>5. \A u \in Threads : Locked(u) => t \in Shared /\ u \in Shared
  BY <1>0 DEF Compatible, Holders, Locked
<1>6. lockView.store = Len(stores)
  BY <1>5 DEF LockKnows
<1>7. view[t] \in ViewType /\ lockView \in ViewType /\ readView \in ViewType
  BY TypeParts
<1>8. /\ Taken(t).store = Len(stores)
      /\ view[t].data \cup lockView.data \subseteq Taken(t).data
      /\ t \notin Shared => readView.data \subseteq Taken(t).data
  <2>1. /\ view[t].store \in 1 .. Len(stores) /\ readView.store \in 1 .. Len(stores)
        /\ Len(stores) \in Nat
    BY TypeParts, LenProperties DEF ViewsInRange, LockKnows
  <2>2. CASE t \in Shared
    BY <2>1, <2>2, <1>6, <1>7, JoinView DEF Taken
  <2>3. CASE t \notin Shared
    <3>1. /\ Join(lockView, readView) \in ViewType
          /\ Join(lockView, readView).store = Len(stores)
          /\ Join(lockView, readView).data = lockView.data \cup readView.data
      BY <2>1, <1>6, <1>7 DEF Join, ViewType
    <3>2. Taken(t) = Join(view[t], Join(lockView, readView))
      BY <2>3 DEF Taken
    <3> QED
      BY <3>1, <3>2, <2>1, <1>7 DEF Join, ViewType
  <2> QED
    BY <2>2, <2>3
<1>9. OwnersCompatible'
  BY <1>3, <1>5 DEF OwnersCompatible
<1>10. ViewsInRange'
  BY <1>0, <1>1, <1>2, <1>6, <1>8 DEF ViewsInRange, LockKnows
<1>11. LockKnows'
  BY <1>0, <1>3, <1>4, <1>5, <1>6, TypeParts DEF LockKnows
<1>12. OwnerKnows'
  <2> SUFFICES ASSUME NEW u \in Threads, Locked(u)'
               PROVE  /\ view'[u].store = Len(stores)
                      /\ \A v \in accessed : Conflict(u, v) => v \in view'[u].data
                      /\ pc'[u] \in {"close", "release"} => u \in view'[u].data
                      /\ u \in Callers /\ pc'[u] \in {"task", "close"} => stores[Len(stores)].open
    BY <1>0 DEF OwnerKnows, Conflict
  <2>1. CASE u # t
    BY <2>1, <1>1, <1>3 DEF OwnerKnows
  <2>2. CASE u = t
    <3>1. ASSUME NEW v \in accessed, Conflict(t, v) PROVE v \in Taken(t).data
      <4>1. v \in Threads /\ ~Locked(v)
        BY <3>1, <1>5, TypeParts DEF Conflict
      <4> QED
        BY <4>1, <3>1, <1>8 DEF LockKnows, Conflict
    <3> QED
      BY <2>2, <3>1, <1>2, <1>8
  <2> QED
    BY <2>1, <2>2
<1>13. StoresCarryWork' /\ OpeningsConsumedOnce'
  BY <1>0 DEF StoresCarryWork, StoredUpTo, OpeningsConsumedOnce
<1>14. AccessedControl' /\ SharedReadOnly' /\ WriterControl'
  BY <1>0, <1>1, <1>2, VisibilityAssumption
  DEF AccessedControl, SharedReadOnly, WriterControl, Shared, Threads
<1>15. RejectionSeesWork'
  BY <1>0, <1>1, <1>2 DEF RejectionSeesWork, StoredUpTo, Threads
<1> QED
  BY <1>9, <1>10, <1>11, <1>12, <1>13, <1>14, <1>15

\* The check under the guard can only read the latest store.
LEMMA SecondCheckInv ==
  ASSUME VisibilityInv, NEW t \in Threads, SecondCheck(t), TypeOK'
  PROVE  VisibilityInv'
<1> USE DEF VisibilityInv
<1>0. UNCHANGED <<stores, lockView, readView, accessed>> /\ pc[t] = "second" /\ Locked(t)
  BY DEF SecondCheck, Locked, InLock
<1>1. view[t].store = Len(stores) /\ Len(stores) \in Nat
  BY <1>0, TypeParts, LenProperties DEF OwnerKnows
<1>2. PICK open \in BOOLEAN :
        /\ view' = [view EXCEPT ![t] = ViewAfter(t, Len(stores))]
        /\ ViewAfter(t, Len(stores)).store = Len(stores)
        /\ view[t].data \subseteq ViewAfter(t, Len(stores)).data
        /\ stores[Len(stores)].open = open
        /\ pc' = [pc EXCEPT ![t] = IF open THEN "task" ELSE "refuse"]
  <2>1. PICK verdict \in BOOLEAN :
          Load(t, verdict) /\ Goto(t, IF verdict THEN "task" ELSE "refuse")
    BY DEF SecondCheck
  <2>2. PICK k \in view[t].store .. Len(stores) :
          /\ stores[k].open = verdict
          /\ view' = [view EXCEPT ![t] = ViewAfter(t, k)]
          /\ ViewAfter(t, k).store = k
          /\ view[t].data \subseteq ViewAfter(t, k).data
    BY <2>1, LoadEffect
  <2>3. k = Len(stores)
    BY <1>1
  <2> QED
    BY <2>1, <2>2, <2>3 DEF Goto
<1>3. \A u \in Threads : u # t => pc'[u] = pc[u] /\ view'[u] = view[u]
  BY <1>2, TypeParts
<1>4. pc'[t] = (IF open THEN "task" ELSE "refuse") /\ view'[t] = ViewAfter(t, Len(stores))
  BY <1>2, TypeParts
<1>5. \A u \in Threads : Locked(u)' <=> Locked(u)
  BY <1>0, <1>3, <1>4 DEF Locked, InLock
<1>6. OwnersCompatible' /\ LockKnows'
  BY <1>0, <1>5, TypeParts DEF OwnersCompatible, LockKnows
<1>7. ViewsInRange'
  BY <1>0, <1>1, <1>2, <1>3, <1>4 DEF ViewsInRange
<1>8. OwnerKnows'
  BY <1>0, <1>2, <1>3, <1>4, <1>5 DEF OwnerKnows, Conflict
<1>9. StoresCarryWork' /\ OpeningsConsumedOnce'
  BY <1>0 DEF StoresCarryWork, StoredUpTo, OpeningsConsumedOnce
<1>10. AccessedControl' /\ SharedReadOnly' /\ WriterControl'
  BY <1>0, <1>3, <1>4, VisibilityAssumption
  DEF AccessedControl, SharedReadOnly, WriterControl, Shared, Threads
<1>11. RejectionSeesWork'
  BY <1>0, <1>3, <1>4 DEF RejectionSeesWork, StoredUpTo, Threads
<1> QED
  BY <1>6, <1>7, <1>8, <1>9, <1>10, <1>11

\* Two owners that touch the data are both shared and do not conflict.
LEMMA RunTaskInv ==
  ASSUME VisibilityInv, NEW t \in Threads, RunTask(t), TypeOK'
  PROVE  VisibilityInv'
<1> USE DEF VisibilityInv
<1>0. /\ UNCHANGED <<stores, lockView, readView>>
      /\ pc[t] = "task" /\ Locked(t)
      /\ accessed' = accessed \cup {t}
      /\ view' = [view EXCEPT ![t] = [store |-> @.store, data |-> @.data \cup {t}]]
  BY DEF RunTask, Access, Locked, InLock
<1>1. PICK l \in {"close", "release"} :
        pc' = [pc EXCEPT ![t] = l] /\ (t \in Shared => l = "release")
  BY DEF RunTask, Goto
<1>2. \A u \in Threads : u # t => pc'[u] = pc[u] /\ view'[u] = view[u]
  BY <1>0, <1>1, TypeParts
<1>3. /\ pc'[t] = l
      /\ view'[t].store = view[t].store /\ view'[t].data = view[t].data \cup {t}
  BY <1>0, <1>1, TypeParts
<1>4. \A u \in Threads : Locked(u)' <=> Locked(u)
  BY <1>0, <1>1, <1>2, <1>3 DEF Locked, InLock
<1>5. OwnersCompatible'
  BY <1>4 DEF OwnersCompatible
<1>6. ViewsInRange'
  BY <1>0, <1>2, <1>3 DEF ViewsInRange
<1>7. LockKnows'
  BY <1>0, <1>4, TypeParts DEF LockKnows
<1>8. OwnerKnows'
  <2> SUFFICES ASSUME NEW u \in Threads, Locked(u)
               PROVE  /\ view'[u].store = Len(stores)
                      /\ \A v \in accessed' : Conflict(u, v) => v \in view'[u].data
                      /\ pc'[u] \in {"close", "release"} => u \in view'[u].data
                      /\ u \in Callers /\ pc'[u] \in {"task", "close"} => stores[Len(stores)].open
    BY <1>0, <1>4 DEF OwnerKnows, Conflict
  <2>1. CASE u # t
    <3>1. ~Conflict(u, t)
      BY <2>1, <1>0 DEF OwnersCompatible, Conflict
    <3> QED
      BY <2>1, <3>1, <1>0, <1>2 DEF OwnerKnows
  <2>2. CASE u = t
    BY <2>2, <1>0, <1>1, <1>3 DEF OwnerKnows, Conflict
  <2> QED
    BY <2>1, <2>2
<1>9. StoresCarryWork' /\ OpeningsConsumedOnce'
  BY <1>0 DEF StoresCarryWork, StoredUpTo, OpeningsConsumedOnce
<1>10. AccessedControl' /\ SharedReadOnly' /\ WriterControl'
  BY <1>0, <1>1, <1>2, <1>3 DEF AccessedControl, SharedReadOnly, WriterControl, Shared, Threads
<1>11. RejectionSeesWork'
  BY <1>0, <1>1, <1>2, <1>3 DEF RejectionSeesWork, StoredUpTo, Threads
<1> QED
  BY <1>5, <1>6, <1>7, <1>8, <1>9, <1>10, <1>11

\* The only owner appends a store that carries all the work before it.
LEMMA StoreGateInv ==
  ASSUME VisibilityInv, NEW t \in Threads, StoreGate(t), TypeOK'
  PROVE  VisibilityInv'
<1> USE DEF VisibilityInv
<1>1. PICK open \in BOOLEAN : (t \in Callers => ~open) /\ Store(t, open)
  BY DEF StoreGate
<1> DEFINE n == Len(stores)
           carried == IF t \in Releasing THEN view[t].data ELSE {}
<1>2. /\ UNCHANGED <<lockView, readView, accessed>>
      /\ pc[t] = "close" /\ Locked(t) /\ t \notin Shared
      /\ stores' = Append(stores, [open |-> open, by |-> t, data |-> carried])
      /\ view' = [view EXCEPT ![t] = [store |-> n + 1, data |-> @.data]]
      /\ pc' = [pc EXCEPT ![t] = "release"]
  BY <1>1 DEF StoreGate, Store, Goto, Locked, InLock, SharedReadOnly
<1>3. /\ n \in Nat /\ Len(stores') = n + 1
      /\ \A k \in 1 .. n : stores'[k] = stores[k]
      /\ stores'[n + 1] = [open |-> open, by |-> t, data |-> carried]
  BY <1>2, TypeParts
<1>4. \A u \in Threads : u # t => pc'[u] = pc[u] /\ view'[u] = view[u]
  BY <1>2, TypeParts
<1>5. pc'[t] = "release" /\ view'[t].store = n + 1 /\ view'[t].data = view[t].data
  BY <1>2, TypeParts
<1>6. \A u \in Threads : (Locked(u)' <=> Locked(u)) /\ (Locked(u) => u = t)
  BY <1>2, <1>4, <1>5 DEF Locked, InLock, OwnersCompatible
<1> HIDE DEF n, carried
<1>7. t \in accessed
  BY <1>2 DEF AccessedControl
<1>8. \A k \in 1 .. n : StoredUpTo(k)' = StoredUpTo(k)
  BY <1>3 DEF StoredUpTo
<1>9. OwnersCompatible'
  BY <1>6 DEF OwnersCompatible
<1>10. ViewsInRange'
  BY <1>3, <1>4, <1>5 DEF ViewsInRange, n
<1>11. OwnerKnows'
  <2>1. pc'[t] = "release" /\ t \in view[t].data /\ \A v \in accessed : Conflict(t, v) => v \in view[t].data
    BY <1>2, <1>5 DEF OwnerKnows
  <2> QED
    BY <2>1, <1>2, <1>3, <1>5, <1>6 DEF OwnerKnows, Conflict
<1>12. LockKnows'
  BY <1>2, <1>3, <1>6, TypeParts DEF LockKnows, n
<1>13. StoresCarryWork'
  <2>1. \A k \in 1 .. n + 1 :
          stores'[k].by # None => stores'[k].by \in accessed' \ Shared
    BY <1>2, <1>3, <1>7 DEF StoresCarryWork, n
  <2>2. ASSUME NEW k \in 1 .. n + 1, stores'[k].by \in Releasing
        PROVE  StoredUpTo(k)' \subseteq stores'[k].data
    <3>1. CASE k \in 1 .. n
      BY <2>2, <3>1, <1>3, <1>8 DEF StoresCarryWork, n
    <3>2. CASE k = n + 1
      <4>1. t \in Releasing /\ stores'[k].data = view[t].data
        BY <2>2, <3>2, <1>3 DEF carried
      <4>2. \A j \in 1 .. n : stores[j].by # None => stores[j].by \in view[t].data
        BY <1>2 DEF OwnerKnows, StoresCarryWork, Conflict, n
      <4>3. t \in view[t].data
        BY <1>2 DEF OwnerKnows
      <4> QED
        BY <4>1, <4>2, <4>3, <3>2, <1>3 DEF StoredUpTo
    <3> QED
      BY <3>1, <3>2, <1>3
  <2> QED
    BY <2>1, <2>2, <1>3 DEF StoresCarryWork
<1>14. OpeningsConsumedOnce'
  <2>1. t \in Callers => stores[n].open
    BY <1>2 DEF OwnerKnows, n
  <2> QED
    BY <2>1, <1>3 DEF OpeningsConsumedOnce, n
<1>15. AccessedControl' /\ SharedReadOnly' /\ WriterControl'
  BY <1>2, <1>4, <1>5 DEF AccessedControl, SharedReadOnly, WriterControl, Shared, Threads
<1>16. RejectionSeesWork'
  <2> SUFFICES ASSUME NEW i \in Callers,
                      \/ pc'[i] = "refused"
                      \/ /\ pc'[i] = "rejected" /\ i \in Acquiring
                         /\ stores'[view'[i].store].by \in Releasing
               PROVE  (StoredUpTo(view[i].store) \subseteq view[i].data)'
    BY DEF RejectionSeesWork
  <2>1. i \in Threads /\ i # t
    BY <1>5 DEF Threads
  <2>2. view'[i] = view[i] /\ pc'[i] = pc[i] /\ view[i].store \in 1 .. n
    BY <2>1, <1>4 DEF ViewsInRange, n
  <2>3. StoredUpTo(view[i].store) \subseteq view[i].data
    BY <2>2, <1>3 DEF RejectionSeesWork
  <2>4. StoredUpTo(view[i].store)' = StoredUpTo(view[i].store)
    BY <2>2, <1>3 DEF StoredUpTo
  <2> QED
    BY <2>2, <2>3, <2>4
<1> QED
  BY <1>9, <1>10, <1>11, <1>12, <1>13, <1>14, <1>15, <1>16

\* What the owner knows becomes what the lock knows.
LEMMA ReleaseLockInv ==
  ASSUME VisibilityInv, NEW t \in Threads, ReleaseLock(t), TypeOK'
  PROVE  VisibilityInv'
<1> USE DEF VisibilityInv
<1>1. /\ UNCHANGED <<stores, view, accessed>>
      /\ pc[t] \in {"refuse", "release"} /\ Locked(t) /\ Publish(t)
      /\ pc' = [pc EXCEPT ![t] = IF pc[t] = "refuse" THEN "refused" ELSE "done"]
  BY DEF ReleaseLock, Goto, Locked, InLock
<1>2. \A u \in Threads : u # t => pc'[u] = pc[u]
  BY <1>1, TypeParts
<1>3. pc'[t] = IF pc[t] = "refuse" THEN "refused" ELSE "done"
  BY <1>1, TypeParts
<1>4. /\ ~Locked(t)'
      /\ \A u \in Threads : u # t => (Locked(u)' <=> Locked(u))
  BY <1>2, <1>3 DEF Locked, InLock
<1>5. /\ view[t] \in ViewType /\ lockView \in ViewType /\ readView \in ViewType
      /\ Len(stores) \in Nat /\ view[t].store = Len(stores)
  BY <1>1, TypeParts, LenProperties DEF OwnerKnows
<1>6. IF t \in Shared
        THEN /\ readView'.store = Len(stores) /\ readView'.data = readView.data \cup view[t].data
             /\ lockView' = lockView
        ELSE /\ lockView'.store = Len(stores) /\ lockView'.data = lockView.data \cup view[t].data
             /\ readView' = readView
  <2>1. lockView.store <= Len(stores) /\ readView.store <= Len(stores)
    BY DEF LockKnows
  <2> QED
    BY <2>1, <1>1, <1>5 DEF Publish, Join, ViewType
<1>7. pc[t] = "release" => t \in view[t].data
  BY <1>1 DEF OwnerKnows
<1>8. OwnersCompatible' /\ ViewsInRange'
  BY <1>1, <1>4 DEF OwnersCompatible, ViewsInRange
<1>9. OwnerKnows'
  BY <1>1, <1>2, <1>4 DEF OwnerKnows, Conflict
<1>10. LockKnows'
  <2>1. lockView'.store \in 1 .. Len(stores) /\ readView'.store \in 1 .. Len(stores)
    BY <1>5, <1>6, TypeParts DEF LockKnows
  <2>2. (\A u \in Threads : Locked(u)' => u \in Shared) => lockView'.store = Len(stores)
    BY <1>4, <1>6 DEF LockKnows
  <2>3. ASSUME NEW u \in accessed, ~Locked(u)'
        PROVE  u \in (IF u \in Shared THEN readView'.data ELSE lockView'.data)
    <3>1. CASE u = t
      BY <3>1, <1>1, <1>6, <1>7 DEF AccessedControl
    <3>2. CASE u # t
      BY <2>3, <3>2, <1>4, <1>6, TypeParts DEF LockKnows
    <3> QED
      BY <3>1, <3>2
  <2> QED
    BY <2>1, <2>2, <2>3, <1>1 DEF LockKnows
<1>11. StoresCarryWork' /\ OpeningsConsumedOnce'
  BY <1>1 DEF StoresCarryWork, StoredUpTo, OpeningsConsumedOnce
<1>12. AccessedControl' /\ SharedReadOnly' /\ WriterControl'
  BY <1>1, <1>2, <1>3 DEF AccessedControl, SharedReadOnly, WriterControl, Shared, Threads
<1>13. RejectionSeesWork'
  <2> SUFFICES ASSUME NEW i \in Callers,
                      \/ pc'[i] = "refused"
                      \/ pc'[i] = "rejected" /\ i \in Acquiring /\ stores[view[i].store].by \in Releasing
               PROVE  StoredUpTo(view[i].store) \subseteq view[i].data
    BY <1>1 DEF RejectionSeesWork, StoredUpTo
  <2>1. CASE i # t
    BY <2>1, <1>2 DEF RejectionSeesWork, Threads
  <2>2. CASE i = t
    <3>1. t \notin accessed
      BY <2>2, <1>1, <1>3 DEF AccessedControl
    <3>2. \A j \in 1 .. Len(stores) : stores[j].by # None => stores[j].by \in view[t].data
      BY <3>1, <1>1 DEF OwnerKnows, StoresCarryWork, Conflict
    <3> QED
      BY <2>2, <3>2, <1>5 DEF StoredUpTo
  <2> QED
    BY <2>1, <2>2
<1> QED
  BY <1>8, <1>9, <1>10, <1>11, <1>12, <1>13

LEMMA NextVisibilityInv == VisibilityInv /\ [Next]_vars => VisibilityInv'
<1> SUFFICES ASSUME VisibilityInv, [Next]_vars PROVE VisibilityInv'
  OBVIOUS
<1>1. ASSUME NEW t \in Threads, Step(t) PROVE VisibilityInv'
  <2>1. TypeOK'
    BY <1>1, StepType DEF VisibilityInv
  <2> QED
    BY <1>1, <2>1, FirstCheckInv, AcquireLockInv, SecondCheckInv, RunTaskInv, StoreGateInv,
       ReleaseLockInv DEF Step
<1>2. CASE UNCHANGED vars
  BY <1>2 DEF vars, VisibilityInv, TypeOK, OwnersCompatible, ViewsInRange, OwnerKnows, LockKnows,
     StoresCarryWork, AccessedControl, SharedReadOnly, WriterControl, OpeningsConsumedOnce,
     RejectionSeesWork, StoredUpTo, Locked, Conflict
<1> QED
  BY <1>1, <1>2 DEF Next

THEOREM VisibilityInvariant == Spec => []VisibilityInv
BY InitVisibilityInv, NextVisibilityInv, PTL DEF Spec

(***************************************************************************)
(* Theorems.                                                               *)
(***************************************************************************)

\* Views, stores and control points stay well typed, and a shared call never stores.
THEOREM TypeCorrect == Spec => []TypeOK
BY VisibilityInvariant, PTL DEF VisibilityInv

\* The second check reads the latest store and no store overtakes its call until
\* the release, with any mixture of relaxed and acquiring predicates.
THEOREM LatestUnderGuard == Spec => []SecondCheckSeesLatest
<1>1. VisibilityInv => SecondCheckSeesLatest
  BY DEF VisibilityInv, SecondCheckSeesLatest, OwnerKnows, Locked, Threads
<1> QED
  BY <1>1, VisibilityInvariant, PTL

\* No opening of the gate is consumed twice, however stale the first checks are.
THEOREM ConsumedOnce == Spec => []OpeningsConsumedOnce
BY VisibilityInvariant, PTL DEF VisibilityInv

\* A rejected call knows the work behind the closed gate it has seen.
THEOREM RejectionInformed == Spec => []RejectionSeesWork
BY VisibilityInvariant, PTL DEF VisibilityInv

\* Accesses of tasks and writers are ordered by the lock alone.
THEOREM RaceFree == Spec => NoDataRace
<1> DEFINE A == \A t \in accessed' \ accessed : \A u \in accessed :
                  Conflict(t, u) => u \in view[t].data
<1>1. VisibilityInv /\ [Next]_vars => [A]_vars
  <2> SUFFICES ASSUME VisibilityInv, [Next]_vars, NEW t \in accessed' \ accessed,
                      NEW u \in accessed, Conflict(t, u)
               PROVE  u \in view[t].data
    OBVIOUS
  <2>1. PICK s \in Threads : Step(s)
    BY DEF Next, vars
  <2>2. s = t /\ pc[s] = "task"
    BY <2>1 DEF Step, FirstCheck, AcquireLock, SecondCheck, RunTask, Access, StoreGate, ReleaseLock
  <2> QED
    BY <2>1, <2>2 DEF VisibilityInv, OwnerKnows, Locked, InLock
<1> QED
  BY <1>1, VisibilityInvariant, PTL DEF Spec, NoDataRace

(***************************************************************************)
(* The refinement of GatedWork.                                            *)
(***************************************************************************)

Status == [i \in Callers |-> WorkStatus(i)]

\* A step that stores nothing moves the status of its own call only.
LEMMA StatusOneCall ==
  ASSUME VisibilityInv, NEW t \in Threads, UNCHANGED stores,
         \A u \in Threads : u # t => pc'[u] = pc[u]
  PROVE  /\ UNCHANGED LatestStore.open
         /\ t \in Callers => Status' = [Status EXCEPT ![t] = WorkStatus(t)']
         /\ t \notin Callers => UNCHANGED Status
<1>1. \A i \in Callers : i # t => WorkStatus(i)' = WorkStatus(i)
  BY DEF WorkStatus, LatestStore, Threads
<1> QED
  BY <1>1 DEF Status, LatestStore

\* ... and is a stutter if that call is as far as it was.
LEMMA SameStatus ==
  ASSUME NEW t \in Threads, UNCHANGED LatestStore.open,
         t \in Callers => Status' = [Status EXCEPT ![t] = WorkStatus(t)'],
         t \notin Callers => UNCHANGED Status,
         t \in Callers => WorkStatus(t)' = WorkStatus(t)
  PROVE  UNCHANGED Work!vars
BY DEF Work!vars, Status

\* The calls whose task is running own the lock.
LEMMA ActiveOwns ==
  ASSUME NEW j \in Callers, WorkStatus(j) \in {"running", "closed"}
  PROVE  pc[j] \in {"task", "close", "release"} /\ Locked(j)
BY DEF WorkStatus, Locked, InLock

\* The latest store is a store, and it is not one of a call that has yet to
\* touch the data.
LEMMA LatestStoreBy ==
  ASSUME VisibilityInv, NEW t \in Threads
  PROVE  /\ Len(stores) \in 1 .. Len(stores) /\ LatestStore \in StoreType
         /\ pc[t] \notin {"close", "release", "done"} => LatestStore.by # t
<1>1. Len(stores) \in 1 .. Len(stores) /\ LatestStore \in StoreType
  BY TypeParts, LenProperties, ElementOfSeq DEF VisibilityInv, LatestStore
<1>2. LatestStore.by # None => LatestStore.by \in accessed
  BY <1>1 DEF VisibilityInv, StoresCarryWork, LatestStore
<1> QED
  BY <1>1, <1>2, VisibilityAssumption DEF VisibilityInv, AccessedControl

\* Steps of the lock-free check and of the lock decide nothing.
LEMMA BeforeTaskRefines ==
  ASSUME VisibilityInv, NEW t \in Threads, FirstCheck(t) \/ AcquireLock(t)
  PROVE  t \in Callers => UNCHANGED Work!vars
<1> SUFFICES ASSUME t \in Callers PROVE UNCHANGED Work!vars
  OBVIOUS
<1>1. PICK l \in {"lock", "rejected", "second"} :
        pc[t] \in {"check", "lock"} /\ Goto(t, l) /\ UNCHANGED stores
  BY DEF FirstCheck, AcquireLock
<1>2. pc'[t] = l /\ \A u \in Threads : u # t => pc'[u] = pc[u]
  BY <1>1, TypeParts DEF Goto, VisibilityInv
<1>3. WorkStatus(t)' = WorkStatus(t)
  BY <1>1, <1>2 DEF WorkStatus
<1> QED
  BY <1>1, <1>2, <1>3, StatusOneCall, SameStatus

\* Between its steps a writer that stores nothing is nobody's business.
LEMMA WriterStutters ==
  ASSUME VisibilityInv, NEW t \in Threads, t \notin Callers, Step(t), UNCHANGED stores
  PROVE  UNCHANGED Work!vars
<1>1. \A u \in Threads : u # t => pc'[u] = pc[u]
  BY TypeParts DEF VisibilityInv, Step, FirstCheck, AcquireLock, SecondCheck, RunTask, StoreGate,
     ReleaseLock, Goto
<1> QED
  BY <1>1, StatusOneCall, SameStatus

\* The second check decides the call by the latest store and alone under the
\* lock, or next to shared owners.
LEMMA SecondCheckRefines ==
  ASSUME VisibilityInv, NEW t \in Callers, SecondCheck(t)
  PROVE  Work!Start(t) \/ Work!Skip(t)
<1>0. t \in Threads /\ pc[t] = "second" /\ Locked(t) /\ UNCHANGED stores
  BY DEF SecondCheck, Threads, Locked, InLock
<1>1. PICK verdict \in BOOLEAN : Load(t, verdict) /\ Goto(t, IF verdict THEN "task" ELSE "refuse")
  BY DEF SecondCheck
<1>2. LatestStore.open = verdict
  <2>1. PICK k \in view[t].store .. Len(stores) : stores[k].open = verdict
    BY <1>1 DEF Load
  <2>2. view[t].store = Len(stores) /\ Len(stores) \in Nat
    BY <1>0, TypeParts, LenProperties DEF VisibilityInv, OwnerKnows
  <2> QED
    BY <2>1, <2>2 DEF LatestStore
<1>3. /\ pc'[t] = IF verdict THEN "task" ELSE "refuse"
      /\ \A u \in Threads : u # t => pc'[u] = pc[u]
  BY <1>0, <1>1, TypeParts DEF Goto, VisibilityInv
<1>4. WorkStatus(t) = "pending" /\ WorkStatus(t)' = IF verdict THEN "running" ELSE "skipped"
  BY <1>0, <1>3 DEF WorkStatus
<1>5. UNCHANGED LatestStore.open /\ Status' = [Status EXCEPT ![t] = WorkStatus(t)']
  BY <1>0, <1>3, StatusOneCall
<1>6. ASSUME NEW j \in Callers, WorkStatus(j) \in {"running", "closed"}
      PROVE  t \notin Exclusive /\ j \notin Exclusive
  <2>1. Locked(j) /\ j # t /\ j \in Threads
    BY <1>6, <1>0, ActiveOwns DEF Threads
  <2> QED
    BY <2>1, <1>0 DEF VisibilityInv, OwnersCompatible, Shared
<1> QED
  BY <1>2, <1>4, <1>5, <1>6 DEF Work!Start, Work!Skip, Work!Become, Work!Active, Status

\* The task stays the running one while it touches the data.
LEMMA RunTaskRefines ==
  ASSUME VisibilityInv, NEW t \in Callers, RunTask(t)
  PROVE  UNCHANGED Work!vars
<1>0. t \in Threads /\ pc[t] = "task" /\ UNCHANGED stores
  BY DEF RunTask, Threads
<1>1. PICK l \in {"close", "release"} : Goto(t, l)
  BY DEF RunTask
<1>2. pc'[t] = l /\ \A u \in Threads : u # t => pc'[u] = pc[u]
  BY <1>0, <1>1, TypeParts DEF Goto, VisibilityInv
<1>3. WorkStatus(t)' = WorkStatus(t)
  BY <1>0, <1>2, LatestStoreBy DEF WorkStatus, LatestStore
<1> QED
  BY <1>0, <1>2, <1>3, StatusOneCall, SameStatus

\* A release finishes the task; a refused call was decided before.
LEMMA ReleaseLockRefines ==
  ASSUME VisibilityInv, NEW t \in Callers, ReleaseLock(t)
  PROVE  Work!Finish(t) \/ UNCHANGED Work!vars
<1>0. /\ t \in Threads /\ pc[t] \in {"refuse", "release"} /\ UNCHANGED stores
      /\ Goto(t, IF pc[t] = "refuse" THEN "refused" ELSE "done")
  BY DEF ReleaseLock, Threads
<1>1. /\ pc'[t] = IF pc[t] = "refuse" THEN "refused" ELSE "done"
      /\ \A u \in Threads : u # t => pc'[u] = pc[u]
  BY <1>0, TypeParts DEF Goto, VisibilityInv
<1>2. UNCHANGED LatestStore.open /\ Status' = [Status EXCEPT ![t] = WorkStatus(t)']
  BY <1>0, <1>1, StatusOneCall
<1>3. CASE pc[t] = "refuse"
  <2>1. WorkStatus(t)' = WorkStatus(t)
    BY <1>1, <1>3 DEF WorkStatus
  <2> QED
    BY <1>0, <1>2, <2>1, SameStatus
<1>4. CASE pc[t] = "release"
  <2>1. WorkStatus(t) \in {"running", "closed"} /\ WorkStatus(t)' = "finished"
    BY <1>1, <1>4 DEF WorkStatus
  <2> QED
    BY <1>2, <2>1 DEF Work!Finish, Work!Become, Work!Active, Status
<1> QED
  BY <1>0, <1>3, <1>4

\* A store is its owner's alone: a call closes the open gate of its own task, a
\* writer changes it while no task runs.
LEMMA StoreGateRefines ==
  ASSUME VisibilityInv, NEW t \in Threads, StoreGate(t)
  PROVE  (t \in Callers /\ Work!Close(t)) \/ Work!Change
<1>1. PICK open \in BOOLEAN : (t \in Callers => ~open) /\ Store(t, open)
  BY DEF StoreGate
<1>2. /\ pc[t] = "close" /\ Locked(t) /\ t \notin Shared
      /\ Goto(t, "release")
  BY DEF StoreGate, Locked, InLock, SharedReadOnly, VisibilityInv
<1>3. pc'[t] = "release" /\ \A u \in Threads : u # t => pc'[u] = pc[u]
  BY <1>2, TypeParts DEF Goto, VisibilityInv
<1>4. LatestStore'.open = open /\ LatestStore'.by = t
  BY <1>1, TypeParts DEF Store, LatestStore, VisibilityInv
<1>5. \A u \in Threads : u # t => ~Locked(u)
  BY <1>2 DEF VisibilityInv, OwnersCompatible
<1>6. \A i \in Callers : i # t => pc[i] \notin InLock /\ pc'[i] = pc[i]
  BY <1>3, <1>5 DEF Locked, Threads
<1>7. \A i \in Callers : i # t => WorkStatus(i)' = WorkStatus(i)
  BY <1>6 DEF WorkStatus, InLock
<1>8. CASE t \in Callers
  <2>1. t \in Exclusive /\ WorkStatus(t) = "running" /\ WorkStatus(t)' = "closed"
    BY <1>2, <1>3, <1>4, <1>8 DEF WorkStatus, Shared
  <2>2. LatestStore.open /\ LatestStore'.open = FALSE
    BY <1>1, <1>2, <1>4, <1>8 DEF VisibilityInv, OwnerKnows, LatestStore
  <2>3. Status' = [Status EXCEPT ![t] = "closed"]
    BY <2>1, <1>7, <1>8 DEF Status
  <2> QED
    BY <1>8, <2>1, <2>2, <2>3 DEF Work!Close, Work!Become, Status
<1>9. CASE t \notin Callers
  <2>1. \A j \in Callers : WorkStatus(j) \notin {"running", "closed"}
    BY <1>9, <1>6, ActiveOwns DEF Locked
  <2>2. UNCHANGED Status
    BY <1>7, <1>9 DEF Status
  <2> QED
    BY <2>1, <2>2, <1>4 DEF Work!Change, Work!Active, Status
<1> QED
  BY <1>8, <1>9

LEMMA InitRefines == VisibilityInv /\ Init => Work!Init
<1> SUFFICES ASSUME Init, VisibilityInv PROVE Work!Init
  OBVIOUS
<1>1. \A i \in Callers : WorkStatus(i) = "pending"
  BY DEF Init, WorkStatus, Threads
<1>2. LatestStore.open \in BOOLEAN
  BY DEF Init, LatestStore
<1> QED
  BY <1>1, <1>2 DEF Work!Init

LEMMA NextRefines == VisibilityInv /\ [Next]_vars => [Work!Next]_(Work!vars)
<1> SUFFICES ASSUME VisibilityInv, [Next]_vars PROVE [Work!Next]_(Work!vars)
  OBVIOUS
<1>1. ASSUME NEW t \in Threads, StoreGate(t) PROVE [Work!Next]_(Work!vars)
  BY <1>1, StoreGateRefines DEF Work!Next
<1>2. ASSUME NEW t \in Callers, Step(t), ~StoreGate(t) PROVE [Work!Next]_(Work!vars)
  <2>1. t \in Threads
    BY DEF Threads
  <2> QED
    BY <1>2, <2>1, BeforeTaskRefines, SecondCheckRefines, RunTaskRefines, ReleaseLockRefines
    DEF Step, Work!Next
<1>3. ASSUME NEW t \in Threads, t \notin Callers, Step(t), ~StoreGate(t)
      PROVE  [Work!Next]_(Work!vars)
  <2>1. UNCHANGED stores
    BY <1>3 DEF Step, FirstCheck, AcquireLock, SecondCheck, RunTask, ReleaseLock
  <2> QED
    BY <1>3, <2>1, WriterStutters
<1>4. CASE UNCHANGED vars
  BY <1>4 DEF vars, Work!vars, WorkStatus, LatestStore
<1> QED
  BY <1>1, <1>2, <1>3, <1>4 DEF Next

\* With relaxed accesses and overwritten stores in every lock-free check, the calls
\* still test the gate and run their task as if both were one atomic step on it.
THEOREM Refinement == Spec => ImplementsGatedWork
BY VisibilityInvariant, InitVisibilityInv, InitRefines, NextRefines, PTL
DEF Spec, ImplementsGatedWork, Work!Spec
================================================================================
