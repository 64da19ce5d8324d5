---------------------------- MODULE GateVisibility ----------------------------
(***************************************************************************)
(* What a caller may see of the gate and of the data behind it.            *)
(*                                                                         *)
(* The other modules read the gate as if memory were sequentially          *)
(* consistent.  Here it is an atomic flag with release and acquire or with *)
(* relaxed accesses, and a thread keeps a view: the latest store to the    *)
(* gate it must not overlook, and the accesses to the data that happened   *)
(* before its next step.  A load returns any store that is not older than  *)
(* the view, so a lock-free check may return a value that was overwritten. *)
(*                                                                         *)
(* A thread is one call of DclExecutor::run, or one writer that publishes  *)
(* work under the lock.  Each touches the data at most once, so an access  *)
(* is identified with its thread.  Panics are left to the other modules.   *)
(***************************************************************************)
EXTENDS Naturals, Sequences

CONSTANTS
  Callers,    \* invocations of run
  Writers,    \* threads that publish work under the exclusive lock
  Exclusive,  \* callers whose lock mode is exclusive
  Acquiring,  \* callers whose predicate loads the gate with Acquire
  Releasing   \* threads that store to the gate with Release

Threads == Callers \cup Writers
None    == "None"

ASSUME VisibilityAssumption ==
  /\ Callers \cap Writers = {} /\ None \notin Threads
  /\ Exclusive \subseteq Callers
  /\ Acquiring \subseteq Callers
  /\ Releasing \subseteq Threads

VARIABLES
  stores,    \* modification order of the gate
  view,      \* what every thread knows
  lockView,  \* what owners of the exclusive mode published on release
  readView,  \* what owners of the shared mode published on release
  accessed,  \* threads that accessed the data
  pc         \* control point of every thread

vars == <<stores, view, lockView, readView, accessed, pc>>

NoView     == [store |-> 1, data |-> {}]
Shared     == Callers \ Exclusive
InLock     == {"second", "task", "close", "refuse", "release"}

\* Guards that are dropped too early: `let _ = lock.lock()`, and a guard that
\* ends with the second check.
LockedFromTask    == {t \in Threads : pc[t] \in InLock \ {"second"}}
LockedUntilTask   == {t \in Threads : pc[t] = "second"}

Holders == {t \in Threads : pc[t] \in InLock}

Init ==
  /\ \E open \in BOOLEAN : stores = <<[open |-> open, by |-> None, data |-> {}]>>
  /\ view = [t \in Threads |-> NoView]
  /\ lockView = NoView /\ readView = NoView
  /\ accessed = {}
  /\ pc = [t \in Threads |-> IF t \in Callers THEN "check" ELSE "lock"]

(***************************************************************************)
(* The memory.                                                             *)
(***************************************************************************)

Join(v, w) ==
  [store |-> IF v.store > w.store THEN v.store ELSE w.store, data |-> v.data \cup w.data]

\* The view after reading store k: an acquiring load of what a releasing store
\* wrote takes over what its writer knew.
ViewAfter(i, k) ==
  [store |-> k, data |-> view[i].data \cup (IF i \in Acquiring THEN stores[k].data ELSE {})]

\* A load returns a store the view does not exclude, and with it a verdict.
Load(i, open) ==
  \E k \in view[i].store .. Len(stores) :
    /\ stores[k].open = open
    /\ view' = [view EXCEPT ![i] = ViewAfter(i, k)]

Store(t, open) ==
  /\ stores' = Append(stores, [open |-> open, by |-> t,
                               data |-> IF t \in Releasing THEN view[t].data ELSE {}])
  /\ view' = [view EXCEPT ![t] = [store |-> Len(stores) + 1, data |-> @.data]]

Access(t) ==
  /\ accessed' = accessed \cup {t}
  /\ view' = [view EXCEPT ![t] = [store |-> @.store, data |-> @.data \cup {t}]]

Goto(t, l) == pc' = [pc EXCEPT ![t] = l]

(***************************************************************************)
(* The lock.  A shared owner synchronizes with exclusive ones only.        *)
(***************************************************************************)

Compatible(t) == \A h \in Holders : t \in Shared /\ h \in Shared

Taken(t) ==
  IF t \in Shared THEN Join(view[t], lockView)
                  ELSE Join(view[t], Join(lockView, readView))

AcquireLock(t) ==
  /\ pc[t] = "lock" /\ Compatible(t)
  /\ view' = [view EXCEPT ![t] = Taken(t)]
  /\ Goto(t, IF t \in Callers THEN "second" ELSE "task")
  /\ UNCHANGED <<stores, lockView, readView, accessed>>

Publish(t) ==
  IF t \in Shared THEN readView' = Join(readView, view[t]) /\ UNCHANGED lockView
                  ELSE lockView' = Join(lockView, view[t]) /\ UNCHANGED readView

ReleaseLock(t) ==
  /\ pc[t] \in {"refuse", "release"}
  /\ Publish(t)
  /\ Goto(t, IF pc[t] = "refuse" THEN "refused" ELSE "done")
  /\ UNCHANGED <<stores, view, accessed>>

(***************************************************************************)
(* A call.                                                                 *)
(***************************************************************************)

FirstCheck(i) ==
  /\ i \in Callers /\ pc[i] = "check"
  /\ \/ Load(i, TRUE) /\ Goto(i, "lock")
     \/ Load(i, FALSE) /\ Goto(i, "rejected")
  /\ UNCHANGED <<stores, lockView, readView, accessed>>

\* A second check that reuses the verdict of the first one.
SecondCheckReused(i) ==
  /\ pc[i] = "second" /\ Goto(i, "task")
  /\ UNCHANGED <<stores, view, lockView, readView, accessed>>

SecondCheck(i) ==
  /\ pc[i] = "second"
  /\ \/ Load(i, TRUE) /\ Goto(i, "task")
     \/ Load(i, FALSE) /\ Goto(i, "refuse")
  /\ UNCHANGED <<stores, lockView, readView, accessed>>

\* A task that closes the gate before it touches the data.
ClosesBeforeWork(i) ==
  /\ pc[i] = "task"
  /\ stores' = Append(stores, [open |-> i \notin Callers, by |-> i,
                               data |-> IF i \in Releasing THEN view[i].data ELSE {}])
  /\ view' = [view EXCEPT ![i] = [store |-> Len(stores) + 1, data |-> @.data \cup {i}]]
  /\ accessed' = accessed \cup {i}
  /\ Goto(i, "release")
  /\ UNCHANGED <<lockView, readView>>

\* A task under a shared mode that closes the gate.
AnyTaskCloses(i) ==
  /\ pc[i] = "task"
  /\ Access(i)
  /\ \E l \in {"close", "release"} : Goto(i, l)
  /\ UNCHANGED <<stores, lockView, readView>>

\* A task touches the data, and then stores to the gate if its mode allows it.
RunTask(i) ==
  /\ pc[i] = "task"
  /\ Access(i)
  /\ IF i \in Shared THEN Goto(i, "release") ELSE \E l \in {"close", "release"} : Goto(i, l)
  /\ UNCHANGED <<stores, lockView, readView>>

\* A call closes the gate; a writer stores what it likes.
StoreGate(t) ==
  /\ pc[t] = "close"
  /\ \E open \in BOOLEAN : (t \in Callers => ~open) /\ Store(t, open)
  /\ Goto(t, "release")
  /\ UNCHANGED <<lockView, readView, accessed>>

Step(t) ==
  \/ FirstCheck(t) \/ AcquireLock(t) \/ SecondCheck(t)
  \/ RunTask(t) \/ StoreGate(t) \/ ReleaseLock(t)

Finished == \A t \in Threads : pc[t] \in {"rejected", "refused", "done"}

Next == (\E t \in Threads : Step(t)) \/ (Finished /\ UNCHANGED vars)

Spec == Init /\ [][Next]_vars

(***************************************************************************)
(* Properties.                                                             *)
(***************************************************************************)

\* Typing: views and stores are records over threads and positions, and no
\* shared call stores to the gate.
TypeOK ==
  /\ stores \in Seq([open : BOOLEAN, by : (Threads \ Shared) \cup {None}, data : SUBSET Threads])
  /\ Len(stores) > 0
  /\ view \in [Threads -> [store : Nat, data : SUBSET Threads]]
  /\ lockView \in [store : Nat, data : SUBSET Threads]
  /\ readView \in [store : Nat, data : SUBSET Threads]
  /\ accessed \subseteq Threads
  /\ pc \in [Threads -> InLock \cup {"check", "lock", "rejected", "refused", "done"}]

\* Under the guard no store can be overlooked: from the second check to the
\* release a call knows the latest value of the gate, however its predicate
\* loads it and whatever its first check returned.
SecondCheckSeesLatest ==
  \A i \in Callers : pc[i] \in InLock => view[i].store = Len(stores)

Conflict(t, u) == t # u /\ ~(t \in Shared /\ u \in Shared)

\* The task's accesses do not race: all conflicting ones before it happened
\* before it, even if the gate itself is relaxed.
NoDataRace ==
  [][\A t \in accessed' \ accessed : \A u \in accessed :
       Conflict(t, u) => u \in view[t].data]_vars

\* A call closes an opening and never a gate that was closed already: however
\* stale the first checks are, no opening is consumed twice.
OpeningsConsumedOnce ==
  \A k \in 2 .. Len(stores) : stores[k].by \in Callers => stores[k - 1].open

\* The threads that stored to the gate up to position k.
StoredUpTo(k) == {stores[j].by : j \in 1 .. k} \ {None}

\* A call that is refused under the lock knows the work behind every store to
\* the gate; one that is rejected by the lock-free check knows it up to the store
\* it has read, provided that store is a release and its predicate acquires.
RejectionSeesWork ==
  \A i \in Callers :
    \/ pc[i] = "refused"
    \/ pc[i] = "rejected" /\ i \in Acquiring /\ stores[view[i].store].by \in Releasing
    => StoredUpTo(view[i].store) \subseteq view[i].data

(***************************************************************************)
(* The promise of double-checked execution, kept by weak memory.           *)
(***************************************************************************)

LatestStore == stores[Len(stores)]

\* How far a call has come.  A lock-free rejection may rest on an overwritten
\* store, so it decides nothing about the latest one.
WorkStatus(i) ==
  CASE pc[i] \in {"task", "close"}     -> "running"
    [] pc[i] = "release"               -> IF LatestStore.by = i THEN "closed" ELSE "running"
    [] pc[i] = "done"                  -> "finished"
    [] pc[i] \in {"refuse", "refused"} -> "skipped"
    [] OTHER                           -> "pending"

Work == INSTANCE GatedWork WITH
  Calls     <- Callers,
  Exclusive <- Exclusive,
  open      <- LatestStore.open,
  status    <- [i \in Callers |-> WorkStatus(i)]

\* Although every load may return an overwritten store, testing the gate under
\* the lock and running the task act on the latest one as an atomic step.
ImplementsGatedWork == Work!Spec
================================================================================
