---------------------------- MODULE DclCoreProofs ----------------------------
(***************************************************************************)
(* The inductive invariant of the double-checked locking core, and the     *)
(* proofs that its locked phase and the writers outside preserve it.  Both *)
(* executors add their own steps to these lemmas.                          *)
(***************************************************************************)
EXTENDS DclCore, Naturals, TLAPS

(***************************************************************************)
(* The invariant.                                                          *)
(***************************************************************************)

\* Control points at which the call's stack holds the guard, and those at
\* which no guard of the call can be alive.
GuardAlive == {"second", "task", "closed", "release", "unwindGuard"}
GuardGone  == {"check", "lock", "skip", "cleanup", "unwindCall"}

\* Who owns the lock, and what the owner of a running task knows of the gate.
GuardInv ==
  /\ \A i \in Calls : pc[i] \in GuardAlive => i \in holders
  /\ \A i \in Calls : pc[i] \in GuardGone => i \notin holders
  /\ \A i \in Calls : pc[i] = "unwindTask" => i \notin holders \/ first[i] = "LockRelease"
  /\ \A u \in Updaters : ext[u] = "holding" => u \in holders
  /\ \A a, b \in holders : a # b => a \in Calls \ Exclusive /\ b \in Calls \ Exclusive
  /\ NoStaleTask

\* The phase in the cell of a capturing call names the control point it is at.
PhaseAt(i) ==
  /\ pc[i] = "lock" => phase[i] = "LockAcquisition"
  /\ pc[i] = "second" => phase[i] = "SecondConditionCheck"
  /\ pc[i] \in {"task", "closed"} => phase[i] = "Task"
  /\ pc[i] = "release" => phase[i] = "LockRelease"
  /\ pc[i] = "cleanup" => phase[i] = "TaskCleanup"
  /\ pc[i] \in {"unwindGuard", "unwindTask"} => phase[i] = first[i]

\* No panic yet, and the task as the closure of execute_locked left it.
Quiet(i) == first[i] = None /\ payload[i] = None /\ info[i] = None
Untouched(i) == Quiet(i) /\ task[i] = "owned" /\ locked[i] = None
Rejected(i) == Quiet(i) /\ task[i] = "owned" /\ locked[i] = "ConditionNotMet"
Returned(i) == Quiet(i) /\ task[i] \in {"Ok", "Err"} /\ locked[i] = task[i]

\* A panic is unwinding: it is the first of the call and not captured yet.
Unwinding(i) ==
  /\ first[i] # None /\ payload[i] = first[i]
  /\ info[i] = None

LockedPanics == {"LockAcquisition", "SecondConditionCheck", "Task", "LockRelease", "TaskCleanup"}

\* What the locals of the locked phase hold at each of its control points.
LocalsAt(i) ==
  /\ pc[i] \in {"check", "lock", "second", "task", "closed"} => Untouched(i)
  /\ pc[i] = "release" => Rejected(i) \/ Returned(i)
  /\ pc[i] = "cleanup" => Rejected(i)
  /\ pc[i] = "unwindGuard" =>
       /\ Unwinding(i) /\ first[i] \in {"SecondConditionCheck", "Task"}
       /\ task[i] = IF first[i] = "Task" THEN "Panic" ELSE "owned"
  /\ pc[i] = "unwindTask" =>
       /\ Unwinding(i) /\ first[i] \in LockedPanics
       /\ task[i] = "owned" => first[i] # "TaskCleanup"
  /\ pc[i] = "out" =>
       \/ Quiet(i) /\ locked[i] = "ConditionNotMet" /\ task[i] = "dropped"
       \/ Returned(i)
       \/ /\ locked[i] = "Panicked"
          /\ first[i] \in LockedPanics /\ payload[i] = first[i]
          /\ i \in Caught => info[i] = first[i]

CallInv == \A i \in Calls : (i \in Caught => PhaseAt(i)) /\ LocalsAt(i)

CoreInv == GuardInv /\ CallInv /\ UnwoundGuardPoisons

(***************************************************************************)
(* The locked phase preserves it.                                          *)
(***************************************************************************)

LockedNames == LockedControl \cup {"abort"}

\* A step of the locked phase keeps every variable in its type.
LEMMA LockedStepTypeOK ==
  ASSUME NEW controls, LockedNames \subseteq controls, CoreTypeOK(controls),
         NEW i \in Calls, LockedStep(i)
  PROVE  CoreTypeOK(controls)'
<1> USE CoreAssumption DEF CoreTypeOK, LockedNames, LockedControl, Phases, Ran, None, shared,
        Goto, SetPhase, Raise, NotePanic
<1>1. CASE AcquireLock(i)
  BY <1>1 DEF AcquireLock
<1>2. CASE LockPanics(i)
  BY <1>2 DEF LockPanics
<1>3. CASE SecondCheck(i) \/ SecondReject(i) \/ SecondPanics(i)
  BY <1>3 DEF SecondCheck, SecondReject, SecondPanics
<1>4. CASE TaskCloses(i)
  <2>1. gate' \in BOOLEAN
    BY <1>4, Zenon DEF TaskCloses
  <2> QED
    BY <1>4, <2>1 DEF TaskCloses
<1>5. CASE TaskPanics(i) \/ \E r \in {"Ok", "Err"} : TaskReturns(i, r)
  BY <1>5 DEF TaskPanics, TaskReturns
<1>6. CASE ReleaseGuard(i) \/ ReleasePanics(i)
  BY <1>6 DEF ReleaseGuard, ReleasePanics, AfterRelease, Poisons
<1>7. CASE DropRejected(i) \/ DropRejectedPanics(i)
  BY <1>7 DEF DropRejected, DropRejectedPanics
<1>8. CASE UnwindGuard(i) \/ UnwindTask(i) \/ DoublePanic(i)
  BY <1>8 DEF UnwindGuard, UnwindTask, DoublePanic, Poisons
<1> QED
  BY <1>1, <1>2, <1>3, <1>4, <1>5, <1>6, <1>7, <1>8 DEF LockedStep

\* A step of one call leaves the variables of every other call alone.
LEMMA LockedStepIsLocal ==
  ASSUME NEW controls, CoreTypeOK(controls),
         NEW i \in Calls, LockedStep(i), NEW j \in Calls, j # i
  PROVE  /\ pc'[j] = pc[j] /\ phase'[j] = phase[j] /\ task'[j] = task[j]
         /\ payload'[j] = payload[j] /\ info'[j] = info[j]
         /\ locked'[j] = locked[j] /\ first'[j] = first[j]
         /\ (j \in holders' <=> j \in holders)
<1> USE DEF CoreTypeOK, shared, Goto, SetPhase, Raise, NotePanic
<1>1. CASE AcquireLock(i) \/ LockPanics(i)
  BY <1>1 DEF AcquireLock, LockPanics
<1>2. CASE SecondCheck(i) \/ SecondReject(i) \/ SecondPanics(i)
  BY <1>2 DEF SecondCheck, SecondReject, SecondPanics
<1>3. CASE TaskCloses(i) \/ TaskPanics(i) \/ \E r \in {"Ok", "Err"} : TaskReturns(i, r)
  BY <1>3 DEF TaskCloses, TaskPanics, TaskReturns
<1>4. CASE ReleaseGuard(i) \/ ReleasePanics(i)
  BY <1>4 DEF ReleaseGuard, ReleasePanics, AfterRelease
<1>5. CASE DropRejected(i) \/ DropRejectedPanics(i)
  BY <1>5 DEF DropRejected, DropRejectedPanics
<1>6. CASE UnwindGuard(i) \/ UnwindTask(i) \/ DoublePanic(i)
  BY <1>6 DEF UnwindGuard, UnwindTask, DoublePanic
<1> QED
  BY <1>1, <1>2, <1>3, <1>4, <1>5, <1>6 DEF LockedStep

\* The locals of a call stay as its control point says.
LEMMA LockedStepCallInv ==
  ASSUME NEW controls, LockedNames \subseteq controls, CoreTypeOK(controls), CallInv,
         NEW i \in Calls, LockedStep(i)
  PROVE  CallInv'
<1> DEFINE At(j) == (j \in Caught => PhaseAt(j)) /\ LocalsAt(j)
<1> SUFFICES ASSUME NEW j \in Calls PROVE At(j)'
  BY DEF CallInv
<1>1. CASE j # i
  <2>1. At(j)
    BY DEF CallInv
  <2> QED
    BY <1>1, <2>1, LockedStepIsLocal
       DEF PhaseAt, LocalsAt, Quiet, Untouched, Rejected, Returned, Unwinding
<1>2. CASE j = i
  <2>1. At(i)
    BY DEF CallInv
  <2> USE <2>1 DEF CoreTypeOK, PhaseAt, LocalsAt, Quiet, Untouched, Rejected, Returned,
        Unwinding, LockedPanics, None, shared, Goto, SetPhase, Raise, NotePanic
  <2> SUFFICES At(i)'
    BY <1>2
  <2>2. CASE AcquireLock(i)
    BY <2>2 DEF AcquireLock
  <2>3. CASE LockPanics(i)
    BY <2>3 DEF LockPanics
  <2>4. CASE SecondCheck(i) \/ SecondReject(i)
    BY <2>4 DEF SecondCheck, SecondReject
  <2>5. CASE SecondPanics(i)
    BY <2>5 DEF SecondPanics
  <2>6. CASE TaskCloses(i)
    BY <2>6 DEF TaskCloses
  <2>7. CASE TaskPanics(i)
    BY <2>7 DEF TaskPanics
  <2>8. CASE \E r \in {"Ok", "Err"} : TaskReturns(i, r)
    BY <2>8 DEF TaskReturns
  <2>9. CASE ReleaseGuard(i)
    BY <2>9 DEF ReleaseGuard, AfterRelease
  <2>10. CASE ReleasePanics(i)
    BY <2>10 DEF ReleasePanics
  <2>11. CASE DropRejected(i)
    BY <2>11 DEF DropRejected
  <2>12. CASE DropRejectedPanics(i)
    BY <2>12 DEF DropRejectedPanics
  <2>13. CASE UnwindGuard(i)
    BY <2>13 DEF UnwindGuard
  <2>14. CASE UnwindTask(i)
    BY <2>14 DEF UnwindTask
  <2>15. CASE DoublePanic(i)
    BY <2>15 DEF DoublePanic
  <2> QED
    BY <2>2, <2>3, <2>4, <2>5, <2>6, <2>7, <2>8, <2>9, <2>10, <2>11, <2>12, <2>13, <2>14, <2>15
       DEF LockedStep
<1> QED
  BY <1>1, <1>2

\* The guard covers the second check and the task, and whoever owns it is the
\* only one who can close the gate.
LEMMA LockedStepGuardInv ==
  ASSUME NEW controls, LockedNames \subseteq controls, CoreTypeOK(controls), GuardInv, CallInv,
         NEW i \in Calls, LockedStep(i)
  PROVE  GuardInv'
<1> USE CoreAssumption DEF CoreTypeOK, GuardInv, NoStaleTask, GuardAlive, GuardGone, None,
      shared, Goto, SetPhase, Raise, NotePanic
<1>1. CASE AcquireLock(i)
  BY <1>1 DEF AcquireLock, Compatible
<1>2. CASE LockPanics(i)
  BY <1>2 DEF LockPanics
<1>3. CASE SecondCheck(i) \/ SecondReject(i)
  BY <1>3 DEF SecondCheck, SecondReject
<1>4. CASE SecondPanics(i)
  BY <1>4 DEF SecondPanics
<1>5. CASE TaskCloses(i)
  BY <1>5 DEF TaskCloses
<1>6. CASE TaskPanics(i)
  BY <1>6 DEF TaskPanics
<1>7. CASE \E r \in {"Ok", "Err"} : TaskReturns(i, r)
  BY <1>7 DEF TaskReturns
<1>8. CASE ReleaseGuard(i)
  BY <1>8 DEF ReleaseGuard, AfterRelease
<1>9. CASE ReleasePanics(i)
  BY <1>9 DEF ReleasePanics, CallInv, LocalsAt, Rejected, Returned, Quiet
<1>10. CASE DropRejected(i)
  BY <1>10 DEF DropRejected
<1>11. CASE DropRejectedPanics(i)
  BY <1>11 DEF DropRejectedPanics
<1>12. CASE UnwindGuard(i)
  BY <1>12 DEF UnwindGuard
<1>13. CASE UnwindTask(i)
  BY <1>13 DEF UnwindTask
<1>14. CASE DoublePanic(i)
  BY <1>14 DEF DoublePanic
<1> QED
  BY <1>1, <1>2, <1>3, <1>4, <1>5, <1>6, <1>7, <1>8, <1>9, <1>10, <1>11, <1>12, <1>13, <1>14
     DEF LockedStep

\* A panic that crossed an exclusive guard left the poison flag set.
LEMMA LockedStepPoisons ==
  ASSUME NEW controls, LockedNames \subseteq controls, CoreTypeOK(controls), CallInv,
         UnwoundGuardPoisons, NEW i \in Calls, LockedStep(i)
  PROVE  UnwoundGuardPoisons'
<1> USE DEF CoreTypeOK, UnwoundGuardPoisons, Poisons, None, shared, Goto, SetPhase, Raise, NotePanic
<1>1. CASE AcquireLock(i) \/ LockPanics(i)
  BY <1>1 DEF AcquireLock, LockPanics
<1>2. CASE SecondCheck(i) \/ SecondReject(i) \/ SecondPanics(i)
  BY <1>2 DEF SecondCheck, SecondReject, SecondPanics
<1>3. CASE TaskCloses(i) \/ TaskPanics(i) \/ \E r \in {"Ok", "Err"} : TaskReturns(i, r)
  BY <1>3 DEF TaskCloses, TaskPanics, TaskReturns
<1>4. CASE ReleaseGuard(i) \/ ReleasePanics(i)
  BY <1>4 DEF ReleaseGuard, ReleasePanics, AfterRelease
<1>5. CASE DropRejected(i) \/ DropRejectedPanics(i)
  BY <1>5 DEF DropRejected, DropRejectedPanics
<1>6. CASE UnwindGuard(i)
  BY <1>6 DEF UnwindGuard
<1>7. CASE UnwindTask(i)
  BY <1>7 DEF UnwindTask
<1>8. CASE DoublePanic(i)
  BY <1>8 DEF DoublePanic
<1> QED
  BY <1>1, <1>2, <1>3, <1>4, <1>5, <1>6, <1>7, <1>8 DEF LockedStep

(***************************************************************************)
(* Writers outside the executor preserve it: they own the lock alone.      *)
(***************************************************************************)

\* A writer changes no call, only the gate and the ownership of the lock.
LEMMA ExternalStepIsLocal ==
  ASSUME NEW u \in Updaters, ExternalStep(u)
  PROVE  UNCHANGED <<poisoned, pc, phase, task, payload, info, locked, first>>
BY DEF ExternalStep, ExternalAcquire, ExternalStore, ExternalGivesUp

LEMMA ExternalStepCoreInv ==
  ASSUME NEW controls, CoreTypeOK(controls), CoreInv, NEW u \in Updaters, ExternalStep(u)
  PROVE  CoreTypeOK(controls)' /\ CoreInv'
<1>1. CallInv'
  BY ExternalStepIsLocal
     DEF CoreInv, CallInv, PhaseAt, LocalsAt, Quiet, Untouched, Rejected, Returned, Unwinding
<1>2. UnwoundGuardPoisons'
  BY ExternalStepIsLocal DEF CoreInv, UnwoundGuardPoisons, Poisons
<1>3. GuardInv'
  <2> USE CoreAssumption DEF CoreTypeOK, CoreInv, GuardInv, NoStaleTask, GuardAlive, GuardGone
  <2>1. CASE ExternalAcquire(u)
    BY <2>1 DEF ExternalAcquire
  <2>2. CASE ExternalStore(u)
    BY <2>2 DEF ExternalStore
  <2>3. CASE ExternalGivesUp(u)
    BY <2>3 DEF ExternalGivesUp
  <2> QED
    BY <2>1, <2>2, <2>3 DEF ExternalStep
<1>4. CoreTypeOK(controls)'
  <2>1. gate' \in BOOLEAN
    BY Zenon DEF CoreTypeOK, ExternalStep, ExternalAcquire, ExternalStore, ExternalGivesUp
  <2>2. holders' \subseteq Calls \cup Updaters /\ ext' \in [Updaters -> {"idle", "holding", "done"}]
    BY DEF CoreTypeOK, ExternalStep, ExternalAcquire, ExternalStore, ExternalGivesUp
  <2> QED
    BY <2>1, <2>2, ExternalStepIsLocal DEF CoreTypeOK
<1> QED
  BY <1>1, <1>2, <1>3, <1>4 DEF CoreInv

(***************************************************************************)
(* What the invariant gives, and the summary the executors cite.           *)
(***************************************************************************)

LEMMA CoreInit_CoreInv == CoreInit => CoreInv
BY DEF CoreInit, CoreInv, GuardInv, GuardAlive, GuardGone, NoStaleTask, CallInv, PhaseAt,
       LocalsAt, Untouched, Quiet, UnwoundGuardPoisons, None

LEMMA LockedStepCoreInv ==
  ASSUME NEW controls, LockedNames \subseteq controls, CoreTypeOK(controls), CoreInv,
         NEW i \in Calls, LockedStep(i)
  PROVE  CoreTypeOK(controls)' /\ CoreInv'
<1>1. CoreTypeOK(controls)'
  BY LockedStepTypeOK
<1>2. CallInv'
  BY LockedStepCallInv DEF CoreInv
<1>3. GuardInv'
  BY LockedStepGuardInv DEF CoreInv
<1>4. UnwoundGuardPoisons'
  BY LockedStepPoisons DEF CoreInv
<1> QED
  BY <1>1, <1>2, <1>3, <1>4 DEF CoreInv

\* Tasks that overlap are shared, and none overlaps an outside owner, because
\* each of them owns the lock.
LEMMA GuardInvSerializes == ASSUME GuardInv PROVE SerializedTasks
BY CoreAssumption DEF GuardInv, SerializedTasks, InTask, GuardAlive

\* A rejected task is dropped where its call's guard is gone.
LEMMA LockedStepDrops ==
  ASSUME NEW controls, CoreTypeOK(controls), CoreInv, NEW i \in Calls, LockedStep(i),
         NEW j \in Calls, task[j] = "owned", task'[j] = "dropped"
  PROVE  j \notin holders \/ first[j] = "LockRelease"
<1>1. j = i
  BY LockedStepIsLocal
<1>2. pc[i] \in {"cleanup", "unwindTask"}
  BY <1>1 DEF CoreTypeOK, shared, LockedStep, AcquireLock, LockPanics, SecondCheck, SecondReject,
     SecondPanics, TaskCloses, TaskPanics, TaskReturns, ReleaseGuard, ReleasePanics,
     DropRejected, DropRejectedPanics, UnwindGuard, UnwindTask, DoublePanic
<1> QED
  BY <1>1, <1>2 DEF CoreInv, GuardInv, GuardGone

(***************************************************************************)
(* Ownership the other way round: whoever owns the lock is in a section    *)
(* that gives it back.                                                     *)
(***************************************************************************)

\* Where a call may own the lock, unless its guard leaked it.  A rollback that
\* reopens the gate owns it too, and an aborted process keeps what it has.
OwningControl == GuardAlive \cup {"reopen", "abort"}

OwnerInv ==
  /\ \A i \in Calls : i \in holders => pc[i] \in OwningControl \/ first[i] = "LockRelease"
  /\ \A u \in Updaters : u \in holders => ext[u] = "holding"

\* The locked phase takes the lock into a section that has a guard, and leaves
\* the section only by dropping the guard.
LEMMA LockedStepOwners ==
  ASSUME NEW controls, CoreTypeOK(controls), CoreInv, OwnerInv, NEW i \in Calls, LockedStep(i)
  PROVE  OwnerInv'
<1>1. ASSUME NEW u \in Updaters, u \in holders' PROVE ext'[u] = "holding"
  <2>1. u \in holders /\ ext' = ext
    BY <1>1, CoreAssumption
       DEF LockedStep, AcquireLock, LockPanics, SecondCheck, SecondReject, SecondPanics, TaskCloses,
           TaskPanics, TaskReturns, ReleaseGuard, ReleasePanics, DropRejected, DropRejectedPanics,
           UnwindGuard, UnwindTask, DoublePanic, shared
  <2> QED
    BY <2>1 DEF OwnerInv
<1>2. ASSUME NEW j \in Calls, j # i, j \in holders'
      PROVE  pc'[j] \in OwningControl \/ first'[j] = "LockRelease"
  BY <1>2, LockedStepIsLocal DEF OwnerInv
<1>3. ASSUME i \in holders' PROVE pc'[i] \in OwningControl \/ first'[i] = "LockRelease"
  <2> USE <1>3 DEF CoreTypeOK, CoreInv, OwnerInv, OwningControl, GuardInv, GuardAlive, GuardGone, None,
        shared, Goto, SetPhase, Raise, NotePanic
  <2>1. CASE AcquireLock(i) \/ LockPanics(i)
    BY <2>1 DEF AcquireLock, LockPanics
  <2>2. CASE SecondCheck(i) \/ SecondReject(i) \/ SecondPanics(i)
    BY <2>2 DEF SecondCheck, SecondReject, SecondPanics
  <2>3. CASE TaskCloses(i) \/ TaskPanics(i) \/ \E r \in {"Ok", "Err"} : TaskReturns(i, r)
    BY <2>3 DEF TaskCloses, TaskPanics, TaskReturns
  <2>4. CASE ReleaseGuard(i) \/ UnwindGuard(i)
    BY <2>4 DEF ReleaseGuard, UnwindGuard, AfterRelease
  <2>5. CASE ReleasePanics(i)
    BY <2>5 DEF ReleasePanics, CallInv, LocalsAt, Rejected, Returned, Quiet
  <2>6. CASE DropRejected(i) \/ DropRejectedPanics(i)
    BY <2>6 DEF DropRejected, DropRejectedPanics
  <2>7. CASE UnwindTask(i) \/ DoublePanic(i)
    BY <2>7 DEF UnwindTask, DoublePanic
  <2> QED
    BY <2>1, <2>2, <2>3, <2>4, <2>5, <2>6, <2>7 DEF LockedStep
<1> QED
  BY <1>1, <1>2, <1>3 DEF OwnerInv

LEMMA ExternalStepOwners ==
  ASSUME NEW controls, CoreTypeOK(controls), CoreInv, OwnerInv, NEW u \in Updaters, ExternalStep(u)
  PROVE  OwnerInv'
<1>1. UNCHANGED <<pc, first>>
  BY ExternalStepIsLocal
<1>2. CASE ExternalAcquire(u)
  BY <1>1, <1>2, CoreAssumption DEF OwnerInv, ExternalAcquire, CoreTypeOK
<1>3. CASE ExternalStore(u)
  BY <1>1, <1>3 DEF OwnerInv, ExternalStore, CoreTypeOK
<1>4. CASE ExternalGivesUp(u)
  BY <1>1, <1>4 DEF OwnerInv, ExternalGivesUp, CoreTypeOK
<1> QED
  BY <1>2, <1>3, <1>4 DEF ExternalStep

LEMMA CoreInit_OwnerInv == CoreInit => OwnerInv
BY DEF CoreInit, OwnerInv

(***************************************************************************)
(* Termination without fairness: a measure that every step decreases, and  *)
(* the guards under which a thread has a step to take.                     *)
(***************************************************************************)

\* How many steps a thread is from its end, at most.
StepsLeft ==
  [check |-> 17, prepare |-> 16, lock |-> 15, second |-> 14, task |-> 13, closed |-> 12,
   release |-> 11, cleanup |-> 10, unwindGuard |-> 9, unwindTask |-> 8, out |-> 7,
   commit |-> 6, rollback |-> 6, reopen |-> 5, reopened |-> 4, skip |-> 3, unwindCall |-> 3,
   unwound |-> 0, done |-> 0, abort |-> 0]

WriterStepsLeft == [idle |-> 2, holding |-> 1, done |-> 0]

CallAdvances(i) ==
  /\ StepsLeft[pc'[i]] < StepsLeft[pc[i]]
  /\ \A j \in Calls \ {i} : pc'[j] = pc[j]
  /\ UNCHANGED ext

WriterAdvances(u) ==
  /\ WriterStepsLeft[ext'[u]] < WriterStepsLeft[ext[u]]
  /\ \A v \in Updaters \ {u} : ext'[v] = ext[v]
  /\ UNCHANGED pc

\* One thread comes closer to its end and no other one falls back.
Advance == (\E i \in Calls : CallAdvances(i)) \/ (\E u \in Updaters : WriterAdvances(u))

LEMMA LockedStepAdvances ==
  ASSUME NEW controls, CoreTypeOK(controls), NEW i \in Calls, LockedStep(i)
  PROVE  CallAdvances(i)
<1>1. \A j \in Calls \ {i} : pc'[j] = pc[j]
  BY LockedStepIsLocal
<1>2. UNCHANGED ext
  BY DEF LockedStep, AcquireLock, LockPanics, SecondCheck, SecondReject, SecondPanics, TaskCloses,
     TaskPanics, TaskReturns, ReleaseGuard, ReleasePanics, DropRejected, DropRejectedPanics,
     UnwindGuard, UnwindTask, DoublePanic, shared
<1>3. StepsLeft[pc'[i]] < StepsLeft[pc[i]]
  <2> USE DEF CoreTypeOK, Goto, StepsLeft
  <2>1. CASE AcquireLock(i) \/ LockPanics(i)
    BY <2>1 DEF AcquireLock, LockPanics
  <2>2. CASE SecondCheck(i) \/ SecondReject(i) \/ SecondPanics(i)
    BY <2>2 DEF SecondCheck, SecondReject, SecondPanics
  <2>3. CASE TaskCloses(i) \/ TaskPanics(i) \/ \E r \in {"Ok", "Err"} : TaskReturns(i, r)
    BY <2>3 DEF TaskCloses, TaskPanics, TaskReturns
  <2>4. CASE ReleaseGuard(i) \/ ReleasePanics(i)
    BY <2>4 DEF ReleaseGuard, ReleasePanics, AfterRelease
  <2>5. CASE DropRejected(i) \/ DropRejectedPanics(i)
    BY <2>5 DEF DropRejected, DropRejectedPanics
  <2>6. CASE UnwindGuard(i) \/ UnwindTask(i) \/ DoublePanic(i)
    BY <2>6 DEF UnwindGuard, UnwindTask, DoublePanic
  <2> QED
    BY <2>1, <2>2, <2>3, <2>4, <2>5, <2>6 DEF LockedStep
<1> QED
  BY <1>1, <1>2, <1>3 DEF CallAdvances

LEMMA ExternalStepAdvances ==
  ASSUME NEW controls, CoreTypeOK(controls), NEW u \in Updaters, ExternalStep(u)
  PROVE  WriterAdvances(u)
BY DEF CoreTypeOK, ExternalStep, ExternalAcquire, ExternalStore, ExternalGivesUp, WriterAdvances,
   WriterStepsLeft

\* The guards of a writer's steps: to lock, it needs the lock to be free.
WriterCanMove(u) == \/ ext[u] = "holding"
                    \/ ext[u] = "idle" /\ holders = {}
==============================================================================
