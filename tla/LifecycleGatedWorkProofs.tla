----------------------- MODULE LifecycleGatedWorkProofs -----------------------
(***************************************************************************)
(* The lifecycle executor implements GatedWork: prepare between the checks *)
(* and rollback after the guard leave test-and-run atomic.                 *)
(***************************************************************************)
EXTENDS LifecycleProofs

LEMMA InitRefines == Init => Work!Init
<1> SUFFICES ASSUME Init PROVE Work!Init
  OBVIOUS
<1>1. gate \in BOOLEAN
  BY Zenon DEF Init, CoreInit
<1>2. \A i \in Calls : WorkStatus(i) = "pending"
  BY DEF Init, CoreInit, WorkStatus
<1> QED
  BY <1>1, <1>2 DEF Work!Init

\* A call whose variables do not change keeps its status.
LEMMA StatusLocal ==
  ASSUME NEW j \in Calls, pc'[j] = pc[j], task'[j] = task[j], first'[j] = first[j],
         result'[j] = result[j]
  PROVE  WorkStatus(j)' = WorkStatus(j)
BY DEF WorkStatus

Status == [i \in Calls |-> WorkStatus(i)]

\* A step of one call changes the status of that call at most.
LEMMA StatusOneCall ==
  ASSUME NEW i \in Calls,
         \A j \in Calls \ {i} : /\ pc'[j] = pc[j] /\ task'[j] = task[j]
                               /\ first'[j] = first[j] /\ result'[j] = result[j]
  PROVE  Status' = [Status EXCEPT ![i] = WorkStatus(i)']
BY StatusLocal DEF Status

LEMMA SameStatus ==
  ASSUME NEW i \in Calls, Status' = [Status EXCEPT ![i] = WorkStatus(i)'],
         WorkStatus(i)' = WorkStatus(i), UNCHANGED gate
  PROVE  UNCHANGED Work!vars
BY DEF Work!vars, Status

(***************************************************************************)
(* Steps before and after the locked phase.                                *)
(***************************************************************************)

\* A failed prepare or check decides the call; dropping its task changes nothing.
LEMMA EarlyStepRefines ==
  ASSUME Inv, NEW i \in Calls, EarlyStep(i)
  PROVE  [Work!Next]_(Work!vars)
<1>1. Status' = [Status EXCEPT ![i] = WorkStatus(i)']
  BY StatusOneCall, EarlyStepIsLocal DEF Inv, Same
<1>2. CallAt(i)
  BY InvCallAt
<1> USE DEF Inv, TypeOK, CoreTypeOK, WorkStatus, None, Ran, LocalsAt, CallAt, LifeAt, TokenAt,
      EarlyReturn, Untouched, Quiet, Goto, Raise, NotePanic, SetPhase, Decide, shared, lifeVars
<1>3. UNCHANGED gate
  BY DEF EarlyStep, CheckPasses, CheckRejects, CheckPanics, PrepareReturns, PrepareFails,
     PreparePanics, PanicsEarly, SkipTask, SkipTaskPanics, UnwindCall, EnterLocked
<1>4. CASE CheckRejects(i)
  <2>1. WorkStatus(i) = "pending" /\ WorkStatus(i)' = "skipped" /\ ~gate
    BY <1>2, <1>4 DEF CheckRejects
  <2>2. Work!Skip(i)
    BY <1>1, <1>3, <2>1 DEF Work!Skip, Work!Become, Status
  <2> QED
    BY <2>2 DEF Work!Next
<1>5. CASE CheckPanics(i) \/ PreparePanics(i) \/ PrepareFails(i)
  <2>1. WorkStatus(i) = "pending" /\ WorkStatus(i)' = "failed"
    BY <1>2, <1>5 DEF CheckPanics, PreparePanics, PanicsEarly, PrepareFails
  <2>2. Work!Fail(i)
    BY <1>1, <1>3, <2>1 DEF Work!Fail, Work!Become, Status
  <2> QED
    BY <2>2 DEF Work!Next
<1>6. ASSUME WorkStatus(i)' = WorkStatus(i) PROVE [Work!Next]_(Work!vars)
  BY <1>1, <1>3, <1>6, SameStatus
<1>7. CASE CheckPasses(i) \/ PrepareReturns(i)
  <2>1. WorkStatus(i)' = WorkStatus(i)
    BY <1>7 DEF CheckPasses, PrepareReturns, EnterLocked
  <2> QED
    BY <2>1, <1>6
<1>8. CASE SkipTask(i) \/ SkipTaskPanics(i) \/ UnwindCall(i)
  <2>1. WorkStatus(i)' = WorkStatus(i)
    BY <1>2, <1>8 DEF SkipTask, SkipTaskPanics, UnwindCall
  <2> QED
    BY <2>1, <1>6
<1> QED
  BY <1>4, <1>5, <1>7, <1>8 DEF EarlyStep

\* A rollback that reopens the gate owns the lock, so no task is active.
LEMMA ReopenRefines ==
  ASSUME Inv, NEW i \in Calls, RollbackReopens(i)
  PROVE  [Work!Next]_(Work!vars)
<1>1. pc[i] = "reopen" /\ i \in holders
  BY InvCallAt DEF RollbackReopens, CallAt, LifeAt
<1>2. i \in Exclusive
  BY <1>1, InvCallAt, LifecycleAssumption DEF CallAt, LifeAt
<1>3. \A j \in Calls : pc[j] \notin {"task", "closed"}
  BY <1>1, <1>2 DEF Inv, CoreInv, GuardInv, GuardAlive
<1>4. Work!Active = {}
  BY <1>3 DEF Work!Active, WorkStatus
<1>5. Status' = [Status EXCEPT ![i] = WorkStatus(i)']
  BY StatusOneCall, FinalStepIsLocal DEF Inv, Same, FinalStep
<1>6. WorkStatus(i)' = WorkStatus(i)
  BY DEF RollbackReopens, Goto, Inv, TypeOK, CoreTypeOK, WorkStatus, lifeVars
<1> QED
  BY <1>4, <1>5, <1>6 DEF RollbackReopens, Work!Next, Work!Change, Status

\* The work of a call is decided before its finalizer runs.
LEMMA FinalStepRefines ==
  ASSUME Inv, NEW i \in Calls, FinalStep(i)
  PROVE  [Work!Next]_(Work!vars)
<1>1. Status' = [Status EXCEPT ![i] = WorkStatus(i)']
  BY StatusOneCall, FinalStepIsLocal DEF Inv, Same
<1>2. CallAt(i)
  BY InvCallAt
<1> USE DEF Inv, TypeOK, CoreTypeOK, WorkStatus, None, Ran, LockedControl, CallAt, LifeAt, TokenAt,
      Finalizing, Failed, Returned, Quiet, Goto, Raise, NotePanic, Decide, shared, lifeVars,
      IntoOutcome, RolledBack, CapturedRolledBack, Resumes, FinalizeCommit, FinalizeRollback, LockedPanics
<1>3. ASSUME WorkStatus(i)' = WorkStatus(i), UNCHANGED gate PROVE [Work!Next]_(Work!vars)
  BY <1>1, <1>3, SameStatus
<1>4. CASE ChooseFinalizer(i) \/ RollbackLocks(i)
  <2>1. WorkStatus(i)' = WorkStatus(i) /\ UNCHANGED gate
    BY <1>4 DEF ChooseFinalizer, RollbackLocks
  <2> QED
    BY <2>1, <1>3
<1>5. CASE (\E e \in Endings : FinishCommit(i, e)) \/ FinishCommitPanics(i)
  <2>1. WorkStatus(i)' = WorkStatus(i) /\ UNCHANGED gate
    BY <1>2, <1>5 DEF FinishCommit, FinishCommitPanics
  <2> QED
    BY <2>1, <1>3
<1>6. CASE \E e \in Endings : FinishRollback(i, e)
  <2>1. WorkStatus(i)' = WorkStatus(i) /\ UNCHANGED gate
    BY <1>2, <1>6 DEF FinishRollback
  <2> QED
    BY <2>1, <1>3
<1>7. CASE FinishRollbackPanics(i)
  <2>1. WorkStatus(i)' = WorkStatus(i) /\ UNCHANGED gate
    BY <1>2, <1>7 DEF FinishRollbackPanics
  <2> QED
    BY <2>1, <1>3
<1> QED
  BY <1>4, <1>5, <1>6, <1>7, ReopenRefines DEF FinalStep

(***************************************************************************)
(* The locked phase and the writers outside.                               *)
(***************************************************************************)

\* The second check is the abstract test of the gate, and starts the task.
LEMMA LockedStepRefines ==
  ASSUME Inv, NEW i \in Calls, LockedStep(i), UNCHANGED lifeVars
  PROVE  [Work!Next]_(Work!vars)
<1>1. Status' = [Status EXCEPT ![i] = WorkStatus(i)']
  BY StatusOneCall, LockedStepIsLocal DEF Inv, TypeOK, lifeVars
<1>2. LocalsAt(i) /\ result'[i] = result[i] /\ (pc[i] \in LockedControl => result[i] = None)
  BY DEF Inv, CoreInv, CallInv, LifeInv, LifeAt, TokenAt, lifeVars, LockedControl
<1>3. \A j \in Calls : WorkStatus(j) \in {"running", "closed"} => pc[j] \in {"task", "closed"}
  BY DEF WorkStatus
<1> USE DEF LockedControl, Inv, TypeOK, CoreTypeOK, WorkStatus, None, Ran, LocalsAt, Untouched, Quiet,
      Rejected, Returned, Unwinding, LockedPanics, Goto, Raise, NotePanic, SetPhase, shared
<1>4. CASE SecondCheck(i)
  <2>1. WorkStatus(i) = "pending" /\ WorkStatus(i)' = "running" /\ gate /\ UNCHANGED gate
    BY <1>2, <1>4 DEF SecondCheck
  <2>2. \A j \in Calls : WorkStatus(j) \in {"running", "closed"} => i \notin Exclusive /\ j \notin Exclusive
    BY <1>3, <1>4 DEF SecondCheck, CoreInv, GuardInv, GuardAlive
  <2>3. Work!Start(i)
    BY <1>1, <2>1, <2>2 DEF Work!Start, Work!Become, Work!Active, Status
  <2> QED
    BY <2>3 DEF Work!Next
<1>5. CASE SecondReject(i)
  <2>1. WorkStatus(i) = "pending" /\ WorkStatus(i)' = "skipped" /\ ~gate /\ UNCHANGED gate
    BY <1>2, <1>5 DEF SecondReject
  <2>2. Work!Skip(i)
    BY <1>1, <2>1 DEF Work!Skip, Work!Become, Status
  <2> QED
    BY <2>2 DEF Work!Next
<1>6. CASE SecondPanics(i) \/ LockPanics(i)
  <2>1. WorkStatus(i) = "pending" /\ WorkStatus(i)' = "failed" /\ UNCHANGED gate
    BY <1>2, <1>6 DEF SecondPanics, LockPanics
  <2>2. Work!Fail(i)
    BY <1>1, <2>1 DEF Work!Fail, Work!Become, Status
  <2> QED
    BY <2>2 DEF Work!Next
<1>7. CASE TaskCloses(i)
  <2>1. WorkStatus(i) = "running" /\ WorkStatus(i)' = "closed" /\ i \in Exclusive
    BY <1>2, <1>7 DEF TaskCloses
  <2>2. gate /\ gate' = FALSE
    BY <1>7 DEF TaskCloses, CoreInv, GuardInv, NoStaleTask
  <2>3. Work!Close(i)
    BY <1>1, <2>1, <2>2 DEF Work!Close, Work!Become, Status
  <2> QED
    BY <2>3 DEF Work!Next
<1>8. CASE TaskPanics(i) \/ \E r \in {"Ok", "Err"} : TaskReturns(i, r)
  <2>1. WorkStatus(i) \in {"running", "closed"} /\ WorkStatus(i)' = "finished" /\ UNCHANGED gate
    BY <1>2, <1>8 DEF TaskPanics, TaskReturns
  <2>2. Work!Finish(i)
    BY <1>1, <2>1 DEF Work!Finish, Work!Active, Work!Become, Status
  <2> QED
    BY <2>2 DEF Work!Next
<1>9. ASSUME WorkStatus(i)' = WorkStatus(i), UNCHANGED gate PROVE [Work!Next]_(Work!vars)
  BY <1>1, <1>9, SameStatus
<1>10. CASE AcquireLock(i)
  <2>1. WorkStatus(i)' = WorkStatus(i) /\ UNCHANGED gate
    BY <1>2, <1>10 DEF AcquireLock
  <2> QED
    BY <2>1, <1>9
<1>11. CASE ReleaseGuard(i) \/ ReleasePanics(i)
  <2>1. WorkStatus(i)' = WorkStatus(i) /\ UNCHANGED gate
    BY <1>2, <1>11 DEF ReleaseGuard, ReleasePanics, AfterRelease
  <2> QED
    BY <2>1, <1>9
<1>12. CASE DropRejected(i) \/ DropRejectedPanics(i)
  <2>1. WorkStatus(i)' = WorkStatus(i) /\ UNCHANGED gate
    BY <1>2, <1>12 DEF DropRejected, DropRejectedPanics
  <2> QED
    BY <2>1, <1>9
<1>13. CASE UnwindGuard(i) \/ UnwindTask(i) \/ DoublePanic(i)
  <2>1. WorkStatus(i)' = WorkStatus(i) /\ UNCHANGED gate
    BY <1>2, <1>13 DEF UnwindGuard, UnwindTask, DoublePanic
  <2> QED
    BY <2>1, <1>9
<1> QED
  BY <1>4, <1>5, <1>6, <1>7, <1>8, <1>10, <1>11, <1>12, <1>13 DEF LockedStep

\* An outside writer owns the lock, so no task is active when it stores.
LEMMA OutsideStepRefines ==
  ASSUME Inv, NEW u \in Updaters, OutsideStep(u)
  PROVE  [Work!Next]_(Work!vars)
<1>1. Status' = Status
  BY ExternalStepIsLocal, StatusLocal DEF OutsideStep, Status, lifeVars
<1>2. CASE ExternalStore(u)
  <2>1. \A j \in Calls : pc[j] \notin {"task", "closed"}
    BY <1>2, CoreAssumption DEF ExternalStore, Inv, CoreInv, GuardInv, GuardAlive
  <2>2. \A j \in Calls : WorkStatus(j) \notin {"running", "closed"}
    BY <2>1 DEF WorkStatus
  <2>3. gate' \in BOOLEAN
    BY <1>2, Zenon DEF ExternalStore
  <2>4. Work!Change
    BY <1>1, <2>2, <2>3 DEF Work!Change, Work!Active, Status
  <2> QED
    BY <2>4 DEF Work!Next
<1>3. CASE ExternalAcquire(u) \/ ExternalGivesUp(u)
  BY <1>1, <1>3 DEF ExternalAcquire, ExternalGivesUp, Work!vars, Status
<1> QED
  BY <1>2, <1>3 DEF OutsideStep, ExternalStep

\* Each opening of the gate is worked on by one exclusive task at most, and every
\* rejection met a closed gate, prepare and rollback notwithstanding.
THEOREM Refinement == Spec => ImplementsGatedWork
<1>1. Inv /\ [Next]_vars => [Work!Next]_(Work!vars)
  <2> SUFFICES ASSUME Inv, [Next]_vars PROVE [Work!Next]_(Work!vars)
    OBVIOUS
  <2>1. CASE UNCHANGED vars
    BY <2>1, StatusLocal DEF vars, coreVars, Work!vars
  <2>2. ASSUME NEW i \in Calls, CallStep(i) PROVE [Work!Next]_(Work!vars)
    BY <2>2, EarlyStepRefines, FinalStepRefines, LockedStepRefines DEF CallStep, EarlyStep, FinalStep
  <2>3. ASSUME NEW u \in Updaters, OutsideStep(u) PROVE [Work!Next]_(Work!vars)
    BY <2>3, OutsideStepRefines
  <2> QED
    BY <2>1, <2>2, <2>3 DEF Next, Step
<1> QED
  BY <1>1, InitRefines, SpecInv, PTL DEF Spec, ImplementsGatedWork, Work!Spec
===============================================================================
