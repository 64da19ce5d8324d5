-------------------------- MODULE DclExecutorProofs --------------------------
(***************************************************************************)
(* Theorems of DclExecutor: type correctness, the safety properties of     *)
(* both run methods, and the refinement of GatedWork, for any set of calls *)
(* and writers, any panicking phases and either kind of lock.              *)
(***************************************************************************)
EXTENDS DclExecutor, DclCoreProofs

(***************************************************************************)
(* The inductive invariant.                                                *)
(***************************************************************************)

CapturedInitial(i) ==
  /\ i \in Caught
  /\ first[i] = "InitialConditionCheck" /\ payload[i] = first[i] /\ info[i] = first[i]

\* What a returned call tells its caller: OutcomeTellsWhatHappened and
\* FirstPanicReported, for one call.
Reported(i) ==
  /\ first[i] # None =>
       /\ payload[i] = first[i]
       /\ result[i] = IF i \in Caught THEN "Panicked" ELSE "Unwound"
       /\ i \in Caught => info[i] = first[i]
  /\ first[i] = None =>
       \/ task[i] = "Ok" /\ result[i] = "Success"
       \/ task[i] = "Err" /\ result[i] = "TaskFailed"
       \/ task[i] = "dropped" /\ result[i] = "ConditionNotMet"

\* The control points outside the locked phase.
CallerAt(i) ==
  /\ pc[i] = "skip" => /\ task[i] = "owned" /\ locked[i] = None
                       /\ Quiet(i) \/ CapturedInitial(i)
  /\ pc[i] = "unwindCall" =>
       /\ i \notin Caught /\ task[i] = "owned" /\ info[i] = None
       /\ first[i] = "InitialConditionCheck" /\ payload[i] = first[i]
  /\ pc[i] = "abort" /\ i \in Caught =>
       first[i] \in {"LockAcquisition", "SecondConditionCheck", "Task", "LockRelease"}
  /\ pc[i] = "done" => Reported(i)

CallerInv == \A i \in Calls : CallerAt(i)

Inv == TypeOK /\ CoreInv /\ CallerInv

(***************************************************************************)
(* Each step preserves it.                                                 *)
(***************************************************************************)

LEMMA Control_LockedNames == LockedNames \subseteq Control
BY DEF LockedNames, Control

LEMMA InitInv == Init => Inv
<1> SUFFICES ASSUME Init PROVE Inv
  OBVIOUS
<1>1. CoreInv
  BY CoreInit_CoreInv DEF Init
<1>2. TypeOK
  <2>1. gate \in BOOLEAN /\ poisoned \in BOOLEAN
    BY Zenon DEF Init, CoreInit
  <2> QED
    BY <2>1 DEF Init, CoreInit, TypeOK, CoreTypeOK, Control, LockedControl
<1>3. CallerInv
  BY DEF Init, CoreInit, CallerInv, CallerAt
<1> QED
  BY <1>1, <1>2, <1>3 DEF Inv

\* The steps of a call outside its locked phase.
CallerStep(i) ==
  \/ CheckPasses(i) \/ CheckRejects(i) \/ CheckPanics(i)
  \/ SkipTask(i) \/ SkipTaskPanics(i) \/ UnwindCall(i)
  \/ Return(i)

LEMMA CallerStepIsLocal ==
  ASSUME TypeOK, NEW i \in Calls, CallerStep(i)
  PROVE  /\ UNCHANGED shared
         /\ \A j \in Calls \ {i} :
              /\ pc'[j] = pc[j] /\ phase'[j] = phase[j] /\ task'[j] = task[j]
              /\ payload'[j] = payload[j] /\ info'[j] = info[j]
              /\ locked'[j] = locked[j] /\ first'[j] = first[j] /\ result'[j] = result[j]
<1> USE DEF TypeOK, CoreTypeOK, shared, Goto, SetPhase, Raise, NotePanic, Finish
<1>1. CASE CheckPasses(i) \/ CheckRejects(i) \/ CheckPanics(i)
  BY <1>1 DEF CheckPasses, CheckRejects, CheckPanics, EnterLocked
<1>2. CASE SkipTask(i) \/ SkipTaskPanics(i)
  BY <1>2 DEF SkipTask, SkipTaskPanics
<1>3. CASE UnwindCall(i) \/ Return(i)
  BY <1>3 DEF UnwindCall, Return
<1> QED
  BY <1>1, <1>2, <1>3 DEF CallerStep

LEMMA CallerStepTypeOK ==
  ASSUME TypeOK, CallInv, NEW i \in Calls, CallerStep(i)
  PROVE  TypeOK'
<1> USE CoreAssumption DEF TypeOK, CoreTypeOK, Control, LockedControl, Outcomes, Phases, Ran,
      None, shared, Goto, SetPhase, Raise, NotePanic, Finish
<1>1. CASE CheckPasses(i)
  BY <1>1 DEF CheckPasses, EnterLocked
<1>2. CASE CheckRejects(i) \/ CheckPanics(i)
  BY <1>2 DEF CheckRejects, CheckPanics
<1>3. CASE SkipTask(i)
  BY <1>3 DEF SkipTask
<1>4. CASE SkipTaskPanics(i)
  BY <1>4 DEF SkipTaskPanics
<1>5. CASE UnwindCall(i)
  BY <1>5 DEF UnwindCall
<1>6. CASE Return(i)
  <2>1. locked[i] \in {"ConditionNotMet", "Ok", "Err", "Panicked"}
    BY <1>6 DEF Return, CallInv, LocalsAt, Returned
  <2>2. locked[i] # "Panicked" => IntoOutcome[locked[i]] \in Outcomes
    BY <2>1 DEF IntoOutcome
  <2> QED
    BY <1>6, <2>2 DEF Return
<1> QED
  BY <1>1, <1>2, <1>3, <1>4, <1>5, <1>6 DEF CallerStep

LEMMA CallerStepInv ==
  ASSUME Inv, NEW i \in Calls, CallerStep(i)
  PROVE  Inv'
<1> USE DEF Inv
<1>1. TypeOK'
  BY CallerStepTypeOK DEF CoreInv
<1>2. \A j \in Calls \ {i} :
        ((j \in Caught => PhaseAt(j)) /\ LocalsAt(j) /\ CallerAt(j))'
  BY CallerStepIsLocal
     DEF CoreInv, CallInv, CallerInv, PhaseAt, LocalsAt, CallerAt, Quiet, Untouched, Rejected,
         Returned, Unwinding, CapturedInitial, Reported
<1>3. ((i \in Caught => PhaseAt(i)) /\ LocalsAt(i) /\ CallerAt(i))'
  <2>1. (i \in Caught => PhaseAt(i)) /\ LocalsAt(i) /\ CallerAt(i)
    BY DEF CoreInv, CallInv, CallerInv
  <2> USE <2>1 DEF TypeOK, CoreTypeOK, PhaseAt, LocalsAt, CallerAt, Quiet, Untouched, Rejected,
        Returned, Unwinding, CapturedInitial, Reported, LockedPanics, None,
        shared, Goto, SetPhase, Raise, NotePanic, Finish
  <2>2. CASE CheckPasses(i)
    BY <2>2 DEF CheckPasses, EnterLocked
  <2>3. CASE CheckRejects(i)
    BY <2>3 DEF CheckRejects
  <2>4. CASE CheckPanics(i)
    BY <2>4 DEF CheckPanics
  <2>5. CASE SkipTask(i)
    BY <2>5 DEF SkipTask
  <2>6. CASE SkipTaskPanics(i)
    BY <2>6 DEF SkipTaskPanics
  <2>7. CASE UnwindCall(i)
    BY <2>7 DEF UnwindCall
  <2>8. CASE Return(i)
    BY <2>8 DEF Return, IntoOutcome
  <2> QED
    BY <2>2, <2>3, <2>4, <2>5, <2>6, <2>7, <2>8 DEF CallerStep
<1>4. CallInv' /\ CallerInv'
  BY <1>2, <1>3 DEF CallInv, CallerInv
<1>5. GuardInv'
  <2> USE DEF CoreInv, GuardInv, NoStaleTask, GuardAlive, GuardGone, TypeOK, CoreTypeOK,
        shared, Goto, SetPhase, Raise, NotePanic, Finish
  <2>1. CASE CheckPasses(i) \/ CheckRejects(i) \/ CheckPanics(i)
    BY <2>1 DEF CheckPasses, CheckRejects, CheckPanics, EnterLocked
  <2>2. CASE SkipTask(i) \/ SkipTaskPanics(i)
    BY <2>2 DEF SkipTask, SkipTaskPanics
  <2>3. CASE UnwindCall(i) \/ Return(i)
    BY <2>3 DEF UnwindCall, Return
  <2> QED
    BY <2>1, <2>2, <2>3 DEF CallerStep
<1>6. UnwoundGuardPoisons'
  <2> USE DEF CoreInv, UnwoundGuardPoisons, Poisons, TypeOK, CoreTypeOK, None,
        shared, Goto, SetPhase, Raise, NotePanic, Finish
  <2>1. CASE CheckPasses(i) \/ CheckRejects(i) \/ CheckPanics(i)
    BY <2>1 DEF CheckPasses, CheckRejects, CheckPanics, EnterLocked
  <2>2. CASE SkipTask(i) \/ SkipTaskPanics(i)
    BY <2>2 DEF SkipTask, SkipTaskPanics
  <2>3. CASE UnwindCall(i) \/ Return(i)
    BY <2>3 DEF UnwindCall, Return
  <2> QED
    BY <2>1, <2>2, <2>3 DEF CallerStep
<1> QED
  BY <1>1, <1>4, <1>5, <1>6 DEF CoreInv

\* The locked phase hands the caller exactly what CallerAt expects of it.
LEMMA LockedStepInv ==
  ASSUME Inv, NEW i \in Calls, LockedStep(i), UNCHANGED result
  PROVE  Inv'
<1> USE DEF Inv
<1>1. TypeOK' /\ CoreInv'
  BY LockedStepCoreInv, Control_LockedNames DEF TypeOK
<1>2. \A j \in Calls \ {i} : CallerAt(j)'
  BY LockedStepIsLocal DEF TypeOK, CallerInv, CallerAt, Quiet, CapturedInitial, Reported
<1>3. CallerAt(i)'
  <2> USE DEF TypeOK, CoreTypeOK, CallerAt, shared, Goto
  <2>1. CASE DoublePanic(i)
    BY <2>1 DEF DoublePanic, CoreInv, CallInv, LocalsAt, Unwinding, LockedPanics
  <2>2. CASE AcquireLock(i) \/ LockPanics(i) \/ SecondCheck(i) \/ SecondReject(i) \/ SecondPanics(i)
    BY <2>2 DEF AcquireLock, LockPanics, SecondCheck, SecondReject, SecondPanics
  <2>3. CASE TaskCloses(i) \/ TaskPanics(i) \/ \E r \in {"Ok", "Err"} : TaskReturns(i, r)
    BY <2>3 DEF TaskCloses, TaskPanics, TaskReturns
  <2>4. CASE ReleaseGuard(i) \/ ReleasePanics(i) \/ DropRejected(i) \/ DropRejectedPanics(i)
    BY <2>4 DEF ReleaseGuard, ReleasePanics, DropRejected, DropRejectedPanics, AfterRelease
  <2>5. CASE UnwindGuard(i) \/ UnwindTask(i)
    BY <2>5 DEF UnwindGuard, UnwindTask
  <2> QED
    BY <2>1, <2>2, <2>3, <2>4, <2>5 DEF LockedStep
<1> QED
  BY <1>1, <1>2, <1>3 DEF CallerInv

LEMMA OutsideStepInv ==
  ASSUME Inv, NEW u \in Updaters, OutsideStep(u)
  PROVE  Inv'
<1>1. ExternalStep(u) /\ UNCHANGED result
  BY DEF OutsideStep
<1>2. CoreTypeOK(Control)' /\ CoreInv'
  BY <1>1, ExternalStepCoreInv DEF Inv, TypeOK
<1>3. CallerInv'
  BY <1>1, ExternalStepIsLocal DEF Inv, CallerInv, CallerAt, Quiet, CapturedInitial, Reported
<1> QED
  BY <1>1, <1>2, <1>3 DEF Inv, TypeOK

LEMMA StutterInv == ASSUME Inv, UNCHANGED vars PROVE Inv'
BY DEF vars, coreVars, Inv, TypeOK, CoreTypeOK, CoreInv, GuardInv, NoStaleTask, CallInv, PhaseAt,
       LocalsAt, Quiet, Untouched, Rejected, Returned, Unwinding, UnwoundGuardPoisons, Poisons,
       CallerInv, CallerAt, CapturedInitial, Reported

LEMMA NextInv == Inv /\ [Next]_vars => Inv'
<1> SUFFICES ASSUME Inv, [Next]_vars PROVE Inv'
  OBVIOUS
<1>1. CASE UNCHANGED vars
  BY <1>1, StutterInv
<1>2. ASSUME NEW i \in Calls, CallStep(i) PROVE Inv'
  BY <1>2, CallerStepInv, LockedStepInv DEF CallStep, CallerStep
<1>3. ASSUME NEW u \in Updaters, OutsideStep(u) PROVE Inv'
  BY <1>3, OutsideStepInv
<1> QED
  BY <1>1, <1>2, <1>3 DEF Next, Step

(***************************************************************************)
(* Safety.                                                                 *)
(***************************************************************************)

LEMMA SpecInv == Spec => []Inv
BY InitInv, NextInv, PTL DEF Spec

\* Every variable stays in its type.
THEOREM TypeCorrect == Spec => []TypeOK
<1>1. Inv => TypeOK
  BY DEF Inv
<1> QED
  BY <1>1, SpecInv, PTL

\* No two tasks overlap unless both are shared, and none overlaps an outside
\* writer: the guard of execute_locked spans the second check and the task.
THEOREM TasksSerialized == Spec => []SerializedTasks
<1>1. Inv => SerializedTasks
  BY GuardInvSerializes DEF Inv, CoreInv
<1> QED
  BY <1>1, SpecInv, PTL

\* A task that has not closed the gate runs with the gate open.
THEOREM TasksNotStale == Spec => []NoStaleTask
<1>1. Inv => NoStaleTask
  BY DEF Inv, CoreInv, GuardInv
<1> QED
  BY <1>1, SpecInv, PTL

\* Capturing a panic outside the guard does not hide it from the lock.
THEOREM PoisonPreserved == Spec => []UnwoundGuardPoisons
<1>1. Inv => UnwoundGuardPoisons
  BY DEF Inv, CoreInv
<1> QED
  BY <1>1, SpecInv, PTL

\* The outcome of a call says how its task ended, or that it never ran.
THEOREM OutcomeTruthful == Spec => []OutcomeTellsWhatHappened
<1>1. Inv => OutcomeTellsWhatHappened
  BY DEF Inv, CallerInv, CallerAt, Reported, OutcomeTellsWhatHappened
<1> QED
  BY <1>1, SpecInv, PTL

\* The panic reported is the first one, under the phase that raised it.
THEOREM FirstPanicWins == Spec => []FirstPanicReported
<1>1. Inv => FirstPanicReported
  BY DEF Inv, CallerInv, CallerAt, Reported, FirstPanicReported
<1> QED
  BY <1>1, SpecInv, PTL

\* A capturing call goes down only with a destructor that panics while its
\* locked phase unwinds.
THEOREM CatchingAborts == Spec => []CatchingAbortsOnlyInLockedPhase
<1>1. Inv => CatchingAbortsOnlyInLockedPhase
  BY CoreAssumption DEF Inv, CallerInv, CallerAt, CatchingAbortsOnlyInLockedPhase
<1> QED
  BY <1>1, SpecInv, PTL

\* The captures of a rejected task are dropped outside the guard.
THEOREM DropsOutsideGuard == Spec => SkippedTaskDropsOutsideGuard
<1> DEFINE Drops == \A i \in Calls :
              task[i] = "owned" /\ task'[i] = "dropped" =>
                i \notin holders \/ first[i] = "LockRelease"
<1>1. Inv /\ [Next]_vars => [Drops]_coreVars
  <2> SUFFICES ASSUME Inv, [Next]_vars, NEW j \in Calls, task[j] = "owned", task'[j] = "dropped"
               PROVE  j \notin holders \/ first[j] = "LockRelease"
    OBVIOUS
  <2>1. CASE UNCHANGED vars
    BY <2>1 DEF vars, coreVars
  <2>2. ASSUME NEW i \in Calls, CallerStep(i) PROVE j \notin holders \/ first[j] = "LockRelease"
    <3>1. j = i
      BY <2>2, CallerStepIsLocal DEF Inv
    <3>2. pc[i] \in GuardGone \cup {"out"}
      BY <2>2 DEF CallerStep, CheckPasses, CheckRejects, CheckPanics, SkipTask, SkipTaskPanics,
         UnwindCall, Return, GuardGone
    <3>3. pc[i] # "out"
      BY <2>2, <3>1 DEF CallerStep, CheckPasses, CheckRejects, CheckPanics, SkipTask,
         SkipTaskPanics, UnwindCall, Return
    <3> QED
      BY <3>1, <3>2, <3>3 DEF Inv, CoreInv, GuardInv
  <2>3. ASSUME NEW i \in Calls, LockedStep(i) PROVE j \notin holders \/ first[j] = "LockRelease"
    BY <2>3, LockedStepDrops DEF Inv, TypeOK
  <2>4. ASSUME NEW u \in Updaters, OutsideStep(u) PROVE j \notin holders \/ first[j] = "LockRelease"
    BY <2>4, ExternalStepIsLocal DEF OutsideStep
  <2> QED
    BY <2>1, <2>2, <2>3, <2>4 DEF Next, Step, CallStep, CallerStep
<1> QED
  BY <1>1, SpecInv, PTL DEF Spec, SkippedTaskDropsOutsideGuard

(***************************************************************************)
(* Waiting.  An owner of the lock is inside a section that releases it, so *)
(* the wait-for relation between threads has no path longer than one edge. *)
(***************************************************************************)

LEMMA NextOwners == Inv /\ OwnerInv /\ [Next]_vars => OwnerInv'
<1> SUFFICES ASSUME Inv, OwnerInv, [Next]_vars PROVE OwnerInv'
  OBVIOUS
<1>1. CASE UNCHANGED vars
  BY <1>1 DEF vars, coreVars, OwnerInv
<1>2. ASSUME NEW i \in Calls, CallerStep(i) PROVE OwnerInv'
  <2>1. UNCHANGED shared /\ \A j \in Calls \ {i} : pc'[j] = pc[j] /\ first'[j] = first[j]
    BY <1>2, CallerStepIsLocal DEF Inv
  <2>2. i \in holders => first[i] = "LockRelease" /\ first'[i] = first[i]
    <3>1. pc[i] \in GuardGone \cup {"out"}
      BY <1>2 DEF CallerStep, CheckPasses, CheckRejects, CheckPanics, SkipTask, SkipTaskPanics,
         UnwindCall, Return, GuardGone
    <3>2. i \in holders => pc[i] = "out"
      BY <3>1 DEF Inv, CoreInv, GuardInv
    <3>3. pc[i] = "out" => first' = first
      BY <1>2 DEF CallerStep, CheckPasses, CheckRejects, CheckPanics, SkipTask, SkipTaskPanics,
         UnwindCall, Return
    <3> QED
      BY <3>2, <3>3 DEF OwnerInv, OwningControl, GuardAlive
  <2> QED
    BY <2>1, <2>2 DEF OwnerInv, shared
<1>3. ASSUME NEW i \in Calls, LockedStep(i) PROVE OwnerInv'
  BY <1>3, LockedStepOwners DEF Inv, TypeOK
<1>4. ASSUME NEW u \in Updaters, OutsideStep(u) PROVE OwnerInv'
  BY <1>4, ExternalStepOwners DEF OutsideStep, Inv, TypeOK
<1> QED
  BY <1>1, <1>2, <1>3, <1>4 DEF Next, Step, CallStep, CallerStep

\* Nobody waits for a call that waits or has returned, with any number of calls
\* and writers: only a guard whose destructor panicked can hang the others.
THEOREM NoDeadlock == Spec => []NoWaitCycle
<1>1. Init => OwnerInv
  BY CoreInit_OwnerInv DEF Init
<1>2. Inv /\ OwnerInv => NoWaitCycle
  BY CoreAssumption DEF Inv, TypeOK, CoreTypeOK, OwnerInv, OwningControl, GuardAlive, NoWaitCycle,
     OwnersMoveOn, Waiting, Leaking
<1> QED
  BY <1>1, <1>2, NextOwners, SpecInv, PTL DEF Spec

(***************************************************************************)
(* Termination: the two halves of EveryCallEnds that need no fairness.     *)
(***************************************************************************)

\* Every step brings one call or writer closer to its end: nothing is retried
\* and no control point is met twice, so a call takes at most 17 steps.
THEOREM StepsAdvance == Spec => [][Advance]_vars
<1>1. Inv /\ [Next]_vars => [Advance]_vars
  <2> SUFFICES ASSUME Inv, Next, ~UNCHANGED vars PROVE Advance
    OBVIOUS
  <2>1. ASSUME NEW i \in Calls, CallerStep(i) PROVE CallAdvances(i)
    <3>1. UNCHANGED shared /\ \A j \in Calls \ {i} : pc'[j] = pc[j]
      BY <2>1, CallerStepIsLocal DEF Inv
    <3>2. StepsLeft[pc'[i]] < StepsLeft[pc[i]]
      BY <2>1 DEF CallerStep, CheckPasses, CheckRejects, CheckPanics, SkipTask, SkipTaskPanics,
         UnwindCall, Return, Inv, TypeOK, CoreTypeOK, EnterLocked, Goto, Finish, StepsLeft
    <3> QED
      BY <3>1, <3>2 DEF CallAdvances, shared
  <2>2. ASSUME NEW i \in Calls, LockedStep(i) PROVE CallAdvances(i)
    BY <2>2, LockedStepAdvances DEF Inv, TypeOK
  <2>3. ASSUME NEW u \in Updaters, OutsideStep(u) PROVE WriterAdvances(u)
    BY <2>3, ExternalStepAdvances DEF OutsideStep, Inv, TypeOK
  <2> QED
    BY <2>1, <2>2, <2>3 DEF Next, Step, CallStep, CallerStep, Advance
<1> QED
  BY <1>1, SpecInv, PTL DEF Spec

\* The guards of a call's steps: only a call in lock() may have to wait.
CanMove(i) == pc[i] # "done" /\ (pc[i] = "lock" => Compatible(i))

\* Until all have ended somebody has a step to take, unless a guard that
\* panicked in its destructor kept the lock.
SomebodyCanMove ==
  \/ Finished
  \/ \E i \in Calls : CanMove(i)
  \/ \E u \in Updaters : WriterCanMove(u)
  \/ \E h \in holders : Leaking(h)

\* With any number of calls and writers, the executor comes to a standstill only
\* when all have ended or a lock was leaked.
THEOREM NobodyStuck == Spec => []SomebodyCanMove
<1>1. Init => OwnerInv
  BY CoreInit_OwnerInv DEF Init
<1>2. Inv /\ OwnerInv => SomebodyCanMove
  <2> SUFFICES ASSUME Inv, OwnerInv, ~Finished, \A h \in holders : ~Leaking(h)
               PROVE  \/ \E i \in Calls : CanMove(i)
                      \/ \E u \in Updaters : WriterCanMove(u)
    BY DEF SomebodyCanMove
  <2>1. CASE holders = {}
    BY <2>1 DEF Finished, CanMove, WriterCanMove, Compatible, Inv, TypeOK, CoreTypeOK
  <2>2. ASSUME NEW h \in holders, h \in Calls PROVE CanMove(h)
    BY <2>2 DEF OwnerInv, OwningControl, GuardAlive, Leaking, Finished, Aborted, CanMove
  <2>3. ASSUME NEW h \in holders, h \in Updaters PROVE WriterCanMove(h)
    BY <2>3 DEF OwnerInv, WriterCanMove
  <2> QED
    BY <2>1, <2>2, <2>3 DEF Inv, TypeOK, CoreTypeOK
<1> QED
  BY <1>1, <1>2, NextOwners, SpecInv, PTL DEF Spec

(***************************************************************************)
(* Refinement of GatedWork.                                                *)
(***************************************************************************)

LEMMA InitRefines == Init => Work!Init
<1> SUFFICES ASSUME Init PROVE Work!Init
  OBVIOUS
<1>1. gate \in BOOLEAN
  BY Zenon DEF Init, CoreInit
<1>2. \A i \in Calls : WorkStatus(i) = "pending"
  BY DEF Init, CoreInit, WorkStatus
<1> QED
  BY <1>1, <1>2 DEF Work!Init

\* A call whose variables do not change keeps its status.
LEMMA StatusLocal ==
  ASSUME NEW j \in Calls, pc'[j] = pc[j], task'[j] = task[j], first'[j] = first[j]
  PROVE  WorkStatus(j)' = WorkStatus(j)
BY DEF WorkStatus

Status == [i \in Calls |-> WorkStatus(i)]

\* A step of one call changes the status of that call at most.
LEMMA StatusOneCall ==
  ASSUME NEW i \in Calls,
         \A j \in Calls \ {i} : pc'[j] = pc[j] /\ task'[j] = task[j] /\ first'[j] = first[j]
  PROVE  Status' = [Status EXCEPT ![i] = WorkStatus(i)']
BY StatusLocal DEF Status

LEMMA SameStatus ==
  ASSUME NEW i \in Calls, Status' = [Status EXCEPT ![i] = WorkStatus(i)'],
         WorkStatus(i)' = WorkStatus(i), UNCHANGED gate
  PROVE  UNCHANGED Work!vars
BY DEF Work!vars, Status

LEMMA CallerStepRefines ==
  ASSUME Inv, NEW i \in Calls, CallerStep(i)
  PROVE  [Work!Next]_(Work!vars)
<1>1. Status' = [Status EXCEPT ![i] = WorkStatus(i)']
  BY StatusOneCall, CallerStepIsLocal DEF Inv
<1>2. UNCHANGED gate
  BY CallerStepIsLocal DEF Inv, shared
<1>3. LocalsAt(i) /\ CallerAt(i)
  BY DEF Inv, CoreInv, CallInv, CallerInv
<1> USE DEF Inv, TypeOK, CoreTypeOK, WorkStatus, None, Ran, LocalsAt, CallerAt, Untouched, Quiet,
      CapturedInitial, Returned, Goto, Raise, NotePanic, shared, Finish
<1>4. CASE CheckRejects(i)
  <2>1. WorkStatus(i) = "pending" /\ WorkStatus(i)' = "skipped" /\ ~gate
    BY <1>3, <1>4 DEF CheckRejects
  <2>2. Work!Skip(i)
    BY <1>1, <1>2, <2>1 DEF Work!Skip, Work!Become, Status
  <2> QED
    BY <2>2 DEF Work!Next
<1>5. CASE CheckPanics(i)
  <2>1. WorkStatus(i) = "pending" /\ WorkStatus(i)' = "failed"
    BY <1>3, <1>5 DEF CheckPanics
  <2>2. Work!Fail(i)
    BY <1>1, <1>2, <2>1 DEF Work!Fail, Work!Become, Status
  <2> QED
    BY <2>2 DEF Work!Next
<1>6. ASSUME WorkStatus(i)' = WorkStatus(i) PROVE [Work!Next]_(Work!vars)
  BY <1>1, <1>2, <1>6, SameStatus
<1>7. CASE CheckPasses(i)
  <2>1. WorkStatus(i)' = WorkStatus(i)
    BY <1>7 DEF CheckPasses, EnterLocked
  <2> QED
    BY <2>1, <1>6
<1>8. CASE SkipTask(i) \/ SkipTaskPanics(i)
  <2>1. WorkStatus(i)' = WorkStatus(i)
    BY <1>3, <1>8 DEF SkipTask, SkipTaskPanics
  <2> QED
    BY <2>1, <1>6
<1>9. CASE UnwindCall(i) \/ Return(i)
  <2>1. WorkStatus(i)' = WorkStatus(i)
    BY <1>3, <1>9 DEF UnwindCall, Return
  <2> QED
    BY <2>1, <1>6
<1> QED
  BY <1>4, <1>5, <1>7, <1>8, <1>9 DEF CallerStep

LEMMA LockedStepRefines ==
  ASSUME Inv, NEW i \in Calls, LockedStep(i)
  PROVE  [Work!Next]_(Work!vars)
<1>1. Status' = [Status EXCEPT ![i] = WorkStatus(i)']
  BY StatusOneCall, LockedStepIsLocal DEF Inv, TypeOK
<1>2. LocalsAt(i)
  BY DEF Inv, CoreInv, CallInv
<1>3. \A j \in Calls : WorkStatus(j) \in {"running", "closed"} => pc[j] \in {"task", "closed"}
  BY DEF WorkStatus
<1> USE DEF Inv, TypeOK, CoreTypeOK, WorkStatus, None, Ran, LocalsAt, Untouched, Quiet,
      Rejected, Returned, Unwinding, LockedPanics, Goto, Raise, NotePanic, SetPhase, shared
<1>4. CASE SecondCheck(i)
  <2>1. WorkStatus(i) = "pending" /\ WorkStatus(i)' = "running" /\ gate /\ UNCHANGED gate
    BY <1>2, <1>4 DEF SecondCheck
  <2>2. \A j \in Calls : WorkStatus(j) \in {"running", "closed"} => i \notin Exclusive /\ j \notin Exclusive
    BY <1>3, <1>4 DEF SecondCheck, CoreInv, GuardInv, GuardAlive
  <2>3. Work!Start(i)
    BY <1>1, <2>1, <2>2 DEF Work!Start, Work!Become, Work!Active, Status
  <2> QED
    BY <2>3 DEF Work!Next
<1>5. CASE SecondReject(i)
  <2>1. WorkStatus(i) = "pending" /\ WorkStatus(i)' = "skipped" /\ ~gate /\ UNCHANGED gate
    BY <1>2, <1>5 DEF SecondReject
  <2>2. Work!Skip(i)
    BY <1>1, <2>1 DEF Work!Skip, Work!Become, Status
  <2> QED
    BY <2>2 DEF Work!Next
<1>6. CASE SecondPanics(i) \/ LockPanics(i)
  <2>1. WorkStatus(i) = "pending" /\ WorkStatus(i)' = "failed" /\ UNCHANGED gate
    BY <1>2, <1>6 DEF SecondPanics, LockPanics
  <2>2. Work!Fail(i)
    BY <1>1, <2>1 DEF Work!Fail, Work!Become, Status
  <2> QED
    BY <2>2 DEF Work!Next
<1>7. CASE TaskCloses(i)
  <2>1. WorkStatus(i) = "running" /\ WorkStatus(i)' = "closed" /\ i \in Exclusive
    BY <1>2, <1>7 DEF TaskCloses
  <2>2. gate /\ gate' = FALSE
    BY <1>7 DEF TaskCloses, CoreInv, GuardInv, NoStaleTask
  <2>3. Work!Close(i)
    BY <1>1, <2>1, <2>2 DEF Work!Close, Work!Become, Status
  <2> QED
    BY <2>3 DEF Work!Next
<1>8. CASE TaskPanics(i) \/ \E r \in {"Ok", "Err"} : TaskReturns(i, r)
  <2>1. WorkStatus(i) \in {"running", "closed"} /\ WorkStatus(i)' = "finished" /\ UNCHANGED gate
    BY <1>2, <1>8 DEF TaskPanics, TaskReturns
  <2>2. Work!Finish(i)
    BY <1>1, <2>1 DEF Work!Finish, Work!Active, Work!Become, Status
  <2> QED
    BY <2>2 DEF Work!Next
<1>9. ASSUME WorkStatus(i)' = WorkStatus(i), UNCHANGED gate PROVE [Work!Next]_(Work!vars)
  BY <1>1, <1>9, SameStatus
<1>10. CASE AcquireLock(i)
  <2>1. WorkStatus(i)' = WorkStatus(i) /\ UNCHANGED gate
    BY <1>2, <1>10 DEF AcquireLock
  <2> QED
    BY <2>1, <1>9
<1>11. CASE ReleaseGuard(i) \/ ReleasePanics(i)
  <2>1. WorkStatus(i)' = WorkStatus(i) /\ UNCHANGED gate
    BY <1>2, <1>11 DEF ReleaseGuard, ReleasePanics, AfterRelease
  <2> QED
    BY <2>1, <1>9
<1>12. CASE DropRejected(i) \/ DropRejectedPanics(i)
  <2>1. WorkStatus(i)' = WorkStatus(i) /\ UNCHANGED gate
    BY <1>2, <1>12 DEF DropRejected, DropRejectedPanics
  <2> QED
    BY <2>1, <1>9
<1>13. CASE UnwindGuard(i) \/ UnwindTask(i) \/ DoublePanic(i)
  <2>1. WorkStatus(i)' = WorkStatus(i) /\ UNCHANGED gate
    BY <1>2, <1>13 DEF UnwindGuard, UnwindTask, DoublePanic
  <2> QED
    BY <2>1, <1>9
<1> QED
  BY <1>4, <1>5, <1>6, <1>7, <1>8, <1>10, <1>11, <1>12, <1>13 DEF LockedStep

\* An outside writer owns the lock, so no task is active when it stores.
LEMMA OutsideStepRefines ==
  ASSUME Inv, NEW u \in Updaters, OutsideStep(u)
  PROVE  [Work!Next]_(Work!vars)
<1>1. Status' = Status
  BY ExternalStepIsLocal, StatusLocal DEF OutsideStep, Status
<1>2. CASE ExternalStore(u)
  <2>1. \A j \in Calls : pc[j] \notin {"task", "closed"}
    BY <1>2, CoreAssumption DEF ExternalStore, Inv, CoreInv, GuardInv, GuardAlive
  <2>2. \A j \in Calls : WorkStatus(j) \notin {"running", "closed"}
    BY <2>1 DEF WorkStatus
  <2>3. gate' \in BOOLEAN
    BY <1>2, Zenon DEF ExternalStore
  <2>4. Work!Change
    BY <1>1, <2>2, <2>3 DEF Work!Change, Work!Active, Status
  <2> QED
    BY <2>4 DEF Work!Next
<1>3. CASE ExternalAcquire(u) \/ ExternalGivesUp(u)
  BY <1>1, <1>3 DEF ExternalAcquire, ExternalGivesUp, Work!vars, Status
<1> QED
  BY <1>2, <1>3 DEF OutsideStep, ExternalStep

\* The executor implements GatedWork: the lock-free check, the lock and the
\* second check together are one atomic test of the gate and start of the task.
THEOREM Refinement == Spec => ImplementsGatedWork
<1>1. Inv /\ [Next]_vars => [Work!Next]_(Work!vars)
  <2> SUFFICES ASSUME Inv, [Next]_vars PROVE [Work!Next]_(Work!vars)
    OBVIOUS
  <2>1. CASE UNCHANGED vars
    BY <2>1, StatusLocal DEF vars, coreVars, Work!vars
  <2>2. ASSUME NEW i \in Calls, CallStep(i) PROVE [Work!Next]_(Work!vars)
    BY <2>2, CallerStepRefines, LockedStepRefines DEF CallStep, CallerStep
  <2>3. ASSUME NEW u \in Updaters, OutsideStep(u) PROVE [Work!Next]_(Work!vars)
    BY <2>3, OutsideStepRefines
  <2> QED
    BY <2>1, <2>2, <2>3 DEF Next, Step
<1> QED
  BY <1>1, InitRefines, SpecInv, PTL DEF Spec, ImplementsGatedWork, Work!Spec
==============================================================================
