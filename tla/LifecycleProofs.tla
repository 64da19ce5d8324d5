---------------------------- MODULE LifecycleProofs ----------------------------
(***************************************************************************)
(* Theorems of LifecycleDclExecutor: type correctness, the fate of the     *)
(* token, finalization outside the guard, priority of the first panic, and *)
(* the safety part of the refinement of TokenLifecycle.                    *)
(***************************************************************************)
EXTENDS LifecycleDclExecutor, DclCoreProofs

USE LifecycleAssumption

(***************************************************************************)
(* The inductive invariant.                                                *)
(***************************************************************************)

Finalizing == {"commit", "rollback", "reopen", "reopened"}

\* The token exists from prepare to finalization, and nothing is decided while
\* it does.
TokenAt(i) ==
  /\ pc[i] \in {"check", "prepare", "skip", "unwindCall"} => token[i] = "none"
  /\ pc[i] \in LockedControl \cup Finalizing => token[i] = "held"
  /\ pc[i] \notin {"done", "unwound"} => fin[i] = None /\ ending[i] = None
  /\ pc[i] \notin {"skip", "done", "unwound"} => result[i] = None

\* An early return: an ordinary one, or a panic already captured.
EarlyReturn(i) ==
  /\ task[i] = "owned" /\ locked[i] = None
  /\ \/ Quiet(i) /\ result[i] \in {"InitialConditionNotMet", "PrepareFailed"}
     \/ /\ i \in Catching
        /\ payload[i] = first[i] /\ info[i] = first[i]
        /\ \/ first[i] = "InitialConditionCheck" /\ result[i] = "InitialConditionCheckPanicked"
           \/ first[i] = "Prepare" /\ result[i] = "PreparePanicked"

\* What execute_locked_catching returned to a call that has to roll back.
Failed(i) ==
  \/ Quiet(i) /\ locked[i] = "ConditionNotMet" /\ task[i] = "dropped"
  \/ Quiet(i) /\ locked[i] = "Err" /\ task[i] = "Err"
  \/ /\ locked[i] = "Panicked"
     /\ first[i] \in LockedPanics /\ payload[i] = first[i] /\ info[i] = first[i]
     /\ task[i] = "Ok" => first[i] = "LockRelease"

\* The history a returned call leaves behind, one disjunct per way to return.
ReturnedFrom(i) ==
  \/ /\ token[i] = "none" /\ fin[i] = None /\ task[i] = "dropped"
     /\ \/ Quiet(i) /\ result[i] \in {"InitialConditionNotMet", "PrepareFailed"}
        \/ /\ i \in Catching /\ result[i] = "PrepareFailed"
           /\ info[i] = None /\ first[i] = "TaskCleanup"
        \/ /\ i \in Catching /\ first[i] # None /\ info[i] = first[i]
           /\ result[i] \in {"InitialConditionCheckPanicked", "TaskCleanupPanicked", "PreparePanicked"}
  \/ /\ token[i] \in {"committed", "dropped"} /\ task[i] = "Ok" /\ info[i] = None
     /\ result[i] = "TaskSucceeded"
     /\ \/ first[i] = None /\ fin[i] \in {"Succeeded", "Failed", "NotRequired"}
        \/ i \in Catching /\ first[i] = "Commit" /\ fin[i] = "Panicked"
     /\ fin[i] = "NotRequired" => token[i] = "dropped"
  \/ /\ token[i] \in {"rolledBack", "dropped"} /\ info[i] = None
     /\ \/ task[i] = "Err" /\ result[i] = "TaskFailed"
        \/ task[i] = "dropped" /\ result[i] = "SecondConditionNotMet"
     /\ \/ first[i] = None /\ fin[i] \in {"Succeeded", "Failed", "NotRequired"}
        \/ i \in Catching /\ first[i] = "Rollback" /\ fin[i] = "Panicked"
     /\ fin[i] = "NotRequired" => token[i] = "dropped"
  \/ /\ token[i] \in {"rolledBack", "dropped"} /\ i \in Catching
     /\ first[i] # None /\ info[i] = first[i] /\ result[i] = "ExecutionPanicked"
     /\ fin[i] \in CapturedFinalizationOutcomes
     /\ fin[i] = "NotRequired" => token[i] = "dropped"

\* The finalization outcome is how commit, rollback or the token's destructor ended.
EndingTold(i) ==
  /\ fin[i] = None <=> ending[i] = None
  /\ fin[i] = "Succeeded" <=> ending[i] = "Ok"
  /\ fin[i] = "Failed" <=> ending[i] = "Err"
  /\ fin[i] = "Panicked" <=> ending[i] = "Panic"
  /\ fin[i] = "NotRequired" <=> ending[i] = "Dropped"

LifeAt(i) ==
  /\ TokenAt(i)
  /\ pc[i] = "prepare" => i \notin holders /\ Untouched(i)
  /\ pc[i] = "skip" => EarlyReturn(i)
  /\ pc[i] = "unwindCall" =>
       /\ i \notin Catching /\ task[i] = "owned" /\ info[i] = None
       /\ first[i] # None /\ payload[i] = first[i]
  /\ pc[i] \in {"out", "commit", "rollback"} => i \notin holders \/ first[i] = "LockRelease"
  /\ pc[i] = "reopen" => i \in holders /\ i \in Reopening
  /\ pc[i] = "unwindTask" /\ task[i] = "Ok" => first[i] = "LockRelease"
  /\ pc[i] = "out" => locked[i] = "Ok" \/ Failed(i)
  /\ pc[i] = "commit" => Returned(i) /\ task[i] = "Ok"
  /\ pc[i] \in Finalizing \ {"commit"} => Failed(i)
  /\ pc[i] = "done" => ReturnedFrom(i) /\ EndingTold(i)
  /\ pc[i] = "unwound" => first[i] # None /\ payload[i] = first[i]

LifeInv == \A i \in Calls : LifeAt(i)

\* FinalizerMatchesTask, for one call.
Matches(i) ==
  /\ token[i] = "committed" => task[i] = "Ok" /\ first[i] \in {None, "Commit"}
  /\ token[i] = "rolledBack" => task[i] # "Ok" \/ first[i] = "LockRelease"

\* What the invariant says of one call.
CallAt(i) == PhaseAt(i) /\ LocalsAt(i) /\ LifeAt(i) /\ Matches(i)

Inv == TypeOK /\ CoreInv /\ LifeInv /\ FinalizerMatchesTask

LEMMA InvCallAt == ASSUME Inv, NEW i \in Calls PROVE CallAt(i)
BY DEF Inv, CoreInv, CallInv, LifeInv, FinalizerMatchesTask, CallAt, Matches

(***************************************************************************)
(* The steps outside the locked phase.                                     *)
(***************************************************************************)

EarlyStep(i) ==
  \/ CheckPasses(i) \/ CheckRejects(i) \/ CheckPanics(i)
  \/ PrepareReturns(i) \/ PrepareFails(i) \/ PreparePanics(i)
  \/ SkipTask(i) \/ SkipTaskPanics(i) \/ UnwindCall(i)

FinalStep(i) ==
  \/ ChooseFinalizer(i)
  \/ \E e \in Endings : FinishCommit(i, e)
  \/ \E e \in Endings : FinishRollback(i, e)
  \/ FinishCommitPanics(i) \/ FinishRollbackPanics(i)
  \/ RollbackLocks(i) \/ RollbackReopens(i)

\* Everything of another call, its ownership of the lock included.
Same(j) ==
  /\ pc'[j] = pc[j] /\ phase'[j] = phase[j] /\ task'[j] = task[j]
  /\ payload'[j] = payload[j] /\ info'[j] = info[j]
  /\ locked'[j] = locked[j] /\ first'[j] = first[j]
  /\ token'[j] = token[j] /\ fin'[j] = fin[j] /\ result'[j] = result[j]
  /\ ending'[j] = ending[j]
  /\ (j \in holders' <=> j \in holders)

LEMMA SameCallAt == ASSUME NEW j \in Calls, Same(j), CallAt(j) PROVE CallAt(j)'
BY DEF Same, CallAt, PhaseAt, LocalsAt, LifeAt, TokenAt, EarlyReturn, Failed, ReturnedFrom,
       EndingTold, Matches, Quiet, Untouched, Rejected, Returned, Unwinding

LEMMA EarlyStepIsLocal ==
  ASSUME TypeOK, NEW i \in Calls, EarlyStep(i), NEW j \in Calls, j # i
  PROVE  Same(j)
<1> USE DEF TypeOK, CoreTypeOK, Same, shared, lifeVars, Goto, SetPhase, Raise, NotePanic, Decide
<1>1. CASE CheckPasses(i) \/ CheckRejects(i)
  BY <1>1 DEF CheckPasses, CheckRejects
<1>2. CASE CheckPanics(i) \/ PreparePanics(i)
  BY <1>2 DEF CheckPanics, PreparePanics, PanicsEarly
<1>3. CASE PrepareReturns(i) \/ PrepareFails(i)
  BY <1>3 DEF PrepareReturns, PrepareFails, EnterLocked
<1>4. CASE SkipTask(i) \/ SkipTaskPanics(i) \/ UnwindCall(i)
  BY <1>4 DEF SkipTask, SkipTaskPanics, UnwindCall
<1> QED
  BY <1>1, <1>2, <1>3, <1>4 DEF EarlyStep

LEMMA FinalStepIsLocal ==
  ASSUME TypeOK, NEW i \in Calls, FinalStep(i), NEW j \in Calls, j # i
  PROVE  Same(j)
<1> USE DEF TypeOK, CoreTypeOK, Same, shared, lifeVars, Goto, SetPhase, Raise, NotePanic, Decide,
      FinalizeCommit, ConsumeByCommit, FinalizeRollback, ConsumeByRollback
<1>1. CASE ChooseFinalizer(i)
  BY <1>1 DEF ChooseFinalizer
<1>2. CASE (\E e \in Endings : FinishCommit(i, e)) \/ FinishCommitPanics(i)
  BY <1>2 DEF FinishCommit, FinishCommitPanics
<1>3. CASE \E e \in Endings : FinishRollback(i, e)
  BY <1>3 DEF FinishRollback
<1>4. CASE FinishRollbackPanics(i)
  BY <1>4 DEF FinishRollbackPanics
<1>5. CASE RollbackLocks(i)
  BY <1>5 DEF RollbackLocks
<1>6. CASE RollbackReopens(i)
  BY <1>6 DEF RollbackReopens
<1> QED
  BY <1>1, <1>2, <1>3, <1>4, <1>5, <1>6 DEF FinalStep

LEMMA Control_LockedNames == LockedNames \subseteq Control
BY DEF LockedNames, Control

LEMMA InitInv == Init => Inv
<1> SUFFICES ASSUME Init PROVE Inv
  OBVIOUS
<1>1. CoreInv
  BY CoreInit_CoreInv DEF Init
<1>2. TypeOK
  <2>1. gate \in BOOLEAN /\ poisoned \in BOOLEAN
    BY Zenon DEF Init, CoreInit
  <2> QED
    BY <2>1 DEF Init, CoreInit, TypeOK, CoreTypeOK, Control, LockedControl
<1>3. LifeInv
  BY DEF Init, CoreInit, LifeInv, LifeAt, TokenAt, LockedControl, Finalizing
<1>4. FinalizerMatchesTask
  BY DEF Init, FinalizerMatchesTask
<1> QED
  BY <1>1, <1>2, <1>3, <1>4 DEF Inv

LEMMA EarlyStepTypeOK == ASSUME TypeOK, NEW i \in Calls, EarlyStep(i) PROVE TypeOK'
<1> USE CoreAssumption DEF TypeOK, CoreTypeOK, Control, LockedControl, LifecycleOutcomes, CapturedLifecycleOutcomes,
      FinalizationOutcomes, CapturedFinalizationOutcomes, Phases, Ran, None, shared, lifeVars, Goto, SetPhase, Raise, NotePanic, Decide
<1>1. CASE CheckPasses(i) \/ CheckRejects(i)
  BY <1>1 DEF CheckPasses, CheckRejects
<1>2. CASE CheckPanics(i) \/ PreparePanics(i)
  BY <1>2 DEF CheckPanics, PreparePanics, PanicsEarly
<1>3. CASE PrepareReturns(i) \/ PrepareFails(i)
  BY <1>3 DEF PrepareReturns, PrepareFails, EnterLocked
<1>4. CASE SkipTask(i) \/ UnwindCall(i)
  BY <1>4 DEF SkipTask, UnwindCall
<1>5. CASE SkipTaskPanics(i)
  BY <1>5 DEF SkipTaskPanics
<1> QED
  BY <1>1, <1>2, <1>3, <1>4, <1>5 DEF EarlyStep

LEMMA FinalStepTypeOK ==
  ASSUME TypeOK, NEW i \in Calls, CallAt(i), FinalStep(i)
  PROVE  TypeOK'
<1> USE DEF TypeOK, CoreTypeOK, Control, LockedControl, LifecycleOutcomes, CapturedLifecycleOutcomes,
      FinalizationOutcomes, CapturedFinalizationOutcomes, Endings, Reported, Phases, None, shared,
      lifeVars, Goto, Raise, NotePanic, Decide, FinalizeCommit, ConsumeByCommit,
      FinalizeRollback, ConsumeByRollback
<1> DEFINE outcome == IntoOutcome(i)
<1>1. pc[i] \in Finalizing \ {"commit"} /\ ~Resumes(i) =>
        /\ outcome \in CapturedLifecycleOutcomes
        /\ i \notin Catching => outcome \in LifecycleOutcomes
  BY DEF CallAt, LifeAt, Failed, Quiet, IntoOutcome, RolledBack, CapturedRolledBack, Resumes
<1> HIDE DEF outcome
<1>2. CASE ChooseFinalizer(i)
  BY <1>2 DEF ChooseFinalizer
<1>3. CASE \E e \in Endings : FinishCommit(i, e)
  BY <1>3 DEF FinishCommit
<1>4. CASE FinishCommitPanics(i)
  <2>1. /\ token' \in [Calls -> {"none", "held", "committed", "rolledBack", "dropped"}]
        /\ ending' \in [Calls -> Endings \cup {None}]
    BY <1>4 DEF FinishCommitPanics
  <2>2. CoreTypeOK(Control)'
    BY <1>4 DEF FinishCommitPanics
  <2>3. /\ fin' \in [Calls -> CapturedFinalizationOutcomes \cup {None}]
        /\ result' \in [Calls -> CapturedLifecycleOutcomes \cup {None}]
        /\ \A j \in Calls \ Catching : fin'[j] = fin[j] /\ result'[j] = result[j]
    BY <1>4 DEF FinishCommitPanics
  <2> QED
    BY <2>1, <2>2, <2>3
<1>5. CASE \E e \in Endings : FinishRollback(i, e)
  BY <1>1, <1>5 DEF FinishRollback, Finalizing, outcome
<1>6. CASE FinishRollbackPanics(i)
  <2>1. i \in Catching => outcome \in CapturedLifecycleOutcomes
    BY <1>1, <1>6 DEF FinishRollbackPanics, Finalizing, Resumes
  <2>2. poisoned' \in BOOLEAN
    BY <1>6, CoreAssumption, Zenon DEF FinishRollbackPanics
  <2> QED
    BY <1>6, <2>1, <2>2 DEF FinishRollbackPanics, outcome
<1>7. CASE RollbackLocks(i)
  BY <1>7 DEF RollbackLocks
<1>8. CASE RollbackReopens(i)
  <2>1. gate' \in BOOLEAN
    BY <1>8, Zenon DEF RollbackReopens
  <2> QED
    BY <1>8, <2>1 DEF RollbackReopens
<1> QED
  BY <1>2, <1>3, <1>4, <1>5, <1>6, <1>7, <1>8 DEF FinalStep

\* An early step takes its own call to the next row of the invariant.
LEMMA EarlyStepCallAt ==
  ASSUME TypeOK, GuardInv, NEW i \in Calls, CallAt(i), EarlyStep(i)
  PROVE  CallAt(i)'
<1> USE DEF TypeOK, CoreTypeOK, GuardInv, GuardGone, CallAt, PhaseAt, LocalsAt, LifeAt, TokenAt,
      Matches, LockedControl, Finalizing, EarlyReturn, Quiet, Untouched, None,
      shared, lifeVars, Goto, SetPhase, Raise, NotePanic, Decide
<1>1. CASE CheckPasses(i)
  BY <1>1 DEF CheckPasses
<1>2. CASE CheckRejects(i)
  BY <1>2 DEF CheckRejects
<1>3. CASE CheckPanics(i)
  BY <1>3 DEF CheckPanics, PanicsEarly
<1>4. CASE PrepareReturns(i)
  BY <1>4 DEF PrepareReturns, EnterLocked
<1>5. CASE PrepareFails(i)
  BY <1>5 DEF PrepareFails
<1>6. CASE PreparePanics(i)
  BY <1>6 DEF PreparePanics, PanicsEarly
<1>7. CASE SkipTask(i)
  BY <1>7 DEF SkipTask, ReturnedFrom, EndingTold
<1>8. CASE SkipTaskPanics(i)
  BY <1>8 DEF SkipTaskPanics, ReturnedFrom, EndingTold
<1>9. CASE UnwindCall(i)
  BY <1>9 DEF UnwindCall
<1> QED
  BY <1>1, <1>2, <1>3, <1>4, <1>5, <1>6, <1>7, <1>8, <1>9 DEF EarlyStep

\* So does a finalizing step; rollback starts from one of the failures of the
\* locked phase and returns the outcome that belongs to it.
LEMMA FinalStepCallAt ==
  ASSUME TypeOK, GuardInv, NEW i \in Calls, CallAt(i), FinalStep(i)
  PROVE  CallAt(i)'
<1> USE DEF TypeOK, CoreTypeOK, CallAt, PhaseAt, LocalsAt, LifeAt, TokenAt, Matches,
      LockedControl, Finalizing, Failed, Returned, Quiet, None, LockedPanics,
      FinalizationOutcomes, CapturedFinalizationOutcomes, Endings, Reported, FinalizeCommit,
      ConsumeByCommit, FinalizeRollback, ConsumeByRollback, shared, lifeVars, Goto,
      Raise, NotePanic, Decide
<1>1. CASE ChooseFinalizer(i)
  BY <1>1 DEF ChooseFinalizer
<1>2. CASE \E e \in Endings : FinishCommit(i, e)
  BY <1>2 DEF FinishCommit, ReturnedFrom, EndingTold
<1>3. CASE FinishCommitPanics(i)
  BY <1>3 DEF FinishCommitPanics, ReturnedFrom, EndingTold
<1>4. CASE \E e \in Endings : FinishRollback(i, e)
  BY <1>4 DEF FinishRollback, ReturnedFrom, EndingTold, Resumes, IntoOutcome, RolledBack,
     CapturedRolledBack
<1>5. CASE FinishRollbackPanics(i)
  BY <1>5 DEF FinishRollbackPanics, ReturnedFrom, EndingTold, Resumes, IntoOutcome, RolledBack,
     CapturedRolledBack
<1>6. CASE RollbackLocks(i)
  BY <1>6 DEF RollbackLocks
<1>7. CASE RollbackReopens(i)
  BY <1>7 DEF RollbackReopens
<1> QED
  BY <1>1, <1>2, <1>3, <1>4, <1>5, <1>6, <1>7 DEF FinalStep

\* Callers and finalizers leave the guards of the locked phase alone; a rollback
\* callback that takes the lock finds it free.
LEMMA EarlyStepGuardInv ==
  ASSUME TypeOK, GuardInv, NEW i \in Calls, CallAt(i), EarlyStep(i)
  PROVE  GuardInv'
<1> USE DEF TypeOK, CoreTypeOK, GuardInv, NoStaleTask, GuardAlive, GuardGone, CallAt, LifeAt,
      shared, lifeVars, Goto, SetPhase, Raise, NotePanic, Decide
<1>1. CASE CheckPasses(i) \/ CheckRejects(i)
  BY <1>1 DEF CheckPasses, CheckRejects
<1>2. CASE CheckPanics(i) \/ PreparePanics(i)
  BY <1>2 DEF CheckPanics, PreparePanics, PanicsEarly
<1>3. CASE PrepareReturns(i) \/ PrepareFails(i)
  BY <1>3 DEF PrepareReturns, PrepareFails, EnterLocked
<1>4. CASE SkipTask(i) \/ SkipTaskPanics(i) \/ UnwindCall(i)
  BY <1>4 DEF SkipTask, SkipTaskPanics, UnwindCall
<1> QED
  BY <1>1, <1>2, <1>3, <1>4 DEF EarlyStep

LEMMA FinalStepGuardInv ==
  ASSUME TypeOK, GuardInv, NEW i \in Calls, CallAt(i), FinalStep(i)
  PROVE  GuardInv'
<1> USE CoreAssumption DEF TypeOK, CoreTypeOK, GuardInv, NoStaleTask, GuardAlive, GuardGone,
      shared, lifeVars, Goto, Raise, NotePanic, Decide
<1>1. CASE ChooseFinalizer(i)
  BY <1>1 DEF ChooseFinalizer
<1>2. CASE (\E e \in Endings : FinishCommit(i, e)) \/ FinishCommitPanics(i)
  BY <1>2 DEF FinishCommit, FinishCommitPanics
<1>3. CASE \E e \in Endings : FinishRollback(i, e)
  BY <1>3 DEF FinishRollback
<1>4. CASE FinishRollbackPanics(i)
  BY <1>4 DEF FinishRollbackPanics
<1>5. CASE RollbackLocks(i)
  BY <1>5 DEF RollbackLocks
<1>6. CASE RollbackReopens(i)
  BY <1>6 DEF RollbackReopens
<1> QED
  BY <1>1, <1>2, <1>3, <1>4, <1>5, <1>6 DEF FinalStep

LEMMA EarlyStepPoisons ==
  ASSUME TypeOK, UnwoundGuardPoisons, NEW i \in Calls, CallAt(i), EarlyStep(i)
  PROVE  UnwoundGuardPoisons'
<1> USE DEF TypeOK, CoreTypeOK, UnwoundGuardPoisons, Poisons, None, CallAt, LifeAt,
      shared, lifeVars, Goto, SetPhase, Raise, NotePanic, Decide
<1>1. CASE CheckPasses(i) \/ CheckRejects(i)
  BY <1>1 DEF CheckPasses, CheckRejects
<1>2. CASE CheckPanics(i) \/ PreparePanics(i)
  BY <1>2 DEF CheckPanics, PreparePanics, PanicsEarly
<1>3. CASE PrepareReturns(i) \/ PrepareFails(i)
  BY <1>3 DEF PrepareReturns, PrepareFails, EnterLocked
<1>4. CASE SkipTask(i) \/ SkipTaskPanics(i) \/ UnwindCall(i)
  BY <1>4 DEF SkipTask, SkipTaskPanics, UnwindCall
<1> QED
  BY <1>1, <1>2, <1>3, <1>4 DEF EarlyStep

LEMMA FinalStepPoisons ==
  ASSUME TypeOK, UnwoundGuardPoisons, NEW i \in Calls, FinalStep(i)
  PROVE  UnwoundGuardPoisons'
<1> USE DEF TypeOK, CoreTypeOK, UnwoundGuardPoisons, Poisons, None,
      shared, lifeVars, Goto, Raise, NotePanic, Decide
<1>1. CASE ChooseFinalizer(i)
  BY <1>1 DEF ChooseFinalizer
<1>2. CASE (\E e \in Endings : FinishCommit(i, e)) \/ FinishCommitPanics(i)
  BY <1>2 DEF FinishCommit, FinishCommitPanics
<1>3. CASE \E e \in Endings : FinishRollback(i, e)
  BY <1>3 DEF FinishRollback
<1>4. CASE FinishRollbackPanics(i)
  BY <1>4 DEF FinishRollbackPanics
<1>5. CASE RollbackLocks(i) \/ RollbackReopens(i)
  BY <1>5 DEF RollbackLocks, RollbackReopens
<1> QED
  BY <1>1, <1>2, <1>3, <1>4, <1>5 DEF FinalStep

(***************************************************************************)
(* Every step preserves the invariant.                                     *)
(***************************************************************************)

\* The invariant, reassembled from its row for each call.
LEMMA InvFromCalls ==
  ASSUME TypeOK, GuardInv, UnwoundGuardPoisons, \A j \in Calls : CallAt(j)
  PROVE  Inv
BY DEF Inv, CoreInv, CallInv, LifeInv, FinalizerMatchesTask, CallAt, Matches

LEMMA OwnStepInv ==
  ASSUME Inv, NEW i \in Calls, EarlyStep(i) \/ FinalStep(i)
  PROVE  Inv'
<1>1. CallAt(i) /\ TypeOK /\ GuardInv /\ UnwoundGuardPoisons
  BY InvCallAt DEF Inv, CoreInv
<1>2. TypeOK' /\ GuardInv' /\ UnwoundGuardPoisons' /\ CallAt(i)'
  BY <1>1, EarlyStepTypeOK, FinalStepTypeOK, EarlyStepGuardInv, FinalStepGuardInv,
     EarlyStepPoisons, FinalStepPoisons, EarlyStepCallAt, FinalStepCallAt
<1>3. ASSUME NEW j \in Calls, j # i PROVE CallAt(j)'
  BY <1>1, <1>3, InvCallAt, EarlyStepIsLocal, FinalStepIsLocal, SameCallAt
<1>4. \A j \in Calls : CallAt(j)'
  BY <1>2, <1>3
<1> QED
  BY <1>2, <1>4 DEF Inv, CoreInv, CallInv, LifeInv, FinalizerMatchesTask, CallAt, Matches

\* The locked phase leaves the token alone and reports one of the cases
\* finalization expects.
LEMMA LockedStepLife ==
  ASSUME TypeOK, GuardInv, NEW i \in Calls, CallAt(i), LockedStep(i), UNCHANGED lifeVars
  PROVE  LifeAt(i)' /\ Matches(i)'
<1> USE DEF TypeOK, CoreTypeOK, GuardInv, GuardAlive, GuardGone, CallAt, PhaseAt, LocalsAt,
      LifeAt, TokenAt, Matches, LockedControl, Finalizing, Failed, Rejected, Returned, Untouched,
      Unwinding, Quiet, None, LockedPanics, lifeVars, shared, Goto, SetPhase, Raise, NotePanic
<1>1. CASE AcquireLock(i)
  BY <1>1 DEF AcquireLock
<1>2. CASE LockPanics(i)
  BY <1>2 DEF LockPanics
<1>3. CASE SecondCheck(i) \/ SecondReject(i) \/ SecondPanics(i)
  BY <1>3 DEF SecondCheck, SecondReject, SecondPanics
<1>4. CASE TaskCloses(i)
  BY <1>4 DEF TaskCloses
<1>5. CASE TaskPanics(i)
  BY <1>5 DEF TaskPanics
<1>6. CASE \E r \in {"Ok", "Err"} : TaskReturns(i, r)
  BY <1>6 DEF TaskReturns
<1>7. CASE ReleaseGuard(i)
  BY <1>7 DEF ReleaseGuard, AfterRelease
<1>8. CASE ReleasePanics(i)
  BY <1>8 DEF ReleasePanics
<1>9. CASE DropRejected(i)
  BY <1>9 DEF DropRejected
<1>10. CASE DropRejectedPanics(i)
  BY <1>10 DEF DropRejectedPanics
<1>11. CASE UnwindGuard(i)
  BY <1>11 DEF UnwindGuard
<1>12. CASE UnwindTask(i)
  BY <1>12 DEF UnwindTask
<1>13. CASE DoublePanic(i)
  BY <1>13 DEF DoublePanic
<1> QED
  BY <1>1, <1>2, <1>3, <1>4, <1>5, <1>6, <1>7, <1>8, <1>9, <1>10, <1>11, <1>12, <1>13
     DEF LockedStep

LEMMA LockedStepInv ==
  ASSUME Inv, NEW i \in Calls, LockedStep(i), UNCHANGED lifeVars
  PROVE  Inv'
<1>1. TypeOK /\ CoreInv /\ GuardInv
  BY DEF Inv, CoreInv
<1>2. CoreTypeOK(Control)' /\ CoreInv'
  BY <1>1, LockedStepCoreInv, Control_LockedNames DEF TypeOK
<1>3. TypeOK'
  BY <1>1, <1>2 DEF TypeOK, lifeVars
<1>4. LifeAt(i)' /\ Matches(i)'
  BY <1>1, InvCallAt, LockedStepLife
<1>5. ASSUME NEW j \in Calls, j # i PROVE LifeAt(j)' /\ Matches(j)'
  <2>1. Same(j)
    BY <1>1, <1>5, LockedStepIsLocal DEF TypeOK, Same, lifeVars
  <2> QED
    BY <2>1, InvCallAt, SameCallAt DEF CallAt
<1>6. LifeInv' /\ FinalizerMatchesTask'
  BY <1>4, <1>5 DEF LifeInv, FinalizerMatchesTask, Matches
<1> QED
  BY <1>2, <1>3, <1>6 DEF Inv

\* An outside writer owns no call, so it cannot move any call's ownership.
LEMMA OutsideStepInv ==
  ASSUME Inv, NEW u \in Updaters, OutsideStep(u)
  PROVE  Inv'
<1>1. TypeOK /\ CoreInv /\ ExternalStep(u) /\ UNCHANGED lifeVars
  BY DEF Inv, OutsideStep
<1>2. CoreTypeOK(Control)' /\ CoreInv'
  BY <1>1, ExternalStepCoreInv DEF TypeOK
<1>3. TypeOK'
  BY <1>1, <1>2 DEF TypeOK, lifeVars
<1>4. \A j \in Calls : j \in holders' <=> j \in holders
  BY <1>1, CoreAssumption
     DEF CoreInv, GuardInv, ExternalStep, ExternalAcquire, ExternalStore, ExternalGivesUp
<1>5. ASSUME NEW j \in Calls PROVE LifeAt(j)' /\ Matches(j)'
  <2>1. Same(j)
    BY <1>1, <1>4, ExternalStepIsLocal DEF Same, lifeVars
  <2> QED
    BY <2>1, InvCallAt, SameCallAt DEF CallAt
<1>6. LifeInv' /\ FinalizerMatchesTask'
  BY <1>5 DEF LifeInv, FinalizerMatchesTask, Matches
<1> QED
  BY <1>2, <1>3, <1>6 DEF Inv

LEMMA StutterInv == ASSUME Inv, UNCHANGED vars PROVE Inv'
<1>1. TypeOK' /\ GuardInv' /\ UnwoundGuardPoisons'
  BY DEF vars, coreVars, Inv, TypeOK, CoreTypeOK, CoreInv, GuardInv, NoStaleTask,
         UnwoundGuardPoisons, Poisons
<1>2. ASSUME NEW j \in Calls PROVE CallAt(j)'
  BY InvCallAt, SameCallAt DEF vars, coreVars, Same
<1> QED
  BY <1>1, <1>2 DEF Inv, CoreInv, CallInv, LifeInv, FinalizerMatchesTask, CallAt, Matches

LEMMA NextInv == Inv /\ [Next]_vars => Inv'
<1> SUFFICES ASSUME Inv, [Next]_vars PROVE Inv'
  OBVIOUS
<1>1. CASE UNCHANGED vars
  BY <1>1, StutterInv
<1>2. ASSUME NEW i \in Calls, CallStep(i) PROVE Inv'
  BY <1>2, OwnStepInv, LockedStepInv DEF CallStep, EarlyStep, FinalStep
<1>3. ASSUME NEW u \in Updaters, OutsideStep(u) PROVE Inv'
  BY <1>3, OutsideStepInv
<1> QED
  BY <1>1, <1>2, <1>3 DEF Next, Step

LEMMA SpecInv == Spec => []Inv
BY InitInv, NextInv, PTL DEF Spec

(***************************************************************************)
(* Safety.                                                                 *)
(***************************************************************************)

\* Every variable stays in its type.
THEOREM TypeCorrect == Spec => []TypeOK
<1>1. Inv => TypeOK
  BY DEF Inv
<1> QED
  BY <1>1, SpecInv, PTL

\* A token is committed only after its task and the release of its guard
\* succeeded, and rolled back only when one of them did not.
THEOREM TokensFinalizedByOutcome == Spec => []FinalizerMatchesTask
<1>1. Inv => FinalizerMatchesTask
  BY DEF Inv
<1> QED
  BY <1>1, SpecInv, PTL

\* Commit and rollback start without the executor's guard.
THEOREM FinalizersRunUnlocked == Spec => []FinalizesOutsideGuard
<1>1. Inv => FinalizesOutsideGuard
  BY DEF Inv, LifeInv, LifeAt, FinalizesOutsideGuard
<1> QED
  BY <1>1, SpecInv, PTL

\* The cause a rollback callback is given matches the task and the first panic.
THEOREM RollbackToldWhy == Spec => []RollbackKnowsWhy
<1>1. Inv => RollbackKnowsWhy
  BY DEF Inv, LifeInv, LifeAt, Finalizing, Failed, Quiet, None, LockedPanics, Cause, CauseOf,
         RollbackCauses, RollbackKnowsWhy
<1> QED
  BY <1>1, SpecInv, PTL

\* No panic of a finalizer or of a dropped task replaces an earlier one.
THEOREM FirstPanicWins == Spec => []FirstPanicDecides
<1>1. Inv => FirstPanicDecides
  BY DEF Inv, LifeInv, LifeAt, ReturnedFrom, Quiet, None, FirstPanicDecides
<1> QED
  BY <1>1, SpecInv, PTL

\* The outcome returned is true of task, token and panic.
THEOREM OutcomeTruthful == Spec => []OutcomeTellsWhatHappened
<1>1. Inv => OutcomeTellsWhatHappened
  BY DEF Inv, LifeInv, LifeAt, ReturnedFrom, EndingTold, Quiet, None, CapturedFinalizationOutcomes,
         FinalizationOutcomes, OutcomeTellsWhatHappened
<1> QED
  BY <1>1, SpecInv, PTL

\* Tasks of lifecycle calls are serialized by the guard of their locked phase,
\* whatever prepare and the rollbacks of other calls do meanwhile.
THEOREM TasksSerialized == Spec => []SerializedTasks
<1>1. Inv => SerializedTasks
  BY GuardInvSerializes DEF Inv, CoreInv
<1> QED
  BY <1>1, SpecInv, PTL

\* A task starts with the gate open, however long prepare and the wait for the
\* lock took, and rollbacks of others cannot close it again.
THEOREM TasksNotStale == Spec => []NoStaleTask
<1>1. Inv => NoStaleTask
  BY DEF Inv, CoreInv, GuardInv
<1> QED
  BY <1>1, SpecInv, PTL

\* A panic of the second check or the task poisons an exclusive standard lock,
\* although both lifecycle methods capture it before they roll back.
THEOREM PoisonPreserved == Spec => []UnwoundGuardPoisons
<1>1. Inv => UnwoundGuardPoisons
  BY DEF Inv, CoreInv
<1> QED
  BY <1>1, SpecInv, PTL

\* Where a task is dropped unexecuted outside the locked phase, its call has
\* not taken the lock at all.
LEMMA OwnStepDrops ==
  ASSUME Inv, NEW i \in Calls, EarlyStep(i) \/ FinalStep(i),
         NEW j \in Calls, task[j] = "owned", task'[j] = "dropped"
  PROVE  j \notin holders
<1>1. j = i
  BY EarlyStepIsLocal, FinalStepIsLocal DEF Inv, Same
<1>2. ~FinalStep(i)
  BY <1>1 DEF FinalStep, ChooseFinalizer, FinishCommit, FinishCommitPanics, FinishRollback,
     FinishRollbackPanics, RollbackLocks, RollbackReopens
<1>3. pc[i] \in {"skip", "unwindCall"}
  BY <1>1, <1>2 DEF EarlyStep, CheckPasses, CheckRejects, CheckPanics, PrepareReturns, PrepareFails,
     PreparePanics, PanicsEarly, SkipTask, SkipTaskPanics, UnwindCall
<1> QED
  BY <1>1, <1>3 DEF Inv, CoreInv, GuardInv, GuardGone

\* The captures of a task that never ran are dropped outside the guard.
THEOREM DropsOutsideGuard == Spec => SkippedTaskDropsOutsideGuard
<1> DEFINE Drops == \A i \in Calls :
              task[i] = "owned" /\ task'[i] = "dropped" =>
                i \notin holders \/ first[i] = "LockRelease"
<1>1. Inv /\ [Next]_vars => [Drops]_coreVars
  <2> SUFFICES ASSUME Inv, [Next]_vars, NEW j \in Calls, task[j] = "owned", task'[j] = "dropped"
               PROVE  j \notin holders \/ first[j] = "LockRelease"
    OBVIOUS
  <2>1. CASE UNCHANGED vars
    BY <2>1 DEF vars, coreVars
  <2>2. ASSUME NEW i \in Calls, CallStep(i) PROVE j \notin holders \/ first[j] = "LockRelease"
    BY <2>2, OwnStepDrops, LockedStepDrops DEF Inv, TypeOK, CallStep, EarlyStep, FinalStep
  <2>3. ASSUME NEW u \in Updaters, OutsideStep(u) PROVE j \notin holders \/ first[j] = "LockRelease"
    BY <2>3, ExternalStepIsLocal DEF OutsideStep
  <2> QED
    BY <2>1, <2>2, <2>3 DEF Next, Step
<1> QED
  BY <1>1, SpecInv, PTL DEF Spec, SkippedTaskDropsOutsideGuard

(***************************************************************************)
(* Waiting.  The lock is taken twice by a call whose rollback compensates, *)
(* but never while the call still owns it.                                 *)
(***************************************************************************)

\* An early step happens without the lock, a finalizing one without it or in
\* the section of the rollback callback, or behind a guard that leaked.
LEMMA OwnStepOwners ==
  ASSUME Inv, OwnerInv, NEW i \in Calls, EarlyStep(i) \/ FinalStep(i)
  PROVE  OwnerInv'
<1>1. \A j \in Calls \ {i} : Same(j)
  BY EarlyStepIsLocal, FinalStepIsLocal DEF Inv
<1>2. TypeOK /\ GuardInv /\ CallAt(i)
  BY InvCallAt DEF Inv, CoreInv
<1>3. ASSUME NEW u \in Updaters, u \in holders' PROVE ext'[u] = "holding"
  <2>1. u \in holders /\ ext' = ext
    BY <1>3, CoreAssumption DEF EarlyStep, CheckPasses, CheckRejects, CheckPanics, PrepareReturns,
       PrepareFails, PreparePanics, PanicsEarly, SkipTask, SkipTaskPanics, UnwindCall, EnterLocked,
       FinalStep, ChooseFinalizer, FinishCommit, FinishCommitPanics, FinishRollback,
       FinishRollbackPanics, RollbackLocks, RollbackReopens, shared
  <2> QED
    BY <2>1 DEF OwnerInv
<1>4. ASSUME EarlyStep(i) PROVE i \notin holders'
  <2>1. UNCHANGED holders /\ pc[i] \in GuardGone \cup {"prepare"}
    BY <1>4 DEF EarlyStep, CheckPasses, CheckRejects, CheckPanics, PrepareReturns, PrepareFails,
       PreparePanics, PanicsEarly, SkipTask, SkipTaskPanics, UnwindCall, EnterLocked, shared, GuardGone
  <2> QED
    BY <1>2, <2>1 DEF GuardInv, CallAt, LifeAt
<1>5. ASSUME FinalStep(i), i \in holders'
      PROVE  pc'[i] \in OwningControl \/ first'[i] = "LockRelease"
  <2> USE <1>2, <1>5 DEF OwnerInv, OwningControl, GuardAlive, TypeOK, CoreTypeOK, None, shared,
        lifeVars, Goto, Raise, NotePanic, Decide
  <2>1. CASE ChooseFinalizer(i)
    BY <2>1 DEF ChooseFinalizer
  <2>2. CASE (\E e \in Endings : FinishCommit(i, e)) \/ FinishCommitPanics(i)
    BY <2>2 DEF FinishCommit, FinishCommitPanics
  <2>3. CASE \E e \in Endings : FinishRollback(i, e)
    BY <2>3 DEF FinishRollback
  <2>4. CASE FinishRollbackPanics(i)
    BY <2>4 DEF FinishRollbackPanics
  <2>5. CASE RollbackLocks(i) \/ RollbackReopens(i)
    BY <2>5 DEF RollbackLocks, RollbackReopens
  <2> QED
    BY <2>1, <2>2, <2>3, <2>4, <2>5 DEF FinalStep
<1> QED
  BY <1>1, <1>3, <1>4, <1>5 DEF OwnerInv, Same

LEMMA NextOwners == Inv /\ OwnerInv /\ [Next]_vars => OwnerInv'
<1> SUFFICES ASSUME Inv, OwnerInv, [Next]_vars PROVE OwnerInv'
  OBVIOUS
<1>1. CASE UNCHANGED vars
  BY <1>1 DEF vars, coreVars, OwnerInv
<1>2. ASSUME NEW i \in Calls, CallStep(i) PROVE OwnerInv'
  BY <1>2, OwnStepOwners, LockedStepOwners DEF CallStep, EarlyStep, FinalStep, Inv, TypeOK
<1>3. ASSUME NEW u \in Updaters, OutsideStep(u) PROVE OwnerInv'
  BY <1>3, ExternalStepOwners DEF OutsideStep, Inv, TypeOK
<1> QED
  BY <1>1, <1>2, <1>3 DEF Next, Step

\* Nobody waits for a call that waits or has ended, itself included: a rollback
\* that locks never meets the guard of its own call, unless that guard leaked.
THEOREM NoDeadlock == Spec => []NoWaitCycle
<1>1. Init => OwnerInv
  BY CoreInit_OwnerInv DEF Init
<1>2. Inv /\ OwnerInv => NoWaitCycle
  BY CoreAssumption DEF Inv, TypeOK, CoreTypeOK, OwnerInv, OwningControl, GuardAlive, NoWaitCycle,
     OwnersMoveOn, Waiting, Leaking, Ended
<1> QED
  BY <1>1, <1>2, NextOwners, SpecInv, PTL DEF Spec

(***************************************************************************)
(* Termination: the two halves of it that need no fairness.                *)
(***************************************************************************)

LEMMA OwnStepAdvances ==
  ASSUME Inv, NEW i \in Calls, EarlyStep(i) \/ FinalStep(i)
  PROVE  CallAdvances(i)
<1>1. \A j \in Calls \ {i} : pc'[j] = pc[j]
  BY EarlyStepIsLocal, FinalStepIsLocal DEF Inv, Same
<1>2. UNCHANGED ext
  BY DEF EarlyStep, CheckPasses, CheckRejects, CheckPanics, PrepareReturns, PrepareFails,
     PreparePanics, PanicsEarly, SkipTask, SkipTaskPanics, UnwindCall, EnterLocked, FinalStep,
     ChooseFinalizer, FinishCommit, FinishCommitPanics, FinishRollback, FinishRollbackPanics,
     RollbackLocks, RollbackReopens, shared
<1>3. StepsLeft[pc'[i]] < StepsLeft[pc[i]]
  <2> USE DEF Inv, TypeOK, CoreTypeOK, Goto, StepsLeft
  <2>1. CASE CheckPasses(i) \/ CheckRejects(i)
    BY <2>1 DEF CheckPasses, CheckRejects
  <2>2. CASE CheckPanics(i) \/ PreparePanics(i)
    BY <2>2 DEF CheckPanics, PreparePanics, PanicsEarly
  <2>3. CASE PrepareReturns(i) \/ PrepareFails(i)
    BY <2>3 DEF PrepareReturns, PrepareFails, EnterLocked
  <2>4. CASE SkipTask(i) \/ SkipTaskPanics(i) \/ UnwindCall(i)
    BY <2>4 DEF SkipTask, SkipTaskPanics, UnwindCall
  <2>5. CASE ChooseFinalizer(i)
    BY <2>5 DEF ChooseFinalizer
  <2>6. CASE (\E e \in Endings : FinishCommit(i, e)) \/ FinishCommitPanics(i)
    BY <2>6 DEF FinishCommit, FinishCommitPanics
  <2>7. CASE \E e \in Endings : FinishRollback(i, e)
    BY <2>7 DEF FinishRollback
  <2>8. CASE FinishRollbackPanics(i)
    BY <2>8 DEF FinishRollbackPanics
  <2>9. CASE RollbackLocks(i) \/ RollbackReopens(i)
    BY <2>9 DEF RollbackLocks, RollbackReopens
  <2> QED
    BY <2>1, <2>2, <2>3, <2>4, <2>5, <2>6, <2>7, <2>8, <2>9 DEF EarlyStep, FinalStep
<1> QED
  BY <1>1, <1>2, <1>3 DEF CallAdvances

\* Every step brings one call or writer closer to its end: no callback, lock or
\* finalizer is tried twice, so a call takes at most 17 steps.
THEOREM StepsAdvance == Spec => [][Advance]_vars
<1>1. Inv /\ [Next]_vars => [Advance]_vars
  <2> SUFFICES ASSUME Inv, Next, ~UNCHANGED vars PROVE Advance
    OBVIOUS
  <2>1. ASSUME NEW i \in Calls, CallStep(i) PROVE CallAdvances(i)
    BY <2>1, OwnStepAdvances, LockedStepAdvances DEF CallStep, EarlyStep, FinalStep, Inv, TypeOK
  <2>2. ASSUME NEW u \in Updaters, OutsideStep(u) PROVE WriterAdvances(u)
    BY <2>2, ExternalStepAdvances DEF OutsideStep, Inv, TypeOK
  <2> QED
    BY <2>1, <2>2 DEF Next, Step, Advance
<1> QED
  BY <1>1, SpecInv, PTL DEF Spec

\* The guards of a call's steps: it may have to wait in lock(), and where its
\* rollback callback locks.
CanMove(i) ==
  /\ ~Ended(i)
  /\ pc[i] = "lock" => Compatible(i)
  /\ pc[i] = "rollback" /\ i \in Reopening => holders = {}

\* Until all have ended somebody has a step to take, unless a guard that
\* panicked in its destructor kept the lock.
SomebodyCanMove ==
  \/ Finished
  \/ \E i \in Calls : CanMove(i)
  \/ \E u \in Updaters : WriterCanMove(u)
  \/ \E h \in holders : Leaking(h)

\* With any number of calls and writers, and rollbacks that lock again, the
\* executor stops only when all have ended or a lock was leaked.
THEOREM NobodyStuck == Spec => []SomebodyCanMove
<1>1. Init => OwnerInv
  BY CoreInit_OwnerInv DEF Init
<1>2. Inv /\ OwnerInv => SomebodyCanMove
  <2> SUFFICES ASSUME Inv, OwnerInv, ~Finished, \A h \in holders : ~Leaking(h)
               PROVE  \/ \E i \in Calls : CanMove(i)
                      \/ \E u \in Updaters : WriterCanMove(u)
    BY DEF SomebodyCanMove
  <2>1. CASE holders = {}
    BY <2>1 DEF Finished, Ended, CanMove, WriterCanMove, Compatible, Inv, TypeOK, CoreTypeOK
  <2>2. ASSUME NEW h \in holders, h \in Calls PROVE CanMove(h)
    BY <2>2 DEF OwnerInv, OwningControl, GuardAlive, Leaking, Finished, Aborted, Ended, CanMove
  <2>3. ASSUME NEW h \in holders, h \in Updaters PROVE WriterCanMove(h)
    BY <2>3 DEF OwnerInv, WriterCanMove
  <2> QED
    BY <2>1, <2>2, <2>3 DEF Inv, TypeOK, CoreTypeOK
<1> QED
  BY <1>1, <1>2, NextOwners, SpecInv, PTL DEF Spec

(***************************************************************************)
(* The token's lifecycle: every step of the executor is a step of          *)
(* TokenLifecycle or leaves it where it is.                                *)
(***************************************************************************)

Stages == [i \in Calls |-> Stage(i)]

\* The edges of TokenLifecycle, for call i.
Edge(i) ==
  \/ Stage(i)' = Stage(i)
  \/ Stage(i) = "idle" /\ Stage(i)' \in {"refused", "prepared"}
  \/ Stage(i) = "prepared" /\ Stage(i)' = "worked"
  \/ Stage(i) = "worked" /\ Stage(i)' = "won"
  \/ Stage(i) \in {"prepared", "worked"} /\ Stage(i)' = "lost"
  \/ Stage(i) = "won" /\ Stage(i)' = IF i \in Commits THEN "committed" ELSE "dropped"
  \/ Stage(i) = "lost" /\ Stage(i)' = IF i \in Rollbacks THEN "rolledBack" ELSE "dropped"

LEMMA EdgeIsStep ==
  ASSUME NEW i \in Calls, Edge(i), ~Aborted, ~Aborted',
         \A j \in Calls \ {i} : Stage(j)' = Stage(j)
  PROVE  [Tokens!Next]_(Tokens!vars)
<1>1. Stages' = [Stages EXCEPT ![i] = Stage(i)']
  BY DEF Stages
<1>2. Aborted' = Aborted
  BY DEF Aborted
<1>3. ASSUME NEW from, NEW to, Stage(i) \in from, Stage(i)' = to PROVE Tokens!Move(i, from, to)
  BY <1>1, <1>2, <1>3 DEF Tokens!Move, Stages
<1>4. CASE Stage(i)' = Stage(i)
  BY <1>1, <1>2, <1>4 DEF Stages, Tokens!vars
<1>5. CASE Stage(i) = "idle" /\ Stage(i)' \in {"refused", "prepared"}
  BY <1>3, <1>5 DEF Tokens!Next, Tokens!CallStep, Tokens!Refuse, Tokens!Prepare
<1>6. CASE Stage(i) \in {"prepared", "worked"} /\ Stage(i)' = "lost"
  BY <1>3, <1>6 DEF Tokens!Next, Tokens!CallStep, Tokens!Lose
<1>7. CASE Stage(i) = "prepared" /\ Stage(i)' = "worked"
  BY <1>3, <1>7 DEF Tokens!Next, Tokens!CallStep, Tokens!Work
<1>8. CASE Stage(i) = "worked" /\ Stage(i)' = "won"
  BY <1>3, <1>8 DEF Tokens!Next, Tokens!CallStep, Tokens!Win
<1>9. CASE Stage(i) = "won" /\ Stage(i)' = IF i \in Commits THEN "committed" ELSE "dropped"
  BY <1>3, <1>9 DEF Tokens!Next, Tokens!CallStep, Tokens!Commit
<1>10. CASE Stage(i) = "lost" /\ Stage(i)' = IF i \in Rollbacks THEN "rolledBack" ELSE "dropped"
  BY <1>3, <1>10 DEF Tokens!Next, Tokens!CallStep, Tokens!Undo
<1> QED
  BY <1>4, <1>5, <1>6, <1>7, <1>8, <1>9, <1>10 DEF Edge

\* A process that goes down takes no token further.
LEMMA AbortIsCrash ==
  ASSUME NEW i \in Calls, Stage(i)' = Stage(i), ~Aborted, Aborted',
         \A j \in Calls \ {i} : Stage(j)' = Stage(j)
  PROVE  [Tokens!Next]_(Tokens!vars)
<1>1. Stages' = Stages
  BY DEF Stages
<1> QED
  BY <1>1 DEF Stages, Tokens!Next, Tokens!Crash

LEMMA SameStage == ASSUME NEW j \in Calls, Same(j) PROVE Stage(j)' = Stage(j)
BY DEF Same, Stage

LEMMA EarlyStepEdge ==
  ASSUME TypeOK, NEW i \in Calls, CallAt(i), EarlyStep(i)
  PROVE  Edge(i) /\ (pc'[i] = "abort" => Stage(i)' = Stage(i))
<1> USE DEF TypeOK, CoreTypeOK, CallAt, LifeAt, TokenAt, LocalsAt, Untouched, Finalizing,
      Edge, Stage, shared, lifeVars, Goto, SetPhase, Raise, NotePanic, Decide
<1>1. CASE CheckPasses(i) \/ CheckRejects(i)
  BY <1>1 DEF CheckPasses, CheckRejects
<1>2. CASE CheckPanics(i) \/ PreparePanics(i)
  BY <1>2 DEF CheckPanics, PreparePanics, PanicsEarly
<1>3. CASE PrepareReturns(i)
  BY <1>3 DEF PrepareReturns, EnterLocked
<1>4. CASE PrepareFails(i)
  BY <1>4 DEF PrepareFails
<1>5. CASE SkipTask(i) \/ SkipTaskPanics(i) \/ UnwindCall(i)
  BY <1>5 DEF SkipTask, SkipTaskPanics, UnwindCall
<1> QED
  BY <1>1, <1>2, <1>3, <1>4, <1>5 DEF EarlyStep

LEMMA FinalStepEdge ==
  ASSUME TypeOK, NEW i \in Calls, CallAt(i), FinalStep(i)
  PROVE  Edge(i) /\ pc'[i] # "abort"
<1> USE DEF TypeOK, CoreTypeOK, CallAt, LifeAt, TokenAt, LocalsAt, Returned, Failed, LockedControl,
      Finalizing, Edge, Stage, shared, lifeVars, Goto, Raise, NotePanic, Decide, FinalizeCommit,
      ConsumeByCommit, FinalizeRollback, ConsumeByRollback
<1>1. CASE ChooseFinalizer(i)
  BY <1>1 DEF ChooseFinalizer
<1>2. CASE (\E e \in Endings : FinishCommit(i, e)) \/ FinishCommitPanics(i)
  BY <1>2 DEF FinishCommit, FinishCommitPanics
<1>3. CASE \E e \in Endings : FinishRollback(i, e)
  BY <1>3 DEF FinishRollback
<1>4. CASE FinishRollbackPanics(i)
  BY <1>4 DEF FinishRollbackPanics
<1>5. CASE RollbackLocks(i) \/ RollbackReopens(i)
  BY <1>5 DEF RollbackLocks, RollbackReopens
<1> QED
  BY <1>1, <1>2, <1>3, <1>4, <1>5 DEF FinalStep

LEMMA LockedStepEdge ==
  ASSUME TypeOK, NEW i \in Calls, CallAt(i), LockedStep(i), UNCHANGED lifeVars
  PROVE  Edge(i) /\ (pc'[i] = "abort" => Stage(i)' = Stage(i))
<1> USE DEF TypeOK, CoreTypeOK, CallAt, LifeAt, TokenAt, LocalsAt, Untouched, LockedControl,
      Edge, Stage, shared, lifeVars, Goto, SetPhase, Raise, NotePanic
<1>1. CASE AcquireLock(i) \/ LockPanics(i)
  BY <1>1 DEF AcquireLock, LockPanics
<1>2. CASE SecondCheck(i) \/ SecondReject(i) \/ SecondPanics(i)
  BY <1>2 DEF SecondCheck, SecondReject, SecondPanics
<1>3. CASE TaskCloses(i) \/ TaskPanics(i)
  BY <1>3 DEF TaskCloses, TaskPanics
<1>4. CASE \E r \in {"Ok", "Err"} : TaskReturns(i, r)
  BY <1>4 DEF TaskReturns
<1>5. CASE ReleaseGuard(i) \/ ReleasePanics(i)
  BY <1>5 DEF ReleaseGuard, ReleasePanics, AfterRelease
<1>6. CASE DropRejected(i) \/ DropRejectedPanics(i)
  BY <1>6 DEF DropRejected, DropRejectedPanics, Rejected
<1>7. CASE UnwindGuard(i) \/ UnwindTask(i) \/ DoublePanic(i)
  BY <1>7 DEF UnwindGuard, UnwindTask, DoublePanic
<1> QED
  BY <1>1, <1>2, <1>3, <1>4, <1>5, <1>6, <1>7 DEF LockedStep

LEMMA InitTokens == Init => Tokens!Init
BY DEF Init, CoreInit, Tokens!Init, Stage, Aborted

\* The safety part of ImplementsTokenLifecycle: a token is prepared once, given
\* up once, and follows the commit path only after its task returned Ok.
THEOREM TokenSafety == Spec => Tokens!Safety
<1>1. Inv /\ [Next]_vars => [Tokens!Next]_(Tokens!vars)
  <2> SUFFICES ASSUME Inv, [Next]_vars PROVE [Tokens!Next]_(Tokens!vars)
    OBVIOUS
  <2>1. CASE UNCHANGED vars
    BY <2>1 DEF vars, coreVars, Tokens!vars, Stage, Aborted
  <2>2. CASE Finished /\ UNCHANGED vars
    BY <2>1, <2>2
  <2>3. ASSUME ~Aborted, NEW i \in Calls, CallStep(i) PROVE [Tokens!Next]_(Tokens!vars)
    <3>1. TypeOK /\ CallAt(i)
      BY InvCallAt DEF Inv
    <3>2. \A j \in Calls \ {i} : Same(j)
      <4>1. CASE EarlyStep(i) \/ FinalStep(i)
        BY <3>1, <4>1, EarlyStepIsLocal, FinalStepIsLocal
      <4>2. CASE LockedStep(i) /\ UNCHANGED lifeVars
        BY <3>1, <4>2, LockedStepIsLocal DEF TypeOK, Same, lifeVars
      <4> QED
        BY <2>3, <4>1, <4>2 DEF CallStep, EarlyStep, FinalStep
    <3>3. Edge(i) /\ (pc'[i] = "abort" => Stage(i)' = Stage(i))
      BY <2>3, <3>1, EarlyStepEdge, FinalStepEdge, LockedStepEdge
         DEF CallStep, EarlyStep, FinalStep
    <3>4. \A j \in Calls \ {i} : Stage(j)' = Stage(j)
      BY <3>2, SameStage
    <3>5. Aborted' <=> pc'[i] = "abort"
      BY <2>3, <3>2 DEF Aborted, Same
    <3> QED
      BY <2>3, <3>3, <3>4, <3>5, EdgeIsStep, AbortIsCrash
  <2>4. ASSUME NEW u \in Updaters, OutsideStep(u) PROVE [Tokens!Next]_(Tokens!vars)
    BY <2>4, ExternalStepIsLocal DEF OutsideStep, lifeVars, Tokens!vars, Stage, Aborted
  <2> QED
    BY <2>1, <2>2, <2>3, <2>4 DEF Next, Step
<1> QED
  BY <1>1, InitTokens, SpecInv, PTL DEF Spec, Tokens!Safety
==============================================================================
