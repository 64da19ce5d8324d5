------------------------- MODULE LifecycleDclExecutor -------------------------
(***************************************************************************)
(* The lifecycle executor: run_with_token and run_with_token_catching over *)
(* the shared core.  prepare makes one token before the lock is taken, and *)
(* commit or rollback consumes it after the guard is released.             *)
(*                                                                         *)
(* Both methods run their locked phase in execute_locked_catching, so      *)
(* Caught = Calls; the calls in Catching also capture everything else.     *)
(***************************************************************************)
EXTENDS DclCore

CONSTANTS
  Catching,   \* calls of run_with_token_catching; the others are run_with_token
  Commits,    \* calls through an executor with a commit callback
  Rollbacks,  \* calls through an executor with a rollback callback
  Reopening   \* calls whose rollback callback reopens the gate under the lock

\* The builders offer no way to leave out both finalizers, and only a task
\* under an exclusive mode has closed a gate that rollback could reopen.
ASSUME LifecycleAssumption ==
  /\ Caught = Calls
  /\ Catching \subseteq Calls
  /\ Commits \subseteq Calls /\ Rollbacks \subseteq Calls
  /\ Commits \cup Rollbacks = Calls
  /\ Reopening \subseteq Rollbacks \cap Exclusive

VARIABLES
  token,   \* not prepared, held by the invocation, or what consumed it
  fin,     \* CapturedFinalizationOutcome
  result,  \* CapturedLifecycleOutcome, as far as it is decided
  ending   \* history: how what consumed the token ended, read by no action

lifeVars == <<token, fin, result, ending>>
vars     == <<coreVars, token, fin, result, ending>>

Control == LockedControl \cup
  {"check", "prepare", "skip", "unwindCall", "commit", "rollback", "reopen", "reopened",
   "abort", "done", "unwound"}

LifecycleOutcomes ==
  {"InitialConditionNotMet", "PrepareFailed", "TaskSucceeded", "SecondConditionNotMet", "TaskFailed"}

CapturedLifecycleOutcomes == LifecycleOutcomes \cup
  {"InitialConditionCheckPanicked", "TaskCleanupPanicked", "PreparePanicked", "ExecutionPanicked"}

FinalizationOutcomes == {"NotRequired", "Succeeded", "Failed"}

CapturedFinalizationOutcomes == FinalizationOutcomes \cup {"Panicked"}

\* A callback returns Ok or Err, a token without one is dropped, both may panic.
Endings == {"Ok", "Err", "Dropped", "Panic"}

Init ==
  /\ CoreInit
  /\ token = [i \in Calls |-> "none"]
  /\ fin = [i \in Calls |-> None]
  /\ result = [i \in Calls |-> None]
  /\ ending = [i \in Calls |-> None]

Decide(i, r) == result' = [result EXCEPT ![i] = r]

\* A panic before the token exists: captured with its phase before the task is
\* dropped, or unwinding through the task.
PanicsEarly(i, p, r) ==
  /\ p \in Faults
  /\ Raise(i, p)
  /\ IF i \in Catching
       THEN Goto(i, "skip") /\ info' = [info EXCEPT ![i] = p] /\ Decide(i, r)
       ELSE Goto(i, "unwindCall") /\ UNCHANGED <<info, result>>
  /\ UNCHANGED <<shared, phase, task, locked, token, fin, ending>>

(***************************************************************************)
(* The lock-free check and prepare.                                        *)
(***************************************************************************)

CheckPasses(i) ==
  /\ pc[i] = "check" /\ gate
  /\ Goto(i, "prepare")
  /\ UNCHANGED <<shared, phase, task, payload, info, locked, first, lifeVars>>

CheckRejects(i) ==
  /\ pc[i] = "check" /\ ~gate
  /\ Goto(i, "skip") /\ Decide(i, "InitialConditionNotMet")
  /\ UNCHANGED <<shared, phase, task, payload, info, locked, first, token, fin, ending>>

CheckPanics(i) ==
  /\ pc[i] = "check"
  /\ PanicsEarly(i, "InitialConditionCheck", "InitialConditionCheckPanicked")

PrepareReturns(i) ==
  /\ pc[i] = "prepare"
  /\ token' = [token EXCEPT ![i] = "held"]
  /\ EnterLocked(i)
  /\ UNCHANGED <<shared, task, payload, info, locked, first, fin, result, ending>>

PrepareFails(i) ==
  /\ pc[i] = "prepare"
  /\ Goto(i, "skip") /\ Decide(i, "PrepareFailed")
  /\ UNCHANGED <<shared, phase, task, payload, info, locked, first, token, fin, ending>>

PreparePanics(i) ==
  /\ pc[i] = "prepare"
  /\ PanicsEarly(i, "Prepare", "PreparePanicked")

(***************************************************************************)
(* Early returns drop the unexecuted task.                                 *)
(***************************************************************************)

SkipTask(i) ==
  /\ pc[i] = "skip"
  /\ task' = [task EXCEPT ![i] = "dropped"]
  /\ Goto(i, "done")
  /\ UNCHANGED <<shared, phase, payload, info, locked, first, lifeVars>>

\* The destructor panics.  A capturing call reports it only after an ordinary
\* rejection: an earlier failure stays the outcome, and the panic is dropped.
SkipTaskPanics(i) ==
  /\ pc[i] = "skip" /\ "TaskCleanup" \in Faults
  /\ task' = [task EXCEPT ![i] = "dropped"]
  /\ IF i \notin Catching
       THEN Goto(i, "unwound") /\ Raise(i, "TaskCleanup") /\ UNCHANGED <<info, result>>
       ELSE IF result[i] = "InitialConditionNotMet"
       THEN /\ Goto(i, "done") /\ Raise(i, "TaskCleanup")
            /\ info' = [info EXCEPT ![i] = "TaskCleanup"]
            /\ Decide(i, "TaskCleanupPanicked")
       ELSE Goto(i, "done") /\ NotePanic(i, "TaskCleanup") /\ UNCHANGED <<payload, info, result>>
  /\ UNCHANGED <<shared, phase, locked, token, fin, ending>>

UnwindCall(i) ==
  /\ pc[i] = "unwindCall"
  /\ \/ task' = [task EXCEPT ![i] = "dropped"] /\ Goto(i, "unwound")
     \/ "TaskCleanup" \in Faults /\ Goto(i, "abort") /\ UNCHANGED task
  /\ UNCHANGED <<shared, phase, payload, info, locked, first, lifeVars>>

(***************************************************************************)
(* Finalization, after the guard was released.                             *)
(***************************************************************************)

ChooseCommitsFailures(i) ==
  /\ pc[i] = "out"
  /\ Goto(i, IF locked[i] \in {"Ok", "Err"} THEN "commit" ELSE "rollback")
  /\ UNCHANGED <<shared, phase, task, payload, info, locked, first, lifeVars>>

ChooseFinalizer(i) ==
  /\ pc[i] = "out"
  /\ Goto(i, IF locked[i] = "Ok" THEN "commit" ELSE "rollback")
  /\ UNCHANGED <<shared, phase, task, payload, info, locked, first, lifeVars>>

\* The callback consumes the token, or its destructor does without one.
ConsumeByCommit(i, e) ==
  /\ token' = [token EXCEPT ![i] = IF i \in Commits THEN "committed" ELSE "dropped"]
  /\ ending' = [ending EXCEPT ![i] = e]

\* What finalization reports of a callback or destructor that did not panic.
Reported == [Ok |-> "Succeeded", Err |-> "Failed", Dropped |-> "NotRequired"]

FinalizeCommitIgnoresError(i, e) ==
  /\ e \in IF i \in Commits THEN {"Ok", "Err"} ELSE {"Dropped"}
  /\ fin' = [fin EXCEPT ![i] = IF e = "Err" THEN "Succeeded" ELSE Reported[e]]
  /\ ConsumeByCommit(i, e)

FinalizeCommit(i, e) ==
  /\ e \in IF i \in Commits THEN {"Ok", "Err"} ELSE {"Dropped"}
  /\ fin' = [fin EXCEPT ![i] = Reported[e]]
  /\ ConsumeByCommit(i, e)

FinishCommit(i, e) ==
  /\ pc[i] = "commit"
  /\ FinalizeCommit(i, e)
  /\ Goto(i, "done") /\ Decide(i, "TaskSucceeded")
  /\ UNCHANGED <<shared, phase, task, payload, info, locked, first>>

FinishCommitPanics(i) ==
  /\ pc[i] = "commit" /\ "Commit" \in Faults
  /\ ConsumeByCommit(i, "Panic")
  /\ Raise(i, "Commit")
  /\ IF i \in Catching
       THEN /\ fin' = [fin EXCEPT ![i] = "Panicked"]
            /\ Goto(i, "done") /\ Decide(i, "TaskSucceeded")
       ELSE Goto(i, "unwound") /\ UNCHANGED <<fin, result>>
  /\ UNCHANGED <<shared, phase, task, info, locked>>

\* A rollback callback that compensates takes the application's lock itself.
RollbackLocks(i) ==
  /\ pc[i] = "rollback" /\ i \in Reopening
  /\ holders = {} /\ ~poisoned
  /\ holders' = {i}
  /\ Goto(i, "reopen")
  /\ UNCHANGED <<gate, poisoned, ext, phase, task, payload, info, locked, first, lifeVars>>

RollbackReopens(i) ==
  /\ pc[i] = "reopen"
  /\ gate' = TRUE
  /\ holders' = holders \ {i}
  /\ Goto(i, "reopened")
  /\ UNCHANGED <<poisoned, ext, phase, task, payload, info, locked, first, lifeVars>>

RollbackCauses == {"ConditionNotMet", "TaskFailed", "Panicked"}

CauseHidesPanic ==
  [ConditionNotMet |-> "ConditionNotMet", Err |-> "TaskFailed", Panicked |-> "ConditionNotMet"]

\* What the rollback callback is told of an execution.
CauseOf == [ConditionNotMet |-> "ConditionNotMet", Err |-> "TaskFailed", Panicked |-> "Panicked"]

Cause(i) == CauseOf[locked[i]]

\* RollbackExecution::into_outcome: an execution that panicked has none.
RolledBack == [ConditionNotMet |-> "SecondConditionNotMet", Err |-> "TaskFailed"]

CapturedKeepsVariant ==
  [ConditionNotMet |-> "ConditionNotMet", Err |-> "TaskFailed", Panicked |-> "ExecutionPanicked"]

\* CapturedRollbackExecution::into_outcome.
CapturedRolledBack ==
  [ConditionNotMet |-> "SecondConditionNotMet", Err |-> "TaskFailed",
   Panicked |-> "ExecutionPanicked"]

IntoOutcome(i) == IF i \in Catching THEN CapturedRolledBack[locked[i]] ELSE RolledBack[locked[i]]

\* rollback_then_resume discards what rollback did and resumes the panic.
Resumes(i) == i \notin Catching /\ locked[i] = "Panicked"

ConsumeByRollback(i, e) ==
  /\ token' = [token EXCEPT ![i] = IF i \in Rollbacks THEN "rolledBack" ELSE "dropped"]
  /\ ending' = [ending EXCEPT ![i] = e]

FinalizeRollbackBehindPanic(i, e) ==
  /\ e \in IF i \in Rollbacks THEN {"Ok", "Err"} ELSE {"Dropped"}
  /\ fin' = IF Resumes(i) THEN fin
            ELSE [fin EXCEPT ![i] = IF locked[i] = "Panicked" THEN "NotRequired" ELSE Reported[e]]
  /\ ConsumeByRollback(i, e)

FinalizeRollback(i, e) ==
  /\ e \in IF i \in Rollbacks THEN {"Ok", "Err"} ELSE {"Dropped"}
  /\ fin' = IF Resumes(i) THEN fin ELSE [fin EXCEPT ![i] = Reported[e]]
  /\ ConsumeByRollback(i, e)

FinishRollback(i, e) ==
  /\ pc[i] = IF i \in Reopening THEN "reopened" ELSE "rollback"
  /\ FinalizeRollback(i, e)
  /\ IF Resumes(i)
       THEN Goto(i, "unwound") /\ UNCHANGED result
       ELSE Goto(i, "done") /\ Decide(i, IntoOutcome(i))
  /\ UNCHANGED <<shared, phase, task, payload, info, locked, first>>

SecondaryPanicReplaces(i) ==
  /\ pc[i] \in {"rollback", "reopened"} /\ "Rollback" \in Faults
  /\ ConsumeByRollback(i, "Panic")
  /\ Raise(i, "Rollback")
  /\ IF i \in Catching
       THEN /\ fin' = [fin EXCEPT ![i] = "Panicked"]
            /\ Goto(i, "done") /\ Decide(i, IntoOutcome(i))
       ELSE Goto(i, "unwound") /\ UNCHANGED <<fin, result>>
  /\ UNCHANGED <<shared, phase, task, info, locked>>

\* The rollback callback may panic anywhere, on a poisoned lock among others,
\* and while it holds the lock itself.
FinishRollbackPanics(i) ==
  /\ pc[i] \in {"rollback", "reopen", "reopened"}
  /\ \/ "Rollback" \in Faults
     \/ pc[i] = "rollback" /\ i \in Reopening /\ poisoned /\ holders = {}
  /\ IF pc[i] = "reopen"
       THEN holders' = holders \ {i} /\ poisoned' = (poisoned \/ Poisoning)
       ELSE UNCHANGED <<holders, poisoned>>
  /\ ConsumeByRollback(i, "Panic")
  /\ NotePanic(i, "Rollback")
  /\ IF i \in Catching
       THEN /\ fin' = [fin EXCEPT ![i] = "Panicked"]
            /\ Goto(i, "done") /\ Decide(i, IntoOutcome(i))
            /\ UNCHANGED payload
       ELSE /\ payload' = [payload EXCEPT ![i] = IF Resumes(i) THEN @ ELSE "Rollback"]
            /\ Goto(i, "unwound")
            /\ UNCHANGED <<fin, result>>
  /\ UNCHANGED <<gate, ext, phase, task, info, locked>>

CallStep(i) ==
  \/ CheckPasses(i) \/ CheckRejects(i) \/ CheckPanics(i)
  \/ PrepareReturns(i) \/ PrepareFails(i) \/ PreparePanics(i)
  \/ SkipTask(i) \/ SkipTaskPanics(i) \/ UnwindCall(i)
  \/ LockedStep(i) /\ UNCHANGED lifeVars
  \/ ChooseFinalizer(i)
  \/ \E e \in Endings : FinishCommit(i, e) \/ FinishRollback(i, e)
  \/ FinishCommitPanics(i) \/ FinishRollbackPanics(i)
  \/ RollbackLocks(i) \/ RollbackReopens(i)

OutsideStep(u) == ExternalStep(u) /\ UNCHANGED lifeVars

Step ==
  \/ \E i \in Calls : CallStep(i)
  \/ \E u \in Updaters : OutsideStep(u)

Finished ==
  \/ Aborted
  \/ (\A i \in Calls : pc[i] \in {"done", "unwound"}) /\ (\A u \in Updaters : ext[u] = "done")

Next == (~Aborted /\ Step) \/ (Finished /\ UNCHANGED vars)

Spec == Init /\ [][Next]_vars

\* As for DclExecutor: every thread that can move eventually does.
Fairness ==
  /\ \A i \in Calls : WF_vars(~Aborted /\ CallStep(i))
  /\ \A u \in Updaters : WF_vars(~Aborted /\ OutsideStep(u))

FairSpec == Spec /\ Fairness

(***************************************************************************)
(* Properties.                                                             *)
(***************************************************************************)

\* The type invariant of every variable.
TypeOK ==
  /\ CoreTypeOK(Control)
  /\ token \in [Calls -> {"none", "held", "committed", "rolledBack", "dropped"}]
  /\ fin \in [Calls -> CapturedFinalizationOutcomes \cup {None}]
  /\ result \in [Calls -> CapturedLifecycleOutcomes \cup {None}]
  /\ ending \in [Calls -> Endings \cup {None}]
  /\ \A i \in Calls \ Catching :
       fin[i] \in FinalizationOutcomes \cup {None} /\ result[i] \in LifecycleOutcomes \cup {None}

Ended(i) == pc[i] \in {"done", "unwound"}

\* The callback a token ends in agrees with what its task did: commit only
\* after the task and the release of its guard succeeded, rollback after
\* anything else that followed prepare.
FinalizerMatchesTask ==
  \A i \in Calls :
    /\ token[i] = "committed" => task[i] = "Ok" /\ first[i] \in {None, "Commit"}
    /\ token[i] = "rolledBack" => task[i] # "Ok" \/ first[i] = "LockRelease"

\* A rollback callback is told the reason that holds: a panic, also one raised
\* when the guard was released after the task or when the rejected task was
\* dropped, is never presented as the ordinary failure it came after.
RollbackKnowsWhy ==
  \A i \in Calls : pc[i] \in {"rollback", "reopen", "reopened"} =>
    /\ Cause(i) \in RollbackCauses
    /\ Cause(i) = "ConditionNotMet" <=> first[i] = None /\ task[i] = "dropped"
    /\ Cause(i) = "TaskFailed" <=> first[i] = None /\ task[i] = "Err"
    /\ Cause(i) = "Panicked" <=> first[i] # None
    /\ Cause(i) = "Panicked" => info[i] = first[i]

\* Finalizers run without the executor's guard, so a rollback callback may take
\* the same lock; only a guard whose destructor panicked can still be owned.
FinalizesOutsideGuard ==
  \A i \in Calls :
    pc[i] \in {"commit", "rollback"} => i \notin holders \/ first[i] = "LockRelease"

\* The panic that decides a call is its first one.  A propagating call unwinds
\* with exactly that payload, whatever rollback does afterwards; a capturing
\* call reports its phase, and hides it only behind an earlier prepare error.
FirstPanicDecides ==
  \A i \in Calls :
    /\ pc[i] = "unwound" => first[i] # None /\ payload[i] = first[i]
    /\ pc[i] = "done" /\ i \notin Catching => first[i] = None
    /\ pc[i] = "done" /\ first[i] # None =>
         \/ info[i] = first[i]
         \/ info[i] = None /\ fin[i] = "Panicked" /\ first[i] \in {"Commit", "Rollback"}
         \/ info[i] = None /\ result[i] = "PrepareFailed" /\ first[i] = "TaskCleanup"

\* Every returned outcome is true of its call: of the task, of the token, of the
\* phase in the panic it carries, and of how commit or rollback ended, also when
\* rollback failed or panicked behind a locked phase that had panicked already.
OutcomeTellsWhatHappened ==
  \A i \in Calls : pc[i] = "done" =>
    /\ result[i] = "TaskSucceeded" <=> task[i] = "Ok" /\ info[i] = None
    /\ result[i] = "TaskFailed" <=> task[i] = "Err" /\ info[i] = None
    /\ result[i] = "InitialConditionNotMet" => token[i] = "none" /\ first[i] = None
    /\ result[i] \in {"InitialConditionCheckPanicked", "TaskCleanupPanicked",
                      "PreparePanicked", "ExecutionPanicked"} <=> info[i] # None
    /\ result[i] = "ExecutionPanicked" => token[i] # "none"
    /\ result[i] = "SecondConditionNotMet" => task[i] = "dropped" /\ token[i] # "none"
    /\ fin[i] = None <=> token[i] = "none"
    /\ fin[i] = "Succeeded" <=> ending[i] = "Ok"
    /\ fin[i] = "Failed" <=> ending[i] = "Err"
    /\ fin[i] = "Panicked" <=> ending[i] = "Panic"
    /\ fin[i] = "NotRequired" <=> ending[i] = "Dropped"
    /\ ending[i] = "Dropped" => token[i] = "dropped"

\* There is no deadlock although rollback callbacks lock again: a call that
\* comes to lock in rollback has given up the guard of its locked phase, so no
\* call waits for itself or for another that waits or has ended.
NoWaitCycle == OwnersMoveOn(Waiting \cup {i \in Reopening : pc[i] = "rollback"},
                            {i \in Calls : Ended(i)} \cup {u \in Updaters : ext[u] = "done"})

\* How far the work of a call has got, as GatedWork sees it.
WorkStatus(i) ==
  CASE pc[i] = "task" -> "running"
    [] pc[i] = "closed" -> "closed"
    [] pc[i] \in {"check", "prepare", "lock", "second"} -> "pending"
    [] OTHER ->
         IF task[i] \in Ran THEN "finished"
         ELSE IF \/ result[i] = "PrepareFailed"
                 \/ first[i] \in {"InitialConditionCheck", "Prepare", "LockAcquisition",
                                  "SecondConditionCheck"}
         THEN "failed" ELSE "skipped"

Work == INSTANCE GatedWork WITH
          open <- gate, status <- [i \in Calls |-> WorkStatus(i)]

\* Test and task remain one atomic step although prepare runs between the two
\* checks and rollback callbacks reopen the gate.
ImplementsGatedWork == Work!Spec

\* Where the token of a call is, as TokenLifecycle sees it.
Stage(i) ==
  CASE token[i] = "none" -> IF pc[i] \in {"check", "prepare"} THEN "idle" ELSE "refused"
    [] token[i] = "held" ->
         (CASE pc[i] = "commit" -> "won"
            [] pc[i] \in {"rollback", "reopen", "reopened"} -> "lost"
            [] OTHER -> IF task[i] = "Ok" THEN "worked" ELSE "prepared")
    [] OTHER -> token[i]

Tokens == INSTANCE TokenLifecycle WITH
            stage <- [i \in Calls |-> Stage(i)], crashed <- Aborted

\* The token of a call goes through its lifecycle once, on the path its task
\* chose, and under fairness it never stays with the invocation.
ImplementsTokenLifecycle == Tokens!Spec
==============================================================================
