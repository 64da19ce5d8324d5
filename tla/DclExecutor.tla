----------------------------- MODULE DclExecutor -----------------------------
(***************************************************************************)
(* The basic executor: DclExecutor::run and DclExecutor::run_catching over *)
(* the shared core.  A call in Caught uses run_catching, the others run.   *)
(***************************************************************************)
EXTENDS DclCore

VARIABLE result  \* ExecutionOutcome, "Panicked" for Err(PanicInfo), or "Unwound"

vars == <<coreVars, result>>

Outcomes == {"Success", "ConditionNotMet", "TaskFailed", "Panicked", "Unwound"}

Control == LockedControl \cup {"check", "skip", "unwindCall", "abort", "done"}

Init == CoreInit /\ result = [i \in Calls |-> None]

Finish(i, r) == Goto(i, "done") /\ result' = [result EXCEPT ![i] = r]

(***************************************************************************)
(* The lock-free check.                                                    *)
(***************************************************************************)

CheckPasses(i) ==
  /\ pc[i] = "check" /\ gate
  /\ EnterLocked(i)
  /\ UNCHANGED <<shared, task, payload, info, locked, first, result>>

CheckRejects(i) ==
  /\ pc[i] = "check" /\ ~gate
  /\ Goto(i, "skip")
  /\ UNCHANGED <<shared, phase, task, payload, info, locked, first, result>>

CheckUnwindsAlways(i) ==
  /\ pc[i] = "check" /\ "InitialConditionCheck" \in Faults
  /\ Raise(i, "InitialConditionCheck")
  /\ Goto(i, "unwindCall")
  /\ UNCHANGED <<shared, phase, task, info, locked, result>>

\* run_catching captures the panic and drops the task afterwards; in run the
\* panic unwinds through the task.
CheckPanics(i) ==
  /\ pc[i] = "check" /\ "InitialConditionCheck" \in Faults
  /\ Raise(i, "InitialConditionCheck")
  /\ IF i \in Caught
       THEN /\ info' = [info EXCEPT ![i] = "InitialConditionCheck"]
            /\ Goto(i, "skip")
       ELSE Goto(i, "unwindCall") /\ UNCHANGED info
  /\ UNCHANGED <<shared, phase, task, locked, result>>

(***************************************************************************)
(* Early returns drop the unexecuted task.                                 *)
(***************************************************************************)

SkipTask(i) ==
  /\ pc[i] = "skip"
  /\ task' = [task EXCEPT ![i] = "dropped"]
  /\ Finish(i, IF info[i] = None THEN "ConditionNotMet" ELSE "Panicked")
  /\ UNCHANGED <<shared, phase, payload, info, locked, first>>

\* The destructor panics.  An initial panic already captured stays the one
\* reported, and PanicInfo's drop contains the secondary payload.
SkipTaskPanics(i) ==
  /\ pc[i] = "skip" /\ "TaskCleanup" \in Faults
  /\ task' = [task EXCEPT ![i] = "dropped"]
  /\ IF info[i] = None
       THEN Raise(i, "TaskCleanup")
       ELSE NotePanic(i, "TaskCleanup") /\ UNCHANGED payload
  /\ info' = [info EXCEPT ![i] = IF i \in Caught /\ @ = None THEN "TaskCleanup" ELSE @]
  /\ Finish(i, IF i \in Caught THEN "Panicked" ELSE "Unwound")
  /\ UNCHANGED <<shared, phase, locked>>

UnwindCall(i) ==
  /\ pc[i] = "unwindCall"
  /\ \/ /\ task' = [task EXCEPT ![i] = "dropped"]
        /\ Finish(i, "Unwound")
     \/ /\ "TaskCleanup" \in Faults
        /\ Goto(i, "abort")
        /\ UNCHANGED <<task, result>>
  /\ UNCHANGED <<shared, phase, payload, info, locked, first>>

(***************************************************************************)
(* LockedExecution::into_outcome and the return from the call.             *)
(***************************************************************************)

IntoOutcomeRejectionSucceeds ==
  [ConditionNotMet |-> "Success", Ok |-> "Success", Err |-> "TaskFailed"]

IntoOutcomeKeepsVariant ==
  [ConditionNotMet |-> "ConditionNotMet", Ok |-> "Ok", Err |-> "Err"]

IntoOutcome ==
  [ConditionNotMet |-> "ConditionNotMet", Ok |-> "Success", Err |-> "TaskFailed"]

Return(i) ==
  /\ pc[i] = "out"
  /\ Finish(i, IF locked[i] # "Panicked" THEN IntoOutcome[locked[i]]
               ELSE IF i \in Caught THEN "Panicked" ELSE "Unwound")
  /\ UNCHANGED <<shared, phase, task, payload, info, locked, first>>

CallStep(i) ==
  \/ CheckPasses(i) \/ CheckRejects(i) \/ CheckPanics(i)
  \/ SkipTask(i) \/ SkipTaskPanics(i) \/ UnwindCall(i)
  \/ LockedStep(i) /\ UNCHANGED result
  \/ Return(i)

OutsideStep(u) == ExternalStep(u) /\ UNCHANGED result

Step ==
  \/ \E i \in Calls : CallStep(i)
  \/ \E u \in Updaters : OutsideStep(u)

Finished ==
  \/ Aborted
  \/ (\A i \in Calls : pc[i] = "done") /\ (\A u \in Updaters : ext[u] = "done")

Next == (~Aborted /\ Step) \/ (Finished /\ UNCHANGED vars)

Spec == Init /\ [][Next]_vars

\* Every thread that can move does, and whoever waits for a lock that stays
\* free gets it: each call and each updater is finite, so nothing stronger is
\* asked of the backend's queue.
Fairness ==
  /\ \A i \in Calls : WF_vars(~Aborted /\ CallStep(i))
  /\ \A u \in Updaters : WF_vars(~Aborted /\ OutsideStep(u))

FairSpec == Spec /\ Fairness

(***************************************************************************)
(* Properties.                                                             *)
(***************************************************************************)

\* The type invariant of every variable.
TypeOK ==
  /\ CoreTypeOK(Control)
  /\ result \in [Calls -> Outcomes \cup {None}]

\* What a call returns is what happened: success and failure mean the task ran
\* to that end, rejection means the task never ran, and any panic of the call
\* is captured exactly by run_catching and propagated exactly by run.
OutcomeTellsWhatHappened ==
  \A i \in Calls : pc[i] = "done" =>
    IF first[i] # None
      THEN result[i] = IF i \in Caught THEN "Panicked" ELSE "Unwound"
      ELSE \/ task[i] = "Ok" /\ result[i] = "Success"
           \/ task[i] = "Err" /\ result[i] = "TaskFailed"
           \/ task[i] = "dropped" /\ result[i] = "ConditionNotMet"

\* The panic a caller sees is the first one raised in its call, and a captured
\* one names the phase it was raised in: no later panic replaces it.
FirstPanicReported ==
  \A i \in Calls : pc[i] = "done" /\ first[i] # None =>
    /\ payload[i] = first[i]
    /\ i \in Caught => info[i] = first[i]

\* run_catching brings the process down only where a destructor panics while a
\* panic of the locked phase unwinds: a failed initial check never does.
CatchingAbortsOnlyInLockedPhase ==
  \A i \in Caught : pc[i] = "abort" =>
    first[i] \in {"LockAcquisition", "SecondConditionCheck", "Task", "LockRelease"}

\* How far the work of a call has got, as GatedWork sees it.
WorkStatus(i) ==
  CASE pc[i] = "task" -> "running"
    [] pc[i] = "closed" -> "closed"
    [] pc[i] \in {"check", "lock", "second"} -> "pending"
    [] OTHER -> IF task[i] \in Ran THEN "finished"
                ELSE IF first[i] \in {None, "TaskCleanup", "LockRelease"} THEN "skipped"
                ELSE "failed"

Work == INSTANCE GatedWork WITH
          open <- gate, status <- [i \in Calls |-> WorkStatus(i)]

\* The executor implements GatedWork: the two checks and the lock act as one
\* atomic test-and-run, and a rejection is justified by a closed gate.
ImplementsGatedWork == Work!Spec

\* There is no deadlock and no lost lock: whoever waits for the lock waits for
\* an owner that can move, never for one that waits itself or has returned.
\* Only a guard whose own destructor panicked keeps the lock for good.
NoWaitCycle == OwnersMoveOn(Waiting, {i \in Calls : pc[i] = "done"} \cup
                                     {u \in Updaters : ext[u] = "done"})

\* Every call returns, unwinds to its caller or goes down with the process.
EveryCallEnds == \A i \in Calls : <>(pc[i] = "done" \/ Aborted)
==============================================================================
