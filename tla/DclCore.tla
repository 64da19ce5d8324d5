------------------------------- MODULE DclCore -------------------------------
(***************************************************************************)
(* The double-checked locking core shared by both executors of qubit-dcl:  *)
(* DclCore::execute_locked and DclCore::execute_locked_catching, the       *)
(* unwinding of a panic through their locals, and the application around   *)
(* them (the gate, the lock backend, writers outside the executor).        *)
(*                                                                         *)
(* A call is one invocation of a run method; the executor keeps no state   *)
(* between invocations, so calls on one thread are calls of the model.     *)
(* Panics are the environment's choice among the phases in Faults.  A      *)
(* panic payload is identified by the phase that raised it.                *)
(***************************************************************************)

CONSTANTS
  Calls,      \* invocations of a run method
  Updaters,   \* code outside the executor that stores to the gate under the lock
  Exclusive,  \* calls whose lock mode is exclusive; the others use a shared mode
  Caught,     \* calls whose locked phase is execute_locked_catching
  Faults,     \* panic phases in which a callback, destructor or lock may panic
  Poisoning   \* TRUE for a standard-library lock, FALSE for parking_lot

Phases ==
  {"InitialConditionCheck", "Prepare", "LockAcquisition", "SecondConditionCheck",
   "Task", "LockRelease", "Commit", "Rollback", "TaskCleanup"}

ASSUME CoreAssumption ==
  /\ Calls \cap Updaters = {}
  /\ Exclusive \subseteq Calls
  /\ Caught \subseteq Calls
  /\ Faults \subseteq Phases
  /\ Poisoning \in BOOLEAN

None == "None"

VARIABLES
  gate,      \* the application's atomic gate, what the predicate returns
  holders,   \* calls and updaters that own the lock
  poisoned,  \* the poison flag of a standard-library lock
  ext,       \* progress of every updater
  pc,        \* control point of every call
  phase,     \* the Cell of execute_locked_catching
  task,      \* the task closure: owned, dropped unexecuted, or how its run ended
  payload,   \* the panic payload the call carries
  info,      \* phase recorded in the PanicInfo the call captured
  locked,    \* LockedExecution, or "Panicked" when the phase unwound
  first      \* history: the first panic raised in the call

shared   == <<gate, holders, poisoned, ext>>
coreVars == <<gate, holders, poisoned, ext, pc, phase, task, payload, info, locked, first>>

Ran == {"Ok", "Err", "Panic"}

LockedControl == {"lock", "second", "task", "closed", "release", "cleanup",
                  "unwindGuard", "unwindTask", "out"}

CoreInit ==
  /\ gate \in BOOLEAN
  /\ holders = {}
  /\ poisoned = FALSE
  /\ ext = [u \in Updaters |-> "idle"]
  /\ pc = [i \in Calls |-> "check"]
  /\ phase = [i \in Calls |-> None]
  /\ task = [i \in Calls |-> "owned"]
  /\ payload = [i \in Calls |-> None]
  /\ info = [i \in Calls |-> None]
  /\ locked = [i \in Calls |-> None]
  /\ first = [i \in Calls |-> None]

(***************************************************************************)
(* Effects shared by the actions.                                          *)
(***************************************************************************)

\* A second panic while unwinding aborts the process, and with it every call.
Aborted == \E i \in Calls : pc[i] = "abort"

Goto(i, l) == pc' = [pc EXCEPT ![i] = l]

\* Only execute_locked_catching keeps a phase cell.
SetPhase(i, p) == phase' = [phase EXCEPT ![i] = IF i \in Caught THEN p ELSE @]

NotePanic(i, p) == first' = [first EXCEPT ![i] = IF @ = None THEN p ELSE @]

Raise(i, p) ==
  /\ NotePanic(i, p)
  /\ payload' = [payload EXCEPT ![i] = p]

\* Entering the locked phase: LockAcquisition is the phase until lock() returns.
EnterLocked(i) == Goto(i, "lock") /\ SetPhase(i, "LockAcquisition")

Poisons(i) == Poisoning /\ i \in Exclusive

\* An exclusive owner excludes everyone; shared owners exclude exclusive ones.
Compatible(a) ==
  \A h \in holders : a \in Calls \ Exclusive /\ h \in Calls \ Exclusive

(***************************************************************************)
(* The locked phase.                                                       *)
(***************************************************************************)

AcquireLock(i) ==
  /\ pc[i] = "lock"
  /\ Compatible(i) /\ ~poisoned
  /\ holders' = holders \cup {i}
  /\ Goto(i, "second") /\ SetPhase(i, "SecondConditionCheck")
  /\ UNCHANGED <<gate, poisoned, ext, task, payload, info, locked, first>>

\* A poisoned lock makes lock() panic once it is free; other backends may
\* panic on their own.  No guard exists, so only the task is unwound.
LockPanics(i) ==
  /\ pc[i] = "lock"
  /\ \/ poisoned /\ Compatible(i)
     \/ "LockAcquisition" \in Faults
  /\ Raise(i, "LockAcquisition")
  /\ Goto(i, "unwindTask")
  /\ UNCHANGED <<shared, phase, task, info, locked>>

SecondCheckUnconditional(i) ==
  /\ pc[i] = "second"
  /\ Goto(i, "task") /\ SetPhase(i, "Task")
  /\ UNCHANGED <<shared, task, payload, info, locked, first>>

SecondCheckDropsGuard(i) ==
  /\ pc[i] = "second" /\ gate
  /\ holders' = holders \ {i}
  /\ Goto(i, "task") /\ SetPhase(i, "Task")
  /\ UNCHANGED <<gate, poisoned, ext, task, payload, info, locked, first>>

SecondCheck(i) ==
  /\ pc[i] = "second" /\ gate
  /\ Goto(i, "task") /\ SetPhase(i, "Task")
  /\ UNCHANGED <<shared, task, payload, info, locked, first>>

RejectCleansUnderGuard(i) ==
  /\ pc[i] = "second" /\ ~gate
  /\ locked' = [locked EXCEPT ![i] = "ConditionNotMet"]
  /\ Goto(i, "cleanup") /\ SetPhase(i, "LockRelease")
  /\ UNCHANGED <<shared, task, payload, info, first>>

SecondReject(i) ==
  /\ pc[i] = "second" /\ ~gate
  /\ locked' = [locked EXCEPT ![i] = "ConditionNotMet"]
  /\ Goto(i, "release") /\ SetPhase(i, "LockRelease")
  /\ UNCHANGED <<shared, task, payload, info, first>>

SecondPanics(i) ==
  /\ pc[i] = "second" /\ "SecondConditionCheck" \in Faults
  /\ Raise(i, "SecondConditionCheck")
  /\ Goto(i, "unwindGuard")
  /\ UNCHANGED <<shared, phase, task, info, locked>>

\* A task under an exclusive mode may close the gate; a shared one is read-only.
TaskCloses(i) ==
  /\ pc[i] = "task" /\ i \in Exclusive
  /\ gate' = FALSE
  /\ Goto(i, "closed")
  /\ UNCHANGED <<holders, poisoned, ext, phase, task, payload, info, locked, first>>

TaskReturns(i, r) ==
  /\ pc[i] \in {"task", "closed"}
  /\ task' = [task EXCEPT ![i] = r]
  /\ locked' = [locked EXCEPT ![i] = r]
  /\ Goto(i, "release") /\ SetPhase(i, "LockRelease")
  /\ UNCHANGED <<shared, payload, info, first>>

TaskPanics(i) ==
  /\ pc[i] \in {"task", "closed"} /\ "Task" \in Faults
  /\ task' = [task EXCEPT ![i] = "Panic"]
  /\ Raise(i, "Task")
  /\ Goto(i, "unwindGuard")
  /\ UNCHANGED <<shared, phase, info, locked>>

AfterRelease(i) == Goto(i, IF task[i] = "owned" THEN "cleanup" ELSE "out")

ReleaseKeepsPhase(i) ==
  /\ pc[i] = "release"
  /\ holders' = holders \ {i}
  /\ AfterRelease(i)
  /\ UNCHANGED <<gate, poisoned, ext, phase, task, payload, info, locked, first>>

RejectionForgetsGuard(i) ==
  /\ pc[i] = "release"
  /\ holders' = IF task[i] = "owned" THEN holders ELSE holders \ {i}
  /\ AfterRelease(i) /\ SetPhase(i, "TaskCleanup")
  /\ UNCHANGED <<gate, poisoned, ext, task, payload, info, locked, first>>

ReleaseGuard(i) ==
  /\ pc[i] = "release"
  /\ holders' = holders \ {i}
  /\ AfterRelease(i) /\ SetPhase(i, "TaskCleanup")
  /\ UNCHANGED <<gate, poisoned, ext, task, payload, info, locked, first>>

\* A guard destructor that panics may or may not have released the lock, and
\* an inner standard guard dropped by its unwinding poisons.
ReleasePanics(i) ==
  /\ pc[i] = "release" /\ "LockRelease" \in Faults
  /\ holders' \in {holders, holders \ {i}}
  /\ poisoned' \in {poisoned, poisoned \/ Poisons(i)}
  /\ Raise(i, "LockRelease")
  /\ Goto(i, "unwindTask")
  /\ UNCHANGED <<gate, ext, phase, task, info, locked>>

\* The task was rejected: its captures are dropped after the guard.
DropRejected(i) ==
  /\ pc[i] = "cleanup"
  /\ task' = [task EXCEPT ![i] = "dropped"]
  /\ Goto(i, "out")
  /\ UNCHANGED <<shared, phase, payload, info, locked, first>>

DropRejectedPanics(i) ==
  /\ pc[i] = "cleanup" /\ "TaskCleanup" \in Faults
  /\ task' = [task EXCEPT ![i] = "dropped"]
  /\ Raise(i, "TaskCleanup")
  /\ Goto(i, "unwindTask")
  /\ UNCHANGED <<shared, phase, info, locked>>

(***************************************************************************)
(* Unwinding: the guard, then the closure that still owns the task, then   *)
(* the catch boundary outside both.                                        *)
(***************************************************************************)

UnwindGuardSilently(i) ==
  /\ pc[i] = "unwindGuard"
  /\ holders' = holders \ {i}
  /\ Goto(i, "unwindTask")
  /\ UNCHANGED <<gate, poisoned, ext, phase, task, payload, info, locked, first>>

UnwindGuard(i) ==
  /\ pc[i] = "unwindGuard"
  /\ holders' = holders \ {i}
  /\ poisoned' = (poisoned \/ Poisons(i))
  /\ Goto(i, "unwindTask")
  /\ UNCHANGED <<gate, ext, phase, task, payload, info, locked, first>>

UnwindTask(i) ==
  /\ pc[i] = "unwindTask"
  /\ task' = [task EXCEPT ![i] = IF @ = "owned" THEN "dropped" ELSE @]
  /\ info' = [info EXCEPT ![i] = IF i \in Caught THEN phase[i] ELSE @]
  /\ locked' = [locked EXCEPT ![i] = "Panicked"]
  /\ Goto(i, "out")
  /\ UNCHANGED <<shared, phase, payload, first>>

\* A destructor that panics during the unwinding aborts the process.
DoublePanic(i) ==
  /\ \/ pc[i] = "unwindGuard" /\ "LockRelease" \in Faults
     \/ pc[i] = "unwindTask" /\ task[i] = "owned" /\ "TaskCleanup" \in Faults
  /\ Goto(i, "abort")
  /\ UNCHANGED <<shared, phase, task, payload, info, locked, first>>

(***************************************************************************)
(* Writers outside the executor: they hold the same lock to store.         *)
(***************************************************************************)

ExternalAcquire(u) ==
  /\ ext[u] = "idle" /\ holders = {} /\ ~poisoned
  /\ holders' = {u}
  /\ ext' = [ext EXCEPT ![u] = "holding"]
  /\ UNCHANGED <<gate, poisoned, pc, phase, task, payload, info, locked, first>>

ExternalStore(u) ==
  /\ ext[u] = "holding"
  /\ gate' \in BOOLEAN
  /\ holders' = holders \ {u}
  /\ ext' = [ext EXCEPT ![u] = "done"]
  /\ UNCHANGED <<poisoned, pc, phase, task, payload, info, locked, first>>

\* Its own lock().expect(..) fails on a poisoned lock.
ExternalGivesUp(u) ==
  /\ ext[u] = "idle" /\ holders = {} /\ poisoned
  /\ ext' = [ext EXCEPT ![u] = "done"]
  /\ UNCHANGED <<gate, holders, poisoned, pc, phase, task, payload, info, locked, first>>

ExternalStep(u) == ExternalAcquire(u) \/ ExternalStore(u) \/ ExternalGivesUp(u)

LockedStep(i) ==
  \/ AcquireLock(i) \/ LockPanics(i)
  \/ SecondCheck(i) \/ SecondReject(i) \/ SecondPanics(i)
  \/ TaskCloses(i) \/ TaskPanics(i)
  \/ \E r \in {"Ok", "Err"} : TaskReturns(i, r)
  \/ ReleaseGuard(i) \/ ReleasePanics(i)
  \/ DropRejected(i) \/ DropRejectedPanics(i)
  \/ UnwindGuard(i) \/ UnwindTask(i) \/ DoublePanic(i)

(***************************************************************************)
(* Properties both executors are checked for.                              *)
(***************************************************************************)

CoreTypeOK(controls) ==
  /\ gate \in BOOLEAN /\ poisoned \in BOOLEAN
  /\ holders \subseteq Calls \cup Updaters
  /\ ext \in [Updaters -> {"idle", "holding", "done"}]
  /\ pc \in [Calls -> controls]
  /\ phase \in [Calls -> Phases \cup {None}]
  /\ task \in [Calls -> {"owned", "dropped"} \cup Ran]
  /\ payload \in [Calls -> Phases \cup {None}]
  /\ info \in [Calls -> Phases \cup {None}]
  /\ locked \in [Calls -> {None, "ConditionNotMet", "Ok", "Err", "Panicked"}]
  /\ first \in [Calls -> Phases \cup {None}]

InTask(i) == pc[i] \in {"task", "closed"}

\* Tasks overlap only when all of them run under a shared mode, and no task
\* runs while outside code owns the lock to change the gate: the guard taken
\* before the second check is the one that covers the task.
SerializedTasks ==
  /\ \A i, j \in Calls : i # j /\ InTask(i) /\ InTask(j) => i \notin Exclusive
  /\ \A i \in Calls, u \in Updaters : InTask(i) => ext[u] # "holding"

\* A task that has not closed the gate itself runs with the gate open, however
\* stale the observation of the lock-free check was when the lock was granted.
NoStaleTask == \A i \in Calls : pc[i] = "task" => gate

\* An unwind that crosses an exclusive guard of a standard lock poisons it even
\* though the panic is captured later: the boundary lies outside the guard.
UnwoundGuardPoisons ==
  \A i \in Calls :
    /\ first[i] \in {"SecondConditionCheck", "Task"}
    /\ Poisons(i)
    /\ pc[i] \notin {"unwindGuard", "abort"}
    => poisoned

\* A rejected task's captures are dropped after the guard: their destructors
\* may lock again.  A guard whose own destructor panicked may leak the lock.
SkippedTaskDropsOutsideGuard ==
  [][\A i \in Calls :
       task[i] = "owned" /\ task'[i] = "dropped" =>
         i \notin holders \/ first[i] = "LockRelease"]_coreVars

\* Threads of the locked phase that wait for the lock.
Waiting == {i \in Calls : pc[i] = "lock"} \cup {u \in Updaters : ext[u] = "idle"}

\* The destructor of a call's guard panicked and may have left the lock owned.
Leaking(i) == i \in Calls /\ first[i] = "LockRelease"

\* An owner of the lock neither waits for it nor has ended.
OwnersMoveOn(waiting, ended) ==
  \A h \in holders : h \notin waiting \cup ended \/ Leaking(h)
==============================================================================
