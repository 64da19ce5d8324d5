------------------------ MODULE MCLifecycleDclExecutor ------------------------
(***************************************************************************)
(* Instances of LifecycleDclExecutor for TLC: calls of both methods, with  *)
(* and without each finalizer, meet an outside writer.                     *)
(***************************************************************************)
EXTENDS LifecycleDclExecutor

CallbackFaults ==
  {"InitialConditionCheck", "Prepare", "SecondConditionCheck", "Task", "TaskCleanup",
   "Commit", "Rollback"}

BackendFaults == Phases
==============================================================================
