---------------------------- MODULE MCDclExecutor ----------------------------
(***************************************************************************)
(* Instances of DclExecutor for TLC: an exclusive propagating call, an     *)
(* exclusive capturing call and a shared capturing call meet outside       *)
(* writers.                                                                *)
(***************************************************************************)
EXTENDS DclExecutor

CallbackFaults ==
  {"InitialConditionCheck", "SecondConditionCheck", "Task", "TaskCleanup"}

BackendFaults == CallbackFaults \cup {"LockAcquisition", "LockRelease"}
==============================================================================
