------------------------ MODULE MCLifecycleTransaction ------------------------
(***************************************************************************)
(* Instances of LifecycleTransaction for TLC: every call has a caller that *)
(* may reopen the gate for the others.                                     *)
(***************************************************************************)
EXTENDS LifecycleTransaction, TLC

CONSTANTS c1, c2, c3, u1, u2, u3

ThreeCallers == (u1 :> c1) @@ (u2 :> c2) @@ (u3 :> c3)

ApplicationFaults == {"Task", "Commit", "Rollback"}
==============================================================================
