------------------------------ MODULE GatedWork ------------------------------
(***************************************************************************)
(* What double-checked execution promises, without locks, guards, phases   *)
(* or unwinding: testing the gate and starting the task is one atomic      *)
(* step, the gate belongs to the running tasks until they finish, and an   *)
(* opening of the gate is closed by at most one task.                      *)
(***************************************************************************)

CONSTANTS Calls, Exclusive

VARIABLES open, status

vars == <<open, status>>

Active == {c \in Calls : status[c] \in {"running", "closed"}}

Init ==
  /\ open \in BOOLEAN
  /\ status = [c \in Calls |-> "pending"]

Become(c, s) == status' = [status EXCEPT ![c] = s]

\* The call found no work to do.
Skip(c) == status[c] = "pending" /\ ~open /\ Become(c, "skipped") /\ UNCHANGED open

\* The call found work and runs its task; only shared tasks run side by side.
Start(c) ==
  /\ status[c] = "pending" /\ open
  /\ \A d \in Active : c \notin Exclusive /\ d \notin Exclusive
  /\ Become(c, "running")
  /\ UNCHANGED open

\* The running task claims the work: the gate is open until it does.
Close(c) ==
  /\ status[c] = "running" /\ c \in Exclusive
  /\ open /\ open' = FALSE
  /\ Become(c, "closed")

Finish(c) == c \in Active /\ Become(c, "finished") /\ UNCHANGED open

\* A predicate or the lock panicked before the call was decided.
Fail(c) == status[c] = "pending" /\ Become(c, "failed") /\ UNCHANGED open

\* Outside code changes the gate only between tasks.
Change == Active = {} /\ open' \in BOOLEAN /\ UNCHANGED status

Next ==
  \/ \E c \in Calls : Skip(c) \/ Start(c) \/ Close(c) \/ Finish(c) \/ Fail(c)
  \/ Change

Spec == Init /\ [][Next]_vars
==============================================================================
