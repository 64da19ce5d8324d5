--------------------------- MODULE LifecycleBuilder ---------------------------
(***************************************************************************)
(* The typestate builders of the lifecycle executor, and clones of what    *)
(* they build.  Each stage is a type of its own that is consumed by the    *)
(* methods it offers, so the type of a value decides which steps exist.    *)
(***************************************************************************)

CONSTANTS
  Values,     \* values of the builder types, and the executors they end in
  Callbacks   \* closures an application registers as finalizers

VARIABLES
  type,       \* the type of every value, or "none" before it exists
  commit,     \* Option<CommitCallback>
  rollback,   \* Option<RollbackCallback>
  registered  \* history: the finalizers registered on the way to the value

vars == <<type, commit, rollback, registered>>

None == {}
Some(f) == {f}

Init ==
  /\ type = [b \in Values |-> "none"]
  /\ commit = [b \in Values |-> None]
  /\ rollback = [b \in Values |-> None]
  /\ registered = [b \in Values |-> {}]

\* A method that consumes the value of one type and returns the next.
Consume(b, from, to) ==
  /\ type[b] = from
  /\ type' = [type EXCEPT ![b] = to]

Keep == UNCHANGED <<commit, rollback, registered>>

Register(b, slot, f) == registered' = [registered EXCEPT ![b] = @ \cup {<<slot, f>>}]

Builder(b) == Consume(b, "none", "LifecycleDclExecutorBuilder") /\ Keep

When(b) == Consume(b, "LifecycleDclExecutorBuilder", "LifecyclePredicateBuilder") /\ Keep

Prepare(b) == Consume(b, "LifecyclePredicateBuilder", "LifecyclePrepareBuilder") /\ Keep

Commit(b, f) ==
  /\ Consume(b, "LifecyclePrepareBuilder", "LifecycleCommitBuilder")
  /\ commit' = [commit EXCEPT ![b] = Some(f)]
  /\ Register(b, "commit", f)
  /\ UNCHANGED rollback

NoCommitReady(b) == Consume(b, "LifecyclePrepareBuilder", "LifecycleCommitBuilder") /\ Keep

\* Without commit the only stage left is one that requires rollback.
NoCommit(b) == Consume(b, "LifecyclePrepareBuilder", "LifecycleRollbackBuilder") /\ Keep

RollbackForgetsCommit(b, f) ==
  /\ Consume(b, "LifecycleCommitBuilder", "LifecycleReadyBuilder")
  /\ rollback' = [rollback EXCEPT ![b] = Some(f)]
  /\ Register(b, "rollback", f)
  /\ commit' = [commit EXCEPT ![b] = None]

Rollback(b, f) ==
  /\ Consume(b, "LifecycleCommitBuilder", "LifecycleReadyBuilder")
  /\ rollback' = [rollback EXCEPT ![b] = Some(f)]
  /\ Register(b, "rollback", f)
  /\ UNCHANGED commit

NoRollback(b) == Consume(b, "LifecycleCommitBuilder", "LifecycleReadyBuilder") /\ Keep

RollbackOnly(b, f) ==
  /\ Consume(b, "LifecycleRollbackBuilder", "LifecycleReadyBuilder")
  /\ rollback' = [rollback EXCEPT ![b] = Some(f)]
  /\ Register(b, "rollback", f)
  /\ UNCHANGED commit

Build(b) == Consume(b, "LifecycleReadyBuilder", "LifecycleDclExecutor") /\ Keep

\* The clone c of executor b shares its callbacks.
Clone(b, c) ==
  /\ type[b] = "LifecycleDclExecutor"
  /\ Consume(c, "none", "LifecycleDclExecutor")
  /\ commit' = [commit EXCEPT ![c] = commit[b]]
  /\ rollback' = [rollback EXCEPT ![c] = rollback[b]]
  /\ registered' = [registered EXCEPT ![c] = registered[b]]

(***************************************************************************)
(* The types, and what each of them offers.                                *)
(***************************************************************************)

LifecycleDclExecutorBuilder(b) == When(b)

LifecyclePredicateBuilder(b) == Prepare(b)

LifecyclePrepareBuilder(b) == NoCommit(b) \/ \E f \in Callbacks : Commit(b, f)

LifecycleCommitBuilder(b) == NoRollback(b) \/ \E f \in Callbacks : Rollback(b, f)

LifecycleRollbackBuilder(b) == \E f \in Callbacks : RollbackOnly(b, f)

LifecycleReadyBuilder(b) == Build(b)

LifecycleDclExecutor(b) == \E c \in Values : Clone(b, c)

Step(b) ==
  \/ Builder(b)
  \/ LifecycleDclExecutorBuilder(b) \/ LifecyclePredicateBuilder(b) \/ LifecyclePrepareBuilder(b)
  \/ LifecycleCommitBuilder(b) \/ LifecycleRollbackBuilder(b) \/ LifecycleReadyBuilder(b)
  \/ LifecycleDclExecutor(b)

Built == {b \in Values : type[b] = "LifecycleDclExecutor"}

Next ==
  \/ \E b \in Values : Step(b)
  \/ Built = Values /\ UNCHANGED vars

Spec == Init /\ [][Next]_vars

(***************************************************************************)
(* Properties.                                                             *)
(***************************************************************************)

\* No chain of builder methods and clones yields an executor without any
\* finalizer: the assumption under which the lifecycle executor is modelled.
BuiltHasFinalizer == \A b \in Built : commit[b] # None \/ rollback[b] # None

\* An executor holds exactly the finalizers registered on its chain, each in its
\* own slot, although every stage repacks them and a clone copies them.
RegisteredReachesExecutor ==
  \A b \in Built :
    registered[b] = ({"commit"} \X commit[b]) \cup ({"rollback"} \X rollback[b])
================================================================================
