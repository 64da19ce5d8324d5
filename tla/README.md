# qubit-dcl in TLA+

A verification project for `qubit-dcl`, a Rust crate that runs closures under
double-checked locking. It holds TLA+ modules translated from
`src/src/double_checked/`, TLC configurations that check them on small
instances, and proofs of their main theorems checked by TLAPS.

File names below are relative to `src/src/double_checked/` unless they start
with `src/`.

## 1. The system

### Components

| Component | Source | State it keeps | Operations |
|---|---|---|---|
| Locked core | `internal/dcl_core.rs`, `internal/panic_capture.rs`, `internal/locked_execution.rs`, `panic_phase.rs` | per call: the guard, the phase `Cell`, ownership of the task closure, the panic being unwound | `check_initial`, `execute_locked`, and their `_catching` forms, `catch_phase`, `drop_task_catching` |
| Basic executor | `dcl_executor.rs`, `execution_outcome.rs` | nothing between calls (an `Arc` of the predicate) | `run`, `run_catching` |
| Lifecycle executor | `lifecycle_dcl_executor.rs` and the outcome types | per call: the prepared token | `run_with_token`, `run_with_token_catching` |
| Finalization helpers | `internal/lifecycle_finalization.rs`, `internal/*rollback_execution.rs` | none | commit, rollback, conversion to the outcome |
| Panic metadata | `panic_info.rs`, `rollback_cause.rs` | phase, message, payload (an `Option` taken once) | `payload`, `into_payload`, `resume_unwind`, `Drop` |
| Lifecycle builders | `lifecycle_*_builder.rs` | the callbacks registered so far, in the type | `when`, `prepare`, `commit` or `no_commit`, `rollback` or `no_rollback`, `build` |
| Lock backends (external) | `qubit_lock::Lock` over std and parking_lot locks | owners, poison flag | `lock`, dropping the guard |
| Application (external) | the predicate, the callbacks and other users of the lock | the atomic gate and the data behind the lock | loads and stores of the gate |

### How they interact

A thread calls a run method with a lock and a one-shot task. The executor reads
the gate through the predicate without a lock; if it is open (and, for the
lifecycle executor, `prepare` produced a token) it takes the lock, reads the
gate again and runs the task under the same guard. The guard is released, an
unexecuted task is dropped, and the lifecycle executor hands the token to
`commit` or `rollback`. There is no shared executor state: threads meet only in
the lock and the gate, both of which belong to the application. The application
must change the gate only under the lock, in a task of an exclusive mode or
outside the executor.

Any callback, destructor, lock acquisition or guard release may panic. The
catching methods turn a panic into a `PanicInfo` with the phase it arose in;
the others let it unwind through the guard and the task. A second panic during
that unwinding aborts the process.

### What is hard

* **Stale observation.** The gate can close between the lock-free check and the
  grant of the lock, and `prepare` makes that window as long as it likes.
* **Guard scope.** One guard has to cover the second check and the task and has
  to be gone before the cleanup of a rejected task and before a finalizer.
* **Panics at every step.** Which panic is reported, under which phase, whether
  the lock is poisoned, whether the token is finalized, and whether a second
  panic replaces the first or aborts the process.
* **Finalization.** The token must be consumed exactly once on a dozen paths,
  and rollback may take the same lock again.
* **Waiting.** Every caller waits for the lock; each path must give it back.
* **Claim before commit.** The gate is closed under the guard and the work is
  committed after it; what fails in between must neither lose the work nor
  have it done twice.
* **Memory order.** The first check is a load without the lock and may return
  a value that was overwritten; a rejected call uses the data unlocked.

`PROJECT.json` lists these as hazards, each with its line and its properties.

### What makes each component correct

* *Locked core*: exclusive tasks never overlap, a task starts with the gate open,
  a panic crossing an exclusive standard guard poisons the lock, a rejected
  task is dropped after the guard.
* *Basic executor*: test-and-run is atomic (`GatedWork`); the outcome tells what
  happened; the first panic is the one reported, with its phase; a panicking
  initial check never aborts a capturing call; every call ends.
* *Lifecycle executor*: as above, and the token goes through its lifecycle once
  (`TokenLifecycle`), on the path that matches the task, outside the guard.
* *Panic metadata*: a payload has one owner and one end, whatever is dropped
  never aborts the process, and secondary panics never replace the original.
* *Builders*: an executor without any finalizer cannot be built, and it and its
  clones hold exactly the callbacks registered for it.
* *Application protocol*: work is available, claimed by one call or written once.
* *Gate visibility*: the check under the guard reads the latest value, the lock
  orders accesses to the data, and a rejection comes with the work it is due to.

## 2. Modules

| Module | Role |
|---|---|
| `DclCore` | the locked phase, unwinding, the lock, the gate and outside writers |
| `GatedWork` | abstract specification: atomic test-and-run of work behind a gate |
| `DclExecutor` | `run` and `run_catching` over `DclCore` |
| `MCDclExecutor` | fault sets for TLC |
| `DclCoreProofs` | invariant and lemmas of the locked phase, shared by both executors |
| `DclExecutorProofs` | theorems of the basic executor |
| `TokenLifecycle` | abstract specification: what happens to the token of a call |
| `LifecycleDclExecutor` | both lifecycle methods over `DclCore` |
| `MCLifecycleDclExecutor` | fault sets for TLC |
| `LifecycleProofs` | theorems of the lifecycle executor |
| `LifecycleGatedWorkProofs` | the lifecycle executor implements `GatedWork` |
| `PanicInfo` | ownership of captured payloads, with panicking destructors |
| `PanicInfoProofs` | theorems of `PanicInfo` |
| `LifecycleBuilder` | the typestate builders, and clones of built executors |
| `LifecycleBuilderProofs` | theorems of `LifecycleBuilder` |
| `OneRecord` | abstract specification: one record that is claimed, written or given back |
| `LifecycleTransaction` | the transaction protocol of the user guide over `LifecycleDclExecutor` |
| `MCLifecycleTransaction` | callers and faults for TLC |
| `LifecycleTransactionProofs` | theorems of the protocol |
| `GateVisibility` | `run` on a gate with release and acquire or relaxed accesses |
| `GateVisibilityProofs` | theorems of `GateVisibility` |

### State and actions of `DclCore`

A *call* is one invocation of a run method. Executors keep nothing between
invocations, so several calls of one thread are several members of `Calls`.

| Variable | In the code |
|---|---|
| `gate` | the application's atomic flag; what `predicate()` returns |
| `holders` | live guards: calls and outside writers that own the lock |
| `poisoned` | the poison flag of a standard-library lock |
| `ext` | where each outside writer is: about to lock, in its critical section, done |
| `pc` | the statement a call is at |
| `phase` | the `Cell<PanicPhase>` of `execute_locked_catching` |
| `task` | the closure: owned, dropped without running, or how its run ended |
| `payload`, `info` | the payload being unwound or captured, and the phase in its `PanicInfo` |
| `locked` | the `LockedExecution`, or `"Panicked"` |
| `first` | history variable: the first panic of the call, used by properties only |

A panic payload is identified with the phase that raised it: each phase occurs
once in a call, so the two determine each other and "which panic is this?"
stays a question the model can answer.

Each statement of `execute_locked_catching` that another thread can observe is
one action: `AcquireLock` (line 149), `SecondCheck` and `SecondReject`
(151-156), the task (`TaskCloses`, `TaskReturns`), `ReleaseGuard` (157-159) and
`DropRejected` (the closure ends, 161). Updates of the phase cell belong to the
action of the statement before them, since no panic can come in between. The panicking
outcome of each is an action of its own, followed by `UnwindGuard` and
`UnwindTask` in the order in which Rust drops the locals, or `DoublePanic` when
a destructor panics during that. `execute_locked` has the same steps without
the phase cell and the catch boundary (`i \notin Caught`): its guard is
declared after the parameter that owns the task, so the drop order is the same.

What stands outside the crate is external in the map: the lock
(`Compatible`, `Poisons`), a guard whose destructor panics and may leak the lock
(`ReleasePanics`), and writers that store to the gate under the lock (`ExternalStep`).

### `DclExecutor`

`CheckPasses`, `CheckRejects` and `CheckPanics` are the initial check;
`SkipTask` and `SkipTaskPanics` the early returns with `drop_task_catching` (or
the plain drop of `run`); `UnwindCall` a panic that leaves `run` before the
locked phase; `Return` is `LockedExecution::into_outcome` and the return.

### `LifecycleDclExecutor`

`run_with_token` and `run_with_token_catching` both use
`execute_locked_catching`, so `Caught = Calls` here, and `Catching` tells the
two methods apart. `Commits` and `Rollbacks` are the calls whose executor has
the callback; a token without one is dropped, and its destructor may panic
under the same phase. `ChooseFinalizer` is the match on the locked result
(260-265, 389-398). `Cause` is what `RollbackExecution::cause` and its captured
form tell the rollback callback, `IntoOutcome` what their `into_outcome` tells
the caller: two conversions of the same locked result, which `RollbackKnowsWhy`
ties together. The `Captured` sets hold the variants only the catching methods
return. `FinishCommit`, `FinishRollback` and their panicking forms
are the finalization helpers with the return; for a propagating call whose
locked phase panicked they are `rollback_then_resume` (475-484).
`ending` is a history variable: how the callback or destructor that consumed
the token ended (`Endings`). No action reads it. `Reported` is what finalization
makes of it in the code, and `OutcomeTellsWhatHappened` compares the two where
a call returns, so an outcome that hides a failed rollback behind an execution that
had panicked would be noticed. A propagating call that resumes a panic discards
how its rollback ended, and reports nothing of it.
`RollbackLocks` and `RollbackReopens` are a rollback callback that
compensates by taking the same lock and reopening the gate; this is what
makes "outside the guard" matter.

The rollback in `Reopening` stands for the one of the user guide, which undoes
what the task did under an exclusive mode. A shared task must not change the
protected data, so it leaves nothing to undo: `LifecycleAssumption` has
`Reopening \subseteq Rollbacks \cap Exclusive`.

### `PanicInfo`

The executor modules identify a payload with its phase and never destroy one.
`PanicInfo` is the other half: one invocation with a primary panic, secondary
work that may panic too, and a caller that owns the result. A payload of depth
`n > 0` panics when it is dropped, with a payload of depth `n - 1`. `path` says
which code runs the secondary work:

* `"resume"`: `rollback_then_resume` (lifecycle executor, 475-484) under
  `discard_secondary` (493-503). `DiscardPayload` is the drop of the result that
  the inner boundary caught, `DiscardForgets` the `mem::forget` behind the outer
  one, `ResumePrimary` the final `panic.resume_unwind()`.
* `"outcome"`: `catch_phase`, whose `PanicInfo` becomes a part of the outcome.
* `"skip"`: `drop(drop_task_catching(task))`, which drops that `PanicInfo` at once.

`CatchBy` gives the boundary that catches a panic at each control point; the
nesting of `catch_unwind` is lexical, so this is a constant. A panic that no
boundary catches leaves the crate, or aborts when the caller's frame is
already being unwound (`cleanup`). `DropInfo`, `DropPayload` and `DropContains`
are `Drop for PanicInfo` (150-157). The caller may take a payload
(`IntoPayload`), resume it (`ResumeUnwind`, which unwinds the frame that holds the
other info), panic on its own or drop what it has, in any order.

The variables `dropped`, `forgotten`, `delivered` and `escaped` record where each
payload went; `origin` is a history variable with the payload each panic was
raised with.

### `LifecycleBuilder`

One action per consuming method; `type` is the type of a value, and an operator
named after each type lists the methods it offers. Predicate and prepare are
registered on the only path there is, so `commit` and `rollback` are the state,
and `registered` is a history of what the application passed in. `Clone` makes a
second executor of the same callbacks (506-517). What TLC and the prover add to
the Rust types is the meaning of the chain as a whole: each stage's constructor
call passes the callbacks on by position.

### `LifecycleTransaction`

The crate promises only outcomes; whether work is done once depends on what the
application does with them. The user guide and
`src/tests/docs/lifecycle_transaction_tests.rs` give a protocol, and this module
runs it: the gate says that one record is to be written, the task closes it under
the guard (`TaskClaims`), commit writes the record after the guard is gone
(`CommitSucceeds`), and a caller whose attempt failed takes the lock and reopens
the gate (`LockForRetry`, `Reopen`) so that another call may retry. Its steps are
those of `LifecycleDclExecutor` with the application's choices filled in; an
updater of that module is here the code behind a call (`CallOf`).

A commit may fail before or, if `Uncertain`, after the record was written. The
guide tells callers to reopen only for work that is safe to retry, so `MayRetry`
asks whether the record is in the database; `MayRetryBlindly`, which trusts the
failed commit alone, is the mutant that writes it twice. A caller retries an
attempt through the same calls: each member of `Calls` is one attempt.

### `GateVisibility`

The other modules read the gate as if memory were sequentially consistent. Here
`stores` is its modification order and every thread has a `view`: the newest store
it knows of and the data accesses that happened before its next step. A load may
return any store that is not older than the view, so the first check may be
stale in both directions. An acquiring load of a releasing store takes its
writer's knowledge over; taking the lock takes over what former owners published
on release, for a shared mode only what exclusive owners did. `Acquiring` and
`Releasing` choose the ordering per thread, so the documented protocol and relaxed
deviations run side by side.

A call may be rejected by a closed gate that was reopened meanwhile, even with
acquire loads: the documentation promises no more than that a rejected call found
the gate closed. The other modules' atomic gate is justified where work runs:
under the guard the load returns the latest store (`SecondCheckSeesLatest`), so
from the second check on the two models agree. For a first check that passes by
a stale value the other modules have the same behaviour as one that passed
before the gate was closed. The stale rejection is the one step of this model that
they lack; it starts no task, stores nothing and takes no lock.

### Abstract specifications

`GatedWork` has no locks, phases or panics: `Start` tests the gate and begins
the task in one step, the gate belongs to the running tasks, an exclusive task
closes an opening at most once, and `Skip` needs a closed gate. Both executors
are checked against it through `WorkStatus`, and so is `GateVisibility`, where `open`
is the latest store to the gate. There a call that the lock-free check rejects stays
undecided, since it may have read an overwritten store; whatever the first
checks of the others returned, testing the gate and running the task act on
the latest one as one step. `TokenLifecycle` moves each token
from idle through prepared, worked, won or lost, to its single end, with weak
fairness; `Stage` maps the lifecycle executor to it. `OneRecord` has an attempt
claim the work, write it, fail or give it back, and tell its caller which: a
success is told in the step that writes the record, and only what was told to have
failed is given back. `LifecycleTransaction` implements it with `Place` as the
state of the work and `Answer` as what the caller may conclude from the outcome.

## 3. What TLC checks

| Run | Instance | Distinct states | Properties |
|---|---|---|---|
| `callbacks` | exclusive `run`, exclusive and shared `run_catching`, one writer; callbacks and destructors panic | 51,427 | `TypeOK`, `SerializedTasks`, `NoStaleTask`, `UnwoundGuardPoisons`, `OutcomeTellsWhatHappened`, `CatchingAbortsOnlyInLockedPhase`, `ImplementsGatedWork`, `SkippedTaskDropsOutsideGuard` |
| `backend` | two exclusive calls, two writers; lock and guard panic as well | 26,090 | `FirstPanicReported`, `NoWaitCycle` |
| `live` | as `callbacks`, under fairness | 51,427 | `EveryCallEnds` |
| `life_callbacks` | three lifecycle calls, commit only, rollback only, both; rollbacks reopen the gate; every phase may panic, lock and guard included | 807,742 | `TypeOK`, `FinalizerMatchesTask`, `OutcomeTellsWhatHappened`, `ImplementsGatedWork` |
| `life_backend` | two lifecycle calls, every phase may panic | 38,717 | `FinalizesOutsideGuard`, `FirstPanicDecides`, `RollbackKnowsWhy`, `NoWaitCycle`, `SkippedTaskDropsOutsideGuard` |
| `life_live` | two lifecycle calls and a writer, without panics of lock and guard, under fairness | 9,358 | `ImplementsTokenLifecycle` |
| `panic_info` | one invocation and its caller, three paths, payloads nested to depth 3 | 1,506 | `TypeOK`, `DisposalNeverAborts`, `OriginalEscapes`, `PayloadPresent`, `SettledOnce`, `OnlyNestedLeak` |
| `builder` | three values and two callbacks | 12,167 | `BuiltHasFinalizer`, `RegisteredReachesExecutor` |
| `transaction` | three calls, each with a caller that may retry, on a poisoning lock, commits that may have taken effect; under fairness | 24,634 | `TxTypeOK`, `WorkInOnePlace`, `OutcomeTellsCommit`, `ClaimsSettle`, `ImplementsOneRecord` |
| `visibility` | an exclusive acquiring and an exclusive relaxed call, a shared call, a releasing and a relaxed writer | 50,110 | `TypeOK`, `SecondCheckSeesLatest`, `OpeningsConsumedOnce`, `RejectionSeesWork`, `NoDataRace`, `ImplementsGatedWork` |

All hold. Each property has a mutant of a mapped definition in `PROJECT.json`,
a plausible bug under which TLC finds it violated.

**Bounds.** No counter needs a bound: a call ends, and the sets are finite. Three
calls are the fewest that show one call working, one waiting for the lock with a
stale observation and one shared call beside them; each method and lock mode
appears. One writer can both open and close the gate between any two steps of
the calls; `backend` has two, because there a writer can wait for a writer.
`MaxDepth = 3` is one more than any boundary looks at: a payload, what its
destructor raises, and what would be raised if that one were dropped. In
`transaction` three attempts let a retry fail and be retried; in `visibility`
each thread stores at most once, so the modification order ends by itself, and
five threads give each ordering and lock mode a partner. The
theorems below lift the safety properties they name to any number of calls and
writers.

**Deadlock** is checked except where guards panic (`backend`, `life_backend`,
`life_callbacks`): a guard destructor that panics may leave the lock owned, and then
everyone else really waits forever. The two backend runs check `NoWaitCycle`
instead: an owner of the lock neither waits for it nor has ended, with that one
exception. For the same reason `live` and `life_live` leave panics of the lock and the guard
out: no call can be promised to end behind a leaked lock. That a token still
follows its path when the guard panics is `FinalizerMatchesTask` in
`life_callbacks` and, for every step, the theorem `TokenSafety`, which holds
for all `Faults`. A state in which all have ended, or the process was aborted,
stutters.

**Fairness.** `WF` of the whole step of each call and of each writer: the
operating system eventually runs every thread that can run. Callbacks are
assumed to return or panic, since the crate cannot make them. Nothing stronger is
asked of the lock: calls and writers are finite in number and each takes the lock
finitely often, so a waiter finds the lock free for good in the end. With
unboundedly many callers a fair queue of the backend would be needed, which
the crate does not promise.

## 4. What is proved

Proofs are in the `*Proofs` modules, for all values of the constants under
`CoreAssumption` and `LifecycleAssumption` (calls and writers are different
things, the subsets are subsets, every lifecycle executor has a finalizer, and
only rollbacks of exclusive calls reopen), `PanicInfoAssumption` (the depth is
a natural number), `TransactionAssumption` (exclusive calls with both finalizers,
and one caller behind each call at most) and `VisibilityAssumption` (the subsets
are subsets; no assumption on who acquires and who releases). The sets need not be finite. Theorem names repeat between the
modules where the statement is the same.

| Theorem | Statement |
|---|---|
| `TypeCorrect` (both executors, `PanicInfo`, `GateVisibility`) | `Spec => []TypeOK` |
| `TasksSerialized` (both) | `Spec => []SerializedTasks` |
| `TasksNotStale` (both) | `Spec => []NoStaleTask` |
| `PoisonPreserved` (both) | `Spec => []UnwoundGuardPoisons` |
| `OutcomeTruthful` (both) | `Spec => []OutcomeTellsWhatHappened` |
| `FirstPanicWins` (both) | `Spec => []FirstPanicReported`, `Spec => []FirstPanicDecides` |
| `CatchingAborts` | `Spec => []CatchingAbortsOnlyInLockedPhase` |
| `DropsOutsideGuard` (both) | `Spec => SkippedTaskDropsOutsideGuard` |
| `NoDeadlock` (both) | `Spec => []NoWaitCycle` |
| `StepsAdvance` (both) | `Spec => [][Advance]_vars`: a call takes at most 17 steps |
| `NobodyStuck` (both) | `Spec => []SomebodyCanMove` |
| `Refinement` (both, `GateVisibility`) | `Spec => ImplementsGatedWork` |
| `TokensFinalizedByOutcome` | `Spec => []FinalizerMatchesTask` |
| `FinalizersRunUnlocked` | `Spec => []FinalizesOutsideGuard` |
| `TokenSafety` | `Spec => Tokens!Safety`, the refinement of `TokenLifecycle` without fairness |
| `DisposalIsSafe` | `Spec => []DisposalNeverAborts` |
| `OriginalResumed` | `Spec => []OriginalEscapes` |
| `PayloadAvailable` | `Spec => []PayloadPresent` |
| `SettledExactlyOnce` | `Spec => []SettledOnce` |
| `NoCapturedLeak` | `Spec => []OnlyNestedLeak` |
| `FinalizerRegistered` | `Spec => []BuiltHasFinalizer`, which discharges `Commits \cup Rollbacks = Calls` |
| `RegistrationExact` | `Spec => []RegisteredReachesExecutor` |
| `RollbackToldWhy` | `Spec => []RollbackKnowsWhy` |
| `ProtocolUsesExecutor` | `TxSpec => Spec`: the protocol is a behaviour of the lifecycle executor |
| `TxTypeCorrect` | `TxSpec => []TxTypeOK` |
| `WorkNeverLostNorDoubled` | `TxSpec => []WorkInOnePlace` |
| `OutcomeTrusted` | `TxSpec => []OutcomeTellsCommit` |
| `RecordRefinement` | `TxSpec => ImplementsOneRecord` |
| `LatestUnderGuard` | `Spec => []SecondCheckSeesLatest` |
| `ConsumedOnce` | `Spec => []OpeningsConsumedOnce` |
| `RejectionInformed` | `Spec => []RejectionSeesWork` |
| `RaceFree` | `Spec => NoDataRace` |

**The invariant.** None of the properties is inductive. `SerializedTasks` speaks
of tasks, while what keeps them apart is the lock: `GuardInv` ties control points
to ownership (a call between acquisition and release owns the lock, a call before
or after it does not, owners are compatible) and says that a task not yet run
sees an open gate. That is preserved because every store to the gate is made by
an owner that is incompatible with a running task. `CallInv` records what the
locals of the locked phase hold at each control point (`LocalsAt`) and that the
phase cell names it (`PhaseAt`): outcome and first-panic properties are read
off from it when the call returns. `CoreInv` is both with
`UnwoundGuardPoisons`, and the lemmas `LockedStepCoreInv` and
`ExternalStepCoreInv` show that the locked phase and the writers keep it;
`LockedStepIsLocal` confines a step to its own call, so a case of a proof looks
at one call only. `DclExecutorProofs` adds what holds at the executor's own control
points, and `LifecycleProofs` where the token is (`TokenAt`) and what history
leads to each outcome (`ReturnedFrom`, and `EndingTold` for how its finalizer ended). The invariants were checked with TLC on
the instances above before they were proved.

**The lifecycle executor** takes `TasksSerialized`, `TasksNotStale` and `PoisonPreserved`
from `CoreInv`: prepare and the finalizers never touch the guard of the locked
phase, and a rollback that locks is an owner like any other. The runs check these
three on the basic executor, whose core it shares.

**Waiting.** `NoWaitCycle` needs ownership the other way round: `GuardInv` says which
control points own the lock, `OwnerInv` that nobody else does. A call owns it
only where a guard is alive or its rollback has locked, a writer only in its
critical section, unless the destructor of the guard panicked. Every one of
these places has a step that needs no lock, so no owner waits.

**Termination.** `EveryCallEnds` itself is out of the prover's reach, but what it
rests on is proved. `StepsLeft` numbers the control points so that every step of a
call takes it to a smaller number and leaves all other threads where they are
(`StepsAdvance`). `CanMove` and `WriterCanMove` are the guards of a thread's
steps, and `NobodyStuck` says that one of them holds until all have ended or a lock
was leaked. Finitely many threads therefore end if the system takes steps while it
can. That `CanMove(i)` does imply `ENABLED CallStep(i)` was checked with TLC on
the instances above; the prover has no rules for `ENABLED`.

**Refinement proofs.** For `Refinement`, a step changes the abstract status of one call
only (`StatusOneCall`), and each action is matched with one abstract action or a
stutter; `GuardInv` gives the guards of `Start` and `Change`. For `TokenSafety`,
each step moves the stage of a call along one of the edges of `Edge`, and an
abort is `Crash`.

For the lifecycle executor's `Refinement` the new case is a rollback that
reopens the gate: it owns the lock exclusively, so by `GuardInv` no task runs,
which is the guard of the abstract `Change`.

**Payloads.** `OnlyNestedLeak` is about the end of an invocation, so its invariant
must say at every control point where the payload of each panic is. It gives
each info one of a few stages (`Fresh`, `Held`, `InHand`, `Caught`, `Gone`), and
`StagesAt` says which stage each control point allows; `SkipAt` adds that what
the skip path discards never reaches the caller. Every action moves one info
along one edge between stages, and all the properties can be read off from the stages.

**Transactions.** `ProtocolUsesExecutor` gives the protocol the invariant of the
lifecycle executor. What it adds says who may touch the work: a call that owns
the lock at its task sees the gate open, hence nothing claimed; a claim belongs
to a call that has closed the gate and not committed; and a caller that
reopens does so for its own claim, which `MayRetry` shows to be unwritten.
`RecordRefinement` follows each step: the task that closes the gate is `Claim`, a
commit is `Write` or, when nothing was written, `Fail`, and `Reopen` is `GiveBack`.

**Visibility.** `VisibilityInv` says that knowledge is never lost between owners:
whatever no present owner knows, the lock does (`LockKnows`), so whoever is granted
it knows the latest store and every conflicting access (`OwnerKnows`). A releasing
store carries the work behind every earlier one (`StoresCarryWork`), which is
what a rejected call learns. TLC checked the invariant on the instance above too.
Its `Refinement` reads the guards of `GatedWork` off from it: an owner past the
second check knows the latest store, which is the one it tested, and whoever stores
owns the lock alone, so a call closes the open gate of its own task and a writer
finds no task running.

**Only model-checked.** `EveryCallEnds`, `ClaimsSettle` and the fairness of
`ImplementsTokenLifecycle`: liveness is out of the prover's reach.

## 5. What is abstracted or left out

* **Returned values.** `R`, `E`, `C` and the token's contents are reduced to the
  variant that carries them. Their destructors are taken not to panic; the
  documentation excludes them from capture too.
* **Panics inside callbacks.** A callback panics as a whole, at any point after
  its effects on gate and lock. An abort caused inside application code alone
  is not modelled, nor is `panic = "abort"`.
* **Payload destructors** are in `PanicInfo` only; the executor modules compose
  with it through its theorem that disposing of a captured panic neither aborts
  nor raises anything.
* **Memory order** is in `GateVisibility` only, which leaves panics, tokens and
  liveness out. Stores to the gate outside the lock are excluded there as
  elsewhere: the documentation forbids them.
* **Databases.** The transaction's contents are one record per call, and the
  database's own mutex is taken not to be poisoned.
* **Locks.** Queues, fairness and timeouts of a backend; the crate calls `lock()`
  and nothing else.
* **Re-entrant use.** A predicate or task that takes the executor's own lock is
  forbidden by the documentation and does not occur; a finalizer that does is
  modelled.
* **Messages, Debug and Display output, benchmarks, examples.** No property is
  about them.

## 6. Plan

Done: the core, both executors with their abstract specifications, `PanicInfo`,
`LifecycleBuilder`, `LifecycleTransaction`, `GateVisibility`, and the theorems
above. What could follow:

1. The transaction protocol over several records, with work that arrives while
   a commit is under way.
2. A proof that `GateVisibility` with all accesses on the latest store implements
   the locked phase of `DclCore`, which would make the argument of section 2 on
   the atomic gate a theorem.
