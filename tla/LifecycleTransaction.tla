-------------------------- MODULE LifecycleTransaction --------------------------
(***************************************************************************)
(* The transaction protocol of the user guide on top of the lifecycle      *)
(* executor.  One record has to be written.  A task claims the work by     *)
(* closing the gate under the guard, commit writes the record after the    *)
(* guard is gone, and a caller whose attempt failed reopens the gate under *)
(* the same lock.  Every step is a step of LifecycleDclExecutor, with the  *)
(* choices it leaves to the application made as the protocol makes them.   *)
(***************************************************************************)
EXTENDS LifecycleDclExecutor

CONSTANTS
  CallOf,     \* an updater is the code of a caller behind its call CallOf[u]
  Uncertain   \* whether the database may fail a commit that took effect

ASSUME TransactionAssumption ==
  /\ Exclusive = Calls /\ Commits = Calls /\ Rollbacks = Calls /\ Reopening = {}
  /\ CallOf \in [Updaters -> Calls]
  /\ \A u, v \in Updaters : CallOf[u] = CallOf[v] => u = v
  /\ Uncertain \in BOOLEAN

VARIABLES
  committed,  \* calls whose record is in the database
  claims      \* history: calls that closed the gate and did not give the work back

database == <<committed, claims>>
txVars   == <<vars, committed, claims>>

TxInit ==
  /\ Init /\ gate = TRUE
  /\ committed = {}
  /\ claims = {}

(***************************************************************************)
(* The call.                                                               *)
(***************************************************************************)

\* The task closes the gate before it returns, whatever it returns.
TaskClaims(i) ==
  /\ TaskCloses(i)
  /\ claims' = claims \cup {i}
  /\ UNCHANGED <<lifeVars, committed>>

ExecutorStep(i) ==
  /\ CallStep(i)
  /\ pc[i] # "commit" /\ pc'[i] # "closed"
  /\ pc[i] = "task" => task'[i] \notin {"Ok", "Err"}
  /\ UNCHANGED database

Write(i) == committed' = committed \cup {i} /\ claims' = claims \ {i}

CommitSucceeds(i) == FinishCommit(i, "Ok") /\ Write(i)

\* Commit reports an error or panics before it wrote the record, or after it.
CommitFails(i) ==
  /\ FinishCommit(i, "Err") \/ FinishCommitPanics(i)
  /\ UNCHANGED database \/ (Uncertain /\ Write(i))

TxCallStep(i) == TaskClaims(i) \/ ExecutorStep(i) \/ CommitSucceeds(i) \/ CommitFails(i)

(***************************************************************************)
(* The caller, behind its call.                                            *)
(***************************************************************************)

MayRetryBlindly(i) ==
  /\ pc[i] = "done"
  /\ \/ result[i] = "TaskSucceeded" /\ fin[i] # "Succeeded"
     \/ result[i] = "TaskFailed" /\ fin[i] = "Succeeded"

\* The work is safe to retry: its record is not in the database although commit
\* failed, or the task failed and rollback completed.
MayRetry(i) ==
  /\ pc[i] = "done"
  /\ \/ result[i] = "TaskSucceeded" /\ fin[i] # "Succeeded" /\ i \notin committed
     \/ result[i] = "TaskFailed" /\ fin[i] = "Succeeded"

LockForRetry(u) ==
  /\ MayRetry(CallOf[u])
  /\ ExternalAcquire(u) \/ ExternalGivesUp(u)
  /\ UNCHANGED <<lifeVars, database>>

Reopen(u) ==
  /\ ExternalStore(u) /\ gate' = TRUE
  /\ claims' = claims \ {CallOf[u]}
  /\ UNCHANGED <<lifeVars, committed>>

RetryStep(u) == LockForRetry(u) \/ Reopen(u)

TxFinished ==
  \/ Aborted
  \/ /\ \A i \in Calls : Ended(i)
     /\ \A u \in Updaters : ext[u] = "done" \/ (ext[u] = "idle" /\ ~MayRetry(CallOf[u]))

TxStep ==
  \/ \E i \in Calls : TxCallStep(i)
  \/ \E u \in Updaters : RetryStep(u)

TxNext == (~Aborted /\ TxStep) \/ (TxFinished /\ UNCHANGED txVars)

TxSpec == TxInit /\ [][TxNext]_txVars

TxFairness ==
  /\ \A i \in Calls : WF_txVars(~Aborted /\ TxCallStep(i))
  /\ \A u \in Updaters : WF_txVars(~Aborted /\ RetryStep(u))

TxFairSpec == TxSpec /\ TxFairness

(***************************************************************************)
(* Properties.                                                             *)
(***************************************************************************)

TxTypeOK == TypeOK /\ committed \subseteq Calls /\ claims \subseteq Calls

\* The work is always in exactly one place: available behind the open gate, with
\* the one call that claimed it, or in the database, written once.  No two calls
\* write it and no failure in between makes it vanish.
WorkInOnePlace ==
  /\ gate <=> claims \cup committed = {}
  /\ claims \cap committed = {}
  /\ \A i, j \in claims \cup committed : i = j

\* A caller can trust its outcome: TaskSucceeded with commit Succeeded means the
\* record is in the database, and no call that reports or unwinds with anything
\* but a task that succeeded has written it.
OutcomeTellsCommit ==
  \A i \in Calls :
    /\ pc[i] = "done" /\ result[i] = "TaskSucceeded" /\ fin[i] = "Succeeded" => i \in committed
    /\ i \in committed => /\ task[i] = "Ok" /\ first[i] \in {None, "Commit"}
                          /\ pc[i] = "done" => result[i] = "TaskSucceeded"

\* A claim does not stay behind: its call writes the record or, if the attempt
\* may be retried, its caller gives the work back, unless the lock is poisoned.
ClaimsSettle ==
  \A u \in Updaters :
    CallOf[u] \in claims ~>
      \/ CallOf[u] \notin claims
      \/ Ended(CallOf[u]) /\ ~MayRetry(CallOf[u])
      \/ poisoned \/ Aborted

\* What the caller of an attempt concludes from its outcome.
Answer(i) ==
  IF ~Ended(i) THEN "none"
  ELSE IF pc[i] = "done" /\ result[i] = "TaskSucceeded" /\ fin[i] = "Succeeded"
  THEN "success" ELSE "failure"

Place == IF gate THEN "available" ELSE IF committed = {} THEN "claimed" ELSE "written"

Record == INSTANCE OneRecord WITH
            place <- Place, by <- claims \cup committed,
            answer <- [i \in Calls |-> Answer(i)]

\* The protocol implements OneRecord: from claim to record or retry the work
\* moves only with the attempt that has it, written work is never offered again,
\* and success is told to nobody but the attempt that wrote it.
ImplementsOneRecord == Record!Spec
================================================================================
