----------------------- MODULE LifecycleTransactionProofs -----------------------
(***************************************************************************)
(* Theorems of LifecycleTransaction.  The protocol only makes choices the  *)
(* executor leaves open, so it inherits the invariant of the executor; on  *)
(* top of it the work is shown to be in one place, whoever fails where.    *)
(***************************************************************************)
EXTENDS LifecycleTransaction, LifecycleProofs

USE TransactionAssumption

(***************************************************************************)
(* The protocol is a way to use the executor.                              *)
(***************************************************************************)

LEMMA TxCallIsCall == ASSUME NEW i \in Calls, TxCallStep(i) PROVE CallStep(i)
BY DEF TxCallStep, TaskClaims, ExecutorStep, CommitSucceeds, CommitFails, CallStep, LockedStep,
       Endings

LEMMA RetryIsOutside == ASSUME NEW u \in Updaters, RetryStep(u) PROVE OutsideStep(u)
BY DEF RetryStep, LockForRetry, Reopen, OutsideStep, ExternalStep

LEMMA TxStepIsStep == [TxNext]_txVars => [Next]_vars
<1> SUFFICES ASSUME [TxNext]_txVars PROVE [Next]_vars
  OBVIOUS
<1>1. CASE UNCHANGED txVars
  BY <1>1 DEF txVars
<1>2. CASE TxFinished /\ UNCHANGED txVars
  BY <1>2 DEF txVars
<1>3. CASE ~Aborted /\ TxStep
  BY <1>3, TxCallIsCall, RetryIsOutside DEF TxStep, Next, Step
<1> QED
  BY <1>1, <1>2, <1>3 DEF TxNext

\* Whatever holds of the lifecycle executor holds of the protocol.
THEOREM ProtocolUsesExecutor == TxSpec => Spec
<1>1. TxInit => Init
  BY DEF TxInit
<1> QED
  BY <1>1, TxStepIsStep, PTL DEF TxSpec, Spec

(***************************************************************************)
(* The inductive invariant.                                                *)
(***************************************************************************)

Retried(i) == \E u \in Updaters : CallOf[u] = i /\ ext[u] = "done"

\* Where the work of a call is: from closing the gate to the end of the call in
\* its hands, afterwards in the database, given back, or still in its hands.
WorkAt(i) ==
  /\ pc[i] = "closed" => i \in claims
  /\ task[i] \in {"Ok", "Err"} /\ ~Ended(i) => i \in claims
  /\ task[i] \in {"Ok", "Err"} => i \in claims \cup committed \/ Retried(i)
  /\ i \in committed => /\ task[i] = "Ok" /\ Ended(i) /\ first[i] \in {None, "Commit"}
                        /\ pc[i] = "done" => result[i] = "TaskSucceeded"
  /\ pc[i] = "done" /\ result[i] = "TaskSucceeded" /\ fin[i] = "Succeeded" => i \in committed

\* A caller that owns the lock is about to give back what its call still claims.
RetryAt(u) ==
  ext[u] = "holding" => pc[CallOf[u]] = "done" /\ CallOf[u] \in claims

TxInv ==
  /\ Inv
  /\ TxTypeOK
  /\ WorkInOnePlace
  /\ \A i \in Calls : WorkAt(i)
  /\ \A u \in Updaters : RetryAt(u)

LEMMA TxInitInv == TxInit => TxInv
BY InitInv DEF TxInit, Init, CoreInit, TxInv, TxTypeOK, Inv, WorkInOnePlace, WorkAt, RetryAt, Ended

\* Steps of a call leave the callers, and what they know of other calls, alone.
LEMMA CallStepFrame ==
  ASSUME Inv, NEW i \in Calls, CallStep(i)
  PROVE  /\ ext' = ext
         /\ \A j \in Calls \ {i} : Same(j)
         /\ ~Ended(i)
<1>1. TypeOK
  BY DEF Inv
<1>2. CASE EarlyStep(i)
  BY <1>1, <1>2, EarlyStepIsLocal
     DEF EarlyStep, CheckPasses, CheckRejects, CheckPanics, PrepareReturns, PrepareFails,
         PreparePanics, PanicsEarly, SkipTask, SkipTaskPanics, UnwindCall, EnterLocked, shared, Ended
<1>3. CASE FinalStep(i)
  BY <1>1, <1>3, FinalStepIsLocal
     DEF FinalStep, ChooseFinalizer, FinishCommit, FinishCommitPanics, FinishRollback,
         FinishRollbackPanics, RollbackLocks, RollbackReopens, shared, Ended
<1>4. CASE LockedStep(i) /\ UNCHANGED lifeVars
  <2>1. \A j \in Calls \ {i} : Same(j)
    BY <1>1, <1>4, LockedStepIsLocal DEF TypeOK, Same, lifeVars
  <2>2. ext' = ext /\ ~Ended(i)
    BY <1>4 DEF LockedStep, AcquireLock, LockPanics, SecondCheck, SecondReject, SecondPanics,
       TaskCloses, TaskPanics, TaskReturns, ReleaseGuard, ReleasePanics, DropRejected,
       DropRejectedPanics, UnwindGuard, UnwindTask, DoublePanic, shared, Ended
  <2> QED
    BY <2>1, <2>2
<1> QED
  BY <1>2, <1>3, <1>4 DEF CallStep, EarlyStep, FinalStep

LEMMA CallStepInv == ASSUME Inv, NEW i \in Calls, CallStep(i) PROVE Inv'
BY OwnStepInv, LockedStepInv DEF CallStep, EarlyStep, FinalStep

\* The work of a call that neither moves nor gains or loses the work stays.
LEMMA SameWork ==
  ASSUME NEW j \in Calls, Same(j), WorkAt(j),
         Retried(j) => Retried(j)',
         j \in claims' <=> j \in claims, j \in committed' <=> j \in committed
  PROVE  WorkAt(j)'
BY DEF Same, WorkAt, Ended

\* Closing the gate takes the work, which was available.
LEMMA ClaimInv == ASSUME TxInv, NEW i \in Calls, TaskClaims(i) PROVE TxInv'
<1>1. CallStep(i)
  BY TxCallIsCall DEF TxCallStep
<1>2. ext' = ext /\ \A j \in Calls \ {i} : Same(j)
  BY <1>1, CallStepFrame DEF TxInv
<1>3. gate /\ gate' = FALSE /\ pc[i] = "task" /\ pc'[i] = "closed"
  BY DEF TaskClaims, TaskCloses, Goto, TxInv, Inv, CoreInv, GuardInv, NoStaleTask, TypeOK, CoreTypeOK
<1>4. claims = {} /\ committed = {} /\ claims' = {i} /\ committed' = {}
  BY <1>3 DEF TxInv, WorkInOnePlace, TaskClaims
<1>5. task'[i] = task[i] /\ task[i] = "owned"
  BY <1>3, InvCallAt DEF TxInv, CallAt, LocalsAt, Untouched, TaskClaims, TaskCloses
<1>6. ASSUME NEW j \in Calls PROVE WorkAt(j)'
  BY <1>2, <1>3, <1>4, <1>5, SameWork DEF TxInv, WorkAt, Ended, Retried
<1>7. ASSUME NEW u \in Updaters PROVE RetryAt(u)'
  BY <1>2, <1>4 DEF TxInv, RetryAt
<1>8. WorkInOnePlace'
  BY <1>3, <1>4 DEF WorkInOnePlace
<1>9. Inv'
  BY <1>1, CallStepInv DEF TxInv
<1> QED
  BY <1>4, <1>6, <1>7, <1>8, <1>9 DEF TxInv, TxTypeOK, Inv

\* No other step of the executor moves the work, and a task that returns has
\* claimed it.
LEMMA ExecutorStepKeeps ==
  ASSUME Inv, NEW i \in Calls, CallAt(i), ExecutorStep(i)
  PROVE  /\ gate' = gate
         /\ pc'[i] # "closed"
         /\ task'[i] \in {"Ok", "Err"} => task[i] = task'[i] \/ pc[i] = "closed"
         /\ pc'[i] = "done" => result'[i] # "TaskSucceeded"
<1> USE DEF Inv, TypeOK, CoreTypeOK, Goto, Raise, NotePanic, Decide, shared, lifeVars, None
<1>0. pc[i] # "commit" /\ pc'[i] # "closed" /\ (pc[i] = "task" => task'[i] \notin {"Ok", "Err"})
  BY DEF ExecutorStep
<1>1. CASE EarlyStep(i)
  BY <1>0, <1>1 DEF EarlyStep, CheckPasses, CheckRejects, CheckPanics, PrepareReturns, PrepareFails,
     PreparePanics, PanicsEarly, SkipTask, SkipTaskPanics, UnwindCall, EnterLocked,
     CallAt, LifeAt, EarlyReturn
<1>2. CASE ChooseFinalizer(i) \/ RollbackLocks(i) \/ RollbackReopens(i)
  BY <1>0, <1>2 DEF ChooseFinalizer, RollbackLocks, RollbackReopens, CallAt, LifeAt, Finalizing, TokenAt
<1>3. CASE (\E e \in Endings : FinishRollback(i, e)) \/ FinishRollbackPanics(i)
  <2>1. IntoOutcome(i) # "TaskSucceeded" \/ Resumes(i)
    BY <1>3 DEF FinishRollback, FinishRollbackPanics, CallAt, LifeAt, Finalizing, Failed, IntoOutcome,
       RolledBack, CapturedRolledBack, Resumes
  <2> QED
    BY <1>0, <1>3, <2>1 DEF FinishRollback, FinishRollbackPanics, Resumes
<1>4. CASE LockedStep(i) /\ UNCHANGED lifeVars
  BY <1>0, <1>4 DEF LockedStep, AcquireLock, LockPanics, SecondCheck, SecondReject, SecondPanics,
     TaskCloses, TaskPanics, TaskReturns, ReleaseGuard, ReleasePanics, DropRejected,
     DropRejectedPanics, UnwindGuard, UnwindTask, DoublePanic, AfterRelease
<1> QED
  BY <1>0, <1>1, <1>2, <1>3, <1>4
     DEF ExecutorStep, CallStep, EarlyStep, FinishCommit, FinishCommitPanics

LEMMA ExecutorStepInv == ASSUME TxInv, NEW i \in Calls, ExecutorStep(i) PROVE TxInv'
<1>1. CallStep(i) /\ UNCHANGED database
  BY DEF ExecutorStep
<1>2. Inv /\ CallAt(i) /\ Inv'
  BY <1>1, InvCallAt, CallStepInv DEF TxInv
<1>3. ext' = ext /\ ~Ended(i) /\ \A j \in Calls \ {i} : Same(j)
  BY <1>1, CallStepFrame DEF TxInv
<1>4. /\ gate' = gate /\ pc'[i] # "closed"
      /\ task'[i] \in {"Ok", "Err"} => i \in claims
      /\ pc'[i] = "done" => result'[i] # "TaskSucceeded"
  BY <1>2, <1>3, ExecutorStepKeeps DEF TxInv, WorkAt
<1>5. WorkAt(i)'
  BY <1>1, <1>3, <1>4 DEF TxInv, WorkAt, database
<1>6. ASSUME NEW j \in Calls, j # i PROVE WorkAt(j)'
  BY <1>1, <1>3, <1>6, SameWork DEF TxInv, Retried, database
<1>7. ASSUME NEW u \in Updaters PROVE RetryAt(u)'
  BY <1>1, <1>3 DEF TxInv, RetryAt, Same, Ended, database
<1>8. WorkInOnePlace' /\ TxTypeOK'
  BY <1>1, <1>2, <1>4 DEF TxInv, WorkInOnePlace, TxTypeOK, Inv, database
<1> QED
  BY <1>2, <1>5, <1>6, <1>7, <1>8 DEF TxInv

\* Commit holds the only claim: it keeps it or turns it into the record.
LEMMA CommitInv == ASSUME TxInv, NEW i \in Calls, CommitSucceeds(i) \/ CommitFails(i) PROVE TxInv'
<1>1. CallStep(i) /\ pc[i] = "commit"
  BY TxCallIsCall DEF TxCallStep, CommitSucceeds, CommitFails, FinishCommit, FinishCommitPanics
<1>2. Inv /\ CallAt(i) /\ Inv'
  BY <1>1, InvCallAt, CallStepInv DEF TxInv
<1>3. ext' = ext /\ ~Ended(i) /\ \A j \in Calls \ {i} : Same(j)
  BY <1>1, CallStepFrame DEF TxInv
<1>4. task[i] = "Ok" /\ first[i] = None /\ fin[i] = None
  BY <1>1, <1>2 DEF CallAt, LifeAt, TokenAt, Returned, Quiet
<1>5. claims = {i} /\ committed = {} /\ ~gate
  BY <1>3, <1>4 DEF TxInv, WorkAt, WorkInOnePlace
<1>6. gate' = gate /\ task' = task
  BY DEF CommitSucceeds, CommitFails, FinishCommit, FinishCommitPanics, shared
<1>7. /\ pc'[i] \in {"done", "unwound"} /\ first'[i] \in {None, "Commit"}
      /\ pc'[i] = "done" => result'[i] = "TaskSucceeded"
  BY <1>2, <1>4 DEF Inv, TypeOK, CoreTypeOK, CommitSucceeds, CommitFails, FinishCommit,
     FinishCommitPanics, Goto, Decide, Raise, NotePanic
<1>8. \/ claims' = {i} /\ committed' = {} /\ fin'[i] # "Succeeded"
      \/ claims' = {} /\ committed' = {i}
  BY <1>2, <1>4, <1>5 DEF Inv, TypeOK, CommitSucceeds, CommitFails, Write, FinishCommit,
     FinishCommitPanics, FinalizeCommit, Reported, database, None
<1>9. WorkAt(i)'
  BY <1>4, <1>6, <1>7, <1>8 DEF WorkAt, Ended
<1>10. ASSUME NEW j \in Calls, j # i PROVE WorkAt(j)'
  BY <1>3, <1>5, <1>8, <1>10, SameWork DEF TxInv, Retried
<1>11. ASSUME NEW u \in Updaters PROVE RetryAt(u)'
  BY <1>1, <1>3, <1>5 DEF TxInv, RetryAt
<1>12. WorkInOnePlace' /\ TxTypeOK'
  BY <1>2, <1>5, <1>6, <1>8 DEF WorkInOnePlace, TxTypeOK, Inv
<1> QED
  BY <1>2, <1>9, <1>10, <1>11, <1>12 DEF TxInv

\* A caller's step leaves every call where it is.
LEMMA RetryFrame ==
  ASSUME TxInv, NEW u \in Updaters, RetryStep(u)
  PROVE  /\ Inv'
         /\ \A j \in Calls : Same(j) /\ (Retried(j) => Retried(j)')
         /\ \A v \in Updaters \ {u} : ext'[v] = ext[v]
<1>1. OutsideStep(u) /\ Inv
  BY RetryIsOutside DEF TxInv
<1>2. \A j \in Calls : j \in holders' <=> j \in holders
  BY <1>1, CoreAssumption DEF Inv, CoreInv, GuardInv, OutsideStep, ExternalStep, ExternalAcquire,
     ExternalStore, ExternalGivesUp
<1>3. \A j \in Calls : Same(j)
  BY <1>1, <1>2, ExternalStepIsLocal DEF OutsideStep, Same, lifeVars
<1>4. /\ ext[u] # "done"
      /\ \A v \in Updaters \ {u} : ext'[v] = ext[v]
  BY <1>1 DEF Inv, TypeOK, CoreTypeOK, OutsideStep, ExternalStep, ExternalAcquire, ExternalStore,
     ExternalGivesUp
<1>5. ASSUME NEW j \in Calls, Retried(j) PROVE Retried(j)'
  BY <1>4, <1>5 DEF Retried
<1> QED
  BY <1>1, <1>3, <1>4, <1>5, OutsideStepInv

\* A caller takes the lock only while its call still claims the work.
LEMMA LockForRetryInv == ASSUME TxInv, NEW u \in Updaters, LockForRetry(u) PROVE TxInv'
<1> DEFINE i == CallOf[u]
<1>1. i \in Calls /\ MayRetry(i) /\ ext[u] = "idle" /\ gate' = gate /\ UNCHANGED database
  BY DEF LockForRetry, ExternalAcquire, ExternalGivesUp
<1>2. /\ Inv'
      /\ \A j \in Calls : Same(j) /\ (Retried(j) => Retried(j)')
      /\ \A v \in Updaters \ {u} : ext'[v] = ext[v]
  BY RetryFrame DEF RetryStep
<1>3. ~Retried(i)
  BY <1>1 DEF Retried
<1>4. task[i] \in {"Ok", "Err"} /\ (i \in committed => task[i] = "Ok" /\ result[i] = "TaskSucceeded")
  BY <1>1, InvCallAt DEF MayRetry, TxInv, WorkAt, CallAt, LifeAt, ReturnedFrom
<1>5. pc[i] = "done" /\ i \in claims
  BY <1>1, <1>3, <1>4 DEF MayRetry, TxInv, WorkAt
<1>6. ASSUME NEW j \in Calls PROVE WorkAt(j)'
  BY <1>1, <1>2, SameWork DEF TxInv, database
<1>7. ASSUME NEW v \in Updaters PROVE RetryAt(v)'
  BY <1>1, <1>2, <1>5 DEF TxInv, RetryAt, Same, database
<1>8. WorkInOnePlace' /\ TxTypeOK'
  BY <1>1, <1>2 DEF TxInv, WorkInOnePlace, TxTypeOK, Inv, database
<1> QED
  BY <1>2, <1>6, <1>7, <1>8 DEF TxInv

\* Reopening gives back the only claim.
LEMMA ReopenInv == ASSUME TxInv, NEW u \in Updaters, Reopen(u) PROVE TxInv'
<1> DEFINE i == CallOf[u]
<1>1. /\ i \in Calls /\ pc[i] = "done" /\ i \in claims
      /\ gate' = TRUE /\ committed' = committed /\ claims' = claims \ {i}
  BY DEF Reopen, ExternalStore, TxInv, RetryAt
<1>2. claims = {i} /\ committed = {} /\ claims' = {} /\ committed' = {}
  BY <1>1 DEF TxInv, WorkInOnePlace
<1>3. /\ Inv'
      /\ \A j \in Calls : Same(j) /\ (Retried(j) => Retried(j)')
      /\ \A v \in Updaters \ {u} : ext'[v] = ext[v]
  BY RetryFrame DEF RetryStep
<1>4. ext'[u] = "done"
  BY DEF Reopen, ExternalStore, TxInv, Inv, TypeOK, CoreTypeOK
<1>5. WorkAt(i)'
  <2>1. Retried(i)'
    BY <1>4 DEF Retried
  <2> QED
    BY <1>1, <1>2, <1>3, <2>1 DEF TxInv, WorkAt, Same, Ended
<1>6. ASSUME NEW j \in Calls, j # i PROVE WorkAt(j)'
  BY <1>1, <1>2, <1>3, <1>6, SameWork DEF TxInv
<1>7. ASSUME NEW v \in Updaters PROVE RetryAt(v)'
  BY <1>2, <1>3, <1>4 DEF TxInv, RetryAt
<1>8. WorkInOnePlace' /\ TxTypeOK'
  BY <1>1, <1>2, <1>3 DEF WorkInOnePlace, TxTypeOK, Inv
<1> QED
  BY <1>3, <1>5, <1>6, <1>7, <1>8 DEF TxInv

LEMMA TxNextInv == TxInv /\ [TxNext]_txVars => TxInv'
<1> SUFFICES ASSUME TxInv, [TxNext]_txVars PROVE TxInv'
  OBVIOUS
<1>1. CASE UNCHANGED txVars
  <2>1. Inv' /\ \A j \in Calls : Same(j)
    BY <1>1, StutterInv DEF txVars, vars, coreVars, TxInv, Same
  <2>2. \A j \in Calls : WorkAt(j)'
    BY <1>1, <2>1, SameWork DEF txVars, vars, coreVars, TxInv, Retried
  <2> QED
    BY <1>1, <2>1, <2>2
       DEF txVars, vars, coreVars, TxInv, TxTypeOK, Inv, WorkInOnePlace, RetryAt
<1>2. ASSUME NEW i \in Calls, TxCallStep(i) PROVE TxInv'
  BY <1>2, ClaimInv, ExecutorStepInv, CommitInv DEF TxCallStep
<1>3. ASSUME NEW u \in Updaters, RetryStep(u) PROVE TxInv'
  BY <1>3, LockForRetryInv, ReopenInv DEF RetryStep
<1> QED
  BY <1>1, <1>2, <1>3 DEF TxNext, TxStep

LEMMA TxSpecInv == TxSpec => []TxInv
BY TxInitInv, TxNextInv, PTL DEF TxSpec

(***************************************************************************)
(* Safety.                                                                 *)
(***************************************************************************)

\* The database and the claims stay sets of calls, the executor well typed.
THEOREM TxTypeCorrect == TxSpec => []TxTypeOK
<1>1. TxInv => TxTypeOK
  BY DEF TxInv
<1> QED
  BY <1>1, TxSpecInv, PTL

\* The record is written once at most and the work never lost, for any number of
\* attempts and callers, and a database that fails commits which took effect.
THEOREM WorkNeverLostNorDoubled == TxSpec => []WorkInOnePlace
<1>1. TxInv => WorkInOnePlace
  BY DEF TxInv
<1> QED
  BY <1>1, TxSpecInv, PTL

\* What a caller concludes from its outcome is true of the database.
THEOREM OutcomeTrusted == TxSpec => []OutcomeTellsCommit
<1>1. TxInv => OutcomeTellsCommit
  BY DEF TxInv, WorkAt, OutcomeTellsCommit
<1> QED
  BY <1>1, TxSpecInv, PTL

(***************************************************************************)
(* Refinement of OneRecord.                                                *)
(***************************************************************************)

Answers == [i \in Calls |-> Answer(i)]

LEMMA SameAnswer == ASSUME NEW j \in Calls, Same(j) PROVE Answer(j)' = Answer(j)
BY DEF Same, Answer, Ended

\* A step of one call tells an answer to that call at most.
LEMMA AnswerOneCall ==
  ASSUME NEW i \in Calls, \A j \in Calls \ {i} : Same(j)
  PROVE  Answers' = [Answers EXCEPT ![i] = Answer(i)']
BY SameAnswer DEF Answers

\* The place of the work follows from who claims it and who wrote it.
LEMMA PlaceOfWork ==
  ASSUME WorkInOnePlace
  PROVE  /\ claims = {} /\ committed = {} => Place = "available"
         /\ \A i \in claims : Place = "claimed" /\ claims \cup committed = {i}
         /\ \A i \in committed : Place = "written" /\ claims \cup committed = {i}
BY DEF WorkInOnePlace, Place

LEMMA InitRecord == TxInit => Record!Init
BY DEF TxInit, Init, CoreInit, Record!Init, Place, Answer, Ended

LEMMA ClaimRefines ==
  ASSUME TxInv, TxInv', NEW i \in Calls, TaskClaims(i)
  PROVE  Record!Claim(i)
<1>1. CallStep(i)
  BY TxCallIsCall DEF TxCallStep
<1>2. (\A j \in Calls \ {i} : Same(j)) /\ ~Ended(i)
  BY <1>1, CallStepFrame DEF TxInv
<1>3. gate /\ ~Ended(i)'
  BY <1>2 DEF TaskClaims, TaskCloses, Goto, TxInv, Inv, CoreInv, GuardInv, NoStaleTask, TypeOK,
     CoreTypeOK, Ended
<1>4. claims = {} /\ committed = {} /\ claims' = {i} /\ committed' = {}
  BY <1>3 DEF TxInv, WorkInOnePlace, TaskClaims
<1>5. Place = "available" /\ Place' = "claimed" /\ (claims \cup committed)' = {i}
  BY <1>4, PlaceOfWork DEF TxInv, Place, WorkInOnePlace
<1>6. Answer(i) = "none" /\ Answer(i)' = "none"
  BY <1>2, <1>3 DEF Answer
<1>7. Answers' = Answers
  BY <1>2, <1>6, SameAnswer DEF Answers
<1> QED
  BY <1>5, <1>6, <1>7 DEF Record!Claim, Answers

\* The call goes on, or it ends without a record.
LEMMA ExecutorStepRefines ==
  ASSUME TxInv, TxInv', NEW i \in Calls, ExecutorStep(i)
  PROVE  [Record!Next]_(Record!vars)
<1>1. CallStep(i) /\ UNCHANGED database
  BY DEF ExecutorStep
<1>2. (\A j \in Calls \ {i} : Same(j)) /\ ~Ended(i)
  BY <1>1, CallStepFrame DEF TxInv
<1>3. gate' = gate /\ (pc'[i] = "done" => result'[i] # "TaskSucceeded")
  BY InvCallAt, ExecutorStepKeeps DEF TxInv
<1>4. Place' = Place /\ (claims \cup committed)' = claims \cup committed
  BY <1>1, <1>3 DEF Place, database
<1>5. Answer(i) = "none" /\ Answer(i)' \in {"none", "failure"}
  BY <1>2, <1>3 DEF Answer
<1>6. Answers' = [Answers EXCEPT ![i] = Answer(i)']
  BY <1>2, AnswerOneCall
<1>7. CASE Answer(i)' = "failure"
  <2>1. Record!Fail(i)
    BY <1>4, <1>5, <1>6, <1>7 DEF Record!Fail, Record!Tell, Answers
  <2> QED
    BY <2>1 DEF Record!Next
<1>8. CASE Answer(i)' = "none"
  BY <1>4, <1>5, <1>6, <1>8 DEF Record!vars, Answers
<1> QED
  BY <1>5, <1>7, <1>8

\* Commit ends the attempt that has the work, with or without the record.
LEMMA CommitRefines ==
  ASSUME TxInv, TxInv', NEW i \in Calls, CommitSucceeds(i) \/ CommitFails(i)
  PROVE  [Record!Next]_(Record!vars)
<1>1. CallStep(i) /\ pc[i] = "commit"
  BY TxCallIsCall DEF TxCallStep, CommitSucceeds, CommitFails, FinishCommit, FinishCommitPanics
<1>2. (\A j \in Calls \ {i} : Same(j)) /\ ~Ended(i)
  BY <1>1, CallStepFrame DEF TxInv
<1>3. CallAt(i)
  BY InvCallAt DEF TxInv
<1>4. task[i] = "Ok" /\ fin[i] = None
  BY <1>1, <1>3 DEF CallAt, LifeAt, TokenAt, Returned
<1>5. claims = {i} /\ committed = {}
  BY <1>2, <1>4 DEF TxInv, WorkAt, WorkInOnePlace
<1>6. Ended(i)'
  BY DEF TxInv, Inv, TypeOK, CoreTypeOK, CommitSucceeds, CommitFails, FinishCommit,
     FinishCommitPanics, Goto, Ended
<1>7. \/ claims' = {i} /\ committed' = {} /\ fin'[i] # "Succeeded"
      \/ claims' = {} /\ committed' = {i}
  BY <1>4, <1>5 DEF TxInv, Inv, TypeOK, CommitSucceeds, CommitFails, Write, FinishCommit,
     FinishCommitPanics, FinalizeCommit, Reported, database, None
<1>8. Place = "claimed" /\ claims \cup committed = {i}
  BY <1>5, PlaceOfWork DEF TxInv
<1>9. Answer(i) = "none" /\ Answer(i)' \in {"success", "failure"}
  BY <1>2, <1>6 DEF Answer
<1>10. Answers' = [Answers EXCEPT ![i] = Answer(i)']
  BY <1>2, AnswerOneCall
<1>11. Answers[i] = "none"
  BY <1>9 DEF Answers
<1>12. WorkInOnePlace'
  BY DEF TxInv
<1>13. CASE claims' = {i} /\ committed' = {} /\ fin'[i] # "Succeeded"
  <2>1. Place' = "claimed" /\ (claims \cup committed)' = {i}
    BY <1>12, <1>13 DEF Place, WorkInOnePlace
  <2>2. Answer(i)' = "failure"
    BY <1>6, <1>13 DEF Answer
  <2>3. Record!Fail(i)
    BY <1>8, <1>10, <1>11, <2>1, <2>2 DEF Record!Fail, Record!Tell, Answers
  <2> QED
    BY <2>3 DEF Record!Next
<1>14. CASE claims' = {} /\ committed' = {i}
  <2>1. Place' = "written" /\ (claims \cup committed)' = {i}
    BY <1>12, <1>14 DEF Place, WorkInOnePlace
  <2>2. Record!Write(i)
    BY <1>8, <1>9, <1>10, <1>11, <2>1 DEF Record!Write, Record!Has, Record!Tell, Answers
  <2> QED
    BY <2>2 DEF Record!Next
<1> QED
  BY <1>7, <1>13, <1>14

\* A caller gives back what its own attempt, told of a failure, still claims.
LEMMA RetryRefines ==
  ASSUME TxInv, TxInv', NEW u \in Updaters, RetryStep(u)
  PROVE  [Record!Next]_(Record!vars)
<1>1. \A j \in Calls : Same(j)
  BY RetryFrame
<1>2. Answers' = Answers
  BY <1>1, SameAnswer DEF Answers
<1>3. CASE LockForRetry(u)
  <2>1. UNCHANGED <<gate, claims, committed>>
    BY <1>3 DEF LockForRetry, ExternalAcquire, ExternalGivesUp, database
  <2> QED
    BY <1>2, <2>1 DEF Record!vars, Answers, Place
<1>4. CASE Reopen(u)
  <2> DEFINE i == CallOf[u]
  <2>1. /\ i \in Calls /\ pc[i] = "done" /\ i \in claims
        /\ gate' = TRUE /\ claims' = claims \ {i} /\ committed' = committed
    BY <1>4 DEF Reopen, ExternalStore, TxInv, RetryAt
  <2>2. claims = {i} /\ committed = {}
    BY <2>1 DEF TxInv, WorkInOnePlace
  <2>3. Place = "claimed" /\ claims \cup committed = {i}
    BY <2>2, PlaceOfWork DEF TxInv
  <2>4. Place' = "available" /\ (claims \cup committed)' = {}
    BY <2>1, <2>2 DEF Place
  <2>5. Answer(i) = "failure"
    BY <2>1, <2>2 DEF TxInv, WorkAt, Answer, Ended
  <2>6. Record!GiveBack(i)
    BY <1>2, <2>1, <2>3, <2>4, <2>5 DEF Record!GiveBack, Record!Has, Answers
  <2> QED
    BY <2>1, <2>6 DEF Record!Next
<1> QED
  BY <1>3, <1>4 DEF RetryStep

\* The protocol implements OneRecord: every step of a call, its commit and its
\* caller is a step of that specification or does not touch the work.
THEOREM RecordRefinement == TxSpec => ImplementsOneRecord
<1>1. TxInv /\ TxInv' /\ [TxNext]_txVars => [Record!Next]_(Record!vars)
  <2> SUFFICES ASSUME TxInv, TxInv', [TxNext]_txVars PROVE [Record!Next]_(Record!vars)
    OBVIOUS
  <2>1. CASE UNCHANGED txVars
    BY <2>1 DEF txVars, vars, coreVars, Record!vars, Place, Answer, Ended
  <2>2. ASSUME NEW i \in Calls, TxCallStep(i) PROVE [Record!Next]_(Record!vars)
    BY <2>2, ClaimRefines, ExecutorStepRefines, CommitRefines DEF TxCallStep, Record!Next
  <2>3. ASSUME NEW u \in Updaters, RetryStep(u) PROVE [Record!Next]_(Record!vars)
    BY <2>3, RetryRefines
  <2> QED
    BY <2>1, <2>2, <2>3 DEF TxNext, TxStep
<1> QED
  BY <1>1, InitRecord, TxSpecInv, PTL DEF TxSpec, ImplementsOneRecord, Record!Spec
================================================================================
