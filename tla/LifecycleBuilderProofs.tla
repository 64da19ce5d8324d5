------------------------- MODULE LifecycleBuilderProofs -------------------------
(***************************************************************************)
(* The typestate of the builders discharges the assumption that a          *)
(* lifecycle executor always has a finalizer.                              *)
(***************************************************************************)
EXTENDS LifecycleBuilder, TLAPS

Types ==
  {"none", "LifecycleDclExecutorBuilder", "LifecyclePredicateBuilder", "LifecyclePrepareBuilder",
   "LifecycleCommitBuilder", "LifecycleRollbackBuilder", "LifecycleReadyBuilder",
   "LifecycleDclExecutor"}

Registers(b) == registered[b] = ({"commit"} \X commit[b]) \cup ({"rollback"} \X rollback[b])

\* What a value of each type holds: a commit stage a commit callback, a ready
\* stage at least one finalizer, and the stages before their slot nothing in it.
ValueAt(b) ==
  /\ type[b] = "LifecycleCommitBuilder" => commit[b] # None
  /\ type[b] \in {"LifecycleReadyBuilder", "LifecycleDclExecutor"} =>
       commit[b] # None \/ rollback[b] # None
  /\ commit[b] # None => type[b] \in {"LifecycleCommitBuilder", "LifecycleReadyBuilder",
                                      "LifecycleDclExecutor"}
  /\ rollback[b] # None => type[b] \in {"LifecycleReadyBuilder", "LifecycleDclExecutor"}
  /\ Registers(b)

Inv ==
  /\ type \in [Values -> Types]
  /\ commit \in [Values -> SUBSET Callbacks]
  /\ rollback \in [Values -> SUBSET Callbacks]
  /\ registered \in [Values -> SUBSET ({"commit", "rollback"} \X Callbacks)]
  /\ \A b \in Values : ValueAt(b)

LEMMA InitInv == Init => Inv
BY DEF Init, Inv, ValueAt, Registers, Types, None

\* Registering a callback in a slot that is still empty.
LEMMA RegisterInv ==
  ASSUME Inv, NEW b \in Values, NEW f \in Callbacks, Commit(b, f) \/ Rollback(b, f) \/ RollbackOnly(b, f)
  PROVE  Inv'
<1> USE DEF Inv, Types, Consume, None, Some, Register, ValueAt
<1>1. ASSUME NEW c \in Values, c # b PROVE ValueAt(c)'
  BY <1>1 DEF Commit, Rollback, RollbackOnly, Registers
<1>2. CASE Commit(b, f)
  <2>1. commit[b] = {} /\ rollback[b] = {} /\ registered[b] = {}
    BY <1>2 DEF Commit, Registers
  <2>2. commit'[b] = {f} /\ rollback'[b] = {} /\ registered'[b] = {<<"commit", f>>}
    BY <1>2, <2>1 DEF Commit
  <2>3. Registers(b)'
    BY <2>2 DEF Registers
  <2> QED
    BY <1>1, <1>2, <2>2, <2>3 DEF Commit
<1>3. CASE Rollback(b, f) \/ RollbackOnly(b, f)
  <2>1. rollback[b] = {} /\ registered[b] = {"commit"} \X commit[b]
    BY <1>3 DEF Rollback, RollbackOnly, Registers
  <2>2. /\ commit'[b] = commit[b] /\ rollback'[b] = {f}
        /\ registered'[b] = ({"commit"} \X commit[b]) \cup {<<"rollback", f>>}
    BY <1>3, <2>1 DEF Rollback, RollbackOnly
  <2>3. Registers(b)'
    BY <2>2 DEF Registers
  <2> QED
    BY <1>1, <1>3, <2>2, <2>3 DEF Rollback, RollbackOnly
<1> QED
  BY <1>2, <1>3

\* Every method of the chain, and cloning, keeps what a value of the type holds.
LEMMA StepInv == ASSUME Inv, NEW b \in Values, Step(b) PROVE Inv'
<1> USE DEF Inv, Types, Consume, Keep, None, ValueAt, Registers
<1>1. CASE Builder(b) \/ When(b) \/ Prepare(b) \/ NoCommit(b) \/ NoRollback(b) \/ Build(b)
  BY <1>1 DEF Builder, When, Prepare, NoCommit, NoRollback, Build
<1>2. ASSUME NEW c \in Values, Clone(b, c) PROVE Inv'
  BY <1>2 DEF Clone
<1> QED
  BY <1>1, <1>2, RegisterInv
     DEF Step, LifecycleDclExecutorBuilder, LifecyclePredicateBuilder, LifecyclePrepareBuilder,
         LifecycleCommitBuilder, LifecycleRollbackBuilder, LifecycleReadyBuilder,
         LifecycleDclExecutor

LEMMA SpecInv == Spec => []Inv
<1>1. ASSUME Inv, [Next]_vars PROVE Inv'
  BY <1>1, StepInv DEF Next, vars, Inv, ValueAt, Registers
<1> QED
  BY <1>1, InitInv, PTL DEF Spec

\* Whatever chain of methods built it, an executor has commit or rollback.
THEOREM FinalizerRegistered == Spec => []BuiltHasFinalizer
<1>1. Inv => BuiltHasFinalizer
  BY DEF Inv, ValueAt, BuiltHasFinalizer, Built
<1> QED
  BY <1>1, SpecInv, PTL

\* No builder method or clone loses, adds or misplaces a finalizer.
THEOREM RegistrationExact == Spec => []RegisteredReachesExecutor
<1>1. Inv => RegisteredReachesExecutor
  BY DEF Inv, ValueAt, Registers, RegisteredReachesExecutor, Built
<1> QED
  BY <1>1, SpecInv, PTL
================================================================================
