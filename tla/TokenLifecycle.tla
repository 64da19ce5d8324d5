---------------------------- MODULE TokenLifecycle ----------------------------
(***************************************************************************)
(* What the lifecycle executor promises about the token of an invocation,  *)
(* whatever panics: it is prepared at most once, follows the commit path   *)
(* only after its task worked, and is always given up exactly once, to a   *)
(* callback or, where the executor has none, to the token's destructor.    *)
(***************************************************************************)

CONSTANTS
  Calls,
  Commits,    \* calls whose executor has a commit callback
  Rollbacks   \* calls whose executor has a rollback callback

VARIABLES stage, crashed

vars == <<stage, crashed>>

Init == stage = [c \in Calls |-> "idle"] /\ crashed = FALSE

Move(c, from, to) ==
  /\ ~crashed
  /\ stage[c] \in from
  /\ stage' = [stage EXCEPT ![c] = to]
  /\ UNCHANGED crashed

Refuse(c)  == Move(c, {"idle"}, "refused")
Prepare(c) == Move(c, {"idle"}, "prepared")
Work(c)    == Move(c, {"prepared"}, "worked")
Win(c)     == Move(c, {"worked"}, "won")
Lose(c)    == Move(c, {"prepared", "worked"}, "lost")
Commit(c)  == Move(c, {"won"}, IF c \in Commits THEN "committed" ELSE "dropped")
Undo(c)    == Move(c, {"lost"}, IF c \in Rollbacks THEN "rolledBack" ELSE "dropped")

Crash == ~crashed /\ crashed' = TRUE /\ UNCHANGED stage

CallStep(c) ==
  Refuse(c) \/ Prepare(c) \/ Work(c) \/ Win(c) \/ Lose(c) \/ Commit(c) \/ Undo(c)

Next == (\E c \in Calls : CallStep(c)) \/ Crash

Safety == Init /\ [][Next]_vars

Spec == Safety /\ \A c \in Calls : WF_vars(CallStep(c))
==============================================================================
