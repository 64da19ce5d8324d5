------------------------------ MODULE OneRecord ------------------------------
(***************************************************************************)
(* What the transaction protocol promises about one piece of work, without *)
(* gates, locks, tokens or finalizers: one attempt has it at a time, an    *)
(* attempt that failed may give it back, once written it stays written,    *)
(* and only the attempt that wrote it is ever told of success.             *)
(***************************************************************************)

CONSTANT Calls

VARIABLES
  place,  \* where the work is: "available", "claimed" or "written"
  by,     \* the attempt that claims it or wrote it
  answer  \* what each attempt was told, "none" while it is under way

vars == <<place, by, answer>>

Init ==
  /\ place = "available" /\ by = {}
  /\ answer = [c \in Calls |-> "none"]

Tell(c, a) == answer[c] = "none" /\ answer' = [answer EXCEPT ![c] = a]

Has(c) == place = "claimed" /\ by = {c}

Claim(c) ==
  /\ place = "available" /\ answer[c] = "none"
  /\ place' = "claimed" /\ by' = {c}
  /\ UNCHANGED answer

\* The database may report a failure although it wrote the record.
Write(c) ==
  /\ Has(c)
  /\ place' = "written"
  /\ Tell(c, "success") \/ Tell(c, "failure")
  /\ UNCHANGED by

\* The attempt ends without a record; work that it has stays claimed.
Fail(c) == Tell(c, "failure") /\ UNCHANGED <<place, by>>

GiveBack(c) ==
  /\ Has(c) /\ answer[c] = "failure"
  /\ place' = "available" /\ by' = {}
  /\ UNCHANGED answer

Next == \E c \in Calls : Claim(c) \/ Write(c) \/ Fail(c) \/ GiveBack(c)

Spec == Init /\ [][Next]_vars
==============================================================================
