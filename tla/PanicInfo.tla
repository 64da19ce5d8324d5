------------------------------- MODULE PanicInfo -------------------------------
(***************************************************************************)
(* Ownership of captured panic payloads: PanicInfo, catch_phase, and the   *)
(* nested boundaries of discard_secondary, when the payloads themselves    *)
(* have destructors that panic.                                            *)
(*                                                                         *)
(* One invocation may capture a primary panic; secondary work then runs (a *)
(* rollback callback or a destructor) and may panic as well.  A payload of *)
(* depth n > 0 panics when dropped, with a payload of depth n - 1.         *)
(***************************************************************************)
EXTENDS Naturals

CONSTANT MaxDepth  \* bound on the nesting of panicking payload destructors

ASSUME PanicInfoAssumption == MaxDepth \in Nat

Infos == {"primary", "secondary"}

Payload == [from : Infos, depth : 0..MaxDepth]

None == [from |-> "none", depth |-> 0]

\* resume: rollback_then_resume; outcome: the secondary panic is part of the
\* captured outcome; skip: drop(drop_task_catching(task)) discards it.
Paths == {"resume", "outcome", "skip"}

VARIABLES
  path,       \* which code runs the secondary work
  pc,
  live,       \* PanicInfo values that exist, borrowable and not consumed
  slot,       \* their payload: Option<Box<dyn Any>>
  hand,       \* payload between owners: caught, or in its destructor
  cleanup,    \* the caller's frame, which owns the infos, is being unwound
  dropped,    \* payloads whose destructor was started
  forgotten,  \* payloads leaked by mem::forget
  delivered,  \* payloads given to the caller, by value or by unwinding
  escaped,    \* payload that unwinds out of the crate
  origin      \* history: the payload each panic was raised with

vars == <<path, pc, live, slot, hand, cleanup, dropped, forgotten, delivered, escaped, origin>>

Init ==
  /\ path \in Paths
  /\ pc = "locked"
  /\ live = {}
  /\ slot = [x \in Infos |-> None]
  /\ hand = None
  /\ cleanup = FALSE
  /\ dropped = {} /\ forgotten = {} /\ delivered = {}
  /\ escaped = None
  /\ origin = [x \in Infos |-> None]

(***************************************************************************)
(* Unwinding.  catch_unwind boundaries are lexical, so the control point   *)
(* determines where a panic raised there is caught, if anywhere.           *)
(***************************************************************************)

CatchOnce ==
  [operation |-> IF path = "resume" THEN "discard" ELSE "captured",
   discard |-> "none", dropping |-> "forget"]

DropUncaught ==
  [operation |-> IF path = "resume" THEN "discard" ELSE "captured",
   discard |-> "forgetOuter", dropping |-> "none"]

CatchBy ==
  [operation |-> IF path = "resume" THEN "discard" ELSE "captured",
   discard |-> "forgetOuter", dropping |-> "forget"]

\* A panic nothing catches aborts during cleanup and else leaves the crate.
Throw(p) ==
  IF CatchBy[pc] # "none"
    THEN pc' = CatchBy[pc] /\ hand' = p /\ UNCHANGED escaped
    ELSE /\ pc' = IF cleanup THEN "abort" ELSE "unwound"
         /\ hand' = None /\ escaped' = p

\* The destructor of the payload in hand.
Destroy(next) ==
  /\ dropped' = dropped \cup {hand}
  /\ IF hand.depth = 0
       THEN pc' = next /\ hand' = None /\ UNCHANGED escaped
       ELSE Throw([hand EXCEPT !.depth = @ - 1])

ForgetHand(next) ==
  /\ forgotten' = forgotten \cup {hand}
  /\ hand' = None
  /\ pc' = next

(***************************************************************************)
(* Inside the executor.                                                    *)
(***************************************************************************)

FromPayload(x, p) ==
  /\ live' = live \cup {x}
  /\ slot' = [slot EXCEPT ![x] = p]

CapturePrimary(d) ==
  /\ pc = "locked"
  /\ FromPayload("primary", [from |-> "primary", depth |-> d])
  /\ origin' = [origin EXCEPT !["primary"] = [from |-> "primary", depth |-> d]]
  /\ pc' = "operation"
  /\ UNCHANGED <<path, hand, cleanup, dropped, forgotten, delivered, escaped>>

\* Secondary work after an ordinary failure: nothing was captured before it.
NothingCaptured ==
  /\ pc = "locked" /\ path # "resume"
  /\ pc' = "operation"
  /\ UNCHANGED <<path, live, slot, hand, cleanup, dropped, forgotten, delivered, escaped, origin>>

OperationReturns ==
  /\ pc = "operation"
  /\ pc' = IF path = "resume" THEN "resume" ELSE "returned"
  /\ UNCHANGED <<path, live, slot, hand, cleanup, dropped, forgotten, delivered, escaped, origin>>

OperationPanics(d) ==
  /\ pc = "operation"
  /\ Throw([from |-> "secondary", depth |-> d])
  /\ origin' = [origin EXCEPT !["secondary"] = [from |-> "secondary", depth |-> d]]
  /\ UNCHANGED <<path, live, slot, cleanup, dropped, forgotten, delivered>>

\* catch_phase turns the secondary panic into metadata.
CaptureSecondary ==
  /\ pc = "captured"
  /\ FromPayload("secondary", hand)
  /\ hand' = None
  /\ pc' = IF path = "skip" THEN "discardInfo" ELSE "returned"
  /\ UNCHANGED <<path, cleanup, dropped, forgotten, delivered, escaped, origin>>

\* discard_secondary: the inner boundary drops what it caught under the outer
\* one, which forgets what it catches.
DiscardPayload ==
  /\ pc = "discard"
  /\ Destroy("resume")
  /\ UNCHANGED <<path, live, slot, cleanup, forgotten, delivered, origin>>

DiscardForgets ==
  /\ pc = "forgetOuter"
  /\ ForgetHand("resume")
  /\ UNCHANGED <<path, live, slot, cleanup, dropped, delivered, escaped, origin>>

ResumePrimary ==
  /\ pc = "resume"
  /\ escaped' = slot["primary"] /\ delivered' = delivered \cup {slot["primary"]}
  /\ live' = live \ {"primary"} /\ slot' = [slot EXCEPT !["primary"] = None]
  /\ pc' = "unwound"
  /\ UNCHANGED <<path, hand, cleanup, dropped, forgotten, origin>>

(***************************************************************************)
(* PanicInfo's consuming methods and its Drop.                             *)
(***************************************************************************)

DropForgets(x) ==
  /\ x \in live
  /\ \/ pc = "returned"
     \/ pc = "discardInfo" /\ x = "secondary"
  /\ forgotten' = forgotten \cup {slot[x]}
  /\ slot' = [slot EXCEPT ![x] = None] /\ live' = live \ {x}
  /\ pc' = "returned"
  /\ UNCHANGED <<path, hand, cleanup, dropped, delivered, escaped, origin>>

DropInfo(x) ==
  /\ x \in live
  /\ \/ pc = "returned"
     \/ pc = "discardInfo" /\ x = "secondary"
  /\ hand' = slot[x] /\ slot' = [slot EXCEPT ![x] = None]
  /\ live' = live \ {x}
  /\ pc' = "dropping"
  /\ UNCHANGED <<path, cleanup, dropped, forgotten, delivered, escaped, origin>>

DropPayload ==
  /\ pc = "dropping"
  /\ Destroy("returned")
  /\ UNCHANGED <<path, live, slot, cleanup, forgotten, delivered, origin>>

DropContains ==
  /\ pc = "forget"
  /\ ForgetHand("returned")
  /\ UNCHANGED <<path, live, slot, cleanup, dropped, delivered, escaped, origin>>

IntoPayloadByReference(x) ==
  /\ pc = "returned" /\ ~cleanup /\ x \in live
  /\ delivered' = delivered \cup {slot[x]} /\ slot' = [slot EXCEPT ![x] = None]
  /\ UNCHANGED <<path, pc, live, hand, cleanup, dropped, forgotten, escaped, origin>>

IntoPayloadKeepsSlot(x) ==
  /\ pc = "returned" /\ ~cleanup /\ x \in live
  /\ delivered' = delivered \cup {slot[x]}
  /\ UNCHANGED <<path, pc, live, slot, hand, cleanup, dropped, forgotten, escaped, origin>>

\* The value that take() emptied is dropped on return and finds nothing.
IntoPayload(x) ==
  /\ pc = "returned" /\ ~cleanup /\ x \in live
  /\ delivered' = delivered \cup {slot[x]} /\ slot' = [slot EXCEPT ![x] = None]
  /\ live' = live \ {x}
  /\ UNCHANGED <<path, pc, hand, cleanup, dropped, forgotten, escaped, origin>>

\* The caller resumes one panic; its frame, with the other info, is unwound.
ResumeUnwind(x) ==
  /\ pc = "returned" /\ ~cleanup /\ x \in live
  /\ escaped' = slot[x] /\ delivered' = delivered \cup {slot[x]}
  /\ live' = live \ {x} /\ slot' = [slot EXCEPT ![x] = None]
  /\ cleanup' = TRUE
  /\ UNCHANGED <<path, pc, hand, dropped, forgotten, origin>>

\* A panic of the caller itself unwinds the frame that owns the outcome.
CallerPanics ==
  /\ pc = "returned" /\ ~cleanup /\ live # {}
  /\ cleanup' = TRUE
  /\ UNCHANGED <<path, pc, live, slot, hand, dropped, forgotten, delivered, escaped, origin>>

CallerEnds ==
  /\ pc = "returned" /\ live = {}
  /\ pc' = "done"
  /\ UNCHANGED <<path, live, slot, hand, cleanup, dropped, forgotten, delivered, escaped, origin>>

Ended == pc \in {"done", "unwound", "abort"}

Next ==
  \/ \E d \in 0..MaxDepth : CapturePrimary(d) \/ OperationPanics(d)
  \/ NothingCaptured \/ OperationReturns \/ CaptureSecondary
  \/ DiscardPayload \/ DiscardForgets \/ ResumePrimary
  \/ \E x \in Infos : DropInfo(x) \/ IntoPayload(x) \/ ResumeUnwind(x)
  \/ DropPayload \/ DropContains
  \/ CallerPanics \/ CallerEnds
  \/ Ended /\ UNCHANGED vars

Spec == Init /\ [][Next]_vars

(***************************************************************************)
(* Properties.                                                             *)
(***************************************************************************)

Controls ==
  {"locked", "operation", "discard", "forgetOuter", "resume", "captured", "discardInfo",
   "returned", "dropping", "forget", "done", "unwound", "abort"}

\* The type invariant.
TypeOK ==
  /\ path \in Paths /\ pc \in Controls
  /\ live \subseteq Infos
  /\ slot \in [Infos -> Payload \cup {None}]
  /\ hand \in Payload \cup {None}
  /\ cleanup \in BOOLEAN
  /\ dropped \subseteq Payload /\ forgotten \subseteq Payload /\ delivered \subseteq Payload
  /\ escaped \in Payload \cup {None}
  /\ origin \in [Infos -> Payload \cup {None}]

\* Disposing of a captured panic never aborts the process, even while another
\* panic unwinds the frame that owns it.
DisposalNeverAborts == pc # "abort"

\* What leaves run_with_token is the panic of its locked phase, and what leaves
\* resume_unwind one that was captured: never a panic raised by a rollback, a
\* discarded payload or the destructor of either.
OriginalEscapes ==
  escaped # None =>
    \/ escaped = origin["primary"]
    \/ path = "outcome" /\ escaped = origin["secondary"]

\* payload() and into_payload() find a payload in every value they can be
\* called on, the one lent to rollback through RollbackCause included.
PayloadPresent == \A x \in live : slot[x] # None

\* A payload has one owner and one end: it is not dropped after it was handed
\* out, nor handed out or dropped twice.
SettledOnce ==
  /\ dropped \cap forgotten = {} /\ delivered \cap (dropped \cup forgotten) = {}
  /\ \A x \in Infos : slot[x] \notin dropped \cup forgotten \cup delivered
  /\ hand \notin dropped \cup forgotten \cup delivered

\* No captured panic leaks: its payload ends delivered or dropped.  Only what a
\* panicking payload destructor raised is forgotten.
OnlyNestedLeak ==
  /\ \A x \in Infos : origin[x] \notin forgotten
  /\ Ended => \A x \in Infos : origin[x] \in dropped \cup delivered \cup {None}
================================================================================
