---------------------------- MODULE PanicInfoProofs ----------------------------
(***************************************************************************)
(* Theorems about captured payloads: who owns one, where it ends, and that *)
(* disposing of it neither aborts nor replaces the panic being resumed.    *)
(***************************************************************************)
EXTENDS PanicInfo, TLAPS

USE PanicInfoAssumption

(***************************************************************************)
(* The inductive invariant: each info is at one stage of its life.         *)
(***************************************************************************)

Of(x) == {p \in Payload : p.from = x}

\* Nothing of x was dropped, forgotten or handed out yet.
Intact(x) == \A p \in Of(x) : p \notin dropped \cup forgotten \cup delivered

Nested(x) == [from |-> x, depth |-> origin[x].depth - 1]

Fresh(x) == origin[x] = None /\ Intact(x) /\ x \notin live /\ slot[x] = None /\ hand.from # x

Held(x) ==
  /\ origin[x] \in Of(x) /\ Intact(x)
  /\ x \in live /\ slot[x] = origin[x] /\ hand.from # x

InHand(x) ==
  /\ origin[x] \in Of(x) /\ Intact(x)
  /\ x \notin live /\ slot[x] = None /\ hand = origin[x]

\* Its destructor panicked, and what it raised has just been caught.
Caught(x) ==
  /\ origin[x] \in Of(x) /\ origin[x].depth > 0
  /\ x \notin live /\ slot[x] = None /\ hand = Nested(x)
  /\ \A p \in Of(x) : /\ p \in dropped <=> p = origin[x]
                      /\ p \notin forgotten \cup delivered

Delivered(x) ==
  \A p \in Of(x) : (p \in delivered <=> p = origin[x]) /\ p \notin dropped \cup forgotten

Disposed(x) ==
  \A p \in Of(x) :
    /\ p \in dropped <=> p = origin[x]
    /\ p \in forgotten => origin[x].depth > 0 /\ p = Nested(x)
    /\ p \notin delivered

Gone(x) ==
  /\ origin[x] \in Of(x)
  /\ x \notin live /\ slot[x] = None /\ hand.from # x
  /\ Delivered(x) \/ Disposed(x)

\* The stage of each info that a control point allows.
StagesAt ==
  /\ pc = "locked" => \A x \in Infos : Fresh(x)
  /\ pc = "operation" => 
       /\ Fresh("secondary")
       /\ Held("primary") \/ (path # "resume" /\ Fresh("primary"))
  /\ pc \in {"discard", "forgetOuter"} => path = "resume" /\ Held("primary")
  /\ pc = "discard" => InHand("secondary")
  /\ pc = "forgetOuter" => Caught("secondary")
  /\ pc = "resume" => /\ path = "resume" /\ Held("primary")
                      /\ Fresh("secondary") \/ Gone("secondary")
  /\ pc \in {"captured", "discardInfo"} =>
       path # "resume" /\ (Fresh("primary") \/ Held("primary"))
  /\ pc = "captured" => InHand("secondary")
  /\ pc = "discardInfo" => path = "skip" /\ Held("secondary")
  /\ pc = "returned" => \A x \in Infos : Fresh(x) \/ Held(x) \/ Gone(x)
  /\ pc = "dropping" =>
       \E x \in Infos : InHand(x) /\ \A y \in Infos \ {x} : Fresh(y) \/ Held(y) \/ Gone(y)
  /\ pc = "forget" =>
       \E x \in Infos : Caught(x) /\ \A y \in Infos \ {x} : Fresh(y) \/ Held(y) \/ Gone(y)
  /\ pc \in {"done", "unwound"} => \A x \in Infos : Fresh(x) \/ Gone(x)
  /\ pc # "abort"
  /\ path = "resume" => pc \notin {"returned", "dropping", "forget", "done"}

\* Only the primary panic is in play when the secondary one is discarded.
SkipAt ==
  path = "skip" /\ pc \in {"returned", "dropping", "forget"} =>
    "secondary" \notin live

Inv == TypeOK /\ StagesAt /\ SkipAt /\ OriginalEscapes

(***************************************************************************)
(* What a step does to one info.                                           *)
(***************************************************************************)

\* Nothing about y changes.
Same(y) ==
  /\ y \in live' <=> y \in live
  /\ slot'[y] = slot[y] /\ origin'[y] = origin[y]
  /\ \A p \in Of(y) : /\ p \in dropped' <=> p \in dropped
                      /\ p \in forgotten' <=> p \in forgotten
                      /\ p \in delivered' <=> p \in delivered
  /\ hand'.from # y

\* An info whose slot, owners and ends are untouched stays at its stage.
LEMMA SameStage ==
  ASSUME NEW y \in Infos, Same(y)
  PROVE  (Fresh(y) => Fresh(y)') /\ (Held(y) => Held(y)') /\ (Gone(y) => Gone(y)')
BY DEF Same, Fresh, Held, Gone, Intact, Delivered, Disposed, Nested

\* The two infos own different payloads, and None belongs to neither.
LEMMA OwnPayloads ==
  /\ \A x \in Infos, d \in 0..MaxDepth : [from |-> x, depth |-> d] \in Of(x)
  /\ \A x \in Infos : \A p \in Of(x) : p \in Payload /\ p.from = x /\ p.depth \in 0..MaxDepth
  /\ None.from \notin Infos /\ None \notin Payload
  /\ Infos = {"primary", "secondary"}
BY DEF Of, Payload, Infos, None

\* The payload a destructor panics with.
LEMMA NestedPayload ==
  ASSUME NEW x \in Infos, origin[x] \in Of(x), origin[x].depth # 0
  PROVE  /\ [origin[x] EXCEPT !.depth = @ - 1] = Nested(x)
         /\ Nested(x) \in Of(x) /\ Nested(x) # origin[x] /\ origin[x].depth > 0
<1>1. origin[x] = [from |-> x, depth |-> origin[x].depth] /\ origin[x].depth \in 0..MaxDepth
  BY DEF Of, Payload
<1>2. [origin[x] EXCEPT !.depth = @ - 1] = [from |-> x, depth |-> origin[x].depth - 1]
  BY <1>1
<1> QED
  BY <1>1, <1>2 DEF Nested, Of, Payload

LEMMA InitInv == Init => Inv
<1> SUFFICES ASSUME Init PROVE Inv
  OBVIOUS
<1>1. TypeOK /\ SkipAt /\ OriginalEscapes
  BY DEF Init, TypeOK, Controls, Payload, SkipAt, OriginalEscapes
<1>2. \A x \in Infos : Fresh(x)
  BY OwnPayloads DEF Init, Fresh, Intact
<1> QED
  BY <1>1, <1>2 DEF Init, Inv, StagesAt

(***************************************************************************)
(* Types.                                                                  *)
(***************************************************************************)

\* A destructor that raises its nested payload stays within the types.
LEMMA NextTypeOK == ASSUME TypeOK, StagesAt, [Next]_vars PROVE TypeOK'
<1> USE DEF TypeOK
<1>1. CASE UNCHANGED vars
  BY <1>1 DEF vars
<1>2. ASSUME NEW d \in 0..MaxDepth, CapturePrimary(d) PROVE TypeOK'
  BY <1>2 DEF CapturePrimary, FromPayload, Payload, Infos, Controls
<1>3. ASSUME NEW d \in 0..MaxDepth, OperationPanics(d) PROVE TypeOK'
  BY <1>3 DEF OperationPanics, Throw, CatchBy, Payload, Infos, Controls
<1>4. CASE NothingCaptured \/ OperationReturns \/ CallerPanics \/ CallerEnds
  BY <1>4 DEF NothingCaptured, OperationReturns, CallerPanics, CallerEnds, Controls
<1>5. CASE CaptureSecondary
  BY <1>5, OwnPayloads DEF CaptureSecondary, FromPayload, StagesAt, InHand, Controls
<1>6. CASE DiscardPayload \/ DropPayload
  <2>1. PICK x \in Infos : InHand(x)
    BY <1>6, OwnPayloads DEF DiscardPayload, DropPayload, StagesAt
  <2>2. hand \in Payload /\ hand = origin[x] /\ origin[x] \in Of(x)
    BY <2>1, OwnPayloads DEF InHand
  <2>3. hand.depth # 0 => [hand EXCEPT !.depth = @ - 1] \in Payload
    BY <2>2, NestedPayload, OwnPayloads
  <2> QED
    BY <1>6, <2>2, <2>3 DEF DiscardPayload, DropPayload, Destroy, Throw, CatchBy, Controls
<1>7. CASE DiscardForgets \/ DropContains
  <2>1. PICK x \in Infos : Caught(x)
    BY <1>7, OwnPayloads DEF DiscardForgets, DropContains, StagesAt
  <2>2. hand \in Payload
    BY <2>1, NestedPayload, OwnPayloads DEF Caught
  <2> QED
    BY <1>7, <2>2 DEF DiscardForgets, DropContains, ForgetHand, Controls
<1>8. CASE ResumePrimary
  BY <1>8, OwnPayloads DEF ResumePrimary, StagesAt, Held, Controls
<1>9. ASSUME NEW x \in Infos, DropInfo(x) PROVE TypeOK'
  BY <1>9 DEF DropInfo, Controls
<1>10. ASSUME NEW x \in Infos, IntoPayload(x) \/ ResumeUnwind(x) PROVE TypeOK'
  <2>1. slot[x] \in Payload
    BY <1>10, OwnPayloads DEF IntoPayload, ResumeUnwind, StagesAt, Held, Fresh, Gone
  <2> QED
    BY <1>10, <2>1 DEF IntoPayload, ResumeUnwind
<1> QED
  BY <1>1, <1>2, <1>3, <1>4, <1>5, <1>6, <1>7, <1>8, <1>9, <1>10 DEF Next

(***************************************************************************)
(* Stages.                                                                 *)
(***************************************************************************)

\* Where a panic is caught, by the control point that raises it.
LEMMA ThrowCaught ==
  ASSUME NEW p, pc \in {"operation", "discard", "dropping"}, Throw(p)
  PROVE  /\ hand' = p /\ escaped' = escaped
         /\ pc = "operation" => pc' = IF path = "resume" THEN "discard" ELSE "captured"
         /\ pc = "discard" => pc' = "forgetOuter"
         /\ pc = "dropping" => pc' = "forget"
BY DEF Throw, CatchBy

\* The destructor of the payload in hand leaves its info disposed of, or its
\* nested payload caught.
LEMMA DestroyStage ==
  ASSUME TypeOK, NEW x \in Infos, InHand(x), NEW next, pc \in {"discard", "dropping"},
         Destroy(next),
         UNCHANGED <<live, slot, forgotten, delivered, origin>>
  PROVE  /\ escaped' = escaped
         /\ \/ pc' = next /\ Gone(x)'
            \/ pc' = (IF pc = "discard" THEN "forgetOuter" ELSE "forget") /\ Caught(x)'
         /\ \A y \in Infos \ {x} : Same(y)
<1>1. hand = origin[x] /\ hand \in Of(x) /\ hand.depth \in 0..MaxDepth
  BY OwnPayloads DEF InHand
<1>2. dropped' = dropped \cup {hand}
  BY DEF Destroy
<1>3. CASE hand.depth = 0
  <2>1. pc' = next /\ hand' = None /\ escaped' = escaped
    BY <1>3 DEF Destroy
  <2>2. Gone(x)'
    BY <1>1, <1>2, <2>1, OwnPayloads DEF Gone, Disposed, InHand, Intact
  <2>3. \A y \in Infos \ {x} : Same(y)
    BY <1>1, <1>2, <2>1, OwnPayloads DEF Same
  <2> QED
    BY <2>1, <2>2, <2>3
<1>4. CASE hand.depth # 0
  <2>1. Throw(Nested(x)) /\ Nested(x) \in Of(x) /\ Nested(x) # origin[x] /\ hand.depth > 0
    BY <1>1, <1>4, NestedPayload DEF Destroy
  <2>2. hand' = Nested(x) /\ escaped' = escaped
        /\ pc' = IF pc = "discard" THEN "forgetOuter" ELSE "forget"
    BY <2>1, ThrowCaught
  <2>3. Caught(x)'
    BY <1>1, <1>2, <2>1, <2>2 DEF Caught, Nested, InHand, Intact
  <2>4. \A y \in Infos \ {x} : Same(y)
    BY <1>1, <1>2, <2>1, <2>2, OwnPayloads DEF Same
  <2> QED
    BY <2>2, <2>3, <2>4
<1> QED
  BY <1>3, <1>4

\* Forgetting the nested payload ends the disposal.
LEMMA ForgetStage ==
  ASSUME TypeOK, NEW x \in Infos, Caught(x), NEW next, ForgetHand(next),
         UNCHANGED <<live, slot, dropped, delivered, origin>>
  PROVE  pc' = next /\ Gone(x)' /\ \A y \in Infos \ {x} : Same(y)
<1>1. hand = Nested(x) /\ Nested(x) \in Of(x) /\ hand' = None /\ forgotten' = forgotten \cup {hand}
  BY NestedPayload, OwnPayloads DEF Caught, ForgetHand
<1>2. Gone(x)'
  BY <1>1, OwnPayloads DEF Gone, Disposed, Caught, Nested
<1>3. \A y \in Infos \ {x} : Same(y)
  BY <1>1, OwnPayloads DEF Same
<1> QED
  BY <1>2, <1>3 DEF ForgetHand

\* A payload handed out ends its info.
LEMMA DeliverStage ==
  ASSUME TypeOK, NEW x \in Infos, Held(x),
         delivered' = delivered \cup {slot[x]},
         slot' = [slot EXCEPT ![x] = None], live' = live \ {x},
         UNCHANGED <<hand, dropped, forgotten, origin>>
  PROVE  /\ Gone(x)'
         /\ \A y \in Infos \ {x} : hand.from # y => Same(y)
<1>1. slot[x] = origin[x] /\ origin[x] \in Of(x)
  BY DEF Held
<1>2. Gone(x)'
  BY <1>1, OwnPayloads DEF Gone, Delivered, Held, Intact, TypeOK
<1>3. \A y \in Infos \ {x} : hand.from # y => Same(y)
  BY <1>1, OwnPayloads DEF Same, TypeOK
<1> QED
  BY <1>2, <1>3

\* Every step moves the infos to stages its next control point allows.
LEMMA NextStages == ASSUME Inv, [Next]_vars PROVE StagesAt' /\ SkipAt' /\ OriginalEscapes'
<1> USE OwnPayloads DEF Inv
<1>1. CASE UNCHANGED vars
  BY <1>1 DEF vars, StagesAt, SkipAt, OriginalEscapes, Fresh, Held, InHand, Caught, Gone, Intact,
              Delivered, Disposed, Nested
<1>2. ASSUME NEW d \in 0..MaxDepth, CapturePrimary(d) PROVE StagesAt' /\ SkipAt' /\ OriginalEscapes'
  <2>1. pc = "locked" /\ Fresh("primary") /\ Fresh("secondary") /\ pc' = "operation" /\ path' = path
    BY <1>2 DEF CapturePrimary, StagesAt
  <2>2. Held("primary")'
    BY <1>2, <2>1 DEF CapturePrimary, FromPayload, Fresh, Held, Intact, TypeOK
  <2>3. Same("secondary")
    BY <1>2, <2>1 DEF CapturePrimary, FromPayload, Fresh, Same, TypeOK
  <2>4. StagesAt' /\ SkipAt'
    BY <2>1, <2>2, <2>3, SameStage DEF StagesAt, SkipAt
  <2> QED
    BY <1>2, <2>1, <2>4 DEF OriginalEscapes, CapturePrimary, Fresh
<1>3. ASSUME NEW d \in 0..MaxDepth, OperationPanics(d) PROVE StagesAt' /\ SkipAt' /\ OriginalEscapes'
  <2> DEFINE q == [from |-> "secondary", depth |-> d]
  <2>1. /\ pc = "operation" /\ Fresh("secondary")
        /\ Held("primary") \/ (path # "resume" /\ Fresh("primary"))
    BY <1>3 DEF OperationPanics, StagesAt
  <2>2. /\ hand' = q /\ escaped' = escaped /\ path' = path
        /\ pc' = IF path = "resume" THEN "discard" ELSE "captured"
    BY <1>3, ThrowCaught DEF OperationPanics
  <2>3. InHand("secondary")'
    BY <1>3, <2>1, <2>2 DEF OperationPanics, InHand, Fresh, Intact, TypeOK
  <2>4. Same("primary")
    BY <1>3, <2>2 DEF OperationPanics, Same, TypeOK
  <2>5. StagesAt' /\ SkipAt'
    BY <2>1, <2>2, <2>3, <2>4, SameStage DEF StagesAt, SkipAt
  <2>6. escaped = None \/ escaped = origin["primary"]
    BY <2>1 DEF OriginalEscapes, Fresh
  <2> QED
    BY <1>3, <2>2, <2>5, <2>6 DEF OriginalEscapes, OperationPanics, TypeOK
<1>4. CASE NothingCaptured \/ OperationReturns \/ CallerPanics \/ CallerEnds
  <2>1. /\ UNCHANGED <<path, live, slot, hand, dropped, forgotten, delivered, escaped, origin>>
        /\ \/ pc = "locked" /\ path # "resume" /\ pc' = "operation"
           \/ pc = "operation" /\ pc' = IF path = "resume" THEN "resume" ELSE "returned"
           \/ pc = "returned" /\ pc' = "returned"
           \/ pc = "returned" /\ pc' = "done" /\ live = {}
    BY <1>4 DEF NothingCaptured, OperationReturns, CallerPanics, CallerEnds
  <2>2. \A y \in Infos : /\ Fresh(y) => Fresh(y)'
                         /\ Held(y) => Held(y)'
                         /\ Gone(y) => Gone(y)'
    BY <2>1 DEF Fresh, Held, Gone, Intact, Delivered, Disposed, Nested
  <2>3. StagesAt'
    <3>1. path' = path /\ \A x \in Infos : x \in live' <=> x \in live
      BY <2>1
    <3>2. CASE pc = "locked"
      <4>1. Fresh("primary")' /\ Fresh("secondary")' /\ pc' = "operation" /\ path # "resume"
        BY <2>1, <2>2, <3>2 DEF StagesAt
      <4> QED
        BY <3>1, <4>1 DEF StagesAt
    <3>3. CASE pc = "operation"
      <4>1. /\ Fresh("secondary")'
            /\ Held("primary")' \/ (path # "resume" /\ Fresh("primary")')
            /\ pc' = IF path = "resume" THEN "resume" ELSE "returned"
        BY <2>1, <2>2, <3>3 DEF StagesAt
      <4> QED
        BY <3>1, <4>1 DEF StagesAt
    <3>4. CASE pc = "returned"
      <4>1. path # "resume" /\ \A x \in Infos : Fresh(x)' \/ Held(x)' \/ Gone(x)'
        BY <2>1, <2>2, <3>4 DEF StagesAt
      <4>2. pc' = "done" => \A x \in Infos : Fresh(x)' \/ Gone(x)'
        BY <2>1, <3>1, <3>4, <4>1 DEF Held
      <4> QED
        BY <2>1, <3>1, <3>4, <4>1, <4>2 DEF StagesAt
    <3> QED
      BY <2>1, <3>2, <3>3, <3>4
  <2>4. SkipAt' /\ OriginalEscapes'
    BY <2>1 DEF SkipAt, OriginalEscapes, StagesAt, Fresh
  <2> QED
    BY <2>3, <2>4
<1>5. CASE CaptureSecondary
  <2>1. /\ pc = "captured" /\ path # "resume" /\ InHand("secondary")
        /\ Fresh("primary") \/ Held("primary")
    BY <1>5 DEF CaptureSecondary, StagesAt
  <2>2. Held("secondary")' /\ Same("primary")
    BY <1>5, <2>1 DEF CaptureSecondary, FromPayload, InHand, Held, Intact, Same, TypeOK
  <2>3. StagesAt' /\ SkipAt'
    BY <1>5, <2>1, <2>2, SameStage DEF CaptureSecondary, StagesAt, SkipAt
  <2> QED
    BY <1>5, <2>3 DEF OriginalEscapes, CaptureSecondary
<1>6. CASE DiscardPayload
  <2>1. pc = "discard" /\ path = "resume" /\ path' = path /\ Held("primary") /\ InHand("secondary")
    BY <1>6 DEF DiscardPayload, StagesAt
  <2>2. /\ escaped' = escaped /\ Same("primary")
        /\ \/ pc' = "resume" /\ Gone("secondary")'
           \/ pc' = "forgetOuter" /\ Caught("secondary")'
    BY <1>6, <2>1, DestroyStage DEF DiscardPayload
  <2>3. StagesAt' /\ SkipAt'
    BY <2>1, <2>2, SameStage DEF StagesAt, SkipAt
  <2> QED
    BY <1>6, <2>2, <2>3 DEF OriginalEscapes, DiscardPayload
<1>7. CASE DiscardForgets
  <2>1. pc = "forgetOuter" /\ path = "resume" /\ path' = path /\ Held("primary") /\ Caught("secondary")
    BY <1>7 DEF DiscardForgets, StagesAt
  <2>2. pc' = "resume" /\ Gone("secondary")' /\ Same("primary")
    BY <1>7, <2>1, ForgetStage DEF DiscardForgets
  <2>3. StagesAt' /\ SkipAt'
    BY <2>1, <2>2, SameStage DEF StagesAt, SkipAt
  <2> QED
    BY <1>7, <2>3 DEF OriginalEscapes, DiscardForgets
<1>8. CASE ResumePrimary
  <2>1. /\ pc = "resume" /\ path = "resume" /\ path' = path /\ pc' = "unwound" /\ Held("primary")
        /\ Fresh("secondary") \/ Gone("secondary")
    BY <1>8 DEF ResumePrimary, StagesAt
  <2>2. Gone("primary")' /\ Same("secondary")
    BY <1>8, <2>1, DeliverStage DEF ResumePrimary, Fresh, Gone
  <2>3. StagesAt' /\ SkipAt'
    BY <2>1, <2>2, SameStage DEF StagesAt, SkipAt
  <2> QED
    BY <1>8, <2>1, <2>3 DEF OriginalEscapes, ResumePrimary, Held
<1>9. ASSUME NEW x \in Infos, DropInfo(x) PROVE StagesAt' /\ SkipAt' /\ OriginalEscapes'
  <2>1. /\ Held(x) /\ path # "resume" /\ path' = path /\ pc' = "dropping"
        /\ \A y \in Infos \ {x} : Fresh(y) \/ Held(y) \/ Gone(y)
        /\ path = "skip" => "secondary" \notin live'
    BY <1>9 DEF DropInfo, StagesAt, SkipAt, Fresh, Gone
  <2>2. InHand(x)' /\ \A y \in Infos \ {x} : Same(y)
    BY <1>9, <2>1 DEF DropInfo, Held, InHand, Intact, Same, TypeOK
  <2>3. StagesAt' /\ SkipAt'
    BY <2>1, <2>2, SameStage DEF StagesAt, SkipAt
  <2> QED
    BY <1>9, <2>3 DEF OriginalEscapes, DropInfo
<1>10. CASE DropPayload
  <2>1. PICK x \in Infos : InHand(x) /\ \A y \in Infos \ {x} : Fresh(y) \/ Held(y) \/ Gone(y)
    BY <1>10 DEF DropPayload, StagesAt
  <2>2. pc = "dropping" /\ path # "resume" /\ UNCHANGED <<path, live, origin>>
    BY <1>10 DEF DropPayload, StagesAt
  <2>3. /\ escaped' = escaped /\ \A y \in Infos \ {x} : Same(y)
        /\ \/ pc' = "returned" /\ Gone(x)'
           \/ pc' = "forget" /\ Caught(x)'
    BY <1>10, <2>1, <2>2, DestroyStage DEF DropPayload
  <2>4. StagesAt' /\ SkipAt'
    BY <2>1, <2>2, <2>3, SameStage DEF StagesAt, SkipAt
  <2> QED
    BY <2>2, <2>3, <2>4 DEF OriginalEscapes
<1>11. CASE DropContains
  <2>1. PICK x \in Infos : Caught(x) /\ \A y \in Infos \ {x} : Fresh(y) \/ Held(y) \/ Gone(y)
    BY <1>11 DEF DropContains, StagesAt
  <2>2. pc = "forget" /\ path # "resume" /\ UNCHANGED <<path, live, escaped, origin>>
    BY <1>11 DEF DropContains, StagesAt
  <2>3. pc' = "returned" /\ Gone(x)' /\ \A y \in Infos \ {x} : Same(y)
    BY <1>11, <2>1, ForgetStage DEF DropContains
  <2>4. StagesAt' /\ SkipAt'
    BY <2>1, <2>2, <2>3, SameStage DEF StagesAt, SkipAt
  <2> QED
    BY <2>2, <2>4 DEF OriginalEscapes
<1>12. ASSUME NEW x \in Infos, IntoPayload(x) \/ ResumeUnwind(x)
       PROVE StagesAt' /\ SkipAt' /\ OriginalEscapes'
  <2>1. /\ pc = "returned" /\ pc' = pc /\ path # "resume" /\ path' = path /\ Held(x)
        /\ \A y \in Infos : Fresh(y) \/ Held(y) \/ Gone(y)
        /\ path = "skip" => x = "primary" /\ "secondary" \notin live'
    BY <1>12 DEF IntoPayload, ResumeUnwind, StagesAt, SkipAt, Fresh, Gone
  <2>2. Gone(x)' /\ \A y \in Infos \ {x} : Same(y)
    BY <1>12, <2>1, DeliverStage DEF IntoPayload, ResumeUnwind, Fresh, Held, Gone
  <2>3. StagesAt' /\ SkipAt'
    BY <2>1, <2>2, SameStage DEF StagesAt, SkipAt
  <2>4. path \in {"outcome", "skip"}
    BY <2>1 DEF TypeOK, Paths
  <2> QED
    BY <1>12, <2>1, <2>3, <2>4 DEF OriginalEscapes, IntoPayload, ResumeUnwind, Held
<1> QED
  BY <1>1, <1>2, <1>3, <1>4, <1>5, <1>6, <1>7, <1>8, <1>9, <1>10, <1>11, <1>12 DEF Next

LEMMA SpecInv == Spec => []Inv
<1>1. Inv /\ [Next]_vars => Inv'
  BY NextTypeOK, NextStages DEF Inv
<1> QED
  BY <1>1, InitInv, PTL DEF Spec

(***************************************************************************)
(* Theorems.                                                               *)
(***************************************************************************)

\* Every reachable state is well typed, for any nesting of payload destructors.
THEOREM TypeCorrect == Spec => []TypeOK
<1>1. Inv => TypeOK
  BY DEF Inv
<1> QED
  BY <1>1, SpecInv, PTL

\* PanicInfo's Drop and discard_secondary contain every destructor panic: the
\* process survives the disposal, also during another unwinding.
THEOREM DisposalIsSafe == Spec => []DisposalNeverAborts
<1>1. Inv => DisposalNeverAborts
  BY DEF Inv, StagesAt, DisposalNeverAborts
<1> QED
  BY <1>1, SpecInv, PTL

\* rollback_then_resume and resume_unwind unwind with the captured payload.
THEOREM OriginalResumed == Spec => []OriginalEscapes
<1>1. Inv => OriginalEscapes
  BY DEF Inv
<1> QED
  BY <1>1, SpecInv, PTL

\* The expectations in payload() and into_payload() hold.
THEOREM PayloadAvailable == Spec => []PayloadPresent
<1>1. ASSUME Inv PROVE PayloadPresent
  <2>1. \A x \in Infos : Fresh(x) \/ Held(x) \/ InHand(x) \/ Caught(x) \/ Gone(x)
    BY <1>1, OwnPayloads DEF Inv, TypeOK, Controls, StagesAt
  <2> QED
    BY <1>1, <2>1, OwnPayloads DEF Inv, TypeOK, PayloadPresent, Fresh, Held, InHand, Caught, Gone
<1> QED
  BY <1>1, SpecInv, PTL

\* No payload is dropped or handed out twice, or after the other.
THEOREM SettledExactlyOnce == Spec => []SettledOnce
<1>1. ASSUME Inv PROVE SettledOnce
  <2>1. \A x \in Infos : Fresh(x) \/ Held(x) \/ InHand(x) \/ Caught(x) \/ Gone(x)
    BY <1>1, OwnPayloads DEF Inv, TypeOK, Controls, StagesAt
  <2>2. \A x \in Infos : \A p \in Of(x) :
          /\ ~(p \in dropped /\ p \in forgotten)
          /\ p \in delivered => p \notin dropped \cup forgotten
    <3> SUFFICES ASSUME NEW x \in Infos, NEW p \in Of(x)
                 PROVE  /\ ~(p \in dropped /\ p \in forgotten)
                        /\ p \in delivered => p \notin dropped \cup forgotten
      OBVIOUS
    <3>1. CASE Fresh(x) \/ Held(x) \/ InHand(x) \/ Caught(x)
      BY <3>1 DEF Fresh, Held, InHand, Caught, Intact
    <3>2. CASE Gone(x)
      <4>1. origin[x] \in Of(x) /\ (origin[x].depth > 0 => Nested(x) # origin[x])
        BY <3>2, NestedPayload, OwnPayloads DEF Gone
      <4> QED
        BY <3>2, <4>1 DEF Gone, Delivered, Disposed
    <3> QED
      BY <2>1, <3>1, <3>2
  <2>3. \A p \in dropped \cup forgotten \cup delivered : \E x \in Infos : p \in Of(x)
    BY <1>1 DEF Inv, TypeOK, Of, Payload
  <2>4. \A x \in Infos : slot[x] \notin dropped \cup forgotten \cup delivered
    <3> SUFFICES ASSUME NEW x \in Infos PROVE slot[x] \notin dropped \cup forgotten \cup delivered
      OBVIOUS
    <3>1. CASE Held(x)
      BY <3>1 DEF Held, Intact
    <3>2. CASE slot[x] = None
      BY <1>1, <3>2, OwnPayloads DEF Inv, TypeOK
    <3> QED
      BY <2>1, <3>1, <3>2 DEF Fresh, InHand, Caught, Gone
  <2>5. hand \notin dropped \cup forgotten \cup delivered
    <3> SUFFICES ASSUME hand # None PROVE hand \notin dropped \cup forgotten \cup delivered
      BY <1>1, OwnPayloads DEF Inv, TypeOK
    <3>1. hand.from \in Infos /\ hand \in Of(hand.from)
      BY <1>1 DEF Inv, TypeOK, Payload, Of
    <3>2. InHand(hand.from) \/ Caught(hand.from)
      BY <2>1, <3>1 DEF Fresh, Held, Gone
    <3>3. CASE InHand(hand.from)
      BY <3>1, <3>3 DEF InHand, Intact
    <3>4. CASE Caught(hand.from)
      BY <3>1, <3>4, NestedPayload, OwnPayloads DEF Caught
    <3> QED
      BY <3>2, <3>3, <3>4
  <2> QED
    BY <2>2, <2>3, <2>4, <2>5 DEF SettledOnce
<1> QED
  BY <1>1, SpecInv, PTL

\* Only payloads raised by panicking payload destructors are leaked; a captured
\* payload has been dropped or handed out when the invocation is over.
THEOREM NoCapturedLeak == Spec => []OnlyNestedLeak
<1>1. ASSUME Inv PROVE OnlyNestedLeak
  <2>1. \A x \in Infos : Fresh(x) \/ Held(x) \/ InHand(x) \/ Caught(x) \/ Gone(x)
    BY <1>1, OwnPayloads DEF Inv, TypeOK, Controls, StagesAt
  <2>2. \A x \in Infos : origin[x] \notin forgotten
    <3> SUFFICES ASSUME NEW x \in Infos PROVE origin[x] \notin forgotten
      OBVIOUS
    <3>1. CASE origin[x] = None
      BY <1>1, <3>1, OwnPayloads DEF Inv, TypeOK
    <3>2. CASE origin[x] \in Of(x) /\ ~Gone(x)
      BY <2>1, <3>2, OwnPayloads DEF Fresh, Held, InHand, Caught, Intact
    <3>3. CASE Gone(x)
      <4>1. origin[x] \in Of(x) /\ (origin[x].depth > 0 => Nested(x) # origin[x])
        BY <3>3, NestedPayload, OwnPayloads DEF Gone
      <4> QED
        BY <3>3, <4>1 DEF Gone, Delivered, Disposed
    <3> QED
      BY <2>1, <3>1, <3>2, <3>3 DEF Fresh, Held, InHand, Caught
  <2>3. pc \in {"done", "unwound"} => \A x \in Infos : origin[x] \in dropped \cup delivered \cup {None}
    BY <1>1 DEF Inv, StagesAt, Fresh, Gone, Delivered, Disposed
  <2> QED
    BY <1>1, <2>2, <2>3 DEF OnlyNestedLeak, Ended, Inv, StagesAt
<1> QED
  BY <1>1, SpecInv, PTL
================================================================================
