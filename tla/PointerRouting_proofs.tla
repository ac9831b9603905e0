------------------------ MODULE PointerRouting_proofs ------------------------
(* Proofs about PointerRouting, for any surfaces, constraints, touch points  *)
(* and number of buttons: its type, its three invariants and its two action  *)
(* properties.                                                               *)
EXTENDS PointerRouting, TLAPS

\* A press that is being delivered found a button free.
PressFits == event = "press" => buttons < MaxButtons

IInv == TypeOK /\ PressFits /\ GrabIsFocus /\ ActivatedIsActive /\ IconFollowsDrag

-----------------------------------------------------------------------------
(* What the helpers do to the state they change.                           *)

\* What the hit test finds is a surface, and the locker's own under a lock.
LEMMA HitsAreSurfaces ==
  ASSUME TypeOK, NEW hit \in Hits
  PROVE  /\ hit \in Surfaces \cup {None}
         /\ locked => hit \in LockSurfaces \cup {None}
BY DEF TypeOK, Hits

\* The types of the constraints, and that nobody but the active one was told.
ConstraintsTyped ==
  /\ constrains \in [Constraints -> Surfaces \cup {None}]
  /\ locking \subseteq Constraints
  /\ activated \subseteq Constraints /\ heard \subseteq Constraints
  /\ active \in Constraints \cup {None}
  /\ activated \subseteq {active}

LEMMA ConstraintsParts == IInv => ConstraintsTyped
BY DEF IInv, TypeOK, ActivatedIsActive, ConstraintsTyped

LEMMA ConstraintsKept ==
  ConstraintsTyped /\ UNCHANGED constraints => ConstraintsTyped'
BY DEF ConstraintsTyped, constraints

\* Activation keeps them; under a lock it activates nothing.
LEMMA ActivateKeeps ==
  ASSUME ConstraintsTyped, NEW s \in Surfaces \cup {None}, Activate(s)
  PROVE  ConstraintsTyped' /\ (locked => active' \in {active, None})
<1>1. CASE UNCHANGED constraints
  BY <1>1, ConstraintsKept DEF constraints
<1>2. CASE ~UNCHANGED constraints
  <2>1. PICK oneshot \in BOOLEAN :
          LET gone == IF oneshot THEN {active} \cap Constraints ELSE {}
              found == IF s = None \/ locked THEN {}
                       ELSE {c \in heard \ gone : constrains[c] = s}
          IN /\ active' \in IF found = {} THEN {None} ELSE found
             /\ Destroyed(gone, (activated \ {active}) \cup ({active'} \ {None}))
    BY <1>2 DEF Activate
  <2> DEFINE gone == IF oneshot THEN {active} \cap Constraints ELSE {}
             found == IF s = None \/ locked THEN {}
                      ELSE {c \in heard \ gone : constrains[c] = s}
  <2>2. found \subseteq Constraints /\ (locked => found = {})
    BY DEF ConstraintsTyped
  <2>3. active' \in Constraints \cup {None} /\ (locked => active' = None)
    BY <2>1, <2>2
  <2>4. /\ constrains' = [c \in Constraints |-> IF c \in gone THEN None ELSE constrains[c]]
        /\ locking' = locking \ gone
        /\ activated' = ((activated \ {active}) \cup ({active'} \ {None})) \ gone
        /\ heard' = heard \ gone
    BY <2>1 DEF Destroyed
  <2> HIDE DEF gone, found
  <2> QED
    BY <2>3, <2>4 DEF ConstraintsTyped
<1> QED BY <1>1, <1>2

LEMMA ForgetKeeps ==
  ASSUME ConstraintsTyped, NEW gone \in SUBSET Constraints, ForgetConstraints(gone)
  PROVE  ConstraintsTyped' /\ active' \in {active, None}
BY DEF ConstraintsTyped, ForgetConstraints, Destroyed

\* Without an explicit grab, the pointer enters what it hit.
LEMMA EnterKeeps ==
  ASSUME IInv, NEW hit \in Hits, Enter(hit)
  PROVE  /\ ConstraintsTyped'
         /\ focus' \in Surfaces \cup {None}
         /\ ~explicit => focus' = hit
         /\ locked => /\ focus' \in {focus, None} \cup LockSurfaces
                      /\ active' \in {active, None}
<1>1. hit \in Surfaces \cup {None} /\ (locked => hit \in LockSurfaces \cup {None})
  BY HitsAreSurfaces DEF IInv
<1>2. ConstraintsTyped' /\ (locked => active' \in {active, None})
  BY <1>1, ActivateKeeps, ConstraintsParts DEF Enter
<1> QED BY <1>1, <1>2 DEF Enter, IInv, TypeOK

\* A motion leaves the grab in force, or drops it.
LEMMA MotionKeeps ==
  ASSUME IInv, NEW hit \in Hits, MotionToFocus(hit)
  PROVE  /\ ConstraintsTyped'
         /\ focus' \in Surfaces \cup {None}
         /\ grab' = None \/ UNCHANGED <<focus, grab>>
         /\ grab # None /\ GrabApplies => UNCHANGED <<focus, grab>>
         /\ locked => /\ focus' \in {focus, None} \cup LockSurfaces
                      /\ active' \in {active, None}
<1>1. CASE grab # None /\ GrabApplies
  <2>1. UNCHANGED <<focus, constraints, grab>>
    BY <1>1 DEF MotionToFocus
  <2> QED
    BY <2>1, ConstraintsParts, ConstraintsKept DEF IInv, TypeOK, constraints
<1>2. CASE ~(grab # None /\ GrabApplies)
  <2>1. Enter(hit) /\ grab' = None
    BY <1>2 DEF MotionToFocus
  <2> QED
    BY <1>2, <2>1, EnterKeeps
<1> QED BY <1>1, <1>2

\* What a drag and its icon are, and that they end together.
DraggingTyped ==
  /\ drag \in Drags /\ icon \in BOOLEAN /\ iconTree \in BOOLEAN /\ iconHeard \in BOOLEAN
  /\ IconFollowsDrag

LEMMA DraggingKept == IInv /\ UNCHANGED dragging => DraggingTyped'
BY DEF IInv, TypeOK, IconFollowsDrag, DraggingTyped, dragging

LEMMA DragEndsKeeps == IInv /\ DragEnds => DraggingTyped'
BY DEF IInv, TypeOK, IconFollowsDrag, DraggingTyped, DragEnds, OnDragDestroy, Drags

-----------------------------------------------------------------------------
LEMMA InitIInv == Init => IInv
<1> SUFFICES ASSUME Init PROVE IInv
  OBVIOUS
<1>1. 0 \in 0..MaxButtons /\ "none" \in Drags
  BY PointerRoutingAssumption DEF Drags
<1>2. TypeOK
  BY <1>1 DEF Init, TypeOK
<1> QED
  BY <1>2 DEF Init, IInv, PressFits, GrabIsFocus, ActivatedIsActive, IconFollowsDrag

\* The rest of a button event, by what the button means.
LEMMA ButtonPreserves ==
  ASSUME IInv, NEW hit \in Hits, RouteButton(hit)
  PROVE  IInv'
<1> USE DEF RouteButton
<1>1. grab' = None \/ (grab' = focus' /\ buttons' > 0) \/ (UNCHANGED <<focus, grab>>
        /\ (buttons > 0 => buttons' > 0))
  <2>1. CASE explicit
    BY <2>1
  <2>2. CASE ~explicit /\ ButtonAction(event, buttons) = "Begin"
    BY <2>2 DEF ButtonAction, Notify, IInv, TypeOK
  <2>3. CASE ~explicit /\ ButtonAction(event, buttons) = "Hold"
    BY <2>3 DEF ButtonAction, Notify, IInv, TypeOK
  <2>4. CASE ~explicit /\ ButtonAction(event, buttons) = "End"
    BY <2>4 DEF ButtonAction
  <2> QED BY <2>1, <2>2, <2>3, <2>4
<1>2. ConstraintsTyped' /\ focus' \in Surfaces \cup {None}
  BY EnterKeeps, ConstraintsParts, ConstraintsKept DEF IInv, TypeOK, constraints
<1>3. grab' \in Surfaces \cup {None}
  BY <1>1, <1>2 DEF IInv, TypeOK
<1>4. DraggingTyped'
  <2>1. UNCHANGED dragging \/ DragEnds
    OBVIOUS
  <2> QED BY <2>1, DraggingKept, DragEndsKeeps
<1>5. TypeOK' /\ PressFits'
  <2>1. buttons' \in 0..MaxButtons
    BY PointerRoutingAssumption DEF IInv, TypeOK, PressFits, Notify
  <2>2. explicit' \in BOOLEAN
    BY DEF IInv, TypeOK
  <2> QED BY <1>2, <1>3, <1>4, <2>1, <2>2 DEF IInv, TypeOK, ConstraintsTyped, PressFits,
            DraggingTyped
<1>6. GrabIsFocus'
  BY <1>1 DEF IInv, GrabIsFocus
<1> QED
  BY <1>2, <1>5, <1>4, <1>6 DEF IInv, ActivatedIsActive, ConstraintsTyped, DraggingTyped

LEMMA MotionPreserves ==
  ASSUME IInv, NEW hit \in Hits, MotionToFocus(hit),
         UNCHANGED <<live, buttons, explicit, touches, dragging, locked, running>>,
         event' \in {event, "none"}
  PROVE  IInv'
<1>1. /\ ConstraintsTyped' /\ focus' \in Surfaces \cup {None}
      /\ grab' = None \/ UNCHANGED <<focus, grab>>
  BY MotionKeeps
<1>2. TypeOK' /\ PressFits'
  BY <1>1 DEF IInv, TypeOK, ConstraintsTyped, PressFits, dragging
<1>3. GrabIsFocus'
  BY <1>1 DEF IInv, GrabIsFocus
<1> QED
  BY <1>1, <1>2, <1>3 DEF IInv, ActivatedIsActive, ConstraintsTyped, IconFollowsDrag,
     dragging

\* Constraints and surfaces that come and go.
LEMMA LivesPreserve ==
  ASSUME IInv,
         \/ \E c \in Constraints, s \in Apps, locks \in BOOLEAN : NewConstraint(c, s, locks)
         \/ \E c \in Constraints : ConstraintDestroyed(c)
         \/ \E s \in Surfaces : Map(s) \/ Gone(s)
  PROVE  IInv'
<1> USE DEF IInv, TypeOK, PressFits, GrabIsFocus, ActivatedIsActive, IconFollowsDrag,
            seat, dragging
<1>1. CASE \E c \in Constraints, s \in Apps, locks \in BOOLEAN : NewConstraint(c, s, locks)
  BY <1>1 DEF NewConstraint, Surfaces
<1>2. CASE \E c \in Constraints : ConstraintDestroyed(c)
  <2>1. PICK c \in Constraints : ConstraintDestroyed(c)
    BY <1>2
  <2>2. ConstraintsTyped'
    BY <2>1, ForgetKeeps, ConstraintsParts DEF ConstraintDestroyed
  <2> QED
    BY <2>1, <2>2 DEF ConstraintDestroyed, ConstraintsTyped
<1>3. CASE \E s \in Surfaces : Map(s)
  BY <1>3 DEF Map, constraints
<1>4. CASE \E s \in Surfaces : Gone(s)
  <2>1. PICK s \in Surfaces : Gone(s)
    BY <1>4
  <2>2. ConstraintsTyped'
    BY <2>1, ForgetKeeps, ConstraintsParts DEF Gone
  <2> QED
    BY <2>1, <2>2 DEF Gone, ConstraintsTyped
<1> QED BY <1>1, <1>2, <1>3, <1>4

\* Drags and their icons, and the fingers.
LEMMA DragsPreserve ==
  ASSUME IInv,
         \/ \E from \in Drags, origin \in Surfaces, withIcon \in BOOLEAN :
              OnRequestStartDrag(from, origin, withIcon)
         \/ IconDestroyed \/ DragCancelled
  PROVE  IInv'
<1> USE DEF IInv, TypeOK, PressFits, GrabIsFocus, ActivatedIsActive, IconFollowsDrag,
            constraints, seat
<1>1. CASE \E from \in Drags, origin \in Surfaces, withIcon \in BOOLEAN :
             OnRequestStartDrag(from, origin, withIcon)
  <2>1. PICK from \in Drags, origin \in Surfaces, withIcon \in BOOLEAN :
          OnRequestStartDrag(from, origin, withIcon)
    BY <1>1
  <2>2. from # "none"
    BY <2>1 DEF OnRequestStartDrag, Entitled
  <2> QED
    BY <2>1, <2>2 DEF OnRequestStartDrag, OnStartDrag
<1>2. CASE IconDestroyed
  BY <1>2 DEF IconDestroyed, OnDragDestroy
<1>3. CASE DragCancelled
  BY <1>3, DragEndsKeeps DEF DragCancelled, DraggingTyped
<1> QED BY <1>1, <1>2, <1>3

LEMMA TouchPreserves ==
  ASSUME IInv,
         \/ \E t \in TouchIds :
              \/ \E hit \in TouchHits : OnTouchDown(t, hit) \/ OnTouchMotion(t, hit)
              \/ OnTouchUp(t)
         \/ \E gone \in SUBSET TouchIds : OnTouchCancel(gone)
  PROVE  IInv'
<1>1. touches' \in [TouchIds -> Surfaces \cup {None, Nowhere}]
  BY HitsAreSurfaces DEF IInv, TypeOK, TouchHits, OnTouchDown, OnTouchMotion,
     OnTouchUp, OnTouchCancel, Lifted
<1>2. UNCHANGED dragging \/ DragEnds
  BY DEF OnTouchDown, OnTouchMotion, OnTouchUp, OnTouchCancel, Lifted
<1>3. DraggingTyped'
  BY <1>2, DraggingKept, DragEndsKeeps
<1>4. Touched
  BY DEF OnTouchDown, OnTouchMotion, OnTouchUp, OnTouchCancel, Lifted
<1> QED
  BY <1>1, <1>3, <1>4 DEF IInv, TypeOK, PressFits, GrabIsFocus, ActivatedIsActive,
     DraggingTyped, Touched, seat, constraints

LEMMA TouchMovesNoPointer ==
  ASSUME \/ \E t \in TouchIds :
              \/ \E hit \in TouchHits : OnTouchDown(t, hit) \/ OnTouchMotion(t, hit)
              \/ OnTouchUp(t)
         \/ \E gone \in SUBSET TouchIds : OnTouchCancel(gone)
  PROVE  UNCHANGED <<focus, grab, active>>
BY DEF OnTouchDown, OnTouchMotion, OnTouchUp, OnTouchCancel, Lifted, Touched, seat,
   constraints

\* What changes neither a surface nor the pointer's place on one.
LEMMA OthersPreserve ==
  ASSUME IInv,
         \/ PopupGrab \/ PopupUngrab \/ Motion \/ Axis \/ RouteAxis
         \/ RunStart \/ RunEnd
         \/ \E l \in BOOLEAN : SetLocked(l)
         \/ \E e \in {"press", "release"} : Button(e)
         \/ UNCHANGED vars
  PROVE  IInv'
<1> USE DEF IInv, TypeOK, PressFits, GrabIsFocus, ActivatedIsActive, IconFollowsDrag,
            seat, constraints, dragging
<1>1. CASE PopupGrab
  BY <1>1 DEF PopupGrab
<1>2. CASE PopupUngrab
  BY <1>2 DEF PopupUngrab
<1>3. CASE \E l \in BOOLEAN : SetLocked(l)
  BY <1>3 DEF SetLocked
<1>4. CASE Motion \/ Axis \/ RouteAxis \/ \E e \in {"press", "release"} : Button(e)
  BY <1>4 DEF Motion, Axis, RouteAxis, Button
<1>5. CASE RunStart
  BY <1>5 DEF RunStart
<1>6. CASE RunEnd
  BY <1>6 DEF RunEnd
<1>7. CASE UNCHANGED vars
  BY <1>7 DEF vars
<1> QED BY <1>1, <1>2, <1>3, <1>4, <1>5, <1>6, <1>7

LEMMA NextPreserves == IInv /\ [Next]_vars => IInv'
<1> SUFFICES ASSUME IInv, [Next]_vars PROVE IInv'
  OBVIOUS
<1>1. CASE \E c \in Constraints, reanchored \in BOOLEAN, hit \in Hits :
             SetRegion(c, reanchored, hit)
  <2>1. PICK c \in Constraints, reanchored \in BOOLEAN, hit \in Hits :
          SetRegion(c, reanchored, hit)
    BY <1>1
  <2>2. CASE active = c /\ reanchored
    BY <2>1, <2>2, MotionPreserves DEF SetRegion
  <2>3. CASE ~(active = c /\ reanchored)
    BY <2>1, <2>3 DEF SetRegion, constraints, dragging, IInv, TypeOK, PressFits,
       GrabIsFocus, ActivatedIsActive, IconFollowsDrag
  <2> QED BY <2>2, <2>3
<1>2. CASE \E hit \in Hits : RouteMotion(hit)
  BY <1>2, MotionPreserves DEF RouteMotion
<1>3. CASE \E hit \in Hits : RouteButton(hit)
  BY <1>3, ButtonPreserves
<1> QED
  BY <1>1, <1>2, <1>3, LivesPreserve, DragsPreserve, TouchPreserves, OthersPreserve
     DEF Next

LEMMA Invariant == Spec => []IInv
BY InitIInv, NextPreserves, PTL DEF Spec

-----------------------------------------------------------------------------
\* Every variable keeps its type.
THEOREM TypeCorrect == Spec => []TypeOK
<1>1. IInv => TypeOK
  BY DEF IInv
<1> QED BY <1>1, Invariant, PTL

\* A recorded grab is that of the pointer's surface and of a held button.
THEOREM GrabNamesFocus == Spec => []GrabIsFocus
<1>1. IInv => GrabIsFocus
  BY DEF IInv
<1> QED BY <1>1, Invariant, PTL

\* No constraint is left believing that it is active.
THEOREM OnlyActiveWasTold == Spec => []ActivatedIsActive
<1>1. IInv => ActivatedIsActive
  BY DEF IInv
<1> QED BY <1>1, Invariant, PTL

\* An icon that is listened to is alive and recorded, and ends with its drag.
THEOREM IconEndsWithDrag == Spec => []IconFollowsDrag
<1>1. IInv => IconFollowsDrag
  BY DEF IInv
<1> QED BY <1>1, Invariant, PTL

\* A press keeps the pointer on its surface until the chord ends.
THEOREM PressHoldsFocus == Spec => PressKeepsFocus
<1> DEFINE Keeps == grab # None /\ focus = grab /\ grab \in live' /\ ~explicit
                      /\ ~explicit' /\ buttons > 0 /\ buttons' > 0
                      => focus' = focus /\ grab' = grab
<1>1. IInv /\ [Next]_vars => [Keeps]_vars
  <2> SUFFICES ASSUME IInv, Next, grab # None, focus = grab, grab \in live',
                      ~explicit, ~explicit', buttons > 0, buttons' > 0
               PROVE  focus' = focus /\ grab' = grab
    BY DEF vars
  <2>1. GrabApplies
    BY DEF GrabApplies
  <2>2. CASE \E hit \in Hits : RouteMotion(hit) \/ RouteButton(hit)
    <3>1. PICK hit \in Hits : RouteMotion(hit) \/ RouteButton(hit)
      BY <2>2
    <3>2. CASE RouteMotion(hit)
      BY <2>1, <3>2, MotionKeeps DEF RouteMotion
    <3>3. CASE RouteButton(hit)
      <4>1. ButtonAction(event, buttons) = "Hold"
        BY <3>3 DEF RouteButton, ButtonAction, Notify, IInv, TypeOK
      <4> QED BY <3>3, <4>1 DEF RouteButton
    <3> QED BY <3>1, <3>2, <3>3
  <2>3. CASE \E c \in Constraints, reanchored \in BOOLEAN, hit \in Hits :
               SetRegion(c, reanchored, hit)
    BY <2>1, <2>3, MotionKeeps DEF SetRegion
  <2>4. CASE \E s \in Surfaces : Gone(s)
    BY <2>4 DEF Gone
  <2>5. CASE \E from \in Drags, origin \in Surfaces, withIcon \in BOOLEAN :
               OnRequestStartDrag(from, origin, withIcon)
    BY <2>5 DEF OnRequestStartDrag
  <2>6. CASE \/ \E t \in TouchIds :
                  \/ \E hit \in TouchHits : OnTouchDown(t, hit) \/ OnTouchMotion(t, hit)
                  \/ OnTouchUp(t)
             \/ \E gone \in SUBSET TouchIds : OnTouchCancel(gone)
    BY <2>6, TouchMovesNoPointer
  <2> QED
    BY <2>2, <2>3, <2>4, <2>5, <2>6 DEF Next, NewConstraint, ConstraintDestroyed, Map,
       PopupGrab, PopupUngrab, IconDestroyed, DragCancelled, SetLocked, Motion, Axis,
       RouteAxis, Button, RunStart, RunEnd, seat
<1>2. Spec => [][Keeps]_vars
  BY <1>1, Invariant, PTL DEF Spec
<1> QED
  BY <1>2 DEF PressKeepsFocus

\* Under a lock the pointer enters no application, and nothing constrains it anew.
THEOREM LockHoldsPointer == Spec => LockTakesPointer
<1> DEFINE Takes == locked => /\ focus' \in {focus, None} \cup LockSurfaces
                              /\ \A t \in TouchIds :
                                   touches'[t] \in {touches[t], None, Nowhere}
                                                   \cup LockSurfaces
                              /\ active' \in {active, None}
<1>1. IInv /\ Next /\ locked => focus' \in {focus, None} \cup LockSurfaces
                                /\ active' \in {active, None}
  <2> SUFFICES ASSUME IInv, Next, locked
               PROVE  /\ focus' \in {focus, None} \cup LockSurfaces
                      /\ active' \in {active, None}
    OBVIOUS
  <2>1. CASE \E hit \in Hits : RouteMotion(hit)
    BY <2>1, MotionKeeps DEF RouteMotion
  <2>2. CASE \E hit \in Hits : RouteButton(hit)
    BY <2>2, EnterKeeps DEF RouteButton, constraints
  <2>3. CASE \E c \in Constraints, reanchored \in BOOLEAN, hit \in Hits :
               SetRegion(c, reanchored, hit)
    BY <2>3, MotionKeeps DEF SetRegion, constraints
  <2>4. CASE \E s \in Surfaces : Gone(s)
    BY <2>4 DEF Gone, ForgetConstraints
  <2>5. CASE \E c \in Constraints : ConstraintDestroyed(c)
    BY <2>5 DEF ConstraintDestroyed, ForgetConstraints, seat
  <2>6. CASE \E from \in Drags, origin \in Surfaces, withIcon \in BOOLEAN :
               OnRequestStartDrag(from, origin, withIcon)
    BY <2>6 DEF OnRequestStartDrag, constraints
  <2>7. CASE \/ \E t \in TouchIds :
                  \/ \E hit \in TouchHits : OnTouchDown(t, hit) \/ OnTouchMotion(t, hit)
                  \/ OnTouchUp(t)
             \/ \E gone \in SUBSET TouchIds : OnTouchCancel(gone)
    BY <2>7, TouchMovesNoPointer
  <2> QED
    BY <2>1, <2>2, <2>3, <2>4, <2>5, <2>6, <2>7 DEF Next, NewConstraint, Map, PopupGrab,
       PopupUngrab, IconDestroyed, DragCancelled, SetLocked, Motion, Axis, RouteAxis,
       Button, RunStart, RunEnd, seat, constraints
<1>2. IInv /\ Next /\ locked => \A t \in TouchIds :
        touches'[t] \in {touches[t], None, Nowhere} \cup LockSurfaces
  <2> SUFFICES ASSUME IInv, Next, locked, NEW t \in TouchIds
               PROVE  touches'[t] \in {touches[t], None, Nowhere} \cup LockSurfaces
    OBVIOUS
  <2>1. CASE UNCHANGED touches
    BY <2>1
  <2>2. CASE \E s \in Surfaces : Gone(s)
    BY <2>2 DEF Gone
  <2>3. CASE \E x \in TouchIds, hit \in TouchHits : OnTouchDown(x, hit) \/ OnTouchMotion(x, hit)
    <3>1. PICK x \in TouchIds, hit \in TouchHits : OnTouchDown(x, hit) \/ OnTouchMotion(x, hit)
      BY <2>3
    <3>2. hit \in LockSurfaces
      BY <3>1, HitsAreSurfaces DEF IInv, TouchHits
    <3> QED
      BY <3>1, <3>2 DEF OnTouchDown, OnTouchMotion, IInv, TypeOK
  <2>4. CASE \E gone \in SUBSET TouchIds : Lifted(gone)
    BY <2>4 DEF Lifted
  <2> QED
    BY <2>1, <2>2, <2>3, <2>4 DEF Next, NewConstraint, ConstraintDestroyed, Map,
       PopupGrab, PopupUngrab, OnRequestStartDrag, IconDestroyed, DragCancelled, SetLocked,
       Motion, Axis, RouteAxis, Button, RouteMotion, RouteButton, SetRegion, OnTouchUp,
       OnTouchCancel, RunStart, RunEnd
<1>3. IInv /\ [Next]_vars => [Takes]_vars
  BY <1>1, <1>2
<1>4. Spec => [][Takes]_vars
  BY <1>3, Invariant, PTL DEF Spec
<1> QED
  BY <1>4 DEF LockTakesPointer
=============================================================================
