--------------------------- MODULE PointerRouting ---------------------------
(***************************************************************************)
(* How pointer events reach a surface (backend.rs): on_pointer_motion and  *)
(* its absolute twin, on_pointer_button and on_pointer_axis deliver the    *)
(* event to the consumer first and route it to a client afterwards, by the *)
(* surface under the cursor or by the implicit grab of a held button; the  *)
(* pointer constraint of the surface that gained the pointer is activated. *)
(* Touch is forwarded first and delivered afterwards.  A drag starts from  *)
(* a held button or a touch point, and its icon follows the pointer.       *)
(*                                                                         *)
(* The seat (focus, buttons, touch points, explicit grabs), surfaces,      *)
(* constraints and drags are wlroots' and external.  A surface or          *)
(* constraint may be born again at the address of a dead one.  The Runtime *)
(* has a seat, a cursor and its scene.                                     *)
(***************************************************************************)
EXTENDS Naturals

CONSTANTS Apps,          \* the surfaces of applications
          LockSurfaces,  \* the surfaces under Band::Lock
          Constraints,   \* the addresses of pointer constraints
          None,          \* no surface, no constraint
          TouchIds,      \* the ids of touch points
          Nowhere,       \* where a touch point is whose surface died
          MaxButtons     \* bound: buttons held at once

Surfaces == Apps \cup LockSurfaces
Drags == {"none", "pointer", "touch"}

ASSUME PointerRoutingAssumption ==
  /\ Apps \cap LockSurfaces = {} /\ None \notin Surfaces \cup Constraints
  /\ Nowhere \notin Surfaces \cup {None}
  /\ MaxButtons \in Nat

VARIABLES
  live,         \* external: the surfaces shown
  focus,        \* external: the seat's pointer focus
  buttons,      \* external: the seat's button_count
  explicit,     \* external: a popup or a drag has grabbed the pointer
  touches,      \* external: the surface of each touch point, None for no point
  drag,         \* external: what the drag in progress was started from
  icon,         \* external: the drag has an icon, with a tree in the scene
  constrains,   \* external: the surface of each live constraint
  locking,      \* external: those that lock the pointer in place, not confine it
  activated,    \* external: the constraints whose client was told so
  grab,         \* RuntimeInner::pointer_grab: its surface
  active,       \* RuntimeInner::active_constraint
  heard,        \* Session::pointer_constraints
  iconTree,     \* RuntimeInner::drag_icon_tree is there
  iconHeard,    \* Session::drags: the icon's destroy is listened to
  locked,       \* RuntimeInner::session_locked
  running,      \* a run is on the stack
  event         \* the event the consumer is being told of

seat == <<focus, buttons, explicit>>
constraints == <<constrains, locking, activated, active, heard>>
dragging == <<drag, icon, iconTree, iconHeard>>
vars == <<live, seat, touches, dragging, constraints, grab, locked, running, event>>

Dispatching == event = "none"

Init == /\ live = {} /\ focus = None /\ buttons = 0 /\ explicit = FALSE
        /\ constrains = [c \in Constraints |-> None]
        /\ locking = {} /\ activated = {} /\ active = None /\ heard = {}
        /\ grab = None
        /\ touches = [t \in TouchIds |-> None]
        /\ drag = "none" /\ icon = FALSE /\ iconTree = FALSE /\ iconHeard = FALSE
        /\ locked = FALSE /\ running = FALSE /\ event = "none"

-----------------------------------------------------------------------------
(* Constraints *)

\* Mutant: the surface under the cursor is found in the whole scene.
HitsAnywhere == live \cup {None}

\* What leaf_surface_at can find.
Hits == (IF locked THEN live \cap LockSurfaces ELSE live) \cup {None}

\* wlroots destroys gone; on_pointer_constraint_destroy runs where it listens.
Destroyed(gone, act) ==
  /\ constrains' = [c \in Constraints |-> IF c \in gone THEN None ELSE constrains[c]]
  /\ locking' = locking \ gone
  /\ activated' = act \ gone
  /\ heard' = heard \ gone

\* The surface the active constraint is on, None when it was freed.
ActiveOn == IF active = None THEN None ELSE constrains[active]

\* Mutant: the constraint that was active is not told that it no longer is.
ActivateSilently(s) ==
  IF ActiveOn # None /\ ActiveOn = s
  THEN UNCHANGED constraints
  ELSE LET found == IF s = None \/ locked THEN {}
                    ELSE {c \in heard : constrains[c] = s}
       IN /\ active' \in IF found = {} THEN {None} ELSE found
          /\ activated' = activated \cup ({active'} \ {None})
          /\ UNCHANGED <<constrains, locking, heard>>

(* update_pointer_constraint_activation for the surface s.  A one-shot     *)
(* constraint is destroyed by its deactivation.  A pointer to a freed one  *)
(* compares with s as it likes.                                            *)
Activate(s) ==
  \/ /\ active # None /\ ActiveOn \in {s, None}
     /\ UNCHANGED constraints
  \/ /\ ActiveOn # s \/ ActiveOn = None
     /\ \E oneshot \in BOOLEAN :
          LET gone == IF oneshot THEN {active} \cap Constraints ELSE {}
              found == IF s = None \/ locked THEN {}
                       ELSE {c \in heard \ gone : constrains[c] = s}
          IN /\ active' \in IF found = {} THEN {None} ELSE found
             /\ Destroyed(gone, (activated \ {active}) \cup ({active'} \ {None}))

NewConstraint(c, s, locks) ==
  /\ Dispatching /\ constrains[c] = None /\ s \in live
  /\ \A d \in Constraints : constrains[d] # s
  /\ constrains' = [constrains EXCEPT ![c] = s]
  /\ locking' = IF locks THEN locking \cup {c} ELSE locking
  /\ heard' = IF running THEN heard \cup {c} ELSE heard
  /\ UNCHANGED <<live, seat, touches, dragging, activated, active, grab, locked,
                 running, event>>

\* on_pointer_constraint_destroy for those of gone with a listener.
ForgetConstraints(gone) ==
  /\ Destroyed(gone, activated)
  /\ active' = IF active \in gone \cap heard THEN None ELSE active

ConstraintDestroyed(c) ==
  /\ Dispatching /\ constrains[c] # None
  /\ ForgetConstraints({c})
  /\ UNCHANGED <<live, seat, touches, dragging, grab, locked, running, event>>

-----------------------------------------------------------------------------
(* Surfaces, the grabs of popups, the session lock *)

Map(s) == /\ Dispatching /\ s \notin live
          /\ live' = live \cup {s}
          /\ UNCHANGED <<seat, touches, dragging, constraints, grab, locked,
                         running, event>>

\* The seat forgets a surface that goes, and so do its constraints.  A touch
\* point outlives it, until its up.
Gone(s) == /\ Dispatching /\ s \in live
           /\ live' = live \ {s}
           /\ focus' = IF focus = s THEN None ELSE focus
           /\ touches' = [t \in TouchIds |-> IF touches[t] = s THEN Nowhere
                                            ELSE touches[t]]
           /\ ForgetConstraints({c \in Constraints : constrains[c] = s})
           /\ UNCHANGED <<buttons, explicit, dragging, grab, locked, running, event>>

PopupGrab ==
  /\ Dispatching /\ ~explicit
  /\ explicit' = TRUE
  /\ UNCHANGED <<live, focus, buttons, touches, dragging, constraints, grab, locked,
                 running, event>>

\* In a handler, the consumer dismissed the popup.
PopupUngrab ==
  /\ explicit /\ drag # "pointer"
  /\ explicit' = FALSE
  /\ UNCHANGED <<live, focus, buttons, touches, dragging, constraints, grab, locked,
                 running, event>>

\* begin_session_lock and unlock_session leave the pointer where it is.
SetLocked(l) ==
  /\ Dispatching /\ locked # l
  /\ locked' = l
  /\ UNCHANGED <<live, seat, touches, dragging, constraints, grab, running, event>>

-----------------------------------------------------------------------------
(* Drags *)

\* Mutant: the drag's own destroy is listened to, and not the icon's.
OnDragDestroyOfDrag ==
  LET told == iconHeard /\ drag' = "none"
  IN /\ icon' = FALSE
     /\ iconTree' = (iconTree /\ ~told)
     /\ iconHeard' = (iconHeard /\ ~told)

\* wlroots destroys the icon, with its tree; on_drag_destroy where it listens.
OnDragDestroy ==
  /\ icon' = FALSE
  /\ iconTree' = (iconTree /\ ~iconHeard)
  /\ iconHeard' = FALSE

DragEnds == drag' = "none" /\ OnDragDestroy

\* The icon's surface is destroyed, and the drag goes on.
IconDestroyed ==
  /\ Dispatching /\ icon
  /\ UNCHANGED <<live, seat, touches, drag, constraints, grab, locked, running, event>>
  /\ OnDragDestroy

(* on_request_start_drag: the serial must be that of a button held on the  *)
(* origin, or of a touch point on it.  A pointer drag takes the focus.     *)
Entitled(from, origin) ==
  \/ from = "pointer" /\ buttons > 0 /\ focus = origin
  \/ from = "touch" /\ \E t \in TouchIds : touches[t] = origin

\* on_start_drag: the icon, if there is one, is recorded and listened to.
OnStartDrag(withIcon) ==
  /\ icon' = withIcon
  /\ iconTree' = (withIcon \/ iconTree)
  /\ iconHeard' = withIcon

OnRequestStartDrag(from, origin, withIcon) ==
  /\ Dispatching /\ running /\ drag = "none"
  /\ Entitled(from, origin)
  /\ drag' = from
  /\ IF from = "pointer" THEN explicit' = TRUE /\ focus' = None
                         ELSE UNCHANGED <<explicit, focus>>
  /\ OnStartDrag(withIcon)
  /\ UNCHANGED <<live, buttons, touches, constraints, grab, locked, running, event>>

\* The drag is dropped, or its source is destroyed.
DragCancelled ==
  /\ Dispatching /\ drag # "none"
  /\ DragEnds
  /\ explicit' = (explicit /\ drag # "pointer")
  /\ UNCHANGED <<live, focus, buttons, touches, constraints, grab, locked, running,
                 event>>

-----------------------------------------------------------------------------
(* The pointer's events *)

\* A locked constraint is in force.
Frozen == \E c \in Constraints :
            c = active /\ constrains[c] # None /\ c \in locking

(* on_pointer_motion and on_pointer_motion_absolute up to the delivery: a  *)
(* locked constraint keeps the cursor, and the focus, where they are.      *)
Motion ==
  /\ Dispatching /\ running
  /\ ~Frozen
  /\ event' = "motion"
  /\ UNCHANGED <<live, seat, touches, dragging, constraints, grab, locked, running>>

Button(e) ==
  /\ Dispatching /\ running
  /\ e = "press" => buttons < MaxButtons
  /\ event' = e
  /\ UNCHANGED <<live, seat, touches, dragging, constraints, grab, locked, running>>

Axis ==
  /\ Dispatching /\ running
  /\ event' = "axis"
  /\ UNCHANGED <<live, seat, touches, dragging, constraints, grab, locked, running>>

(* enter_surface_under_cursor.  wlroots' notifies go through an explicit   *)
(* grab, which may refuse the surface.                                     *)
Enter(hit) ==
  /\ focus' \in IF explicit THEN {focus, hit, None} ELSE {hit}
  /\ Activate(hit)

\* grab_still_applies
GrabApplies == ~explicit /\ buttons > 0 /\ focus # None /\ focus = grab

\* Mutant: a grab that does not apply is kept for later.
MotionToFocusKeepingGrab(hit) ==
  IF grab # None /\ GrabApplies
  THEN UNCHANGED <<focus, constraints, grab>>
  ELSE Enter(hit) /\ UNCHANGED grab

\* pointer_motion_to_focus
MotionToFocus(hit) ==
  IF grab # None /\ GrabApplies
  THEN UNCHANGED <<focus, constraints, grab>>
  ELSE Enter(hit) /\ grab' = None

RouteMotion(hit) ==
  /\ event = "motion" /\ hit \in Hits
  /\ MotionToFocus(hit)
  /\ event' = "none"
  /\ UNCHANGED <<live, buttons, explicit, touches, dragging, locked, running>>

\* Mutant: the first release ends the grab, whatever else is held.
ButtonActionAnyRelease(e, held) ==
  IF e = "press" THEN IF held = 0 THEN "Begin" ELSE "Hold" ELSE "End"

\* button_action
ButtonAction(e, held) ==
  IF e = "press" THEN IF held = 0 THEN "Begin" ELSE "Hold"
                 ELSE IF held <= 1 THEN "End" ELSE "Hold"

\* wlr_seat_pointer_notify_button
Notify(e) == buttons' = IF e = "press" THEN buttons + 1
                        ELSE IF buttons > 0 THEN buttons - 1 ELSE 0

(* The rest of on_pointer_button.  The grab is recorded on the surface     *)
(* that holds the focus then.  An explicit grab may end with the button.   *)
RouteButton(hit) ==
  /\ event \in {"press", "release"} /\ hit \in Hits
  /\ Notify(event)
  /\ \/ /\ explicit
        /\ Enter(hit) /\ grab' = None
        /\ \/ UNCHANGED <<explicit, dragging>>
           \/ /\ explicit' = FALSE
              /\ IF drag = "pointer" THEN DragEnds ELSE UNCHANGED dragging
     \/ /\ ~explicit /\ ButtonAction(event, buttons) = "Begin"
        /\ Enter(hit) /\ grab' = focus'
        /\ UNCHANGED <<explicit, dragging>>
     \/ /\ ~explicit /\ ButtonAction(event, buttons) = "Hold"
        /\ UNCHANGED <<focus, explicit, dragging, constraints, grab>>
     \/ /\ ~explicit /\ ButtonAction(event, buttons) = "End"
        /\ Enter(hit) /\ grab' = None
        /\ UNCHANGED <<explicit, dragging>>
  /\ event' = "none"
  /\ UNCHANGED <<live, touches, locked, running>>

\* The rest of on_pointer_axis: to the focus there is.
RouteAxis ==
  /\ event = "axis"
  /\ event' = "none"
  /\ UNCHANGED <<live, seat, touches, dragging, constraints, grab, locked, running>>

(* on_pointer_constraint_set_region: when the cursor was put back into the *)
(* active constraint's region, the pointer moved.                          *)
SetRegion(c, reanchored, hit) ==
  /\ Dispatching /\ c \in heard /\ hit \in Hits
  /\ IF active = c /\ reanchored
     THEN MotionToFocus(hit)
     ELSE UNCHANGED <<focus, constraints, grab>>
  /\ UNCHANGED <<live, buttons, explicit, touches, dragging, locked, running, event>>

-----------------------------------------------------------------------------
(* Touch.  The handlers are told after the forward, so nothing waits for   *)
(* them.  An id may be used again for a point whose up never came.         *)

\* touch_layout_hit
TouchHits == Hits \ {None}

\* touch_point_forwardable, where the point has a client; without one no step.
Forwardable(t) == touches[t] # None

\* What a TouchFrame leaves alone.
Touched == UNCHANGED <<live, seat, constraints, grab, locked, running, event>>

\* on_touch_down.  A touch drag may refuse further points.
OnTouchDown(t, hit) ==
  /\ Dispatching /\ running
  /\ touches[t] \in {None, Nowhere} /\ hit \in TouchHits
  /\ \/ touches' = [touches EXCEPT ![t] = hit]
     \/ drag = "touch" /\ UNCHANGED touches
  /\ Touched /\ UNCHANGED dragging

\* on_touch_motion: off every surface, nothing.
OnTouchMotion(t, hit) ==
  /\ Dispatching /\ running
  /\ Forwardable(t) /\ hit \in TouchHits
  /\ touches' = [touches EXCEPT ![t] = hit]
  /\ Touched /\ UNCHANGED dragging

\* A touch drag ends with its point.
Lifted(gone) ==
  /\ touches' = [t \in TouchIds |-> IF t \in gone THEN None ELSE touches[t]]
  /\ \/ UNCHANGED dragging
     \/ drag = "touch" /\ DragEnds
  /\ Touched

\* on_touch_up
OnTouchUp(t) == /\ Dispatching /\ running
                /\ Forwardable(t)
                /\ Lifted({t})

\* on_touch_cancel: the points of one client go together.
OnTouchCancel(gone) == /\ Dispatching /\ running
                       /\ \E t \in gone : touches[t] # None
                       /\ Lifted(gone)

-----------------------------------------------------------------------------
RunStart == /\ Dispatching /\ ~running
            /\ running' = TRUE
            /\ UNCHANGED <<live, seat, touches, dragging, constraints, grab, locked,
                           event>>

\* The Session goes with its listeners; the Runtime's cells stay.
RunEnd == /\ Dispatching /\ running
          /\ running' = FALSE
          /\ heard' = {} /\ iconHeard' = FALSE
          /\ UNCHANGED <<live, seat, touches, drag, icon, iconTree, constrains,
                         locking, activated, active, grab, locked, event>>

Next == \/ \E c \in Constraints :
             \/ \E s \in Apps, locks \in BOOLEAN : NewConstraint(c, s, locks)
             \/ ConstraintDestroyed(c)
             \/ \E reanchored \in BOOLEAN, hit \in Hits : SetRegion(c, reanchored, hit)
        \/ \E s \in Surfaces : Map(s) \/ Gone(s)
        \/ PopupGrab \/ PopupUngrab
        \/ \E from \in Drags, origin \in Surfaces, withIcon \in BOOLEAN :
             OnRequestStartDrag(from, origin, withIcon)
        \/ IconDestroyed \/ DragCancelled
        \/ \E l \in BOOLEAN : SetLocked(l)
        \/ Motion \/ Axis \/ RouteAxis
        \/ \E e \in {"press", "release"} : Button(e)
        \/ \E hit \in Hits : RouteMotion(hit) \/ RouteButton(hit)
        \/ \E t \in TouchIds :
             \/ \E hit \in TouchHits : OnTouchDown(t, hit) \/ OnTouchMotion(t, hit)
             \/ OnTouchUp(t)
        \/ \E gone \in SUBSET TouchIds : OnTouchCancel(gone)
        \/ RunStart \/ RunEnd

Spec == Init /\ [][Next]_vars

-----------------------------------------------------------------------------
(* Properties *)

TypeOK ==
  /\ live \subseteq Surfaces
  /\ focus \in Surfaces \cup {None} /\ grab \in Surfaces \cup {None}
  /\ buttons \in 0..MaxButtons /\ explicit \in BOOLEAN
  /\ touches \in [TouchIds -> Surfaces \cup {None, Nowhere}]
  /\ drag \in Drags /\ icon \in BOOLEAN /\ iconTree \in BOOLEAN /\ iconHeard \in BOOLEAN
  /\ constrains \in [Constraints -> Surfaces \cup {None}]
  /\ locking \subseteq Constraints
  /\ activated \subseteq Constraints /\ heard \subseteq Constraints
  /\ active \in Constraints \cup {None}
  /\ locked \in BOOLEAN /\ running \in BOOLEAN
  /\ event \in {"none", "motion", "press", "release", "axis"}

\* A recorded grab never names another surface than the one that has the
\* pointer, if any has, and does not outlast the buttons: a surface born at
\* the address of the grabbed one does not inherit the grab.
GrabIsFocus == grab # None => focus \in {grab, None} /\ buttons > 0

\* The surface a press was made on keeps the pointer while a button of that
\* chord is held, for as long as it lives and no explicit grab steps in.
PressKeepsFocus ==
  [][grab # None /\ focus = grab /\ grab \in live' /\ ~explicit /\ ~explicit'
       /\ buttons > 0 /\ buttons' > 0
       => focus' = focus /\ grab' = grab]_vars

\* Under a session lock neither the pointer nor a finger enters an application's
\* surface, also a finger that was down before, and no constraint takes hold of
\* the pointer.
LockTakesPointer ==
  [][locked => /\ focus' \in {focus, None} \cup LockSurfaces
               /\ \A t \in TouchIds :
                    touches'[t] \in {touches[t], None, Nowhere} \cup LockSurfaces
               /\ active' \in {active, None}]_vars

\* What a motion moves as the drag's icon is not freed in the run that recorded
\* it, whether the icon dies with its drag or before it; nor is an icon that is
\* shown forgotten.
IconFollowsDrag == /\ iconHeard => icon /\ iconTree
                   /\ icon => iconTree /\ drag # "none"

\* A constraint whose client was told it is active is the active one: every
\* other was told that it no longer is.
ActivatedIsActive == activated \subseteq {active}

\* A motion that arrives while the session is locked moves over no surface of
\* an application: a normal surface "never receives pointer enter/motion".
NoAppMotionWhileLocked ==
  [][locked /\ event = "motion" /\ event' = "none" /\ ~explicit
       => focus' \notin Apps]_vars
=============================================================================
