-------------------------- MODULE InputMethodRelay --------------------------
(***************************************************************************)
(* The relay between text-input-v3 and input-method-v2 (an IME): the       *)
(* handlers of backend.rs from on_new_text_input to                        *)
(* on_input_method_commit, and Runtime::relay_keyboard_focus, which every  *)
(* change of the seat's keyboard focus is meant to go through.             *)
(*                                                                         *)
(* External: the clients, their surfaces, the seat's focus pointer, and    *)
(* wlroots' text-input and input-method objects.  The tables of the relay  *)
(* belong to the Runtime and outlive a run; the listeners in them name the *)
(* Session of the run that linked them.  What a listener does once that    *)
(* Session is gone is undefined and has no action here.  The IME's         *)
(* keyboard grab (KeyRouting) and its popups are left out.                 *)
(*                                                                         *)
(* The seat's keyboard grabs are in: wlroots installs one with every popup *)
(* grab and every drag.  A grab may swallow a change of focus the Runtime  *)
(* asks for, after the relay has told the text-inputs of it; and wlroots   *)
(* moves the focus for a grab, and back at its end, without the relay.     *)
(***************************************************************************)
EXTENDS Naturals

CONSTANTS TextInputs,    \* zwp_text_input_v3 objects
          InputMethods,  \* zwp_input_method_v2 objects
          Surfaces,      \* client surfaces
          LockSurfaces,  \* those given the lock-surface role
          Clients,
          ClientOf,      \* the client a surface belongs to
          NoSurface, NoText, NoIme,  \* null pointers
          NoGrab,        \* in place of the focus before a grab: none in force
          MaxRuns        \* bound: Backend::run_all calls

ASSUME RelayAssumption == /\ LockSurfaces \subseteq Surfaces
                          /\ ClientOf \in [Surfaces -> Clients]
                          /\ NoSurface \notin Surfaces
                          /\ NoGrab \notin Surfaces \cup {NoSurface}
                          /\ NoText \notin TextInputs
                          /\ NoIme \notin InputMethods
                          /\ MaxRuns \in Nat

VARIABLES
  surfaces,   \* external: live, mapped surfaces
  focus,      \* external: keyboard_state.focused_surface of the seat
  before,     \* external: the focus the seat's keyboard grab goes back to,
              \* or NoGrab
  entered,    \* external: focused_surface of each wlr_text_input_v3
  enabled,    \* external: text-inputs whose current state is enabled
  imes,       \* external: live input-methods, tracked or not
  imeView,    \* external: the text-input whose state the tracked IME was
              \* last sent; NoText while it is deactivated
  tracked,    \* RuntimeInner::text_inputs
  owner,      \* TextInputEntry::client
  ime,        \* RuntimeInner::input_method
  driver,     \* InputMethodEntry::focused_text_input
  linkedIn,   \* the run whose Session an entry's listeners name; 0: no entry
  locked,     \* RuntimeInner::session_locked
  holder,     \* the run that recorded RuntimeInner::session_lock; 0: null
  covering,   \* the surfaces in RuntimeInner::lock_surface_trees
  run, inRun, \* the number of the current or latest run, whether it goes on
  overlay,    \* the compositor shows what the IME committed
  parted      \* history: the surfaces over which the relay and the seat
              \* parted, because a grab swallowed the change the relay was
              \* told of, or the focus moved without the relay

seat == <<focus, before, parted>>
lockState == <<locked, holder, covering>>
runs == <<run, inRun>>
relay == <<entered, driver, imeView>>
tables == <<tracked, owner, ime, linkedIn>>
vars == <<surfaces, seat, enabled, imes, relay, tables, lockState, runs, overlay>>

-----------------------------------------------------------------------------
Init == /\ surfaces = {}
        /\ focus = NoSurface /\ before = NoGrab /\ parted = {}
        /\ entered = [t \in TextInputs |-> NoSurface]
        /\ enabled = {} /\ imes = {} /\ imeView = NoText
        /\ tracked = {} /\ owner \in [TextInputs -> Clients]
        /\ ime = NoIme /\ driver = NoText
        /\ linkedIn = [x \in TextInputs \cup InputMethods |-> 0]
        /\ locked = FALSE /\ holder = 0 /\ covering = {}
        /\ run = 0 /\ inRun = FALSE
        /\ overlay = FALSE

\* A signal of x reaches a handler whose Session is the running one.
Heard(x) == inRun /\ linkedIn[x] = run

\* So do those of the lock; its listeners go with their Session.
LockHeard == inRun /\ holder = run

RunStart == /\ ~inRun /\ run < MaxRuns
            /\ run' = run + 1
            /\ inRun' = TRUE
            /\ UNCHANGED <<surfaces, seat, enabled, imes, relay, tables,
                           lockState, overlay>>

\* The Session goes; no guard of run_inner clears the relay's tables.
RunEnd == /\ inRun
          /\ inRun' = FALSE
          /\ UNCHANGED <<surfaces, seat, enabled, imes, relay, tables,
                         lockState, run, overlay>>

-----------------------------------------------------------------------------
(* The IME is deactivated, or never was active.                            *)

Deactivate == /\ driver' = NoText
              /\ imeView' = NoText

(* InputMethodDeactivated: the compositor hides what it was showing.       *)
NotifyIfDeactivated ==
  overlay' = (overlay /\ (driver # NoText => driver' # NoText))

-----------------------------------------------------------------------------
(* Keyboard focus.  focus is still the outgoing surface here.              *)

\* Mutant: only the text-input driving the IME is left.
LeavingDriver(new) == {t \in tracked : t = driver /\ entered[t] = focus}

\* The text-inputs entered on the outgoing surface, by its own client.
Leaving(new) == {t \in tracked : /\ focus # new /\ focus # NoSurface
                                 /\ owner[t] = ClientOf[focus]
                                 /\ entered[t] = focus}

Entering(new) == {t \in tracked : /\ focus # new /\ new # NoSurface
                                  /\ owner[t] = ClientOf[new]
                                  /\ entered[t] # new}

\* Mutant: leave is sent and the IME stays active.
RelayKeyboardFocusStillActive(new) ==
  /\ entered' = [t \in TextInputs |->
                   IF t \in Entering(new) THEN new
                   ELSE IF t \in Leaving(new) THEN NoSurface ELSE entered[t]]
  /\ UNCHANGED <<driver, imeView>>

RelayKeyboardFocus(new) ==
  /\ entered' = [t \in TextInputs |->
                   IF t \in Entering(new) THEN new
                   ELSE IF t \in Leaving(new) THEN NoSurface ELSE entered[t]]
  /\ IF driver \in Leaving(new) THEN Deactivate ELSE UNCHANGED <<driver, imeView>>

Grabbed == before # NoGrab

(* wlr_seat_keyboard_notify_enter or _clear_focus, after the relay: a grab *)
(* in force decides whether anything comes of it.  A change that goes      *)
(* through settles what was parted over its two surfaces.                  *)
NotifySeat(new) ==
  /\ \/ focus' = new /\ parted' = parted \ {focus, new}
     \/ /\ Grabbed /\ focus' = focus
        /\ parted' = (parted \cup {focus, new}) \ {NoSurface}
  /\ UNCHANGED before

\* The focus moves and the relay is not told.
FocusAroundRelay(s) ==
  /\ focus' = s
  /\ parted' = IF s = focus THEN parted
                            ELSE (parted \cup {focus, s}) \ {NoSurface}

(* A popup's or a drag's grab, with the focus on whatever suits it; or the *)
(* next popup of a chain.                                                  *)
GrabStarts(s) ==
  /\ s \in surfaces \cup {NoSurface}
  /\ FocusAroundRelay(s)
  /\ before' = IF Grabbed THEN before ELSE focus
  /\ UNCHANGED <<surfaces, enabled, imes, relay, tables, lockState, runs, overlay>>

GrabEnds ==
  /\ Grabbed
  /\ \E s \in {focus, before} : FocusAroundRelay(s)
  /\ before' = NoGrab
  /\ UNCHANGED <<surfaces, enabled, imes, relay, tables, lockState, runs, overlay>>

(* The consumer focuses a toplevel, layer or Xwayland surface, refused     *)
(* under a lock.  It is not notified of the deactivation: it knows that    *)
(* the focus moved.                                                        *)
FocusSurface(s) ==
  /\ ~locked
  /\ s \in surfaces \ LockSurfaces
  /\ focus # s
  /\ RelayKeyboardFocus(s)
  /\ NotifySeat(s)
  /\ NotifyIfDeactivated
  /\ UNCHANGED <<surfaces, enabled, imes, tables, lockState, runs>>

ClearKeyboardFocus == RelayKeyboardFocus(NoSurface) /\ NotifySeat(NoSurface)

ConsumerClearsFocus ==
  /\ focus # NoSurface
  /\ ClearKeyboardFocus
  /\ NotifyIfDeactivated
  /\ UNCHANGED <<surfaces, enabled, imes, tables, lockState, runs>>

-----------------------------------------------------------------------------
(* Surfaces come and go.  wlroots itself nulls the focus of the seat and   *)
(* of the text-inputs when a surface is destroyed; no handler is told.     *)

SurfaceMapped(s) ==
  /\ s \notin surfaces \cup LockSurfaces
  /\ surfaces' = surfaces \cup {s}
  /\ UNCHANGED <<seat, enabled, imes, relay, tables, lockState, runs, overlay>>

SurfaceDestroyed(s) ==
  /\ s \in surfaces
  /\ surfaces' = surfaces \ {s}
  /\ covering' = IF LockHeard THEN covering \ {s} ELSE covering
  /\ focus' = IF focus = s THEN NoSurface ELSE focus
  /\ before' = IF before = s THEN NoSurface ELSE before
  /\ parted' = parted \ {s}
  /\ entered' = [t \in TextInputs |-> IF entered[t] = s THEN NoSurface ELSE entered[t]]
  /\ UNCHANGED <<enabled, imes, driver, imeView, tables, locked, holder, runs, overlay>>

-----------------------------------------------------------------------------
(* The session lock, as far as it moves the focus (SessionLock has the     *)
(* rest).                                                                  *)

\* Mutant: no notification after the focus pull.
OnNewSessionLockSilent ==
  /\ inRun /\ holder = 0
  /\ locked' = TRUE /\ holder' = run
  /\ ClearKeyboardFocus
  /\ UNCHANGED overlay
  /\ UNCHANGED <<surfaces, enabled, imes, tables, covering, runs>>

OnNewSessionLock ==
  /\ inRun /\ holder = 0
  /\ locked' = TRUE /\ holder' = run
  /\ ClearKeyboardFocus
  /\ NotifyIfDeactivated
  /\ UNCHANGED <<surfaces, enabled, imes, tables, covering, runs>>

(* The first lock surface gets the focus, if no grab swallows it, and      *)
(* without the relay.                                                      *)
OnNewLockSurface(s) ==
  /\ LockHeard
  /\ s \in LockSurfaces \ surfaces
  /\ surfaces' = surfaces \cup {s}
  /\ covering' = covering \cup {s}
  /\ \/ covering = {} /\ FocusAroundRelay(s)
     \/ (covering # {} \/ Grabbed) /\ UNCHANGED <<focus, parted>>
  /\ UNCHANGED <<before, enabled, imes, relay, tables, locked, holder, runs, overlay>>

\* The role object goes (its output did, say); the surface stays.
OnLockSurfaceDestroy(s) ==
  /\ LockHeard /\ s \in covering
  /\ covering' = covering \ {s}
  /\ UNCHANGED <<surfaces, seat, enabled, imes, relay, tables, locked, holder,
                 runs, overlay>>

\* unlock_and_destroy: unlock, then the destruction of an unlocked lock.
OnSessionUnlock ==
  /\ LockHeard
  /\ locked' = FALSE /\ holder' = 0 /\ covering' = {}
  /\ UNCHANGED <<surfaces, seat, enabled, imes, relay, tables, runs, overlay>>

\* The locker died: the session stays locked.
OnSessionLockDestroy ==
  /\ LockHeard
  /\ holder' = 0 /\ covering' = {}
  /\ ClearKeyboardFocus
  /\ NotifyIfDeactivated
  /\ UNCHANGED <<surfaces, enabled, imes, tables, locked, runs>>

-----------------------------------------------------------------------------
(* Text-inputs *)

\* Mutant: enter is left to the next change of focus.
EnteredOnCreateNever(c) == NoSurface

\* The surface a new text-input of client c is entered on at once.
EnteredOnCreate(c) ==
  IF focus # NoSurface /\ ClientOf[focus] = c THEN focus ELSE NoSurface

OnNewTextInput(t, c) ==
  /\ inRun /\ t \notin tracked
  /\ tracked' = tracked \cup {t}
  /\ owner' = [owner EXCEPT ![t] = c]
  /\ linkedIn' = [linkedIn EXCEPT ![t] = run]
  /\ entered' = [entered EXCEPT ![t] = EnteredOnCreate(c)]
  /\ UNCHANGED <<surfaces, seat, enabled, imes, driver, imeView, ime, lockState,
                 runs, overlay>>

OnTextInputDestroy(t) ==
  /\ t \in tracked /\ Heard(t)
  /\ tracked' = tracked \ {t}
  /\ enabled' = enabled \ {t}
  /\ entered' = [entered EXCEPT ![t] = NoSurface]
  /\ linkedIn' = [linkedIn EXCEPT ![t] = 0]
  /\ IF driver = t THEN Deactivate ELSE UNCHANGED <<driver, imeView>>
  /\ NotifyIfDeactivated
  /\ UNCHANGED <<surfaces, seat, imes, owner, ime, lockState, runs>>

\* Mutant: the snapshot is taken before the driver is recorded.
ActivateWithOldSnapshot(t) == /\ driver' = t
                              /\ imeView' = driver

(* The driver is recorded, then its committed state is sent to the IME.    *)
Activate(t) == /\ driver' = t
               /\ imeView' = driver'

(* Two null pointers compare equal: a text-input on no surface passes      *)
(* while nothing has the focus.                                            *)
OnTextInputEnable(t) ==
  /\ t \in tracked \ enabled /\ Heard(t)
  /\ enabled' = enabled \cup {t}
  /\ IF entered[t] = focus /\ ime # NoIme THEN Activate(t)
                                          ELSE UNCHANGED <<driver, imeView>>
  /\ UNCHANGED <<surfaces, seat, imes, entered, tables, lockState, runs, overlay>>

OnTextInputDisable(t) ==
  /\ t \in tracked \cap enabled /\ Heard(t)
  /\ enabled' = enabled \ {t}
  /\ IF driver = t THEN Deactivate ELSE UNCHANGED <<driver, imeView>>
  /\ NotifyIfDeactivated
  /\ UNCHANGED <<surfaces, seat, imes, entered, tables, lockState, runs>>

(* New state is forwarded from the driver alone: what the IME sees stays   *)
(* the driver's.                                                           *)
OnTextInputCommit(t) ==
  /\ t \in tracked /\ Heard(t)
  /\ imeView' = IF ime # NoIme /\ driver = t THEN driver ELSE imeView
  /\ UNCHANGED <<surfaces, seat, enabled, imes, entered, driver, tables,
                 lockState, runs, overlay>>

-----------------------------------------------------------------------------
(* Input-methods *)

\* The first one is tracked, any other is refused and linked nowhere.
OnNewInputMethod(i) ==
  /\ inRun /\ i \notin imes
  /\ imes' = imes \cup {i}
  /\ IF ime = NoIme
       THEN /\ ime' = i
            /\ linkedIn' = [linkedIn EXCEPT ![i] = run]
            /\ Deactivate
       ELSE UNCHANGED <<ime, linkedIn, driver, imeView>>
  /\ UNCHANGED <<surfaces, seat, enabled, entered, tracked, owner, lockState,
                 runs, overlay>>

IsCurrent(i) == ime = i

OnInputMethodDestroy(i) ==
  /\ i \in imes /\ (ime = i => Heard(i))
  /\ imes' = imes \ {i}
  /\ IF IsCurrent(i)
       THEN /\ ime' = NoIme
            /\ linkedIn' = [linkedIn EXCEPT ![i] = 0]
            /\ Deactivate
            /\ overlay' = FALSE
       ELSE UNCHANGED <<ime, linkedIn, driver, imeView, overlay>>
  /\ UNCHANGED <<surfaces, seat, enabled, entered, tracked, owner,
                 lockState, runs>>

(* The committed text goes to the driver, and the compositor is told.      *)
OnInputMethodCommit ==
  /\ ime # NoIme /\ Heard(ime)
  /\ driver \in tracked
  /\ overlay' = TRUE
  /\ UNCHANGED <<surfaces, seat, enabled, imes, relay, tables, lockState, runs>>

-----------------------------------------------------------------------------
Next == \/ RunStart \/ RunEnd
        \/ \E s \in Surfaces \cup {NoSurface} : GrabStarts(s)
        \/ GrabEnds
        \/ \E s \in Surfaces : \/ FocusSurface(s)
                               \/ SurfaceMapped(s) \/ SurfaceDestroyed(s)
                               \/ OnNewLockSurface(s) \/ OnLockSurfaceDestroy(s)
        \/ ConsumerClearsFocus
        \/ OnNewSessionLock \/ OnSessionUnlock \/ OnSessionLockDestroy
        \/ \E t \in TextInputs : \/ \E c \in Clients : OnNewTextInput(t, c)
                                 \/ OnTextInputDestroy(t)
                                 \/ OnTextInputEnable(t) \/ OnTextInputDisable(t)
                                 \/ OnTextInputCommit(t)
        \/ \E i \in InputMethods : OnNewInputMethod(i) \/ OnInputMethodDestroy(i)
        \/ OnInputMethodCommit

Spec == Init /\ [][Next]_vars

-----------------------------------------------------------------------------
(* Properties *)

TypeOK == /\ surfaces \subseteq Surfaces
          /\ focus \in surfaces \cup {NoSurface}
          /\ before \in surfaces \cup {NoSurface, NoGrab}
          /\ parted \subseteq surfaces
          /\ entered \in [TextInputs -> surfaces \cup {NoSurface}]
          /\ imes \subseteq InputMethods
          /\ tracked \subseteq TextInputs
          /\ enabled \subseteq tracked
          /\ imeView \in TextInputs \cup {NoText}
          /\ owner \in [TextInputs -> Clients]
          /\ ime \in imes \cup {NoIme}
          /\ driver \in TextInputs \cup {NoText}
          /\ linkedIn \in [TextInputs \cup InputMethods -> 0..MaxRuns]
          /\ locked \in BOOLEAN /\ holder \in 0..MaxRuns
          /\ covering \subseteq LockSurfaces
          /\ run \in 0..MaxRuns /\ inRun \in BOOLEAN
          /\ overlay \in BOOLEAN

(* The back-reference of the IME never outlives what it names: a driver is *)
(* a tracked text-input, enabled, and belongs to a bound input-method      *)
(* (on_text_input_destroy, on_input_method_destroy).                       *)
DriverTracked == driver # NoText => driver \in tracked \cap enabled /\ ime # NoIme

(* The IME was activated, and shown the state of a text-input, exactly     *)
(* while the table names that text-input: every path that clears the       *)
(* back-reference deactivates, no other does.                              *)
ImeSeesDriver == imeView = driver

(* A text-input of the client that has the focus has been sent enter for   *)
(* the focused surface, whatever came first, the focus or the text-input;  *)
(* without it no enable can ever activate the IME.  The exceptions are the *)
(* surfaces over which the relay and the seat have parted, and the next    *)
(* change of focus that goes through the relay and the seat settles them.  *)
FocusedTextInputsEntered ==
  focus \in Surfaces \ parted =>
    \A t \in tracked : owner[t] = ClientOf[focus] => entered[t] = focus

(* No text-input stays entered on a surface that lost the focus, or never  *)
(* got it, but for those the relay and the seat have parted over.          *)
NoneLeftEntered ==
  \A t \in tracked : entered[t] \in {NoSurface, focus} \cup parted

(* What the IME committed is on screen only while the IME is active: every *)
(* deactivation reaches the compositor, through the event, or because it   *)
(* is its own focus call that moved the focus.                             *)
OverlayOnlyWhileActive == overlay => driver # NoText

(* A text-input that is moved off a surface stops driving the IME: the     *)
(* relay deactivates where it leaves (relay_keyboard_focus).  Only the     *)
(* destruction of the surface goes around it, and an enter for the next    *)
(* surface after the relay and the seat have parted over this one.         *)
DriverLeavesWithFocus ==
  [][(driver # NoText /\ entered[driver] \in surfaces' \ parted
        /\ entered'[driver] # entered[driver]) => driver' = NoText]_vars
=============================================================================
