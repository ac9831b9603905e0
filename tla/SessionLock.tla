---------------------------- MODULE SessionLock ----------------------------
(***************************************************************************)
(* The ext-session-lock-v1 lifecycle: backend.rs's on_new_session_lock,    *)
(* on_session_lock_new_surface, on_session_lock_surface_commit / _destroy, *)
(* on_session_unlock and on_session_lock_destroy, and the Runtime state    *)
(* they drive.                                                             *)
(*                                                                         *)
(* wlroots and the clients are external: a lock object is taken, gets at   *)
(* most one surface per output, and is destroyed, with its surfaces first, *)
(* by an unlock or by the death of its client.  The Runtime outlives a     *)
(* run; the listeners belong to the run's Session.                         *)
(*                                                                         *)
(* wlroots installs a keyboard grab with every popup grab and every drag   *)
(* (runtime.rs, seat_has_explicit_grab).  A grab may swallow the changes   *)
(* of keyboard focus the Runtime asks for, moves the focus itself, and may *)
(* restore at its end the focus from before it.                            *)
(***************************************************************************)
EXTENDS Naturals

CONSTANTS Outputs,  \* the outputs that can be plugged in
          Locks,    \* the lock objects clients can create
          NoLock,   \* a null lock pointer
          Nobody,   \* keyboard focus: on nothing,
          App,      \* or on an application's surface
          NoGrab,   \* in place of the focus before a grab: none in force
          MaxRuns   \* bound: Backend::run_all calls

ASSUME SessionLockAssumption == /\ NoLock \notin Locks
                                /\ {Nobody, App} \cap (Locks \X Outputs) = {}
                                /\ NoGrab \notin {Nobody, App} \cup (Locks \X Outputs)
                                /\ App # Nobody
                                /\ MaxRuns \in Nat

VARIABLES
  plugged,         \* external: the outputs wlroots has, all in the layout
  lockObj,         \* external: the state of each wlr_session_lock_v1
  surf,            \* external: live lock surfaces, as <<lock, output>>
  mapped,          \* external: those whose wlr_surface is mapped
  focus,           \* external: the seat's keyboard focus
  before,          \* external: the focus the seat's keyboard grab goes
                   \* back to, or NoGrab
  sentLocked,      \* external: `locked` events each lock object was sent
  outputs,         \* RuntimeInner::outputs
  sessionLocked,   \* RuntimeInner::session_locked
  unlockRequested, \* RuntimeInner::session_unlock_requested
  lockedSent,      \* RuntimeInner::session_locked_sent
  sessionLock,     \* RuntimeInner::session_lock
  trees,           \* RuntimeInner::lock_surface_trees: the lock whose
                   \* surface is recorded for an output
  fill,            \* outputs under session_lock_fill; {} when there is none
  inRun, runs,     \* whether a run is on the stack, and how many there were
  lockListeners,   \* Session::session_locks
  surfListeners,   \* Session::lock_surfaces
  unlocking,       \* the lock inside unlock_and_destroy, or NoLock
  told             \* the last session_lock_changed value a handler got

external == <<plugged, lockObj, surf, mapped>>
seat == <<focus, before>>
session == <<inRun, runs, lockListeners, surfListeners>>
lockState == <<sessionLocked, unlockRequested, lockedSent, sessionLock, trees, fill>>
vars == <<external, seat, sentLocked, outputs, lockState, session, unlocking, told>>

NoTrees == [o \in Outputs |-> NoLock]
SurfacesOf(l) == {s \in surf : s[1] = l}

-----------------------------------------------------------------------------
Init == /\ plugged = {} /\ outputs = {}
        /\ lockObj = [l \in Locks |-> "unborn"]
        /\ surf = {} /\ mapped = {}
        /\ focus = Nobody /\ before = NoGrab
        /\ sentLocked = [l \in Locks |-> 0]
        /\ sessionLocked = FALSE /\ unlockRequested = FALSE /\ lockedSent = FALSE
        /\ sessionLock = NoLock
        /\ trees = NoTrees
        /\ fill = {}
        /\ inRun = FALSE /\ runs = 0
        /\ lockListeners = {} /\ surfListeners = {}
        /\ unlocking = NoLock
        /\ told = FALSE

\* wlroots is between two client requests.
AtRest == unlocking = NoLock

-----------------------------------------------------------------------------
(* Runs.  The run's guards clear the output table and drop the session     *)
(* with every listener; the lock state of the Runtime is left alone.       *)

RunStart == /\ ~inRun /\ runs < MaxRuns
            /\ inRun' = TRUE
            /\ runs' = runs + 1
            /\ UNCHANGED <<external, seat, sentLocked, outputs, lockState,
                           lockListeners, surfListeners, unlocking, told>>

RunEnd == /\ inRun /\ AtRest
          /\ inRun' = FALSE
          /\ outputs' = {}
          /\ lockListeners' = {}
          /\ surfListeners' = {}
          /\ UNCHANGED <<external, seat, sentLocked, lockState, runs,
                         unlocking, told>>

-----------------------------------------------------------------------------
(* The seat *)

Grabbed == before # NoGrab

(* wlr_seat_keyboard_notify_enter and _clear_focus: a grab in force decides *)
(* whether anything comes of it.                                           *)
Notify(s) == /\ \/ focus' = s
                \/ Grabbed /\ focus' = focus
             /\ UNCHANGED before

(* A popup's or a drag's grab, with the focus on whatever suits it; or the *)
(* next popup of a chain.                                                  *)
GrabStarts == /\ AtRest
              /\ before' = IF Grabbed THEN before ELSE focus
              /\ focus' \in {focus, Nobody, App}
              /\ UNCHANGED <<external, sentLocked, outputs, lockState, session,
                             unlocking, told>>

GrabEnds == /\ Grabbed
            /\ before' = NoGrab
            /\ focus' \in {focus, before}
            /\ UNCHANGED <<external, sentLocked, outputs, lockState, session,
                           unlocking, told>>

-----------------------------------------------------------------------------
(* Outputs *)

OnNewOutput(o) ==
  /\ AtRest /\ o \notin plugged
  /\ plugged' = plugged \cup {o}
  /\ outputs' = IF inRun THEN outputs \cup {o} ELSE outputs
  /\ UNCHANGED <<lockObj, surf, mapped, seat, sentLocked, lockState, session,
                 unlocking, told>>

(* The surfaces in gone are destroyed by wlroots: on_session_lock_surface_ *)
(* destroy runs for those with a listener, and the seat forgets them.      *)
ForgetSurfaces(gone) ==
  /\ surf' = surf \ gone
  /\ mapped' = mapped \ gone
  /\ surfListeners' = surfListeners \ gone

TreesWithout(gone) ==
  [o \in Outputs |-> IF \E s \in gone \cap surfListeners : s[2] = o
                     THEN NoLock ELSE trees[o]]

Without(s, gone) == IF s \in gone THEN Nobody ELSE s

SeatWithout(gone) == /\ focus' = Without(focus, gone)
                     /\ before' = Without(before, gone)

OnOutputDestroy(o) ==
  /\ AtRest /\ o \in plugged
  /\ plugged' = plugged \ {o}
  /\ outputs' = outputs \ {o}
  /\ LET gone == {s \in surf : s[2] = o} IN
       /\ ForgetSurfaces(gone)
       /\ trees' = TreesWithout(gone)
       /\ SeatWithout(gone)
  /\ UNCHANGED <<lockObj, sentLocked, sessionLocked, unlockRequested, lockedSent,
                 sessionLock, fill, inRun, runs, lockListeners, unlocking, told>>

-----------------------------------------------------------------------------
(* A client takes a lock.                                                  *)

\* A lock is refused while another one is recorded.
Refused(l) == inRun /\ sessionLock # NoLock

(* Create the fill, or move it over the current layout; nothing to do with *)
(* an empty layout.                                                        *)
InstallLockFill == fill' = IF plugged = {} THEN fill ELSE plugged

\* Mutant: keyboard focus stays where it was.
BeginSessionLockKeepingFocus(l) ==
  /\ sessionLocked' = TRUE
  /\ unlockRequested' = FALSE
  /\ lockedSent' = FALSE
  /\ sessionLock' = l
  /\ InstallLockFill
  /\ UNCHANGED seat

BeginSessionLock(l) ==
  /\ sessionLocked' = TRUE
  /\ unlockRequested' = FALSE
  /\ lockedSent' = FALSE
  /\ sessionLock' = l
  /\ Notify(Nobody)
  /\ InstallLockFill

OnNewSessionLock(l) ==
  /\ AtRest /\ lockObj[l] = "unborn"
  /\ \/ /\ Refused(l)
        /\ lockObj' = [lockObj EXCEPT ![l] = "dead"]
        /\ UNCHANGED <<seat, lockState, lockListeners, told>>
     \/ /\ ~Refused(l) /\ inRun
        /\ lockObj' = [lockObj EXCEPT ![l] = "live"]
        /\ BeginSessionLock(l)
        /\ UNCHANGED trees
        /\ lockListeners' = lockListeners \cup {l}
        /\ told' = TRUE
     \/ /\ ~inRun    \* no listener is linked: the object just exists
        /\ lockObj' = [lockObj EXCEPT ![l] = "live"]
        /\ UNCHANGED <<seat, lockState, lockListeners, told>>
  /\ UNCHANGED <<plugged, surf, mapped, sentLocked, outputs, inRun, runs,
                 surfListeners, unlocking>>

-----------------------------------------------------------------------------
(* Lock surfaces *)

(* Record the surface, focus it if it is the first, link its listeners.    *)
(* No later surface is tried when that focus was swallowed.                *)
OnNewLockSurface(l, o) ==
  /\ AtRest /\ lockObj[l] = "live" /\ o \in plugged /\ <<l, o>> \notin surf
  /\ surf' = surf \cup {<<l, o>>}
  /\ \/ /\ l \in lockListeners
        /\ trees' = [trees EXCEPT ![o] = l]
        /\ IF trees = NoTrees THEN Notify(<<l, o>>) ELSE UNCHANGED seat
        /\ surfListeners' = surfListeners \cup {<<l, o>>}
     \/ UNCHANGED <<trees, seat, surfListeners>> \* not heard, or no scene tree
  /\ UNCHANGED <<plugged, lockObj, mapped, sentLocked, outputs, sessionLocked,
                 unlockRequested, lockedSent, sessionLock, fill, inRun, runs,
                 lockListeners, unlocking, told>>

\* Mutant: an output without a lock surface counts as covered.
CoveredWherePresent(mp) ==
  \A o \in outputs : trees[o] # NoLock => <<trees[o], o>> \in mp

AllOutputsLockCovered(mp) ==
  /\ outputs # {}
  /\ \A o \in outputs : trees[o] # NoLock /\ <<trees[o], o>> \in mp

\* Mutant: the send-once flag is not consulted.
SendLockedAgain ==
  IF AllOutputsLockCovered(mapped') /\ sessionLock # NoLock
  THEN /\ sentLocked' = [sentLocked EXCEPT ![sessionLock] = @ + 1]
       /\ lockedSent' = TRUE
  ELSE UNCHANGED <<sentLocked, lockedSent>>

SendLockedIfCovered ==
  IF ~lockedSent /\ AllOutputsLockCovered(mapped') /\ sessionLock # NoLock
  THEN /\ sentLocked' = [sentLocked EXCEPT ![sessionLock] = @ + 1]
       /\ lockedSent' = TRUE
  ELSE UNCHANGED <<sentLocked, lockedSent>>

(* A commit with a buffer maps the surface before the listener runs.       *)
OnLockSurfaceCommit(l, o) ==
  /\ AtRest /\ <<l, o>> \in surf
  /\ mapped' = mapped \cup {<<l, o>>}
  /\ IF <<l, o>> \in surfListeners
     THEN SendLockedIfCovered
     ELSE UNCHANGED <<sentLocked, lockedSent>>
  /\ UNCHANGED <<plugged, lockObj, surf, seat, outputs, sessionLocked,
                 unlockRequested, sessionLock, trees, fill, session, unlocking, told>>

OnLockSurfaceDestroy(l, o) ==
  /\ AtRest /\ <<l, o>> \in surf
  /\ LET gone == {<<l, o>>} IN
       /\ ForgetSurfaces(gone)
       /\ trees' = TreesWithout(gone)
       /\ SeatWithout(gone)
  /\ UNCHANGED <<plugged, lockObj, sentLocked, outputs, sessionLocked,
                 unlockRequested, lockedSent, sessionLock, fill, inRun, runs,
                 lockListeners, unlocking, told>>

-----------------------------------------------------------------------------
(* unlock_and_destroy: wlroots accepts it only after `locked` was sent,    *)
(* emits `unlock`, and then destroys the lock.                             *)

\* Mutant: the black fill outlives the lock.
UnlockSessionKeepingFill ==
  /\ unlockRequested' = TRUE
  /\ trees' = NoTrees
  /\ sessionLocked' = FALSE
  /\ lockedSent' = FALSE
  /\ UNCHANGED fill

UnlockSession ==
  /\ unlockRequested' = TRUE
  /\ trees' = NoTrees
  /\ sessionLocked' = FALSE
  /\ lockedSent' = FALSE
  /\ fill' = {}

OnSessionUnlock(l) ==
  /\ AtRest /\ lockObj[l] = "live" /\ sentLocked[l] > 0
  /\ unlocking' = l
  /\ IF l \in lockListeners
     THEN UnlockSession /\ told' = FALSE
     ELSE UNCHANGED <<unlockRequested, trees, sessionLocked, lockedSent, fill, told>>
  /\ UNCHANGED <<external, seat, sentLocked, outputs, sessionLock, session>>

\* Mutant: a lock's death is taken for an unlock.
TakeLockDestroyUnlocking(gone) ==
  /\ sessionLock' = NoLock
  /\ trees' = NoTrees
  /\ lockedSent' = FALSE
  /\ unlockRequested' = FALSE
  /\ sessionLocked' = FALSE
  /\ SeatWithout(gone)

(* take_lock_destroy_was_unlocked, and the focus pull when the locker died *)
(* without an unlock: session_locked is not touched.                       *)
TakeLockDestroy(gone) ==
  /\ sessionLock' = NoLock
  /\ trees' = NoTrees
  /\ lockedSent' = FALSE
  /\ unlockRequested' = FALSE
  /\ \/ (unlockRequested \/ Grabbed) /\ focus' = Without(focus, gone)
     \/ ~unlockRequested /\ focus' = Nobody
  /\ before' = Without(before, gone)
  /\ UNCHANGED sessionLocked

(* The lock object is freed: its surfaces first, then its own `destroy`.   *)
OnSessionLockDestroy(l) ==
  /\ lockObj[l] = "live"
  /\ unlocking \in {NoLock, l}
  /\ lockObj' = [lockObj EXCEPT ![l] = "dead"]
  /\ unlocking' = NoLock
  /\ ForgetSurfaces(SurfacesOf(l))
  /\ IF l \in lockListeners
     THEN /\ TakeLockDestroy(SurfacesOf(l))
          /\ lockListeners' = lockListeners \ {l}
     ELSE /\ trees' = TreesWithout(SurfacesOf(l))
          /\ SeatWithout(SurfacesOf(l))
          /\ UNCHANGED <<sessionLocked, unlockRequested, lockedSent, sessionLock,
                         lockListeners>>
  /\ UNCHANGED <<plugged, sentLocked, outputs, fill, inRun, runs, told>>

-----------------------------------------------------------------------------
(* The consumer focuses one of its windows, at any time: from a handler,   *)
(* also inside unlock_and_destroy, or between runs.                        *)
FocusToplevelKeyboard ==
  /\ ~sessionLocked
  /\ Notify(App)
  /\ UNCHANGED <<external, sentLocked, outputs, lockState, session, unlocking, told>>

ClearKeyboardFocus ==
  /\ Notify(Nobody)
  /\ UNCHANGED <<external, sentLocked, outputs, lockState, session, unlocking, told>>

-----------------------------------------------------------------------------
Next == \/ RunStart
        \/ RunEnd
        \/ GrabStarts
        \/ GrabEnds
        \/ FocusToplevelKeyboard
        \/ ClearKeyboardFocus
        \/ \E o \in Outputs : OnNewOutput(o) \/ OnOutputDestroy(o)
        \/ \E l \in Locks : \/ OnNewSessionLock(l)
                            \/ OnSessionUnlock(l)
                            \/ OnSessionLockDestroy(l)
        \/ \E l \in Locks, o \in Outputs : \/ OnNewLockSurface(l, o)
                                           \/ OnLockSurfaceCommit(l, o)
                                           \/ OnLockSurfaceDestroy(l, o)

Spec == Init /\ [][Next]_vars

-----------------------------------------------------------------------------
(* Properties *)

TypeOK == /\ plugged \subseteq Outputs
          /\ lockObj \in [Locks -> {"unborn", "live", "dead"}]
          /\ surf \subseteq Locks \X Outputs
          /\ mapped \subseteq surf
          /\ focus \in {Nobody, App} \cup (Locks \X Outputs)
          /\ before \in {Nobody, App, NoGrab} \cup (Locks \X Outputs)
          /\ sentLocked \in [Locks -> Nat]
          /\ outputs \subseteq Outputs
          /\ sessionLocked \in BOOLEAN
          /\ unlockRequested \in BOOLEAN
          /\ lockedSent \in BOOLEAN
          /\ sessionLock \in Locks \cup {NoLock}
          /\ trees \in [Outputs -> Locks \cup {NoLock}]
          /\ fill \subseteq Outputs
          /\ inRun \in BOOLEAN
          /\ runs \in 0..MaxRuns
          /\ lockListeners \subseteq Locks
          /\ surfListeners \subseteq surf
          /\ unlocking \in Locks \cup {NoLock}
          /\ told \in BOOLEAN

\* The session is unlocked only by the client that holds the recorded lock,
\* after that client was told `locked`; the death of a locker, a second
\* lock, an output or a run coming and going never unlock it.
UnlockedOnlyByHolder ==
  [][sessionLocked /\ ~sessionLocked' =>
       /\ unlocking' = sessionLock /\ sessionLock \in lockListeners
       /\ sentLocked[sessionLock] > 0]_vars

\* While the session is locked, no application gets or keeps keyboard focus
\* through anything the Runtime does: a grab of the seat gave it, gave it
\* back, or withheld the clear, and a locker that dies or is replaced with
\* no grab in force ends even that (begin_session_lock,
\* on_session_lock_destroy, the two focus gates).
AppFocused == sessionLocked /\ focus = App

OnlyGrabsDefyLock ==
  [][AppFocused' => \/ Grabbed \/ Grabbed'
                    \/ AppFocused /\ sessionLock' = sessionLock]_vars

\* The handlers listening to a lock are those of the recorded lock: a
\* second client never gets its unlock honoured.
OneLockHeard == lockListeners \subseteq {sessionLock}

\* `locked` is sent at most once per lock object.
LockedSentOnce == \A l \in Locks : sentLocked[l] <= 1

\* `locked` is sent only when the client that gets it has a mapped surface
\* on every output the run knows, and there is one.
LockedMeansCovered ==
  [][\A l \in Locks : sentLocked'[l] # sentLocked[l] =>
       /\ outputs # {}
       /\ \A o \in outputs : <<l, o>> \in mapped']_vars

\* Whenever the coverage check can run, every surface recorded for it is
\* alive: the raw wlr_surface it reads was not freed.
RecordedSurfacesLive ==
  surfListeners # {} =>
    \A o \in Outputs : trees[o] # NoLock => <<trees[o], o>> \in surf

\* The handler's last notification agrees with the security bit.
HandlerKnows == told = sessionLocked

\* The black fill goes with the lock, and a takeover keeps one.
FillGoneWhenUnlocked == ~sessionLocked => fill = {}

\* What the consumer was told and what the scene shows agree with the bit.
LockIsShown == HandlerKnows /\ FillGoneWhenUnlocked

\* The recorded lock is a live object.  runtime.rs relies on it before it
\* calls wlr_session_lock_v1_send_locked.
RecordedLockLive == sessionLock # NoLock => lockObj[sessionLock] = "live"
=============================================================================
