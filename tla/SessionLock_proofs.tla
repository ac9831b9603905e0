------------------------ MODULE SessionLock_proofs -------------------------
(***************************************************************************)
(* Proofs about SessionLock, for any number of outputs, locks and runs.    *)
(***************************************************************************)
EXTENDS SessionLock, TLAPS

\* Without a recorded lock no surface is recorded.
TreesNeedLock == sessionLock = NoLock => trees = NoTrees

\* A surface is listened to only as long as its lock is.
SurfacesFollowLock == \A s \in surfListeners : s[1] \in lockListeners

\* While a lock is listened to, the recorded surfaces are listened to.
RecordedAreHeard ==
  lockListeners # {} =>
    \A o \in Outputs : trees[o] # NoLock => <<trees[o], o>> \in surfListeners

\* A lock that was not born was sent nothing.
UnbornUnsent == \A l \in Locks : lockObj[l] = "unborn" => sentLocked[l] = 0

\* The send-once flag is down only before the recorded lock was sent
\* `locked`, or while that lock is being unlocked.
FlagDownUnsent ==
  ~lockedSent /\ sessionLock # NoLock =>
    \/ sentLocked[sessionLock] = 0
    \/ unlocking = sessionLock /\ sessionLock \in lockListeners

\* A lock is listened to only after its birth.
HeardAreBorn == \A l \in lockListeners : lockObj[l] # "unborn"

Linked == TreesNeedLock /\ SurfacesFollowLock /\ RecordedAreHeard /\ OneLockHeard

\* An unlock that was asked for has taken effect.
UnlockFrees == unlockRequested => ~sessionLocked

IInv == /\ TypeOK
        /\ OneLockHeard
        /\ TreesNeedLock
        /\ SurfacesFollowLock
        /\ RecordedAreHeard
        /\ UnbornUnsent
        /\ FlagDownUnsent
        /\ HeardAreBorn
        /\ LockedSentOnce
        /\ UnlockFrees
        /\ HandlerKnows
        /\ FillGoneWhenUnlocked

-----------------------------------------------------------------------------
(* The helpers *)

LEMMA TreesWithoutType ==
  ASSUME TypeOK, NEW gone
  PROVE  /\ TreesWithout(gone) \in [Outputs -> Locks \cup {NoLock}]
         /\ \A o \in Outputs : TreesWithout(gone)[o] \in {trees[o], NoLock}
         /\ trees = NoTrees => TreesWithout(gone) = NoTrees
  BY DEF TypeOK, TreesWithout, NoTrees

\* Losing surfaces keeps the record within the surfaces listened to.
LEMMA ForgetKeepsRecord ==
  ASSUME TypeOK, RecordedAreHeard, NEW gone, gone \subseteq surf,
         trees' = TreesWithout(gone), surfListeners' = surfListeners \ gone,
         lockListeners' \subseteq lockListeners
  PROVE  RecordedAreHeard'
<1> SUFFICES ASSUME lockListeners' # {}, NEW o \in Outputs, trees'[o] # NoLock
             PROVE  <<trees'[o], o>> \in surfListeners'
  BY DEF RecordedAreHeard
<1>1. trees'[o] = trees[o] /\ ~(\E s \in gone \cap surfListeners : s[2] = o)
  BY DEF TreesWithout
<1>2. <<trees[o], o>> \in surfListeners
  BY <1>1 DEF RecordedAreHeard
<1> QED
  BY <1>1, <1>2

SeatOK(f, b) == /\ f \in {Nobody, App} \cup (Locks \X Outputs)
                /\ b \in {Nobody, App, NoGrab} \cup (Locks \X Outputs)

\* Losing surfaces only takes the focus away.
LEMMA SeatWithoutType ==
  ASSUME TypeOK, NEW gone
  PROVE  SeatOK(Without(focus, gone), Without(before, gone))
  BY DEF TypeOK, Without, SeatOK

LEMMA NotifyType ==
  ASSUME TypeOK, NEW s, s \in {Nobody, App} \cup (Locks \X Outputs), Notify(s)
  PROVE  SeatOK(focus', before')
  BY DEF TypeOK, Notify, SeatOK

\* Coverage of the outputs is coverage by the recorded lock alone.
LEMMA CoveredByHolder ==
  ASSUME IInv, lockListeners # {}, sessionLock # NoLock, NEW mp,
         AllOutputsLockCovered(mp)
  PROVE  /\ outputs # {}
         /\ \A o \in outputs : <<sessionLock, o>> \in mp
<1>1. outputs # {} /\ \A o \in outputs : trees[o] # NoLock /\ <<trees[o], o>> \in mp
  BY DEF AllOutputsLockCovered
<1>2. \A o \in outputs : trees[o] = sessionLock
  <2> SUFFICES ASSUME NEW o \in outputs PROVE trees[o] = sessionLock
    OBVIOUS
  <2>1. o \in Outputs /\ trees[o] # NoLock
    BY <1>1 DEF IInv, TypeOK
  <2>2. <<trees[o], o>> \in surfListeners
    BY <2>1 DEF IInv, RecordedAreHeard
  <2>3. <<trees[o], o>>[1] \in lockListeners
    BY <2>2 DEF IInv, SurfacesFollowLock
  <2> QED
    BY <2>3 DEF IInv, OneLockHeard
<1> QED
  BY <1>1, <1>2

-----------------------------------------------------------------------------
(* The invariant is inductive *)

LEMMA InitInv == Init => IInv
<1> SUFFICES ASSUME Init PROVE IInv
  OBVIOUS
<1> USE DEF Init
<1>1. TypeOK
  <2>1. lockObj \in [Locks -> {"unborn", "live", "dead"}]
    OBVIOUS
  <2>2. sentLocked \in [Locks -> Nat] /\ trees \in [Outputs -> Locks \cup {NoLock}]
    BY DEF NoTrees
  <2>3. runs \in 0..MaxRuns
    BY SessionLockAssumption
  <2> QED
    BY <2>1, <2>2, <2>3 DEF TypeOK
<1>2. Linked
  BY DEF Linked, TreesNeedLock, SurfacesFollowLock, RecordedAreHeard, OneLockHeard
<1>3. UnbornUnsent /\ FlagDownUnsent /\ HeardAreBorn /\ LockedSentOnce
  BY DEF UnbornUnsent, FlagDownUnsent, HeardAreBorn, LockedSentOnce
<1>4. UnlockFrees /\ HandlerKnows /\ FillGoneWhenUnlocked
  BY DEF UnlockFrees, HandlerKnows, FillGoneWhenUnlocked
<1> QED
  BY <1>1, <1>2, <1>3, <1>4 DEF IInv, Linked

LEMMA RunStartInv == IInv /\ RunStart => IInv'
<1> SUFFICES ASSUME IInv, RunStart PROVE IInv'
  OBVIOUS
<1> USE DEF RunStart, external, lockState, seat
<1>1. TypeOK'
  BY SessionLockAssumption DEF IInv, TypeOK
<1>2. Linked'
  BY DEF IInv, Linked, TreesNeedLock, SurfacesFollowLock, RecordedAreHeard, OneLockHeard
<1>3. UnbornUnsent' /\ FlagDownUnsent' /\ HeardAreBorn' /\ LockedSentOnce'
  BY DEF IInv, UnbornUnsent, FlagDownUnsent, HeardAreBorn, LockedSentOnce
<1>4. UnlockFrees' /\ HandlerKnows' /\ FillGoneWhenUnlocked'
  BY DEF IInv, UnlockFrees, HandlerKnows, FillGoneWhenUnlocked
<1> QED
  BY <1>1, <1>2, <1>3, <1>4 DEF IInv, Linked

LEMMA RunEndInv == IInv /\ RunEnd => IInv'
<1> SUFFICES ASSUME IInv, RunEnd PROVE IInv'
  OBVIOUS
<1> USE DEF RunEnd, external, lockState, seat
<1>1. TypeOK'
  BY DEF IInv, TypeOK
<1>2. Linked'
  BY DEF IInv, Linked, TreesNeedLock, SurfacesFollowLock, RecordedAreHeard, OneLockHeard
<1>3. UnbornUnsent' /\ HeardAreBorn' /\ LockedSentOnce'
  BY DEF IInv, UnbornUnsent, HeardAreBorn, LockedSentOnce
<1>4. FlagDownUnsent'
  BY SessionLockAssumption DEF IInv, TypeOK, FlagDownUnsent, AtRest
<1>5. UnlockFrees' /\ HandlerKnows' /\ FillGoneWhenUnlocked'
  BY DEF IInv, UnlockFrees, HandlerKnows, FillGoneWhenUnlocked
<1> QED
  BY <1>1, <1>2, <1>3, <1>4, <1>5 DEF IInv, Linked

SeatMoves == \/ FocusToplevelKeyboard \/ ClearKeyboardFocus
             \/ GrabStarts \/ GrabEnds

LEMMA SeatMovesInv == IInv /\ SeatMoves => IInv'
<1> SUFFICES ASSUME IInv, SeatMoves PROVE IInv'
  OBVIOUS
<1> USE DEF external, lockState, session
<1>1. /\ UNCHANGED <<plugged, lockObj, surf, mapped, sentLocked, outputs,
                     sessionLocked, unlockRequested, lockedSent, sessionLock,
                     trees, fill, inRun, runs, lockListeners, surfListeners,
                     unlocking, told>>
  BY DEF SeatMoves, FocusToplevelKeyboard, ClearKeyboardFocus, GrabStarts, GrabEnds
<1>2. TypeOK'
  <2>1. SeatOK(focus', before')
    <3>1. CASE FocusToplevelKeyboard \/ ClearKeyboardFocus
      BY <3>1, NotifyType DEF IInv, FocusToplevelKeyboard, ClearKeyboardFocus
    <3>2. CASE GrabStarts \/ GrabEnds
      BY <3>2 DEF IInv, TypeOK, SeatOK, GrabStarts, GrabEnds, Grabbed
    <3> QED
      BY <3>1, <3>2 DEF SeatMoves
  <2> QED
    BY <1>1, <2>1 DEF IInv, TypeOK, SeatOK
<1>3. Linked'
  BY <1>1 DEF IInv, Linked, TreesNeedLock, SurfacesFollowLock, RecordedAreHeard, OneLockHeard
<1>4. UnbornUnsent' /\ FlagDownUnsent' /\ HeardAreBorn' /\ LockedSentOnce'
  BY <1>1 DEF IInv, UnbornUnsent, FlagDownUnsent, HeardAreBorn, LockedSentOnce
<1>5. UnlockFrees' /\ HandlerKnows' /\ FillGoneWhenUnlocked'
  BY <1>1 DEF IInv, UnlockFrees, HandlerKnows, FillGoneWhenUnlocked
<1> QED
  BY <1>2, <1>3, <1>4, <1>5 DEF IInv, Linked

LEMMA NewOutputInv ==
  ASSUME NEW o \in Outputs
  PROVE  IInv /\ OnNewOutput(o) => IInv'
<1> SUFFICES ASSUME IInv, OnNewOutput(o) PROVE IInv'
  OBVIOUS
<1> USE DEF OnNewOutput, lockState, session, seat
<1>1. TypeOK'
  BY DEF IInv, TypeOK
<1>2. Linked'
  BY DEF IInv, Linked, TreesNeedLock, SurfacesFollowLock, RecordedAreHeard, OneLockHeard
<1>3. UnbornUnsent' /\ FlagDownUnsent' /\ HeardAreBorn' /\ LockedSentOnce'
  BY DEF IInv, UnbornUnsent, FlagDownUnsent, HeardAreBorn, LockedSentOnce
<1>4. UnlockFrees' /\ HandlerKnows' /\ FillGoneWhenUnlocked'
  BY DEF IInv, UnlockFrees, HandlerKnows, FillGoneWhenUnlocked
<1> QED
  BY <1>1, <1>2, <1>3, <1>4 DEF IInv, Linked

\* The death of surfaces, by an output's or a client's doing.
LEMMA SurfacesGoneInv ==
  ASSUME IInv, NEW gone, gone \subseteq surf, ForgetSurfaces(gone),
         trees' = TreesWithout(gone), SeatWithout(gone),
         plugged' \subseteq Outputs, outputs' \subseteq Outputs,
         lockObj' \in [Locks -> {"unborn", "live", "dead"}],
         \A x \in Locks : lockObj'[x] = "unborn" <=> lockObj[x] = "unborn",
         unlocking' \in Locks \cup {NoLock},
         FlagDownUnsent',
         UNCHANGED <<sentLocked, sessionLocked, unlockRequested,
                     lockedSent, sessionLock, fill, inRun, runs, lockListeners,
                     told>>
  PROVE  IInv'
<1>1. SeatOK(focus', before')
  BY SeatWithoutType DEF IInv, SeatWithout
<1>2. TypeOK'
  BY <1>1, TreesWithoutType DEF IInv, TypeOK, ForgetSurfaces, SeatOK
<1>3. Linked'
  <2>1. TreesNeedLock'
    BY TreesWithoutType DEF IInv, TreesNeedLock, NoTrees
  <2>2. SurfacesFollowLock' /\ OneLockHeard'
    BY DEF IInv, SurfacesFollowLock, OneLockHeard, ForgetSurfaces
  <2>3. RecordedAreHeard'
    BY ForgetKeepsRecord DEF IInv, ForgetSurfaces
  <2> QED
    BY <2>1, <2>2, <2>3 DEF Linked
<1>4. UnbornUnsent' /\ HeardAreBorn' /\ LockedSentOnce'
  BY DEF IInv, TypeOK, UnbornUnsent, HeardAreBorn, OneLockHeard, LockedSentOnce
<1>5. UnlockFrees' /\ HandlerKnows' /\ FillGoneWhenUnlocked'
  BY DEF IInv, UnlockFrees, HandlerKnows, FillGoneWhenUnlocked
<1> QED
  BY <1>2, <1>3, <1>4, <1>5 DEF IInv, Linked

LEMMA OutputDestroyInv ==
  ASSUME NEW o \in Outputs
  PROVE  IInv /\ OnOutputDestroy(o) => IInv'
<1> SUFFICES ASSUME IInv, OnOutputDestroy(o) PROVE IInv'
  OBVIOUS
<1> DEFINE gone == {s \in surf : s[2] = o}
<1>1. gone \subseteq surf /\ ForgetSurfaces(gone)
      /\ trees' = TreesWithout(gone) /\ SeatWithout(gone)
  BY DEF OnOutputDestroy
<1>2. plugged' \subseteq Outputs /\ outputs' \subseteq Outputs
  BY DEF OnOutputDestroy, IInv, TypeOK
<1>3. /\ lockObj' \in [Locks -> {"unborn", "live", "dead"}]
      /\ \A x \in Locks : lockObj'[x] = "unborn" <=> lockObj[x] = "unborn"
      /\ unlocking' \in Locks \cup {NoLock}
      /\ FlagDownUnsent'
  BY DEF OnOutputDestroy, IInv, TypeOK, FlagDownUnsent
<1> HIDE DEF gone
<1> QED
  BY <1>1, <1>2, <1>3, SurfacesGoneInv DEF OnOutputDestroy

LEMMA SurfaceDestroyInv ==
  ASSUME NEW l \in Locks, NEW o \in Outputs
  PROVE  IInv /\ OnLockSurfaceDestroy(l, o) => IInv'
<1> SUFFICES ASSUME IInv, OnLockSurfaceDestroy(l, o) PROVE IInv'
  OBVIOUS
<1> DEFINE gone == {<<l, o>>}
<1>1. gone \subseteq surf /\ ForgetSurfaces(gone)
      /\ trees' = TreesWithout(gone) /\ SeatWithout(gone)
  BY DEF OnLockSurfaceDestroy
<1>2. plugged' \subseteq Outputs /\ outputs' \subseteq Outputs
  BY DEF OnLockSurfaceDestroy, IInv, TypeOK
<1>3. /\ lockObj' \in [Locks -> {"unborn", "live", "dead"}]
      /\ \A x \in Locks : lockObj'[x] = "unborn" <=> lockObj[x] = "unborn"
      /\ unlocking' \in Locks \cup {NoLock}
      /\ FlagDownUnsent'
  BY DEF OnLockSurfaceDestroy, IInv, TypeOK, FlagDownUnsent
<1> HIDE DEF gone
<1> QED
  BY <1>1, <1>2, <1>3, SurfacesGoneInv DEF OnLockSurfaceDestroy

LEMMA NewLockInv ==
  ASSUME NEW l \in Locks
  PROVE  IInv /\ OnNewSessionLock(l) => IInv'
<1> SUFFICES ASSUME IInv, OnNewSessionLock(l) PROVE IInv'
  OBVIOUS
<1> DEFINE Same == /\ UNCHANGED <<seat, lockState, lockListeners, told>>
                   /\ lockObj' \in {[lockObj EXCEPT ![l] = "dead"],
                                    [lockObj EXCEPT ![l] = "live"]}
<1> DEFINE Taken == /\ ~Refused(l) /\ inRun
                    /\ lockObj' = [lockObj EXCEPT ![l] = "live"]
                    /\ BeginSessionLock(l)
                    /\ UNCHANGED trees
                    /\ lockListeners' = lockListeners \cup {l}
                    /\ told' = TRUE
<1>1. /\ Same \/ Taken
      /\ lockObj[l] = "unborn"
      /\ UNCHANGED <<plugged, surf, mapped, sentLocked, outputs, inRun, runs,
                     surfListeners, unlocking>>
  BY DEF OnNewSessionLock
<1>2. CASE Same
  <2>1. TypeOK'
    BY <1>1, <1>2 DEF IInv, TypeOK, lockState, seat
  <2>2. Linked'
    BY <1>1, <1>2 DEF IInv, Linked, TreesNeedLock, SurfacesFollowLock,
                      RecordedAreHeard, OneLockHeard, lockState
  <2>3. UnbornUnsent' /\ HeardAreBorn'
    BY <1>1, <1>2 DEF IInv, TypeOK, UnbornUnsent, HeardAreBorn
  <2>4. FlagDownUnsent' /\ LockedSentOnce'
    BY <1>1, <1>2 DEF IInv, FlagDownUnsent, LockedSentOnce, lockState
  <2>5. UnlockFrees' /\ HandlerKnows' /\ FillGoneWhenUnlocked'
    BY <1>1, <1>2 DEF IInv, UnlockFrees, HandlerKnows,
                      FillGoneWhenUnlocked, lockState
  <2> QED
    BY <2>1, <2>2, <2>3, <2>4, <2>5 DEF IInv, Linked
<1>3. CASE Taken
  <2>1. /\ sessionLock = NoLock
        /\ sessionLocked' = TRUE /\ unlockRequested' = FALSE /\ lockedSent' = FALSE
        /\ sessionLock' = l /\ SeatOK(focus', before')
        /\ lockListeners' = lockListeners \cup {l} /\ trees' = trees /\ told' = TRUE
        /\ lockObj' = [lockObj EXCEPT ![l] = "live"]
        /\ fill' \in {fill, plugged}
    BY <1>3, NotifyType DEF IInv, Refused, BeginSessionLock, InstallLockFill
  <2>2. lockListeners = {} /\ surfListeners = {} /\ trees = NoTrees
    <3>1. lockListeners = {}
      BY <2>1, SessionLockAssumption DEF IInv, TypeOK, OneLockHeard
    <3> QED
      BY <3>1, <2>1 DEF IInv, SurfacesFollowLock, TreesNeedLock
  <2>3. TypeOK'
    BY <1>1, <2>1 DEF IInv, TypeOK, SeatOK
  <2>4. Linked'
    BY <1>1, <2>1, <2>2, SessionLockAssumption
       DEF Linked, TreesNeedLock, SurfacesFollowLock, RecordedAreHeard,
           OneLockHeard, NoTrees
  <2>5. UnbornUnsent' /\ HeardAreBorn'
    BY <1>1, <2>1, <2>2 DEF IInv, TypeOK, UnbornUnsent, HeardAreBorn
  <2>6. FlagDownUnsent' /\ LockedSentOnce'
    BY <1>1, <2>1 DEF IInv, UnbornUnsent, FlagDownUnsent, LockedSentOnce
  <2>7. UnlockFrees' /\ HandlerKnows' /\ FillGoneWhenUnlocked'
    BY <2>1 DEF UnlockFrees, HandlerKnows, FillGoneWhenUnlocked
  <2> QED
    BY <2>3, <2>4, <2>5, <2>6, <2>7 DEF IInv, Linked
<1> QED
  BY <1>1, <1>2, <1>3

LEMMA NewSurfaceInv ==
  ASSUME NEW l \in Locks, NEW o \in Outputs
  PROVE  IInv /\ OnNewLockSurface(l, o) => IInv'
<1> SUFFICES ASSUME IInv, OnNewLockSurface(l, o) PROVE IInv'
  OBVIOUS
<1> DEFINE Recorded == /\ l \in lockListeners
                       /\ trees' = [trees EXCEPT ![o] = l]
                       /\ IF trees = NoTrees THEN Notify(<<l, o>>) ELSE UNCHANGED seat
                       /\ surfListeners' = surfListeners \cup {<<l, o>>}
<1>1. /\ Recorded \/ UNCHANGED <<trees, seat, surfListeners>>
      /\ surf' = surf \cup {<<l, o>>}
      /\ UNCHANGED <<plugged, lockObj, mapped, sentLocked, outputs, sessionLocked,
                     unlockRequested, lockedSent, sessionLock, fill, inRun, runs,
                     lockListeners, unlocking, told>>
  BY DEF OnNewLockSurface
<1>2. SeatOK(focus', before')
  <2>1. Notify(<<l, o>>) => SeatOK(focus', before')
    BY NotifyType DEF IInv
  <2>2. UNCHANGED seat => SeatOK(focus', before')
    BY DEF IInv, TypeOK, SeatOK, seat
  <2> QED
    BY <1>1, <2>1, <2>2 DEF seat
<1>3. TypeOK'
  <2>1. trees' \in [Outputs -> Locks \cup {NoLock}] /\ surfListeners' \subseteq surf'
    BY <1>1 DEF IInv, TypeOK
  <2> QED
    BY <1>1, <1>2, <2>1 DEF IInv, TypeOK, SeatOK
<1>4. Linked'
  <2>1. TreesNeedLock'
    <3>1. Recorded => sessionLock # NoLock
      BY SessionLockAssumption DEF IInv, OneLockHeard
    <3> QED
      BY <1>1, <3>1 DEF IInv, TreesNeedLock, NoTrees
  <2>2. SurfacesFollowLock' /\ OneLockHeard'
    BY <1>1 DEF IInv, SurfacesFollowLock, OneLockHeard
  <2>3. RecordedAreHeard'
    BY <1>1 DEF IInv, TypeOK, RecordedAreHeard
  <2> QED
    BY <2>1, <2>2, <2>3 DEF Linked
<1>5. UnbornUnsent' /\ FlagDownUnsent' /\ HeardAreBorn' /\ LockedSentOnce'
  BY <1>1 DEF IInv, UnbornUnsent, FlagDownUnsent, HeardAreBorn, LockedSentOnce
<1>6. UnlockFrees' /\ HandlerKnows' /\ FillGoneWhenUnlocked'
  BY <1>1, <1>2 DEF IInv, UnlockFrees, HandlerKnows, FillGoneWhenUnlocked
<1> QED
  BY <1>3, <1>4, <1>5, <1>6 DEF IInv, Linked

LEMMA CommitInv ==
  ASSUME NEW l \in Locks, NEW o \in Outputs
  PROVE  IInv /\ OnLockSurfaceCommit(l, o) => IInv'
<1> SUFFICES ASSUME IInv, OnLockSurfaceCommit(l, o) PROVE IInv'
  OBVIOUS
<1> DEFINE Sent == /\ ~lockedSent /\ sessionLock # NoLock
                   /\ sentLocked' = [sentLocked EXCEPT ![sessionLock] = @ + 1]
                   /\ lockedSent' = TRUE
<1>1. /\ Sent \/ UNCHANGED <<sentLocked, lockedSent>>
      /\ mapped' = mapped \cup {<<l, o>>} /\ <<l, o>> \in surf
      /\ AtRest
      /\ UNCHANGED <<plugged, lockObj, surf, focus, before, outputs, sessionLocked,
                     unlockRequested, sessionLock, trees, fill, inRun, runs,
                     lockListeners, surfListeners, unlocking, told>>
  BY DEF OnLockSurfaceCommit, SendLockedIfCovered, session, seat
<1>2. Sent => /\ sessionLock \in Locks /\ sentLocked[sessionLock] = 0
              /\ <<l, o>> \in surfListeners /\ lockListeners # {}
              /\ sessionLock \in lockListeners
  <2> SUFFICES ASSUME Sent
               PROVE  /\ sessionLock \in Locks /\ sentLocked[sessionLock] = 0
                      /\ <<l, o>> \in surfListeners /\ lockListeners # {}
                      /\ sessionLock \in lockListeners
    OBVIOUS
  <2>1. sessionLock \in Locks /\ sentLocked[sessionLock] = 0
    BY <1>1 DEF IInv, TypeOK, FlagDownUnsent, AtRest
  <2>2. <<l, o>> \in surfListeners
    BY DEF OnLockSurfaceCommit
  <2>3. <<l, o>>[1] \in lockListeners
    BY <2>2 DEF IInv, SurfacesFollowLock
  <2>4. sessionLock \in lockListeners
    BY <2>3 DEF IInv, OneLockHeard
  <2> QED
    BY <2>1, <2>2, <2>3, <2>4
<1>3. TypeOK'
  <2>1. mapped' \subseteq surf'
    BY <1>1 DEF IInv, TypeOK
  <2>2. sentLocked' \in [Locks -> Nat] /\ lockedSent' \in BOOLEAN
    <3>1. CASE Sent
      <4>1. sentLocked \in [Locks -> Nat] /\ sentLocked[sessionLock] \in Nat
        BY <3>1, <1>2 DEF IInv, TypeOK
      <4>2. sentLocked[sessionLock] + 1 \in Nat
        BY <4>1
      <4>3. sentLocked' = [sentLocked EXCEPT ![sessionLock] = sentLocked[sessionLock] + 1]
        BY <3>1
      <4>4. sentLocked' \in [Locks -> Nat]
        BY <4>1, <4>2, <4>3
      <4>5. lockedSent' \in BOOLEAN
        BY <3>1
      <4> QED
        BY <4>4, <4>5
    <3>2. CASE UNCHANGED <<sentLocked, lockedSent>>
      BY <3>2 DEF IInv, TypeOK
    <3> QED
      BY <1>1, <3>1, <3>2
  <2> QED
    BY <1>1, <2>1, <2>2 DEF IInv, TypeOK
<1>4. Linked'
  BY <1>1 DEF IInv, Linked, TreesNeedLock, SurfacesFollowLock, RecordedAreHeard, OneLockHeard
<1>5. UnbornUnsent' /\ HeardAreBorn'
  BY <1>1, <1>2 DEF IInv, TypeOK, UnbornUnsent, HeardAreBorn
<1>6. FlagDownUnsent' /\ LockedSentOnce'
  BY <1>1, <1>2 DEF IInv, TypeOK, FlagDownUnsent, LockedSentOnce
<1>7. UnlockFrees' /\ HandlerKnows' /\ FillGoneWhenUnlocked'
  BY <1>1 DEF IInv, UnlockFrees, HandlerKnows, FillGoneWhenUnlocked
<1> QED
  BY <1>3, <1>4, <1>5, <1>6, <1>7 DEF IInv, Linked

LEMMA UnlockInv ==
  ASSUME NEW l \in Locks
  PROVE  IInv /\ OnSessionUnlock(l) => IInv'
<1> SUFFICES ASSUME IInv, OnSessionUnlock(l) PROVE IInv'
  OBVIOUS
<1> USE DEF external, session, seat
<1>1. CASE l \in lockListeners
  <2>1. /\ unlocking' = l /\ sessionLock = l
        /\ unlockRequested' = TRUE /\ trees' = NoTrees /\ sessionLocked' = FALSE
        /\ lockedSent' = FALSE /\ fill' = {} /\ told' = FALSE
        /\ UNCHANGED <<plugged, lockObj, surf, mapped, focus, before, sentLocked, outputs,
                       sessionLock, inRun, runs, lockListeners, surfListeners>>
    BY <1>1 DEF OnSessionUnlock, UnlockSession, IInv, OneLockHeard
  <2>2. TypeOK'
    BY <2>1 DEF IInv, TypeOK, NoTrees
  <2>3. Linked'
    BY <2>1 DEF IInv, Linked, TreesNeedLock, SurfacesFollowLock, RecordedAreHeard,
                OneLockHeard, NoTrees
  <2>4. UnbornUnsent' /\ FlagDownUnsent' /\ HeardAreBorn' /\ LockedSentOnce'
    BY <1>1, <2>1 DEF IInv, UnbornUnsent, FlagDownUnsent, HeardAreBorn, LockedSentOnce
  <2>5. UnlockFrees' /\ HandlerKnows' /\ FillGoneWhenUnlocked'
    BY <2>1 DEF UnlockFrees, HandlerKnows, FillGoneWhenUnlocked
  <2> QED
    BY <2>2, <2>3, <2>4, <2>5 DEF IInv, Linked
<1>2. CASE l \notin lockListeners
  <2>1. /\ unlocking = NoLock /\ unlocking' = l
        /\ UNCHANGED <<plugged, lockObj, surf, mapped, focus, before, sentLocked, outputs,
                       sessionLock, inRun, runs, lockListeners, surfListeners,
                       unlockRequested, trees, sessionLocked, lockedSent, fill, told>>
    BY <1>2 DEF OnSessionUnlock, AtRest
  <2>2. TypeOK'
    BY <2>1 DEF IInv, TypeOK
  <2>3. Linked'
    BY <2>1 DEF IInv, Linked, TreesNeedLock, SurfacesFollowLock, RecordedAreHeard, OneLockHeard
  <2>4. UnbornUnsent' /\ HeardAreBorn' /\ LockedSentOnce'
    BY <2>1 DEF IInv, UnbornUnsent, HeardAreBorn, LockedSentOnce
  <2>5. FlagDownUnsent'
    BY <2>1 DEF IInv, FlagDownUnsent
  <2>6. UnlockFrees' /\ HandlerKnows' /\ FillGoneWhenUnlocked'
    BY <2>1 DEF IInv, UnlockFrees, HandlerKnows, FillGoneWhenUnlocked
  <2> QED
    BY <2>2, <2>3, <2>4, <2>5, <2>6 DEF IInv, Linked
<1> QED
  BY <1>1, <1>2

LEMMA LockDestroyInv ==
  ASSUME NEW l \in Locks
  PROVE  IInv /\ OnSessionLockDestroy(l) => IInv'
<1> SUFFICES ASSUME IInv, OnSessionLockDestroy(l) PROVE IInv'
  OBVIOUS
<1> DEFINE gone == SurfacesOf(l)
<1>1. /\ lockObj[l] = "live" /\ unlocking \in {NoLock, l}
      /\ lockObj' = [lockObj EXCEPT ![l] = "dead"] /\ unlocking' = NoLock
      /\ ForgetSurfaces(gone)
      /\ UNCHANGED <<plugged, sentLocked, outputs, fill, inRun, runs, told>>
  BY DEF OnSessionLockDestroy
<1>2. gone \subseteq surf
  BY DEF SurfacesOf
<1>3. /\ lockObj' \in [Locks -> {"unborn", "live", "dead"}]
      /\ \A x \in Locks : lockObj'[x] = "unborn" <=> lockObj[x] = "unborn"
  BY <1>1 DEF IInv, TypeOK
<1>4. CASE l \in lockListeners
  <2>1. /\ sessionLock' = NoLock /\ trees' = NoTrees
        /\ lockedSent' = FALSE /\ unlockRequested' = FALSE
        /\ focus' \in {Without(focus, gone), Nobody} /\ before' = Without(before, gone)
        /\ sessionLocked' = sessionLocked
        /\ lockListeners' = lockListeners \ {l}
    BY <1>4 DEF OnSessionLockDestroy, TakeLockDestroy
  <2>2. lockListeners' = {} /\ surfListeners' = {}
    <3>1. lockListeners' = {}
      BY <2>1, <1>4 DEF IInv, OneLockHeard
    <3>2. \A s \in surfListeners : s \in gone
      BY <1>4 DEF IInv, TypeOK, OneLockHeard, SurfacesFollowLock, SurfacesOf
    <3> QED
      BY <3>1, <3>2, <1>1 DEF ForgetSurfaces
  <2>3. SeatOK(focus', before')
    BY <2>1, SeatWithoutType DEF IInv, SeatOK
  <2>4. TypeOK'
    <3>1. surf' \subseteq surf /\ mapped' \subseteq surf'
      BY <1>1 DEF ForgetSurfaces, IInv, TypeOK
    <3>2. trees' \in [Outputs -> Locks \cup {NoLock}]
      BY <2>1 DEF NoTrees
    <3> QED
      BY <1>1, <1>3, <2>1, <2>2, <2>3, <3>1, <3>2 DEF IInv, TypeOK, SeatOK
  <2>5. Linked'
    BY <2>1, <2>2 DEF Linked, TreesNeedLock, SurfacesFollowLock, RecordedAreHeard,
                      OneLockHeard, NoTrees
  <2>6. UnbornUnsent' /\ FlagDownUnsent' /\ HeardAreBorn' /\ LockedSentOnce'
    BY <1>1, <1>3, <2>1, <2>2 DEF IInv, UnbornUnsent, FlagDownUnsent, HeardAreBorn,
                                  LockedSentOnce
  <2>7. UnlockFrees' /\ HandlerKnows' /\ FillGoneWhenUnlocked'
    BY <1>1, <2>1, <2>3 DEF IInv, UnlockFrees, HandlerKnows,
                            FillGoneWhenUnlocked
  <2> QED
    BY <2>4, <2>5, <2>6, <2>7 DEF IInv, Linked
<1>5. CASE l \notin lockListeners
  <2>1. /\ trees' = TreesWithout(gone) /\ SeatWithout(gone)
        /\ UNCHANGED <<sessionLocked, unlockRequested, lockedSent, sessionLock,
                       lockListeners>>
    BY <1>5 DEF OnSessionLockDestroy
  <2>2. FlagDownUnsent'
    <3> SUFFICES ASSUME ~lockedSent', sessionLock' # NoLock
                 PROVE  sentLocked'[sessionLock'] = 0
      BY DEF FlagDownUnsent
    <3>1. \/ sentLocked[sessionLock] = 0
          \/ unlocking = sessionLock /\ sessionLock \in lockListeners
      BY <2>1 DEF IInv, FlagDownUnsent
    <3>2. ~(unlocking = sessionLock /\ sessionLock \in lockListeners)
      BY <1>1, <1>5, <2>1
    <3> QED
      BY <3>1, <3>2, <2>1, <1>1
  <2>3. plugged' \subseteq Outputs /\ outputs' \subseteq Outputs
        /\ unlocking' \in Locks \cup {NoLock}
    BY <1>1 DEF IInv, TypeOK
  <2> HIDE DEF gone
  <2> QED
    BY <1>1, <1>2, <1>3, <2>1, <2>2, <2>3, SurfacesGoneInv
<1> QED
  BY <1>4, <1>5

LEMMA NextInv == IInv /\ [Next]_vars => IInv'
<1> SUFFICES ASSUME IInv, [Next]_vars PROVE IInv'
  OBVIOUS
<1>1. CASE RunStart
  BY <1>1, RunStartInv
<1>2. CASE RunEnd
  BY <1>2, RunEndInv
<1>3. CASE SeatMoves
  BY <1>3, SeatMovesInv
<1>4. CASE \E o \in Outputs : OnNewOutput(o) \/ OnOutputDestroy(o)
  BY <1>4, NewOutputInv, OutputDestroyInv
<1>5. CASE \E l \in Locks : \/ OnNewSessionLock(l)
                            \/ OnSessionUnlock(l)
                            \/ OnSessionLockDestroy(l)
  BY <1>5, NewLockInv, UnlockInv, LockDestroyInv
<1>6. CASE \E l \in Locks, o \in Outputs : \/ OnNewLockSurface(l, o)
                                           \/ OnLockSurfaceCommit(l, o)
                                           \/ OnLockSurfaceDestroy(l, o)
  BY <1>6, NewSurfaceInv, CommitInv, SurfaceDestroyInv
<1>7. CASE UNCHANGED vars
  <2> USE <1>7 DEF vars, external, seat, session, lockState
  <2>1. TypeOK'
    BY DEF IInv, TypeOK
  <2>2. Linked'
    BY DEF IInv, Linked, TreesNeedLock, SurfacesFollowLock, RecordedAreHeard, OneLockHeard
  <2>3. UnbornUnsent' /\ FlagDownUnsent' /\ HeardAreBorn' /\ LockedSentOnce'
    BY DEF IInv, UnbornUnsent, FlagDownUnsent, HeardAreBorn, LockedSentOnce
  <2>4. UnlockFrees' /\ HandlerKnows' /\ FillGoneWhenUnlocked'
    BY DEF IInv, UnlockFrees, HandlerKnows, FillGoneWhenUnlocked
  <2> QED
    BY <2>1, <2>2, <2>3, <2>4 DEF IInv, Linked
<1> QED
  BY <1>1, <1>2, <1>3, <1>4, <1>5, <1>6, <1>7 DEF Next, SeatMoves

-----------------------------------------------------------------------------
(* Theorems *)

\* Every reachable state satisfies the inductive invariant.
THEOREM Invariant == Spec => []IInv
<1>1. Init => IInv
  BY InitInv
<1>2. IInv /\ [Next]_vars => IInv'
  BY NextInv
<1> QED
  BY <1>1, <1>2, PTL DEF Spec

\* Type correctness of the lock state of RuntimeInner.
THEOREM TypeCorrect == Spec => []TypeOK
<1>1. IInv => TypeOK
  BY DEF IInv
<1> QED
  BY <1>1, Invariant, PTL

\* While the session is locked, only the seat's keyboard grabs give an
\* application the focus or leave it there past a lock taken or lost, for
\* any number of clients, outputs, crashes and takeovers.
THEOREM OnlyGrabsGiveFocus == Spec => OnlyGrabsDefyLock
<1> DEFINE Gated == AppFocused' => \/ Grabbed \/ Grabbed'
                                   \/ AppFocused /\ sessionLock' = sessionLock
<1>1. IInv /\ [Next]_vars => [Gated]_vars
  <2> SUFFICES ASSUME IInv, Next, AppFocused', ~Grabbed, ~Grabbed'
               PROVE  AppFocused /\ sessionLock' = sessionLock
    OBVIOUS
  <2> DEFINE Kept == focus' = focus /\ sessionLocked' = sessionLocked
                     /\ sessionLock' = sessionLock
  <2>1. Kept => AppFocused /\ sessionLock' = sessionLock
    BY DEF AppFocused
  <2>2. Nobody # App /\ \A l \in Locks, o \in Outputs : <<l, o>> # App
    BY SessionLockAssumption
  <2>3. focus' = App /\ sessionLocked'
    BY DEF AppFocused
  <2>4. \A s : Notify(s) => s = App
    BY <2>3 DEF Notify
  <2>5. \A gone : focus' = Without(focus, gone) => focus' = focus
    BY <2>2, <2>3 DEF Without
  <2> SUFFICES Kept
    BY <2>1
  <2>6. CASE RunStart \/ RunEnd
    BY <2>6 DEF RunStart, RunEnd, seat, lockState
  <2>7. CASE SeatMoves
    <3>1. ~GrabStarts /\ ~GrabEnds
      BY SessionLockAssumption DEF IInv, TypeOK, GrabStarts, GrabEnds, Grabbed
    <3> QED
      BY <2>2, <2>3, <2>4, <2>7, <3>1 DEF SeatMoves, FocusToplevelKeyboard,
         ClearKeyboardFocus, lockState
  <2>8. CASE \E o \in Outputs : OnNewOutput(o) \/ OnOutputDestroy(o)
    BY <2>5, <2>8 DEF OnNewOutput, OnOutputDestroy, SeatWithout, seat, lockState
  <2>9. ASSUME NEW l \in Locks, OnNewSessionLock(l)
        PROVE  Kept
    BY <2>2, <2>4, <2>9 DEF OnNewSessionLock, BeginSessionLock, seat, lockState
  <2>10. ASSUME NEW l \in Locks, OnSessionUnlock(l)
         PROVE  Kept
    BY <2>3, <2>10 DEF OnSessionUnlock, UnlockSession, seat
  <2>11. ASSUME NEW l \in Locks, OnSessionLockDestroy(l)
         PROVE  Kept
    <3>1. CASE l \in lockListeners
      <4>1. unlockRequested \/ focus' = Nobody
        BY <2>11, <3>1 DEF OnSessionLockDestroy, TakeLockDestroy
      <4>2. sessionLocked' = sessionLocked
        BY <2>11, <3>1 DEF OnSessionLockDestroy, TakeLockDestroy
      <4> QED
        BY <2>2, <2>3, <4>1, <4>2 DEF IInv, UnlockFrees
    <3>2. CASE l \notin lockListeners
      BY <2>5, <2>11, <3>2 DEF OnSessionLockDestroy, SeatWithout
    <3> QED
      BY <3>1, <3>2
  <2>12. ASSUME NEW l \in Locks, NEW o \in Outputs,
                \/ OnNewLockSurface(l, o)
                \/ OnLockSurfaceCommit(l, o)
                \/ OnLockSurfaceDestroy(l, o)
         PROVE  Kept
    BY <2>2, <2>4, <2>5, <2>12
       DEF OnNewLockSurface, OnLockSurfaceCommit, OnLockSurfaceDestroy,
           SeatWithout, seat
  <2> QED
    BY <2>6, <2>7, <2>8, <2>9, <2>10, <2>11, <2>12 DEF Next, SeatMoves
<1>2. Spec => [][Gated]_vars
  BY <1>1, Invariant, PTL DEF Spec
<1> QED
  BY <1>2 DEF OnlyGrabsDefyLock

\* Only the recorded lock is listened to, so the refusal of a second lock
\* in on_new_session_lock leaves one client that can unlock.
THEOREM OneHolder == Spec => []OneLockHeard
<1>1. IInv => OneLockHeard
  BY DEF IInv
<1> QED
  BY <1>1, Invariant, PTL

\* wlr_session_lock_v1_send_locked is called at most once per lock, as
\* wlroots asserts.
THEOREM SentAtMostOnce == Spec => []LockedSentOnce
<1>1. IInv => LockedSentOnce
  BY DEF IInv
<1> QED
  BY <1>1, Invariant, PTL

\* all_outputs_lock_covered dereferences live surfaces only.
THEOREM CoverageReadsLiveSurfaces == Spec => []RecordedSurfacesLive
<1>1. IInv => RecordedSurfacesLive
  <2> SUFFICES ASSUME IInv, surfListeners # {}, NEW o \in Outputs, trees[o] # NoLock
               PROVE  <<trees[o], o>> \in surf
    BY DEF RecordedSurfacesLive
  <2>1. lockListeners # {}
    BY DEF IInv, SurfacesFollowLock
  <2>2. <<trees[o], o>> \in surfListeners
    BY <2>1 DEF IInv, RecordedAreHeard
  <2> QED
    BY <2>2 DEF IInv, TypeOK
<1> QED
  BY <1>1, Invariant, PTL

\* session_lock_changed tells the handler what session_locked holds, and the
\* fill goes with the lock.
THEOREM LockShown == Spec => []LockIsShown
<1>1. IInv => LockIsShown
  BY DEF IInv, LockIsShown
<1> QED
  BY <1>1, Invariant, PTL

\* `locked` goes to a client whose own surfaces cover every output.
THEOREM LockedOnlyWhenCovered == Spec => LockedMeansCovered
<1> DEFINE Covered == \A l \in Locks : sentLocked'[l] # sentLocked[l] =>
                        /\ outputs # {}
                        /\ \A o \in outputs : <<l, o>> \in mapped'
<1>1. IInv /\ [Next]_vars => [Covered]_vars
  <2> SUFFICES ASSUME IInv, Next, NEW k \in Locks, sentLocked'[k] # sentLocked[k]
               PROVE  outputs # {} /\ \A o \in outputs : <<k, o>> \in mapped'
    OBVIOUS
  <2>1. PICK l \in Locks, o \in Outputs : OnLockSurfaceCommit(l, o)
    BY DEF Next, RunStart, RunEnd, FocusToplevelKeyboard, ClearKeyboardFocus,
           GrabStarts, GrabEnds,
           OnNewOutput, OnOutputDestroy, OnNewSessionLock, OnSessionUnlock,
           OnSessionLockDestroy, OnNewLockSurface, OnLockSurfaceDestroy
  <2>2. /\ <<l, o>> \in surfListeners
        /\ AllOutputsLockCovered(mapped') /\ sessionLock # NoLock
        /\ sentLocked' = [sentLocked EXCEPT ![sessionLock] = @ + 1]
    BY <2>1 DEF OnLockSurfaceCommit, SendLockedIfCovered
  <2>3. lockListeners # {}
    BY <2>2 DEF IInv, SurfacesFollowLock
  <2>4. outputs # {} /\ \A p \in outputs : <<sessionLock, p>> \in mapped'
    BY <2>2, <2>3, CoveredByHolder
  <2>5. k = sessionLock
    BY <2>2 DEF IInv, TypeOK
  <2> QED
    BY <2>4, <2>5
<1>2. Spec => [][Covered]_vars
  BY <1>1, Invariant, PTL DEF Spec
<1> QED
  BY <1>2 DEF LockedMeansCovered

\* The session is unlocked by the holder of the recorded lock alone.
THEOREM OnlyHolderUnlocks == Spec => UnlockedOnlyByHolder
<1> DEFINE Held == sessionLocked /\ ~sessionLocked' =>
                     /\ unlocking' = sessionLock /\ sessionLock \in lockListeners
                     /\ sentLocked[sessionLock] > 0
<1>1. IInv /\ [Next]_vars => [Held]_vars
  <2> SUFFICES ASSUME IInv, Next, sessionLocked, ~sessionLocked'
               PROVE  /\ unlocking' = sessionLock /\ sessionLock \in lockListeners
                      /\ sentLocked[sessionLock] > 0
    OBVIOUS
  <2>1. PICK l \in Locks : OnSessionUnlock(l)
    BY DEF Next, RunStart, RunEnd, FocusToplevelKeyboard, ClearKeyboardFocus,
           GrabStarts, GrabEnds,
           OnNewOutput, OnOutputDestroy, OnNewSessionLock, OnSessionLockDestroy,
           OnNewLockSurface, OnLockSurfaceCommit, OnLockSurfaceDestroy,
           BeginSessionLock, TakeLockDestroy, lockState
  <2>2. l \in lockListeners
    BY <2>1 DEF OnSessionUnlock
  <2>3. l = sessionLock
    BY <2>2 DEF IInv, OneLockHeard
  <2> QED
    BY <2>1, <2>2, <2>3 DEF OnSessionUnlock
<1>2. Spec => [][Held]_vars
  BY <1>1, Invariant, PTL DEF Spec
<1> QED
  BY <1>2 DEF UnlockedOnlyByHolder
=============================================================================
