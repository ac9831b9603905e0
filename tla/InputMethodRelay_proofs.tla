----------------------- MODULE InputMethodRelay_proofs -----------------------
(* Proofs about InputMethodRelay: the strengthened invariant IInv and the   *)
(* properties that follow from it.                                          *)
EXTENDS InputMethodRelay, TLAPS

(* A text-input is entered on surfaces of its own client only.             *)
EnteredOnOwn ==
  \A t \in tracked : entered[t] # NoSurface => owner[t] = ClientOf[entered[t]]

IInv == /\ TypeOK /\ EnteredOnOwn
        /\ DriverTracked /\ ImeSeesDriver
        /\ FocusedTextInputsEntered /\ NoneLeftEntered
        /\ OverlayOnlyWhileActive

-----------------------------------------------------------------------------
(* The initial states satisfy the strengthened invariant.                  *)
LEMMA InitIInv == Init => IInv
<1> SUFFICES ASSUME Init PROVE IInv
  OBVIOUS
<1>1. TypeOK
  <2>1. 0 \in 0..MaxRuns
    BY RelayAssumption
  <2> QED BY <2>1 DEF Init, TypeOK
<1> QED
  BY <1>1 DEF Init, IInv, EnteredOnOwn, DriverTracked, ImeSeesDriver,
     FocusedTextInputsEntered, NoneLeftEntered, OverlayOnlyWhileActive

-----------------------------------------------------------------------------
(* What the relay does to the text-inputs: of those entered on the         *)
(* outgoing surface none stays, those of the new surface's client are      *)
(* entered on it.                                                          *)
LEMMA RelayEffect ==
  ASSUME IInv, NEW new \in surfaces \cup {NoSurface},
         RelayKeyboardFocus(new), focus # new,
         UNCHANGED <<surfaces, tracked, owner>>
  PROVE  /\ entered' \in [TextInputs -> surfaces \cup {NoSurface}]
         /\ EnteredOnOwn'
         /\ \A t \in tracked : entered'[t] \in {NoSurface, new} \cup (parted \ {focus})
         /\ new # NoSurface => \A t \in tracked : owner[t] = ClientOf[new]
                                                   => entered'[t] = new
<1> USE RelayAssumption DEF IInv, TypeOK, RelayKeyboardFocus
<1>1. entered' \in [TextInputs -> surfaces \cup {NoSurface}]
  OBVIOUS
<1>2. ASSUME NEW t \in tracked
      PROVE  entered'[t] = IF t \in Entering(new) THEN new
                           ELSE IF t \in Leaving(new) THEN NoSurface ELSE entered[t]
  BY <1>2
<1>3. EnteredOnOwn'
  BY <1>2 DEF EnteredOnOwn, Entering, Leaving
<1>4. ASSUME NEW t \in tracked
      PROVE  entered'[t] \in {NoSurface, new} \cup (parted \ {focus})
  <2>1. CASE entered[t] = focus /\ focus # NoSurface
    BY <2>1, <1>2 DEF EnteredOnOwn, Entering, Leaving
  <2>2. CASE entered[t] # focus \/ focus = NoSurface
    BY <2>2, <1>2 DEF NoneLeftEntered
  <2> QED BY <2>1, <2>2
<1>5. ASSUME new # NoSurface, NEW t \in tracked, owner[t] = ClientOf[new]
      PROVE  entered'[t] = new
  BY <1>5, <1>2 DEF Entering, Leaving
<1> QED BY <1>1, <1>3, <1>4, <1>5

(* The relay keeps the IME and the table in step, and only ever stops the  *)
(* driver.                                                                 *)
LEMMA RelayDriver ==
  ASSUME IInv, NEW new, RelayKeyboardFocus(new),
         UNCHANGED <<tracked, enabled, ime>>
  PROVE  /\ driver' \in {driver, NoText} /\ imeView' = driver'
         /\ DriverTracked'
  BY DEF IInv, TypeOK, RelayKeyboardFocus, Deactivate, ImeSeesDriver, DriverTracked

-----------------------------------------------------------------------------
(* Every change of the focus through the relay preserves the invariant,    *)
(* whether a grab swallows it or not.                                      *)
LEMMA FocusMove ==
  ASSUME IInv, NEW new \in surfaces \cup {NoSurface},
         RelayKeyboardFocus(new), NotifySeat(new),
         new = NoSurface \/ focus # new,
         NotifyIfDeactivated,
         UNCHANGED <<surfaces, enabled, imes, tables, runs>>,
         holder' \in 0..MaxRuns, locked' \in BOOLEAN,
         covering' \subseteq LockSurfaces
  PROVE  IInv'
<1> USE RelayAssumption DEF tables, runs
<1>1. /\ before' = before
      /\ \/ focus' = new /\ parted' = parted \ {focus, new}
         \/ focus' = focus /\ parted' = (parted \cup {focus, new}) \ {NoSurface}
  BY DEF NotifySeat
<1>2. /\ focus' \in surfaces \cup {NoSurface}
      /\ before' \in surfaces \cup {NoSurface, NoGrab}
      /\ parted' \subseteq surfaces
  BY <1>1 DEF IInv, TypeOK
<1>3. CASE focus = new
  <2>1. Leaving(new) = {} /\ Entering(new) = {}
    BY <1>3 DEF Leaving, Entering
  <2>2. UNCHANGED <<entered, driver, imeView>>
    BY <2>1 DEF RelayKeyboardFocus, IInv, TypeOK
  <2>3. TypeOK'
    BY <1>2, <2>2 DEF IInv, TypeOK, NotifyIfDeactivated
  <2>4. focus' = NoSurface /\ focus = NoSurface /\ \A s \in parted : s \in parted'
    BY <1>1, <1>3 DEF IInv, TypeOK
  <2>5. FocusedTextInputsEntered' /\ NoneLeftEntered'
    BY <2>2, <2>4 DEF IInv, FocusedTextInputsEntered, NoneLeftEntered
  <2> QED
    BY <2>2, <2>3, <2>5 DEF IInv, EnteredOnOwn, DriverTracked, ImeSeesDriver,
       OverlayOnlyWhileActive, NotifyIfDeactivated
<1>4. CASE focus # new
  <2>1. /\ entered' \in [TextInputs -> surfaces \cup {NoSurface}]
        /\ EnteredOnOwn'
        /\ \A t \in tracked : entered'[t] \in {NoSurface, new} \cup (parted \ {focus})
        /\ new # NoSurface => \A t \in tracked : owner[t] = ClientOf[new]
                                                  => entered'[t] = new
    BY <1>4, RelayEffect
  <2>2. driver' \in {driver, NoText} /\ imeView' = driver' /\ DriverTracked'
    BY RelayDriver
  <2>3. TypeOK'
    BY <1>2, <2>1, <2>2 DEF IInv, TypeOK, NotifyIfDeactivated
  <2>4. FocusedTextInputsEntered' /\ NoneLeftEntered'
    <3>1. CASE focus' = new /\ parted' = parted \ {focus, new}
      BY <3>1, <2>1 DEF FocusedTextInputsEntered, NoneLeftEntered
    <3>2. CASE focus' = focus /\ parted' = (parted \cup {focus, new}) \ {NoSurface}
      BY <3>2, <2>1 DEF FocusedTextInputsEntered, NoneLeftEntered
    <3> QED BY <1>1, <3>1, <3>2
  <2>5. OverlayOnlyWhileActive'
    BY <2>2 DEF IInv, OverlayOnlyWhileActive, NotifyIfDeactivated
  <2> QED BY <2>1, <2>2, <2>3, <2>4, <2>5 DEF IInv, ImeSeesDriver
<1> QED BY <1>3, <1>4

(* So does every change around it: the surfaces it takes the focus from    *)
(* and to have parted.                                                     *)
LEMMA AroundRelay ==
  ASSUME IInv, NEW s, FocusAroundRelay(s), UNCHANGED <<tracked, owner, entered>>
  PROVE  /\ FocusedTextInputsEntered' /\ NoneLeftEntered'
         /\ parted' \subseteq surfaces \cup ({s} \ {NoSurface})
<1> USE RelayAssumption DEF IInv, TypeOK, FocusAroundRelay
<1>1. CASE s = focus
  BY <1>1 DEF FocusedTextInputsEntered, NoneLeftEntered
<1>2. CASE s # focus
  <2>1. parted' = (parted \cup {focus, s}) \ {NoSurface} /\ focus' = s
    BY <1>2
  <2>2. FocusedTextInputsEntered'
    BY <2>1 DEF FocusedTextInputsEntered
  <2>3. NoneLeftEntered'
    BY <2>1 DEF NoneLeftEntered
  <2> QED BY <2>1, <2>2, <2>3
<1> QED BY <1>1, <1>2

-----------------------------------------------------------------------------
(* Every step preserves the strengthened invariant.                        *)
LEMMA NextIInv == IInv /\ [Next]_vars => IInv'
<1> SUFFICES ASSUME IInv, [Next]_vars PROVE IInv'
  OBVIOUS
<1> USE RelayAssumption
<1>1. CASE RunStart
  BY <1>1 DEF RunStart, IInv, TypeOK, EnteredOnOwn, DriverTracked,
     ImeSeesDriver, FocusedTextInputsEntered, NoneLeftEntered, OverlayOnlyWhileActive,
     relay, tables, lockState, seat
<1>2. CASE RunEnd
  BY <1>2 DEF RunEnd, IInv, TypeOK, EnteredOnOwn, DriverTracked,
     ImeSeesDriver, FocusedTextInputsEntered, NoneLeftEntered, OverlayOnlyWhileActive,
     relay, tables, lockState, seat
<1>3. CASE \E s \in Surfaces : FocusSurface(s)
  <2> PICK s \in Surfaces : FocusSurface(s)
    BY <1>3
  <2> QED BY FocusMove DEF FocusSurface, IInv, TypeOK, lockState
<1>4. CASE ConsumerClearsFocus
  BY <1>4, FocusMove DEF ConsumerClearsFocus, ClearKeyboardFocus, IInv, TypeOK,
     lockState
<1>5. CASE OnNewSessionLock
  <2>1. run \in 0..MaxRuns
    BY DEF IInv, TypeOK
  <2> QED BY <1>5, <2>1, FocusMove DEF OnNewSessionLock, ClearKeyboardFocus, IInv, TypeOK
<1>6. CASE OnSessionLockDestroy
  BY <1>6, FocusMove DEF OnSessionLockDestroy, ClearKeyboardFocus, IInv, TypeOK
<1>7. CASE \E s \in Surfaces : SurfaceMapped(s)
  BY <1>7 DEF SurfaceMapped, IInv, TypeOK, EnteredOnOwn, DriverTracked,
     ImeSeesDriver, FocusedTextInputsEntered, NoneLeftEntered, OverlayOnlyWhileActive,
     relay, tables, lockState, runs, seat
<1>8. CASE \E s \in Surfaces : SurfaceDestroyed(s)
  <2> PICK s \in Surfaces : SurfaceDestroyed(s)
    BY <1>8
  <2> USE DEF SurfaceDestroyed, tables, runs
  <2>1. TypeOK'
    <3>1. /\ focus' \in surfaces' \cup {NoSurface}
          /\ before' \in surfaces' \cup {NoSurface, NoGrab}
          /\ parted' \subseteq surfaces'
          /\ entered' \in [TextInputs -> surfaces' \cup {NoSurface}]
      BY DEF IInv, TypeOK
    <3> QED BY <3>1 DEF IInv, TypeOK
  <2>2. ASSUME NEW t \in tracked
        PROVE  entered'[t] = IF entered[t] = s THEN NoSurface ELSE entered[t]
    BY <2>2 DEF IInv, TypeOK
  <2>3. EnteredOnOwn' /\ NoneLeftEntered'
    BY <2>2 DEF IInv, EnteredOnOwn, NoneLeftEntered
  <2>4. FocusedTextInputsEntered'
    BY <2>2 DEF IInv, FocusedTextInputsEntered
  <2> QED BY <2>1, <2>3, <2>4 DEF IInv, DriverTracked, ImeSeesDriver,
             OverlayOnlyWhileActive
<1>9. CASE \E s \in Surfaces : OnNewLockSurface(s)
  <2> PICK s \in Surfaces : OnNewLockSurface(s)
    BY <1>9
  <2> USE DEF OnNewLockSurface, relay, tables, runs
  <2>1. /\ FocusedTextInputsEntered' /\ NoneLeftEntered'
        /\ focus' \in {focus, s} /\ parted' \subseteq surfaces \cup {s}
    <3>1. CASE FocusAroundRelay(s)
      BY <3>1, AroundRelay DEF FocusAroundRelay
    <3>2. CASE UNCHANGED <<focus, parted>>
      BY <3>2 DEF IInv, TypeOK, FocusedTextInputsEntered, NoneLeftEntered
    <3> QED BY <3>1, <3>2
  <2>2. s \in LockSurfaces /\ s \in surfaces' /\ surfaces \subseteq surfaces'
    OBVIOUS
  <2>3. TypeOK'
    BY <2>1, <2>2 DEF IInv, TypeOK
  <2>4. EnteredOnOwn'
    BY DEF IInv, EnteredOnOwn
  <2> QED BY <2>1, <2>3, <2>4 DEF IInv, DriverTracked, ImeSeesDriver,
             OverlayOnlyWhileActive
<1>10. CASE \E s \in Surfaces : OnLockSurfaceDestroy(s)
  <2> PICK s \in Surfaces : OnLockSurfaceDestroy(s)
    BY <1>10
  <2> USE DEF OnLockSurfaceDestroy, relay, tables, runs, seat
  <2>1. TypeOK'
    BY DEF IInv, TypeOK
  <2> QED BY <2>1 DEF IInv, EnteredOnOwn, DriverTracked, ImeSeesDriver,
             FocusedTextInputsEntered, NoneLeftEntered, OverlayOnlyWhileActive
<1>11. CASE OnSessionUnlock
  <2> USE <1>11 DEF OnSessionUnlock, relay, tables, runs, seat
  <2>1. TypeOK'
    <3>1. holder' \in 0..MaxRuns /\ covering' \subseteq LockSurfaces
      OBVIOUS
    <3> QED BY <3>1 DEF IInv, TypeOK
  <2> QED BY <2>1 DEF IInv, EnteredOnOwn, DriverTracked, ImeSeesDriver,
             FocusedTextInputsEntered, NoneLeftEntered, OverlayOnlyWhileActive
<1>12. CASE \E t \in TextInputs, c \in Clients : OnNewTextInput(t, c)
  <2> PICK t \in TextInputs, c \in Clients : OnNewTextInput(t, c)
    BY <1>12
  <2> USE DEF OnNewTextInput, lockState, runs, seat
  <2>1. EnteredOnCreate(c) \in surfaces \cup {NoSurface}
    BY DEF EnteredOnCreate, IInv, TypeOK
  <2>2. TypeOK'
    BY <2>1 DEF IInv, TypeOK
  <2>3. /\ owner'[t] = c /\ entered'[t] = EnteredOnCreate(c)
        /\ \A u \in tracked : u # t => owner'[u] = owner[u] /\ entered'[u] = entered[u]
    BY DEF IInv, TypeOK
  <2>4. t \notin tracked /\ tracked' = tracked \cup {t}
    OBVIOUS
  <2>5. EnteredOnOwn'
    BY <2>3, <2>4 DEF IInv, EnteredOnOwn, EnteredOnCreate
  <2>6. FocusedTextInputsEntered'
    BY <2>3, <2>4 DEF IInv, FocusedTextInputsEntered, EnteredOnCreate
  <2>7. NoneLeftEntered'
    BY <2>3, <2>4 DEF IInv, NoneLeftEntered, EnteredOnCreate
  <2> QED BY <2>2, <2>5, <2>6, <2>7 DEF IInv, DriverTracked, ImeSeesDriver,
             OverlayOnlyWhileActive
<1>13. CASE \E t \in TextInputs : OnTextInputDestroy(t)
  <2> PICK t \in TextInputs : OnTextInputDestroy(t)
    BY <1>13
  <2> USE DEF OnTextInputDestroy, lockState, runs, seat
  <2>1. driver' = (IF driver = t THEN NoText ELSE driver)
        /\ imeView' = (IF driver = t THEN NoText ELSE imeView)
    BY DEF Deactivate
  <2>2. TypeOK'
    BY <2>1 DEF IInv, TypeOK, NotifyIfDeactivated
  <2>3. tracked' = tracked \ {t} /\ \A u \in tracked' : entered'[u] = entered[u]
    BY DEF IInv, TypeOK
  <2>4. EnteredOnOwn' /\ FocusedTextInputsEntered' /\ NoneLeftEntered'
    BY <2>3 DEF IInv, EnteredOnOwn, FocusedTextInputsEntered, NoneLeftEntered
  <2>5. DriverTracked' /\ ImeSeesDriver'
    BY <2>1 DEF IInv, TypeOK, DriverTracked, ImeSeesDriver
  <2>6. OverlayOnlyWhileActive'
    BY <2>1 DEF IInv, OverlayOnlyWhileActive, NotifyIfDeactivated
  <2> QED BY <2>2, <2>4, <2>5, <2>6 DEF IInv
<1>14. CASE \E t \in TextInputs : OnTextInputEnable(t)
  <2> PICK t \in TextInputs : OnTextInputEnable(t)
    BY <1>14
  <2> USE DEF OnTextInputEnable, tables, lockState, runs, seat
  <2>1. /\ driver' \in {driver, t}
        /\ driver' # driver => ime # NoIme
        /\ imeView' = driver'
    BY DEF Activate, IInv, ImeSeesDriver
  <2>2. t \in tracked /\ enabled' = enabled \cup {t}
    OBVIOUS
  <2>3. TypeOK'
    BY <2>1, <2>2 DEF IInv, TypeOK
  <2>4. DriverTracked' /\ ImeSeesDriver' /\ OverlayOnlyWhileActive'
    BY <2>1, <2>2 DEF IInv, TypeOK, DriverTracked, ImeSeesDriver, OverlayOnlyWhileActive
  <2> QED BY <2>3, <2>4 DEF IInv, EnteredOnOwn, FocusedTextInputsEntered, NoneLeftEntered
<1>15. CASE \E t \in TextInputs : OnTextInputDisable(t)
  <2> PICK t \in TextInputs : OnTextInputDisable(t)
    BY <1>15
  <2> USE DEF OnTextInputDisable, tables, lockState, runs, seat
  <2>1. driver' = (IF driver = t THEN NoText ELSE driver)
        /\ imeView' = (IF driver = t THEN NoText ELSE imeView)
    BY DEF Deactivate
  <2>2. TypeOK'
    BY <2>1 DEF IInv, TypeOK, NotifyIfDeactivated
  <2>3. DriverTracked' /\ ImeSeesDriver' /\ OverlayOnlyWhileActive'
    BY <2>1 DEF IInv, TypeOK, DriverTracked, ImeSeesDriver, OverlayOnlyWhileActive,
       NotifyIfDeactivated
  <2> QED BY <2>2, <2>3 DEF IInv, EnteredOnOwn, FocusedTextInputsEntered, NoneLeftEntered
<1>16. CASE \E t \in TextInputs : OnTextInputCommit(t)
  <2> PICK t \in TextInputs : OnTextInputCommit(t)
    BY <1>16
  <2>1. imeView' = imeView
    BY DEF OnTextInputCommit, IInv, ImeSeesDriver
  <2> QED BY <2>1 DEF OnTextInputCommit, IInv, TypeOK, EnteredOnOwn,
     DriverTracked, ImeSeesDriver, FocusedTextInputsEntered, NoneLeftEntered,
     OverlayOnlyWhileActive, tables, lockState, runs, seat
<1>17. CASE \E i \in InputMethods : OnNewInputMethod(i)
  <2> PICK i \in InputMethods : OnNewInputMethod(i)
    BY <1>17
  <2> USE DEF OnNewInputMethod, lockState, runs, seat
  <2>1. driver' = driver /\ imeView' = imeView
    BY DEF Deactivate, IInv, DriverTracked, ImeSeesDriver
  <2>2. ime' \in {ime, i} /\ (ime # NoIme => ime' = ime)
    OBVIOUS
  <2>3. linkedIn' \in [TextInputs \cup InputMethods -> 0..MaxRuns]
    BY DEF IInv, TypeOK
  <2>4. TypeOK'
    BY <2>1, <2>2, <2>3 DEF IInv, TypeOK
  <2> QED BY <2>1, <2>2, <2>4 DEF IInv, EnteredOnOwn, DriverTracked, ImeSeesDriver,
             FocusedTextInputsEntered, NoneLeftEntered, OverlayOnlyWhileActive
<1>18. CASE \E i \in InputMethods : OnInputMethodDestroy(i)
  <2> PICK i \in InputMethods : OnInputMethodDestroy(i)
    BY <1>18
  <2> USE DEF OnInputMethodDestroy, IsCurrent, Deactivate, lockState, runs, seat
  <2>1. TypeOK'
    <3>1. 0 \in 0..MaxRuns
      OBVIOUS
    <3>2. linkedIn' \in [TextInputs \cup InputMethods -> 0..MaxRuns]
      BY <3>1 DEF IInv, TypeOK
    <3>3. ime' \in imes' \cup {NoIme}
      BY DEF IInv, TypeOK
    <3> QED BY <3>2, <3>3 DEF IInv, TypeOK
  <2> QED BY <2>1 DEF IInv, EnteredOnOwn, DriverTracked, ImeSeesDriver,
             FocusedTextInputsEntered, NoneLeftEntered, OverlayOnlyWhileActive
<1>19. CASE OnInputMethodCommit
  <2>1. driver # NoText
    BY <1>19, RelayAssumption DEF OnInputMethodCommit, IInv, TypeOK
  <2> QED BY <1>19, <2>1 DEF OnInputMethodCommit, IInv, TypeOK, EnteredOnOwn,
     DriverTracked, ImeSeesDriver, FocusedTextInputsEntered, NoneLeftEntered,
     OverlayOnlyWhileActive, relay, tables, lockState, runs, seat
<1>20. CASE \E s \in Surfaces \cup {NoSurface} : GrabStarts(s)
  <2> PICK s \in surfaces \cup {NoSurface} : GrabStarts(s)
    BY <1>20 DEF GrabStarts
  <2> USE DEF GrabStarts, relay, tables, lockState, runs
  <2>1. /\ FocusedTextInputsEntered' /\ NoneLeftEntered'
        /\ focus' = s /\ parted' \subseteq surfaces
    BY AroundRelay DEF FocusAroundRelay
  <2>2. TypeOK'
    BY <2>1 DEF IInv, TypeOK
  <2> QED BY <2>1, <2>2 DEF IInv, EnteredOnOwn, DriverTracked, ImeSeesDriver,
             OverlayOnlyWhileActive
<1>21. CASE GrabEnds
  <2> USE <1>21 DEF GrabEnds, relay, tables, lockState, runs
  <2>1. PICK s \in surfaces \cup {NoSurface} : FocusAroundRelay(s)
    BY DEF IInv, TypeOK, Grabbed
  <2>2. /\ FocusedTextInputsEntered' /\ NoneLeftEntered'
        /\ focus' = s /\ parted' \subseteq surfaces
    BY <2>1, AroundRelay DEF FocusAroundRelay
  <2>3. TypeOK'
    BY <2>2 DEF IInv, TypeOK
  <2> QED BY <2>2, <2>3 DEF IInv, EnteredOnOwn, DriverTracked, ImeSeesDriver,
             OverlayOnlyWhileActive
<1>22. CASE UNCHANGED vars
  BY <1>22 DEF vars, IInv, TypeOK, EnteredOnOwn, DriverTracked,
     ImeSeesDriver, FocusedTextInputsEntered, NoneLeftEntered, OverlayOnlyWhileActive,
     relay, tables, lockState, runs, seat
<1> QED
  BY <1>1, <1>2, <1>3, <1>4, <1>5, <1>6, <1>7, <1>8, <1>9, <1>10, <1>11, <1>12, <1>13,
     <1>14, <1>15, <1>16, <1>17, <1>18, <1>19, <1>20, <1>21, <1>22 DEF Next

-----------------------------------------------------------------------------
(* The strengthened invariant holds in every reachable state.              *)
THEOREM Invariant == Spec => []IInv
  BY InitIInv, NextIInv, PTL DEF Spec

(* The relay's tables and wlroots' fields have their types: no pointer to  *)
(* a destroyed surface or input-method is kept.                            *)
THEOREM TypeCorrect == Spec => []TypeOK
  BY Invariant, PTL DEF IInv

(* The IME's back-reference names a tracked, enabled text-input.           *)
THEOREM BackReferenceLive == Spec => []DriverTracked
  BY Invariant, PTL DEF IInv

(* What the IME was told and what the table says agree.                    *)
THEOREM ImeInStep == Spec => []ImeSeesDriver
  BY Invariant, PTL DEF IInv

(* Text-inputs of the focused client are entered on its focused surface,   *)
(* save where the relay and the seat have parted.                          *)
THEOREM FocusEnters == Spec => []FocusedTextInputsEntered
  BY Invariant, PTL DEF IInv

(* Text-inputs leave the surface that loses the focus, save where the      *)
(* relay and the seat have parted.                                         *)
THEOREM FocusLeaves == Spec => []NoneLeftEntered
  BY Invariant, PTL DEF IInv

(* What the IME composed is shown only while the IME is active.            *)
THEOREM OverlayHidden == Spec => []OverlayOnlyWhileActive
  BY Invariant, PTL DEF IInv

(* The relay leaves the driver only by deactivating: a driver on a surface *)
(* not parted is on the focus, by NoneLeftEntered.                         *)
LEMMA RelayLeavesDriver ==
  ASSUME IInv, NEW new, RelayKeyboardFocus(new),
         driver # NoText, entered[driver] \in Surfaces \ parted,
         entered'[driver] # entered[driver]
  PROVE  driver' = NoText
<1> USE RelayAssumption DEF IInv, TypeOK
<1>1. driver \in tracked /\ driver \in TextInputs
  BY DEF DriverTracked
<1>2. entered[driver] = focus /\ focus # NoSurface
  BY <1>1 DEF NoneLeftEntered
<1>3. owner[driver] = ClientOf[focus]
  BY <1>1, <1>2 DEF EnteredOnOwn
<1>4. focus # new
  <2> SUFFICES ASSUME focus = new PROVE FALSE
    OBVIOUS
  <2>1. Leaving(new) = {} /\ Entering(new) = {}
    BY DEF Leaving, Entering
  <2> QED BY <2>1, <1>1 DEF RelayKeyboardFocus
<1>5. driver \in Leaving(new)
  BY <1>1, <1>2, <1>3, <1>4 DEF Leaving
<1> QED BY <1>5 DEF RelayKeyboardFocus, Deactivate

(* A text-input moved off a surface that stays stops driving the IME.      *)
THEOREM LeavingDeactivates == Spec => DriverLeavesWithFocus
<1> DEFINE Kept == (driver # NoText /\ entered[driver] \in surfaces' \ parted
                     /\ entered'[driver] # entered[driver]) => driver' = NoText
<1>1. ASSUME IInv, [Next]_vars PROVE [Kept]_vars
  <2> SUFFICES ASSUME driver # NoText, entered[driver] \in surfaces' \ parted,
                      entered'[driver] # entered[driver], Next
               PROVE  driver' = NoText
    BY <1>1 DEF vars
  <2> USE RelayAssumption DEF IInv, TypeOK
  <2>1. driver \in tracked /\ driver \in TextInputs
    BY <1>1 DEF DriverTracked
  <2>2. entered[driver] \in surfaces => entered[driver] \in Surfaces \ parted
    BY <1>1
  <2>3. CASE \E s \in Surfaces : FocusSurface(s)
    BY <2>3, <2>2, <2>1, <1>1, RelayLeavesDriver DEF FocusSurface
  <2>4. CASE ConsumerClearsFocus \/ OnNewSessionLock \/ OnSessionLockDestroy
    BY <2>4, <2>2, <1>1, RelayLeavesDriver
       DEF ConsumerClearsFocus, OnNewSessionLock, OnSessionLockDestroy,
           ClearKeyboardFocus
  <2>5. CASE \E s \in Surfaces : SurfaceDestroyed(s)
    BY <2>5, <2>1, <1>1 DEF SurfaceDestroyed
  <2>6. CASE \E t \in TextInputs : \E c \in Clients : OnNewTextInput(t, c)
    BY <2>6, <2>1, <1>1 DEF OnNewTextInput
  <2>7. CASE \E t \in TextInputs : OnTextInputDestroy(t)
    BY <2>7, <2>1, <1>1 DEF OnTextInputDestroy, Deactivate
  <2> QED
    BY <2>3, <2>4, <2>5, <2>6, <2>7, <1>1
       DEF Next, relay, RunStart, RunEnd, GrabStarts, GrabEnds, SurfaceMapped, OnNewLockSurface,
           OnLockSurfaceDestroy, OnSessionUnlock, OnTextInputEnable,
           OnTextInputDisable, OnTextInputCommit, OnNewInputMethod,
           OnInputMethodDestroy, OnInputMethodCommit
<1> QED BY <1>1, Invariant, PTL DEF Spec, DriverLeavesWithFocus
=============================================================================
