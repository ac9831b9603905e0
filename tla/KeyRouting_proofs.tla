-------------------------- MODULE KeyRouting_proofs --------------------------
(* Proofs about KeyRouting: the strengthened invariant IInv and the         *)
(* properties that follow from it.                                          *)
EXTENDS KeyRouting, TLAPS

(* Runs are numbered from 1, and no device was linked in a later one: a     *)
(* run starts with no device heard.                                         *)
LinkedInPast == /\ inRun => run > 0
                /\ \A kb \in Keyboards : linkedIn[kb] <= run

IInv == /\ TypeOK /\ LinkedInPast
        /\ HeardAreTracked /\ GrabLive /\ GrabFollowsSeat
        /\ DeferredIsForwarded /\ LoneKeyObeysHandler

-----------------------------------------------------------------------------
(* The initial states satisfy the strengthened invariant.                  *)
LEMMA InitIInv == Init => IInv
<1> SUFFICES ASSUME Init PROVE IInv
  OBVIOUS
<1>1. 0 \in 0..MaxRuns /\ 0 \in 0..MaxWaiting
  BY KeyAssumption
<1>2. TypeOK
  BY <1>1 DEF Init, TypeOK
<1>3. LinkedInPast
  BY DEF Init, LinkedInPast
<1> QED
  BY <1>2, <1>3 DEF Init, IInv, HeardAreTracked, Heard, GrabLive, GrabFollowsSeat,
     DeferredIsForwarded, LoneKeyObeysHandler

-----------------------------------------------------------------------------
(* TypeOK speaks of the devices and the grab, and of the handlers; a step  *)
(* that leaves one half alone keeps its types.                             *)
DevicesTyped ==
  /\ run \in 0..MaxRuns /\ inRun \in BOOLEAN
  /\ plugged \subseteq Keyboards /\ keyboards \subseteq Keyboards
  /\ linkedIn \in [Keyboards -> 0..MaxRuns]
  /\ caps \in BOOLEAN /\ active \in plugged \cup {NoKeyboard}
  /\ mods \in [Keyboards -> BOOLEAN] /\ clientMods \in BOOLEAN
  /\ grabs \subseteq Grabs /\ grab \in Grabs \cup {NoGrab}
  /\ grabRun \in 0..MaxRuns
  /\ grabKeyboard \in plugged \cup {NoKeyboard} /\ grabMods \in BOOLEAN

HandlersTyped ==
  /\ frame \in {"none", "deliver", "stop"} /\ outer \in {"key", "other"}
  /\ alone \in BOOLEAN /\ ownAnswer \in BOOLEAN
  /\ waiting \in 0..MaxWaiting /\ consumed \in BOOLEAN

LastTyped ==
  last \in [deferred : BOOLEAN, alone : BOOLEAN, answer : BOOLEAN,
            to : {"client", "grab", "withheld"}]

LEMMA TypeParts ==
  /\ TypeOK => DevicesTyped /\ HandlersTyped /\ LastTyped
  /\ DevicesTyped' /\ HandlersTyped' /\ LastTyped' => TypeOK'
BY DEF TypeOK, DevicesTyped, HandlersTyped, LastTyped

LEMMA DevicesTypedKept ==
  DevicesTyped /\ UNCHANGED <<runs, devices, modifiers, grabbing>> => DevicesTyped'
BY DEF DevicesTyped, runs, devices, modifiers, grabbing

LEMMA HandlersTypedKept ==
  HandlersTyped /\ LastTyped /\ UNCHANGED delivery => HandlersTyped' /\ LastTyped'
BY DEF HandlersTyped, LastTyped, delivery

-----------------------------------------------------------------------------
(* The start and the end of a run: nothing is heard right after either.    *)
LEMMA RunsPreserve ==
  ASSUME IInv, RunStart \/ RunEnd PROVE IInv'
<1>1. CASE RunStart
  <2>1. run + 1 \in 0..MaxRuns /\ 0 \in 0..MaxWaiting
    BY <1>1, KeyAssumption DEF IInv, TypeOK, RunStart
  <2>2. TypeOK'
    <3>1. DevicesTyped'
      BY <1>1, <2>1, TypeParts DEF IInv, DevicesTyped, RunStart, devices, modifiers,
         grabbing
    <3>2. HandlersTyped' /\ LastTyped'
      BY <1>1, <2>1, TypeParts DEF IInv, HandlersTyped, LastTyped, RunStart
    <3> QED BY <3>1, <3>2, TypeParts
  <2>3. LinkedInPast'
    BY <1>1 DEF IInv, TypeOK, LinkedInPast, RunStart, devices
  <2>4. \A kb \in Keyboards : ~Heard(kb)'
    BY <1>1 DEF IInv, TypeOK, LinkedInPast, RunStart, devices, Heard
  <2>5. active' \in Keyboards \cup {NoKeyboard}
    BY <2>2 DEF TypeOK
  <2> QED
    BY <1>1, <2>2, <2>3, <2>4, <2>5 DEF IInv, HeardAreTracked, GrabLive, GrabFollowsSeat,
       DeferredIsForwarded, LoneKeyObeysHandler, RunStart, devices, grabbing
<1>2. CASE RunEnd
  <2>1. 0 \in 0..MaxWaiting
    BY KeyAssumption
  <2>2. TypeOK'
    <3>1. DevicesTyped'
      BY <1>2, TypeParts DEF IInv, DevicesTyped, RunEnd, devices, modifiers, grabbing
    <3>2. HandlersTyped' /\ LastTyped'
      BY <1>2, <2>1, TypeParts DEF IInv, HandlersTyped, LastTyped, RunEnd
    <3> QED BY <3>1, <3>2, TypeParts
  <2> QED
    BY <1>2, <2>2 DEF IInv, LinkedInPast, HeardAreTracked, Heard, GrabLive,
       GrabFollowsSeat, DeferredIsForwarded, LoneKeyObeysHandler, RunEnd, devices,
       grabbing
<1> QED BY <1>1, <1>2

(* A keyboard is plugged in, and a held grab follows it.                   *)
LEMMA NewKeyboardPreserves ==
  ASSUME IInv, NEW kb \in Keyboards, OnNewKeyboard(kb) PROVE IInv'
<1> USE DEF OnNewKeyboard, ResyncGrabKeyboard, UpdateSeatCapabilities
<1>1. run \in 0..MaxRuns /\ inRun /\ run > 0
  BY DEF IInv, TypeOK, LinkedInPast, WlrootsRuns
<1>2. TypeOK'
  <2>1. caps' \in BOOLEAN /\ grabMods' \in BOOLEAN
    BY TypeParts DEF IInv, DevicesTyped
  <2>2. DevicesTyped'
    BY <1>1, <2>1, TypeParts DEF IInv, DevicesTyped, runs
  <2> QED BY <2>2, TypeParts, HandlersTypedKept DEF IInv
<1>3. LinkedInPast'
  BY <1>1 DEF IInv, TypeOK, LinkedInPast, runs
<1>4. HeardAreTracked'
  <2> SUFFICES ASSUME NEW b \in Keyboards, Heard(b)'
               PROVE  (b \in plugged \cap keyboards /\ caps)'
    BY DEF HeardAreTracked
  <2>1. CASE b = kb
    BY <2>1
  <2>2. CASE b # kb
    BY <2>2 DEF IInv, TypeOK, HeardAreTracked, Heard, runs
  <2> QED BY <2>1, <2>2
<1>5. GrabLive'
  BY DEF IInv, GrabLive
<1>6. GrabFollowsSeat'
  BY DEF IInv, TypeOK, GrabFollowsSeat
<1> QED
  BY <1>2, <1>3, <1>4, <1>5, <1>6 DEF IInv, DeferredIsForwarded, LoneKeyObeysHandler,
     delivery

(* A keyboard goes; the others stay as they were, and a held grab loses    *)
(* its keyboard exactly when the seat does.                                *)
LEMMA UnplugPreserves ==
  ASSUME IInv, NEW kb \in Keyboards, OnInputDestroy(kb) \/ UnheardDestroy(kb)
  PROVE  IInv'
<1> USE DEF Unplug
<1>1. CASE OnInputDestroy(kb)
  <2> USE <1>1 DEF OnInputDestroy, UpdateSeatCapabilities
  <2>1. TypeOK'
    BY KeyAssumption DEF IInv, TypeOK, runs, modifiers, delivery
  <2>2. LinkedInPast'
    BY DEF IInv, TypeOK, LinkedInPast, runs
  <2>3. \A b \in Keyboards : Heard(b)' => b # kb /\ Heard(b)
    BY <2>2 DEF IInv, TypeOK, LinkedInPast, Heard, runs, WlrootsRuns
  <2>4. HeardAreTracked'
    BY <2>3 DEF IInv, HeardAreTracked
  <2>5. GrabFollowsSeat'
    BY <2>3 DEF IInv, TypeOK, GrabFollowsSeat, modifiers
  <2> QED
    BY <2>1, <2>2, <2>4, <2>5 DEF IInv, GrabLive, DeferredIsForwarded,
       LoneKeyObeysHandler, delivery
<1>2. CASE UnheardDestroy(kb)
  <2> USE <1>2 DEF UnheardDestroy
  <2>1. TypeOK'
    BY KeyAssumption DEF IInv, TypeOK, runs, modifiers, delivery
  <2>2. LinkedInPast'
    BY DEF IInv, LinkedInPast, runs
  <2>3. \A b \in Keyboards : Heard(b)' => b # kb /\ Heard(b)
    BY DEF Heard, runs
  <2>4. HeardAreTracked'
    BY <2>3 DEF IInv, HeardAreTracked
  <2>5. GrabFollowsSeat'
    BY <2>3 DEF IInv, TypeOK, GrabFollowsSeat, modifiers
  <2> QED
    BY <2>1, <2>2, <2>4, <2>5 DEF IInv, GrabLive, DeferredIsForwarded,
       LoneKeyObeysHandler, delivery
<1> QED BY <1>1, <1>2

-----------------------------------------------------------------------------
(* A grab is taken, released, or destroyed by the consumer.                *)
LEMMA GrabPreserves ==
  ASSUME IInv,
         \/ \E g \in Grabs : OnInputMethodGrabKeyboard(g)
         \/ OnInputMethodGrabDestroy \/ DestroyKeyboardGrab
  PROVE  IInv'
<1>1. CASE \E g \in Grabs : OnInputMethodGrabKeyboard(g)
  <2>1. PICK g \in Grabs : OnInputMethodGrabKeyboard(g)
    BY <1>1
  <2> USE <2>1 DEF OnInputMethodGrabKeyboard
  <2>2. (active # NoKeyboard /\ mods[active]) \in BOOLEAN
    OBVIOUS
  <2>3. TypeOK'
    BY <2>2 DEF IInv, TypeOK, runs, devices, modifiers, delivery
  <2>4. GrabFollowsSeat'
    <3>1. active # NoKeyboard => mods[active] \in BOOLEAN
      BY DEF IInv, TypeOK
    <3>2. active # NoKeyboard => grabMods' = mods[active]
      BY <3>1
    <3> QED BY <3>2 DEF GrabFollowsSeat, devices, modifiers
  <2>5. GrabLive'
    BY DEF GrabLive
  <2> QED
    BY <2>3, <2>4, <2>5 DEF IInv, LinkedInPast, HeardAreTracked, Heard,
       DeferredIsForwarded, LoneKeyObeysHandler, runs, devices, delivery
<1>2. CASE OnInputMethodGrabDestroy \/ DestroyKeyboardGrab
  <2>1. /\ grab' = NoGrab /\ NoGrabLeft
        /\ UNCHANGED <<runs, devices, modifiers, grabRun, delivery>>
    BY <1>2 DEF OnInputMethodGrabDestroy, DestroyKeyboardGrab
  <2>2. TypeOK'
    <3>1. DevicesTyped'
      BY <2>1, TypeParts DEF IInv, DevicesTyped, NoGrabLeft, runs, devices, modifiers
    <3> QED BY <2>1, <3>1, TypeParts, HandlersTypedKept DEF IInv
  <2> QED
    BY <2>1, <2>2 DEF IInv, LinkedInPast, HeardAreTracked, Heard, GrabLive,
       GrabFollowsSeat, DeferredIsForwarded, LoneKeyObeysHandler, runs, devices,
       delivery
<1> QED BY <1>1, <1>2

(* Modifiers: those of the seat's keyboard reach a held grab.              *)
LEMMA ModifiersPreserve ==
  ASSUME IInv, FocusMoves \/ \E kb \in Keyboards : ModifiersChange(kb) PROVE IInv'
<1>1. CASE FocusMoves
  <2>1. clientMods' \in BOOLEAN
    BY <1>1 DEF FocusMoves, IInv, TypeOK
  <2>2. TypeOK'
    BY <1>1, <2>1 DEF FocusMoves, IInv, TypeOK, runs, devices, grabbing, delivery
  <2> QED
    BY <1>1, <2>2 DEF FocusMoves, IInv, LinkedInPast, HeardAreTracked, Heard, GrabLive,
       GrabFollowsSeat, DeferredIsForwarded, LoneKeyObeysHandler, runs, devices,
       grabbing, delivery
<1>2. CASE \E kb \in Keyboards : ModifiersChange(kb)
  <2>1. PICK kb \in Keyboards : ModifiersChange(kb)
    BY <1>2
  <2> USE <2>1 DEF ModifiersChange
  <2>2. mods' \in [Keyboards -> BOOLEAN]
    BY DEF IInv, TypeOK
  <2>3. clientMods' \in BOOLEAN /\ grabMods' \in BOOLEAN
    BY <2>2 DEF IInv, TypeOK, OnModifiers
  <2>4. TypeOK'
    BY <2>2, <2>3 DEF IInv, TypeOK, runs, devices, delivery
  <2>5. GrabFollowsSeat'
    <3>1. CASE Heard(kb) /\ active # NoKeyboard
      BY <3>1 DEF IInv, GrabFollowsSeat, OnModifiers, devices
    <3>2. CASE ~(Heard(kb) /\ active # NoKeyboard)
      BY <3>2 DEF IInv, TypeOK, GrabFollowsSeat, Heard, devices, runs
    <3> QED BY <3>1, <3>2
  <2> QED
    BY <2>4, <2>5 DEF IInv, LinkedInPast, HeardAreTracked, Heard, GrabLive,
       DeferredIsForwarded, LoneKeyObeysHandler, runs, devices, delivery
<1> QED BY <1>1, <1>2

-----------------------------------------------------------------------------
(* Keys and handlers touch neither the devices nor the grab.               *)
LEMMA DeliveryLeavesRest ==
  ASSUME IInv, UNCHANGED <<runs, devices, modifiers, grabbing>>
  PROVE  LinkedInPast' /\ HeardAreTracked' /\ GrabLive' /\ GrabFollowsSeat'
BY DEF IInv, LinkedInPast, HeardAreTracked, Heard, GrabLive, GrabFollowsSeat, runs,
   devices, modifiers, grabbing

(* The flag is down when a key is deferred, and when emit comes back to    *)
(* the key it was called for, with nothing drained between, it holds the   *)
(* answer of that key's own handler.                                       *)
LEMMA DeliveryPreserves ==
  ASSUME IInv,
         \/ \E kb \in Keyboards : OnKey(kb) \/ OnKeyDeferred(kb)
         \/ OtherHandler \/ StopReturns
         \/ \E answer \in BOOLEAN : HandlerReturns(answer)
  PROVE  IInv'
<1> USE KeyAssumption
<1>1. CASE \E kb \in Keyboards : OnKey(kb)
  <2>1. PICK kb \in Keyboards : OnKey(kb)
    BY <1>1
  <2>2. TypeOK'
    BY <2>1, ZenonT(60) DEF OnKey, Reset, IInv, TypeOK, runs, devices, modifiers, grabbing
  <2> QED
    BY <2>1, <2>2, DeliveryLeavesRest DEF OnKey, IInv, DeferredIsForwarded,
       LoneKeyObeysHandler
<1>2. CASE \E kb \in Keyboards : OnKeyDeferred(kb)
  <2>1. PICK kb \in Keyboards : OnKeyDeferred(kb)
    BY <1>2
  <2>2. waiting' \in 0..MaxWaiting /\ Destination(consumed') \in {"client", "grab"}
    BY <2>1 DEF OnKeyDeferred, Reset, Destination, IInv, TypeOK
  <2>3. TypeOK'
    BY <2>1, <2>2, ZenonT(60) DEF OnKeyDeferred, Reset, IInv, TypeOK, runs, devices,
       modifiers, grabbing
  <2> QED
    BY <2>1, <2>2, <2>3, DeliveryLeavesRest DEF OnKeyDeferred, IInv,
       DeferredIsForwarded, LoneKeyObeysHandler
<1>3. CASE OtherHandler \/ StopReturns
  <2>1. TypeOK'
    BY <1>3, ZenonT(60) DEF OtherHandler, StopReturns, IInv, TypeOK, runs, devices, modifiers,
       grabbing
  <2> QED
    BY <1>3, <2>1, DeliveryLeavesRest DEF OtherHandler, StopReturns, IInv,
       DeferredIsForwarded, LoneKeyObeysHandler
<1>4. CASE \E answer \in BOOLEAN : HandlerReturns(answer)
  <2>1. PICK answer \in BOOLEAN : HandlerReturns(answer)
    BY <1>4
  <2> USE <2>1 DEF HandlerReturns
  <2>2. consumed' \in BOOLEAN /\ ownAnswer' \in BOOLEAN
    BY DEF Answered, IInv, TypeOK
  <2>3. waiting' \in 0..MaxWaiting
    BY DEF More, IInv, TypeOK
  <2>4. Destination(consumed') \in {"client", "grab", "withheld"}
    BY DEF Destination
  <2>5. last' \in [deferred : BOOLEAN, alone : BOOLEAN, answer : BOOLEAN,
                   to : {"client", "grab", "withheld"}]
    <3>1. LastTyped /\ alone \in BOOLEAN
      BY TypeParts DEF IInv, HandlersTyped
    <3>2. CASE last' = last
      BY <3>1, <3>2 DEF LastTyped
    <3>3. CASE last' = [deferred |-> FALSE, alone |-> alone, answer |-> ownAnswer',
                        to |-> Destination(consumed')]
      <4> HIDE DEF HandlerReturns
      <4> QED BY <2>2, <2>4, <3>1, <3>3
    <3> QED BY <3>2, <3>3
  <2>6. frame' \in {"none", "deliver"} /\ alone' \in BOOLEAN
    BY DEF IInv, TypeOK
  <2>7. TypeOK'
    <3>1. HandlersTyped' /\ LastTyped'
      BY <2>2, <2>3, <2>5, <2>6, TypeParts DEF IInv, HandlersTyped, LastTyped
    <3> QED BY <3>1, TypeParts, DevicesTypedKept DEF IInv
  <2>8. DeferredIsForwarded'
    BY DEF IInv, DeferredIsForwarded
  <2>9. LoneKeyObeysHandler'
    <3>1. CASE More \/ outer # "key"
      BY <3>1 DEF IInv, LoneKeyObeysHandler
    <3>2. CASE ~More /\ outer = "key"
      <4>1. alone => consumed' = answer /\ ownAnswer' = answer
        BY <3>2 DEF Answered
      <4>2. last' = [deferred |-> FALSE, alone |-> alone, answer |-> ownAnswer',
                     to |-> Destination(consumed')]
        BY <3>2
      <4>3. Destination(consumed') = "withheld" <=> consumed'
        BY DEF Destination
      <4> QED BY <4>1, <4>2, <4>3 DEF LoneKeyObeysHandler
    <3> QED BY <3>1, <3>2
  <2> QED
    BY <2>7, <2>8, <2>9, DeliveryLeavesRest DEF IInv
<1> QED BY <1>1, <1>2, <1>3, <1>4

-----------------------------------------------------------------------------
(* The strengthened invariant holds in every reachable state.              *)
THEOREM Invariant == Spec => []IInv
<1>1. IInv /\ [Next]_vars => IInv'
  <2> SUFFICES ASSUME IInv, [Next]_vars PROVE IInv'
    OBVIOUS
  <2>1. CASE Next
    BY <2>1, RunsPreserve, NewKeyboardPreserves, UnplugPreserves, GrabPreserves,
       ModifiersPreserve, DeliveryPreserves DEF Next
  <2>2. CASE UNCHANGED vars
    <3>1. TypeOK' /\ DeferredIsForwarded' /\ LoneKeyObeysHandler'
      BY <2>2 DEF vars, runs, devices, modifiers, grabbing, delivery, IInv, TypeOK,
         DeferredIsForwarded, LoneKeyObeysHandler
    <3> QED BY <2>2, <3>1, DeliveryLeavesRest DEF vars, IInv
  <2> QED BY <2>1, <2>2
<1> QED BY <1>1, InitIInv, PTL DEF Spec

(* Type correctness of KeyRouting.                                         *)
THEOREM TypeCorrect == Spec => []TypeOK
BY Invariant, PTL DEF IInv

(* Keys are heard of existing, recorded and advertised devices only.       *)
THEOREM OnlyLiveHeard == Spec => []HeardAreTracked
BY Invariant, PTL DEF IInv

(* on_key and on_modifiers never send to a destroyed grab.                 *)
THEOREM GrabExists == Spec => []GrabLive
BY Invariant, PTL DEF IInv

(* A held grab is on the seat's keyboard and knows its modifiers.          *)
THEOREM GrabInStep == Spec => []GrabFollowsSeat
BY Invariant, PTL DEF IInv

(* A deferred key is never withheld.                                       *)
THEOREM DeferredForwarded == Spec => []DeferredIsForwarded
BY Invariant, PTL DEF IInv

(* A key under which no other was delivered obeys its own handler.         *)
THEOREM LoneKeyObeys == Spec => []LoneKeyObeysHandler
BY Invariant, PTL DEF IInv
=============================================================================
