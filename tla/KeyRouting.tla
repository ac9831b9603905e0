----------------------------- MODULE KeyRouting -----------------------------
(***************************************************************************)
(* Where a key goes: the keyboards a run announces (on_new_input,          *)
(* on_new_virtual_keyboard, on_input_destroy), the keyboard grab of an     *)
(* input-method, and on_key and on_modifiers of backend.rs, with the       *)
(* SeatHandler::key calls that decide on each key.                         *)
(*                                                                         *)
(* External: the devices, the seat's keyboard pointer, what the focused    *)
(* client and the grab were sent.  The seat exists throughout.  A key      *)
(* itself is not told from another: a key that on_key has settled leaves   *)
(* its trace in last.  Devices and clients act only when no handler runs,  *)
(* as nothing drives the loop under one (LoopNotDrivenInHandler of         *)
(* Dispatch); only keys are let through, which on_key provides for.        *)
(***************************************************************************)
EXTENDS Naturals

CONSTANTS Keyboards,    \* physical and virtual keyboards
          Grabs,        \* zwp_input_method_keyboard_grab_v2 objects
          NoKeyboard, NoGrab,  \* null pointers
          MaxRuns,      \* bound: Backend::run_all calls
          MaxWaiting    \* bound: keys deferred at a time

ASSUME KeyAssumption == /\ NoKeyboard \notin Keyboards
                        /\ NoGrab \notin Grabs
                        /\ MaxRuns \in Nat /\ MaxWaiting \in Nat

VARIABLES
  run, inRun,  \* the number of the current or latest run, whether it goes on
  plugged,     \* external: devices that exist
  linkedIn,    \* the run whose Session::inputs has the device; 0: none
  keyboards,   \* RuntimeInner::keyboards
  caps,        \* external: the seat advertises WL_SEAT_CAPABILITY_KEYBOARD
  active,      \* external: keyboard_state.keyboard of the seat
  mods,        \* external: the modifiers of each keyboard (held or not)
  clientMods,  \* external: the modifiers the focused client was last sent
  grabs,       \* external: grabs that exist
  grabKeyboard, grabMods,  \* external: keyboard of the grab, what it was sent
  grab,        \* InputMethodEntry::keyboard_grab
  grabRun,     \* the run whose Session the grab's destroy listener names
  frame,       \* "none", "deliver" (Dispatcher::emit), "stop" (should_stop)
  outer,       \* what the outermost emission is: "key" or "other"
  alone,       \* the handler that runs is that of the outermost event
  ownAnswer,   \* ghost: what SeatHandler::key answered to the outermost key
  waiting,     \* number of Event::Key in the dispatcher's queue
  consumed,    \* Session::last_key_consumed
  last         \* ghost: how the latest key was settled

runs == <<run, inRun>>
devices == <<plugged, linkedIn, keyboards, caps, active>>
modifiers == <<mods, clientMods>>
grabbing == <<grabs, grabKeyboard, grabMods, grab, grabRun>>
delivery == <<frame, outer, alone, ownAnswer, waiting, consumed, last>>
vars == <<runs, devices, modifiers, grabbing, delivery>>

-----------------------------------------------------------------------------
Init == /\ run = 0 /\ inRun = FALSE
        /\ plugged = {} /\ keyboards = {} /\ caps = FALSE /\ active = NoKeyboard
        /\ linkedIn = [kb \in Keyboards |-> 0]
        /\ mods = [kb \in Keyboards |-> FALSE] /\ clientMods = FALSE
        /\ grabs = {} /\ grab = NoGrab /\ grabRun = 0
        /\ grabKeyboard = NoKeyboard /\ grabMods = FALSE
        /\ frame = "none" /\ outer = "other" /\ alone = TRUE /\ ownAnswer = FALSE
        /\ waiting = 0 /\ consumed = FALSE
        /\ last = [deferred |-> FALSE, alone |-> TRUE, answer |-> FALSE, to |-> "client"]

\* A signal of the device reaches the running Session.
Heard(kb) == inRun /\ linkedIn[kb] = run

\* wlroots runs: a request, a device or the end of the turn may come.
WlrootsRuns == inRun /\ frame = "none"

ConsumerRuns == frame # "none" \/ ~inRun

RunStart == /\ ~inRun /\ run < MaxRuns
            /\ run' = run + 1 /\ inRun' = TRUE
            /\ consumed' = FALSE /\ waiting' = 0
            /\ UNCHANGED <<devices, modifiers, grabbing, frame, outer, alone,
                           ownAnswer, last>>

\* The Session goes with its inputs and its queue; RuntimeInner stays.
RunEnd == /\ WlrootsRuns
          /\ inRun' = FALSE
          /\ waiting' = 0
          /\ UNCHANGED <<run, devices, modifiers, grabbing, frame, outer, alone,
                         ownAnswer, consumed, last>>

-----------------------------------------------------------------------------
(* Keyboards *)

\* A capability for what is recorded.
UpdateSeatCapabilities == caps' = (keyboards' # {})

\* Mutant: a grab that is held keeps its keyboard.
ResyncGrabKeyboardNever(kb) == UNCHANGED <<grabKeyboard, grabMods>>

(* A grab reads the seat's keyboard once, when it is made: it is pointed   *)
(* at the new one, and wlroots sends it the modifiers.                     *)
ResyncGrabKeyboard(kb) ==
  /\ grabKeyboard' = IF grab # NoGrab THEN kb ELSE grabKeyboard
  /\ grabMods' = IF grab # NoGrab THEN FALSE ELSE grabMods

\* wlr_seat_set_keyboard sends the modifiers of the new keyboard, none held.
OnNewKeyboard(kb) ==
  /\ WlrootsRuns
  /\ kb \notin plugged
  /\ plugged' = plugged \cup {kb}
  /\ linkedIn' = [linkedIn EXCEPT ![kb] = run]
  /\ mods' = [mods EXCEPT ![kb] = FALSE]
  /\ active' = kb
  /\ clientMods' = FALSE
  /\ ResyncGrabKeyboard(kb)
  /\ keyboards' = keyboards \cup {kb}
  /\ UpdateSeatCapabilities
  /\ UNCHANGED <<runs, grabs, grab, grabRun, delivery>>

(* wlroots' part of an unplugging: the seat and the grab drop the pointer. *)
Unplug(kb) ==
  /\ plugged' = plugged \ {kb}
  /\ active' = IF active = kb THEN NoKeyboard ELSE active
  /\ grabKeyboard' = IF grabKeyboard = kb THEN NoKeyboard ELSE grabKeyboard

OnInputDestroy(kb) ==
  /\ WlrootsRuns /\ kb \in plugged /\ Heard(kb)
  /\ Unplug(kb)
  /\ linkedIn' = [linkedIn EXCEPT ![kb] = 0]
  /\ keyboards' = keyboards \ {kb}
  /\ UpdateSeatCapabilities
  /\ UNCHANGED <<runs, modifiers, grabs, grabMods, grab, grabRun, delivery>>

\* A device announced in an earlier run goes: nothing is linked to it.
UnheardDestroy(kb) ==
  /\ frame = "none" /\ kb \in plugged /\ ~Heard(kb)
  /\ Unplug(kb)
  /\ UNCHANGED <<runs, linkedIn, keyboards, caps, modifiers, grabs, grabMods, grab,
                 grabRun, delivery>>

-----------------------------------------------------------------------------
(* The grab *)

OnInputMethodGrabKeyboard(g) ==
  /\ WlrootsRuns
  /\ grabs = {}
  /\ grabs' = {g} /\ grab' = g /\ grabRun' = run
  /\ grabKeyboard' = active
  /\ grabMods' = (active # NoKeyboard /\ mods[active])
  /\ UNCHANGED <<runs, devices, modifiers, delivery>>

NoGrabLeft == grabs' = {} /\ grabKeyboard' = NoKeyboard /\ grabMods' = FALSE

(* The client releases the grab or destroys its input-method.  With the    *)
(* Session of its listener gone this is undefined, and has no action.      *)
OnInputMethodGrabDestroy ==
  /\ WlrootsRuns
  /\ grab # NoGrab /\ grabRun = run
  /\ grab' = NoGrab
  /\ NoGrabLeft
  /\ UNCHANGED <<runs, devices, modifiers, grabRun, delivery>>

\* By the consumer, also in the handler of the key that would go to it.
DestroyKeyboardGrab ==
  /\ ConsumerRuns
  /\ grab # NoGrab
  /\ grab' = NoGrab
  /\ NoGrabLeft
  /\ UNCHANGED <<runs, devices, modifiers, grabRun, delivery>>

-----------------------------------------------------------------------------
(* Modifiers *)

\* To the grab instead of the client.
OnModifiers(sent) ==
  IF grab # NoGrab THEN grabMods' = sent /\ UNCHANGED clientMods
                   ELSE clientMods' = sent /\ UNCHANGED grabMods

(* What is forwarded is the state of the seat's keyboard, whichever one    *)
(* emitted the signal; with none on the seat, nothing.                     *)
ModifiersChange(kb) ==
  /\ WlrootsRuns \/ (~inRun /\ frame = "none")
  /\ kb \in plugged
  /\ mods' = [mods EXCEPT ![kb] = ~mods[kb]]
  /\ IF Heard(kb) /\ active # NoKeyboard
       THEN OnModifiers(mods'[active])
       ELSE UNCHANGED <<clientMods, grabMods>>
  /\ UNCHANGED <<runs, devices, grabs, grabKeyboard, grab, grabRun, delivery>>

\* Keyboard focus moves: the enter carries the modifiers.
FocusMoves ==
  /\ active # NoKeyboard
  /\ clientMods' = mods[active]
  /\ UNCHANGED <<runs, devices, mods, grabbing, delivery>>

-----------------------------------------------------------------------------
(* Keys *)

\* Mutant: the flag still holds the answer to an earlier key.
ResetNever == consumed

\* last_key_consumed.set(false), before emit.
Reset == FALSE

Destination(isConsumed) == IF isConsumed THEN "withheld"
                           ELSE IF grab # NoGrab THEN "grab" ELSE "client"

\* No handler runs: the key is delivered, and on_key waits for emit.
OnKey(kb) ==
  /\ WlrootsRuns
  /\ kb \in plugged /\ Heard(kb) /\ active # NoKeyboard
  /\ consumed' = Reset
  /\ frame' = "deliver" /\ outer' = "key" /\ alone' = TRUE /\ ownAnswer' = FALSE
  /\ UNCHANGED <<runs, devices, modifiers, grabbing, waiting, last>>

\* A handler runs: emit queues the key and returns at once.
OnKeyDeferred(kb) ==
  /\ frame # "none" /\ waiting < MaxWaiting
  /\ kb \in plugged /\ Heard(kb) /\ active # NoKeyboard
  /\ consumed' = Reset
  /\ waiting' = waiting + 1
  /\ last' = [deferred |-> TRUE, alone |-> FALSE, answer |-> FALSE,
              to |-> Destination(consumed')]
  /\ UNCHANGED <<runs, devices, modifiers, grabbing, frame, outer, alone, ownAnswer>>

\* Any other event is emitted, or should_stop is asked.
OtherHandler ==
  /\ WlrootsRuns
  /\ frame' \in {"deliver", "stop"}
  /\ outer' = "other" /\ alone' = TRUE /\ ownAnswer' = FALSE
  /\ UNCHANGED <<runs, devices, modifiers, grabbing, waiting, consumed, last>>

\* Mutant: deliver_all drops the handler's answer.
AnsweredNothing(answer) == consumed

\* The flag after the handler's return, if the handler was SeatHandler::key.
Answered(answer) == IF outer = "key" \/ ~alone THEN answer ELSE consumed

\* The drain loop of emit finds another event in the queue.
More == waiting > 0

(* The handler returns, and emit hands the next queued key over, or comes  *)
(* back to on_key, which reads the flag and the grab only now.  The        *)
(* keyboard it read before emit is still the seat's: setting it on the     *)
(* seat again changes nothing.                                             *)
HandlerReturns(answer) ==
  /\ frame = "deliver"
  /\ consumed' = Answered(answer)
  /\ ownAnswer' = IF alone THEN answer ELSE ownAnswer
  /\ IF More
       THEN /\ waiting' = waiting - 1 /\ alone' = FALSE
            /\ UNCHANGED <<frame, last>>
       ELSE /\ frame' = "none"
            /\ last' = IF outer = "key"
                         THEN [deferred |-> FALSE, alone |-> alone,
                               answer |-> ownAnswer', to |-> Destination(consumed')]
                         ELSE last
            /\ UNCHANGED <<waiting, alone>>
  /\ UNCHANGED <<runs, devices, modifiers, grabbing, outer>>

\* in_handler_frame has no drain loop; the run goes on, or ends (RunEnd).
StopReturns == /\ frame = "stop" /\ frame' = "none"
               /\ UNCHANGED <<runs, devices, modifiers, grabbing, outer, alone,
                              ownAnswer, waiting, consumed, last>>

Next == \/ RunStart \/ RunEnd
        \/ \E kb \in Keyboards : \/ OnNewKeyboard(kb)
                                 \/ OnInputDestroy(kb) \/ UnheardDestroy(kb)
                                 \/ ModifiersChange(kb)
                                 \/ OnKey(kb) \/ OnKeyDeferred(kb)
        \/ \E g \in Grabs : OnInputMethodGrabKeyboard(g)
        \/ OnInputMethodGrabDestroy \/ DestroyKeyboardGrab
        \/ FocusMoves
        \/ OtherHandler \/ (\E answer \in BOOLEAN : HandlerReturns(answer))
        \/ StopReturns

Spec == Init /\ [][Next]_vars

-----------------------------------------------------------------------------
(* Properties *)

TypeOK == /\ run \in 0..MaxRuns /\ inRun \in BOOLEAN
          /\ plugged \subseteq Keyboards /\ keyboards \subseteq Keyboards
          /\ linkedIn \in [Keyboards -> 0..MaxRuns]
          /\ caps \in BOOLEAN /\ active \in plugged \cup {NoKeyboard}
          /\ mods \in [Keyboards -> BOOLEAN] /\ clientMods \in BOOLEAN
          /\ grabs \subseteq Grabs /\ grab \in Grabs \cup {NoGrab}
          /\ grabRun \in 0..MaxRuns
          /\ grabKeyboard \in plugged \cup {NoKeyboard} /\ grabMods \in BOOLEAN
          /\ frame \in {"none", "deliver", "stop"} /\ outer \in {"key", "other"}
          /\ alone \in BOOLEAN /\ ownAnswer \in BOOLEAN
          /\ waiting \in 0..MaxWaiting /\ consumed \in BOOLEAN
          /\ last \in [deferred : BOOLEAN, alone : BOOLEAN, answer : BOOLEAN,
                       to : {"client", "grab", "withheld"}]

(* No key and no modifiers are heard of a device that is gone (wlroots     *)
(* aborts on a listener left behind), and each device that is heard is     *)
(* counted and advertised, so that clients bind a keyboard (InputDevice,   *)
(* update_seat_capabilities).                                              *)
HeardAreTracked ==
  \A kb \in Keyboards : Heard(kb) => kb \in plugged \cap keyboards /\ caps

(* The grab that on_key and on_modifiers send to is never one that was     *)
(* destroyed, by its client or by destroy_keyboard_grab in the very        *)
(* handler that is deciding on the key.                                    *)
GrabLive == grab # NoGrab => grab \in grabs

(* A held grab is on the seat's keyboard, whatever was plugged in or       *)
(* unplugged since it was made (resync_input_method_grab_keyboard); and    *)
(* what it was sent is that keyboard's modifiers.                          *)
GrabFollowsSeat ==
  grab # NoGrab => /\ grabKeyboard = active
                   /\ active # NoKeyboard /\ Heard(active) => grabMods = mods[active]

(* A key that had to be deferred is never withheld, whatever was answered  *)
(* to the keys before it (the comment in on_key).                          *)
DeferredIsForwarded == last.deferred => last.to # "withheld"

(* A key is withheld exactly if its own handler consumed it, as long as no *)
(* deferred key was delivered under it (SeatHandler::key).                 *)
LoneKeyObeysHandler ==
  ~last.deferred /\ last.alone => (last.to = "withheld" <=> last.answer)

(* The doc of SeatHandler::key (handler.rs:1273): a key whose handler      *)
(* answers false is forwarded, whatever was delivered in between.          *)
UnconsumedIsForwarded == ~last.deferred /\ ~last.answer => last.to # "withheld"
=============================================================================
