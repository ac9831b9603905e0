------------------------------ MODULE Dispatch ------------------------------
(***************************************************************************)
(* Event delivery in the wlr crate (crates/wlr/src/dispatch.rs) and the    *)
(* run loop that drives it (Backend::run_inner in backend.rs).             *)
(*                                                                         *)
(* Everything happens on one thread, so the state of the program is its    *)
(* call stack, the thread-local flags the guards set and restore, and the  *)
(* queue of the session's Dispatcher.  Consumer code (a handler, the       *)
(* should_stop query, a closure borrowed into the scene) may call back     *)
(* into the crate at any point; wlroots may emit a signal inside any call. *)
(***************************************************************************)
EXTENDS Naturals, Sequences, FiniteSets, Functions

CONSTANTS Displays,     \* the wl_displays a run can be given
          NoDisplay,    \* CURRENT_DISPLAY = 0, and Backend::run's `None`
          MaxEvents,    \* bound: events emitted in a behaviour
          MaxForeign,   \* bound: nested foreign frames
          MaxLoops      \* bound: nested calls that drive the loop

ASSUME DispatchAssumption == /\ NoDisplay \notin Displays
                             /\ MaxEvents \in Nat
                             /\ MaxForeign \in Nat
                             /\ MaxLoops \in Nat

VARIABLES
  stack,          \* the frames on the thread's stack, innermost last
  inHandler,      \* thread-local IN_HANDLER
  inDelivery,     \* thread-local IN_DELIVERY
  foreignFrames,  \* thread-local FOREIGN_FRAMES
  currentDisplay, \* thread-local CURRENT_DISPLAY
  running,        \* thread-local RUNNING (ReentryGuard)
  phase,          \* where run_inner is: "idle" when no run is on the stack
  inDispatch,     \* Dispatcher::in_dispatch of the live session
  deferred,       \* Dispatcher::deferred of the live session
  emitted,        \* number of events emitted so far; event n is the n-th
  log             \* events handed to a handler, in the order of hand-over

flags == <<inHandler, inDelivery, foreignFrames>>
runVars == <<currentDisplay, running, phase>>
queueVars == <<inDispatch, deferred, emitted, log>>
vars == <<stack, flags, runVars, queueVars>>

-----------------------------------------------------------------------------
(* Frames.  "deliver" and "stop" are HandlerGuard frames, which hold the   *)
(* `&mut S`; "foreign" is a ForeignFrame; "loop" is a bare                 *)
(* EventLoop::dispatch and "flush" Display::flush_clients; "run" is        *)
(* run_inner.  A frame keeps what its guard will restore when it drops.    *)

StateKinds == {"deliver", "stop"}
GuardKinds == StateKinds \cup {"foreign"}
DriveKinds == {"loop", "flush"}
LoopKinds == DriveKinds \cup {"run"}
Kinds == GuardKinds \cup LoopKinds
Phases == {"idle", "startup", "turn", "flush", "query", "stopped"}

Frame == [kind : Kinds, handler : BOOLEAN, delivery : BOOLEAN,
          display : Displays \cup {NoDisplay}]

NewFrame(k) == [kind |-> k, handler |-> inHandler, delivery |-> inDelivery,
                display |-> currentDisplay]

TopFrame == stack[Len(stack)]
Below == SubSeq(stack, 1, Len(stack) - 1)
TopIs(k) == stack # <<>> /\ TopFrame.kind = k

\* Consumer code has control: nothing of the crate is running, or the
\* innermost frame called a handler, the query or a borrowing closure.
ConsumerRuns == stack # <<>> => TopFrame.kind \in GuardKinds

\* libwayland is inside wl_event_loop_dispatch.
DispatchRuns == \/ TopIs("loop")
                \/ TopIs("run") /\ phase = "turn"

\* wlroots has control: inside a dispatch, a flush or the run's startup.
WlrootsRuns == \/ DispatchRuns
               \/ TopIs("flush")
               \/ TopIs("run") /\ phase \in {"startup", "flush"}

\* Who can reach the entry points that drive libwayland.  They ask no more
\* than their flags, so code that wlroots calls with no guard can too: that
\* is the log sink, whose documentation asks it not to.
CallsIn == ConsumerRuns \/ WlrootsRuns

-----------------------------------------------------------------------------
Init == /\ stack = <<>>
        /\ inHandler = FALSE
        /\ inDelivery = FALSE
        /\ foreignFrames = 0
        /\ currentDisplay = NoDisplay
        /\ running = FALSE
        /\ phase = "idle"
        /\ inDispatch = FALSE
        /\ deferred = <<>>
        /\ emitted = 0
        /\ log = <<>>

(* HandlerGuard::enter, for a frame of kind k. *)
EnterHandlerGuard(k) ==
  /\ stack' = Append(stack, NewFrame(k))
  /\ inDispatch' = TRUE
  /\ inHandler' = TRUE
  /\ inDelivery' = TRUE

\* Mutant: the guard's drop clears the flags instead of restoring them.
DropHandlerGuardClearing ==
  /\ inHandler' = FALSE
  /\ inDelivery' = FALSE
  /\ inDispatch' = FALSE

(* HandlerGuard::drop of the innermost frame. *)
DropHandlerGuard ==
  /\ inHandler' = TopFrame.handler
  /\ inDelivery' = TopFrame.delivery
  /\ inDispatch' = FALSE

-----------------------------------------------------------------------------
(* Dispatcher::emit.  A listener exists only while a session does, so a    *)
(* signal fired outside a run reaches no one.                              *)

CanEmit == /\ running
           /\ emitted < MaxEvents
           /\ ConsumerRuns \/ WlrootsRuns

EmitDeferred ==
  /\ CanEmit
  /\ inDispatch
  /\ emitted' = emitted + 1
  /\ deferred' = Append(deferred, emitted')
  /\ UNCHANGED <<stack, flags, runVars, inDispatch, log>>

EmitNow ==
  /\ CanEmit
  /\ ~inDispatch
  /\ emitted' = emitted + 1
  /\ log' = Append(log, emitted')
  /\ EnterHandlerGuard("deliver")
  /\ UNCHANGED <<foreignFrames, runVars, deferred>>

\* Mutant: the drain loop takes the newest event.
HandlerReturnNewest ==
  /\ TopIs("deliver")
  /\ \/ /\ deferred # <<>>
        /\ log' = Append(log, deferred[Len(deferred)])
        /\ deferred' = SubSeq(deferred, 1, Len(deferred) - 1)
        /\ UNCHANGED <<stack, flags, inDispatch>>
     \/ /\ deferred = <<>>
        /\ stack' = Below
        /\ DropHandlerGuard
        /\ UNCHANGED <<foreignFrames, deferred, log>>
  /\ UNCHANGED <<runVars, emitted>>

\* Mutant: emit returns without the drain loop.
HandlerReturnUndrained ==
  /\ TopIs("deliver")
  /\ stack' = Below
  /\ DropHandlerGuard
  /\ UNCHANGED <<foreignFrames, deferred, log, runVars, emitted>>

(* A handler returned to emit: the drain loop hands over the next event    *)
(* under the same guard, or the guard drops.                               *)
HandlerReturn ==
  /\ TopIs("deliver")
  /\ \/ /\ deferred # <<>>
        /\ log' = Append(log, Head(deferred))
        /\ deferred' = Tail(deferred)
        /\ UNCHANGED <<stack, flags, inDispatch>>
     \/ /\ deferred = <<>>
        /\ stack' = Below
        /\ DropHandlerGuard
        /\ UNCHANGED <<foreignFrames, deferred, log>>
  /\ UNCHANGED <<runVars, emitted>>

-----------------------------------------------------------------------------
(* ForeignFrame::enter and drop.                                           *)

PushForeign ==
  /\ foreignFrames < MaxForeign
  /\ foreignFrames' = foreignFrames + 1
  /\ stack' = Append(stack, NewFrame("foreign"))
  /\ inHandler' = TRUE
  /\ UNCHANGED <<inDelivery, runVars, queueVars>>

(* Consumer code lends a closure to the scene graph.                       *)
EnterForeign == ConsumerRuns /\ PushForeign

(* libwayland calls the closure of a timeline's waiter: consumer code with *)
(* no `&mut S`, directly above the dispatch it is called from.             *)
OnTimelineReady == DispatchRuns /\ PushForeign

LeaveForeign ==
  /\ TopIs("foreign")
  /\ inHandler' = TopFrame.handler
  /\ foreignFrames' = foreignFrames - 1
  /\ stack' = Below
  /\ UNCHANGED <<inDelivery, runVars, queueVars>>

-----------------------------------------------------------------------------
(* The public entry points that drive libwayland: EventLoop::dispatch and  *)
(* Display::flush_clients.  Both refuse while IN_HANDLER is set.           *)

LoopDepth == {i \in DOMAIN stack : stack[i].kind \in DriveKinds}

\* Mutant: the entry point does not ask in_handler.
DriveLoopUnchecked(k) ==
  /\ CallsIn
  /\ Cardinality(LoopDepth) < MaxLoops
  /\ stack' = Append(stack, NewFrame(k))
  /\ UNCHANGED <<flags, runVars, queueVars>>

DriveLoop(k) ==
  /\ CallsIn
  /\ ~inHandler
  /\ Cardinality(LoopDepth) < MaxLoops
  /\ stack' = Append(stack, NewFrame(k))
  /\ UNCHANGED <<flags, runVars, queueVars>>

LoopReturn ==
  /\ \E k \in DriveKinds : TopIs(k)
  /\ stack' = Below
  /\ UNCHANGED <<flags, runVars, queueVars>>

-----------------------------------------------------------------------------
(* Backend::run (d = NoDisplay) and Backend::run_all: refuse inside a      *)
(* handler, refuse a second run, pin the display, create the session.      *)

(* DisplayPinGuard.  A second run is refused, so what it saves and restores *)
(* is always NoDisplay.                                                    *)
PinDisplay(d) == currentDisplay' = IF d = NoDisplay THEN currentDisplay ELSE d

RunStart(d) ==
  /\ CallsIn
  /\ ~inHandler
  /\ ~running
  /\ running' = TRUE
  /\ stack' = Append(stack, NewFrame("run"))
  /\ PinDisplay(d)
  /\ phase' = "startup"
  /\ UNCHANGED <<flags, queueVars>>

Advance(from, to) ==
  /\ TopIs("run")
  /\ phase = from
  /\ phase' = to
  /\ UNCHANGED <<stack, flags, currentDisplay, running, queueVars>>

Started == Advance("startup", "turn")
Dispatched == Advance("turn", "flush")
Flushed == Advance("flush", "query")

(* The run is over: startup failed, wl_event_loop_dispatch failed, the     *)
(* backend died during the turn, the turns asked for are used up, or       *)
(* should_stop said so.  The guards of run_inner drop, and the session     *)
(* with its queue.                                                         *)
RunReturn ==
  /\ TopIs("run")
  /\ phase \in {"startup", "turn", "flush", "stopped"}
  /\ running' = FALSE
  /\ currentDisplay' = TopFrame.display
  /\ phase' = "idle"
  /\ stack' = Below
  /\ deferred' = <<>>
  /\ UNCHANGED <<flags, inDispatch, emitted, log>>

\* Mutant: should_stop is called with every flag down.
AskStopUnguarded ==
  /\ TopIs("run")
  /\ phase = "query"
  /\ stack' = Append(stack, NewFrame("stop"))
  /\ UNCHANGED <<flags, runVars, queueVars>>

(* Between turns run_inner asks should_stop, as a handler frame.           *)
AskStop ==
  /\ TopIs("run")
  /\ phase = "query"
  /\ EnterHandlerGuard("stop")
  /\ UNCHANGED <<foreignFrames, runVars, deferred, emitted, log>>

(* should_stop answered: the run ends next, or takes another turn.         *)
StopReturn(stop) ==
  /\ TopIs("stop")
  /\ stack' = Below
  /\ DropHandlerGuard
  /\ phase' = IF stop THEN "stopped" ELSE "turn"
  /\ UNCHANGED <<foreignFrames, currentDisplay, running, deferred, emitted, log>>

-----------------------------------------------------------------------------
Next == \/ EmitDeferred
        \/ EmitNow
        \/ HandlerReturn
        \/ EnterForeign
        \/ OnTimelineReady
        \/ LeaveForeign
        \/ \E k \in DriveKinds : DriveLoop(k)
        \/ LoopReturn
        \/ \E d \in Displays \cup {NoDisplay} : RunStart(d)
        \/ Started
        \/ Dispatched
        \/ Flushed
        \/ RunReturn
        \/ AskStop
        \/ \E stop \in BOOLEAN : StopReturn(stop)

Spec == Init /\ [][Next]_vars

(* Consumer code is assumed to return after finitely many calls: strong,   *)
(* because every nested closure a handler opens disables its own return.   *)
Fairness == /\ SF_vars(HandlerReturn)
            /\ \A n \in 1..MaxForeign : SF_vars(LeaveForeign /\ foreignFrames = n)
FairSpec == Spec /\ Fairness

-----------------------------------------------------------------------------
(* Properties *)

Depth == DOMAIN stack
HasFrame(kinds) == \E i \in Depth : stack[i].kind \in kinds

TypeOK == /\ stack \in Seq(Frame)
          /\ inHandler \in BOOLEAN
          /\ inDelivery \in BOOLEAN
          /\ foreignFrames \in 0..MaxForeign
          /\ currentDisplay \in Displays \cup {NoDisplay}
          /\ running \in BOOLEAN
          /\ phase \in Phases
          /\ inDispatch \in BOOLEAN
          /\ deferred \in Seq(1..MaxEvents)
          /\ emitted \in 0..MaxEvents
          /\ log \in Seq(1..MaxEvents)

\* The `&mut S` is never aliased: at most one frame that holds it is on the
\* stack, whatever a handler or should_stop calls.
StateNotAliased ==
  \A i, j \in Depth :
    stack[i].kind \in StateKinds /\ stack[j].kind \in StateKinds => i = j

\* While consumer code holds a borrowed handle, libwayland is not driven
\* underneath it: no loop or run frame is above a guard frame.
LoopNotDrivenInHandler ==
  \A i, j \in Depth :
    i < j /\ stack[i].kind \in GuardKinds => stack[j].kind \notin LoopKinds

\* The three flags say what they are documented to say at every point,
\* after any nesting of guards and any early return.
FlagsAgreeWithStack ==
  /\ inHandler = HasFrame(GuardKinds)
  /\ inDelivery = HasFrame(StateKinds)
  /\ inDispatch = HasFrame(StateKinds)
  /\ running = HasFrame({"run"})

\* The display is pinned only while a run is on the stack.
PinnedOnlyInRun == ~running => currentDisplay = NoDisplay

\* Every guard takes back what it set, on every way out.
GuardsRestore == FlagsAgreeWithStack /\ PinnedOnlyInRun

\* An event queued under a delivery is handed over before control returns
\* to wlroots, provided consumer code returns.
QueuedInHandlerIsDelivered ==
  (HasFrame({"deliver"}) /\ deferred # <<>>) ~> (deferred = <<>>)
-----------------------------------------------------------------------------
(* What Dispatch implements: the users of S are the query, the handler of  *)
(* an event, and nobody.                                                   *)

CONSTANTS Nobody, Query

ASSUME UserAssumption == /\ Nobody # Query
                         /\ {Nobody, Query} \cap (1..MaxEvents) = {}

Users == {i \in Depth : stack[i].kind \in StateKinds}

\* S's user: the innermost frame that holds `&mut S`.
User == IF Users = {} THEN Nobody
        ELSE IF \E i \in Users : stack[i].kind = "stop" THEN Query
        ELSE log[Len(log)]

D == INSTANCE Delivery WITH
       arrived <- emitted,
       user <- User,
       waiting <- Range(deferred),
       handled <- Range(log)

\* emit's queue, drain loop and guards keep the promise of Delivery: one user
\* of S at a time, an event handed over at once or queued and handed over in
\* its turn, and the queue dropped only with the session.
ImplementsDelivery == D!Spec
=============================================================================
