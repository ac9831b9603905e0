# wlr: a TLA+ verification project

`crates/wlr` is a safe Rust layer over wlroots. Everything runs on one thread,
but the hard concurrency is there all the same: wlroots emits signals from
*inside* API calls, so consumer code (a handler) can be interrupted by another
event, can free the object whose signal is being emitted, and can call the
function that is calling it. This project models the parts of the crate that
make this sound, checks them with TLC on small instances, and proves the most
important invariants with TLAPS for every value of the constants.

Paths below are relative to `src/crates/wlr/src/` unless they start with `src/`.

## The system

| Part | State it keeps | Operations | Hard behaviour |
|---|---|---|---|
| Dispatcher and guards (`dispatch.rs`) | thread-locals `IN_HANDLER`, `IN_DELIVERY`, `FOREIGN_FRAMES`, `CURRENT_DISPLAY`; a `Dispatcher`'s `in_dispatch` and `deferred` queue | `emit`, `in_handler_frame`, `HandlerGuard`, `ForeignFrame`, `DisplayPinGuard` | nested emissions, guards nested in any order, events queued and drained |
| Run loop (`backend.rs`, `run_inner`) | `RUNNING`, the `Session` with every listener, the guards that clear the `Runtime`'s tables | `run`, `run_all`, startup, turns, drains, flush, `should_stop` | early returns at every point, consumer code between turns, runs one after another on one `Runtime` |
| Display and loop (`display.rs`) | the `wl_display` | `dispatch`, `flush_clients`, drop | may not be driven while a handle is borrowed |
| Descriptor sources (`interest.rs`, `runtime.rs`) | `sources`, `pending_close`, `live_sources` | `add_fd`, `remove_fd`, `with_fd`, registration | a descriptor removed while it is lent, sources that outlive a run |
| Session lock (`session_lock.rs`) | `session_locked`, `session_lock`, `session_unlock_requested`, `session_locked_sent`, `lock_surface_trees`, `session_lock_fill` | new lock, new surface, commit, unlock, destroy | crash of the lock client and takeover, hotplug while locked, run end while locked |
| Deferred destroys (`runtime.rs`, `foreign_toplevel.rs`) | `pending_layer_destroys`, `pending_foreign_toplevel_destroys`, the manager's liveness flag | `destroy_layer_surface`, handle drop, the turn's drain | destroys asked for under the object's own signal, objects that die before the drain |
| Shell objects (`toplevel.rs`, `popup.rs`, `layer.rs`, `decoration.rs`, `surface.rs`) | by-id tables of the `Runtime`, per-object listeners in the `Session` | announce, commit, map, unmap, destroy; the mode of a decoration; configure and dismiss popups | handlers between a commit and its answer, staged modes, chains destroyed from a list, tables cleared with the run |
| Scene graph (`scene/`, `runtime.rs`) | node rows by id, older rect and buffer rows with their parents, `node_borrows` | create, observe, borrow, move, destroy | recursive destroy, cycles, nested closures, the lock's fill |
| Keyboards, key routing (`backend.rs`, `runtime.rs`) | `inputs` and `last_key_consumed` of the `Session`, `keyboards` and `keyboard_grab` of the `Runtime`; the seat's keyboard | new input, destroy, key, modifiers, grab made, released, destroyed | keys that arrive under a handler, hotplug under a grab, devices that outlive a run |
| Input method (`runtime.rs`, `backend.rs`) | text inputs, the input method, the text input it is active for | enter, leave, enable, disable, commit, destroy | relay across destroys, focus changes, locks and runs |
| Pointer, touch, drags, tablet focus (`backend.rs`, `seat.rs`, `runtime.rs`) | `pointer_grab`, `active_constraint`, `drag_icon_tree`, the session's `pointer_constraints` and `drags`; the seat's focus, buttons and touch points | motion, button, axis, constraints made, moved, destroyed; touch down, motion, up, cancel; drags started, their icons destroyed | implicit and explicit grabs, one-shot constraints, surfaces that go under a grab or a finger, icons that die before their drag, the lock |
| Outputs (`output.rs`, `backend.rs`) | output table, applied heads | commit, configuration apply and test | one head failing after others were committed |
| Rendering (`render/`, `buffer.rs`) | buffers, passes, timelines, swapchains | lock, unlock, submit | ownership of locks |
| Small protocols, Xwayland, data types, `wlr-sys`, tools | little or none | | |

The parts interact in three ways: **calls** from consumer code into the
`Runtime`, at any depth of the stack; **callbacks** from wlroots through
listeners, which all end in `Dispatcher::emit`; and **shared state**, the
`Runtime`, which outlives a run while the `Session` with its listeners does
not. Most hazards come from this last difference, and from the fact that the
only place where nothing is borrowed is a point between two turns.

What makes each part correct: the dispatcher hands each event over once, in
order, and never while `&mut S` is in use; the guards' flags always tell the
truth; a descriptor is open while lent, and each event source removed exactly
once; a locked session is unlocked only by the client that holds the lock; an
object is freed once and never under its own signal; an id resolves to a live
object or to nothing; nothing a closure holds is freed; the pointer stays on the
surface it was pressed on, and off every application once the session is
locked. `PROJECT.json` lists the hazards by line.

## Modules

| Module | Models | Runs | Proofs |
|---|---|---|---|
| `Delivery` | abstract: one user of the state, each event handed over at most once, waiting events served oldest first | | (`Dispatch_proofs` shows that `Dispatch` implements it) |
| `Dispatch` | `dispatch.rs` and the control of `run_inner` | `dispatch` | `Dispatch_proofs` |
| `FdSources` | descriptor sources over several runs | `fd_sources` | `FdSources_proofs` |
| `SceneNodes` | the nodes of the scene graph, their ids, closures over them, and the lock's fill | `scene_nodes` | `LiveNames_proofs` |
| `ShellObjects` | toplevels, decorations, popup chains, surfaces, over several runs | `shell_objects` | `ShellObjects_proofs` |
| `PointerRouting` | pointer focus, the implicit grab, pointer constraints, touch points, drags and their icons, under the lock too | `pointer_routing`, `pointer_lock` | `PointerRouting_proofs` |
| `SessionLock` | the session lock's life cycle over several runs | `session_lock`, `session_lock_stale` | `SessionLock_proofs` |
| `InputMethodRelay` | the relay of text inputs and the input method, driven by keyboard focus and the lock, over several runs | `input_method_relay` | `InputMethodRelay_proofs` |
| `KeyRouting` | keyboards, the keyboard grab, what happens to each key and to modifiers, over several runs | `key_routing`, `key_answer` | `KeyRouting_proofs` |
| `TurnDrain` | deferred destroys over several runs and displays | `turn_drain` | `LiveNames_proofs` |

`MC*` modules add what only TLC needs, such as symmetry sets. Operators commented "Mutant" are plausible
wrong versions of the definition that follows them. No specification uses
them; they show that a property can fail.

### Dispatch

The state of a single-threaded program is its stack, so `stack` is a sequence
of frames: "deliver" and "stop" are `HandlerGuard` frames (a handler, and
`should_stop` run by `in_handler_frame`), "foreign" is a `ForeignFrame`, "loop"
a bare `EventLoop::dispatch`, "flush" `Display::flush_clients`, "run" is
`run_inner`. A foreign frame is pushed by consumer code that lends a closure to
the scene (`EnterForeign`) and by libwayland, which calls the closure of a
timeline's waiter directly from a dispatch (`OnTimelineReady`): there it sits
above a run or a loop frame, `IN_HANDLER` is set though no handler runs, and an
event may be delivered above it. A frame keeps the values its guard
restores on drop. `EmitDeferred` and `EmitNow` are the two branches of `emit`;
`HandlerReturn` is the drain loop, which goes on under the guard of the first
event, or the guard's drop. The run's `phase` follows `run_inner`: startup,
dispatch, flush, `should_stop`; `RunReturn` is any of its error returns or the
end of the turns, and drops the guards and, with the session, the queue;
`StopReturn`, the answer of `should_stop`, sends the run there or to its next
turn. Events are numbers in emission order. Who may call the entry points that
drive libwayland is decided as the code decides it, by their flags alone:
`CallsIn` is consumer code, and whatever wlroots calls with no guard, of which
the crate has one, the log sink (its documentation asks it not to call back).
So a run can start inside a bare `EventLoop::dispatch`, and a loop can be driven
in a turn. `DisplayPinGuard` saves and restores, but what it saves is always
`NoDisplay`: `RUNNING` refuses the second run that could find another value.
The end of the module maps this to `Delivery` (`ImplementsDelivery`): the user
of `S` is whoever the only state frame on the stack runs (the event handed over
last, the query `should_stop`, or nobody), the waiting events are those in
`deferred`, the handled ones those handed over.

### FdSources

A `wl_event_source` is a pair of descriptor and run number, so that a pointer
recorded in an earlier run differs from a live one. `RemoveFd` is the whole of
`remove_fd`: close or queue the descriptor, take the live entry, remove the
source. `Register` installs one source and can be followed by a failure
(`RunReturn` in phase "register"), so a half-registered run is covered.
`DropRegistrations` is the drop of the registrations followed by
`LiveSourcesGuard`. The handler that has control is in `caller`; nesting is
left to `Dispatch`, which shows that there is one at a time.

### SessionLock

Lock objects and their surfaces are external: a lock is born, gets at most one
surface for each output, is destroyed with its surfaces first, or accepts
`unlock_and_destroy` once it was sent `locked`. `unlocking` splits that request
at the point where handlers run between the `unlock` and the `destroy` signal.
`RunEnd` drops the listeners (`lockListeners`, `surfListeners`) and clears the
output table; the lock state in the `Runtime` is left as it is, as in the code.
`focus` distinguishes nothing, an application, and a lock surface.

The crate moves the focus by `wlr_seat_keyboard_notify_enter` and
`_clear_focus`, which go to the seat's keyboard grab. wlroots installs one with
every popup grab and every drag (`popup.rs:16`, `seat_has_explicit_grab`), and
may swallow the change. `Notify` is such a call; `GrabStarts` and `GrabEnds` are
wlroots' own moves, and `before` the focus it may go back to, which also says
whether a grab is in force. A grab is free to swallow or pass each change.

### TurnDrain

`mem` is the allocator's view of each wlroots object, `frees` counts frees.
`layerSurfaces` is the by-id table. A layer surface that is listened to is
"dying" while its destroy handler runs, as wlroots frees it after the
emission. The drain collects the queued ids (`StartDrain`), looks each up again
and destroys it (`DrainLayer`, which calls a handler that may queue more), then
destroys the queued handles if the manager is alive (`DrainHandles`).
`emitting` is the object whose signal the current handler was called under. The
names `DrainInit`, `DrainNext` and `DrainSpec` let a module extend this one and
`SceneNodes`.

### InputMethodRelay

`tracked`, `owner`, `ime` and `driver` are the `Runtime`'s `text_inputs`, the
`client` of an entry, `input_method` and its `focused_text_input`. `entered`
and `imeView` are what wlroots keeps for each: the surface a text input was
sent `enter` for, and whose state the input method was last sent, so that the
table and what the clients were told can disagree. `RelayKeyboardFocus` is
`relay_keyboard_focus`, called while `focus` is still the outgoing surface;
`Leaving` and `Entering` are its two loops. Each mutator of the focus is an
action: the consumer's focus calls, the lock's focus pull, and the first lock
surface, which does not go through the relay. The relay runs before
`NotifySeat`, the notify through the seat's keyboard grab, which may swallow it;
and `GrabStarts` and `GrabEnds` move the focus with no relay (`before` is as in
`SessionLock`). `parted` is a history variable, read by no action: the surfaces
over which the relay and the seat have parted in one of these ways, until a
change that goes through both settles them. `overlay` is the compositor's
view, set by a commit and cleared by the `InputMethodDeactivated` event, or by
the consumer's own focus call. That call returns nothing about the input
method; the code takes it that its caller knows that focus moved
(`backend.rs:8014`), and so does the model. `linkedIn` is the run
whose `Session` an entry's listeners name: the tables survive the run.

### KeyRouting

`linkedIn` is the `Session`'s `inputs`, `keyboards` the `Runtime`'s list.
`OnKey` is `on_key` up to `emit`, `HandlerReturns` each return of a handler
below that `emit`, and, after the last, the rest of `on_key`: it reads
`consumed` (`last_key_consumed`) and the grab only there. `OnKeyDeferred` is
`on_key` when a handler already runs: `emit` queues the key and the rest of
`on_key` follows at once. No call of this crate delivers a key under a
handler; `on_key` provides for it, and the model lets it happen. `last` records
how a key was settled: deferred or not, whether other keys were delivered below
it (`alone`), the handler's answer and the destination. `active` is the seat's
keyboard, dropped by wlroots when it is unplugged; `grabKeyboard` the grab's.
Modifiers are reduced to "held or not" per keyboard, and to what the client and
the grab were last sent.

### SceneNodes

`live` and `parent` are wlroots' own tree; `nodes`, `rects` and `toplevels` are
the rows the `Runtime` keeps about it, so the two can disagree. A node and the
id that names it are one value: an id is never reused in the code, and a value
is reused only after its node died. `Cascade` is `wlr_scene_node_destroy` with
the purge each node's payload runs on the way; `Classify` is `classify_parent`,
which after a move decides anew with which toplevel an older rect is purged.
`Up` is a recursive function bounded by the number of nodes. `held` is the stack
of closures with the node each holds; `nodeBorrows` and `foreignFrames` are the
two counters the code asks, kept apart from it so that they can be wrong.
Toplevels stand for their scene tree, which is freed some time after their
`destroy` signal. The model starts after `init_graphics`. The five bands below
the lock's are one, and moving the trees of layer surfaces and X11 windows
between them, which reclassifies nothing, is harmless for that reason and left
out; so is the order of siblings. The trees of layer surfaces and the rows that
name them are not modelled, nor are popups dismissed from within a closure
(`dismiss_popup` asks no gate).

### ShellObjects

A toplevel or popup stands for its `wl_surface` too: the role and the surface
die apart, and a surface can take its role again. `heard`, `heardSurfaces` and
`heardDecorations` are the listeners of the `Session`, the tables are the
`Runtime`'s. `InitialCommit` is `on_surface_commit` or `on_popup_commit` up to
`emit`; the consumer then acts in the handler (`SetDecorationMode`,
`DismissPopup`, `ConfigurePopup`), and `ToplevelCommitReturns` or
`PopupCommitReturns` is the rest of the callback. `Answer` is the two branches
of `set_decoration_mode`, sent or staged; `ModeReturns` is the answer
`deliver_all` gives when the handler gave none. `dismiss_popup` works from a
list taken before its first destroy: `victims` is what is left of it. The list is
made from the `Runtime`'s rows, `MaxDepth` levels deep (`Level`); what wlroots
destroys with a popup is everything alive that hangs off it, at any depth
(`Family`), so that a list that missed a popup would show.

### PointerRouting

A pointer event is two actions, as in the code: up to the delivery (`Motion`,
`Button`, `Axis`), and the routing after it (`RouteMotion`, `RouteButton`,
`RouteAxis`); handlers and the consumer's calls come between. Where the cursor
is does not matter, only what `leaf_surface_at` can find (`Hits`). `Enter` is
`enter_surface_under_cursor`, the only place that moves the focus, with the
activation of constraints that follows it; an explicit grab (a popup's, a
drag's) may refuse the surface. A surface or a constraint can be born again at
the address of a dead one, as the comments on `grab_still_applies` fear.
`SetLocked` is what `begin_session_lock` and `unlock_session` mean for the
pointer: a flag that `leaf_surface_at` and the activation read, and nothing else.
Touch has no implicit grab: a point is focused anew by each motion, through the
same `Hits`, which is why `LockTakesPointer` holds for a finger that was down
before the lock. `Forwardable` is the gate of `on_touch_motion` and
`on_touch_up`; a point whose client is gone does not pass it, and the step is
left out because it changes nothing. A drag is started from a held button or a
touch point (`Entitled`) and, for the pointer, is an explicit grab. `icon` is
wlroots' icon with its scene tree, `iconTree` the record in the `Runtime` and
`iconHeard` the listener in the `Session`; `OnDragDestroy` is run both when the
drag ends and when only the icon's surface is destroyed.

## Runs

| Run | Expected | Distinct states | Shows |
|---|---|---|---|
| `dispatch` | pass | 48,617 | no aliasing of the state, no loop driven under a borrow, truthful flags, exactly-once ordered delivery, refinement of `Delivery`; events queued under a delivery are handed over before control returns to wlroots |
| `fd_sources` | pass | 32,624 | the descriptor properties |
| `session_lock` | pass | 1,507,482 | the session is unlocked by its locker alone, only a keyboard grab gives an application the focus under the lock, `locked` is sent once and to a client that covers every output, the fill is there when it must be |
| `session_lock_stale` | violation | | a recorded lock that is gone |
| `turn_drain` | pass | 14,213 | the properties of deferred destroys with two displays, no double free with one |
| `input_method_relay` | pass | 4,343,302 | the input method is active exactly for the recorded text input, enter and leave follow the focus wherever the relay and the seat have not parted, every deactivation is told |
| `key_routing` | pass | about 111,000 | grabs that are on the seat's keyboard and know its modifiers, keys that obey their handler |
| `key_answer` | violation | | a key withheld on the answer to another |
| `scene_nodes` | pass | 507,610 | rows that name live nodes, a tree without cycles, nothing held is freed, rects that follow their toplevel, a fill nobody moves |
| `shell_objects` | pass | 230,926 | tables and listeners in step, configures and decoration modes that reach the right object, popups dismissed leaf first |
| `pointer_routing` | pass | 1,677,580 | the pressed surface keeps the pointer, at most one constraint is active, the lock gives neither pointer nor finger to an application, what a motion moves as a drag's icon is alive |
| `pointer_lock` | violation | | motion to an application while locked |

**Bounds.** `MaxEvents = 4` lets an event be delivered, two be queued under it
and a last one come from `should_stop`; `MaxForeign = 2` nests closures, of
the scene and of timeline waiters, in each other and below and above a delivery;
`MaxLoops = 2` drives the loop below a run, in one, and in another drive of it;
no other frame needs a bound, as the guards allow one of each. One display suffices in `Dispatch`: it is compared only with
`NoDisplay`. Three descriptors and three runs give one removed by itself, one
removed by another and one that stays, with sources of an earlier and a later
run. Two outputs, three locks and two runs give a holder, a rival and a
successor, coverage that is partial, and a lock taken in one run and met in
the next. Two layer surfaces and two handles give one that is dying while the
other is queued; `MaxQueue = 2` allows the same id twice. `FreedOnce` speaks of
behaviours with one display because with two it fails (see below). In `InputMethodRelay` two text inputs give a driver and a rival, of the
same client or not; two input methods one that is refused; an application
surface for each of two clients a focus change within the relay and across
clients; and a lock surface the path of its own by which the first one is focused (that
a later one is not is `SessionLock`'s). Grabs are not counted, in either module. In
`KeyRouting` two keyboards give the seat's and another, two grabs a successor,
and `MaxWaiting = 2` a key whose answer is overwritten twice. Two runs, in both,
give objects and listeners of an earlier run. In `SceneNodes` two trees and a
rect can be nested in each other, in a band, or in a toplevel, and two closures
nest. In `ShellObjects` three popups make a chain as deep as
`MaxDepth`, and two siblings; runs and objects are not counted, so the
behaviours are unbounded. In `PointerRouting` two surfaces, two constraints and
two buttons give a chord and a rival for each; one more surface is the lock's.
One touch point suffices: points meet only in a cancel. Symmetry is used on
interchangeable model values, never in `dispatch`, which checks liveness. Deadlock
is left unchecked where the bounds on runs, objects or displays let a behaviour
end.

**Fairness.** Only `dispatch` needs it, for `QueuedInHandlerIsDelivered`: strong fairness of the return of
handlers and of borrowing and waiter closures. The code has no scheduler; what is assumed is
that consumer code returns after finitely many calls. Strong, because each
nested closure disables the outer return while it lasts. Nothing is assumed of
wlroots.

A run checks the properties a hazard is about. Most type invariants, and a few
invariants the others rest on (`SourcesAgree` is one), are not checked again by a
run, as `tlapm` proves them for every value of the constants.

## What the violations say

All three are places where the program does not do what a comment of it says.

1. `session_lock_stale`: the end of a run drops the listener that would clear
   `session_lock`. Its safety comment assumes the listener is always there. A
   lock destroyed between runs also makes the next run refuse every new lock.
2. `key_answer`: `emit` drains the queue before it returns, and each key drained
   overwrites `last_key_consumed`: the first key is settled by the last answer.
3. `pointer_lock`: `begin_session_lock` takes the keyboard focus and leaves the
   pointer's. A button held at that moment left an implicit grab, and
   `pointer_motion_to_focus` sends the motions that follow to its surface,
   without the hit test that the lock restricts.

The models contain more such behaviours, which no run singles out; the checked
properties stop short of them:

- after the last drain of a run: an event queued in `should_stop` waits for a
  later event or is dropped with the run (`QueuedInHandlerIsDelivered` speaks of
  deliveries only); a descriptor removed there stays open until the next run
  drains the queue (`ClosedAtOnceWhenIdle` speaks of calls made between runs); a
  `destroy_layer_surface` waits in a queue of ids, and the run's end clears the
  table the id is looked up in, so it is never made, though its documentation
  (`runtime.rs:12598`) says it runs at the turn's drain; a foreign-toplevel
  handle queued there, whose display then goes, is taken for live by the next
  display's drain, because the flag it consults speaks of the current manager
  (`runtime.rs:4137`);
- `on_text_input_enable` compares two pointers, and two null pointers are equal:
  with nothing focused, a text input on no surface activates the input method
  (`backend.rs:6833`);
- `on_input_destroy` gives the seat no other keyboard, and `on_key` gives up on
  a key when the seat has none, so the keys of a keyboard that stays attached go
  nowhere (`backend.rs:11162`);
- tables that outlive the listeners that keep them true: `keyboards`
  (`HeardAreTracked` speaks of devices that are heard), `text_inputs` and
  `input_method`, whose listeners stay linked and name a `Session` that is gone;
  `drag_icon_tree`: a drag that outlives its run ends unheard, and the next run's
  first motion moves the tree that was freed, against the safety comment at
  `runtime.rs:13275` (`IconFollowsDrag` speaks of icons that are listened to);
  `active_constraint`, which `runtime.rs:2747` says is cleared the moment the
  constraint is destroyed, and which dangles when that happens after the run
  (`Activate` lets such a pointer compare as it likes); `pointer_grab`, whose
  record is only ever compared with the focus (`GrabIsFocus`); a decoration of a
  toplevel of an earlier run, which is recorded and never answered;
- keyboard focus and the seat's grabs, under a lock: with a popup's or a drag's
  grab in force when a lock is taken, an application can keep the focus, or get
  it back at the grab's end, though `runtime.rs:10396` says "No normal client
  keeps keyboard focus across a lock" (`OnlyGrabsDefyLock` says that nothing but a
  grab does it); and the first lock surface, its enter swallowed, stays
  unfocused, while no later one is tried;
- focus and the relay: a grab that swallows a change after the relay ran leaves
  the text inputs of the surface that keeps the focus sent `leave`, and those of
  the other entered on a surface that never got it; the focus a grab takes, and
  the one wlroots restores at its end, move without the relay, as does the first
  lock surface's (these are what `parted` records, and the exceptions of
  `FocusedTextInputsEntered`, `NoneLeftEntered` and `DriverLeavesWithFocus`); the
  destruction of the focused surface leaves the input method active (the other
  exception of `DriverLeavesWithFocus`);
- `HandlerGuard` documents the value it restores: "Today it is always `false`"
  (`dispatch.rs:770`). A delivery above a timeline waiter's closure finds it
  true, a case the comment on `ForeignFrame` (`dispatch.rs:813`) describes; the
  guard restores it, which is right (`GuardsRestore`);
- under a lock, a scroll, and a button that joins a held one, also go to the
  surface that had the pointer, and a locked constraint in force keeps it there;
  `LockTakesPointer` says that none gains it;
- the fill of a lock covers the outputs of the moment it was taken
  (`LockIsShown` speaks of when there is a fill, not of what it covers), and a
  lock band that was hidden before the lock stays hidden: `set_node_enabled`
  refuses only to hide it while locked, and nothing shows it again;
- a finger's motion does not move the drag's icon: `reposition_drag_icon` is
  called by the pointer's handlers and by the test helper `inject_touch_motion`,
  not by `on_touch_motion`, so the icon of a touch drag stays where it was,
  though `runtime.rs:13219` says it moves "on every pointer/touch motion";
- the up of a touch point whose client is gone is neither forwarded nor told to
  the handlers, who were told of its down (`touch_point_forwardable`): what a
  handler recorded for the id stays;
- modifiers that change under a grab are sent to the grab, and to the client
  not even when the grab ends;
- a popup of a parent nobody listens to is never announced, and a chain deeper
  than `MAX_POPUP_DEPTH` (64) would lose its order: the part of it that
  `popup_chain` does not reach is destroyed with its parent.

## Proofs

`tlapm` proves the theorems of the eight `*_proofs` modules for any number of
objects, runs, events and displays, from the named assumptions on the
constants (sentinels differ from real values, bounds are naturals, and in
`SceneNodes` the nodes are finitely many). Each component has one inductive
invariant (`IInv`, `DrainInv` for `TurnDrain`), a lemma per group of actions,
and then a theorem for each property.

- `Dispatch_proofs`. That the flags agree with the stack is not inductive: a
  guard restores what its frame remembers. `Restores` says what each frame
  remembers is what was true below it. `Shape` says how frames can be stacked:
  one state frame, one run, the state lent only while a run is on the stack
  (`LentInRun`), and nothing that drives the loop above a guard. Closures can be
  anywhere. `ForeignCounted` ties the counter to the foreign frames. From
  these follow `StateNotAliased`, `LoopNotDrivenInHandler`,
  `FlagsAgreeWithStack` and `PinnedOnlyInRun`, together `GuardsRestore`.

  `KeepsDelivery` is the refinement. It needs `QInv`: the queue holds
  emitted events in ascending order (`InEmissionOrder`), so that its head is the
  oldest that waits, and a handler's frame means that some event
  was handed over (`HandlerHasEvent`), so that `User` names it. Then
  `EmitDeferred` is `Wait`, `EmitNow` is `Handle`, a `HandlerReturn` that drains
  is `HandleNext` and the one that ends is `Rest`, `AskStop` is `Ask`,
  `StopReturn` is `Answer`, the end of a run with its queue is `Close`, and every
  other action leaves the mapped state as it is. `NothingTwice` adds that no event
  is handed over twice, nor queued once it was handed over.
- `SessionLock_proofs`. `UnlockedOnlyByHolder` needs that only the recorded
  lock is listened to (`OneLockHeard`), which needs that a lock is refused
  while one is recorded. `LockedMeansCovered` needs that every recorded surface
  is listened to (`RecordedAreHeard`), hence belongs to the recorded lock.
  `LockedSentOnce` needs that the flag is down only for a lock that was sent
  nothing, or is about to be destroyed (`FlagDownUnsent`). `OnlyGrabsDefyLock`
  needs that an unlock once asked for has taken effect (`UnlockFrees`): the death
  of a lock skips the focus pull after an unlock, and must not while locked.
- `FdSources_proofs`. `InstalledIsRecorded` says the loop's sources and
  `live_sources` are the same set; `NotYetRemoved` that a source in the loop,
  or one that could still be added, was never removed, which is where run
  numbers matter; `CalledInPhase` where consumer code can be running.
- `LiveNames_proofs` proves every safety property of `SceneNodes` and of
  `TurnDrain`.

  *SceneNodes.* `Rooted` speaks of the ancestors of a node, computed by the
  recursive function `Up`. That it has the value its definition says is proved,
  not assumed: `Induction` follows from the library's theorem that a set of
  finite sets has a minimal element, `Repetition` makes of it the function that
  repeats a step K times, and `UpIs` identifies that with `Up`. That the
  ancestors are all reached within `Cardinality(Nodes)` steps (`AboveClosed`) is
  the pigeonhole principle: a path that has not ended by then repeats a node. From
  there `MoveKeepsRooted` (the check `reparent_node` makes excludes cycles),
  `CascadeKeeps` (a subtree goes as a whole), and `NearestKept` (what a move or
  a destroy does to the nearest toplevel or band above a node) carry the
  invariant: `Anchored` (bands and trees stay where the crate put them),
  `Origins` (what a consumer's id may destroy), `RectsClassified` (every recorded
  parent is the nearest one, which gives `RectFollowsToplevel`), `FramesCounted`
  (the two counters the code asks agree with the closures on the stack, which
  gives `HeldIsLive`), and `FillKnown` (there is a fill only under a lock).

  *TurnDrain.* `QueuedAreDropped` keeps queued and owned handles apart,
  `ManagerFreesHandles` says a handle is live only under a live manager, and
  `IdleIsQuiet` that between runs no surface is recorded. `FreedOnce` holds of a
  single display because a queued handle stays allocated while the display does
  (`OneDisplay`), and no handle is queued twice (`QueuedOnce`).
- `InputMethodRelay_proofs`. `RelayEffect` says what the relay does for any
  assignment of surfaces to clients. `NoneLeftEntered` needs that a tracked text
  input is only ever entered on a surface of its own client (`EnteredOnOwn`), as
  the relay leaves only those, from which `DriverLeavesWithFocus` follows too.
  `FocusMove` treats the changes that go through the relay, swallowed or not,
  and `AroundRelay` those that do not; in both, the surfaces for which the
  properties could fail are those added to `parted`.
- `KeyRouting_proofs`. What a run hears was linked in this run or a past one
  (`LinkedInPast`), so a new run starts with no device heard. The grab's
  keyboard and the seat's are changed by the same steps, which makes
  `GrabFollowsSeat` inductive together with the type invariant and
  `HeardAreTracked`.
- `ShellObjects_proofs`. `TablesAgree` is inductive as it stands, with the type
  invariant. `ConfiguredIsLive` needs that a popup found in the table is
  initialized when its commit handler returns (`HandlerSound`, what is true of
  the object a delivery in progress is about, however the handler used its
  time). `ModeIsChosen` needs `ModeTracked`: for every decoration, which of
  staged, sent and chosen agree, by whether it was answered and whether its
  toplevel has committed.

  `LeavesDismissedFirst`: a popup that `dismiss_popup` destroys is destroyed
  alone. `ChainInv` says that a popup's parent is alive (`ParentsLive`), that the
  popups of anything the run listens to are recorded (`ChildrenRecorded`), that
  whatever hangs off a victim is a victim one level further down
  (`ChildrenFirst`), and that a dismissal ends within its handler
  (`DismissedInHandler`); so the deepest victim is a leaf. `LevelIs` shows that
  the recursive `Level` has the value its definition says. The hypothesis
  `ChainsReached`, that no chain is longer than `MAX_POPUP_DEPTH`, is needed: the
  code drops the rest of a longer one. It is not left open for ordinary sizes:
  `FewDismissedLeafFirst` has no such hypothesis, for up to `MaxDepth + 1`
  popups, the instance of the run among them. There a chain that long would
  repeat a popup, and the recorded parents have no cycle (`NoCycle`).
- `PointerRouting_proofs`. `IconFollowsDrag` is inductive as it stands.
  `GrabIsFocus` needs `PressFits`, that a press being
  routed still fits the bound; the two action properties follow from the
  invariant by cases on the routing actions.

Only model-checked: `QueuedInHandlerIsDelivered`, as liveness under fairness is
beyond the prover. Every other property that a passing run checks is the
statement of a theorem.

## Not modelled, and why

- wlroots, libwayland and the clients are external: an action of theirs is
  enabled whenever the protocol or the library allows it. Two facts of theirs
  are relied on: `unlock_and_destroy` is refused before `locked`, and an
  object's destroy signal comes before its memory is freed.
- The contract of the log sink, which must not call back into the crate:
  `Dispatch` lets it.
- Panics and unwinding: a panic inside a callback aborts the process, so no
  guard is observed afterwards.
- Tablets and gestures, the contents of drags and selections, the position of
  touch points and icons, and layer-surface
  keyboard focus (`focus_layer_keyboard` has the same gate as
  `focus_toplevel_keyboard`).
- A listener that fires when its `Session` is gone is undefined behaviour. Where
  the code lets it happen (the listeners in `text_inputs`, those of a grab), the
  event has no action.
- The popups of an input method, keymaps, keyboard groups and the by-id table of
  virtual keyboards.
- Applying an output configuration is one synchronous call: every head is
  tested, then committed, and one reply is sent. That a commit can fail after
  others succeeded is admitted by the code's own comment. The marker it emits
  and the queue of applied heads cannot fall out of step, as no handler is on
  the stack then.
- Stacking order, contents of buffers, scene outputs, and the rendering types
  (`render/`, `buffer.rs`), whose life cycles the Rust compiler checks.
- Geometry, formats, colour, logging and the FFI crate hold no control state
  worth a model.

## Plan

What a next step would be, most useful first:

1. `InputPopups`: the surfaces of an input method, which hang on the text input
   it is active for; extends `InputMethodRelay`.
2. Tablet tools, whose focus goes through a hit test of its own under the same
   lock gate.
3. An abstract specification of `FdSources` (an owner gives a descriptor, lends
   it, and has it closed once) and a proof that it is implemented.
