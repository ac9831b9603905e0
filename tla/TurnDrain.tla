----------------------------- MODULE TurnDrain -----------------------------
(***************************************************************************)
(* Destroys put off to the end of a turn (runtime.rs): destroy_layer_      *)
(* surface, the Drop of ForeignToplevelHandle, and the drain of both       *)
(* queues that Backend::run_inner makes once a turn, together with the     *)
(* tables and flags that say whether a queued name is still good.          *)
(*                                                                         *)
(* Layer surfaces are queued by id and looked up again; foreign-toplevel   *)
(* handles are queued by pointer, and one flag says whether the manager    *)
(* that owns them is alive.  wlroots and the clients are external.         *)
(*                                                                         *)
(* The names here differ from those of SceneNodes: LiveNames_proofs        *)
(* extends both.                                                           *)
(***************************************************************************)
EXTENDS Naturals, SequencesExt

CONSTANTS Layers,      \* the layer surfaces clients can create
          Handles,     \* the foreign-toplevel handles the consumer can create
          NoObject,    \* no object
          MaxQueue,    \* bound: destroy_layer_surface calls waiting
          MaxDisplays  \* bound: wl_displays over the Runtime's life

ASSUME TurnDrainAssumption == /\ NoObject \notin Layers \cup Handles
                              /\ Layers \cap Handles = {}
                              /\ MaxQueue \in Nat /\ MaxDisplays \in Nat

VARIABLES
  mem,            \* external: the allocation of each wlroots object
  frees,          \* external: how often each was freed
  display,        \* a wl_display exists
  displays,       \* how many there were
  layerSurfaces,  \* RuntimeInner::layer_surfaces
  managerAlive,   \* RuntimeInner::foreign_toplevel_manager_alive
  owned,          \* the handles whose ForeignToplevelHandle is not inert
  dropped,        \* the handles whose owner dropped them while they were not
  pendingLayers,  \* RuntimeInner::pending_layer_destroys
  pendingHandles, \* RuntimeInner::pending_foreign_toplevel_destroys
  draining,       \* the ids drain_pending_foreign_toplevel_destroys collected
  phase,          \* where run_inner is: "idle" when no run is on the stack
  caller,         \* the consumer code in control: "none", "handler" or "stop"
  emitting        \* external: the object whose signal that handler is under

objects == <<mem, frees>>
registry == <<display, displays, managerAlive, owned, dropped>>
control == <<phase, caller, emitting>>
drainVars == <<objects, registry, layerSurfaces, pendingLayers, pendingHandles,
               draining, control>>

Objects == Layers \cup Handles
Live == {x \in Objects : mem[x] = "live"}
InDelivery == caller # "none"
ConsumerRuns == InDelivery \/ phase = "idle"

-----------------------------------------------------------------------------
DrainInit ==
  /\ mem = [x \in Objects |-> "unborn"]
  /\ frees = [x \in Objects |-> 0]
  /\ display = FALSE /\ displays = 0
  /\ layerSurfaces = {}
  /\ managerAlive = FALSE
  /\ owned = {} /\ dropped = {}
  /\ pendingLayers = <<>> /\ pendingHandles = <<>>
  /\ draining = <<>>
  /\ phase = "idle" /\ caller = "none" /\ emitting = NoObject

Free(gone) ==
  /\ mem' = [x \in Objects |-> IF x \in gone THEN "freed" ELSE mem[x]]
  /\ frees' = [x \in Objects |-> IF x \in gone THEN frees[x] + 1 ELSE frees[x]]

-----------------------------------------------------------------------------
(* Displays and the foreign-toplevel manager.  A run borrows its display,  *)
(* so a display comes and goes between runs.                               *)

NewDisplay ==
  /\ phase = "idle" /\ ~display /\ displays < MaxDisplays
  /\ display' = TRUE
  /\ displays' = displays + 1
  /\ UNCHANGED <<objects, managerAlive, owned, dropped, layerSurfaces,
                 pendingLayers, pendingHandles, draining, control>>

(* Everything the display owns is freed.  The manager's destroy clears the *)
(* liveness flag, and makes the handles still owned inert.                 *)
DropDisplay ==
  /\ phase = "idle" /\ display
  /\ display' = FALSE
  /\ Free(Live)
  /\ managerAlive' = FALSE
  /\ owned' = {}
  /\ UNCHANGED <<displays, dropped, layerSurfaces, pendingLayers,
                 pendingHandles, draining, control>>

CreateManager ==
  /\ ConsumerRuns /\ display /\ ~managerAlive
  /\ managerAlive' = TRUE
  /\ UNCHANGED <<objects, display, displays, owned, dropped, layerSurfaces,
                 pendingLayers, pendingHandles, draining, control>>

CreateHandle(h) ==
  /\ ConsumerRuns /\ managerAlive /\ mem[h] = "unborn"
  /\ mem' = [mem EXCEPT ![h] = "live"]
  /\ owned' = owned \cup {h}
  /\ UNCHANGED <<frees, display, displays, managerAlive, dropped, layerSurfaces,
                 pendingLayers, pendingHandles, draining, control>>

\* Mutant: the destroy is made at once.
DropHandleNow(h) ==
  /\ ConsumerRuns /\ h \in owned
  /\ owned' = owned \ {h}
  /\ dropped' = dropped \cup {h}
  /\ Free({h})
  /\ UNCHANGED <<display, displays, managerAlive, layerSurfaces, pendingLayers,
                 pendingHandles, draining, control>>

\* Mutant: in a delivery the handle is made inert and never queued.
DropHandleUnqueued(h) ==
  /\ ConsumerRuns /\ h \in owned
  /\ owned' = owned \ {h}
  /\ dropped' = dropped \cup {h}
  /\ IF InDelivery THEN UNCHANGED objects ELSE Free({h})
  /\ UNCHANGED <<display, displays, managerAlive, layerSurfaces, pendingLayers,
                 pendingHandles, draining, control>>

(* ForeignToplevelHandle::drop.  Dropping an inert one changes nothing.    *)
DropHandle(h) ==
  /\ ConsumerRuns /\ h \in owned
  /\ owned' = owned \ {h}
  /\ dropped' = dropped \cup {h}
  /\ IF InDelivery
     THEN pendingHandles' = Append(pendingHandles, h) /\ UNCHANGED objects
     ELSE Free({h}) /\ UNCHANGED pendingHandles
  /\ UNCHANGED <<display, displays, managerAlive, layerSurfaces, pendingLayers,
                 draining, control>>

-----------------------------------------------------------------------------
(* Layer surfaces *)

WlrootsRuns == caller = "none" /\ phase \in {"turn", "flush"}

\* on_new_layer_surface; without a scene the surface is not recorded.
OnNewLayerSurface(l) ==
  /\ phase = "turn" /\ caller = "none" /\ mem[l] = "unborn"
  /\ mem' = [mem EXCEPT ![l] = "live"]
  /\ \/ /\ layerSurfaces' = layerSurfaces \cup {l}
        /\ caller' = "handler" /\ emitting' = l
     \/ UNCHANGED <<layerSurfaces, caller, emitting>>
  /\ UNCHANGED <<frees, registry, pendingLayers, pendingHandles, draining, phase>>

(* wlroots destroys a layer surface: on_layer_surface_destroy purges the   *)
(* entry and calls the handler, and the surface is freed when that         *)
(* returned.  A surface nobody listens to is just freed.                   *)
DestroyLayer(l) ==
  /\ mem' = [mem EXCEPT ![l] = IF l \in layerSurfaces THEN "dying" ELSE "freed"]
  /\ frees' = [frees EXCEPT ![l] = IF l \in layerSurfaces THEN @ ELSE @ + 1]
  /\ IF l \in layerSurfaces
     THEN caller' = "handler" /\ emitting' = l
     ELSE UNCHANGED <<caller, emitting>>
  /\ layerSurfaces' = layerSurfaces \ {l}

\* The client destroys its surface, or dies.
LayerGone(l) ==
  /\ WlrootsRuns /\ mem[l] = "live"
  /\ DestroyLayer(l)
  /\ UNCHANGED <<registry, pendingLayers, pendingHandles, draining, phase>>

(* destroy_layer_surface.  An entry exists only while a run is on the      *)
(* stack, where the consumer is always in a handler frame: the id is       *)
(* queued.                                                                 *)
DestroyLayerSurface(l) ==
  /\ InDelivery /\ l \in layerSurfaces
  /\ Len(pendingLayers) < MaxQueue
  /\ pendingLayers' = Append(pendingLayers, l)
  /\ UNCHANGED <<objects, registry, layerSurfaces, pendingHandles, draining, control>>

-----------------------------------------------------------------------------
(* The run *)

StartRun ==
  /\ phase = "idle" /\ display
  /\ phase' = "turn"
  /\ UNCHANGED <<objects, registry, layerSurfaces, pendingLayers, pendingHandles,
                 draining, caller, emitting>>

\* A signal of an object something listens to: a commit, a request.
Signal(x) ==
  /\ WlrootsRuns /\ x \in layerSurfaces \cup owned
  /\ caller' = "handler" /\ emitting' = x
  /\ UNCHANGED <<objects, registry, layerSurfaces, pendingLayers, pendingHandles,
                 draining, phase>>

(* The handler returns to wlroots, which frees a surface it was destroying.*)
HandlerReturns ==
  /\ caller = "handler"
  /\ caller' = "none" /\ emitting' = NoObject
  /\ IF mem[emitting] = "dying" THEN Free({emitting}) ELSE UNCHANGED objects
  /\ UNCHANGED <<registry, layerSurfaces, pendingLayers, pendingHandles, draining, phase>>

\* wl_event_loop_dispatch returned: the drain collects the queued ids.
StartDrain ==
  /\ phase = "turn" /\ caller = "none"
  /\ phase' = "layers"
  /\ draining' = pendingLayers
  /\ pendingLayers' = <<>>
  /\ UNCHANGED <<objects, registry, layerSurfaces, pendingHandles, caller, emitting>>

\* Mutant: the collected ids are destroyed without looking them up again.
DrainLayerBlindly ==
  /\ phase = "layers" /\ caller = "none" /\ draining # <<>>
  /\ draining' = Tail(draining)
  /\ DestroyLayer(Head(draining))
  /\ UNCHANGED <<registry, pendingLayers, pendingHandles, phase>>

\* destroy_layer_surface_now for the next collected id.
DrainLayer ==
  /\ phase = "layers" /\ caller = "none" /\ draining # <<>>
  /\ draining' = Tail(draining)
  /\ IF Head(draining) \in layerSurfaces
     THEN DestroyLayer(Head(draining))
     ELSE UNCHANGED <<objects, layerSurfaces, caller, emitting>>
  /\ UNCHANGED <<registry, pendingLayers, pendingHandles, phase>>

(* The queued pointers are destroyed, or dropped when the manager is dead. *)
DrainHandles ==
  /\ phase = "layers" /\ caller = "none" /\ draining = <<>>
  /\ phase' = "flush"
  /\ pendingHandles' = <<>>
  /\ IF managerAlive THEN Free(ToSet(pendingHandles)) ELSE UNCHANGED objects
  /\ UNCHANGED <<registry, layerSurfaces, pendingLayers, draining, caller, emitting>>

Flushed ==
  /\ phase = "flush" /\ caller = "none"
  /\ phase' = "query" /\ caller' = "stop"
  /\ UNCHANGED <<objects, registry, layerSurfaces, pendingLayers, pendingHandles,
                 draining, emitting>>

\* Mutant: the table outlives the run that heard of the surfaces' deaths.
EndRunKeepingTable == phase' = "idle" /\ UNCHANGED layerSurfaces

\* The run's guards clear the table; the queues are left alone.
EndRun == phase' = "idle" /\ layerSurfaces' = {}

\* An error, a dead backend, or no turn left.
RunReturn ==
  /\ WlrootsRuns
  /\ EndRun
  /\ UNCHANGED <<objects, registry, pendingLayers, pendingHandles, draining,
                 caller, emitting>>

StopReturns(stop) ==
  /\ caller = "stop"
  /\ caller' = "none"
  /\ IF stop THEN EndRun ELSE phase' = "turn" /\ UNCHANGED layerSurfaces
  /\ UNCHANGED <<objects, registry, pendingLayers, pendingHandles, draining, emitting>>

-----------------------------------------------------------------------------
DrainNext ==
  \/ NewDisplay \/ DropDisplay \/ CreateManager
  \/ \E h \in Handles : CreateHandle(h) \/ DropHandle(h)
  \/ \E l \in Layers : \/ OnNewLayerSurface(l) \/ LayerGone(l)
                       \/ DestroyLayerSurface(l)
  \/ \E x \in Objects : Signal(x)
  \/ StartRun \/ HandlerReturns
  \/ StartDrain \/ DrainLayer \/ DrainHandles \/ Flushed
  \/ RunReturn
  \/ \E stop \in BOOLEAN : StopReturns(stop)

DrainSpec == DrainInit /\ [][DrainNext]_drainVars

-----------------------------------------------------------------------------
(* Properties *)

DrainTypeOK ==
  /\ mem \in [Objects -> {"unborn", "live", "dying", "freed"}]
  /\ frees \in [Objects -> Nat]
  /\ display \in BOOLEAN /\ displays \in 0..MaxDisplays
  /\ layerSurfaces \subseteq Layers
  /\ managerAlive \in BOOLEAN
  /\ owned \subseteq Handles /\ dropped \subseteq Handles
  /\ pendingLayers \in Seq(Layers) /\ draining \in Seq(Layers)
  /\ pendingHandles \in Seq(Handles)
  /\ phase \in {"idle", "turn", "layers", "flush", "query"}
  /\ caller \in {"none", "handler", "stop"}
  /\ emitting \in Objects \cup {NoObject}
  /\ (emitting # NoObject) = (caller = "handler")

\* With one display over the Runtime's life, no wlroots object is freed twice,
\* whether it dies on its own, with its display, by its owner's drop or by a
\* destroy queued before any of these.
FreedOnce == displays <= 1 => \A x \in Objects : frees[x] <= 1

\* The object whose signal a handler runs under is not freed before that
\* handler returns, whatever the handler destroys or drops.
EmittingIsAllocated == emitting # NoObject => mem[emitting] \in {"live", "dying"}

\* Every layer surface the Runtime resolves by id is alive: the entry goes
\* before the handler hears of the death, and with the run.
TableNamesLive == \A l \in layerSurfaces : mem[l] = "live"

\* A handle its owner let go is freed or still queued: none is leaked while
\* its manager lives.
DroppedIsReleased ==
  \A h \in dropped : mem[h] = "freed" \/ h \in ToSet(pendingHandles)

\* A handle still usable by its owner is alive, so is its manager.
OwnedIsLive == \A h \in owned : mem[h] = "live" /\ managerAlive
=============================================================================
