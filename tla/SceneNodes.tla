----------------------------- MODULE SceneNodes -----------------------------
(***************************************************************************)
(* The scene graph as the Runtime keeps track of it (runtime.rs,           *)
(* scene/mod.rs): the nodes a consumer creates, moves and destroys by      *)
(* NodeId, the older RectId/BufferId rows with their recorded parents, the *)
(* trees of toplevels that come and go with their windows, the opaque fill *)
(* that covers the outputs while the session is locked, and the closures   *)
(* (with_node, for_each_buffer) during which nothing may be unlinked.      *)
(*                                                                         *)
(* A node and the id that names it are one value here: an id is never      *)
(* reused in the code, and a value is used again only when its node died.  *)
(* The model starts after init_graphics.  Stacking order within one parent *)
(* is left out; the calls that only change it share PlaceNode's guards.    *)
(***************************************************************************)
EXTENDS Naturals, FiniteSetsExt, SequencesExt

CONSTANTS Trees,      \* the trees a consumer can create
          Rects,      \* the rects and buffer nodes it can create
          Toplevels,  \* the toplevels; each stands for its scene tree, too
          Root,       \* the scene root
          Desktop,    \* Band::Toplevel, for the five bands below Band::Lock
          LockBand,   \* Band::Lock
          Fill,       \* the rect install_lock_fill creates
          None,       \* no node
          MaxHeld     \* bound: closures on the stack

Bands == {Desktop, LockBand}
Created == Trees \cup Rects
Nodes == Created \cup Toplevels \cup Bands \cup {Root, Fill}

ASSUME SceneNodesAssumption ==
  /\ MaxHeld \in Nat /\ IsFiniteSet(Nodes) /\ None \notin Nodes
  /\ Root \notin Bands \cup Created \cup Toplevels
  /\ Fill \notin {Root} \cup Bands \cup Created \cup Toplevels
  /\ Desktop # LockBand /\ Bands \cap (Created \cup Toplevels) = {}
  /\ Toplevels \cap Created = {} /\ Trees \cap Rects = {}

VARIABLES
  live,          \* external: the allocated nodes
  parent,        \* external: wlr_scene_node::parent
  nodes,         \* RuntimeInner::nodes: the origin in a node's row, or "none"
  rects,         \* RuntimeInner::rects and buffers: the parent in the row
  toplevels,     \* RuntimeInner::toplevels and tree_to_toplevel
  running,       \* a run is on the stack, and listens to shell objects
  locked,        \* RuntimeInner::session_locked
  lockFill,      \* RuntimeInner::session_lock_fill
  disabled,      \* which of the lock band and the fill are disabled
  moved,         \* {Fill} when the fill no longer covers the outputs
  held,          \* the nodes whose handles live closures hold, or None
  nodeBorrows,   \* RuntimeInner::node_borrows
  foreignFrames  \* FOREIGN_FRAMES of dispatch.rs

graph == <<live, parent, nodes, rects>>
shell == <<toplevels, running>>
lock == <<locked, lockFill, disabled, moved>>
frames == <<held, nodeBorrows, foreignFrames>>
vars == <<graph, shell, lock, frames>>

-----------------------------------------------------------------------------
(* Ancestry *)

\* n, its parent in par, the parent of that, and so on.
Up(par, n) ==
  LET up[i \in 0..Cardinality(Nodes)] ==
        IF i = 0 THEN n
        ELSE IF up[i - 1] \in Nodes THEN par[up[i - 1]] ELSE None
  IN up

Above(par, n) == Range(Up(par, n)) \ {None}

\* What wlr_scene_node_destroy frees.
Subtree(n) == {m \in live : n \in Above(parent, m)}

\* Mutant: the first ancestor is the answer.
ClassifyNearest(par, n) == par[n]

(* classify_parent: the nearest ancestor that is the tree of a known       *)
(* toplevel or a band.                                                     *)
Classify(par, n) ==
  LET up == Up(par, n)
      hits == {i \in DOMAIN up \ {0} : up[i] \in toplevels \cup Bands}
  IN IF hits = {} THEN Root ELSE up[Min(hits)]

\* is_locked_lock_band_descendant
LockedAway(n) == locked /\ LockBand \in Above(parent, n)

SceneIsBeingWalked == nodeBorrows # 0 \/ foreignFrames # 0

\* Mutant: the lock does not protect what is under its band.
OwnedNodeAnywhere(n) == nodes[n] = "Owned"

\* owned_node_ptr and movable_node_ptr
OwnedNode(n) == nodes[n] = "Owned" /\ ~LockedAway(n)

\* node_tree_ptr
TreeNode(n) == nodes[n] # "none" /\ n \notin Rects \cup {Fill}

-----------------------------------------------------------------------------
Init == /\ live = Bands \cup {Root}
        /\ parent = [n \in Nodes |-> IF n \in Bands THEN Root ELSE None]
        /\ nodes = [n \in Nodes |-> IF n \in live THEN "Protected" ELSE "none"]
        /\ rects = [r \in Rects \cup {Fill} |-> None]
        /\ toplevels = {} /\ running = FALSE
        /\ locked = FALSE /\ lockFill = None
        /\ disabled = {} /\ moved = {}
        /\ held = <<>> /\ nodeBorrows = 0 /\ foreignFrames = 0

-----------------------------------------------------------------------------
(* Creating nodes *)

\* A node appended under p, with the row record_node makes.
Attach(n, p, origin) ==
  /\ live' = live \cup {n}
  /\ parent' = [parent EXCEPT ![n] = p]
  /\ nodes' = [nodes EXCEPT ![n] = origin]

(* create_tree_in_band, create_tree_under, create_rect,                    *)
(* create_scene_buffer: no older id names the node.                        *)
CreateNode(n, p) ==
  /\ n \notin live /\ ~SceneIsBeingWalked
  /\ TreeNode(p)
  /\ Attach(n, p, "Owned")
  /\ UNCHANGED <<rects, shell, lock, frames>>

(* add_rect, add_rect_in_band, add_rect_in_toplevel and their buffer       *)
(* twins: p is the root, a band, or the tree of a known toplevel.          *)
AddRect(r, p) ==
  /\ r \notin live /\ ~SceneIsBeingWalked
  /\ p \in {Root} \cup Bands \cup toplevels
  /\ Attach(r, p, "Owned")
  /\ rects' = [rects EXCEPT ![r] = p]
  /\ UNCHANGED <<shell, lock, frames>>

(* node_parent, node_children, node_at: an observed node that has no id    *)
(* gets one.                                                               *)
ObserveNode(t) ==
  /\ t \in live /\ nodes[t] = "none"
  /\ nodes' = [nodes EXCEPT ![t] = "Foreign"]
  /\ UNCHANGED <<live, parent, rects, shell, lock, frames>>

-----------------------------------------------------------------------------
(* Destroying nodes *)

\* Mutant: the payload's destructor forgets the older id.
CascadeKeepingRects(gone) ==
  /\ live' = live \ gone
  /\ parent' = [n \in Nodes |-> IF n \in gone THEN None ELSE parent[n]]
  /\ nodes' = [n \in Nodes |-> IF n \in gone THEN "none" ELSE nodes[n]]
  /\ UNCHANGED rects

(* wlroots frees the nodes of gone, and NodePurge::drop runs for each that *)
(* carries an id.                                                          *)
Cascade(gone) ==
  /\ live' = live \ gone
  /\ parent' = [n \in Nodes |-> IF n \in gone THEN None ELSE parent[n]]
  /\ nodes' = [n \in Nodes |-> IF n \in gone THEN "none" ELSE nodes[n]]
  /\ rects' = [r \in Rects \cup {Fill} |-> IF r \in gone THEN None ELSE rects[r]]

\* Mutant: destroyed whatever closures hold.
DestroyNodeUngated(n) ==
  /\ OwnedNode(n)
  /\ Cascade(Subtree(n))
  /\ UNCHANGED <<shell, lock, frames>>

DestroyNode(n) ==
  /\ ~SceneIsBeingWalked /\ OwnedNode(n)
  /\ Cascade(Subtree(n))
  /\ UNCHANGED <<shell, lock, frames>>

\* remove_rect, remove_buffer: by the older id, which needs its row.
RemoveRect(r) ==
  /\ ~SceneIsBeingWalked /\ rects[r] # None
  /\ Cascade(Subtree(r))
  /\ UNCHANGED <<shell, lock, frames>>

-----------------------------------------------------------------------------
(* Changing nodes *)

\* Mutant: the parents recorded for the older ids stay as they were.
ReparentNodeOnly(n, p) ==
  /\ ~SceneIsBeingWalked /\ n # p
  /\ OwnedNode(n) /\ TreeNode(p)
  /\ n \notin Above(parent, p)
  /\ parent' = [parent EXCEPT ![n] = p]
  /\ UNCHANGED <<live, nodes, rects, shell, lock, frames>>

\* Mutant: only the node itself is refused as its parent.
ReparentNodeUnchecked(n, p) ==
  /\ ~SceneIsBeingWalked /\ n # p
  /\ OwnedNode(n) /\ TreeNode(p)
  /\ parent' = [parent EXCEPT ![n] = p]
  /\ rects' = [r \in Rects \cup {Fill} |->
                 IF rects[r] = None THEN None ELSE Classify(parent', r)]
  /\ UNCHANGED <<live, nodes, shell, lock, frames>>

(* reparent_node, with reclassify_legacy_parents after the move.           *)
ReparentNode(n, p) ==
  /\ ~SceneIsBeingWalked /\ n # p
  /\ OwnedNode(n) /\ TreeNode(p)
  /\ n \notin Above(parent, p)
  /\ parent' = [parent EXCEPT ![n] = p]
  /\ rects' = [r \in Rects \cup {Fill} |->
                 IF rects[r] = None THEN None ELSE Classify(parent', r)]
  /\ UNCHANGED <<live, nodes, shell, lock, frames>>

(* set_node_enabled: any origin, but nothing of a held lock is disabled.   *)
SetNodeEnabled(n, enabled) ==
  /\ nodes[n] # "none"
  /\ enabled \/ ~LockedAway(n)
  /\ disabled' = IF enabled THEN disabled \ {n} ELSE disabled \cup {n}
  /\ UNCHANGED <<graph, shell, locked, lockFill, moved, frames>>

\* set_node_position; only whether the fill still covers is kept.
SetNodePosition(n) ==
  /\ OwnedNode(n)
  /\ moved' = moved \cup ({n} \cap {Fill})
  /\ UNCHANGED <<graph, shell, locked, lockFill, disabled, frames>>

-----------------------------------------------------------------------------
(* Closures *)

\* with_node and its siblings, for_each_buffer.
WithNode(n) ==
  /\ Len(held) < MaxHeld /\ nodes[n] # "none"
  /\ held' = Append(held, n)
  /\ nodeBorrows' = nodeBorrows + 1
  /\ foreignFrames' = foreignFrames + 1
  /\ UNCHANGED <<graph, shell, lock>>

(* wlroots calls the consumer back from the inside of one of its own calls *)
(* (a scene output's commit, a timeline waiter).                           *)
ForeignCallback ==
  /\ Len(held) < MaxHeld
  /\ held' = Append(held, None)
  /\ foreignFrames' = foreignFrames + 1
  /\ UNCHANGED <<graph, shell, lock, nodeBorrows>>

ClosureEnds ==
  /\ held # <<>>
  /\ held' = Front(held)
  /\ nodeBorrows' = IF Last(held) = None THEN nodeBorrows ELSE nodeBorrows - 1
  /\ foreignFrames' = foreignFrames - 1
  /\ UNCHANGED <<graph, shell, lock>>

-----------------------------------------------------------------------------
(* wlroots.  The event loop does not turn inside a closure.                *)

Dispatching == held = <<>>

RunStart == /\ Dispatching /\ ~running
            /\ running' = TRUE
            /\ UNCHANGED <<graph, toplevels, lock, frames>>

\* on_new_toplevel, with record_toplevel.
NewToplevel(t) ==
  /\ Dispatching /\ running /\ t \notin live
  /\ Attach(t, Desktop, "none")
  /\ toplevels' = toplevels \cup {t}
  /\ UNCHANGED <<rects, running, lock, frames>>

\* The rows of rects that belong to a toplevel of gone are dropped.
PurgeRects(gone) ==
  rects' = [r \in Rects \cup {Fill} |-> IF rects[r] \in gone THEN None ELSE rects[r]]

\* on_toplevel_destroy, with forget_toplevel; the tree is freed later.
ToplevelDestroyed(t) ==
  /\ Dispatching /\ t \in toplevels
  /\ PurgeRects({t})
  /\ toplevels' = toplevels \ {t}
  /\ UNCHANGED <<live, parent, nodes, running, lock, frames>>

\* The xdg_surface goes, and the scene frees its tree.
TreeFreed(t) ==
  /\ Dispatching /\ t \in live \ toplevels
  /\ Cascade(Subtree(t))
  /\ UNCHANGED <<shell, lock, frames>>

\* The run's guards, with clear_toplevels.
RunEnd ==
  /\ Dispatching /\ running
  /\ running' = FALSE
  /\ PurgeRects(toplevels)
  /\ toplevels' = {}
  /\ UNCHANGED <<live, parent, nodes, lock, frames>>

(* begin_session_lock, with install_lock_fill.  A takeover after the       *)
(* locker died finds its fill and puts it back over the outputs; without   *)
(* an output there is nothing to cover.                                    *)
BeginSessionLock(anyOutput) ==
  /\ Dispatching
  /\ locked' = TRUE
  /\ IF ~anyOutput
     THEN UNCHANGED <<graph, lockFill, moved>>
     ELSE IF lockFill # None
          THEN moved' = moved \ {Fill} /\ UNCHANGED <<graph, lockFill>>
          ELSE /\ Attach(Fill, LockBand, "Owned")
               /\ rects' = [rects EXCEPT ![Fill] = LockBand]
               /\ lockFill' = Fill
               /\ moved' = moved \ {Fill}
  /\ UNCHANGED <<shell, disabled, frames>>

\* unlock_session, with remove_lock_fill.
UnlockSession ==
  /\ Dispatching /\ locked
  /\ locked' = FALSE
  /\ IF lockFill # None /\ rects[Fill] # None
     THEN Cascade(Subtree(Fill)) /\ disabled' = disabled \ {Fill}
     ELSE UNCHANGED <<graph, disabled>>
  /\ lockFill' = None
  /\ UNCHANGED <<moved, shell, frames>>

-----------------------------------------------------------------------------
Next ==
  \/ \E n \in Created, p \in Nodes : CreateNode(n, p)
  \/ \E r \in Rects, p \in Nodes : AddRect(r, p)
  \/ \E n \in Created \cup {Fill}, p \in Nodes : ReparentNode(n, p)
  \/ \E n \in Nodes : DestroyNode(n) \/ WithNode(n)
  \/ \E n \in {LockBand, Fill}, enabled \in BOOLEAN : SetNodeEnabled(n, enabled)
  \/ \E n \in Created \cup {LockBand, Fill} : SetNodePosition(n)
  \/ \E r \in Rects : RemoveRect(r)
  \/ \E t \in Toplevels : \/ ObserveNode(t) \/ NewToplevel(t)
                          \/ ToplevelDestroyed(t) \/ TreeFreed(t)
  \/ ForeignCallback \/ ClosureEnds
  \/ RunStart \/ RunEnd
  \/ \E anyOutput \in BOOLEAN : BeginSessionLock(anyOutput)
  \/ UnlockSession

Spec == Init /\ [][Next]_vars

-----------------------------------------------------------------------------
(* Properties *)

TypeOK ==
  /\ live \subseteq Nodes
  /\ parent \in [Nodes -> Nodes \cup {None}]
  /\ nodes \in [Nodes -> {"none", "Owned", "Protected", "Foreign"}]
  /\ rects \in [Rects \cup {Fill} -> {Root, None} \cup Bands \cup Toplevels]
  /\ toplevels \subseteq Toplevels /\ running \in BOOLEAN
  /\ locked \in BOOLEAN /\ lockFill \in {Fill, None}
  /\ disabled \subseteq {LockBand, Fill} /\ moved \subseteq {Fill}
  /\ held \in Seq(Nodes \cup {None})
  /\ nodeBorrows \in Nat /\ foreignFrames \in Nat

\* Every row of the Runtime's tables names an allocated node, whichever call
\* or window's death freed the tree it was in.
RowsNameLive ==
  /\ \A n \in Nodes : nodes[n] # "none" => n \in live
  /\ \A r \in Rects \cup {Fill} : rects[r] # None => r \in live
  /\ toplevels \subseteq live

\* A node whose handle a closure holds is not freed before the closure ends.
HeldIsLive == ToSet(held) \ {None} \subseteq live

\* The parents form a tree below the scene root: every allocated node hangs,
\* over allocated ones, from the root, so no walk up ever fails to end.
Rooted == \A n \in live : Root \in Above(parent, n) /\ Above(parent, n) \subseteq live

\* The older ids are purged with a toplevel exactly when their node is inside
\* its tree, wherever the node was created and whatever was moved since.
RectFollowsToplevel ==
  \A r \in Rects, t \in Toplevels :
    rects[r] # None => (rects[r] = t <=> Classify(parent, r) = t)

\* While the session is locked, the fill that hides the desktop stays where it
\* was put, enabled, under the lock band.
FillIntact ==
  locked /\ lockFill # None =>
    /\ Fill \in live /\ parent[Fill] = LockBand /\ rects[Fill] = LockBand
    /\ Fill \notin disabled \cup moved
=============================================================================
