---------------------------- MODULE ShellObjects ----------------------------
(***************************************************************************)
(* The xdg-shell objects a run announces and the tables that name them     *)
(* (backend.rs, runtime.rs): toplevels, their server-side decorations,     *)
(* popups in chains, and the surfaces under all of them.  Each kind has a  *)
(* table of the Runtime, by id, and a map of the run's Session that owns   *)
(* the listeners.  Both go with the object; both go with the run, which    *)
(* the object may outlive.                                                 *)
(*                                                                         *)
(* A toplevel or popup stands for its wl_surface, too: role and surface    *)
(* die apart, and a surface may take its role again.  Handlers run one at  *)
(* a time (module Dispatch).  Clients and wlroots are external; wlroots    *)
(* destroys the popups of an object before the object.                     *)
(***************************************************************************)
EXTENDS Naturals

CONSTANTS Toplevels, Popups,
          Subsurfaces,  \* surfaces that are neither
          Client,       \* DecorationMode::ClientSide
          Server,       \* DecorationMode::ServerSide
          None,         \* no object, no mode
          MaxDepth      \* Runtime::MAX_POPUP_DEPTH

Roles == Toplevels \cup Popups
Surfaces == Roles \cup Subsurfaces
Modes == {Client, Server}

\* DecorationEntry: a mode to send, and whether one was chosen ever, or in
\* the delivery of the request.
Flags == [staged : Modes \cup {None}, answered : BOOLEAN, set : BOOLEAN]

ASSUME ShellObjectsAssumption ==
  /\ None \notin Surfaces \cup Modes \cup Flags /\ Client # Server
  /\ Toplevels \cap Popups = {} /\ Subsurfaces \cap Roles = {}
  /\ MaxDepth \in Nat

VARIABLES
  surfaceLive,    \* external: the wl_surfaces
  roleLive,       \* external: the xdg_toplevels and xdg_popups
  popupOf,        \* external: the object a live popup hangs off
  initialized,    \* external: xdg_surface::initialized
  decorated,      \* external: the toplevels with a decoration object
  sent,           \* external: the mode last sent to a decoration
  named,          \* the surfaces that carry this crate's id
  toplevels,      \* RuntimeInner::toplevels
  popups,         \* RuntimeInner::popups: the recorded parent
  surfaces,       \* RuntimeInner::surfaces
  decorations,    \* RuntimeInner::decorations: the flags, or None
  heard,          \* Session::toplevels and popups
  heardSurfaces,  \* Session::surfaces
  heardDecorations, \* Session::decorations
  configured,     \* the objects whose initial commit was answered
  running,        \* a run is on the stack
  handler,        \* the delivery in progress
  victims,        \* the rest of a dismiss_popup, with their depths
  choice          \* the mode the consumer chose since it was last asked

objects == <<surfaceLive, roleLive, popupOf, initialized, decorated, named>>
tables == <<toplevels, popups, surfaces>>
listeners == <<heard, heardSurfaces, heardDecorations>>
decoration == <<decorations, sent, choice>>
control == <<running, handler, victims>>
vars == <<objects, tables, listeners, decoration, configured, control>>

NoHandler == [event |-> "none", about |-> None, commit |-> FALSE]
Handler(e, x) == [event |-> e, about |-> x, commit |-> FALSE]

\* wlroots is in control, and not inside a delivery.
Dispatching == handler = NoHandler

Init == /\ surfaceLive = {} /\ roleLive = {} /\ initialized = {}
        /\ decorated = {} /\ named = {}
        /\ popupOf = [p \in Popups |-> None]
        /\ sent = [t \in Toplevels |-> None]
        /\ choice = [t \in Toplevels |-> None]
        /\ toplevels = {} /\ surfaces = {}
        /\ popups = [p \in Popups |-> None]
        /\ decorations = [t \in Toplevels |-> None]
        /\ heard = {} /\ heardSurfaces = {} /\ heardDecorations = {}
        /\ configured = {}
        /\ running = FALSE /\ handler = NoHandler /\ victims = {}

HasChild(x) == \E p \in Popups \cap roleLive : popupOf[p] = x

-----------------------------------------------------------------------------
(* Surfaces *)

\* install_surface_listeners
InstallSurfaceListeners(x) ==
  /\ heardSurfaces' = heardSurfaces \cup {x}
  /\ surfaces' = surfaces \cup {x}

\* on_new_subsurface: only a surface that was not linked yet is announced.
NewSubsurface(s, x) ==
  /\ Dispatching /\ x \in surfaceLive /\ s # x
  /\ surfaceLive' = surfaceLive \cup {s}
  /\ IF x \in heardSurfaces /\ s \notin heardSurfaces
     THEN InstallSurfaceListeners(s) /\ handler' = Handler("other", s)
     ELSE UNCHANGED <<surfaces, heardSurfaces, handler>>
  /\ UNCHANGED <<roleLive, popupOf, initialized, decorated, named, toplevels,
                 popups, heard, heardDecorations, decoration, configured,
                 running, victims>>

\* on_surface_destroy_generic and remove_surface, when something listens.
SurfaceDestroyed(x) ==
  /\ Dispatching /\ x \in surfaceLive \ roleLive
  /\ surfaceLive' = surfaceLive \ {x}
  /\ named' = named \ {x}
  /\ surfaces' = surfaces \ {x}
  /\ heardSurfaces' = heardSurfaces \ {x}
  /\ handler' = IF x \in heardSurfaces THEN Handler("other", x) ELSE handler
  /\ UNCHANGED <<roleLive, popupOf, initialized, decorated, toplevels, popups,
                 heard, heardDecorations, decoration, configured, running, victims>>

-----------------------------------------------------------------------------
(* Toplevels *)

\* on_new_toplevel, when a run listens.
NewToplevel(t) ==
  /\ Dispatching /\ t \notin roleLive
  /\ surfaceLive' = surfaceLive \cup {t}
  /\ roleLive' = roleLive \cup {t}
  /\ IF running
     THEN /\ named' = named \cup {t}
          /\ heard' = heard \cup {t}
          /\ toplevels' = toplevels \cup {t}
          /\ InstallSurfaceListeners(t)
          /\ handler' = Handler("other", t)
     ELSE UNCHANGED <<named, heard, heardSurfaces, toplevels, surfaces, handler>>
  /\ UNCHANGED <<popupOf, initialized, decorated, popups, heardDecorations,
                 decoration, configured, running, victims>>

(* The xdg_surface's initial commit.  on_surface_commit delivers it; what  *)
(* it does afterwards is CommitReturns.                                    *)
InitialCommit(x) ==
  /\ Dispatching /\ x \in roleLive \ initialized
  /\ initialized' = initialized \cup {x}
  /\ handler' = IF x \in heard THEN Handler("commit", x) ELSE handler
  /\ UNCHANGED <<surfaceLive, roleLive, popupOf, decorated, named, tables,
                 listeners, decoration, configured, running, victims>>

\* A surface without a buffer is unmapped, and must commit initially again.
Unmap(x) ==
  /\ Dispatching /\ x \in initialized /\ ~HasChild(x)
  /\ initialized' = initialized \ {x}
  /\ configured' = configured \ {x}
  /\ handler' = IF x \in heard THEN Handler("other", x) ELSE handler
  /\ UNCHANGED <<surfaceLive, roleLive, popupOf, decorated, named, tables,
                 listeners, decoration, running, victims>>

(* on_toplevel_destroy, with forget_toplevel, before the delivery.  The    *)
(* decoration dies next; what still listens to it then forgets it.         *)
ToplevelDestroyed(t) ==
  /\ Dispatching /\ t \in roleLive /\ ~HasChild(t)
  /\ roleLive' = roleLive \ {t}
  /\ initialized' = initialized \ {t} /\ configured' = configured \ {t}
  /\ decorated' = decorated \ {t}
  /\ toplevels' = toplevels \ {t}
  /\ heard' = heard \ {t} /\ heardDecorations' = heardDecorations \ {t}
  /\ decorations' = [decorations EXCEPT ![t] = None]
  /\ choice' = [choice EXCEPT ![t] = None] /\ sent' = [sent EXCEPT ![t] = None]
  /\ handler' = IF t \in heard THEN Handler("other", t) ELSE handler
  /\ UNCHANGED <<surfaceLive, popupOf, named, popups, surfaces, heardSurfaces,
                 running, victims>>

-----------------------------------------------------------------------------
(* Decorations *)

\* The deliver_all arm of RequestDecorationMode starts with a clear flag.
AskMode(t, decos, commit) ==
  /\ decorations' = [decos EXCEPT ![t].set = FALSE]
  /\ choice' = [choice EXCEPT ![t] = None]
  /\ handler' = [event |-> "mode", about |-> t, commit |-> commit]

(* on_new_toplevel_decoration.  A toplevel of an earlier run still carries *)
(* its id, so its decoration is recorded, but nothing ever answers it.     *)
NewDecoration(t) ==
  /\ Dispatching /\ t \in roleLive \ decorated
  /\ decorated' = decorated \cup {t}
  /\ sent' = [sent EXCEPT ![t] = None]
  /\ IF running /\ t \in named
     THEN LET decos == [decorations EXCEPT ![t] =
                          [staged |-> None, answered |-> FALSE, set |-> FALSE]]
          IN /\ heardDecorations' = heardDecorations \cup {t}
             /\ IF t \in toplevels \cap initialized
                THEN AskMode(t, decos, FALSE)
                ELSE /\ decorations' = decos
                     /\ choice' = [choice EXCEPT ![t] = None]
                     /\ UNCHANGED handler
     ELSE UNCHANGED <<heardDecorations, decorations, choice, handler>>
  /\ UNCHANGED <<surfaceLive, roleLive, popupOf, initialized, named, tables,
                 heard, heardSurfaces, configured, running, victims>>

\* on_decoration_request_mode
DecorationRequestMode(t) ==
  /\ Dispatching /\ t \in heardDecorations
  /\ AskMode(t, decorations, FALSE)
  /\ UNCHANGED <<objects, tables, listeners, sent, configured, running, victims>>

\* on_toplevel_decoration_destroy
DecorationDestroyed(t) ==
  /\ Dispatching /\ t \in decorated
  /\ decorated' = decorated \ {t}
  /\ heardDecorations' = heardDecorations \ {t}
  /\ decorations' = [decorations EXCEPT ![t] = None]
  /\ choice' = [choice EXCEPT ![t] = None] /\ sent' = [sent EXCEPT ![t] = None]
  /\ UNCHANGED <<surfaceLive, roleLive, popupOf, initialized, named, tables,
                 heard, heardSurfaces, configured, control>>

CanAnswer(t) == decorations[t] # None /\ t \in toplevels

\* Mutant: a mode sent at once leaves an older one waiting.
AnswerKeepingStaged(t, mode) ==
  /\ decorations' = [decorations EXCEPT ![t] =
       [staged |-> IF t \in initialized THEN @.staged ELSE mode,
        answered |-> TRUE, set |-> TRUE]]
  /\ sent' = IF t \in initialized THEN [sent EXCEPT ![t] = mode] ELSE sent

(* set_decoration_mode: sent at once, or staged for the initial commit.    *)
Answer(t, mode) ==
  /\ decorations' = [decorations EXCEPT ![t] =
       [staged |-> IF t \in initialized THEN None ELSE mode,
        answered |-> TRUE, set |-> TRUE]]
  /\ sent' = IF t \in initialized THEN [sent EXCEPT ![t] = mode] ELSE sent

\* The consumer's call, in any handler.
SetDecorationMode(t, mode) ==
  /\ ~Dispatching /\ victims = {} /\ CanAnswer(t)
  /\ Answer(t, mode)
  /\ choice' = [choice EXCEPT ![t] = mode]
  /\ UNCHANGED <<objects, tables, listeners, configured, control>>

-----------------------------------------------------------------------------
(* Popups *)

\* on_new_popup: x's listener hears of it, and x has a scene tree.
NewPopup(p, x) ==
  /\ Dispatching /\ x \in roleLive /\ p \notin roleLive
  /\ surfaceLive' = surfaceLive \cup {p}
  /\ roleLive' = roleLive \cup {p}
  /\ popupOf' = [popupOf EXCEPT ![p] = x]
  /\ IF x \in heard
     THEN /\ named' = named \cup {p}
          /\ heard' = heard \cup {p}
          /\ popups' = [popups EXCEPT ![p] = x]
          /\ InstallSurfaceListeners(p)
          /\ handler' = Handler("other", p)
     ELSE UNCHANGED <<named, heard, heardSurfaces, popups, surfaces, handler>>
  /\ UNCHANGED <<initialized, decorated, toplevels, heardDecorations, decoration,
                 configured, running, victims>>

\* wlroots destroys the popups of gone, and on_popup_destroy forgets each.
DestroyPopups(gone) ==
  /\ roleLive' = roleLive \ gone
  /\ popupOf' = [p \in Popups |-> IF p \in gone THEN None ELSE popupOf[p]]
  /\ initialized' = initialized \ gone /\ configured' = configured \ gone
  /\ popups' = [p \in Popups |-> IF p \in gone THEN None ELSE popups[p]]
  /\ heard' = heard \ gone

PopupDestroyed(p) ==
  /\ Dispatching /\ p \in roleLive /\ ~HasChild(p)
  /\ DestroyPopups({p})
  /\ handler' = IF p \in heard THEN Handler("other", p) ELSE handler
  /\ UNCHANGED <<surfaceLive, decorated, named, toplevels, surfaces,
                 heardSurfaces, heardDecorations, decoration, running, victims>>

(* popup_chain, breadth first, with p as its own first level.              *)
Level(p) ==
  LET level[i \in 0..MaxDepth] ==
        IF i = 0 THEN {p} ELSE {q \in Popups : popups[q] \in level[i - 1]}
  IN level

\* dismiss_popup, in a handler.
DismissPopup(p) ==
  /\ ~Dispatching /\ victims = {}
  /\ victims' = {v \in (0..MaxDepth) \X Popups : v[2] \in Level(p)[v[1]]}
  /\ UNCHANGED <<objects, tables, listeners, decoration, configured, running, handler>>

\* p and every live popup that hangs off it, however deep.
Family(p) ==
  LET Closed == {S \in SUBSET Popups :
                   p \in S /\ \A q \in Popups \cap roleLive : popupOf[q] \in S => q \in S}
  IN {q \in Popups : \A S \in Closed : q \in S}

\* Mutant: a parent goes before its children.
DeepestShallowFirst == {v \in victims : \A w \in victims : v[1] <= w[1]}

\* The victims whose turn it is.
Deepest == {v \in victims : \A w \in victims : v[1] >= w[1]}

(* The next popup of the deepest level left; a popup that is gone already  *)
(* is passed over.  The deliveries wait for the handler to return.         *)
DismissNext(p) ==
  /\ \E v \in Deepest : v[2] = p /\ victims' = victims \ {v}
  /\ IF popups[p] # None
     THEN DestroyPopups(Family(p))
     ELSE UNCHANGED <<roleLive, popupOf, initialized, configured, popups, heard>>
  /\ UNCHANGED <<surfaceLive, decorated, named, toplevels, surfaces,
                 heardSurfaces, heardDecorations, decoration, running, handler>>

\* configure_popup, in a handler.
ConfigurePopup(p) ==
  /\ ~Dispatching /\ victims = {}
  /\ popups[p] # None /\ p \in initialized
  /\ configured' = configured \cup {p}
  /\ UNCHANGED <<objects, tables, listeners, decoration, control>>

-----------------------------------------------------------------------------
(* Deliveries and runs *)

\* An event of something else; a queued delivery.
OtherEvent ==
  /\ Dispatching /\ running
  /\ handler' = Handler("other", None)
  /\ UNCHANGED <<objects, tables, listeners, decoration, configured, running, victims>>

Returning(event) == handler.event = event /\ victims = {}

OtherReturns ==
  /\ Returning("other")
  /\ handler' = NoHandler
  /\ UNCHANGED <<objects, tables, listeners, decoration, configured, running, victims>>

(* The rest of deliver_all's arm: a request the handler left alone is      *)
(* answered with server-side decorations.                                  *)
ModeReturns ==
  /\ Returning("mode")
  /\ LET t == handler.about
     IN /\ IF CanAnswer(t) /\ ~decorations[t].set
           THEN Answer(t, Server)
           ELSE UNCHANGED <<decorations, sent>>
        /\ configured' = IF handler.commit THEN configured \cup {t} ELSE configured
  /\ handler' = NoHandler
  /\ UNCHANGED <<objects, tables, listeners, choice, running, victims>>

(* The rest of on_surface_commit: a staged mode is sent, an unanswered     *)
(* decoration is asked about, and the configure is scheduled.              *)
ToplevelCommitReturns ==
  /\ Returning("commit") /\ handler.about \in Toplevels
  /\ LET t == handler.about
         staged == decorations[t] # None /\ decorations[t].staged # None
         asks == decorations[t] # None /\ ~decorations[t].answered
     IN \/ /\ staged /\ Answer(t, decorations[t].staged)
           /\ handler' = NoHandler /\ configured' = configured \cup {t}
           /\ UNCHANGED choice
        \/ /\ ~staged /\ asks /\ AskMode(t, decorations, TRUE)
           /\ UNCHANGED <<sent, configured>>
        \/ /\ ~staged /\ ~asks
           /\ handler' = NoHandler /\ configured' = configured \cup {t}
           /\ UNCHANGED decoration
  /\ UNCHANGED <<objects, tables, listeners, running, victims>>

\* Mutant: the popup is configured whatever its handler did.
PopupCommitReturnsBlindly ==
  /\ Returning("commit") /\ handler.about \in Popups
  /\ configured' = configured \cup {handler.about}
  /\ handler' = NoHandler
  /\ UNCHANGED <<objects, tables, listeners, decoration, running, victims>>

\* The rest of on_popup_commit, which looks the popup up again.
PopupCommitReturns ==
  /\ Returning("commit") /\ handler.about \in Popups
  /\ configured' = IF popups[handler.about] # None
                   THEN configured \cup {handler.about} ELSE configured
  /\ handler' = NoHandler
  /\ UNCHANGED <<objects, tables, listeners, decoration, running, victims>>

RunStart ==
  /\ Dispatching /\ ~running
  /\ running' = TRUE
  /\ UNCHANGED <<objects, tables, listeners, decoration, configured, handler, victims>>

\* Mutant: the popups outlive the run that heard of their deaths.
RunEndKeepingPopups ==
  /\ Dispatching /\ running
  /\ running' = FALSE
  /\ heard' = {} /\ heardSurfaces' = {} /\ heardDecorations' = {}
  /\ toplevels' = {} /\ surfaces' = {}
  /\ decorations' = [t \in Toplevels |-> None]
  /\ choice' = [t \in Toplevels |-> None]
  /\ UNCHANGED <<objects, sent, popups, configured, handler, victims>>

(* The run's guards and its Session: clear_toplevels, clear_popups,        *)
(* clear_surfaces, and every listener.                                     *)
RunEnd ==
  /\ Dispatching /\ running
  /\ running' = FALSE
  /\ heard' = {} /\ heardSurfaces' = {} /\ heardDecorations' = {}
  /\ toplevels' = {} /\ surfaces' = {}
  /\ popups' = [p \in Popups |-> None]
  /\ decorations' = [t \in Toplevels |-> None]
  /\ choice' = [t \in Toplevels |-> None]
  /\ UNCHANGED <<objects, sent, configured, handler, victims>>

-----------------------------------------------------------------------------
Next ==
  \/ \E t \in Toplevels :
       \/ NewToplevel(t) \/ ToplevelDestroyed(t)
       \/ NewDecoration(t) \/ DecorationRequestMode(t) \/ DecorationDestroyed(t)
       \/ \E mode \in Modes : SetDecorationMode(t, mode)
  \/ \E p \in Popups :
       \/ \E x \in Roles : NewPopup(p, x)
       \/ PopupDestroyed(p) \/ DismissPopup(p) \/ DismissNext(p)
       \/ ConfigurePopup(p)
  \/ \E x \in Roles : InitialCommit(x) \/ Unmap(x)
  \/ \E x \in Surfaces : SurfaceDestroyed(x)
  \/ \E s \in Subsurfaces, x \in Surfaces : NewSubsurface(s, x)
  \/ OtherEvent \/ OtherReturns \/ ModeReturns
  \/ ToplevelCommitReturns \/ PopupCommitReturns
  \/ RunStart \/ RunEnd

Spec == Init /\ [][Next]_vars

-----------------------------------------------------------------------------
(* Properties *)

TypeOK ==
  /\ surfaceLive \subseteq Surfaces /\ roleLive \subseteq Roles
  /\ popupOf \in [Popups -> Roles \cup {None}]
  /\ initialized \subseteq Roles /\ decorated \subseteq Toplevels
  /\ named \subseteq Roles
  /\ sent \in [Toplevels -> Modes \cup {None}]
  /\ choice \in [Toplevels -> Modes \cup {None}]
  /\ toplevels \subseteq Toplevels /\ surfaces \subseteq Surfaces
  /\ popups \in [Popups -> Roles \cup {None}]
  /\ decorations \in [Toplevels -> Flags \cup {None}]
  /\ heard \subseteq Roles /\ heardSurfaces \subseteq Surfaces
  /\ heardDecorations \subseteq Toplevels
  /\ configured \subseteq Roles
  /\ running \in BOOLEAN
  /\ handler \in [event : {"none", "other", "commit", "mode"},
                  about : Surfaces \cup {None}, commit : BOOLEAN]
  /\ victims \subseteq (0..MaxDepth) \X Popups

\* Every row names a live object, and there is a row exactly for what the run
\* listens to: with or without a run, whatever died in a chain or on its own.
TablesAgree ==
  /\ toplevels \cup {p \in Popups : popups[p] # None} = heard
  /\ heard \subseteq roleLive
  /\ surfaces = heardSurfaces /\ surfaces \subseteq surfaceLive
  /\ {t \in Toplevels : decorations[t] # None} = heardDecorations
  /\ heardDecorations \subseteq decorated

\* A configure is scheduled only for an object that exists and has made its
\* initial commit, although handlers run between the commit and the configure.
ConfiguredIsLive == configured \subseteq initialized /\ initialized \subseteq roleLive

\* Once an announced toplevel's configure is scheduled, its decoration has the
\* mode the consumer chose since it was last asked, and server-side if none.
ModeIsChosen ==
  Dispatching => \A t \in toplevels \cap configured :
    decorations[t] # None =>
      sent[t] = IF choice[t] # None THEN choice[t] ELSE Server

\* A dismissed chain ends within MAX_POPUP_DEPTH levels, which popup_chain
\* takes for granted.
ShortChains == \A p, q \in Popups : DismissPopup(p) => popups[q] \notin Level(p)[MaxDepth]
ChainsReached == [][ShortChains]_vars

\* A popup that dismiss_popup destroys has no popup of its own left: doing it
\* in the other order is a protocol error.
DismissedLeafFirst ==
  [][victims # {} /\ roleLive' # roleLive =>
       \A p \in roleLive \ roleLive' : ~HasChild(p)]_vars
=============================================================================
