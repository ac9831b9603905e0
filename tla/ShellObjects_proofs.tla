------------------------- MODULE ShellObjects_proofs -------------------------
(* Proofs about ShellObjects, for any objects: its type, the three           *)
(* invariants, and the order in which a chain of popups is dismissed.        *)
EXTENDS ShellObjects, Functions, WellFoundedInduction, FiniteSetTheorems, TLAPS

-----------------------------------------------------------------------------
(* The inductive invariant.                                                *)

\* A delivery that will schedule a configure is about an object that is
\* initialized, unless its handler destroyed it.
HandlerSound ==
  /\ handler.event = "none" => handler = NoHandler
  /\ handler.event = "mode" => /\ handler.about \in Toplevels
                               /\ handler.commit => handler.about \in initialized
  /\ handler.event = "commit" =>
       /\ handler.about \in Roles
       /\ handler.about \in Toplevels => handler.about \in initialized
       /\ handler.about \in Popups /\ popups[handler.about] # None =>
            handler.about \in initialized

Want(t) == IF choice[t] # None THEN choice[t] ELSE Server

\* What was answered for t is waiting to be sent, or was sent.
Settled(t) ==
  LET d == decorations[t]
  IN /\ d.staged # None => d.staged = Want(t) /\ d.answered
     /\ d.staged = None /\ d.answered => sent[t] = Want(t)
     /\ ~d.answered => choice[t] = None

\* What was answered for t was sent, if t can be configured.
SentIfInitialized(t) ==
  decorations[t].answered /\ (t \in initialized => decorations[t].staged = None)

ModeAsked(t) == handler.event = "mode" /\ handler.about = t

(* While the consumer is asked, its answer counts from the moment it gives *)
(* one; otherwise the last answer, or the default, stands.                 *)
ModeTracked ==
  \A t \in toplevels : decorations[t] # None =>
    /\ ModeAsked(t) =>
         IF decorations[t].set
         THEN choice[t] # None /\ Settled(t) /\ SentIfInitialized(t)
         ELSE choice[t] = None
    /\ ~ModeAsked(t) => /\ Settled(t)
                        /\ t \in configured => SentIfInitialized(t)

IInv == /\ TypeOK /\ TablesAgree /\ ConfiguredIsLive
        /\ decorated \subseteq roleLive
        /\ HandlerSound /\ ModeTracked

-----------------------------------------------------------------------------
LEMMA NoneIsNothing ==
  /\ None \notin Flags /\ None \notin Modes /\ None \notin Surfaces
  /\ Server \in Modes /\ Server # None
BY ShellObjectsAssumption DEF Modes

LEMMA InitIInv == Init => IInv
<1> SUFFICES ASSUME Init PROVE IInv
  OBVIOUS
<1>1. TypeOK
  BY DEF Init, TypeOK, NoHandler
<1>2. TablesAgree /\ ConfiguredIsLive
  BY DEF Init, TablesAgree, ConfiguredIsLive
<1> QED
  BY <1>1, <1>2 DEF Init, IInv, HandlerSound, NoHandler, ModeTracked

(* ModeTracked speaks of the announced toplevels that have a decoration;   *)
(* what leaves those, their decorations and the question alone keeps it.   *)
LEMMA ModeTrackedKept ==
  ASSUME ModeTracked, toplevels' \subseteq toplevels, UNCHANGED <<sent, choice>>,
         \A t \in toplevels' : decorations'[t] \in {decorations[t], None},
         initialized' \cap toplevels' \subseteq initialized,
         configured' \cap toplevels' \subseteq configured,
         handler.event # "mode", handler'.event # "mode"
  PROVE  ModeTracked'
BY DEF ModeTracked, Settled, SentIfInitialized, ModeAsked, Want

\* Wherever wlroots is in control, no question is open.
LEMMA DispatchingAsksNothing ==
  ASSUME IInv, Dispatching PROVE handler.event = "none"
BY DEF Dispatching, NoHandler

HandlerTyped == handler \in [event : {"none", "other", "commit", "mode"},
                             about : Surfaces \cup {None}, commit : BOOLEAN]

\* A delivery that schedules nothing is sound.
LEMMA OtherIsSound ==
  ASSUME IInv, Dispatching,
         NEW y \in Surfaces \cup {None}, handler' \in {handler, Handler("other", y)}
  PROVE  HandlerSound' /\ HandlerTyped' /\ handler'.event # "mode"
<1>1. CASE handler' = Handler("other", y)
  BY <1>1 DEF HandlerTyped, HandlerSound, Handler
<1>2. CASE handler' = handler
  BY <1>2, DispatchingAsksNothing DEF HandlerTyped, HandlerSound, IInv, TypeOK
<1> QED BY <1>1, <1>2

-----------------------------------------------------------------------------
(* Surfaces and roles.                                                     *)

LEMMA NewSubsurfacePreserves ==
  ASSUME IInv, NEW s \in Subsurfaces, NEW x \in Surfaces, NewSubsurface(s, x)
  PROVE  IInv'
<1> USE DEF NewSubsurface, InstallSurfaceListeners, Handler, decoration, Surfaces
<1>1. TypeOK'
  <2>1. HandlerTyped'
    BY OtherIsSound
  <2>2. surfaces' \subseteq Surfaces /\ heardSurfaces' \subseteq Surfaces
    BY DEF IInv, TypeOK
  <2> QED BY <2>1, <2>2 DEF IInv, TypeOK, HandlerTyped
<1>2. TablesAgree' /\ ConfiguredIsLive' /\ (decorated \subseteq roleLive)'
  BY DEF IInv, TablesAgree, ConfiguredIsLive
<1>3. HandlerSound'
  BY OtherIsSound
<1>4. ModeTracked'
  BY DispatchingAsksNothing, ModeTrackedKept DEF IInv
<1> QED BY <1>1, <1>2, <1>3, <1>4 DEF IInv

LEMMA SurfaceDestroyedPreserves ==
  ASSUME IInv, NEW x \in Surfaces, SurfaceDestroyed(x)
  PROVE  IInv'
<1> USE DEF SurfaceDestroyed, Handler, decoration
<1>1. TypeOK'
  BY DEF IInv, TypeOK
<1>2. TablesAgree' /\ ConfiguredIsLive' /\ (decorated \subseteq roleLive)'
  BY DEF IInv, TablesAgree, ConfiguredIsLive
<1>3. HandlerSound'
  BY OtherIsSound
<1>4. ModeTracked'
  BY DispatchingAsksNothing, ModeTrackedKept DEF IInv
<1> QED BY <1>1, <1>2, <1>3, <1>4 DEF IInv

LEMMA NewToplevelPreserves ==
  ASSUME IInv, NEW t \in Toplevels, NewToplevel(t)
  PROVE  IInv'
<1> USE DEF NewToplevel, InstallSurfaceListeners, Handler, decoration, Surfaces, Roles
<1>1. TypeOK'
  <2>1. HandlerTyped'
    BY OtherIsSound
  <2>2. surfaces' \subseteq Surfaces /\ heardSurfaces' \subseteq Surfaces
    BY DEF IInv, TypeOK
  <2> QED BY <2>1, <2>2 DEF IInv, TypeOK, HandlerTyped
<1>2. TablesAgree' /\ ConfiguredIsLive' /\ (decorated \subseteq roleLive)'
  BY DEF IInv, TablesAgree, ConfiguredIsLive
<1>3. HandlerSound'
  BY OtherIsSound
<1>4. decorations[t] = None
  BY DEF IInv, TablesAgree
<1>5. ModeTracked'
  <2>1. handler.event = "none" /\ handler'.event # "mode"
    BY DispatchingAsksNothing
  <2>2. toplevels' \subseteq toplevels \cup {t}
    BY DEF IInv
  <2> QED
    BY <1>4, <2>1, <2>2
    DEF IInv, ModeTracked, Settled, SentIfInitialized, ModeAsked, Want
<1> QED BY <1>1, <1>2, <1>3, <1>5 DEF IInv

LEMMA InitialCommitPreserves ==
  ASSUME IInv, NEW x \in Roles, InitialCommit(x)
  PROVE  IInv'
<1> USE DEF InitialCommit, Handler, decoration, tables, listeners, Surfaces, Roles
<1>1. TypeOK'
  BY DEF IInv, TypeOK
<1>2. TablesAgree' /\ ConfiguredIsLive' /\ (decorated \subseteq roleLive)'
  BY DEF IInv, TablesAgree, ConfiguredIsLive
<1>3. HandlerSound'
  BY DispatchingAsksNothing DEF IInv, HandlerSound
<1>4. x \notin configured
  BY DEF IInv, ConfiguredIsLive
<1>5. ModeTracked'
  <2>1. handler.event = "none" /\ handler'.event # "mode"
    BY DispatchingAsksNothing
  <2> QED
    BY <1>4, <2>1 DEF IInv, ModeTracked, Settled, SentIfInitialized, ModeAsked, Want
<1> QED BY <1>1, <1>2, <1>3, <1>5 DEF IInv

LEMMA UnmapPreserves ==
  ASSUME IInv, NEW x \in Roles, Unmap(x)
  PROVE  IInv'
<1> USE DEF Unmap, Handler, decoration, tables, listeners, Surfaces, Roles
<1>1. TypeOK'
  BY DEF IInv, TypeOK
<1>2. TablesAgree' /\ ConfiguredIsLive' /\ (decorated \subseteq roleLive)'
  BY DEF IInv, TablesAgree, ConfiguredIsLive
<1>3. HandlerSound'
  BY OtherIsSound
<1>4. ModeTracked'
  BY DispatchingAsksNothing, ModeTrackedKept DEF IInv
<1> QED BY <1>1, <1>2, <1>3, <1>4 DEF IInv

LEMMA ToplevelDestroyedPreserves ==
  ASSUME IInv, NEW t \in Toplevels, ToplevelDestroyed(t)
  PROVE  IInv'
<1> USE DEF ToplevelDestroyed, Handler, Surfaces, Roles
<1>1. TypeOK'
  BY DEF IInv, TypeOK
<1>2. \A u \in Toplevels \ {t} : decorations'[u] = decorations[u] /\ sent'[u] = sent[u]
                                 /\ choice'[u] = choice[u]
  BY DEF IInv, TypeOK
<1>3. decorations'[t] = None
  BY DEF IInv, TypeOK
<1>4. {u \in Toplevels : decorations'[u] # None} = heardDecorations'
  BY <1>2, <1>3 DEF IInv, TablesAgree, TypeOK
<1>5. TablesAgree' /\ ConfiguredIsLive' /\ (decorated \subseteq roleLive)'
  BY <1>4, ShellObjectsAssumption DEF IInv, TablesAgree, ConfiguredIsLive
<1>6. HandlerSound'
  BY OtherIsSound
<1>7. ModeTracked'
  <2>1. handler.event = "none" /\ handler'.event # "mode"
    BY DispatchingAsksNothing
  <2> QED
    BY <1>2, <2>1
    DEF IInv, TypeOK, ModeTracked, Settled, SentIfInitialized, ModeAsked, Want
<1> QED BY <1>1, <1>5, <1>6, <1>7 DEF IInv

-----------------------------------------------------------------------------
(* Decorations.                                                            *)

\* The rows of the other toplevels, and what was sent and chosen for them.
OthersKept(t) ==
  \A u \in Toplevels \ {t} :
    decorations'[u] = decorations[u] /\ sent'[u] = sent[u] /\ choice'[u] = choice[u]

LEMMA OthersTracked ==
  ASSUME IInv, NEW t \in Toplevels, OthersKept(t),
         toplevels' = toplevels, initialized' = initialized,
         configured' \subseteq configured \cup {t},
         \A u \in Toplevels \ {t} : ~ModeAsked(u) /\ ~ModeAsked(u)',
         NEW u \in toplevels \ {t}, decorations'[u] # None
  PROVE  /\ ~ModeAsked(u)' /\ Settled(u)'
         /\ u \in configured' => SentIfInitialized(u)'
<1>1. u \in Toplevels \ {t} /\ (u \in configured' => u \in configured)
  BY DEF IInv, TypeOK
<1>2. Settled(u) /\ (u \in configured => SentIfInitialized(u))
  BY <1>1 DEF IInv, ModeTracked, OthersKept
<1> QED
  BY <1>1, <1>2 DEF OthersKept, Settled, SentIfInitialized, Want

\* It is enough to look at the toplevel a step is about.
LEMMA TrackOne ==
  ASSUME IInv, NEW t \in Toplevels, OthersKept(t),
         toplevels' = toplevels, initialized' = initialized,
         configured' \subseteq configured \cup {t},
         \A u \in Toplevels \ {t} : ~ModeAsked(u) /\ ~ModeAsked(u)',
         t \in toplevels /\ decorations'[t] # None =>
           /\ ModeAsked(t)' =>
                IF decorations'[t].set
                THEN choice'[t] # None /\ Settled(t)' /\ SentIfInitialized(t)'
                ELSE choice'[t] = None
           /\ ~ModeAsked(t)' => /\ Settled(t)'
                                /\ t \in configured' => SentIfInitialized(t)'
  PROVE  ModeTracked'
<1> SUFFICES ASSUME NEW u \in toplevels, decorations'[u] # None
             PROVE  /\ ModeAsked(u)' =>
                         IF decorations'[u].set
                         THEN choice'[u] # None /\ Settled(u)' /\ SentIfInitialized(u)'
                         ELSE choice'[u] = None
                    /\ ~ModeAsked(u)' => /\ Settled(u)'
                                         /\ u \in configured' => SentIfInitialized(u)'
  BY DEF ModeTracked
<1>1. CASE u = t
  BY <1>1
<1>2. CASE u # t
  BY <1>2, OthersTracked
<1> QED BY <1>1, <1>2

\* The rows of the decorations after one of them was written.
LEMMA RowWritten ==
  ASSUME IInv, NEW t \in Toplevels, NEW f \in Flags \cup {None},
         decorations' = [decorations EXCEPT ![t] = f]
  PROVE  /\ decorations' \in [Toplevels -> Flags \cup {None}]
         /\ decorations'[t] = f
         /\ \A u \in Toplevels \ {t} : decorations'[u] = decorations[u]
BY DEF IInv, TypeOK

\* The question clears the flag and the choice, and nothing else.
LEMMA Asked ==
  ASSUME IInv, NEW t \in Toplevels, NEW decos \in [Toplevels -> Flags \cup {None}],
         NEW commit \in BOOLEAN, decos[t] # None, AskMode(t, decos, commit)
  PROVE  /\ decorations' \in [Toplevels -> Flags \cup {None}]
         /\ choice' \in [Toplevels -> Modes \cup {None}]
         /\ decorations'[t] \in Flags /\ decorations'[t].set = FALSE
         /\ choice'[t] = None
         /\ \A u \in Toplevels \ {t} : decorations'[u] = decos[u] /\ choice'[u] = choice[u]
         /\ HandlerTyped' /\ ModeAsked(t)' /\ handler'.commit = commit
         /\ \A u \in Toplevels \ {t} : ~ModeAsked(u)'
<1>1. decos[t] \in Flags
  OBVIOUS
<1>2. decorations' = [decos EXCEPT ![t] = [decos[t] EXCEPT !.set = FALSE]]
  BY DEF AskMode
<1>3. [decos[t] EXCEPT !.set = FALSE] \in Flags
  BY <1>1 DEF Flags
<1>4. [decos[t] EXCEPT !.set = FALSE].set = FALSE
  BY <1>1 DEF Flags
<1>5. HandlerTyped' /\ ModeAsked(t)' /\ handler'.commit = commit
      /\ \A u \in Toplevels \ {t} : ~ModeAsked(u)'
  BY DEF AskMode, HandlerTyped, ModeAsked, Surfaces, Roles
<1> QED
  BY <1>2, <1>3, <1>4, <1>5 DEF AskMode, IInv, TypeOK

\* An answer is sent at once, or waits for the initial commit.
LEMMA Answered ==
  ASSUME IInv, NEW t \in Toplevels, NEW mode \in Modes, Answer(t, mode)
  PROVE  /\ decorations' \in [Toplevels -> Flags \cup {None}]
         /\ sent' \in [Toplevels -> Modes \cup {None}]
         /\ decorations'[t] =
              [staged |-> IF t \in initialized THEN None ELSE mode,
               answered |-> TRUE, set |-> TRUE]
         /\ decorations'[t] \in Flags
         /\ t \in initialized => sent'[t] = mode
         /\ \A u \in Toplevels \ {t} : decorations'[u] = decorations[u] /\ sent'[u] = sent[u]
<1> DEFINE f == [staged |-> IF t \in initialized THEN None ELSE mode,
                 answered |-> TRUE, set |-> TRUE]
<1>1. f \in Flags
  BY DEF Flags
<1>2. decorations' = [decorations EXCEPT ![t] = f]
  BY DEF Answer
<1> HIDE DEF f
<1>3. /\ decorations' \in [Toplevels -> Flags \cup {None}] /\ decorations'[t] = f
      /\ \A u \in Toplevels \ {t} : decorations'[u] = decorations[u]
  BY <1>1, <1>2, RowWritten
<1>4. /\ sent' \in [Toplevels -> Modes \cup {None}] /\ (t \in initialized => sent'[t] = mode)
      /\ \A u \in Toplevels \ {t} : sent'[u] = sent[u]
  BY DEF Answer, IInv, TypeOK
<1> QED BY <1>1, <1>3, <1>4 DEF f

\* A table with a row for the same toplevels still agrees with the listeners.
LEMMA RowsAgree ==
  ASSUME IInv, NEW t \in Toplevels,
         \A u \in Toplevels \ {t} : decorations'[u] = decorations[u],
         decorations'[t] # None <=> t \in heardDecorations',
         heardDecorations' \ {t} = heardDecorations \ {t}
  PROVE  {u \in Toplevels : decorations'[u] # None} = heardDecorations'
BY DEF IInv, TypeOK, TablesAgree

LEMMA NewDecorationPreserves ==
  ASSUME IInv, NEW t \in Toplevels, NewDecoration(t)
  PROVE  IInv'
<1> USE DEF NewDecoration, tables
<1>0. handler.event = "none" /\ \A u \in Toplevels : ~ModeAsked(u)
  BY DispatchingAsksNothing DEF ModeAsked
<1> DEFINE fresh == [staged |-> None, answered |-> FALSE, set |-> FALSE]
           decos == [decorations EXCEPT ![t] = fresh]
<1>1. fresh \in Flags /\ fresh # None
  <2>1. fresh \in Flags
    BY DEF Flags
  <2> HIDE DEF fresh
  <2> QED BY <2>1, NoneIsNothing
<1>2. /\ decos \in [Toplevels -> Flags \cup {None}] /\ decos[t] = fresh
      /\ \A u \in Toplevels \ {t} : decos[u] = decorations[u]
  BY <1>1 DEF IInv, TypeOK
<1>3. CASE running /\ t \in named /\ t \in toplevels \cap initialized
  <2>1. AskMode(t, decos, FALSE)
    BY <1>3
  <2> HIDE DEF decos, fresh
  <2>2. /\ decorations' \in [Toplevels -> Flags \cup {None}]
        /\ choice' \in [Toplevels -> Modes \cup {None}]
        /\ decorations'[t] \in Flags /\ decorations'[t].set = FALSE
        /\ choice'[t] = None
        /\ \A u \in Toplevels \ {t} : decorations'[u] = decos[u] /\ choice'[u] = choice[u]
        /\ HandlerTyped' /\ ModeAsked(t)' /\ handler'.commit = FALSE
        /\ \A u \in Toplevels \ {t} : ~ModeAsked(u)'
    BY <2>1, <1>1, <1>2, Asked
  <2>3. heardDecorations' = heardDecorations \cup {t}
    BY <1>3
  <2>4. sent' \in [Toplevels -> Modes \cup {None}] /\ \A u \in Toplevels \ {t} : sent'[u] = sent[u]
    BY DEF IInv, TypeOK
  <2>5. TypeOK'
    BY <2>2, <2>3, <2>4 DEF IInv, TypeOK, HandlerTyped
  <2>6. {u \in Toplevels : decorations'[u] # None} = heardDecorations'
    BY <1>2, <2>2, <2>3, RowsAgree, NoneIsNothing
  <2>7. TablesAgree' /\ ConfiguredIsLive' /\ (decorated \subseteq roleLive)'
    BY <2>3, <2>6 DEF IInv, TablesAgree, ConfiguredIsLive
  <2>8. HandlerSound'
    BY <2>2 DEF HandlerSound, ModeAsked
  <2>9. ModeTracked'
    BY <1>0, <1>2, <2>2, <2>4, TrackOne DEF OthersKept
  <2> QED BY <2>5, <2>7, <2>8, <2>9 DEF IInv
<1>4. CASE running /\ t \in named /\ t \notin toplevels \cap initialized
  <2>1. /\ decorations' = decos /\ choice' = [choice EXCEPT ![t] = None]
        /\ handler' = handler /\ heardDecorations' = heardDecorations \cup {t}
    BY <1>4
  <2>2. /\ sent' \in [Toplevels -> Modes \cup {None}]
        /\ choice' \in [Toplevels -> Modes \cup {None}] /\ choice'[t] = None
        /\ \A u \in Toplevels \ {t} : sent'[u] = sent[u] /\ choice'[u] = choice[u]
    BY <2>1 DEF IInv, TypeOK
  <2>3. decorations'[t].answered = FALSE /\ decorations'[t].staged = None
    BY <1>2, <2>1
  <2>4. t \in toplevels => t \notin configured
    BY <1>4 DEF IInv, ConfiguredIsLive
  <2>5. decorations'[t] \in Flags /\ decorations'[t] # None
    BY <1>1, <1>2, <2>1
  <2> HIDE DEF decos, fresh
  <2>6. TypeOK'
    BY <1>2, <2>1, <2>2 DEF IInv, TypeOK
  <2>7. {u \in Toplevels : decorations'[u] # None} = heardDecorations'
    BY <1>2, <2>1, <2>5, RowsAgree
  <2>8. TablesAgree' /\ ConfiguredIsLive' /\ (decorated \subseteq roleLive)'
    BY <2>1, <2>7 DEF IInv, TablesAgree, ConfiguredIsLive
  <2>9. HandlerSound'
    BY <1>0, <2>1 DEF IInv, HandlerSound
  <2>10. Settled(t)' /\ \A u \in Toplevels : ~ModeAsked(u)'
    BY <1>0, <2>1, <2>2, <2>3 DEF Settled, ModeAsked
  <2>11. ModeTracked'
    BY <1>0, <1>2, <2>1, <2>2, <2>4, <2>10, TrackOne DEF OthersKept
  <2> QED BY <2>6, <2>8, <2>9, <2>11 DEF IInv
<1>5. CASE ~(running /\ t \in named)
  <2>1. UNCHANGED <<heardDecorations, decorations, choice, handler>>
    BY <1>5
  <2>2. decorations[t] = None
    BY DEF IInv, TablesAgree
  <2>3. sent' \in [Toplevels -> Modes \cup {None}] /\ \A u \in Toplevels \ {t} : sent'[u] = sent[u]
    BY DEF IInv, TypeOK
  <2>4. TypeOK'
    BY <2>1, <2>3 DEF IInv, TypeOK
  <2>5. TablesAgree' /\ ConfiguredIsLive' /\ (decorated \subseteq roleLive)'
    BY <2>1 DEF IInv, TablesAgree, ConfiguredIsLive
  <2>6. HandlerSound'
    BY <1>0, <2>1 DEF IInv, HandlerSound
  <2>7. \A u \in Toplevels : ~ModeAsked(u)'
    BY <1>0, <2>1 DEF ModeAsked
  <2>8. ModeTracked'
    BY <1>0, <2>1, <2>2, <2>3, <2>7, TrackOne DEF OthersKept
  <2> QED BY <2>4, <2>5, <2>6, <2>8 DEF IInv
<1> QED BY <1>3, <1>4, <1>5

LEMMA DecorationRequestModePreserves ==
  ASSUME IInv, NEW t \in Toplevels, DecorationRequestMode(t)
  PROVE  IInv'
<1> USE DEF DecorationRequestMode, tables, listeners, objects
<1>0. handler.event = "none" /\ \A u \in Toplevels : ~ModeAsked(u)
  BY DispatchingAsksNothing DEF ModeAsked
<1>1. decorations[t] # None /\ decorations \in [Toplevels -> Flags \cup {None}]
  BY DEF IInv, TypeOK, TablesAgree
<1>2. /\ decorations' \in [Toplevels -> Flags \cup {None}]
      /\ choice' \in [Toplevels -> Modes \cup {None}]
      /\ decorations'[t] \in Flags /\ decorations'[t].set = FALSE
      /\ choice'[t] = None
      /\ \A u \in Toplevels \ {t} : decorations'[u] = decorations[u] /\ choice'[u] = choice[u]
      /\ HandlerTyped' /\ ModeAsked(t)' /\ handler'.commit = FALSE
      /\ \A u \in Toplevels \ {t} : ~ModeAsked(u)'
  BY <1>1, Asked
<1>3. TypeOK'
  BY <1>2 DEF IInv, TypeOK, HandlerTyped
<1>4. {u \in Toplevels : decorations'[u] # None} = heardDecorations'
  BY <1>2, RowsAgree, NoneIsNothing
<1>5. TablesAgree' /\ ConfiguredIsLive' /\ (decorated \subseteq roleLive)'
  BY <1>4 DEF IInv, TablesAgree, ConfiguredIsLive
<1>6. HandlerSound'
  BY <1>2 DEF HandlerSound, ModeAsked
<1>7. ModeTracked'
  BY <1>0, <1>2, TrackOne DEF OthersKept
<1> QED BY <1>3, <1>5, <1>6, <1>7 DEF IInv

LEMMA DecorationDestroyedPreserves ==
  ASSUME IInv, NEW t \in Toplevels, DecorationDestroyed(t)
  PROVE  IInv'
<1> USE DEF DecorationDestroyed, tables, control
<1>0. handler.event = "none" /\ \A u \in Toplevels : ~ModeAsked(u) /\ ~ModeAsked(u)'
  BY DispatchingAsksNothing DEF ModeAsked
<1>1. /\ decorations' \in [Toplevels -> Flags \cup {None}] /\ decorations'[t] = None
      /\ \A u \in Toplevels \ {t} : decorations'[u] = decorations[u]
  BY RowWritten
<1>2. /\ sent' \in [Toplevels -> Modes \cup {None}]
      /\ choice' \in [Toplevels -> Modes \cup {None}]
      /\ \A u \in Toplevels \ {t} : sent'[u] = sent[u] /\ choice'[u] = choice[u]
  BY DEF IInv, TypeOK
<1>3. TypeOK'
  BY <1>1, <1>2 DEF IInv, TypeOK
<1>4. {u \in Toplevels : decorations'[u] # None} = heardDecorations'
  BY <1>1, RowsAgree
<1>5. TablesAgree' /\ ConfiguredIsLive' /\ (decorated \subseteq roleLive)'
  BY <1>4 DEF IInv, TablesAgree, ConfiguredIsLive
<1>6. HandlerSound'
  BY DEF IInv, HandlerSound
<1>7. ModeTracked'
  BY <1>0, <1>1, <1>2, TrackOne DEF OthersKept
<1> QED BY <1>3, <1>5, <1>6, <1>7 DEF IInv

LEMMA SetDecorationModePreserves ==
  ASSUME IInv, NEW t \in Toplevels, NEW mode \in Modes, SetDecorationMode(t, mode)
  PROVE  IInv'
<1> USE DEF SetDecorationMode, tables, listeners, objects, control
<1>1. /\ decorations' \in [Toplevels -> Flags \cup {None}]
      /\ sent' \in [Toplevels -> Modes \cup {None}]
      /\ decorations'[t] = [staged |-> IF t \in initialized THEN None ELSE mode,
                            answered |-> TRUE, set |-> TRUE]
      /\ decorations'[t] \in Flags
      /\ t \in initialized => sent'[t] = mode
      /\ \A u \in Toplevels \ {t} : decorations'[u] = decorations[u] /\ sent'[u] = sent[u]
  BY Answered
<1>2. /\ choice' \in [Toplevels -> Modes \cup {None}] /\ choice'[t] = mode
      /\ \A u \in Toplevels \ {t} : choice'[u] = choice[u]
  BY DEF IInv, TypeOK
<1>3. TypeOK'
  BY <1>1, <1>2 DEF IInv, TypeOK
<1>4. {u \in Toplevels : decorations'[u] # None} = heardDecorations'
  BY <1>1, RowsAgree, NoneIsNothing DEF CanAnswer, IInv, TablesAgree
<1>5. TablesAgree' /\ ConfiguredIsLive' /\ (decorated \subseteq roleLive)'
  BY <1>4 DEF IInv, TablesAgree, ConfiguredIsLive
<1>6. HandlerSound'
  BY DEF IInv, HandlerSound
<1>7. mode # None
  BY NoneIsNothing
<1>8. Settled(t)' /\ SentIfInitialized(t)' /\ choice'[t] # None
  BY <1>1, <1>2, <1>7 DEF Settled, SentIfInitialized, Want
<1>9. ModeTracked'
  <2> SUFFICES ASSUME NEW u \in toplevels, decorations'[u] # None
               PROVE  /\ ModeAsked(u) =>
                           IF decorations'[u].set
                           THEN choice'[u] # None /\ Settled(u)' /\ SentIfInitialized(u)'
                           ELSE choice'[u] = None
                      /\ ~ModeAsked(u) => /\ Settled(u)'
                                          /\ u \in configured => SentIfInitialized(u)'
    BY DEF ModeTracked, ModeAsked
  <2>1. CASE u = t
    BY <1>1, <1>8, <2>1
  <2>2. CASE u # t
    <3>1. u \in Toplevels \ {t}
      BY <2>2 DEF IInv, TypeOK
    <3> QED
      BY <3>1, <1>1, <1>2 DEF IInv, ModeTracked, Settled, SentIfInitialized, Want
  <2> QED BY <2>1, <2>2
<1> QED BY <1>3, <1>5, <1>6, <1>9 DEF IInv

-----------------------------------------------------------------------------
(* Popups.                                                                 *)

\* What the popups do leaves the toplevels and their decorations alone.
LEMMA PopupsLeaveModes ==
  ASSUME IInv, UNCHANGED <<toplevels, decoration>>,
         initialized' \cap Toplevels = initialized \cap Toplevels,
         configured' \cap Toplevels = configured \cap Toplevels,
         \A t \in Toplevels : ModeAsked(t)' = ModeAsked(t)
  PROVE  ModeTracked'
<1> SUFFICES ASSUME NEW t \in toplevels, decorations'[t] # None
             PROVE  /\ ModeAsked(t)' =>
                         IF decorations'[t].set
                         THEN choice'[t] # None /\ Settled(t)' /\ SentIfInitialized(t)'
                         ELSE choice'[t] = None
                    /\ ~ModeAsked(t)' => /\ Settled(t)'
                                         /\ t \in configured' => SentIfInitialized(t)'
  BY DEF ModeTracked, decoration
<1>1. t \in Toplevels /\ (t \in initialized' <=> t \in initialized)
      /\ (t \in configured' <=> t \in configured) /\ ModeAsked(t)' = ModeAsked(t)
  BY DEF IInv, TypeOK
<1> QED
  BY <1>1 DEF IInv, ModeTracked, Settled, SentIfInitialized, Want, decoration

LEMMA NewPopupPreserves ==
  ASSUME IInv, NEW p \in Popups, NEW x \in Roles, NewPopup(p, x)
  PROVE  IInv'
<1> USE DEF NewPopup, InstallSurfaceListeners, Handler, Surfaces, Roles
<1>1. HandlerSound' /\ HandlerTyped' /\ handler'.event # "mode"
  BY OtherIsSound
<1>2. popups' \in [Popups -> Roles \cup {None}] /\ popupOf' \in [Popups -> Roles \cup {None}]
  BY DEF IInv, TypeOK
<1>3. TypeOK'
  <2>1. /\ heard' \subseteq Roles /\ named' \subseteq Roles
        /\ surfaces' \subseteq Surfaces /\ heardSurfaces' \subseteq Surfaces
    BY DEF IInv, TypeOK
  <2> QED BY <1>1, <1>2, <2>1 DEF IInv, TypeOK, HandlerTyped, decoration
<1>4. {q \in Popups : popups'[q] # None} =
        {q \in Popups : popups[q] # None} \cup (IF x \in heard THEN {p} ELSE {})
  BY NoneIsNothing DEF IInv, TypeOK
<1>5. TablesAgree' /\ ConfiguredIsLive' /\ (decorated \subseteq roleLive)'
  BY <1>4 DEF IInv, TablesAgree, ConfiguredIsLive, decoration
<1>6. ModeTracked'
  BY <1>1, DispatchingAsksNothing, PopupsLeaveModes DEF ModeAsked
<1> QED BY <1>1, <1>3, <1>5, <1>6 DEF IInv

\* Popups that die take their rows and listeners along, and nothing else.
LEMMA PopupsDie ==
  ASSUME IInv, NEW gone \in SUBSET Popups, DestroyPopups(gone),
         UNCHANGED <<surfaceLive, decorated, named, toplevels, surfaces,
                     heardSurfaces, heardDecorations, decoration>>
  PROVE  /\ popups' \in [Popups -> Roles \cup {None}]
         /\ popupOf' \in [Popups -> Roles \cup {None}]
         /\ \A p \in Popups : popups'[p] # None => popups[p] # None /\ p \notin gone
         /\ initialized' = initialized \ gone
         /\ TablesAgree' /\ ConfiguredIsLive' /\ (decorated \subseteq roleLive)'
         /\ initialized' \cap Toplevels = initialized \cap Toplevels
         /\ configured' \cap Toplevels = configured \cap Toplevels
<1>1. gone \cap Toplevels = {}
  BY ShellObjectsAssumption
<1>2. /\ popups' \in [Popups -> Roles \cup {None}]
      /\ popupOf' \in [Popups -> Roles \cup {None}]
      /\ \A p \in Popups : popups'[p] # None <=> popups[p] # None /\ p \notin gone
  BY DEF DestroyPopups, IInv, TypeOK
<1>3. {p \in Popups : popups'[p] # None} = {p \in Popups : popups[p] # None} \ gone
  BY <1>2
<1>4. toplevels \cap gone = {} /\ decorated \cap gone = {}
  BY <1>1 DEF IInv, TypeOK
<1>5. TablesAgree' /\ ConfiguredIsLive' /\ (decorated \subseteq roleLive)'
  BY <1>3, <1>4 DEF IInv, TablesAgree, ConfiguredIsLive, DestroyPopups, decoration
<1> QED BY <1>1, <1>2, <1>5 DEF DestroyPopups

LEMMA PopupDestroyedPreserves ==
  ASSUME IInv, NEW p \in Popups, PopupDestroyed(p)
  PROVE  IInv'
<1> USE DEF PopupDestroyed, Handler
<1>1. HandlerSound' /\ HandlerTyped' /\ handler'.event # "mode"
  BY OtherIsSound DEF Surfaces, Roles
<1>2. {p} \in SUBSET Popups /\ DestroyPopups({p})
  OBVIOUS
<1>3. /\ popups' \in [Popups -> Roles \cup {None}]
      /\ popupOf' \in [Popups -> Roles \cup {None}]
      /\ TablesAgree' /\ ConfiguredIsLive' /\ (decorated \subseteq roleLive)'
      /\ initialized' \cap Toplevels = initialized \cap Toplevels
      /\ configured' \cap Toplevels = configured \cap Toplevels
  BY <1>2, PopupsDie
<1>4. TypeOK'
  BY <1>1, <1>3 DEF IInv, TypeOK, HandlerTyped, DestroyPopups, decoration
<1>5. ModeTracked'
  BY <1>1, <1>3, DispatchingAsksNothing, PopupsLeaveModes DEF ModeAsked
<1> QED BY <1>1, <1>3, <1>4, <1>5 DEF IInv

LEMMA DismissNextPreserves ==
  ASSUME IInv, NEW p \in Popups, DismissNext(p)
  PROVE  IInv'
<1> USE DEF DismissNext
<1>1. victims' \subseteq victims
  OBVIOUS
<1>2. CASE popups[p] # None
  <2>1. DestroyPopups(Family(p)) /\ Family(p) \in SUBSET Popups
    BY <1>2 DEF Family
  <2>2. /\ popups' \in [Popups -> Roles \cup {None}]
        /\ popupOf' \in [Popups -> Roles \cup {None}]
        /\ \A q \in Popups : popups'[q] # None => popups[q] # None /\ q \notin Family(p)
        /\ initialized' = initialized \ Family(p)
        /\ TablesAgree' /\ ConfiguredIsLive' /\ (decorated \subseteq roleLive)'
        /\ initialized' \cap Toplevels = initialized \cap Toplevels
        /\ configured' \cap Toplevels = configured \cap Toplevels
    BY <2>1, PopupsDie
  <2>3. TypeOK'
    BY <1>1, <2>1, <2>2 DEF IInv, TypeOK, DestroyPopups, decoration
  <2>4. HandlerSound'
    BY <2>1, <2>2, ShellObjectsAssumption DEF IInv, HandlerSound
  <2>5. ModeTracked'
    BY <2>2, PopupsLeaveModes DEF ModeAsked
  <2> QED BY <2>2, <2>3, <2>4, <2>5 DEF IInv
<1>3. CASE popups[p] = None
  <2>1. UNCHANGED <<roleLive, popupOf, initialized, configured, popups, heard>>
    BY <1>3
  <2>2. TypeOK' /\ TablesAgree' /\ ConfiguredIsLive' /\ (decorated \subseteq roleLive)'
    BY <1>1, <2>1 DEF IInv, TypeOK, TablesAgree, ConfiguredIsLive, decoration
  <2>3. HandlerSound'
    BY <2>1 DEF IInv, HandlerSound
  <2>4. ModeTracked'
    BY <2>1, PopupsLeaveModes DEF ModeAsked
  <2> QED BY <2>2, <2>3, <2>4 DEF IInv
<1> QED BY <1>2, <1>3

LEMMA DismissPopupPreserves ==
  ASSUME IInv, NEW p \in Popups, DismissPopup(p)
  PROVE  IInv'
<1> USE DEF DismissPopup, objects, tables, listeners
<1>1. victims' \subseteq (0..MaxDepth) \X Popups
  OBVIOUS
<1>2. TypeOK' /\ TablesAgree' /\ ConfiguredIsLive' /\ (decorated \subseteq roleLive)'
  BY <1>1 DEF IInv, TypeOK, TablesAgree, ConfiguredIsLive, decoration
<1>3. HandlerSound'
  BY DEF IInv, HandlerSound
<1>4. ModeTracked'
  BY PopupsLeaveModes DEF ModeAsked
<1> QED BY <1>2, <1>3, <1>4 DEF IInv

LEMMA ConfigurePopupPreserves ==
  ASSUME IInv, NEW p \in Popups, ConfigurePopup(p)
  PROVE  IInv'
<1> USE DEF ConfigurePopup, objects, tables, listeners, control
<1>1. TypeOK' /\ TablesAgree' /\ ConfiguredIsLive' /\ (decorated \subseteq roleLive)'
  BY DEF IInv, TypeOK, TablesAgree, ConfiguredIsLive, decoration, Roles
<1>2. HandlerSound'
  BY DEF IInv, HandlerSound
<1>3. ModeTracked'
  BY PopupsLeaveModes, ShellObjectsAssumption DEF ModeAsked
<1> QED BY <1>1, <1>2, <1>3 DEF IInv

-----------------------------------------------------------------------------
(* Deliveries that return, and runs.                                       *)

LEMMA NoHandlerTyped ==
  /\ NoHandler \in [event : {"none", "other", "commit", "mode"},
                    about : Surfaces \cup {None}, commit : BOOLEAN]
  /\ NoHandler.event = "none"
BY DEF NoHandler

LEMMA OtherPreserves ==
  ASSUME IInv, OtherEvent \/ OtherReturns
  PROVE  IInv'
<1> USE DEF objects, tables, listeners
<1>1. HandlerSound' /\ HandlerTyped' /\ \A t \in Toplevels : ModeAsked(t)' = ModeAsked(t)
  <2>1. CASE OtherEvent
    BY <2>1, OtherIsSound, DispatchingAsksNothing DEF OtherEvent, ModeAsked
  <2>2. CASE OtherReturns
    BY <2>2, NoHandlerTyped DEF OtherReturns, Returning, HandlerSound, HandlerTyped, ModeAsked
  <2> QED BY <2>1, <2>2
<1>2. TypeOK' /\ TablesAgree' /\ ConfiguredIsLive' /\ (decorated \subseteq roleLive)'
  BY <1>1 DEF IInv, TypeOK, HandlerTyped, TablesAgree, ConfiguredIsLive, decoration,
     OtherEvent, OtherReturns
<1>3. ModeTracked'
  BY <1>1, PopupsLeaveModes DEF OtherEvent, OtherReturns
<1> QED BY <1>1, <1>2, <1>3 DEF IInv

\* The handler is done with: what it leaves behind is sound.
LEMMA BackToWlroots ==
  ASSUME handler' = NoHandler
  PROVE  HandlerSound' /\ HandlerTyped' /\ \A t \in Toplevels : ~ModeAsked(t)'
BY NoHandlerTyped DEF HandlerSound, HandlerTyped, ModeAsked

LEMMA PopupCommitPreserves ==
  ASSUME IInv, PopupCommitReturns
  PROVE  IInv'
<1> USE DEF PopupCommitReturns, Returning, objects, tables, listeners
<1>1. HandlerSound' /\ HandlerTyped' /\ \A t \in Toplevels : ~ModeAsked(t)'
  BY BackToWlroots
<1>2. configured' \subseteq configured \cup {handler.about}
      /\ (configured' # configured => handler.about \in initialized)
  BY DEF IInv, HandlerSound
<1>3. TypeOK' /\ TablesAgree' /\ ConfiguredIsLive' /\ (decorated \subseteq roleLive)'
  BY <1>1, <1>2 DEF IInv, TypeOK, HandlerTyped, TablesAgree, ConfiguredIsLive, decoration,
     Roles
<1>4. \A t \in Toplevels : ModeAsked(t)' = ModeAsked(t)
  BY <1>1 DEF ModeAsked
<1>5. handler.about \notin Toplevels
  BY ShellObjectsAssumption
<1>6. ModeTracked'
  BY <1>2, <1>4, <1>5, PopupsLeaveModes
<1> QED BY <1>1, <1>3, <1>6 DEF IInv

LEMMA RunsPreserve ==
  ASSUME IInv, RunStart \/ RunEnd
  PROVE  IInv'
<1> USE DEF objects, tables, listeners
<1>0. handler.event = "none" /\ handler' = handler
  BY DispatchingAsksNothing DEF RunStart, RunEnd
<1>1. HandlerSound'
  BY <1>0 DEF IInv, HandlerSound
<1>2. CASE RunStart
  <2>1. TypeOK' /\ TablesAgree' /\ ConfiguredIsLive' /\ (decorated \subseteq roleLive)'
    BY <1>2 DEF IInv, TypeOK, TablesAgree, ConfiguredIsLive, decoration, RunStart
  <2>2. ModeTracked'
    BY <1>0, <1>2, PopupsLeaveModes DEF RunStart, ModeAsked
  <2> QED BY <1>1, <2>1, <2>2 DEF IInv
<1>3. CASE RunEnd
  <2>1. /\ popups' \in [Popups -> Roles \cup {None}]
        /\ decorations' \in [Toplevels -> Flags \cup {None}]
        /\ choice' \in [Toplevels -> Modes \cup {None}]
        /\ {p \in Popups : popups'[p] # None} = {}
        /\ {t \in Toplevels : decorations'[t] # None} = {}
    BY <1>3 DEF RunEnd
  <2>2. TypeOK' /\ TablesAgree' /\ ConfiguredIsLive' /\ (decorated \subseteq roleLive)'
    BY <1>3, <2>1 DEF IInv, TypeOK, TablesAgree, ConfiguredIsLive, RunEnd
  <2>3. ModeTracked'
    BY <1>3 DEF ModeTracked, RunEnd
  <2> QED BY <1>1, <2>2, <2>3 DEF IInv
<1> QED BY <1>2, <1>3

\* The default is answered exactly where the handler left the request alone.
LEMMA ModeReturnsPreserves ==
  ASSUME IInv, ModeReturns
  PROVE  IInv'
<1> USE DEF ModeReturns, Returning, objects, tables, listeners
<1>0. PICK t \in Toplevels : t = handler.about
  BY DEF IInv, HandlerSound
<1>1. HandlerSound' /\ HandlerTyped' /\ \A u \in Toplevels : ~ModeAsked(u)'
  BY BackToWlroots
<1>2. (handler.commit => t \in initialized) /\ ModeAsked(t)
      /\ \A u \in Toplevels \ {t} : ~ModeAsked(u)
  BY <1>0 DEF IInv, HandlerSound, ModeAsked
<1>3. configured' \subseteq configured \cup {t}
      /\ (configured' # configured => t \in initialized)
  BY <1>0, <1>2
<1>4. CASE CanAnswer(t) /\ ~decorations[t].set
  <2>1. Answer(t, Server)
    BY <1>0, <1>4
  <2>2. /\ decorations' \in [Toplevels -> Flags \cup {None}]
        /\ sent' \in [Toplevels -> Modes \cup {None}]
        /\ decorations'[t] = [staged |-> IF t \in initialized THEN None ELSE Server,
                              answered |-> TRUE, set |-> TRUE]
        /\ decorations'[t] \in Flags
        /\ t \in initialized => sent'[t] = Server
        /\ \A u \in Toplevels \ {t} : decorations'[u] = decorations[u] /\ sent'[u] = sent[u]
    BY <1>2, <2>1, Answered, NoneIsNothing
  <2>3. {u \in Toplevels : decorations'[u] # None} = heardDecorations'
    BY <1>2, <1>4, <2>2, RowsAgree, NoneIsNothing DEF CanAnswer, IInv, TablesAgree
  <2>4. TypeOK'
    BY <1>1, <1>2, <1>3, <2>2 DEF IInv, TypeOK, HandlerTyped, Roles
  <2>5. TablesAgree' /\ ConfiguredIsLive' /\ (decorated \subseteq roleLive)'
    BY <1>3, <2>3 DEF IInv, TablesAgree, ConfiguredIsLive
  <2>6. choice[t] = None
    BY <1>2, <1>4 DEF CanAnswer, IInv, ModeTracked
  <2>7. Settled(t)' /\ SentIfInitialized(t)'
    BY <2>2, <2>6, NoneIsNothing DEF Settled, SentIfInitialized, Want
  <2>8. ModeTracked'
    BY <1>1, <1>2, <1>3, <2>2, <2>7, TrackOne DEF OthersKept
  <2> QED BY <1>1, <2>4, <2>5, <2>8 DEF IInv
<1>5. CASE ~(CanAnswer(t) /\ ~decorations[t].set)
  <2>1. UNCHANGED <<decorations, sent>>
    BY <1>0, <1>5
  <2>2. TypeOK'
    BY <1>1, <1>2, <1>3, <2>1 DEF IInv, TypeOK, HandlerTyped, Roles
  <2>3. TablesAgree' /\ ConfiguredIsLive' /\ (decorated \subseteq roleLive)'
    BY <1>3, <2>1 DEF IInv, TablesAgree, ConfiguredIsLive
  <2>4. t \in toplevels /\ decorations[t] # None => Settled(t) /\ SentIfInitialized(t)
    BY <1>2, <1>5 DEF CanAnswer, IInv, ModeTracked
  <2>5. t \in toplevels /\ decorations[t] # None => Settled(t)' /\ SentIfInitialized(t)'
    BY <2>1, <2>4 DEF Settled, SentIfInitialized, Want
  <2>6. ModeTracked'
    BY <1>1, <1>2, <1>3, <2>1, <2>5, TrackOne DEF OthersKept
  <2> QED BY <1>1, <2>2, <2>3, <2>6 DEF IInv
<1> QED BY <1>4, <1>5

\* The configure is scheduled with the staged mode sent, or asked for first.
LEMMA ToplevelCommitPreserves ==
  ASSUME IInv, ToplevelCommitReturns
  PROVE  IInv'
<1> USE DEF objects, tables, listeners
<1>0. PICK t \in Toplevels : t = handler.about
  BY DEF ToplevelCommitReturns
<1> DEFINE staged == decorations[t] # None /\ decorations[t].staged # None
           asks == decorations[t] # None /\ ~decorations[t].answered
<1>1. /\ handler.event = "commit"
      /\ UNCHANGED <<objects, tables, listeners, running, victims>>
      /\ \/ /\ staged /\ Answer(t, decorations[t].staged)
            /\ handler' = NoHandler /\ configured' = configured \cup {t}
            /\ UNCHANGED choice
         \/ /\ ~staged /\ asks /\ AskMode(t, decorations, TRUE)
            /\ UNCHANGED <<sent, configured>>
         \/ /\ ~staged /\ ~asks
            /\ handler' = NoHandler /\ configured' = configured \cup {t}
            /\ UNCHANGED decoration
  BY <1>0 DEF ToplevelCommitReturns, Returning
<1>2. t \in initialized /\ \A u \in Toplevels : ~ModeAsked(u)
  BY <1>0, <1>1 DEF IInv, HandlerSound, ModeAsked
<1>3. t \in toplevels /\ decorations[t] # None => Settled(t)
  BY <1>1, <1>2 DEF IInv, ModeTracked
<1>4. decorations[t] # None => decorations[t] \in Flags
  BY <1>1 DEF IInv, TypeOK
<1>5. CASE staged /\ Answer(t, decorations[t].staged) /\ handler' = NoHandler
           /\ configured' = configured \cup {t} /\ UNCHANGED choice
  <2>1. PICK mode \in Modes : mode = decorations[t].staged
    BY <1>4, <1>5 DEF Flags
  <2>2. Answer(t, mode)
    BY <1>5, <2>1
  <2>3. /\ decorations' \in [Toplevels -> Flags \cup {None}]
        /\ sent' \in [Toplevels -> Modes \cup {None}]
        /\ decorations'[t] = [staged |-> IF t \in initialized THEN None ELSE mode,
                              answered |-> TRUE, set |-> TRUE]
        /\ decorations'[t] \in Flags
        /\ t \in initialized => sent'[t] = mode
        /\ \A u \in Toplevels \ {t} : decorations'[u] = decorations[u] /\ sent'[u] = sent[u]
    BY <1>1, <2>1, <2>2, Answered
  <2>4. HandlerSound' /\ HandlerTyped' /\ \A u \in Toplevels : ~ModeAsked(u)'
    BY <1>5, BackToWlroots
  <2>5. {u \in Toplevels : decorations'[u] # None} = heardDecorations'
    BY <1>1, <1>5, <2>3, RowsAgree, NoneIsNothing DEF IInv, TablesAgree
  <2>6. TypeOK'
    BY <1>1, <1>5, <2>3, <2>4 DEF IInv, TypeOK, HandlerTyped, Roles
  <2>7. TablesAgree' /\ ConfiguredIsLive' /\ (decorated \subseteq roleLive)'
    BY <1>1, <1>2, <1>5, <2>5 DEF IInv, TablesAgree, ConfiguredIsLive
  <2>8. t \in toplevels => mode = Want(t)
    BY <1>3, <1>5, <2>1 DEF Settled
  <2>9. t \in toplevels => Settled(t)' /\ SentIfInitialized(t)'
    BY <1>2, <1>5, <2>3, <2>8 DEF Settled, SentIfInitialized, Want
  <2>10. ModeTracked'
    BY <1>1, <1>2, <1>5, <2>3, <2>4, <2>9, TrackOne DEF OthersKept
  <2> QED BY <2>4, <2>6, <2>7, <2>10 DEF IInv
<1>6. CASE ~staged /\ asks /\ AskMode(t, decorations, TRUE) /\ UNCHANGED <<sent, configured>>
  <2>1. decorations \in [Toplevels -> Flags \cup {None}]
    BY DEF IInv, TypeOK
  <2>2. /\ decorations' \in [Toplevels -> Flags \cup {None}]
        /\ choice' \in [Toplevels -> Modes \cup {None}]
        /\ decorations'[t] \in Flags /\ decorations'[t].set = FALSE
        /\ choice'[t] = None
        /\ \A u \in Toplevels \ {t} : decorations'[u] = decorations[u] /\ choice'[u] = choice[u]
        /\ HandlerTyped' /\ ModeAsked(t)' /\ handler'.commit = TRUE
        /\ \A u \in Toplevels \ {t} : ~ModeAsked(u)'
    BY <1>1, <1>6, <2>1, Asked
  <2>3. {u \in Toplevels : decorations'[u] # None} = heardDecorations'
    BY <1>1, <1>6, <2>2, RowsAgree, NoneIsNothing DEF IInv, TablesAgree
  <2>4. TypeOK'
    BY <1>1, <1>6, <2>2 DEF IInv, TypeOK, HandlerTyped
  <2>5. TablesAgree' /\ ConfiguredIsLive' /\ (decorated \subseteq roleLive)'
    BY <1>1, <1>6, <2>3 DEF IInv, TablesAgree, ConfiguredIsLive
  <2>6. HandlerSound'
    BY <1>1, <1>2, <2>2 DEF HandlerSound, ModeAsked
  <2>7. ModeTracked'
    BY <1>1, <1>2, <1>6, <2>2, TrackOne DEF OthersKept
  <2> QED BY <2>4, <2>5, <2>6, <2>7 DEF IInv
<1>7. CASE ~staged /\ ~asks /\ handler' = NoHandler /\ configured' = configured \cup {t}
           /\ UNCHANGED decoration
  <2>1. HandlerSound' /\ HandlerTyped' /\ \A u \in Toplevels : ~ModeAsked(u)'
    BY <1>7, BackToWlroots
  <2>2. TypeOK'
    BY <1>1, <1>7, <2>1 DEF IInv, TypeOK, HandlerTyped, Roles, decoration
  <2>3. TablesAgree' /\ ConfiguredIsLive' /\ (decorated \subseteq roleLive)'
    BY <1>1, <1>2, <1>7 DEF IInv, TablesAgree, ConfiguredIsLive, decoration
  <2>4. t \in toplevels /\ decorations[t] # None => Settled(t)' /\ SentIfInitialized(t)'
    BY <1>3, <1>7 DEF Settled, SentIfInitialized, Want, decoration
  <2>5. ModeTracked'
    BY <1>1, <1>2, <1>7, <2>1, <2>4, TrackOne DEF OthersKept, decoration
  <2> QED BY <2>1, <2>2, <2>3, <2>5 DEF IInv
<1> QED BY <1>1, <1>5, <1>6, <1>7

-----------------------------------------------------------------------------
LEMMA NextPreserves == IInv /\ [Next]_vars => IInv'
<1> SUFFICES ASSUME IInv, [Next]_vars PROVE IInv'
  OBVIOUS
<1>1. CASE UNCHANGED vars
  <2> USE <1>1 DEF vars, objects, tables, listeners, decoration, control
  <2>1. TypeOK' /\ TablesAgree' /\ ConfiguredIsLive' /\ (decorated \subseteq roleLive)'
    BY DEF IInv, TypeOK, TablesAgree, ConfiguredIsLive
  <2>2. HandlerSound'
    BY DEF IInv, HandlerSound
  <2>3. ModeTracked'
    BY PopupsLeaveModes DEF ModeAsked
  <2> QED BY <2>1, <2>2, <2>3 DEF IInv
<1>2. CASE \E t \in Toplevels :
             \/ NewToplevel(t) \/ ToplevelDestroyed(t)
             \/ NewDecoration(t) \/ DecorationRequestMode(t) \/ DecorationDestroyed(t)
             \/ \E mode \in Modes : SetDecorationMode(t, mode)
  BY <1>2, NewToplevelPreserves, ToplevelDestroyedPreserves, NewDecorationPreserves,
     DecorationRequestModePreserves, DecorationDestroyedPreserves,
     SetDecorationModePreserves
<1>3. CASE \E p \in Popups :
             \/ \E x \in Roles : NewPopup(p, x)
             \/ PopupDestroyed(p) \/ DismissPopup(p) \/ DismissNext(p)
             \/ ConfigurePopup(p)
  BY <1>3, NewPopupPreserves, PopupDestroyedPreserves, DismissPopupPreserves,
     DismissNextPreserves, ConfigurePopupPreserves
<1>4. CASE \E x \in Roles : InitialCommit(x) \/ Unmap(x)
  BY <1>4, InitialCommitPreserves, UnmapPreserves
<1>5. CASE \/ \E x \in Surfaces : SurfaceDestroyed(x)
           \/ \E s \in Subsurfaces, x \in Surfaces : NewSubsurface(s, x)
  BY <1>5, SurfaceDestroyedPreserves, NewSubsurfacePreserves
<1>6. CASE OtherEvent \/ OtherReturns \/ ModeReturns \/ ToplevelCommitReturns
           \/ PopupCommitReturns \/ RunStart \/ RunEnd
  BY <1>6, OtherPreserves, ModeReturnsPreserves, ToplevelCommitPreserves,
     PopupCommitPreserves, RunsPreserve
<1> QED BY <1>1, <1>2, <1>3, <1>4, <1>5, <1>6 DEF Next

LEMMA Invariant == Spec => []IInv
BY InitIInv, NextPreserves, PTL DEF Spec

-----------------------------------------------------------------------------
\* Every variable keeps its type.
THEOREM TypeCorrect == Spec => []TypeOK
<1>1. IInv => TypeOK
  BY DEF IInv
<1> QED BY <1>1, Invariant, PTL

\* The tables name live objects, exactly those the run listens to.
THEOREM TablesFollowListeners == Spec => []TablesAgree
<1>1. IInv => TablesAgree
  BY DEF IInv
<1> QED BY <1>1, Invariant, PTL

\* Only what exists and made its initial commit is configured.
THEOREM ConfiguredAreInitialized == Spec => []ConfiguredIsLive
<1>1. IInv => ConfiguredIsLive
  BY DEF IInv
<1> QED BY <1>1, Invariant, PTL

\* A configured toplevel is decorated the way the consumer chose.
THEOREM ChosenModeIsSent == Spec => []ModeIsChosen
<1>1. IInv => ModeIsChosen
  <2> SUFFICES ASSUME IInv, Dispatching, NEW t \in toplevels \cap configured,
                      decorations[t] # None
               PROVE  sent[t] = Want(t)
    BY DEF ModeIsChosen, Want
  <2>1. ~ModeAsked(t)
    BY DispatchingAsksNothing DEF ModeAsked
  <2>2. Settled(t) /\ SentIfInitialized(t)
    BY <2>1 DEF IInv, ModeTracked
  <2>3. t \in initialized
    BY DEF IInv, ConfiguredIsLive
  <2> QED BY <2>2, <2>3 DEF Settled, SentIfInitialized
<1> QED BY <1>1, Invariant, PTL
-----------------------------------------------------------------------------
(* The order of a dismissal.                                               *)

\* wlroots destroys popups before what they hang off.
ParentsLive == \A q \in Popups \cap roleLive : popupOf[q] \in roleLive

\* The popups of an object the run listens to are recorded.
ChildrenRecorded ==
  \A q \in Popups \cap roleLive : popupOf[q] \in heard => popups[q] = popupOf[q]

\* A popup of a victim still to be dismissed is a victim, too, and deeper.
ChildrenFirst ==
  \A v \in victims : \A q \in Popups \cap roleLive :
    popups[v[2]] # None /\ popupOf[q] = v[2] => <<v[1] + 1, q>> \in victims

\* A dismissal is over before the handler that asked for it returns.
DismissedInHandler == victims # {} => ~Dispatching

ChainInv == ParentsLive /\ ChildrenRecorded /\ ChildrenFirst /\ DismissedInHandler

-----------------------------------------------------------------------------
(* Induction.  The library's theorem takes the property as an operator;    *)
(* here it is a set of numbers.                                            *)

\* A non-empty set of naturals has a least element.
LEMMA LeastNatural ==
  ASSUME NEW T \in SUBSET Nat, T # {}
  PROVE  \E x \in T : \A y \in T : x <= y
<1> DEFINE U == {0..x : x \in T}
<1>1. U \subseteq FiniteSubsetsOf(Nat) /\ U # {}
  <2>1. \A x \in T : 0..x \subseteq Nat /\ IsFiniteSet(0..x)
    BY FS_Interval
  <2> QED
    BY <2>1 DEF FiniteSubsetsOf
<1>2. IsWellFoundedOn(StrictSubsetOrdering(Nat), FiniteSubsetsOf(Nat))
  BY FS_StrictSubsetOrderingWellFounded
<1>3. PICK u \in U : \A v \in U : <<v, u>> \notin StrictSubsetOrdering(Nat)
  <2> HIDE DEF U
  <2> QED
    BY <1>1, <1>2, WFMin
<1>4. PICK x \in T : u = 0..x
  OBVIOUS
<1>5. ASSUME NEW y \in T, y < x PROVE FALSE
  <2>1. /\ 0..y \in U /\ 0..y \subseteq Nat /\ 0..x \subseteq Nat
        /\ 0..y \subseteq 0..x /\ 0..y # 0..x
    BY <1>5
  <2> QED
    BY <2>1, <1>3, <1>4 DEF StrictSubsetOrdering
<1> QED
  BY <1>5

\* Induction, for a property given as the set of numbers that have it.
LEMMA Induction ==
  ASSUME NEW T, 0 \in T, \A i \in Nat : i \in T => i + 1 \in T
  PROVE  Nat \subseteq T
<1> DEFINE B == {i \in Nat : i \notin T}
<1> SUFFICES ASSUME B # {} PROVE FALSE
  OBVIOUS
<1>1. PICK i \in B : \A j \in B : i <= j
  <2> B \in SUBSET Nat
    OBVIOUS
  <2> HIDE DEF B
  <2> QED
    BY LeastNatural
<1>2. i # 0 /\ i - 1 \in Nat /\ i - 1 \notin B
  BY <1>1
<1> QED
  BY <1>1, <1>2

\* f is what step makes of a, repeated up to K times.
Repeats(f, D, a, step, K) ==
  /\ f \in [0..K -> D] /\ f[0] = a
  /\ \A i \in 1..K : f[i] = step[f[i - 1]]

\* A step repeated k times from a is a function on 0..k.
LEMMA Repetition ==
  ASSUME NEW D, NEW a \in D, NEW step \in [D -> D], NEW K \in Nat
  PROVE  \E f : Repeats(f, D, a, step, K)
<1> DEFINE Runs(k) == {f \in [0..k -> D] : /\ f[0] = a
                                           /\ \A i \in 1..k : f[i] = step[f[i - 1]]}
           T == {k \in Nat : Runs(k) # {}}
<1>1. 0 \in T
  <2>1. [i \in 0..0 |-> a] \in Runs(0)
    OBVIOUS
  <2> QED
    BY <2>1
<1>2. ASSUME NEW k \in Nat, k \in T PROVE k + 1 \in T
  <2>1. PICK f \in [0..k -> D] : f[0] = a /\ \A i \in 1..k : f[i] = step[f[i - 1]]
    BY <1>2
  <2> DEFINE g == [i \in 0..(k + 1) |-> IF i = k + 1 THEN step[f[k]] ELSE f[i]]
  <2>2. g \in [0..(k + 1) -> D]
    OBVIOUS
  <2>3. g[0] = a
    BY <2>1
  <2>4. ASSUME NEW i \in 1..(k + 1) PROVE g[i] = step[g[i - 1]]
    BY <2>1
  <2>5. g \in Runs(k + 1)
    BY <2>2, <2>3, <2>4
  <2> QED
    BY <2>5
<1>3. Nat \subseteq T
  <2> HIDE DEF T
  <2> QED
    BY <1>1, <1>2, Induction
<1>4. Runs(K) # {}
  BY <1>3
<1> QED
  BY <1>4 DEF Repeats

-----------------------------------------------------------------------------
(* The levels of a chain, which are defined by recursion.                  *)

\* Each level holds what the table says hangs off the level above.
AreLevels(f, table, p) ==
  /\ f \in [0..MaxDepth -> SUBSET Popups]
  /\ f[0] = {p}
  /\ \A i \in 1..MaxDepth : f[i] = {q \in Popups : table[q] \in f[i - 1]}

\* For any table there are levels below p.
LEMMA LevelsExist ==
  ASSUME NEW table, NEW p \in Popups
  PROVE  \E f : AreLevels(f, table, p)
<1> DEFINE D == SUBSET Popups
           a == {p}
           step == [S \in D |-> {q \in Popups : table[q] \in S}]
<1>1. a \in D /\ step \in [D -> D] /\ MaxDepth \in Nat
  BY ShellObjectsAssumption
<1>2. PICK f : Repeats(f, D, a, step, MaxDepth)
  <2> HIDE DEF step, D, a
  <2> QED
    BY <1>1, Repetition
<1>3. ASSUME NEW i \in 1..MaxDepth PROVE f[i] = {q \in Popups : table[q] \in f[i - 1]}
  <2> HIDE DEF step, D, a
  <2>1. f[i - 1] \in D /\ f[i] = step[f[i - 1]]
    BY <1>1, <1>2 DEF Repeats
  <2> USE DEF step, D, a
  <2> QED
    BY <2>1
<1>4. f \in [0..MaxDepth -> SUBSET Popups] /\ f[0] = {p}
  BY <1>2 DEF Repeats
<1> QED
  BY <1>3, <1>4 DEF AreLevels

\* popup_chain, defined by recursion, has these levels.
LEMMA LevelIs ==
  ASSUME NEW p \in Popups
  PROVE  /\ Level(p)[0] = {p}
         /\ \A i \in 1..MaxDepth : Level(p)[i] = {q \in Popups : popups[q] \in Level(p)[i - 1]}
<1> DEFINE Below(S) == {q \in Popups : popups[q] \in S}
           F(f) == [i \in 0..MaxDepth |-> IF i = 0 THEN {p} ELSE Below(f[i - 1])]
<1>1. MaxDepth \in Nat
  BY ShellObjectsAssumption
<1>2. PICK f : /\ f \in [0..MaxDepth -> SUBSET Popups]
               /\ f[0] = {p} /\ \A i \in 1..MaxDepth : f[i] = Below(f[i - 1])
  <2>1. PICK f : AreLevels(f, popups, p)
    BY LevelsExist
  <2> QED
    BY <2>1 DEF AreLevels
<1>3. f = F(f)
  <2>1. f = [i \in 0..MaxDepth |-> f[i]]
    BY <1>2
  <2>2. ASSUME NEW i \in 0..MaxDepth PROVE f[i] = IF i = 0 THEN {p} ELSE Below(f[i - 1])
    <3>1. CASE i = 0
      BY <1>2, <3>1
    <3>2. CASE i \in 1..MaxDepth
      <4> HIDE DEF Below
      <4> QED
        BY <1>2, <3>2
    <3> QED
      BY <3>1, <3>2, <1>1
  <2> HIDE DEF Below
  <2> QED
    BY <2>1, <2>2
<1>4. Level(p) = CHOOSE g : g = F(g)
  BY DEF Level
<1>5. Level(p) = F(Level(p))
  <2> HIDE DEF F
  <2> QED
    BY <1>3, <1>4
<1> DEFINE l == Level(p)
<1> HIDE DEF l
<1>6. l = F(l)
  BY <1>5 DEF l
<1>7. \A i \in 0..MaxDepth : l[i] = IF i = 0 THEN {p} ELSE Below(l[i - 1])
  <2> HIDE DEF Below
  <2> QED
    BY <1>6
<1>8. 0 \in 0..MaxDepth /\ \A i \in 1..MaxDepth : i \in 0..MaxDepth /\ i # 0
  BY <1>1
<1>9. l[0] = {p} /\ \A i \in 1..MaxDepth : l[i] = Below(l[i - 1])
  <2> HIDE DEF Below, F
  <2> QED
    BY <1>7, <1>8
<1> QED
  BY <1>9 DEF l

IsWayUp(c, table, q, K) ==
  /\ c \in [0..K -> Roles \cup {None}]
  /\ c[0] = q
  /\ \A i \in 1..K : c[i - 1] \in Popups => c[i] = table[c[i - 1]]

\* From a popup one can go up any number of rows.
LEMMA WaysUpExist ==
  ASSUME NEW table \in [Popups -> Roles \cup {None}], NEW q \in Popups, NEW K \in Nat
  PROVE  \E c : IsWayUp(c, table, q, K)
<1> DEFINE D == Roles \cup {None}
           a == q
           step == [r \in D |-> IF r \in Popups THEN table[r] ELSE None]
<1>1. a \in D /\ step \in [D -> D] /\ K \in Nat
  BY DEF Roles
<1>2. PICK c : Repeats(c, D, a, step, K)
  <2> HIDE DEF step, D, a
  <2> QED
    BY <1>1, Repetition
<1>3. ASSUME NEW i \in 1..K, c[i - 1] \in Popups PROVE c[i] = table[c[i - 1]]
  <2>1. c[i - 1] \in D /\ c[i] = step[c[i - 1]]
    BY <1>2, <1>3 DEF Roles, Repeats
  <2> QED
    BY <1>3, <2>1
<1>4. c \in [0..K -> Roles \cup {None}] /\ c[0] = q
  BY <1>2 DEF Repeats
<1> QED
  BY <1>3, <1>4 DEF IsWayUp

-----------------------------------------------------------------------------
(* What a dismissal destroys.                                              *)

\* A popup that nothing hangs off is its whole family.
LEMMA LeafFamily ==
  ASSUME NEW p \in Popups, ~HasChild(p)
  PROVE  Family(p) = {p}
<1>1. \A q \in Popups \cap roleLive : popupOf[q] \notin {p}
  BY DEF HasChild
<1>2. {p} \in SUBSET Popups
  OBVIOUS
<1> QED
  BY <1>1, <1>2 DEF Family

\* The next popup of a dismissal is a leaf, if it is still there.
LEMMA DeepestIsLeaf ==
  ASSUME IInv, ChainInv, NEW v \in Deepest, popups[v[2]] # None
  PROVE  ~HasChild(v[2])
<1> SUFFICES ASSUME NEW q \in Popups \cap roleLive, popupOf[q] = v[2] PROVE FALSE
  BY DEF HasChild
<1>1. v \in victims /\ \A w \in victims : v[1] >= w[1]
  BY DEF Deepest
<1>2. <<v[1] + 1, q>> \in victims
  BY <1>1 DEF ChainInv, ChildrenFirst
<1>3. v[1] \in Nat
  BY <1>1 DEF IInv, TypeOK
<1>4. v[1] >= v[1] + 1
  BY <1>1, <1>2
<1> QED
  BY <1>3, <1>4

-----------------------------------------------------------------------------
(* Steps outside a dismissal.                                              *)

\* Without victims, only the parents and the rows matter.
LEMMA NoVictims ==
  ASSUME victims' = {}, ParentsLive', ChildrenRecorded'
  PROVE  ChainInv'
BY DEF ChainInv, ChildrenFirst, DismissedInHandler

LEMMA ChainKept ==
  ASSUME ChainInv, victims' = {}, UNCHANGED <<roleLive, popupOf, heard, popups>>
  PROVE  ChainInv'
<1>1. ParentsLive' /\ ChildrenRecorded'
  BY DEF ChainInv, ParentsLive, ChildrenRecorded
<1> QED
  BY <1>1, NoVictims

\* A new object has no popups yet, dead or alive.
LEMMA NothingHangsOff ==
  ASSUME ChainInv, NEW x, x \notin roleLive
  PROVE  \A q \in Popups \cap roleLive : popupOf[q] # x
BY DEF ChainInv, ParentsLive

LEMMA NewToplevelChain ==
  ASSUME IInv, ChainInv, NEW t \in Toplevels, NewToplevel(t)
  PROVE  ChainInv'
<1>1. /\ victims' = {} /\ t \notin roleLive /\ t \notin Popups
      /\ roleLive' = roleLive \cup {t} /\ popupOf' = popupOf /\ popups' = popups
      /\ heard' \subseteq heard \cup {t}
  BY ShellObjectsAssumption DEF NewToplevel, ChainInv, DismissedInHandler
<1>2. \A q \in Popups \cap roleLive' : q \in roleLive /\ popupOf[q] # t
  BY <1>1, NothingHangsOff
<1>3. ParentsLive' /\ ChildrenRecorded'
  BY <1>1, <1>2 DEF ChainInv, ParentsLive, ChildrenRecorded
<1> QED
  BY <1>1, <1>3, NoVictims

LEMMA ToplevelDestroyedChain ==
  ASSUME IInv, ChainInv, NEW t \in Toplevels, ToplevelDestroyed(t)
  PROVE  ChainInv'
<1>1. /\ victims' = {} /\ ~HasChild(t)
      /\ roleLive' = roleLive \ {t} /\ popupOf' = popupOf /\ popups' = popups
      /\ heard' \subseteq heard
  BY DEF ToplevelDestroyed, ChainInv, DismissedInHandler
<1>2. ParentsLive' /\ ChildrenRecorded'
  BY <1>1 DEF ChainInv, ParentsLive, ChildrenRecorded, HasChild
<1> QED
  BY <1>1, <1>2, NoVictims

LEMMA NewPopupChain ==
  ASSUME IInv, ChainInv, NEW p \in Popups, NEW x \in Roles, NewPopup(p, x)
  PROVE  ChainInv'
<1>1. /\ victims' = {} /\ p \notin roleLive /\ x \in roleLive
      /\ roleLive' = roleLive \cup {p}
      /\ popupOf' = [popupOf EXCEPT ![p] = x]
      /\ x \in heard => heard' = heard \cup {p} /\ popups' = [popups EXCEPT ![p] = x]
      /\ x \notin heard => heard' = heard /\ popups' = popups
  BY DEF NewPopup, ChainInv, DismissedInHandler
<1>2. popupOf'[p] = x /\ \A q \in Popups : q # p => popupOf'[q] = popupOf[q]
  BY <1>1 DEF IInv, TypeOK
<1>3. /\ x \in heard => popups'[p] = x
      /\ \A q \in Popups : q # p => popups'[q] = popups[q]
  BY <1>1 DEF IInv, TypeOK
<1>4. \A q \in Popups \cap roleLive' : q = p \/ (q \in roleLive /\ q # p /\ popupOf[q] # p)
  BY <1>1, NothingHangsOff
<1>5. ParentsLive'
  BY <1>1, <1>2, <1>4 DEF ChainInv, ParentsLive
<1>6. ASSUME NEW q \in Popups \cap roleLive', popupOf'[q] \in heard'
      PROVE  popups'[q] = popupOf'[q]
  <2>1. CASE q = p
    <3>1. x # p
      BY <1>1
    <3> QED
      BY <1>1, <1>2, <1>3, <1>6, <2>1, <3>1
  <2>2. CASE q # p
    <3>1. q \in roleLive /\ popupOf'[q] = popupOf[q] /\ popupOf[q] # p
      BY <1>2, <1>4, <2>2
    <3>2. popupOf[q] \in heard
      BY <1>1, <1>6, <3>1
    <3> QED
      BY <1>3, <2>2, <3>1, <3>2 DEF ChainInv, ChildrenRecorded
  <2> QED
    BY <2>1, <2>2
<1> QED
  BY <1>1, <1>5, <1>6, NoVictims DEF ChildrenRecorded

\* A leaf that dies leaves no orphan.
LEMMA LeafDies ==
  ASSUME IInv, ChainInv, NEW p \in Popups, ~HasChild(p), DestroyPopups({p})
  PROVE  /\ roleLive' = roleLive \ {p}
         /\ \A q \in Popups \cap roleLive' :
              /\ q \in roleLive /\ q # p
              /\ popupOf'[q] = popupOf[q] /\ popups'[q] = popups[q]
         /\ ParentsLive' /\ ChildrenRecorded'
<1>1. /\ roleLive' = roleLive \ {p} /\ heard' = heard \ {p}
      /\ \A q \in Popups : q # p => popupOf'[q] = popupOf[q] /\ popups'[q] = popups[q]
  BY DEF DestroyPopups
<1>2. \A q \in Popups \cap roleLive' : q \in roleLive /\ q # p
  BY <1>1
<1>3. ParentsLive'
  BY <1>1, <1>2 DEF ChainInv, ParentsLive, HasChild
<1>4. ChildrenRecorded'
  BY <1>1, <1>2 DEF ChainInv, ChildrenRecorded
<1> QED
  BY <1>1, <1>2, <1>3, <1>4

LEMMA PopupDestroyedChain ==
  ASSUME IInv, ChainInv, NEW p \in Popups, PopupDestroyed(p)
  PROVE  ChainInv'
<1>1. victims' = {} /\ ~HasChild(p) /\ DestroyPopups({p})
  BY DEF PopupDestroyed, ChainInv, DismissedInHandler
<1> QED
  BY <1>1, LeafDies, NoVictims

LEMMA RunEndChain ==
  ASSUME ChainInv, RunEnd
  PROVE  ChainInv'
<1>1. victims' = {} /\ heard' = {} /\ UNCHANGED <<roleLive, popupOf>>
  BY DEF RunEnd, ChainInv, DismissedInHandler, objects
<1>2. ParentsLive' /\ ChildrenRecorded'
  BY <1>1 DEF ChainInv, ParentsLive, ChildrenRecorded
<1> QED
  BY <1>1, <1>2, NoVictims

-----------------------------------------------------------------------------
(* Steps of a dismissal.                                                   *)

\* dismiss_popup collects the whole chain.
LEMMA DismissPopupChain ==
  ASSUME IInv, ChainInv, NEW p \in Popups, DismissPopup(p),
         \A q \in Popups : popups[q] \notin Level(p)[MaxDepth]
  PROVE  ChainInv'
<1>1. /\ victims' = {v \in (0..MaxDepth) \X Popups : v[2] \in Level(p)[v[1]]}
      /\ UNCHANGED <<roleLive, popupOf, heard, popups, handler>> /\ ~Dispatching
  BY DEF DismissPopup, objects, tables, listeners
<1>2. ParentsLive' /\ ChildrenRecorded'
  BY <1>1 DEF ChainInv, ParentsLive, ChildrenRecorded
<1>3. ASSUME NEW v \in victims', NEW q \in Popups \cap roleLive,
             popups[v[2]] # None, popupOf[q] = v[2]
      PROVE  <<v[1] + 1, q>> \in victims'
  <2>1. PICK i \in 0..MaxDepth, u \in Popups : v = <<i, u>> /\ u \in Level(p)[i]
    BY <1>1
  <2>2. u \in heard
    BY <1>3, <2>1 DEF IInv, TablesAgree
  <2>3. popups[q] = u
    BY <1>3, <2>1, <2>2 DEF ChainInv, ChildrenRecorded
  <2>4. i # MaxDepth
    BY <2>1, <2>3
  <2>5. i + 1 \in 0..MaxDepth /\ i + 1 \in 1..MaxDepth /\ (i + 1) - 1 = i
    BY <2>1, <2>4, ShellObjectsAssumption
  <2>6. q \in Level(p)[i + 1]
    <3>1. Level(p)[i + 1] = {r \in Popups : popups[r] \in Level(p)[(i + 1) - 1]}
      BY <2>5, LevelIs
    <3> QED
      BY <2>1, <2>3, <2>5, <3>1
  <2> QED
    BY <1>1, <2>1, <2>5, <2>6
<1>4. ChildrenFirst' /\ DismissedInHandler'
  BY <1>1, <1>3 DEF ChildrenFirst, DismissedInHandler, Dispatching
<1> QED
  BY <1>2, <1>4 DEF ChainInv

LEMMA DismissNextChain ==
  ASSUME IInv, ChainInv, NEW p \in Popups, DismissNext(p)
  PROVE  ChainInv'
<1>1. PICK v \in Deepest : v[2] = p /\ victims' = victims \ {v}
  BY DEF DismissNext
<1>2. DismissedInHandler'
  BY <1>1 DEF DismissNext, ChainInv, DismissedInHandler, Dispatching
<1>3. CASE popups[p] # None
  <2>1. ~HasChild(p)
    BY <1>1, <1>3, DeepestIsLeaf
  <2>2. DestroyPopups({p})
    BY <1>3, <2>1, LeafFamily DEF DismissNext
  <2>3. /\ \A q \in Popups \cap roleLive' :
             /\ q \in roleLive /\ q # p
             /\ popupOf'[q] = popupOf[q] /\ popups'[q] = popups[q]
        /\ ParentsLive' /\ ChildrenRecorded'
    BY <2>1, <2>2, LeafDies
  <2>4. ASSUME NEW w \in victims', NEW q \in Popups \cap roleLive',
               popups'[w[2]] # None, popupOf'[q] = w[2]
        PROVE  <<w[1] + 1, q>> \in victims'
    <3>1. w \in victims /\ w[2] \in Popups
      BY <1>1 DEF IInv, TypeOK
    <3>2. popups[w[2]] # None
      BY <2>2, <2>4, <3>1 DEF DestroyPopups
    <3>3. q \in Popups \cap roleLive /\ q # p /\ popupOf[q] = w[2]
      BY <2>3, <2>4
    <3>4. <<w[1] + 1, q>> \in victims
      BY <3>1, <3>2, <3>3 DEF ChainInv, ChildrenFirst
    <3>5. <<w[1] + 1, q>> # v
      BY <1>1, <3>3
    <3> QED
      BY <1>1, <3>4, <3>5
  <2> QED
    BY <1>2, <2>3, <2>4 DEF ChainInv, ChildrenFirst
<1>4. CASE popups[p] = None
  <2>1. UNCHANGED <<roleLive, popupOf, popups, heard>>
    BY <1>4 DEF DismissNext
  <2>2. ParentsLive' /\ ChildrenRecorded'
    BY <2>1 DEF ChainInv, ParentsLive, ChildrenRecorded
  <2>3. ASSUME NEW w \in victims', NEW q \in Popups \cap roleLive',
               popups'[w[2]] # None, popupOf'[q] = w[2]
        PROVE  <<w[1] + 1, q>> \in victims'
    <3>1. w \in victims /\ w[2] \in Popups /\ w[2] # None
      BY <1>1, NoneIsNothing DEF IInv, TypeOK, Surfaces, Roles
    <3>2. w[2] \in heard
      BY <2>1, <2>3, <3>1 DEF IInv, TablesAgree
    <3>3. popups[q] = w[2]
      BY <2>1, <2>3, <3>2 DEF ChainInv, ChildrenRecorded
    <3>4. q # p
      BY <1>4, <3>1, <3>3
    <3>5. <<w[1] + 1, q>> \in victims
      BY <2>1, <2>3, <3>1 DEF ChainInv, ChildrenFirst
    <3>6. <<w[1] + 1, q>> # v
      BY <1>1, <3>4
    <3> QED
      BY <1>1, <3>5, <3>6
  <2> QED
    BY <1>2, <2>2, <2>3 DEF ChainInv, ChildrenFirst
<1> QED
  BY <1>3, <1>4

-----------------------------------------------------------------------------
LEMMA NextChain == IInv /\ ChainInv /\ [Next]_vars /\ [ShortChains]_vars => ChainInv'
<1> SUFFICES ASSUME IInv, ChainInv, [Next]_vars, [ShortChains]_vars PROVE ChainInv'
  OBVIOUS
<1> USE DEF vars, objects, tables, listeners, control
<1>1. CASE UNCHANGED vars
  BY <1>1 DEF ChainInv, ParentsLive, ChildrenRecorded, ChildrenFirst,
              DismissedInHandler, Dispatching
<1>2. ASSUME NEW t \in Toplevels, NewToplevel(t) \/ ToplevelDestroyed(t) PROVE ChainInv'
  BY <1>2, NewToplevelChain, ToplevelDestroyedChain
<1>3. ASSUME NEW t \in Toplevels,
             NewDecoration(t) \/ DecorationRequestMode(t) \/ DecorationDestroyed(t)
             \/ \E mode \in Modes : SetDecorationMode(t, mode)
      PROVE ChainInv'
  <2>1. victims' = {} /\ UNCHANGED <<roleLive, popupOf, heard, popups>>
    BY <1>3 DEF NewDecoration, DecorationRequestMode, DecorationDestroyed,
                SetDecorationMode, ChainInv, DismissedInHandler
  <2> QED
    BY <2>1, ChainKept
<1>4. ASSUME NEW p \in Popups, NEW x \in Roles, NewPopup(p, x) PROVE ChainInv'
  BY <1>4, NewPopupChain
<1>5. ASSUME NEW p \in Popups, PopupDestroyed(p) \/ DismissNext(p) PROVE ChainInv'
  BY <1>5, PopupDestroyedChain, DismissNextChain
<1>6. ASSUME NEW p \in Popups, DismissPopup(p) PROVE ChainInv'
  <2>1. CASE vars' = vars
    BY <1>1, <2>1
  <2>2. CASE ShortChains
    BY <1>6, <2>2, DismissPopupChain DEF ShortChains
  <2> QED
    BY <2>1, <2>2
<1>7. ASSUME NEW p \in Popups, ConfigurePopup(p) PROVE ChainInv'
  <2>1. victims' = {} /\ UNCHANGED <<roleLive, popupOf, heard, popups>>
    BY <1>7 DEF ConfigurePopup
  <2> QED
    BY <2>1, ChainKept
<1>8. ASSUME NEW x \in Surfaces, NEW s \in Surfaces,
             \/ x \in Roles /\ (InitialCommit(x) \/ Unmap(x))
             \/ SurfaceDestroyed(x)
             \/ NewSubsurface(s, x)
      PROVE ChainInv'
  <2>1. victims' = {} /\ UNCHANGED <<roleLive, popupOf, heard, popups>>
    BY <1>8 DEF InitialCommit, Unmap, SurfaceDestroyed, NewSubsurface, ChainInv,
                DismissedInHandler
  <2> QED
    BY <2>1, ChainKept
<1>9. CASE OtherEvent \/ OtherReturns \/ ModeReturns \/ ToplevelCommitReturns
           \/ PopupCommitReturns \/ RunStart
  <2>1. victims' = {} /\ UNCHANGED <<roleLive, popupOf, heard, popups>>
    BY <1>9 DEF OtherEvent, OtherReturns, ModeReturns, ToplevelCommitReturns,
                PopupCommitReturns, RunStart, Returning, ChainInv, DismissedInHandler
  <2> QED
    BY <2>1, ChainKept
<1>10. CASE RunEnd
  BY <1>10, RunEndChain
<1>11. Roles \subseteq Surfaces /\ Subsurfaces \subseteq Surfaces
  BY DEF Surfaces
<1> HIDE DEF vars
<1> QED
  BY <1>1, <1>2, <1>3, <1>4, <1>5, <1>6, <1>7, <1>8, <1>9, <1>10, <1>11 DEF Next

\* What goes while there are victims is a leaf.
LeafGoes == victims # {} /\ roleLive' # roleLive =>
              \A p \in roleLive \ roleLive' : ~HasChild(p)

LEMMA NextTakesLeaf == IInv /\ ChainInv /\ [Next]_vars => [LeafGoes]_vars
<1> SUFFICES ASSUME IInv, ChainInv, Next, victims # {}, roleLive' # roleLive,
                    NEW x \in roleLive \ roleLive'
             PROVE  ~HasChild(x)
  BY DEF LeafGoes
<1>1. PICK p \in Popups : DismissNext(p)
  <2>1. ~Dispatching
    BY DEF ChainInv, DismissedInHandler
  <2> QED
    BY <2>1 DEF Next, NewToplevel, ToplevelDestroyed, NewDecoration,
       DecorationRequestMode, DecorationDestroyed, SetDecorationMode, NewPopup,
       PopupDestroyed, DismissPopup, ConfigurePopup, InitialCommit, Unmap,
       SurfaceDestroyed, NewSubsurface, OtherEvent, OtherReturns, ModeReturns,
       ToplevelCommitReturns, PopupCommitReturns, RunStart, RunEnd, Returning
<1>2. popups[p] # None /\ \E v \in Deepest : v[2] = p
  BY <1>1 DEF DismissNext
<1>3. ~HasChild(p)
  BY <1>2, DeepestIsLeaf
<1>4. roleLive' = roleLive \ {p}
  BY <1>1, <1>2, <1>3, LeafFamily DEF DismissNext, DestroyPopups
<1> QED
  BY <1>3, <1>4

LEMMA InitChain == Init => ChainInv
BY DEF Init, ChainInv, ParentsLive, ChildrenRecorded, ChildrenFirst, DismissedInHandler

-----------------------------------------------------------------------------
(* How many popups make a chain that popup_chain does not reach the end of. *)

\* A row names what wlroots hangs the popup off.
RowsAreParents == \A q \in Popups : popups[q] # None => popups[q] = popupOf[q]

\* Going up the rows ends.
NoCycle == \A S \in SUBSET Popups : S # {} => \E q \in S : popups[q] \notin S

RowInv == RowsAreParents /\ NoCycle

\* A chain longer than MaxDepth needs more than MaxDepth + 1 popups.
LEMMA FewPopups ==
  ASSUME IsFiniteSet(Popups), Cardinality(Popups) <= MaxDepth + 1, TypeOK, NoCycle,
         NEW p \in Popups, NEW q \in Popups
  PROVE  popups[q] \notin Level(p)[MaxDepth]
<1> SUFFICES ASSUME popups[q] \in Level(p)[MaxDepth] PROVE FALSE
  OBVIOUS
<1> DEFINE K == MaxDepth + 1
<1>1. MaxDepth \in Nat /\ K \in Nat
  BY ShellObjectsAssumption
<1>2. PICK c : /\ c \in [0..K -> Roles \cup {None}] /\ c[0] = q
               /\ \A i \in 1..K : c[i - 1] \in Popups => c[i] = popups[c[i - 1]]
  <2>1. PICK c : IsWayUp(c, popups, q, K)
    <3> HIDE DEF K
    <3> QED
      BY <1>1, WaysUpExist DEF TypeOK
  <2> QED
    BY <2>1 DEF IsWayUp
<1>3. \A i \in 0..MaxDepth : Level(p)[i] \subseteq Popups
  BY <1>1, LevelIs
<1> DEFINE T == {i \in Nat : i \in 0..MaxDepth => c[i + 1] \in Level(p)[MaxDepth - i]}
<1>4. 0 \in T
  BY <1>1, <1>2
<1>5. ASSUME NEW i \in Nat, i \in T PROVE i + 1 \in T
  <2> SUFFICES ASSUME i + 1 \in 0..MaxDepth PROVE c[(i + 1) + 1] \in Level(p)[MaxDepth - (i + 1)]
    OBVIOUS
  <2>1. /\ i \in 0..MaxDepth /\ MaxDepth - i \in 1..MaxDepth /\ MaxDepth - i \in 0..MaxDepth
        /\ (MaxDepth - i) - 1 = MaxDepth - (i + 1)
        /\ (i + 1) + 1 \in 1..K /\ ((i + 1) + 1) - 1 = i + 1
    BY <1>1
  <2>2. c[i + 1] \in Level(p)[MaxDepth - i]
    BY <1>5, <2>1
  <2>3. c[i + 1] \in Popups
    BY <1>3, <2>1, <2>2
  <2>4. popups[c[i + 1]] \in Level(p)[(MaxDepth - i) - 1]
    <3>1. Level(p)[MaxDepth - i] = {r \in Popups : popups[r] \in Level(p)[(MaxDepth - i) - 1]}
      BY <2>1, LevelIs
    <3> QED
      BY <2>2, <3>1
  <2>5. c[(i + 1) + 1] = popups[c[i + 1]]
    BY <1>2, <2>1, <2>3
  <2> QED
    BY <2>1, <2>4, <2>5
<1>6. Nat \subseteq T
  <2> HIDE DEF T
  <2> QED
    BY <1>4, <1>5, Induction
<1>7. \A i \in 0..K : c[i] \in Popups
  <2> SUFFICES ASSUME NEW i \in 0..K PROVE c[i] \in Popups
    OBVIOUS
  <2>1. CASE i = 0
    BY <1>2, <2>1
  <2>2. CASE i # 0
    <3>1. i - 1 \in Nat /\ i - 1 \in 0..MaxDepth /\ (i - 1) + 1 = i /\ MaxDepth - (i - 1) \in 0..MaxDepth
      BY <1>1, <2>2
    <3>2. c[i] \in Level(p)[MaxDepth - (i - 1)]
      BY <1>6, <3>1
    <3> QED
      BY <1>3, <3>1, <3>2
  <2> QED
    BY <2>1, <2>2
<1>8. \A i \in 1..K : c[i] = popups[c[i - 1]]
  BY <1>1, <1>2, <1>7
<1>9. ASSUME NEW i \in 0..K, NEW j \in 0..K, i < j PROVE c[i] # c[j]
  <2> SUFFICES ASSUME c[i] = c[j] PROVE FALSE
    OBVIOUS
  <2> DEFINE S == {c[k] : k \in i..(j - 1)}
  <2>1. S \in SUBSET Popups /\ S # {}
    BY <1>1, <1>7, <1>9
  <2>2. PICK s \in S : popups[s] \notin S
    <3> HIDE DEF S
    <3> QED
      BY <2>1 DEF NoCycle
  <2>3. PICK k \in i..(j - 1) : s = c[k]
    BY <2>2
  <2>4. k + 1 \in 1..K /\ (k + 1) - 1 = k
    BY <1>1, <2>3
  <2>5. popups[s] = c[k + 1]
    BY <1>8, <2>3, <2>4
  <2>6. CASE k + 1 = j
    <3>1. i \in i..(j - 1)
      BY <1>1, <1>9
    <3> QED
      BY <2>2, <2>5, <2>6, <3>1
  <2>7. CASE k + 1 # j
    <3>1. k + 1 \in i..(j - 1)
      BY <1>1, <2>3, <2>7
    <3> QED
      BY <2>2, <2>5, <3>1
  <2> QED
    BY <2>6, <2>7
<1>10. c \in Injection(0..K, Popups)
  <2>1. c \in [0..K -> Popups]
    BY <1>2, <1>7
  <2>2. \A i, j \in 0..K : c[i] = c[j] => i = j
    <3>1. \A i, j \in 0..K : i < j \/ j < i \/ i = j
      BY <1>1
    <3> QED
      BY <1>9, <3>1
  <2> QED
    BY <2>1, <2>2 DEF Injection, IsInjective
<1>11. Cardinality(0..K) <= Cardinality(Popups)
  BY <1>10, FS_Injection
<1>12. Cardinality(0..K) = K + 1
  BY <1>1, FS_Interval
<1>13. Cardinality(Popups) \in Nat
  BY FS_CardinalityType
<1> QED
  BY <1>1, <1>11, <1>12, <1>13

\* Rows that are dropped close no cycle.
LEMMA FewerRows ==
  ASSUME RowInv,
         \A q \in Popups : popups'[q] # None => /\ popups'[q] = popups[q]
                                               /\ popupOf'[q] = popupOf[q]
  PROVE  RowInv'
<1>1. RowsAreParents'
  BY DEF RowInv, RowsAreParents
<1>2. ASSUME NEW S \in SUBSET Popups, S # {} PROVE \E q \in S : popups'[q] \notin S
  <2>1. PICK q \in S : popups[q] \notin S
    BY <1>2 DEF RowInv, NoCycle
  <2>2. None \notin S
    BY NoneIsNothing DEF Surfaces, Roles
  <2>3. popups'[q] \notin S
    BY <2>1, <2>2
  <2> QED
    BY <2>3
<1> QED
  BY <1>1, <1>2 DEF RowInv, NoCycle

\* A new popup is at the end of its chain.
LEMMA NewPopupRows ==
  ASSUME IInv, ParentsLive, RowInv, NEW p \in Popups, NEW x \in Roles, NewPopup(p, x)
  PROVE  RowInv'
<1>1. /\ p \notin roleLive /\ x \in roleLive /\ popupOf' = [popupOf EXCEPT ![p] = x]
      /\ popups' = popups \/ popups' = [popups EXCEPT ![p] = x]
  BY DEF NewPopup
<1>2. \A q \in Popups : popups[q] # None =>
        q \in roleLive /\ popups[q] = popupOf[q] /\ popups[q] \in roleLive
  BY DEF IInv, TablesAgree, ParentsLive, RowInv, RowsAreParents
<1>3. popupOf'[p] = x /\ \A q \in Popups : q # p => popupOf'[q] = popupOf[q]
  BY <1>1 DEF IInv, TypeOK
<1>4. CASE popups' = popups
  <2>1. popups[p] = None
    BY <1>1, <1>2
  <2> QED
    BY <1>3, <1>4, <2>1, FewerRows
<1>5. CASE popups' = [popups EXCEPT ![p] = x]
  <2>1. popups'[p] = x /\ \A q \in Popups : q # p => popups'[q] = popups[q]
    BY <1>5 DEF IInv, TypeOK
  <2>2. RowsAreParents'
    BY <1>3, <2>1 DEF RowInv, RowsAreParents
  <2>3. ASSUME NEW S \in SUBSET Popups, S # {} PROVE \E q \in S : popups'[q] \notin S
    <3>1. CASE S = {p}
      BY <1>1, <2>1, <3>1
    <3>2. CASE S # {p}
      <4>1. S \ {p} \in SUBSET Popups /\ S \ {p} # {}
        BY <2>3, <3>2
      <4>2. PICK q \in S \ {p} : popups[q] \notin S \ {p}
        BY <4>1 DEF RowInv, NoCycle
      <4>3. popups[q] # p
        BY <1>1, <1>2, NoneIsNothing DEF Surfaces, Roles
      <4>4. popups'[q] \notin S
        BY <2>1, <4>2, <4>3
      <4> QED
        BY <4>2, <4>4
    <3> QED
      BY <3>1, <3>2
  <2> QED
    BY <2>2, <2>3 DEF RowInv, NoCycle
<1> QED
  BY <1>1, <1>4, <1>5

LEMMA NextRows == IInv /\ ParentsLive /\ RowInv /\ [Next]_vars => RowInv'
<1> SUFFICES ASSUME IInv, ParentsLive, RowInv, [Next]_vars PROVE RowInv'
  OBVIOUS
<1>1. ASSUME NEW p \in Popups, NEW x \in Roles, NewPopup(p, x) PROVE RowInv'
  BY <1>1, NewPopupRows
<1>2. ASSUME NEW p \in Popups, PopupDestroyed(p) \/ DismissNext(p) PROVE RowInv'
  <2>1. \A q \in Popups : popups'[q] # None => popups'[q] = popups[q] /\ popupOf'[q] = popupOf[q]
    BY <1>2 DEF PopupDestroyed, DismissNext, DestroyPopups
  <2> QED
    BY <2>1, FewerRows
<1>3. CASE RunEnd
  <2>1. \A q \in Popups : popups'[q] # None => popups'[q] = popups[q] /\ popupOf'[q] = popupOf[q]
    BY <1>3 DEF RunEnd
  <2> QED
    BY <2>1, FewerRows
<1>4. CASE UNCHANGED <<popups, popupOf>>
  BY <1>4, FewerRows
<1>5. \/ UNCHANGED <<popups, popupOf>>
      \/ RunEnd
      \/ \E p \in Popups : \/ PopupDestroyed(p) \/ DismissNext(p)
                           \/ \E x \in Roles : NewPopup(p, x)
  BY DEF Next, NewToplevel, ToplevelDestroyed, NewDecoration,
     DecorationRequestMode, DecorationDestroyed, SetDecorationMode,
     DismissPopup, ConfigurePopup, InitialCommit, Unmap,
     SurfaceDestroyed, NewSubsurface, OtherEvent, OtherReturns, ModeReturns,
     ToplevelCommitReturns, PopupCommitReturns, RunStart, vars, objects, tables
<1> QED
  BY <1>1, <1>2, <1>3, <1>4, <1>5

-----------------------------------------------------------------------------
(* Theorems about dismissals.                                              *)

\* dismiss_popup destroys a chain leaf first, whatever else hangs off it and
\* whatever died before its turn, as long as popup_chain reaches its end.
THEOREM LeavesDismissedFirst == Spec /\ ChainsReached => DismissedLeafFirst
<1>1. Spec /\ [][ShortChains]_vars => []ChainInv
  BY InitChain, NextChain, Invariant, PTL DEF Spec
<1>2. Spec /\ [][ShortChains]_vars => [][LeafGoes]_vars
  BY <1>1, NextTakesLeaf, Invariant, PTL DEF Spec
<1> QED
  BY <1>2 DEF ChainsReached, DismissedLeafFirst, LeafGoes

\* It does reach the end while there are at most MAX_POPUP_DEPTH + 1 popups:
\* then dismissals are leaf first without a further assumption.
THEOREM FewDismissedLeafFirst ==
  ASSUME IsFiniteSet(Popups), Cardinality(Popups) <= MaxDepth + 1
  PROVE  Spec => DismissedLeafFirst
<1>1. IInv /\ RowInv => ShortChains
  BY FewPopups DEF IInv, RowInv, ShortChains
<1>2. IInv /\ ChainInv /\ RowInv /\ [Next]_vars => ChainInv' /\ RowInv'
  BY <1>1, NextChain, NextRows DEF ChainInv
<1>3. Init => RowInv
  BY NoneIsNothing DEF Init, RowInv, RowsAreParents, NoCycle, Surfaces, Roles
<1>4. Spec => [](ChainInv /\ RowInv)
  BY <1>2, <1>3, InitChain, Invariant, PTL DEF Spec
<1>5. Spec => [][ShortChains]_vars
  BY <1>1, <1>4, Invariant, PTL
<1> QED
  BY <1>5, LeavesDismissedFirst DEF ChainsReached
=============================================================================
