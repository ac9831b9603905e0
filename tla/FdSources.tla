----------------------------- MODULE FdSources -----------------------------
(***************************************************************************)
(* The compositor's own descriptors in the event loop: Runtime::add_fd,    *)
(* remove_fd and with_fd (runtime.rs), and what a run does with them       *)
(* (backend.rs): register_fd_sources, on_fd_ready, the close queue drained *)
(* after each turn, FdRegistration::drop and LiveSourcesGuard.             *)
(*                                                                         *)
(* A wl_event_source is named by the descriptor and the run that installed *)
(* it, so that a pointer kept from an earlier run is told from a live one. *)
(* libwayland is external: it holds the installed sources, polls them      *)
(* inside wl_event_loop_dispatch, and is told once to remove each.         *)
(***************************************************************************)
EXTENDS Naturals

CONSTANTS Ids,      \* the SourceIds add_fd hands out
          NoId,     \* no descriptor
          MaxRuns   \* bound: calls of Backend::run_all

ASSUME FdAssumption == NoId \notin Ids /\ MaxRuns \in Nat

VARIABLES
  fd,        \* the OwnedFd of each id: not "made" yet, in Runtime::sources,
             \* queued in Runtime::pending_close, or closed
  live,      \* Runtime::live_sources: the run whose source is recorded, or 0
  regs,      \* the ids for which the run holds an FdRegistration
  installed, \* external: the wl_event_sources in the loop, as <<id, run>>
  removals,  \* external: how often each wl_event_source was removed
  run,       \* the number of the last run
  phase,     \* where run_inner is: "idle" when no run is on the stack
  caller,    \* the consumer code that has control: "none", "handler",
             \* "stop" (should_stop), or "fd" inside an fd_ready
  borrowed,  \* the id whose BorrowedFd that fd_ready was handed
  inScene    \* a ForeignFrame closure is on the stack

vars == <<fd, live, regs, installed, removals, run, phase, caller, borrowed, inScene>>

Runs == 1..MaxRuns
Sources == Ids \X Runs
Phases == {"idle", "register", "start", "turn", "drain", "flush", "query"}
FdStates == {"unmade", "declared", "queued", "closed"}

Declared == {i \in Ids : fd[i] = "declared"}
Queued == {i \in Ids : fd[i] = "queued"}

\* dispatch::in_delivery and dispatch::in_handler.
InDelivery == caller # "none"
InHandler == InDelivery \/ inScene

\* Consumer code has control: in a handler, or between runs.
ConsumerRuns == InDelivery \/ phase = "idle"

-----------------------------------------------------------------------------
Init == /\ fd = [i \in Ids |-> "unmade"]
        /\ live = [i \in Ids |-> 0]
        /\ regs = {}
        /\ installed = {}
        /\ removals = [s \in Sources |-> 0]
        /\ run = 0
        /\ phase = "idle"
        /\ caller = "none"
        /\ borrowed = NoId
        /\ inScene = FALSE

\* wl_event_source_remove of the sources in s.
RemoveSources(s) ==
  /\ installed' = installed \ s
  /\ removals' = [x \in Sources |-> IF x \in s THEN removals[x] + 1 ELSE removals[x]]

\* The sources recorded for the ids in which.
LiveSources(which) == {<<i, live[i]>> : i \in {j \in which : live[j] # 0}}

-----------------------------------------------------------------------------
(* Calls of the consumer *)

AddFd(i) ==
  /\ ConsumerRuns
  /\ fd[i] = "unmade"
  /\ fd' = [fd EXCEPT ![i] = "declared"]
  /\ UNCHANGED <<live, regs, installed, removals, run, phase, caller, borrowed, inScene>>

\* Mutant: the descriptor is closed at once.
CloseFdNow(i) == [fd EXCEPT ![i] = "closed"]

\* The descriptor is closed, or queued while a handler could borrow it.
CloseFd(i) == [fd EXCEPT ![i] = IF InDelivery THEN "queued" ELSE "closed"]

RemoveFd(i) ==
  /\ ConsumerRuns
  /\ fd[i] = "declared"    \* a second removal finds nothing
  /\ fd' = CloseFd(i)
  /\ RemoveSources(LiveSources({i}))
  /\ live' = [live EXCEPT ![i] = 0]
  /\ UNCHANGED <<regs, run, phase, caller, borrowed, inScene>>

EnterScene ==
  /\ ConsumerRuns /\ ~inScene
  /\ inScene' = TRUE
  /\ UNCHANGED <<fd, live, regs, installed, removals, run, phase, caller, borrowed>>

LeaveScene ==
  /\ inScene
  /\ inScene' = FALSE
  /\ UNCHANGED <<fd, live, regs, installed, removals, run, phase, caller, borrowed>>

-----------------------------------------------------------------------------
(* The run *)

RunStart ==
  /\ phase = "idle" /\ ~InHandler /\ run < MaxRuns
  /\ run' = run + 1
  /\ phase' = "register"
  /\ UNCHANGED <<fd, live, regs, installed, removals, caller, borrowed, inScene>>

\* register_fd_sources, one declared descriptor.
Register(i) ==
  /\ phase = "register"
  /\ fd[i] = "declared" /\ i \notin regs
  /\ installed' = installed \cup {<<i, run>>}
  /\ live' = [live EXCEPT ![i] = run]
  /\ regs' = regs \cup {i}
  /\ UNCHANGED <<fd, removals, run, phase, caller, borrowed, inScene>>

Registered ==
  /\ phase = "register" /\ Declared \subseteq regs
  /\ phase' = "start"
  /\ UNCHANGED <<fd, live, regs, installed, removals, run, caller, borrowed, inScene>>

\* ensure_started returned.
Started ==
  /\ phase = "start" /\ caller = "none"
  /\ phase' = "turn"
  /\ UNCHANGED <<fd, live, regs, installed, removals, run, caller, borrowed, inScene>>

\* on_fd_ready: the event is emitted, and with_fd borrows the descriptor.
OnFdReady(i) ==
  /\ phase = "turn" /\ caller = "none"
  /\ <<i, run>> \in installed
  /\ IF fd[i] = "declared"
     THEN caller' = "fd" /\ borrowed' = i
     ELSE UNCHANGED <<caller, borrowed>>
  /\ UNCHANGED <<fd, live, regs, installed, removals, run, phase, inScene>>

\* Any other handler: during startup, the dispatch or the flush.
OtherHandler ==
  /\ phase \in {"start", "turn", "flush"} /\ caller = "none"
  /\ caller' = "handler"
  /\ UNCHANGED <<fd, live, regs, installed, removals, run, phase, borrowed, inScene>>

HandlerReturns ==
  /\ caller \in {"fd", "handler"} /\ ~inScene
  /\ caller' = "none"
  /\ borrowed' = NoId
  /\ UNCHANGED <<fd, live, regs, installed, removals, run, phase, inScene>>

\* wl_event_loop_dispatch returned.
Dispatched ==
  /\ phase = "turn" /\ caller = "none"
  /\ phase' = "drain"
  /\ UNCHANGED <<fd, live, regs, installed, removals, run, caller, borrowed, inScene>>

DrainPendingCloses ==
  /\ phase = "drain"
  /\ phase' = "flush"
  /\ fd' = [i \in Ids |-> IF fd[i] = "queued" THEN "closed" ELSE fd[i]]
  /\ UNCHANGED <<live, regs, installed, removals, run, caller, borrowed, inScene>>

Flushed ==
  /\ phase = "flush" /\ caller = "none"
  /\ phase' = "query"
  /\ caller' = "stop"
  /\ UNCHANGED <<fd, live, regs, installed, removals, run, borrowed, inScene>>

\* Mutant: the registrations remove their source without looking it up.
DropRegistrationsBlindly ==
  /\ RemoveSources({<<i, run>> : i \in regs})
  /\ live' = [i \in Ids |-> 0]
  /\ regs' = {}

\* Mutant: the live table is forgotten before the registrations drop.
DropRegistrationsTooLate ==
  /\ UNCHANGED <<installed, removals>>
  /\ live' = [i \in Ids |-> 0]
  /\ regs' = {}

(* FdRegistration::drop for each, and then LiveSourcesGuard.               *)
DropRegistrations ==
  /\ RemoveSources(LiveSources(regs))
  /\ live' = [i \in Ids |-> 0]
  /\ regs' = {}

(* A source could not be added, the startup or the dispatch failed, the    *)
(* backend died, or the turns are used up.                                 *)
RunReturn ==
  /\ phase \in {"register", "start", "turn", "flush"} /\ caller = "none"
  /\ DropRegistrations
  /\ phase' = "idle"
  /\ UNCHANGED <<fd, run, caller, borrowed, inScene>>

StopReturns(stop) ==
  /\ caller = "stop" /\ ~inScene
  /\ caller' = "none"
  /\ IF stop
     THEN DropRegistrations /\ phase' = "idle"
     ELSE phase' = "turn" /\ UNCHANGED <<live, regs, installed, removals>>
  /\ UNCHANGED <<fd, run, borrowed, inScene>>

-----------------------------------------------------------------------------
Next == \/ \E i \in Ids : AddFd(i) \/ RemoveFd(i) \/ Register(i) \/ OnFdReady(i)
        \/ EnterScene \/ LeaveScene
        \/ RunStart \/ Registered \/ Started \/ OtherHandler \/ HandlerReturns
        \/ Dispatched \/ DrainPendingCloses \/ Flushed
        \/ RunReturn
        \/ \E stop \in BOOLEAN : StopReturns(stop)

Spec == Init /\ [][Next]_vars

-----------------------------------------------------------------------------
(* Properties *)

TypeOK == /\ fd \in [Ids -> FdStates]
          /\ live \in [Ids -> 0..MaxRuns]
          /\ regs \subseteq Ids
          /\ installed \subseteq Sources
          /\ removals \in [Sources -> Nat]
          /\ run \in 0..MaxRuns
          /\ phase \in Phases
          /\ caller \in {"none", "handler", "fd", "stop"}
          /\ borrowed \in Ids \cup {NoId}
          /\ (borrowed # NoId) = (caller = "fd")
          /\ inScene \in BOOLEAN

\* The descriptor an fd_ready was handed stays open until that call
\* returns, whichever descriptors the handler removes meanwhile.
BorrowedStaysOpen == borrowed # NoId => fd[borrowed] \in {"declared", "queued"}

\* No wl_event_source is removed twice: remove_fd and the registration's
\* own drop agree on who removes it.
RemovedOnce == \A s \in Sources : removals[s] <= 1

\* Every pointer remove_fd can take from live_sources is installed: none is
\* left from an earlier run or from a source removed meanwhile.
LiveIsInstalled == \A i \in Ids : live[i] # 0 => <<i, live[i]>> \in installed

\* No source outlives the run whose session its callback data points to.
NoSourceOutlivesRun == phase = "idle" => installed = {}

\* A source in the loop belongs to a declared descriptor: neither closed
\* nor removed by the consumer.
PolledIsDeclared == \A s \in installed : fd[s[1]] = "declared"

\* The loop, the table remove_fd takes pointers from and the descriptors
\* agree on which sources there are.
SourcesAgree == LiveIsInstalled /\ PolledIsDeclared

\* A descriptor removed with no run on the stack is closed at once, also
\* from a closure borrowed into the scene.
ClosedAtOnceWhenIdle ==
  [][phase = "idle" => \A i \in Ids : fd'[i] = "queued" => fd[i] = "queued"]_vars
=============================================================================
