-------------------------- MODULE FdSources_proofs --------------------------
(***************************************************************************)
(* Proofs about FdSources, for any number of descriptors and runs.         *)
(***************************************************************************)
EXTENDS FdSources, TLAPS

-----------------------------------------------------------------------------
(* The inductive invariant.                                                *)

\* The sources in the loop are those recorded as live, all of this run and
\* all held by one of its registrations.
InstalledIsRecorded ==
  /\ \A s \in installed : live[s[1]] = s[2]
  /\ \A i \in Ids : live[i] # 0 => live[i] = run /\ i \in regs

\* A source that is in the loop, or that could still be added to it, was
\* never removed.
NotYetRemoved ==
  /\ \A s \in installed : removals[s] = 0
  /\ \A i \in Ids, r \in Runs :
       r > run \/ (r = run /\ phase # "idle" /\ i \notin regs)
         => removals[<<i, r>>] = 0

\* The consumer is called only where run_inner calls it.
CalledInPhase == /\ phase \in {"idle", "register", "drain"} => caller = "none"
                 /\ phase = "idle" => regs = {} /\ \A i \in Ids : live[i] = 0
                 /\ phase # "idle" => run > 0

IInv == /\ TypeOK
        /\ InstalledIsRecorded
        /\ NotYetRemoved
        /\ CalledInPhase
        /\ BorrowedStaysOpen
        /\ RemovedOnce
        /\ LiveIsInstalled
        /\ NoSourceOutlivesRun
        /\ PolledIsDeclared

LEMMA InitIInv == Init => IInv
<1> SUFFICES ASSUME Init PROVE IInv
  OBVIOUS
<1>1. TypeOK
  <2>1. /\ fd \in [Ids -> FdStates] /\ live \in [Ids -> 0..MaxRuns]
        /\ removals \in [Sources -> Nat] /\ run \in 0..MaxRuns
    BY FdAssumption DEF Init, FdStates
  <2>2. (borrowed # NoId) = (caller = "fd")
    BY DEF Init
  <2> QED
    BY <2>1, <2>2 DEF Init, TypeOK, Phases
<1>2. NotYetRemoved /\ RemovedOnce
  BY DEF Init, NotYetRemoved, RemovedOnce, Sources
<1> QED
  BY <1>1, <1>2 DEF Init, IInv, InstalledIsRecorded, CalledInPhase,
     BorrowedStaysOpen, LiveIsInstalled, NoSourceOutlivesRun, PolledIsDeclared

-----------------------------------------------------------------------------
(* Removing sources                                                        *)

\* Removing installed sources that were never removed keeps the counts.
LEMMA RemovalCounts ==
  ASSUME IInv, NEW gone \in SUBSET installed, RemoveSources(gone)
  PROVE  /\ installed' = installed \ gone
         /\ removals' \in [Sources -> Nat]
         /\ \A s \in Sources \ gone : removals'[s] = removals[s]
         /\ \A s \in Sources : removals'[s] <= 1
<1>1. /\ removals \in [Sources -> Nat] /\ installed \subseteq Sources
      /\ \A s \in Sources : removals[s] <= 1
      /\ \A s \in installed : removals[s] = 0
  BY DEF IInv, TypeOK, RemovedOnce, NotYetRemoved
<1> QED
  BY <1>1 DEF RemoveSources

\* What live_sources records for some ids is in the loop, for these ids.
LEMMA RecordedInstalled ==
  ASSUME IInv, NEW which \in SUBSET Ids
  PROVE  /\ LiveSources(which) \subseteq installed
         /\ \A s \in installed : s \in LiveSources(which) <=> s[1] \in which
<1>1. /\ installed \subseteq Sources /\ live \in [Ids -> 0..MaxRuns]
      /\ \A i \in Ids : live[i] # 0 => <<i, live[i]>> \in installed
      /\ \A s \in installed : live[s[1]] = s[2]
  BY DEF IInv, TypeOK, LiveIsInstalled, InstalledIsRecorded
<1>2. \A s \in Sources : s = <<s[1], s[2]>> /\ s[1] \in Ids /\ s[2] # 0
  BY DEF Sources, Runs
<1> QED
  BY <1>1, <1>2 DEF LiveSources

\* A run that ends leaves no source behind and removes none twice.
LEMMA DropAll ==
  ASSUME IInv, DropRegistrations
  PROVE  /\ installed' = {} /\ regs' = {}
         /\ live' = [i \in Ids |-> 0]
         /\ removals' \in [Sources -> Nat]
         /\ \A s \in Sources : removals'[s] <= 1
         /\ \A i \in Ids, r \in Runs : r > run => removals'[<<i, r>>] = 0
<1> DEFINE gone == LiveSources(regs)
<1>1. regs \in SUBSET Ids
  BY DEF IInv, TypeOK
<1>2. RemoveSources(gone) /\ regs' = {} /\ live' = [i \in Ids |-> 0]
  BY DEF DropRegistrations
<1>3. /\ gone \subseteq installed
      /\ \A s \in installed : s \in gone <=> s[1] \in regs
  BY <1>1, RecordedInstalled
<1>4. /\ installed' = installed \ gone
      /\ removals' \in [Sources -> Nat]
      /\ \A s \in Sources \ gone : removals'[s] = removals[s]
      /\ \A s \in Sources : removals'[s] <= 1
  BY <1>2, <1>3, RemovalCounts
<1>5. \A s \in installed : s[1] \in Ids /\ s[1] \in regs /\ s[2] = run /\ s[2] # 0
  BY DEF IInv, TypeOK, InstalledIsRecorded, Sources, Runs
<1>6. installed' = {}
  BY <1>3, <1>4, <1>5
<1>7. ASSUME NEW i \in Ids, NEW r \in Runs, r > run PROVE removals'[<<i, r>>] = 0
  <2>1. <<i, r>> \in Sources \ gone
    BY <1>3, <1>5, <1>7 DEF Sources, IInv, TypeOK, Runs
  <2>2. removals[<<i, r>>] = 0
    BY <1>7 DEF IInv, NotYetRemoved
  <2> QED
    BY <1>4, <2>1, <2>2
<1> QED
  BY <1>2, <1>4, <1>6, <1>7

-----------------------------------------------------------------------------
(* One lemma per group of actions.                                         *)

\* A step that leaves the sources alone, and neither queues nor closes.
LEMMA ControlSteps ==
  ASSUME IInv, UNCHANGED <<fd, live, regs, installed, removals>>,
         \/ EnterScene \/ LeaveScene \/ RunStart \/ Registered \/ Started
         \/ OtherHandler \/ HandlerReturns \/ Dispatched \/ Flushed
         \/ \E i \in Ids : OnFdReady(i)
  PROVE  IInv'
<1> USE FdAssumption
      DEF IInv, TypeOK, InstalledIsRecorded, NotYetRemoved, CalledInPhase,
          BorrowedStaysOpen, RemovedOnce, LiveIsInstalled, NoSourceOutlivesRun,
          PolledIsDeclared, Phases, Runs
<1>1. CASE EnterScene
  BY <1>1 DEF EnterScene
<1>2. CASE LeaveScene
  <2>1. TypeOK'
    BY <1>2 DEF LeaveScene
  <2>2. InstalledIsRecorded' /\ NotYetRemoved' /\ CalledInPhase'
    BY <1>2 DEF LeaveScene
  <2>3. /\ BorrowedStaysOpen' /\ RemovedOnce' /\ LiveIsInstalled'
        /\ NoSourceOutlivesRun' /\ PolledIsDeclared'
    BY <1>2 DEF LeaveScene
  <2> QED
    BY <2>1, <2>2, <2>3
<1>3. CASE RunStart
  BY <1>3 DEF RunStart, InHandler, InDelivery
<1>4. CASE Registered
  BY <1>4 DEF Registered
<1>5. CASE Started
  BY <1>5 DEF Started
<1>6. CASE OtherHandler
  BY <1>6 DEF OtherHandler
<1>7. CASE HandlerReturns
  BY <1>7 DEF HandlerReturns
<1>8. CASE Dispatched
  BY <1>8 DEF Dispatched
<1>9. CASE Flushed
  BY <1>9 DEF Flushed
<1>10. ASSUME NEW i \in Ids, OnFdReady(i) PROVE IInv'
  BY <1>10 DEF OnFdReady
<1> QED
  BY <1>1, <1>2, <1>3, <1>4, <1>5, <1>6, <1>7, <1>8, <1>9, <1>10

LEMMA ConsumerSteps ==
  ASSUME IInv, NEW i \in Ids, AddFd(i) \/ RemoveFd(i)
  PROVE  IInv'
<1>1. CASE AddFd(i)
  <2>1. \A s \in installed : s[1] # i
    BY <1>1 DEF AddFd, IInv, PolledIsDeclared
  <2> QED
    BY <1>1, <2>1
       DEF AddFd, IInv, TypeOK, InstalledIsRecorded, NotYetRemoved, CalledInPhase,
           BorrowedStaysOpen, RemovedOnce, LiveIsInstalled, NoSourceOutlivesRun,
           PolledIsDeclared, FdStates
<1>2. CASE RemoveFd(i)
  <2> DEFINE gone == LiveSources({i})
  <2>1. /\ RemoveSources(gone) /\ fd' = CloseFd(i)
        /\ live' = [live EXCEPT ![i] = 0] /\ ConsumerRuns /\ fd[i] = "declared"
        /\ UNCHANGED <<regs, run, phase, caller, borrowed, inScene>>
    BY <1>2 DEF RemoveFd
  <2>2. /\ gone \subseteq installed
        /\ \A s \in installed : s \in gone <=> s[1] = i
    BY RecordedInstalled
  <2>3. /\ installed' = installed \ gone
        /\ removals' \in [Sources -> Nat]
        /\ \A s \in Sources \ gone : removals'[s] = removals[s]
        /\ \A s \in Sources : removals'[s] <= 1
    BY <2>1, <2>2, RemovalCounts
  <2>4. /\ fd'[i] = IF InDelivery THEN "queued" ELSE "closed"
        /\ \A j \in Ids \ {i} : fd'[j] = fd[j]
        /\ fd' \in [Ids -> FdStates]
    BY <2>1 DEF CloseFd, IInv, TypeOK, FdStates
  <2>5. TypeOK'
    <3>1. live' \in [Ids -> 0..MaxRuns]
      BY <2>1, FdAssumption DEF IInv, TypeOK
    <3>2. (borrowed' # NoId) = (caller' = "fd")
      BY <2>1 DEF IInv, TypeOK
    <3> QED
      BY <2>1, <2>3, <2>4, <3>1, <3>2 DEF IInv, TypeOK
  <2>6. InstalledIsRecorded'
    BY <2>1, <2>2, <2>3 DEF IInv, TypeOK, InstalledIsRecorded, Sources
  <2>7. NotYetRemoved'
    <3>1. \A s \in gone : s[2] = run /\ s[1] \in regs
      <4>1. \A s \in installed : s[1] \in Ids /\ s[2] # 0 /\ live[s[1]] = s[2]
        BY DEF IInv, TypeOK, InstalledIsRecorded, Sources, Runs
      <4> QED
        BY <2>2, <4>1 DEF IInv, InstalledIsRecorded
    <3>2. \A s \in installed' : removals'[s] = 0
      BY <2>3 DEF IInv, TypeOK, NotYetRemoved
    <3>3. ASSUME NEW j \in Ids, NEW r \in Runs,
                 r > run \/ (r = run /\ phase # "idle" /\ j \notin regs)
          PROVE  removals'[<<j, r>>] = 0
      <4>1. <<j, r>> \in Sources \ gone
        <5>1. <<j, r>>[1] = j /\ <<j, r>>[2] = r /\ <<j, r>> \in Sources
          BY DEF Sources
        <5>2. ~(r = run /\ j \in regs)
          BY <3>3 DEF IInv, TypeOK, Runs
        <5> QED
          BY <3>1, <5>1, <5>2
      <4> QED
        BY <2>3, <3>3, <4>1 DEF IInv, NotYetRemoved
    <3> QED
      BY <2>1, <3>2, <3>3 DEF NotYetRemoved
  <2>8. CalledInPhase'
    BY <2>1 DEF IInv, TypeOK, CalledInPhase
  <2>9. BorrowedStaysOpen'
    BY <2>1, <2>4 DEF IInv, TypeOK, BorrowedStaysOpen, InDelivery
  <2>10. LiveIsInstalled'
    <3>1. ASSUME NEW j \in Ids, live'[j] # 0 PROVE <<j, live'[j]>> \in installed'
      <4>1. j # i /\ live'[j] = live[j]
        BY <2>1, <3>1 DEF IInv, TypeOK
      <4> QED
        BY <2>2, <2>3, <3>1, <4>1 DEF IInv, LiveIsInstalled
    <3> QED
      BY <3>1 DEF LiveIsInstalled
  <2>11. NoSourceOutlivesRun'
    BY <2>1, <2>3 DEF IInv, NoSourceOutlivesRun
  <2>12. PolledIsDeclared'
    BY <2>2, <2>3, <2>4 DEF IInv, TypeOK, PolledIsDeclared, Sources
  <2>13. RemovedOnce'
    BY <2>3 DEF RemovedOnce
  <2> QED
    BY <2>5, <2>6, <2>7, <2>8, <2>9, <2>10, <2>11, <2>12, <2>13 DEF IInv
<1> QED
  BY <1>1, <1>2

LEMMA RegisterStep ==
  ASSUME IInv, NEW i \in Ids, Register(i)
  PROVE  IInv'
<1>1. /\ installed' = installed \cup {<<i, run>>}
      /\ live' = [live EXCEPT ![i] = run]
      /\ regs' = regs \cup {i}
      /\ phase = "register" /\ fd[i] = "declared" /\ i \notin regs
      /\ UNCHANGED <<fd, removals, run, phase, caller, borrowed, inScene>>
  BY DEF Register
<1>2. run \in Runs /\ <<i, run>> \in Sources /\ run > 0
  BY <1>1 DEF IInv, TypeOK, CalledInPhase, Runs, Sources
<1>3. live[i] = 0 /\ \A s \in installed : s[1] # i
  BY <1>1, <1>2 DEF IInv, TypeOK, InstalledIsRecorded, Sources, Runs
<1>4. removals[<<i, run>>] = 0
  BY <1>1, <1>2 DEF IInv, NotYetRemoved
<1>5. TypeOK'
  BY <1>1, <1>2 DEF IInv, TypeOK, Runs
<1>6. InstalledIsRecorded'
  BY <1>1, <1>2, <1>3 DEF IInv, TypeOK, InstalledIsRecorded, Sources
<1>7. NotYetRemoved'
  BY <1>1, <1>4 DEF IInv, NotYetRemoved
<1>8. LiveIsInstalled'
  BY <1>1, <1>3 DEF IInv, TypeOK, LiveIsInstalled
<1>9. PolledIsDeclared'
  BY <1>1 DEF IInv, PolledIsDeclared
<1> QED
  BY <1>1, <1>2, <1>5, <1>6, <1>7, <1>8, <1>9
     DEF IInv, CalledInPhase, BorrowedStaysOpen, RemovedOnce, NoSourceOutlivesRun

LEMMA DrainStep ==
  ASSUME IInv, DrainPendingCloses
  PROVE  IInv'
<1>1. borrowed = NoId
  BY DEF DrainPendingCloses, IInv, TypeOK, CalledInPhase
<1>2. /\ fd' \in [Ids -> FdStates]
      /\ \A i \in Ids : fd[i] = "declared" => fd'[i] = "declared"
  BY DEF DrainPendingCloses, IInv, TypeOK, FdStates
<1> QED
  BY <1>1, <1>2
     DEF DrainPendingCloses, IInv, TypeOK, InstalledIsRecorded, NotYetRemoved,
         CalledInPhase, BorrowedStaysOpen, RemovedOnce, LiveIsInstalled,
         NoSourceOutlivesRun, PolledIsDeclared, Phases, Sources

\* A run ends with nothing on the stack.
LEMMA EndStep ==
  ASSUME IInv, DropRegistrations, phase' = "idle", caller' = "none",
         borrowed = NoId, UNCHANGED <<fd, run, borrowed, inScene>>
  PROVE  IInv'
<1>1. /\ installed' = {} /\ regs' = {}
      /\ live' = [i \in Ids |-> 0]
      /\ removals' \in [Sources -> Nat]
      /\ \A s \in Sources : removals'[s] <= 1
      /\ \A i \in Ids, r \in Runs : r > run => removals'[<<i, r>>] = 0
  BY DropAll
<1>2. TypeOK'
  <2>1. live' \in [Ids -> 0..MaxRuns]
    BY <1>1, FdAssumption
  <2>2. (borrowed' # NoId) = (caller' = "fd")
    OBVIOUS
  <2> QED
    BY <1>1, <2>1, <2>2 DEF IInv, TypeOK, Phases
<1>3. NotYetRemoved'
  BY <1>1 DEF NotYetRemoved
<1> QED
  BY <1>1, <1>2, <1>3
     DEF IInv, InstalledIsRecorded, CalledInPhase, BorrowedStaysOpen, TypeOK,
         RemovedOnce, LiveIsInstalled, NoSourceOutlivesRun, PolledIsDeclared

LEMMA StopStep ==
  ASSUME IInv, NEW stop \in BOOLEAN, StopReturns(stop)
  PROVE  IInv'
<1>1. borrowed = NoId /\ caller = "stop" /\ caller' = "none"
      /\ UNCHANGED <<fd, run, borrowed, inScene>>
  BY DEF StopReturns, IInv, TypeOK
<1>2. CASE stop
  BY <1>1, <1>2, EndStep DEF StopReturns
<1>3. CASE ~stop
  BY <1>1, <1>3
     DEF StopReturns, IInv, TypeOK, InstalledIsRecorded, NotYetRemoved,
         CalledInPhase, BorrowedStaysOpen, RemovedOnce, LiveIsInstalled,
         NoSourceOutlivesRun, PolledIsDeclared, Phases, Sources
<1> QED
  BY <1>2, <1>3

LEMMA NextIInv == IInv /\ [Next]_vars => IInv'
<1> SUFFICES ASSUME IInv, [Next]_vars PROVE IInv'
  OBVIOUS
<1>1. CASE UNCHANGED vars
  BY <1>1 DEF vars, IInv, TypeOK, InstalledIsRecorded, NotYetRemoved,
     CalledInPhase, BorrowedStaysOpen, RemovedOnce, LiveIsInstalled,
     NoSourceOutlivesRun, PolledIsDeclared
<1>2. CASE EnterScene \/ LeaveScene \/ RunStart \/ Registered \/ Started
           \/ OtherHandler \/ HandlerReturns \/ Dispatched \/ Flushed
  <2>1. UNCHANGED <<fd, live, regs, installed, removals>>
    BY <1>2 DEF EnterScene, LeaveScene, RunStart, Registered, Started,
       OtherHandler, HandlerReturns, Dispatched, Flushed
  <2> QED
    BY <1>2, <2>1, ControlSteps
<1>3. ASSUME NEW i \in Ids, OnFdReady(i) PROVE IInv'
  <2>1. UNCHANGED <<fd, live, regs, installed, removals>>
    BY <1>3 DEF OnFdReady
  <2> QED
    BY <1>3, <2>1, ControlSteps
<1>4. CASE RunReturn
  <2>1. borrowed = NoId
    BY <1>4 DEF RunReturn, IInv, TypeOK
  <2> QED
    BY <1>4, <2>1, EndStep DEF RunReturn
<1>5. ASSUME NEW i \in Ids, AddFd(i) \/ RemoveFd(i) \/ Register(i) PROVE IInv'
  BY <1>5, ConsumerSteps, RegisterStep
<1>6. ASSUME NEW stop \in BOOLEAN, StopReturns(stop) PROVE IInv'
  BY <1>6, StopStep
<1>7. CASE DrainPendingCloses
  BY <1>7, DrainStep
<1> QED
  BY <1>1, <1>2, <1>3, <1>4, <1>5, <1>6, <1>7 DEF Next

-----------------------------------------------------------------------------
\* The strengthened invariant holds of every behaviour.
THEOREM Invariant == Spec => []IInv
BY InitIInv, NextIInv, PTL DEF Spec

\* Every variable of FdSources keeps its type, and a descriptor is lent out
\* exactly while fd_ready runs.
THEOREM TypeCorrect == Spec => []TypeOK
BY Invariant, PTL DEF IInv

\* The descriptor lent to fd_ready is not closed before fd_ready returns.
THEOREM BorrowIsOpen == Spec => []BorrowedStaysOpen
BY Invariant, PTL DEF IInv

\* remove_fd and FdRegistration::drop never both remove a source.
THEOREM NoDoubleRemoval == Spec => []RemovedOnce
BY Invariant, PTL DEF IInv

\* Every pointer in live_sources is a source of the loop, and no closed or
\* removed descriptor is polled.
THEOREM SourcesCorrect == Spec => []SourcesAgree
BY Invariant, PTL DEF IInv, SourcesAgree

\* A run leaves no source, whose data would point to its session, behind.
THEOREM RunCleansUp == Spec => []NoSourceOutlivesRun
BY Invariant, PTL DEF IInv

\* With no run on the stack remove_fd closes at once.
THEOREM IdleCloses == Spec => ClosedAtOnceWhenIdle
<1>1. IInv /\ [Next]_vars =>
        [phase = "idle" => \A i \in Ids : fd'[i] = "queued" => fd[i] = "queued"]_vars
  <2> SUFFICES ASSUME IInv, Next, phase = "idle", NEW i \in Ids, fd'[i] = "queued"
               PROVE  fd[i] = "queued"
    OBVIOUS
  <2>1. caller = "none" /\ fd \in [Ids -> FdStates]
    BY DEF IInv, CalledInPhase, TypeOK
  <2>2. CASE UNCHANGED fd
    BY <2>2
  <2>3. ASSUME NEW j \in Ids, AddFd(j) PROVE fd[i] = "queued"
    BY <2>1, <2>3 DEF AddFd
  <2>4. ASSUME NEW j \in Ids, RemoveFd(j) PROVE fd[i] = "queued"
    BY <2>1, <2>4 DEF RemoveFd, CloseFd, InDelivery
  <2>5. CASE DrainPendingCloses
    BY <2>5 DEF DrainPendingCloses
  <2> QED
    BY <2>1, <2>2, <2>3, <2>4, <2>5
       DEF Next, Register, OnFdReady, EnterScene, LeaveScene, RunStart, Registered,
           Started, OtherHandler, HandlerReturns, Dispatched, Flushed, RunReturn,
           StopReturns
<1> QED
  BY <1>1, Invariant, PTL DEF Spec, ClosedAtOnceWhenIdle
=============================================================================
