-------------------------- MODULE Dispatch_proofs --------------------------
(***************************************************************************)
(* Proofs about Dispatch.  The inductive invariant says what each guard    *)
(* will restore (Restores), where a frame of each kind can be (Shape), and *)
(* that the counters and flags describe the stack.  The queue holds events *)
(* in the order they were emitted (QInv); from both follows, step by step, *)
(* that Dispatch implements Delivery.                                      *)
(***************************************************************************)
EXTENDS Dispatch, FiniteSetTheorems, SequenceTheorems, TLAPS

\* A guard restores the flags as they are without its frame.
Restores ==
  \A i \in Depth :
    /\ stack[i].handler = (\E j \in 1..(i - 1) : stack[j].kind \in GuardKinds)
    /\ stack[i].delivery = (\E j \in 1..(i - 1) : stack[j].kind \in StateKinds)
    /\ stack[i].kind = "run" => stack[i].display = NoDisplay

\* How frames can be stacked: one holds the state and one is the run, the
\* state is lent only above the run, and nothing that drives the loop is above
\* a guard.  Guards are stacked in any order.
OneRun ==
  \A i, j \in Depth : stack[i].kind = "run" /\ stack[j].kind = "run" => i = j

LentInRun ==
  \A i \in Depth : stack[i].kind \in StateKinds =>
                      \E j \in 1..(i - 1) : stack[j].kind = "run"

Shape == StateNotAliased /\ LoopNotDrivenInHandler /\ OneRun /\ LentInRun

ForeignDepth == {i \in Depth : stack[i].kind = "foreign"}
ForeignCounted == foreignFrames = Cardinality(ForeignDepth)

Kept == <<stack, flags, currentDisplay, running, inDispatch>>

IInv == /\ TypeOK
        /\ Restores
        /\ Shape
        /\ ForeignCounted
        /\ FlagsAgreeWithStack
        /\ PinnedOnlyInRun

-----------------------------------------------------------------------------
(* Sequences as stacks *)

\* Pushing a frame leaves the ones below it alone.
LEMMA PushFrame ==
  ASSUME NEW s \in Seq(Frame), NEW f \in Frame, NEW t, t = Append(s, f)
  PROVE  /\ t \in Seq(Frame)
         /\ Len(t) = Len(s) + 1
         /\ \A i \in 1..Len(s) : t[i] = s[i]
         /\ t[Len(s) + 1] = f
         /\ DOMAIN t = 1..(Len(s) + 1)
         /\ DOMAIN s = 1..Len(s)
         /\ Len(s) \in Nat
OBVIOUS

\* Popping a frame leaves the ones below it alone.
LEMMA PopFrame ==
  ASSUME NEW s \in Seq(Frame), s # <<>>, NEW t, t = SubSeq(s, 1, Len(s) - 1)
  PROVE  /\ t \in Seq(Frame)
         /\ Len(t) = Len(s) - 1
         /\ \A i \in 1..(Len(s) - 1) : t[i] = s[i]
         /\ DOMAIN t = 1..(Len(s) - 1)
         /\ DOMAIN s = 1..Len(s)
         /\ Len(s) \in Nat \ {0}
<1> DEFINE n == Len(s) - 1
<1>1. Len(s) \in Nat \ {0} /\ n \in Nat /\ DOMAIN s = 1..Len(s)
  OBVIOUS
<1>2. \A i \in 1..n : s[i] \in Frame
  BY <1>1
<1>3. t = [i \in 1..n |-> s[i]]
  BY <1>1
<1>4. t \in Seq(Frame) /\ Len(t) = n
  BY <1>1, <1>2, <1>3
<1> QED
  BY <1>1, <1>3, <1>4

\* The frames on the stack are frames.
LEMMA FrameAt ==
  ASSUME NEW s \in Seq(Frame), NEW i \in DOMAIN s
  PROVE  /\ s[i] \in Frame
         /\ s[i].kind \in Kinds
         /\ s[i].handler \in BOOLEAN
         /\ s[i].delivery \in BOOLEAN
         /\ s[i].display \in Displays \cup {NoDisplay}
<1>1. s[i] \in Frame
  OBVIOUS
<1> QED
  BY <1>1 DEF Frame

\* The count of foreign frames is a natural number, and positive where
\* there is one.
LEMMA ForeignFinite ==
  ASSUME stack \in Seq(Frame)
  PROVE  /\ IsFiniteSet(ForeignDepth)
         /\ Cardinality(ForeignDepth) \in Nat
         /\ ForeignDepth # {} => Cardinality(ForeignDepth) > 0
<1>1. ForeignDepth \subseteq 1..Len(stack) /\ Len(stack) \in Nat
  BY DEF ForeignDepth, Depth
<1>2. IsFiniteSet(1..Len(stack))
  BY <1>1, FS_Interval
<1>3. IsFiniteSet(ForeignDepth)
  BY <1>1, <1>2, FS_Subset
<1>4. Cardinality(ForeignDepth) \in Nat
  BY <1>3, FS_CardinalityType
<1>5. ForeignDepth # {} => Cardinality(ForeignDepth) # 0
  BY <1>3, FS_EmptySet
<1> QED
  BY <1>3, <1>4, <1>5

-----------------------------------------------------------------------------
(* Where each action can happen *)

\* Where something that drives the loop is innermost, no guard is on the stack.
LEMMA LoopOnTop ==
  ASSUME IInv, stack # <<>>, TopFrame.kind \in LoopKinds
  PROVE  ~inHandler /\ ~inDelivery /\ ~inDispatch
<1>1. Len(stack) \in Nat \ {0} /\ Depth = 1..Len(stack)
  BY DEF IInv, TypeOK, Depth
<1>2. \A k \in LoopKinds : k \notin GuardKinds /\ k \notin StateKinds
  BY DEF LoopKinds, DriveKinds, GuardKinds, StateKinds
<1>3. StateKinds \subseteq GuardKinds
  BY DEF GuardKinds
<1>4. \A i \in Depth : i = Len(stack) \/ i < Len(stack)
  BY <1>1
<1>5. Len(stack) \in Depth /\ stack[Len(stack)].kind \in LoopKinds
  BY <1>1 DEF TopFrame
<1>6. \A i \in Depth : stack[i].kind \notin GuardKinds
  BY <1>2, <1>4, <1>5 DEF IInv, Shape, LoopNotDrivenInHandler
<1> QED
  BY <1>3, <1>6 DEF IInv, FlagsAgreeWithStack, HasFrame

\* A frame that holds the state is the only one: its number is known once one
\* is found.
LEMMA TheState ==
  ASSUME IInv, NEW i \in Depth, stack[i].kind \in StateKinds
  PROVE  /\ inDispatch /\ inDelivery /\ running
         /\ Users = {i}
<1>1. Users = {i}
  BY DEF IInv, Shape, StateNotAliased, Users
<1>2. inDispatch /\ inDelivery
  BY DEF IInv, FlagsAgreeWithStack, HasFrame
<1>3. running
  <2>1. PICK j \in 1..(i - 1) : stack[j].kind = "run"
    BY DEF IInv, Shape, LentInRun
  <2>2. j \in Depth
    BY <2>1 DEF IInv, TypeOK, Depth
  <2> QED
    BY <2>1, <2>2 DEF IInv, FlagsAgreeWithStack, HasFrame
<1> QED
  BY <1>1, <1>2, <1>3

-----------------------------------------------------------------------------
(* What pushing and popping a frame does to the invariant's parts *)

LEMMA Push ==
  ASSUME IInv, NEW k \in Kinds, stack' = Append(stack, NewFrame(k)),
         k = "run" => currentDisplay = NoDisplay
  PROVE  /\ stack' \in Seq(Frame)
         /\ Len(stack) \in Nat /\ Len(stack') = Len(stack) + 1
         /\ Depth = 1..Len(stack) /\ Depth' = 1..(Len(stack) + 1)
         /\ \A i \in Depth : stack'[i] = stack[i]
         /\ stack'[Len(stack) + 1].kind = k
         /\ Restores'
         /\ ForeignDepth' = IF k = "foreign" THEN ForeignDepth \cup {Len(stack) + 1}
                                             ELSE ForeignDepth
<1>1. stack \in Seq(Frame) /\ NewFrame(k) \in Frame
  BY DEF IInv, TypeOK, NewFrame, Frame
<1>2. /\ stack' \in Seq(Frame)
      /\ Len(stack) \in Nat /\ Len(stack') = Len(stack) + 1
      /\ Depth = 1..Len(stack) /\ Depth' = 1..(Len(stack) + 1)
      /\ \A i \in Depth : stack'[i] = stack[i]
      /\ stack'[Len(stack) + 1] = NewFrame(k)
  BY <1>1, PushFrame DEF Depth
<1>3. /\ NewFrame(k).kind = k
      /\ NewFrame(k).handler = inHandler
      /\ NewFrame(k).delivery = inDelivery
      /\ NewFrame(k).display = currentDisplay
  BY DEF NewFrame
<1>4. Restores'
  <2> SUFFICES ASSUME NEW i \in Depth'
               PROVE  /\ stack'[i].handler = (\E j \in 1..(i - 1) : stack'[j].kind \in GuardKinds)
                      /\ stack'[i].delivery = (\E j \in 1..(i - 1) : stack'[j].kind \in StateKinds)
                      /\ stack'[i].kind = "run" => stack'[i].display = NoDisplay
    BY DEF Restores
  <2>1. \A j \in 1..(i - 1) : stack'[j] = stack[j]
    BY <1>2
  <2>2. CASE i \in Depth
    <3>1. stack'[i] = stack[i]
      BY <2>2, <1>2
    <3>2. /\ stack[i].handler = (\E j \in 1..(i - 1) : stack[j].kind \in GuardKinds)
          /\ stack[i].delivery = (\E j \in 1..(i - 1) : stack[j].kind \in StateKinds)
          /\ stack[i].kind = "run" => stack[i].display = NoDisplay
      BY <2>2 DEF IInv, Restores
    <3> QED
      BY <2>1, <3>1, <3>2
  <2>3. CASE i = Len(stack) + 1
    <3>1. 1..(i - 1) = Depth
      BY <2>3, <1>2
    <3>2. /\ inHandler = (\E j \in 1..(i - 1) : stack[j].kind \in GuardKinds)
          /\ inDelivery = (\E j \in 1..(i - 1) : stack[j].kind \in StateKinds)
      BY <3>1 DEF IInv, FlagsAgreeWithStack, HasFrame
    <3> QED
      BY <3>2, <2>1, <2>3, <1>2, <1>3
  <2>4. i \in Depth \/ i = Len(stack) + 1
    BY <1>2
  <2> QED
    BY <2>2, <2>3, <2>4
<1>5. ForeignDepth' = IF k = "foreign" THEN ForeignDepth \cup {Len(stack) + 1}
                                       ELSE ForeignDepth
  BY <1>2, <1>3 DEF ForeignDepth
<1> QED
  BY <1>2, <1>3, <1>4, <1>5

\* After a push the frames of a set of kinds are the old ones and the new.
LEMMA PushHas ==
  ASSUME IInv, NEW k \in Kinds, stack' = Append(stack, NewFrame(k)),
         k = "run" => currentDisplay = NoDisplay
  PROVE  /\ HasFrame(GuardKinds)' = (inHandler \/ k \in GuardKinds)
         /\ HasFrame(StateKinds)' = (inDelivery \/ k \in StateKinds)
         /\ HasFrame({"run"})' = (running \/ k = "run")
<1>1. /\ Len(stack) \in Nat
      /\ Depth = 1..Len(stack) /\ Depth' = 1..(Len(stack) + 1)
      /\ \A i \in Depth : stack'[i] = stack[i]
      /\ stack'[Len(stack) + 1].kind = k
  BY Push
<1>2. /\ inHandler = \E i \in Depth : stack[i].kind \in GuardKinds
      /\ inDelivery = \E i \in Depth : stack[i].kind \in StateKinds
      /\ running = \E i \in Depth : stack[i].kind \in {"run"}
  BY DEF IInv, FlagsAgreeWithStack, HasFrame
<1>3. (\E i \in Depth' : stack'[i].kind \in GuardKinds) <=> (inHandler \/ k \in GuardKinds)
  BY <1>1, <1>2
<1>4. (\E i \in Depth' : stack'[i].kind \in StateKinds) <=> (inDelivery \/ k \in StateKinds)
  BY <1>1, <1>2
<1>5. (\E i \in Depth' : stack'[i].kind \in {"run"}) <=> (running \/ k = "run")
  BY <1>1, <1>2
<1> QED
  BY <1>3, <1>4, <1>5 DEF HasFrame

\* A push that heeds the entry points' checks keeps the shape.
LEMMA PushShape ==
  ASSUME IInv, NEW k \in Kinds, stack' = Append(stack, NewFrame(k)),
         k = "run" => currentDisplay = NoDisplay /\ ~running,
         k \in LoopKinds => ~inHandler,
         k \in StateKinds => ~inDelivery /\ running
  PROVE  Shape'
<1>1. /\ Len(stack) \in Nat /\ Depth = 1..Len(stack) /\ Depth' = 1..(Len(stack) + 1)
      /\ \A i \in Depth : stack'[i] = stack[i]
      /\ stack'[Len(stack) + 1].kind = k
  BY Push
<1>2. \A i \in Depth' : i \in Depth \/ i = Len(stack) + 1
  BY <1>1
<1>3. /\ ~inHandler => \A i \in Depth : stack[i].kind \notin GuardKinds
      /\ ~inDelivery => \A i \in Depth : stack[i].kind \notin StateKinds
      /\ running <=> \E i \in Depth : stack[i].kind = "run"
  BY DEF IInv, FlagsAgreeWithStack, HasFrame
<1>4. StateNotAliased'
  BY <1>1, <1>2, <1>3 DEF IInv, Shape, StateNotAliased
<1>5. LoopNotDrivenInHandler'
  <2> SUFFICES ASSUME NEW i \in Depth', NEW j \in Depth', i < j,
                      stack'[i].kind \in GuardKinds, stack'[j].kind \in LoopKinds
               PROVE  FALSE
    BY DEF LoopNotDrivenInHandler
  <2>1. i \in Depth
    BY <1>1
  <2>2. CASE j \in Depth
    BY <1>1, <2>1, <2>2 DEF IInv, Shape, LoopNotDrivenInHandler
  <2>3. CASE j = Len(stack) + 1
    BY <1>1, <1>3, <2>1, <2>3
  <2> QED
    BY <1>2, <2>2, <2>3
<1>6. OneRun'
  BY <1>1, <1>2, <1>3 DEF IInv, Shape, OneRun
<1>7. LentInRun'
  <2> SUFFICES ASSUME NEW i \in Depth', stack'[i].kind \in StateKinds
               PROVE  \E j \in 1..(i - 1) : stack'[j].kind = "run"
    BY DEF LentInRun
  <2>1. CASE i \in Depth
    <3>1. PICK j \in 1..(i - 1) : stack[j].kind = "run"
      BY <1>1, <2>1 DEF IInv, Shape, LentInRun
    <3>2. j \in Depth
      BY <1>1, <2>1
    <3> QED
      BY <1>1, <3>1, <3>2
  <2>2. CASE i = Len(stack) + 1
    <3>1. PICK j \in Depth : stack[j].kind = "run"
      BY <1>1, <1>3, <2>2
    <3>2. j \in 1..(i - 1)
      BY <1>1, <2>2
    <3> QED
      BY <1>1, <3>1, <3>2
  <2> QED
    BY <1>2, <2>1, <2>2
<1> QED
  BY <1>4, <1>5, <1>6, <1>7 DEF Shape

\* After a pop the frames of a kind are those the popped frame had saved.
LEMMA Pop ==
  ASSUME IInv, stack # <<>>, stack' = Below
  PROVE  /\ stack' \in Seq(Frame)
         /\ Len(stack) \in Nat \ {0} /\ Len(stack') = Len(stack) - 1
         /\ Depth = 1..Len(stack) /\ Depth' = 1..(Len(stack) - 1)
         /\ \A i \in Depth' : stack'[i] = stack[i]
         /\ Restores'
         /\ Shape'
         /\ TopFrame.handler \in BOOLEAN /\ TopFrame.delivery \in BOOLEAN
         /\ TopFrame.handler = HasFrame(GuardKinds)'
         /\ TopFrame.delivery = HasFrame(StateKinds)'
         /\ TopFrame.kind # "run" => HasFrame({"run"})' = running
         /\ ForeignDepth' = ForeignDepth \ {Len(stack)}
<1>1. /\ stack' \in Seq(Frame)
      /\ Len(stack) \in Nat \ {0} /\ Len(stack') = Len(stack) - 1
      /\ Depth = 1..Len(stack) /\ Depth' = 1..(Len(stack) - 1)
      /\ \A i \in Depth' : stack'[i] = stack[i]
  BY PopFrame DEF IInv, TypeOK, Below, Depth
<1>2. Restores'
  <2> SUFFICES ASSUME NEW i \in Depth'
               PROVE  /\ stack'[i].handler = (\E j \in 1..(i - 1) : stack'[j].kind \in GuardKinds)
                      /\ stack'[i].delivery = (\E j \in 1..(i - 1) : stack'[j].kind \in StateKinds)
                      /\ stack'[i].kind = "run" => stack'[i].display = NoDisplay
    BY DEF Restores
  <2>1. stack'[i] = stack[i] /\ \A j \in 1..(i - 1) : stack'[j] = stack[j]
    BY <1>1
  <2>2. i \in Depth
    BY <1>1
  <2>3. /\ stack[i].handler = (\E j \in 1..(i - 1) : stack[j].kind \in GuardKinds)
        /\ stack[i].delivery = (\E j \in 1..(i - 1) : stack[j].kind \in StateKinds)
        /\ stack[i].kind = "run" => stack[i].display = NoDisplay
    BY <2>2 DEF IInv, Restores
  <2> QED
    BY <2>1, <2>3
<1>3. Shape'
  <2>1. Depth' \subseteq Depth
    BY <1>1
  <2>2. StateNotAliased' /\ LoopNotDrivenInHandler' /\ OneRun'
    BY <1>1, <2>1 DEF IInv, Shape, StateNotAliased, LoopNotDrivenInHandler, OneRun
  <2>3. LentInRun'
    <3> SUFFICES ASSUME NEW i \in Depth', stack'[i].kind \in StateKinds
                 PROVE  \E j \in 1..(i - 1) : stack'[j].kind = "run"
      BY DEF LentInRun
    <3>1. PICK j \in 1..(i - 1) : stack[j].kind = "run"
      BY <1>1, <2>1 DEF IInv, Shape, LentInRun
    <3>2. j \in Depth'
      BY <1>1
    <3> QED
      BY <1>1, <3>1, <3>2
  <2> QED
    BY <2>2, <2>3 DEF Shape
<1>4. TopFrame.handler \in BOOLEAN /\ TopFrame.delivery \in BOOLEAN
  BY <1>1, FrameAt DEF IInv, TypeOK, TopFrame, Depth
<1>5. Len(stack) \in Depth
  BY <1>1
<1>6. /\ TopFrame.handler = HasFrame(GuardKinds)'
      /\ TopFrame.delivery = HasFrame(StateKinds)'
  BY <1>1, <1>5 DEF IInv, Restores, HasFrame, TopFrame
<1>7. TopFrame.kind # "run" => HasFrame({"run"})' = running
  BY <1>1, <1>5 DEF IInv, FlagsAgreeWithStack, HasFrame, TopFrame
<1>8. ForeignDepth' = ForeignDepth \ {Len(stack)}
  BY <1>1 DEF ForeignDepth
<1> QED
  BY <1>1, <1>2, <1>3, <1>4, <1>6, <1>7, <1>8

\* Popping what drives the loop takes no guard away.
LEMMA PopLoop ==
  ASSUME IInv, stack # <<>>, stack' = Below, TopFrame.kind \in LoopKinds
  PROVE  /\ HasFrame(GuardKinds)' = inHandler
         /\ HasFrame(StateKinds)' = inDelivery
         /\ TopFrame.kind = "run" => HasFrame({"run"})' = FALSE
         /\ ForeignDepth' = ForeignDepth
<1>1. ~inHandler /\ ~inDelivery
  BY LoopOnTop
<1>2. /\ Len(stack) \in Nat \ {0}
      /\ Depth = 1..Len(stack) /\ Depth' = 1..(Len(stack) - 1)
      /\ \A i \in Depth' : stack'[i] = stack[i]
      /\ ForeignDepth' = ForeignDepth \ {Len(stack)}
  BY Pop
<1>3. /\ \A i \in Depth : stack[i].kind \notin GuardKinds
      /\ \A i \in Depth : stack[i].kind \notin StateKinds
  BY <1>1 DEF IInv, FlagsAgreeWithStack, HasFrame
<1>4. HasFrame(GuardKinds)' = FALSE /\ HasFrame(StateKinds)' = FALSE
  BY <1>2, <1>3 DEF HasFrame
<1>5. ASSUME TopFrame.kind = "run" PROVE HasFrame({"run"})' = FALSE
  <2>1. Len(stack) \in Depth /\ stack[Len(stack)].kind = "run"
    BY <1>2, <1>5 DEF TopFrame
  <2>2. \A i \in Depth' : i \in Depth /\ i # Len(stack)
    BY <1>2
  <2> QED
    BY <1>2, <2>1, <2>2 DEF IInv, Shape, OneRun, HasFrame
<1>6. ForeignDepth' = ForeignDepth
  <2>1. Len(stack) \notin ForeignDepth
    BY DEF ForeignDepth, TopFrame, LoopKinds, DriveKinds
  <2> QED
    BY <1>2, <2>1
<1> QED
  BY <1>1, <1>4, <1>5, <1>6 DEF IInv, TypeOK

\* Dropping the guard of the frame that holds the state restores the flags.
LEMMA DropGuardInv ==
  ASSUME IInv, stack # <<>>, TopFrame.kind \in StateKinds, stack' = Below,
         DropHandlerGuard, UNCHANGED <<foreignFrames, currentDisplay, running>>
  PROVE  /\ stack' \in Seq(Frame)
         /\ inHandler' \in BOOLEAN /\ inDelivery' \in BOOLEAN /\ inDispatch' \in BOOLEAN
         /\ Restores' /\ Shape' /\ ForeignCounted'
         /\ FlagsAgreeWithStack' /\ PinnedOnlyInRun'
<1>1. /\ stack' \in Seq(Frame) /\ Restores' /\ Shape'
      /\ Len(stack) \in Nat \ {0}
      /\ Depth = 1..Len(stack) /\ Depth' = 1..(Len(stack) - 1)
      /\ \A i \in Depth' : stack'[i] = stack[i]
      /\ TopFrame.handler \in BOOLEAN /\ TopFrame.delivery \in BOOLEAN
      /\ TopFrame.handler = HasFrame(GuardKinds)'
      /\ TopFrame.delivery = HasFrame(StateKinds)'
      /\ TopFrame.kind # "run" => HasFrame({"run"})' = running
      /\ ForeignDepth' = ForeignDepth \ {Len(stack)}
  BY Pop
<1>2. TopFrame.kind # "run" /\ TopFrame.kind # "foreign"
  BY DEF StateKinds
<1>3. HasFrame(StateKinds)' = FALSE
  <2>1. Len(stack) \in Depth /\ stack[Len(stack)].kind \in StateKinds
    BY <1>1 DEF TopFrame
  <2>2. \A i \in Depth' : i \in Depth /\ i # Len(stack)
    BY <1>1
  <2> QED
    BY <1>1, <2>1, <2>2 DEF IInv, Shape, StateNotAliased, HasFrame
<1>4. ForeignCounted'
  <2>1. ForeignDepth' = ForeignDepth
    BY <1>1, <1>2 DEF ForeignDepth, TopFrame
  <2> QED
    BY <2>1 DEF IInv, ForeignCounted
<1>5. inHandler' = TopFrame.handler /\ inDelivery' = TopFrame.delivery /\ inDispatch' = FALSE
  BY DEF DropHandlerGuard
<1>6. FlagsAgreeWithStack'
  BY <1>1, <1>2, <1>3, <1>5 DEF FlagsAgreeWithStack
<1>7. PinnedOnlyInRun'
  BY DEF IInv, PinnedOnlyInRun
<1> QED
  BY <1>1, <1>4, <1>5, <1>6, <1>7

-----------------------------------------------------------------------------
(* The invariant is inductive *)

LEMMA InitInv == Init => IInv
<1> SUFFICES ASSUME Init PROVE IInv
  OBVIOUS
<1> USE DEF Init
<1>1. Depth = {}
  BY DEF Depth
<1>2. TypeOK
  <2>1. stack \in Seq(Frame) /\ deferred \in Seq(1..MaxEvents) /\ log \in Seq(1..MaxEvents)
    OBVIOUS
  <2>2. foreignFrames \in 0..MaxForeign /\ emitted \in 0..MaxEvents
    BY DispatchAssumption
  <2> QED
    BY <2>1, <2>2 DEF TypeOK, Phases
<1>3. Restores /\ Shape
  BY <1>1 DEF Restores, Shape, StateNotAliased, LoopNotDrivenInHandler, OneRun, LentInRun
<1>4. ForeignCounted
  BY <1>1, FS_EmptySet DEF ForeignCounted, ForeignDepth
<1>5. FlagsAgreeWithStack /\ PinnedOnlyInRun
  BY <1>1 DEF FlagsAgreeWithStack, HasFrame, PinnedOnlyInRun
<1> QED
  BY <1>2, <1>3, <1>4, <1>5 DEF IInv

\* A step that leaves the stack and its flags alone keeps all but the type.
LEMMA SameStack ==
  ASSUME IInv, UNCHANGED Kept
  PROVE  /\ Restores' /\ Shape' /\ ForeignCounted'
         /\ FlagsAgreeWithStack' /\ PinnedOnlyInRun'
<1> USE DEF Kept, flags
<1>1. Restores' /\ Shape'
  BY DEF IInv, Restores, Shape, StateNotAliased, LoopNotDrivenInHandler, OneRun, LentInRun, Depth
<1>2. ForeignCounted'
  BY DEF IInv, ForeignCounted, ForeignDepth, Depth
<1>3. FlagsAgreeWithStack' /\ PinnedOnlyInRun'
  BY DEF IInv, FlagsAgreeWithStack, HasFrame, Depth, PinnedOnlyInRun
<1> QED
  BY <1>1, <1>2, <1>3

\* An event can be emitted and queued, or emitted and handed over.
LEMMA EmitTypes ==
  ASSUME TypeOK, CanEmit, emitted' = emitted + 1
  PROVE  /\ emitted' \in 0..MaxEvents
         /\ Append(deferred, emitted') \in Seq(1..MaxEvents)
         /\ Append(log, emitted') \in Seq(1..MaxEvents)
<1>1. emitted \in Nat /\ emitted < MaxEvents
  BY DispatchAssumption DEF TypeOK, CanEmit
<1>2. emitted' \in 1..MaxEvents
  BY <1>1, DispatchAssumption
<1> QED
  BY <1>2 DEF TypeOK

LEMMA EmitDeferredInv == IInv /\ EmitDeferred => IInv'
<1> SUFFICES ASSUME IInv, EmitDeferred PROVE IInv'
  OBVIOUS
<1>1. UNCHANGED Kept
  BY DEF EmitDeferred, Kept, runVars
<1>2. TypeOK'
  BY EmitTypes DEF IInv, TypeOK, EmitDeferred, flags, runVars
<1> QED
  BY <1>1, <1>2, SameStack DEF IInv

\* Entering a handler frame in a run whose state is not lent keeps the
\* invariant.
LEMMA EnterGuardInv ==
  ASSUME IInv, NEW k \in StateKinds, running, ~inDispatch, EnterHandlerGuard(k),
         UNCHANGED <<foreignFrames, currentDisplay, running>>
  PROVE  /\ stack' \in Seq(Frame)
         /\ Restores' /\ Shape' /\ ForeignCounted'
         /\ FlagsAgreeWithStack' /\ PinnedOnlyInRun'
<1>1. k \in Kinds /\ k # "run" /\ k # "foreign" /\ k \notin LoopKinds
      /\ k \in GuardKinds /\ k \in StateKinds
  BY DEF StateKinds, Kinds, LoopKinds, DriveKinds, GuardKinds
<1>2. stack' = Append(stack, NewFrame(k))
  BY DEF EnterHandlerGuard
<1>3. /\ stack' \in Seq(Frame)
      /\ Restores' /\ ForeignDepth' = ForeignDepth
  BY <1>1, <1>2, Push
<1>4. ~inDelivery
  BY DEF IInv, FlagsAgreeWithStack
<1>5. Shape'
  BY <1>1, <1>2, <1>4, PushShape
<1>6. ForeignCounted'
  BY <1>3 DEF IInv, ForeignCounted
<1>7. FlagsAgreeWithStack'
  <2>1. /\ HasFrame(GuardKinds)' = TRUE
        /\ HasFrame(StateKinds)' = TRUE
        /\ HasFrame({"run"})' = TRUE
    BY <1>1, <1>2, PushHas
  <2>2. inHandler' = TRUE /\ inDelivery' = TRUE /\ inDispatch' = TRUE /\ running' = TRUE
    BY DEF EnterHandlerGuard, IInv, TypeOK
  <2> QED
    BY <2>1, <2>2 DEF FlagsAgreeWithStack
<1>8. PinnedOnlyInRun'
  BY DEF IInv, PinnedOnlyInRun
<1> QED
  BY <1>3, <1>5, <1>6, <1>7, <1>8

LEMMA EmitNowInv == IInv /\ EmitNow => IInv'
<1> SUFFICES ASSUME IInv, EmitNow PROVE IInv'
  OBVIOUS
<1>1. "deliver" \in StateKinds
  BY DEF StateKinds
<1>2. /\ stack' \in Seq(Frame)
      /\ Restores' /\ Shape' /\ ForeignCounted'
      /\ FlagsAgreeWithStack' /\ PinnedOnlyInRun'
  BY <1>1, EnterGuardInv DEF EmitNow, CanEmit, runVars
<1>3. TypeOK'
  BY <1>2, EmitTypes DEF IInv, TypeOK, EmitNow, EnterHandlerGuard, runVars
<1> QED
  BY <1>2, <1>3 DEF IInv

LEMMA AskStopInv == IInv /\ AskStop => IInv'
<1> SUFFICES ASSUME IInv, AskStop PROVE IInv'
  OBVIOUS
<1>1. stack # <<>> /\ TopFrame.kind = "run"
  BY DEF AskStop, TopIs
<1>2. running /\ ~inDispatch
  <2>1. Len(stack) \in Depth
    BY <1>1 DEF IInv, TypeOK, Depth
  <2>2. running
    BY <1>1, <2>1 DEF IInv, FlagsAgreeWithStack, HasFrame, TopFrame
  <2> QED
    BY <1>1, <2>2, LoopOnTop DEF LoopKinds
<1>3. /\ stack' \in Seq(Frame)
      /\ Restores' /\ Shape' /\ ForeignCounted'
      /\ FlagsAgreeWithStack' /\ PinnedOnlyInRun'
  BY <1>2, EnterGuardInv DEF AskStop, StateKinds, runVars
<1>4. TypeOK'
  BY <1>3 DEF IInv, TypeOK, AskStop, EnterHandlerGuard, runVars
<1> QED
  BY <1>3, <1>4 DEF IInv

LEMMA HandlerReturnInv == IInv /\ HandlerReturn => IInv'
<1> SUFFICES ASSUME IInv, HandlerReturn PROVE IInv'
  OBVIOUS
<1>1. CASE deferred # <<>> /\ log' = Append(log, Head(deferred))
           /\ deferred' = Tail(deferred) /\ UNCHANGED <<stack, flags, inDispatch>>
  <2>1. UNCHANGED Kept
    BY <1>1 DEF HandlerReturn, Kept, runVars
  <2>2. TypeOK'
    <3>1. /\ Head(deferred) \in 1..MaxEvents
          /\ Tail(deferred) \in Seq(1..MaxEvents)
      <4>1. deferred \in Seq(1..MaxEvents) /\ deferred # <<>>
        BY <1>1 DEF IInv, TypeOK
      <4> QED
        BY <4>1, HeadTailProperties
    <3>2. deferred' \in Seq(1..MaxEvents) /\ log' \in Seq(1..MaxEvents)
      BY <1>1, <3>1 DEF IInv, TypeOK
    <3> QED
      BY <1>1, <3>2 DEF HandlerReturn, IInv, TypeOK, flags, runVars
  <2> QED
    BY <2>1, <2>2, SameStack DEF IInv
<1>2. CASE deferred = <<>> /\ stack' = Below /\ DropHandlerGuard
           /\ UNCHANGED <<foreignFrames, deferred, log>>
  <2>1. stack # <<>> /\ TopFrame.kind \in StateKinds
    BY DEF HandlerReturn, TopIs, StateKinds
  <2>2. /\ stack' \in Seq(Frame)
        /\ inHandler' \in BOOLEAN /\ inDelivery' \in BOOLEAN /\ inDispatch' \in BOOLEAN
        /\ Restores' /\ Shape' /\ ForeignCounted'
        /\ FlagsAgreeWithStack' /\ PinnedOnlyInRun'
    BY <1>2, <2>1, DropGuardInv DEF HandlerReturn, runVars
  <2>3. TypeOK'
    BY <1>2, <2>2 DEF IInv, TypeOK, HandlerReturn, runVars
  <2> QED
    BY <2>2, <2>3 DEF IInv
<1> QED
  BY <1>1, <1>2 DEF HandlerReturn

\* A foreign frame can go on top of anything, a dispatch included.
LEMMA PushForeignInv == IInv /\ PushForeign => IInv'
<1> SUFFICES ASSUME IInv, PushForeign PROVE IInv'
  OBVIOUS
<1> DEFINE k == "foreign"
<1>1. k \in Kinds /\ k # "run" /\ k \notin LoopKinds /\ k \in GuardKinds /\ k \notin StateKinds
  BY DEF StateKinds, Kinds, LoopKinds, DriveKinds, GuardKinds
<1>2. stack' = Append(stack, NewFrame(k))
  BY DEF PushForeign
<1>3. /\ stack' \in Seq(Frame) /\ Len(stack) \in Nat
      /\ Depth = 1..Len(stack)
      /\ Restores' /\ ForeignDepth' = ForeignDepth \cup {Len(stack) + 1}
  BY <1>1, <1>2, Push
<1>4. Shape'
  BY <1>1, <1>2, PushShape
<1>5. foreignFrames' = foreignFrames + 1 /\ foreignFrames' \in 0..MaxForeign
  BY DispatchAssumption DEF PushForeign, IInv, TypeOK
<1>6. ForeignCounted'
  <2>1. IsFiniteSet(ForeignDepth) /\ Len(stack) + 1 \notin ForeignDepth
    BY <1>3, ForeignFinite DEF IInv, TypeOK, ForeignDepth
  <2>2. Cardinality(ForeignDepth \cup {Len(stack) + 1}) = Cardinality(ForeignDepth) + 1
    BY <2>1, FS_AddElement
  <2> QED
    BY <2>2, <1>3, <1>5 DEF IInv, ForeignCounted
<1>7. FlagsAgreeWithStack'
  <2>1. /\ HasFrame(GuardKinds)' = TRUE
        /\ HasFrame(StateKinds)' = inDelivery
        /\ HasFrame({"run"})' = running
    BY <1>1, <1>2, PushHas DEF IInv, TypeOK
  <2> QED
    BY <2>1 DEF FlagsAgreeWithStack, PushForeign, IInv, runVars, queueVars
<1>8. PinnedOnlyInRun'
  BY DEF IInv, PinnedOnlyInRun, PushForeign, runVars
<1>9. TypeOK'
  BY <1>3, <1>5 DEF IInv, TypeOK, PushForeign, runVars, queueVars
<1> QED
  BY <1>3, <1>4, <1>6, <1>7, <1>8, <1>9 DEF IInv

LEMMA LeaveForeignInv == IInv /\ LeaveForeign => IInv'
<1> SUFFICES ASSUME IInv, LeaveForeign PROVE IInv'
  OBVIOUS
<1>1. stack # <<>> /\ TopFrame.kind = "foreign" /\ stack' = Below
  BY DEF LeaveForeign, TopIs
<1>2. /\ stack' \in Seq(Frame) /\ Restores' /\ Shape'
      /\ Depth = 1..Len(stack) /\ Len(stack) \in Depth
      /\ Depth' = 1..(Len(stack) - 1) /\ \A i \in Depth' : stack'[i] = stack[i]
      /\ TopFrame.handler \in BOOLEAN
      /\ TopFrame.handler = HasFrame(GuardKinds)'
      /\ TopFrame.delivery = HasFrame(StateKinds)'
      /\ HasFrame({"run"})' = running
      /\ ForeignDepth' = ForeignDepth \ {Len(stack)}
  BY <1>1, Pop
<1>3. HasFrame(StateKinds)' = HasFrame(StateKinds)
  <2>1. stack[Len(stack)].kind \notin StateKinds
    BY <1>1 DEF TopFrame, StateKinds
  <2>2. /\ \A i \in Depth : i \in Depth' \/ i = Len(stack)
        /\ \A i \in Depth' : i \in Depth /\ stack'[i] = stack[i]
    BY <1>2
  <2>3. (\E i \in Depth' : stack'[i].kind \in StateKinds)
          <=> (\E i \in Depth : stack[i].kind \in StateKinds)
    BY <2>1, <2>2, Zenon
  <2> QED
    BY <2>3 DEF HasFrame
<1>4. FlagsAgreeWithStack'
  BY <1>2, <1>3 DEF IInv, FlagsAgreeWithStack, LeaveForeign, runVars, queueVars
<1>5. Len(stack) \in ForeignDepth
  BY <1>1, <1>2 DEF ForeignDepth, TopFrame
<1>6. ForeignCounted' /\ foreignFrames' \in 0..MaxForeign
  <2>1. /\ IsFiniteSet(ForeignDepth) /\ Cardinality(ForeignDepth) \in Nat
        /\ Cardinality(ForeignDepth) > 0
    BY <1>5, ForeignFinite DEF IInv, TypeOK
  <2>2. Cardinality(ForeignDepth \ {Len(stack)}) = Cardinality(ForeignDepth) - 1
    BY <2>1, <1>5, FS_RemoveElement
  <2>3. foreignFrames' = foreignFrames - 1
    BY DEF LeaveForeign
  <2> QED
    BY <2>1, <2>2, <2>3, <1>2, DispatchAssumption DEF IInv, ForeignCounted, TypeOK
<1>7. PinnedOnlyInRun'
  BY DEF IInv, PinnedOnlyInRun, LeaveForeign, runVars
<1>8. TypeOK'
  BY <1>1, <1>2, <1>6 DEF IInv, TypeOK, LeaveForeign, runVars, queueVars
<1> QED
  BY <1>2, <1>4, <1>6, <1>7, <1>8 DEF IInv

\* What drives the loop goes on top only while no guard is on the stack.
LEMMA PushLoop ==
  ASSUME IInv, ~inHandler, NEW k \in LoopKinds,
         stack' = Append(stack, NewFrame(k)),
         k = "run" => currentDisplay = NoDisplay /\ ~running
  PROVE  /\ stack' \in Seq(Frame) /\ Restores' /\ Shape'
         /\ HasFrame(GuardKinds)' = inHandler
         /\ HasFrame(StateKinds)' = inDelivery
         /\ HasFrame({"run"})' = (running \/ k = "run")
         /\ ForeignDepth' = ForeignDepth
<1>1. k \in Kinds /\ k # "foreign" /\ k \notin GuardKinds /\ k \notin StateKinds
  BY DEF StateKinds, Kinds, LoopKinds, DriveKinds, GuardKinds
<1>2. stack' \in Seq(Frame) /\ Restores' /\ ForeignDepth' = ForeignDepth
  BY <1>1, Push
<1>3. Shape'
  BY <1>1, PushShape
<1>4. /\ HasFrame(GuardKinds)' = inHandler
      /\ HasFrame(StateKinds)' = inDelivery
      /\ HasFrame({"run"})' = (running \/ k = "run")
  BY <1>1, PushHas DEF IInv, TypeOK
<1> QED
  BY <1>2, <1>3, <1>4

LEMMA DriveLoopInv == ASSUME NEW k \in DriveKinds
                      PROVE  IInv /\ DriveLoop(k) => IInv'
<1> SUFFICES ASSUME IInv, DriveLoop(k) PROVE IInv'
  OBVIOUS
<1>1. k \in LoopKinds /\ k # "run"
  BY DEF LoopKinds, DriveKinds
<1>2. /\ stack' \in Seq(Frame) /\ Restores' /\ Shape'
      /\ HasFrame(GuardKinds)' = inHandler
      /\ HasFrame(StateKinds)' = inDelivery
      /\ HasFrame({"run"})' = running
      /\ ForeignDepth' = ForeignDepth
  BY <1>1, PushLoop DEF DriveLoop, IInv, TypeOK
<1>3. FlagsAgreeWithStack' /\ ForeignCounted' /\ PinnedOnlyInRun'
  BY <1>2 DEF IInv, FlagsAgreeWithStack, ForeignCounted, PinnedOnlyInRun,
              DriveLoop, flags, runVars, queueVars
<1>4. TypeOK'
  BY <1>2 DEF IInv, TypeOK, DriveLoop, flags, runVars, queueVars
<1> QED
  BY <1>2, <1>3, <1>4 DEF IInv

LEMMA RunStartInv == ASSUME NEW d \in Displays \cup {NoDisplay}
                     PROVE  IInv /\ RunStart(d) => IInv'
<1> SUFFICES ASSUME IInv, RunStart(d) PROVE IInv'
  OBVIOUS
<1>1. /\ stack' \in Seq(Frame) /\ Restores' /\ Shape'
      /\ HasFrame(GuardKinds)' = inHandler
      /\ HasFrame(StateKinds)' = inDelivery
      /\ HasFrame({"run"})' = TRUE
      /\ ForeignDepth' = ForeignDepth
  BY PushLoop DEF RunStart, LoopKinds, IInv, PinnedOnlyInRun
<1>2. FlagsAgreeWithStack' /\ ForeignCounted' /\ PinnedOnlyInRun'
  BY <1>1 DEF IInv, FlagsAgreeWithStack, ForeignCounted, PinnedOnlyInRun,
              RunStart, flags, queueVars
<1>3. TypeOK'
  BY <1>1 DEF IInv, TypeOK, RunStart, PinDisplay, flags, queueVars, Phases
<1> QED
  BY <1>1, <1>2, <1>3 DEF IInv

LEMMA LoopReturnInv == IInv /\ LoopReturn => IInv'
<1> SUFFICES ASSUME IInv, LoopReturn PROVE IInv'
  OBVIOUS
<1>1. stack # <<>> /\ TopFrame.kind \in DriveKinds /\ stack' = Below
  BY DEF LoopReturn, TopIs
<1>2. TopFrame.kind \in LoopKinds /\ TopFrame.kind # "run"
  BY <1>1 DEF LoopKinds, DriveKinds
<1>3. /\ stack' \in Seq(Frame) /\ Restores' /\ Shape'
      /\ HasFrame({"run"})' = running
  BY <1>1, <1>2, Pop
<1>4. /\ HasFrame(GuardKinds)' = inHandler
      /\ HasFrame(StateKinds)' = inDelivery
      /\ ForeignDepth' = ForeignDepth
  BY <1>1, <1>2, PopLoop
<1>5. FlagsAgreeWithStack' /\ ForeignCounted' /\ PinnedOnlyInRun'
  BY <1>3, <1>4 DEF IInv, FlagsAgreeWithStack, ForeignCounted, PinnedOnlyInRun,
                    LoopReturn, flags, runVars, queueVars
<1>6. TypeOK'
  BY <1>3 DEF IInv, TypeOK, LoopReturn, flags, runVars, queueVars
<1> QED
  BY <1>3, <1>5, <1>6 DEF IInv

LEMMA AdvanceInv ==
  ASSUME NEW from \in Phases, NEW to \in Phases
  PROVE  IInv /\ Advance(from, to) => IInv'
<1> SUFFICES ASSUME IInv, Advance(from, to) PROVE IInv'
  OBVIOUS
<1>1. UNCHANGED Kept
  BY DEF Advance, Kept, queueVars
<1>2. TypeOK'
  BY DEF Advance, IInv, TypeOK, flags, queueVars
<1> QED
  BY <1>1, <1>2, SameStack DEF IInv

LEMMA RunReturnInv == IInv /\ RunReturn => IInv'
<1> SUFFICES ASSUME IInv, RunReturn PROVE IInv'
  OBVIOUS
<1>1. stack # <<>> /\ TopFrame.kind = "run" /\ stack' = Below /\ "run" \in LoopKinds
  BY DEF RunReturn, TopIs, LoopKinds
<1>2. stack' \in Seq(Frame) /\ Restores' /\ Shape'
  BY <1>1, Pop
<1>3. /\ HasFrame(GuardKinds)' = inHandler
      /\ HasFrame(StateKinds)' = inDelivery
      /\ HasFrame({"run"})' = FALSE
      /\ ForeignDepth' = ForeignDepth
  BY <1>1, PopLoop
<1>4. TopFrame.display = NoDisplay
  <2>1. Len(stack) \in Depth
    BY <1>1 DEF IInv, TypeOK, Depth
  <2> QED
    BY <1>1, <2>1 DEF IInv, Restores, TopFrame
<1>5. FlagsAgreeWithStack' /\ ForeignCounted' /\ PinnedOnlyInRun'
  BY <1>3, <1>4 DEF IInv, FlagsAgreeWithStack, ForeignCounted, PinnedOnlyInRun,
                    RunReturn, flags
<1>6. TypeOK'
  <2>1. deferred' \in Seq(1..MaxEvents)
    BY DEF RunReturn
  <2> QED
    BY <1>2, <1>4, <2>1 DEF IInv, TypeOK, RunReturn, flags, Phases
<1> QED
  BY <1>2, <1>5, <1>6 DEF IInv

LEMMA StopReturnInv ==
  ASSUME NEW stop \in BOOLEAN
  PROVE  IInv /\ StopReturn(stop) => IInv'
<1> SUFFICES ASSUME IInv, StopReturn(stop) PROVE IInv'
  OBVIOUS
<1>1. stack # <<>> /\ TopFrame.kind \in StateKinds
  BY DEF StopReturn, TopIs, StateKinds
<1>2. /\ stack' \in Seq(Frame)
      /\ inHandler' \in BOOLEAN /\ inDelivery' \in BOOLEAN /\ inDispatch' \in BOOLEAN
      /\ Restores' /\ Shape' /\ ForeignCounted'
      /\ FlagsAgreeWithStack' /\ PinnedOnlyInRun'
  BY <1>1, DropGuardInv DEF StopReturn
<1>3. TypeOK'
  <2>1. phase' \in Phases
    BY DEF StopReturn, Phases
  <2> QED
    BY <1>2, <2>1 DEF IInv, TypeOK, StopReturn
<1> QED
  BY <1>2, <1>3 DEF IInv

LEMMA NextInv == IInv /\ [Next]_vars => IInv'
<1> SUFFICES ASSUME IInv, [Next]_vars PROVE IInv'
  OBVIOUS
<1>1. CASE EmitDeferred
  BY <1>1, EmitDeferredInv
<1>2. CASE EmitNow
  BY <1>2, EmitNowInv
<1>3. CASE HandlerReturn
  BY <1>3, HandlerReturnInv
<1>4. CASE EnterForeign
  BY <1>4, PushForeignInv DEF EnterForeign
<1>5. CASE LeaveForeign
  BY <1>5, LeaveForeignInv
<1>6. CASE \E k \in DriveKinds : DriveLoop(k)
  BY <1>6, DriveLoopInv
<1>7. CASE LoopReturn
  BY <1>7, LoopReturnInv
<1>8. CASE \E d \in Displays \cup {NoDisplay} : RunStart(d)
  BY <1>8, RunStartInv
<1>9. CASE Started
  BY <1>9, AdvanceInv DEF Started, Phases
<1>10. CASE Dispatched
  BY <1>10, AdvanceInv DEF Dispatched, Phases
<1>11. CASE Flushed
  BY <1>11, AdvanceInv DEF Flushed, Phases
<1>12. CASE RunReturn
  BY <1>12, RunReturnInv
<1>13. CASE AskStop
  BY <1>13, AskStopInv
<1>14. CASE \E stop \in BOOLEAN : StopReturn(stop)
  BY <1>14, StopReturnInv
<1>15. CASE OnTimelineReady
  BY <1>15, PushForeignInv DEF OnTimelineReady
<1>16. CASE UNCHANGED vars
  <2>1. UNCHANGED Kept
    BY <1>16 DEF vars, Kept, flags, runVars, queueVars
  <2>2. TypeOK'
    BY <1>16 DEF IInv, TypeOK, vars, flags, runVars, queueVars
  <2> QED
    BY <2>1, <2>2, SameStack DEF IInv
<1> QED
  BY <1>1, <1>2, <1>3, <1>4, <1>5, <1>6, <1>7, <1>8, <1>9, <1>10, <1>11,
     <1>12, <1>13, <1>14, <1>15, <1>16 DEF Next

-----------------------------------------------------------------------------
(* Theorems *)

\* Every reachable state satisfies the inductive invariant: the guards
\* restore what they found, and frames are only where they can be.
THEOREM Invariant == Spec => []IInv
<1>1. Init => IInv
  BY InitInv
<1>2. IInv /\ [Next]_vars => IInv'
  BY NextInv
<1> QED
  BY <1>1, <1>2, PTL DEF Spec

\* Type correctness of dispatch.rs's thread-locals and queue.
THEOREM TypeCorrect == Spec => []TypeOK
<1>1. IInv => TypeOK
  BY DEF IInv
<1> QED
  BY <1>1, Invariant, PTL

\* `&mut S` is never aliased, for any number of events and any nesting of
\* closures: HandlerGuard::enter is reached only when no frame holds it.
THEOREM NoAliasing == Spec => []StateNotAliased
<1>1. IInv => StateNotAliased
  BY DEF IInv, Shape
<1> QED
  BY <1>1, Invariant, PTL

\* The in_handler check of EventLoop::dispatch, Display::flush_clients and
\* Backend::run_all keeps libwayland from being driven under a handler.
THEOREM LoopNotReentered == Spec => []LoopNotDrivenInHandler
<1>1. IInv => LoopNotDrivenInHandler
  BY DEF IInv, Shape
<1> QED
  BY <1>1, Invariant, PTL

\* in_handler, in_delivery, in_dispatch and RUNNING mean what their
\* documentation says in every reachable state, and DisplayPinGuard leaves no
\* display pinned when no run is on the stack.
THEOREM GuardsCorrect == Spec => []GuardsRestore
<1>1. IInv => GuardsRestore
  BY DEF IInv, GuardsRestore
<1> QED
  BY <1>1, Invariant, PTL
-----------------------------------------------------------------------------
(* Refinement.  The queue holds events in the order they were emitted, and *)
(* a handler runs only for an event that was handed over.                  *)

Ascending(s) == \A i, j \in DOMAIN s : i < j => s[i] < s[j]

InEmissionOrder ==
  /\ \A i \in DOMAIN deferred : deferred[i] <= emitted
  /\ Ascending(deferred)

HandlerHasEvent == HasFrame({"deliver"}) => log # <<>>

QInv == InEmissionOrder /\ HandlerHasEvent

\* No event is handed over twice, and none that was is still queued.
HandedOverOnce ==
  /\ Range(log) \subseteq 1..emitted
  /\ Range(log) \cap Range(deferred) = {}
  /\ IsInjective(log)

\* What Append does to the elements of a sequence, and to its last one.
LEMMA AppendEntries ==
  ASSUME NEW S, NEW s \in Seq(S), NEW e \in S, NEW t, t = Append(s, e)
  PROVE  /\ Range(t) = Range(s) \cup {e}
         /\ t # <<>> /\ t[Len(t)] = e
<1>1. /\ Len(s) \in Nat /\ DOMAIN s = 1..Len(s)
      /\ Len(t) = Len(s) + 1 /\ DOMAIN t = 1..(Len(s) + 1)
      /\ \A i \in 1..Len(s) : t[i] = s[i]
      /\ t[Len(s) + 1] = e
  OBVIOUS
<1>2. DOMAIN t = DOMAIN s \cup {Len(t)}
  BY <1>1
<1>3. \A x : x \in {t[i] : i \in DOMAIN t} <=> x \in {s[i] : i \in DOMAIN s} \cup {e}
  <2>1. ASSUME NEW x
        PROVE  (\E i \in DOMAIN t : x = t[i]) <=> ((\E i \in DOMAIN s : x = s[i]) \/ x = e)
    BY <1>1, <1>2
  <2> QED
    BY <2>1
<1> QED
  BY <1>1, <1>3 DEF Range

\* Taking the head off an ascending sequence takes its least element.
LEMMA TailEntries ==
  ASSUME NEW s \in Seq(Nat), s # <<>>, NEW t, t = Tail(s), NEW h, h = Head(s), Ascending(s)
  PROVE  /\ h \in Range(s)
         /\ \A e \in Range(s) : h <= e
         /\ Range(t) = Range(s) \ {h}
         /\ \A i \in DOMAIN t : i \in DOMAIN s /\ i + 1 \in DOMAIN s /\ t[i] = s[i + 1]
<1>1. Len(s) \in Nat \ {0} /\ DOMAIN s = 1..Len(s) /\ \A i \in 1..Len(s) : s[i] \in Nat
  OBVIOUS
<1>2. h = s[1]
  BY <1>1
<1>3. /\ DOMAIN t = 1..(Len(s) - 1)
      /\ \A i \in 1..(Len(s) - 1) : t[i] = s[i + 1]
  <2>1. t \in Seq(Nat) /\ Len(t) = Len(s) - 1 /\ \A i \in 1..Len(t) : t[i] = s[i + 1]
    BY HeadTailProperties
  <2> QED
    BY <2>1, <1>1
<1>4. ASSUME NEW i \in DOMAIN s, i # 1
      PROVE  i - 1 \in DOMAIN t /\ t[i - 1] = s[i] /\ s[1] < s[i]
  <2>1. 1 \in DOMAIN s /\ 1 < i
    BY <1>1, <1>4
  <2>2. s[1] < s[i]
    BY <2>1 DEF Ascending
  <2>3. i - 1 \in 1..(Len(s) - 1) /\ (i - 1) + 1 = i
    BY <1>1, <1>4
  <2> QED
    BY <2>2, <2>3, <1>3
<1>5. ASSUME NEW i \in DOMAIN t
      PROVE  i \in DOMAIN s /\ i + 1 \in DOMAIN s /\ t[i] = s[i + 1] /\ s[1] < s[i + 1]
  <2>1. i \in 1..(Len(s) - 1) /\ i \in DOMAIN s /\ i + 1 \in DOMAIN s /\ i + 1 # 1
    BY <1>1, <1>3
  <2>2. s[1] < s[i + 1]
    BY <2>1, <1>4
  <2> QED
    BY <2>1, <2>2, <1>3
<1>6. 1 \in DOMAIN s
  BY <1>1
<1>7. \A i \in DOMAIN s : s[1] <= s[i]
  BY <1>1, <1>4
<1>8. \A x : x \in {t[i] : i \in DOMAIN t} <=> x \in {s[i] : i \in DOMAIN s} \ {s[1]}
  <2>1. ASSUME NEW x, x \in {t[i] : i \in DOMAIN t}
        PROVE  x \in {s[i] : i \in DOMAIN s} \ {s[1]}
    <3>1. PICK i \in DOMAIN t : x = t[i]
      BY <2>1
    <3>2. i + 1 \in DOMAIN s /\ x = s[i + 1] /\ s[1] < s[i + 1]
      BY <3>1, <1>5
    <3>3. s[1] \in Nat /\ s[i + 1] \in Nat
      BY <3>2, <1>1
    <3> QED
      BY <3>2, <3>3
  <2>2. ASSUME NEW x, x \in {s[i] : i \in DOMAIN s} \ {s[1]}
        PROVE  x \in {t[i] : i \in DOMAIN t}
    <3>1. PICK i \in DOMAIN s : x = s[i] /\ i # 1
      BY <2>2
    <3> QED
      BY <3>1, <1>4
  <2> QED
    BY <2>1, <2>2
<1>9. Range(s) = {s[i] : i \in DOMAIN s} /\ Range(t) = {t[i] : i \in DOMAIN t}
  BY DEF Range
<1>10. h \in Range(s) /\ \A e \in Range(s) : h <= e
  BY <1>2, <1>6, <1>7, <1>9
<1>11. Range(t) = Range(s) \ {h}
  BY <1>2, <1>8, <1>9
<1> QED
  BY <1>5, <1>10, <1>11

\* Who uses S, by the flag and by the frame that holds it.
LEMMA NoUser ==
  ASSUME IInv, ~inDispatch
  PROVE  Users = {} /\ User = Nobody
<1>1. Users = {}
  BY DEF IInv, FlagsAgreeWithStack, HasFrame, Users
<1> QED
  BY <1>1 DEF User

LEMMA UserIs ==
  ASSUME IInv, NEW i \in Users
  PROVE  User = IF stack[i].kind = "stop" THEN Query ELSE log[Len(log)]
<1>1. Users = {i}
  BY TheState DEF Users
<1> QED
  BY <1>1 DEF User

\* A frame holds S while it is in use, and its kind says how.
LEMMA InUse ==
  ASSUME IInv, inDispatch
  PROVE  \E i \in Users : stack[i].kind # "stop" => HasFrame({"deliver"})
<1>1. PICK i \in Depth : stack[i].kind \in StateKinds
  BY DEF IInv, FlagsAgreeWithStack, HasFrame
<1> QED
  BY <1>1 DEF StateKinds, HasFrame, Users

\* The frame on top, when it holds S.
LEMMA TopUser ==
  ASSUME IInv, NEW k \in StateKinds, TopIs(k)
  PROVE  /\ inDispatch /\ stack # <<>> /\ TopFrame.kind = k
         /\ Len(stack) \in Users /\ stack[Len(stack)].kind = k
<1>1. stack # <<>> /\ TopFrame.kind = k /\ stack[Len(stack)].kind = k
  BY DEF TopIs, TopFrame
<1>2. Len(stack) \in Depth
  BY <1>1 DEF IInv, TypeOK, Depth
<1> QED
  BY <1>1, <1>2, TheState DEF Users

\* The last event handed over is neither the query nor nobody.
LEMMA LastIsEvent ==
  ASSUME TypeOK, log # <<>>
  PROVE  log[Len(log)] \notin {Nobody, Query}
<1> DEFINE S == 1..MaxEvents
<1>1. log \in Seq(S)
  BY DEF TypeOK
<1>2. log[Len(log)] \in S
  <2> HIDE DEF S
  <2>1. Len(log) \in DOMAIN log /\ \A i \in DOMAIN log : log[i] \in S
    BY <1>1
  <2> QED
    BY <2>1
<1> QED
  BY <1>2, UserAssumption

LEMMA InUseHasUser ==
  ASSUME IInv, QInv, inDispatch
  PROVE  User # Nobody
<1>1. PICK i \in Users : stack[i].kind # "stop" => log # <<>>
  BY InUse DEF QInv, HandlerHasEvent
<1> QED
  BY <1>1, UserIs, LastIsEvent, UserAssumption DEF IInv

-----------------------------------------------------------------------------
(* The queue's invariant                                                   *)

\* A step that queues or hands over nothing keeps the order; one that opens
\* no delivery keeps each handler its event.
LEMMA QueueKept ==
  ASSUME QInv, UNCHANGED <<emitted, log>>, deferred' = deferred \/ deferred' = <<>>,
         HasFrame({"deliver"})' => HasFrame({"deliver"})
  PROVE  QInv'
<1>1. InEmissionOrder'
  BY DEF QInv, InEmissionOrder, Ascending
<1>2. HandlerHasEvent'
  BY DEF QInv, HandlerHasEvent
<1> QED
  BY <1>1, <1>2 DEF QInv

\* An event emitted is later than every event queued.
LEMMA QueueGrows ==
  ASSUME IInv, InEmissionOrder, CanEmit, emitted' = emitted + 1,
         deferred' = deferred \/ deferred' = Append(deferred, emitted')
  PROVE  InEmissionOrder'
<1>1. emitted \in Nat /\ deferred \in Seq(1..MaxEvents) /\ emitted' \in 1..MaxEvents
  BY DispatchAssumption DEF IInv, TypeOK, CanEmit
<1>2. /\ Len(deferred) \in Nat /\ DOMAIN deferred = 1..Len(deferred)
      /\ \A i \in DOMAIN deferred : deferred[i] \in Nat
  BY <1>1, DispatchAssumption
<1>3. CASE deferred' = deferred
  <2>1. \A i \in DOMAIN deferred : deferred[i] <= emitted + 1
    BY <1>1, <1>2 DEF InEmissionOrder, Ascending
  <2> QED
    BY <1>3, <2>1 DEF InEmissionOrder, Ascending
<1>4. CASE deferred' = Append(deferred, emitted')
  <2>1. /\ DOMAIN deferred' = 1..(Len(deferred) + 1)
        /\ \A i \in 1..Len(deferred) : deferred'[i] = deferred[i]
        /\ deferred'[Len(deferred) + 1] = emitted'
    BY <1>1, <1>4
  <2>2. \A i \in 1..Len(deferred) : deferred'[i] <= emitted /\ deferred'[i] \in Nat
    BY <1>2, <2>1 DEF InEmissionOrder, Ascending
  <2>3. \A i \in DOMAIN deferred' : i \in 1..Len(deferred) \/ i = Len(deferred) + 1
    BY <1>2, <2>1
  <2>4. \A i \in DOMAIN deferred' : deferred'[i] <= emitted'
    BY <1>1, <2>1, <2>2, <2>3
  <2>5. ASSUME NEW i \in DOMAIN deferred', NEW j \in DOMAIN deferred', i < j
        PROVE  deferred'[i] < deferred'[j]
    <3>1. i \in 1..Len(deferred)
      BY <1>2, <2>1, <2>5
    <3>2. CASE j = Len(deferred) + 1
      BY <1>1, <2>1, <2>2, <3>1, <3>2
    <3>3. CASE j \in 1..Len(deferred)
      BY <1>2, <2>1, <2>5, <3>1, <3>3 DEF InEmissionOrder, Ascending
    <3> QED
      BY <2>3, <3>2, <3>3
  <2> QED
    BY <2>4, <2>5 DEF InEmissionOrder, Ascending
<1> QED
  BY <1>3, <1>4

LEMMA EmitDeferredQInv == IInv /\ QInv /\ EmitDeferred => QInv'
<1> SUFFICES ASSUME IInv, QInv, EmitDeferred PROVE QInv'
  OBVIOUS
<1>1. InEmissionOrder'
  BY QueueGrows DEF QInv, EmitDeferred
<1>2. HandlerHasEvent'
  BY DEF QInv, HandlerHasEvent, HasFrame, Depth, EmitDeferred
<1> QED
  BY <1>1, <1>2 DEF QInv

\* The event given to emit is the last one handed over.
LEMMA EmitNowLogs ==
  ASSUME IInv, EmitNow
  PROVE  /\ Range(log') = Range(log) \cup {emitted'}
         /\ log' # <<>> /\ log'[Len(log')] = emitted'
<1>1. log \in Seq(Nat) /\ emitted' \in Nat /\ log' = Append(log, emitted')
  BY DispatchAssumption DEF IInv, TypeOK, EmitNow, CanEmit
<1> QED
  BY <1>1, AppendEntries

LEMMA EmitNowQInv == IInv /\ QInv /\ EmitNow => QInv'
<1> SUFFICES ASSUME IInv, QInv, EmitNow PROVE QInv'
  OBVIOUS
<1>1. InEmissionOrder'
  BY QueueGrows DEF QInv, EmitNow
<1>2. HandlerHasEvent'
  BY EmitNowLogs DEF HandlerHasEvent
<1> QED
  BY <1>1, <1>2 DEF QInv

\* What the drain loop does to the queue and the log.
LEMMA DrainStep ==
  ASSUME IInv, InEmissionOrder, deferred # <<>>,
         log' = Append(log, Head(deferred)), deferred' = Tail(deferred)
  PROVE  /\ Head(deferred) \in Range(deferred)
         /\ \A e \in Range(deferred) : Head(deferred) <= e
         /\ Range(deferred') = Range(deferred) \ {Head(deferred)}
         /\ Range(log') = Range(log) \cup {Head(deferred)}
         /\ log' # <<>> /\ log'[Len(log')] = Head(deferred)
         /\ \A i \in DOMAIN deferred' :
               /\ i \in DOMAIN deferred /\ i + 1 \in DOMAIN deferred
               /\ deferred'[i] = deferred[i + 1]
<1>1. deferred \in Seq(Nat) /\ log \in Seq(Nat)
  BY DispatchAssumption DEF IInv, TypeOK
<1>2. Ascending(deferred)
  BY DEF InEmissionOrder
<1>3. PICK h \in Nat : h = Head(deferred)
  BY <1>1, HeadTailProperties
<1>4. log' = Append(log, h)
  BY <1>3
<1>5. /\ Range(log') = Range(log) \cup {h}
      /\ log' # <<>> /\ log'[Len(log')] = h
  BY <1>1, <1>4, AppendEntries
<1>6. /\ h \in Range(deferred)
      /\ \A e \in Range(deferred) : h <= e
      /\ Range(deferred') = Range(deferred) \ {h}
      /\ \A i \in DOMAIN deferred' :
            /\ i \in DOMAIN deferred /\ i + 1 \in DOMAIN deferred
            /\ deferred'[i] = deferred[i + 1]
  <2>1. deferred \in Seq(Nat) /\ deferred # <<>> /\ h = Head(deferred) /\ Ascending(deferred)
    BY <1>1, <1>2, <1>3
  <2> DEFINE t == Tail(deferred)
  <2>2. deferred' = t
    OBVIOUS
  <2> HIDE DEF t
  <2>3. /\ h \in Range(deferred)
        /\ \A e \in Range(deferred) : h <= e
        /\ Range(t) = Range(deferred) \ {h}
        /\ \A i \in DOMAIN t :
              /\ i \in DOMAIN deferred /\ i + 1 \in DOMAIN deferred
              /\ t[i] = deferred[i + 1]
    BY <2>1, TailEntries DEF t
  <2> QED
    BY <2>2, <2>3
<1>7. Head(deferred) = h
  BY <1>3
<1> QED
  BY <1>5, <1>6, <1>7, Zenon

LEMMA HandlerReturnQInv == IInv /\ QInv /\ HandlerReturn => QInv'
<1> SUFFICES ASSUME IInv, QInv, HandlerReturn PROVE QInv'
  OBVIOUS
<1>1. CASE deferred # <<>> /\ log' = Append(log, Head(deferred))
           /\ deferred' = Tail(deferred)
  <2>1. /\ log' # <<>>
        /\ \A i \in DOMAIN deferred' :
              /\ i \in DOMAIN deferred /\ i + 1 \in DOMAIN deferred
              /\ deferred'[i] = deferred[i + 1]
    BY <1>1, DrainStep DEF QInv
  <2>2. DOMAIN deferred \subseteq Nat /\ emitted' = emitted
    BY DEF IInv, TypeOK, HandlerReturn
  <2>3. InEmissionOrder'
    <3>1. \A i \in DOMAIN deferred' : deferred'[i] <= emitted'
      BY <2>1, <2>2 DEF QInv, InEmissionOrder, Ascending
    <3>2. ASSUME NEW i \in DOMAIN deferred', NEW j \in DOMAIN deferred', i < j
          PROVE  deferred'[i] < deferred'[j]
      <4>1. i + 1 < j + 1
        BY <2>1, <2>2, <3>2
      <4> QED
        BY <4>1, <2>1 DEF QInv, InEmissionOrder, Ascending
    <3> QED
      BY <3>1, <3>2 DEF InEmissionOrder, Ascending
  <2> QED
    BY <2>1, <2>3 DEF QInv, HandlerHasEvent
<1>2. CASE deferred = <<>> /\ stack' = Below /\ UNCHANGED <<deferred, log>>
  <2>1. stack # <<>>
    BY DEF HandlerReturn, TopIs
  <2>2. HasFrame({"deliver"})' => HasFrame({"deliver"})
    BY <1>2, <2>1, Pop DEF HasFrame
  <2> QED
    BY <1>2, <2>2, QueueKept DEF HandlerReturn
<1> QED
  BY <1>1, <1>2 DEF HandlerReturn

\* A step that opens no delivery opens none.
LEMMA NoNewDelivery ==
  ASSUME IInv,
         \/ stack' = stack
         \/ stack' = <<>>
         \/ stack # <<>> /\ stack' = Below
         \/ \E k \in Kinds \ {"deliver"} :
              /\ stack' = Append(stack, NewFrame(k))
              /\ k = "run" => currentDisplay = NoDisplay
  PROVE  HasFrame({"deliver"})' => HasFrame({"deliver"})
<1>1. CASE stack' = stack \/ stack' = <<>>
  BY <1>1 DEF HasFrame, Depth
<1>2. CASE stack # <<>> /\ stack' = Below
  BY <1>2, Pop DEF HasFrame
<1>3. ASSUME NEW k \in Kinds \ {"deliver"},
             stack' = Append(stack, NewFrame(k)),
             k = "run" => currentDisplay = NoDisplay
      PROVE  HasFrame({"deliver"})' => HasFrame({"deliver"})
  <2>1. /\ Depth = 1..Len(stack) /\ Depth' = 1..(Len(stack) + 1) /\ Len(stack) \in Nat
        /\ \A i \in Depth : stack'[i] = stack[i]
        /\ stack'[Len(stack) + 1].kind = k
    BY <1>3, Push
  <2> QED
    BY <1>3, <2>1 DEF HasFrame
<1> QED
  BY <1>1, <1>2, <1>3

LEMMA NextQInv == IInv /\ QInv /\ [Next]_vars => QInv'
<1> SUFFICES ASSUME IInv, QInv, [Next]_vars PROVE QInv'
  OBVIOUS
<1> USE DEF queueVars, Kinds, GuardKinds, StateKinds, LoopKinds
<1>1. CASE EmitDeferred
  BY <1>1, EmitDeferredQInv
<1>2. CASE EmitNow
  BY <1>2, EmitNowQInv
<1>3. CASE HandlerReturn
  BY <1>3, HandlerReturnQInv
<1>4. CASE EnterForeign
  BY <1>4, NoNewDelivery, QueueKept DEF EnterForeign, PushForeign
<1>5. CASE LeaveForeign
  BY <1>5, NoNewDelivery, QueueKept DEF LeaveForeign, TopIs
<1>6. ASSUME NEW k \in DriveKinds, DriveLoop(k) PROVE QInv'
  <2>1. k \in Kinds \ {"deliver"} /\ k # "run"
    BY DEF DriveKinds, LoopKinds
  <2> QED
    BY <1>6, <2>1, NoNewDelivery, QueueKept DEF DriveLoop
<1>7. CASE LoopReturn
  BY <1>7, NoNewDelivery, QueueKept DEF LoopReturn, TopIs
<1>8. ASSUME NEW d \in Displays \cup {NoDisplay}, RunStart(d) PROVE QInv'
  <2>1. currentDisplay = NoDisplay
    BY <1>8 DEF RunStart, IInv, PinnedOnlyInRun
  <2> QED
    BY <1>8, <2>1, NoNewDelivery, QueueKept DEF RunStart
<1>9. CASE Started \/ Dispatched \/ Flushed
  BY <1>9, NoNewDelivery, QueueKept DEF Started, Dispatched, Flushed, Advance
<1>10. CASE RunReturn
  BY <1>10, NoNewDelivery, QueueKept DEF RunReturn, TopIs
<1>11. CASE AskStop
  BY <1>11, NoNewDelivery, QueueKept DEF AskStop, EnterHandlerGuard
<1>12. ASSUME NEW stop \in BOOLEAN, StopReturn(stop) PROVE QInv'
  BY <1>12, NoNewDelivery, QueueKept DEF StopReturn, TopIs
<1>14. CASE OnTimelineReady
  BY <1>14, NoNewDelivery, QueueKept DEF OnTimelineReady, PushForeign
<1>13. CASE UNCHANGED vars
  BY <1>13, NoNewDelivery, QueueKept DEF vars
<1> QED
  BY <1>1, <1>2, <1>3, <1>4, <1>5, <1>6, <1>7, <1>8, <1>9, <1>10, <1>11,
     <1>12, <1>13, <1>14 DEF Next
-----------------------------------------------------------------------------
(* Nothing is handed over twice                                            *)

LEMMA AppendNew ==
  ASSUME NEW s \in Seq(Nat), NEW e \in Nat, e \notin Range(s), NEW t, t = Append(s, e),
         IsInjective(s)
  PROVE  IsInjective(t)
<1>1. /\ Len(s) \in Nat /\ DOMAIN s = 1..Len(s) /\ DOMAIN t = 1..(Len(s) + 1)
      /\ \A i \in 1..Len(s) : t[i] = s[i]
      /\ t[Len(s) + 1] = e
  OBVIOUS
<1>2. \A i \in DOMAIN t : i \in DOMAIN s \/ i = Len(s) + 1
  BY <1>1
<1>3. \A i \in DOMAIN s : t[i] = s[i] /\ t[i] # e
  BY <1>1 DEF Range
<1> QED
  BY <1>1, <1>2, <1>3 DEF IsInjective

\* The queue holds nothing later than the last event emitted.
LEMMA QueuedAreEmitted ==
  ASSUME IInv, InEmissionOrder
  PROVE  Range(deferred) \subseteq 1..emitted
<1>1. Range(deferred) \subseteq 1..MaxEvents
  BY RangeOfSeq DEF IInv, TypeOK
<1>2. \A e \in Range(deferred) : e <= emitted
  BY DEF InEmissionOrder, Range
<1> QED
  BY <1>1, <1>2, DispatchAssumption DEF IInv, TypeOK

LEMMA EmitDeferredOnce ==
  ASSUME IInv, QInv, HandedOverOnce, EmitDeferred
  PROVE  HandedOverOnce'
<1>1. /\ deferred \in Seq(Nat) /\ emitted \in Nat /\ emitted' = emitted + 1
      /\ emitted' \in Nat /\ deferred' = Append(deferred, emitted') /\ log' = log
  BY DispatchAssumption DEF IInv, TypeOK, EmitDeferred
<1>2. Range(deferred') = Range(deferred) \cup {emitted'}
  BY <1>1, AppendEntries
<1>3. emitted' \notin 1..emitted /\ 1..emitted \subseteq 1..emitted'
  BY <1>1
<1>4. Range(log') = Range(log)
  BY <1>1
<1> QED
  BY <1>1, <1>2, <1>3, <1>4 DEF HandedOverOnce

LEMMA EmitNowOnce ==
  ASSUME IInv, QInv, HandedOverOnce, EmitNow
  PROVE  HandedOverOnce'
<1>1. /\ log \in Seq(Nat) /\ emitted \in Nat /\ emitted' = emitted + 1
      /\ emitted' \in Nat /\ log' = Append(log, emitted') /\ deferred' = deferred
  BY DispatchAssumption DEF IInv, TypeOK, EmitNow
<1>2. emitted' \notin 1..emitted /\ 1..emitted \subseteq 1..emitted' /\ emitted' \in 1..emitted'
  BY <1>1
<1>3. emitted' \notin Range(log) /\ emitted' \notin Range(deferred)
  BY <1>2, QueuedAreEmitted DEF QInv, HandedOverOnce
<1>4. Range(log') = Range(log) \cup {emitted'} /\ Range(deferred') = Range(deferred)
  BY <1>1, EmitNowLogs
<1>5. IsInjective(log')
  BY <1>1, <1>3, AppendNew DEF HandedOverOnce
<1> QED
  BY <1>2, <1>3, <1>4, <1>5 DEF HandedOverOnce

LEMMA HandlerReturnOnce ==
  ASSUME IInv, QInv, HandedOverOnce, HandlerReturn
  PROVE  HandedOverOnce'
<1>1. emitted' = emitted
  BY DEF HandlerReturn
<1>2. CASE deferred = <<>> /\ UNCHANGED <<deferred, log>>
  BY <1>1, <1>2 DEF HandedOverOnce, Range, IsInjective
<1>3. CASE deferred # <<>> /\ log' = Append(log, Head(deferred)) /\ deferred' = Tail(deferred)
  <2>1. log \in Seq(Nat) /\ deferred \in Seq(Nat)
    BY DispatchAssumption DEF IInv, TypeOK
  <2>2. PICK h \in Nat : h = Head(deferred)
    BY <1>3, <2>1, HeadTailProperties
  <2>3. /\ h \in Range(deferred)
        /\ Range(deferred') = Range(deferred) \ {h}
        /\ Range(log') = Range(log) \cup {h}
    BY <1>3, <2>2, DrainStep DEF QInv
  <2>4. h \notin Range(log) /\ h \in 1..emitted
    BY <2>3, QueuedAreEmitted DEF QInv, HandedOverOnce
  <2>5. log' = Append(log, h)
    BY <1>3, <2>2
  <2>6. IsInjective(log')
    BY <2>1, <2>4, <2>5, AppendNew DEF HandedOverOnce
  <2> QED
    BY <1>1, <2>3, <2>4, <2>6 DEF HandedOverOnce
<1> QED
  BY <1>2, <1>3 DEF HandlerReturn

LEMMA NextOnce == IInv /\ QInv /\ HandedOverOnce /\ [Next]_vars => HandedOverOnce'
<1> SUFFICES ASSUME IInv, QInv, HandedOverOnce, [Next]_vars PROVE HandedOverOnce'
  OBVIOUS
<1>1. CASE EmitDeferred
  BY <1>1, EmitDeferredOnce
<1>2. CASE EmitNow
  BY <1>2, EmitNowOnce
<1>3. CASE HandlerReturn
  BY <1>3, HandlerReturnOnce
<1>4. CASE UNCHANGED <<emitted, log>> /\ (deferred' = deferred \/ deferred' = <<>>)
  BY <1>4 DEF HandedOverOnce, Range, IsInjective
<1>5. \/ EmitDeferred \/ EmitNow \/ HandlerReturn
      \/ UNCHANGED <<emitted, log>> /\ (deferred' = deferred \/ deferred' = <<>>)
  BY DEF Next, EnterForeign, OnTimelineReady, PushForeign, LeaveForeign, DriveLoop,
         LoopReturn, RunStart, Started, Dispatched, Flushed, Advance, RunReturn, AskStop,
         StopReturn, queueVars, vars
<1> QED
  BY <1>1, <1>2, <1>3, <1>4, <1>5

-----------------------------------------------------------------------------
(* Each step is one of Delivery's or changes nothing Delivery sees.        *)

LEMMA NoUserNext ==
  ASSUME IInv', ~inDispatch'
  PROVE  Users' = {} /\ User' = Nobody
<1>1. Users' = {}
  BY DEF IInv, FlagsAgreeWithStack, HasFrame, Users
<1> QED
  BY <1>1 DEF User

LEMMA UserIsNext ==
  ASSUME IInv', NEW i \in Users'
  PROVE  User' = IF stack'[i].kind = "stop" THEN Query ELSE log'[Len(log')]
<1>1. Users' = {i}
  BY DEF IInv, Shape, StateNotAliased, Users
<1> QED
  BY <1>1 DEF User

\* A step that moves neither an event nor the frame that holds S.
LEMMA SameUser ==
  ASSUME IInv, IInv', UNCHANGED <<emitted, deferred, log, inDispatch>>,
         \A i \in Users : i \in Depth' /\ stack'[i] = stack[i]
  PROVE  UNCHANGED D!vars
<1>1. CASE ~inDispatch
  BY <1>1, NoUser, NoUserNext DEF D!vars
<1>2. CASE inDispatch
  <2>1. PICK i : i \in Users
    BY <1>2, InUse
  <2>2. i \in Users' /\ stack'[i] = stack[i]
    BY <2>1 DEF Users
  <2>3. User' = User
    BY <2>1, <2>2, UserIs, UserIsNext
  <2> QED
    BY <2>3 DEF D!vars
<1> QED
  BY <1>1, <1>2

LEMMA EmitDeferredWaits ==
  ASSUME IInv, IInv', QInv, EmitDeferred
  PROVE  D!Wait
<1>1. emitted < MaxEvents /\ emitted' = emitted + 1
  BY DEF EmitDeferred, CanEmit
<1>2. User # Nobody
  BY InUseHasUser DEF EmitDeferred
<1>3. User' = User
  <2>1. PICK i : i \in Users
    BY InUse DEF EmitDeferred
  <2>2. i \in Users' /\ stack' = stack /\ log' = log
    BY <2>1 DEF Users, Depth, EmitDeferred
  <2> QED
    BY <2>1, <2>2, UserIs, UserIsNext
<1>4. Range(deferred') = Range(deferred) \cup {emitted'}
  <2>1. deferred \in Seq(Nat) /\ emitted' \in Nat /\ deferred' = Append(deferred, emitted')
    BY DispatchAssumption DEF IInv, TypeOK, EmitDeferred
  <2> QED
    BY <2>1, AppendEntries
<1>5. Range(log') = Range(log)
  BY DEF EmitDeferred
<1> QED
  BY <1>1, <1>2, <1>3, <1>4, <1>5 DEF D!Wait, D!Arrive

LEMMA EmitNowHandles ==
  ASSUME IInv, IInv', EmitNow
  PROVE  D!Handle
<1>1. /\ emitted < MaxEvents /\ emitted' = emitted + 1
      /\ ~inDispatch /\ inDispatch' /\ deferred' = deferred
  BY DEF EmitNow, CanEmit, EnterHandlerGuard
<1>2. User = Nobody
  BY <1>1, NoUser
<1>3. User' = emitted'
  <2>1. stack' = Append(stack, NewFrame("deliver"))
    BY DEF EmitNow, EnterHandlerGuard
  <2> DEFINE i == Len(stack) + 1
  <2>2. i \in Depth' /\ stack'[i].kind = "deliver"
    BY <2>1, Push DEF Kinds, GuardKinds, StateKinds
  <2>3. i \in Users'
    BY <2>2 DEF Users, StateKinds
  <2> QED
    BY <2>2, <2>3, UserIsNext, EmitNowLogs
<1>4. Range(log') = Range(log) \cup {emitted'}
  BY EmitNowLogs
<1> QED
  BY <1>1, <1>2, <1>3, <1>4 DEF D!Handle, D!Arrive

LEMMA HandlerReturnHandsOver ==
  ASSUME IInv, IInv', QInv, HandlerReturn
  PROVE  D!HandleNext \/ D!Rest
<1> DEFINE i == Len(stack)
<1>1. inDispatch /\ i \in Users /\ stack[i].kind = "deliver"
  BY TopUser DEF HandlerReturn, StateKinds
<1>2. HasFrame({"deliver"})
  BY <1>1 DEF HasFrame, Users
<1>3. User \notin {Nobody, Query}
  <2>1. log # <<>>
    BY <1>2 DEF QInv, HandlerHasEvent
  <2>2. User = log[Len(log)]
    BY <1>1, UserIs
  <2> QED
    BY <2>1, <2>2, LastIsEvent DEF IInv
<1>4. emitted' = emitted
  BY DEF HandlerReturn
<1>5. CASE deferred # <<>> /\ log' = Append(log, Head(deferred))
           /\ deferred' = Tail(deferred) /\ UNCHANGED <<stack, flags, inDispatch>>
  <2>1. /\ Head(deferred) \in Range(deferred)
        /\ \A e \in Range(deferred) : Head(deferred) <= e
        /\ Range(deferred') = Range(deferred) \ {Head(deferred)}
        /\ Range(log') = Range(log) \cup {Head(deferred)}
        /\ log'[Len(log')] = Head(deferred)
    BY <1>5, DrainStep DEF QInv
  <2>2. User' = Head(deferred)
    <3>1. i \in Users' /\ stack' = stack
      BY <1>1, <1>5 DEF Users, Depth
    <3> QED
      BY <1>1, <2>1, <3>1, UserIsNext
  <2> QED
    BY <1>3, <1>4, <2>1, <2>2 DEF D!HandleNext
<1>6. CASE deferred = <<>> /\ stack' = Below /\ DropHandlerGuard
           /\ UNCHANGED <<foreignFrames, deferred, log>>
  <2>1. User' = Nobody
    BY <1>6, NoUserNext DEF DropHandlerGuard
  <2>2. Range(deferred) = {}
    BY <1>6 DEF Range
  <2> QED
    BY <1>3, <1>4, <1>6, <2>1, <2>2 DEF D!Rest
<1> QED
  BY <1>5, <1>6 DEF HandlerReturn

LEMMA AskStopAsks ==
  ASSUME IInv, IInv', AskStop
  PROVE  D!Ask
<1>1. ~inDispatch
  BY LoopOnTop DEF AskStop, TopIs, LoopKinds
<1>2. User = Nobody
  BY <1>1, NoUser
<1> DEFINE i == Len(stack) + 1
<1>3. i \in Users' /\ stack'[i].kind = "stop"
  <2>1. stack' = Append(stack, NewFrame("stop"))
    BY DEF AskStop, EnterHandlerGuard
  <2>2. i \in Depth' /\ stack'[i].kind = "stop"
    BY <2>1, Push DEF Kinds, GuardKinds, StateKinds
  <2> QED
    BY <2>2 DEF Users, StateKinds
<1>4. User' = Query
  BY <1>3, UserIsNext
<1> QED
  BY <1>2, <1>4 DEF D!Ask, AskStop

LEMMA StopReturnAnswers ==
  ASSUME IInv, IInv', NEW stop \in BOOLEAN, StopReturn(stop)
  PROVE  D!Answer
<1> DEFINE i == Len(stack)
<1>1. i \in Users /\ stack[i].kind = "stop"
  BY TopUser DEF StopReturn, StateKinds
<1>2. User = Query
  BY <1>1, UserIs
<1>3. User' = Nobody
  BY NoUserNext DEF StopReturn, DropHandlerGuard
<1> QED
  BY <1>2, <1>3 DEF D!Answer, StopReturn

LEMMA RunReturnCloses ==
  ASSUME IInv, IInv', RunReturn
  PROVE  D!Close
<1>1. ~inDispatch /\ ~inDispatch'
  BY LoopOnTop DEF RunReturn, TopIs, LoopKinds
<1>2. User = Nobody /\ User' = Nobody
  BY <1>1, NoUser, NoUserNext
<1>3. Range(deferred') = {}
  BY DEF RunReturn, Range
<1> QED
  BY <1>2, <1>3 DEF D!Close, RunReturn

\* Closures, loop calls and the run's own progress are invisible.
LEMMA PushStutters ==
  ASSUME IInv, IInv', NEW k \in Kinds, stack' = Append(stack, NewFrame(k)),
         k = "run" => currentDisplay = NoDisplay, UNCHANGED queueVars
  PROVE  UNCHANGED D!vars
<1>1. /\ Depth = 1..Len(stack) /\ Depth' = 1..(Len(stack) + 1) /\ Len(stack) \in Nat
      /\ \A i \in Depth : stack'[i] = stack[i]
  BY Push
<1>2. \A i \in Users : i \in Depth' /\ stack'[i] = stack[i]
  BY <1>1 DEF Users
<1> QED
  BY <1>2, SameUser DEF queueVars

LEMMA PopStutters ==
  ASSUME IInv, IInv', stack # <<>>, TopFrame.kind \notin StateKinds, stack' = Below,
         UNCHANGED queueVars
  PROVE  UNCHANGED D!vars
<1>1. /\ Len(stack) \in Nat /\ Depth = 1..Len(stack) /\ Depth' = 1..(Len(stack) - 1)
      /\ \A i \in Depth' : stack'[i] = stack[i]
  BY Pop
<1>2. ASSUME NEW i \in Users PROVE i \in Depth' /\ stack'[i] = stack[i]
  <2>1. i \in Depth /\ i # Len(stack)
    BY DEF Users, TopFrame
  <2> QED
    BY <1>1, <2>1
<1> QED
  BY <1>2, SameUser DEF queueVars

LEMMA NextMaps == IInv /\ IInv' /\ QInv /\ [Next]_vars => [D!Next]_(D!vars)
<1> SUFFICES ASSUME IInv, IInv', QInv, [Next]_vars PROVE D!Next \/ UNCHANGED D!vars
  OBVIOUS
<1> USE DEF Kinds, GuardKinds, StateKinds, LoopKinds
<1>1. CASE EmitDeferred
  BY <1>1, EmitDeferredWaits DEF D!Next
<1>2. CASE EmitNow
  BY <1>2, EmitNowHandles DEF D!Next
<1>3. CASE HandlerReturn
  BY <1>3, HandlerReturnHandsOver DEF D!Next
<1>4. CASE EnterForeign
  BY <1>4, PushStutters DEF EnterForeign, PushForeign
<1>5. CASE LeaveForeign
  BY <1>5, PopStutters DEF LeaveForeign, TopIs
<1>6. ASSUME NEW k \in DriveKinds, DriveLoop(k) PROVE UNCHANGED D!vars
  <2>1. k \in Kinds /\ k # "run"
    BY DEF DriveKinds
  <2> QED
    BY <1>6, <2>1, PushStutters DEF DriveLoop
<1>7. CASE LoopReturn
  BY <1>7, PopStutters DEF LoopReturn, TopIs, DriveKinds
<1>8. ASSUME NEW d \in Displays \cup {NoDisplay}, RunStart(d) PROVE UNCHANGED D!vars
  <2>1. currentDisplay = NoDisplay
    BY <1>8 DEF RunStart, IInv, PinnedOnlyInRun
  <2> QED
    BY <1>8, <2>1, PushStutters DEF RunStart
<1>9. CASE Started \/ Dispatched \/ Flushed
  BY <1>9, SameUser DEF Started, Dispatched, Flushed, Advance, queueVars, Users, Depth
<1>10. CASE RunReturn
  BY <1>10, RunReturnCloses DEF D!Next
<1>11. CASE AskStop
  BY <1>11, AskStopAsks DEF D!Next
<1>12. ASSUME NEW stop \in BOOLEAN, StopReturn(stop) PROVE D!Next
  BY <1>12, StopReturnAnswers DEF D!Next
<1>13. CASE UNCHANGED vars
  BY <1>13, SameUser DEF vars, queueVars, Users, Depth
<1>14. CASE OnTimelineReady
  BY <1>14, PushStutters DEF OnTimelineReady, PushForeign
<1> QED
  BY <1>1, <1>2, <1>3, <1>4, <1>5, <1>6, <1>7, <1>8, <1>9, <1>10, <1>11,
     <1>12, <1>13, <1>14 DEF Next

\* Every reachable state keeps the queue in emission order and a handler its
\* event.
THEOREM QueueInvariant == Spec => []QInv
<1>1. Init => QInv
  BY DEF Init, QInv, InEmissionOrder, Ascending, HandlerHasEvent, HasFrame, Depth
<1>2. IInv /\ QInv /\ [Next]_vars => QInv'
  BY NextQInv
<1> QED
  BY <1>1, <1>2, Invariant, PTL DEF Spec

\* emit hands each event over at most once: the drain loop takes from the
\* queue what it hands over, and a new event was never handed over before.
THEOREM NothingTwice == Spec => []HandedOverOnce
<1>1. Init => HandedOverOnce
  BY DEF Init, HandedOverOnce, Range, IsInjective
<1>2. IInv /\ QInv /\ HandedOverOnce /\ [Next]_vars => HandedOverOnce'
  BY NextOnce
<1> QED
  BY <1>1, <1>2, Invariant, QueueInvariant, PTL DEF Spec

\* dispatch.rs keeps the promise of Delivery, for any number of events and
\* any nesting: S has one user at a time, an event is handed over at once or
\* queued and handed over oldest first, and a queued event is lost only with
\* the session that queued it.
THEOREM KeepsDelivery == Spec => ImplementsDelivery
<1>1. Init => D!Init
  <2> SUFFICES ASSUME Init PROVE D!Init
    OBVIOUS
  <2>1. User = Nobody
    BY DEF Init, User, Users, Depth
  <2>2. Range(deferred) = {} /\ Range(log) = {}
    BY DEF Init, Range
  <2> QED
    BY <2>1, <2>2 DEF Init, D!Init
<1>2. IInv /\ IInv' /\ QInv /\ [Next]_vars => [D!Next]_(D!vars)
  BY NextMaps
<1> QED
  BY <1>1, <1>2, Invariant, QueueInvariant, PTL DEF Spec, ImplementsDelivery, D!Spec
=============================================================================
