------------------------------ MODULE Delivery ------------------------------
(***************************************************************************)
(* What the dispatcher promises, without its stack and flags: the state S  *)
(* has one user at a time, an event is handed over at most once, and an    *)
(* event that arrives while S is in use waits.  Waiting events are only    *)
(* ever dropped together, when the session that queued them ends.          *)
(***************************************************************************)
EXTENDS Naturals

CONSTANTS MaxEvents, Nobody, Query

VARIABLES arrived,  \* events 1..arrived have been emitted
          user,     \* who uses S: Nobody, the Query, or an event's handler
          waiting,  \* events emitted and not handed over
          handled   \* events handed over

vars == <<arrived, user, waiting, handled>>

Init == /\ arrived = 0
        /\ user = Nobody
        /\ waiting = {}
        /\ handled = {}

Arrive == /\ arrived < MaxEvents
          /\ arrived' = arrived + 1

Wait == /\ Arrive
        /\ user # Nobody
        /\ waiting' = waiting \cup {arrived'}
        /\ UNCHANGED <<user, handled>>

Handle == /\ Arrive
          /\ user = Nobody
          /\ user' = arrived'
          /\ handled' = handled \cup {arrived'}
          /\ UNCHANGED waiting

\* The oldest waiting event goes next.
HandleNext == /\ user \notin {Nobody, Query}
              /\ \E e \in waiting :
                   /\ \A f \in waiting : e <= f
                   /\ user' = e
                   /\ handled' = handled \cup {e}
                   /\ waiting' = waiting \ {e}
              /\ UNCHANGED arrived

Rest == /\ user \notin {Nobody, Query}
        /\ waiting = {}
        /\ user' = Nobody
        /\ UNCHANGED <<arrived, waiting, handled>>

Ask == /\ user = Nobody
       /\ user' = Query
       /\ UNCHANGED <<arrived, waiting, handled>>

Answer == /\ user = Query
          /\ user' = Nobody
          /\ UNCHANGED <<arrived, waiting, handled>>

Close == /\ user = Nobody
         /\ waiting' = {}
         /\ UNCHANGED <<arrived, user, handled>>

Next == Wait \/ Handle \/ HandleNext \/ Rest \/ Ask \/ Answer \/ Close

Spec == Init /\ [][Next]_vars
=============================================================================
