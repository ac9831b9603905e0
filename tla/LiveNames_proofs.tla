-------------------------- MODULE LiveNames_proofs --------------------------
(***************************************************************************)
(* Proofs about SceneNodes and TurnDrain, the two components whose         *)
(* invariants say that the names the Runtime keeps (NodeIds, RectIds,      *)
(* layer surface ids, queued handle pointers) resolve to allocated wlroots *)
(* objects: the type invariant and every safety invariant of both, for any *)
(* number of nodes, toplevels, closures, surfaces, handles and displays.   *)
(*                                                                         *)
(* SceneNodes comes first, TurnDrain after it.                             *)
(***************************************************************************)
EXTENDS SceneNodes, TurnDrain, WellFoundedInduction, FiniteSetTheorems,
        SequenceTheorems, TLAPS

-----------------------------------------------------------------------------
(* Induction.  The library's theorem takes the property as an operator;    *)
(* here it is a set of numbers.                                            *)

\* A non-empty set of naturals has a least element.
LEMMA LeastNatural ==
  ASSUME NEW T \in SUBSET Nat, T # {}
  PROVE  \E x \in T : \A y \in T : x <= y
<1> DEFINE U == {0..x : x \in T}
<1>1. U \subseteq FiniteSubsetsOf(Nat) /\ U # {}
  <2>1. \A x \in T : 0..x \subseteq Nat /\ IsFiniteSet(0..x)
    BY FS_Interval
  <2> QED
    BY <2>1 DEF FiniteSubsetsOf
<1>2. IsWellFoundedOn(StrictSubsetOrdering(Nat), FiniteSubsetsOf(Nat))
  BY FS_StrictSubsetOrderingWellFounded
<1>3. PICK u \in U : \A v \in U : <<v, u>> \notin StrictSubsetOrdering(Nat)
  <2> HIDE DEF U
  <2> QED
    BY <1>1, <1>2, WFMin
<1>4. PICK x \in T : u = 0..x
  OBVIOUS
<1>5. ASSUME NEW y \in T, y < x PROVE FALSE
  <2>1. /\ 0..y \in U /\ 0..y \subseteq Nat /\ 0..x \subseteq Nat
        /\ 0..y \subseteq 0..x /\ 0..y # 0..x
    BY <1>5
  <2> QED
    BY <2>1, <1>3, <1>4 DEF StrictSubsetOrdering
<1> QED
  BY <1>5

\* Induction, for a property given as the set of numbers that have it.
LEMMA Induction ==
  ASSUME NEW T, 0 \in T, \A i \in Nat : i \in T => i + 1 \in T
  PROVE  Nat \subseteq T
<1> DEFINE B == {i \in Nat : i \notin T}
<1> SUFFICES ASSUME B # {} PROVE FALSE
  OBVIOUS
<1>1. PICK i \in B : \A j \in B : i <= j
  <2> B \in SUBSET Nat
    OBVIOUS
  <2> HIDE DEF B
  <2> QED
    BY LeastNatural
<1>2. i # 0 /\ i - 1 \in Nat /\ i - 1 \notin B
  BY <1>1
<1> QED
  BY <1>1, <1>2

\* f is what step makes of a, repeated up to K times.
Repeats(f, D, a, step, K) ==
  /\ f \in [0..K -> D] /\ f[0] = a
  /\ \A i \in 1..K : f[i] = step[f[i - 1]]

\* A step repeated k times from a is a function on 0..k.
LEMMA Repetition ==
  ASSUME NEW D, NEW a \in D, NEW step \in [D -> D], NEW K \in Nat
  PROVE  \E f : Repeats(f, D, a, step, K)
<1> DEFINE Runs(k) == {f \in [0..k -> D] : /\ f[0] = a
                                           /\ \A i \in 1..k : f[i] = step[f[i - 1]]}
           T == {k \in Nat : Runs(k) # {}}
<1>1. 0 \in T
  <2>1. [i \in 0..0 |-> a] \in Runs(0)
    OBVIOUS
  <2> QED
    BY <2>1
<1>2. ASSUME NEW k \in Nat, k \in T PROVE k + 1 \in T
  <2>1. PICK f \in [0..k -> D] : f[0] = a /\ \A i \in 1..k : f[i] = step[f[i - 1]]
    BY <1>2
  <2> DEFINE g == [i \in 0..(k + 1) |-> IF i = k + 1 THEN step[f[k]] ELSE f[i]]
  <2>2. g \in [0..(k + 1) -> D]
    OBVIOUS
  <2>3. g[0] = a
    BY <2>1
  <2>4. ASSUME NEW i \in 1..(k + 1) PROVE g[i] = step[g[i - 1]]
    BY <2>1
  <2>5. g \in Runs(k + 1)
    BY <2>2, <2>3, <2>4
  <2> QED
    BY <2>5
<1>3. Nat \subseteq T
  <2> HIDE DEF T
  <2> QED
    BY <1>1, <1>2, Induction
<1>4. Runs(K) # {}
  BY <1>3
<1> QED
  BY <1>4 DEF Repeats

-----------------------------------------------------------------------------
(* The way up from a node, which is defined by recursion.                  *)

N == Cardinality(Nodes)
Graph == [Nodes -> Nodes \cup {None}]

\* A path leaves a node for its parent, until there is none.
IsUp(f, par, n) ==
  /\ f \in [0..N -> Nodes \cup {None}]
  /\ f[0] = n
  /\ \A i \in 1..N : f[i] = IF f[i - 1] \in Nodes THEN par[f[i - 1]] ELSE None

\* There are finitely many nodes.
LEMMA NNat == N \in Nat
BY SceneNodesAssumption, FS_CardinalityType DEF N

\* The recursive definition of a way up has a value, so it describes it.
LEMMA UpIs ==
  ASSUME NEW par \in Graph, NEW n \in Nodes
  PROVE  IsUp(Up(par, n), par, n)
<1> DEFINE D == Nodes \cup {None}
           step == [m \in D |-> IF m \in Nodes THEN par[m] ELSE None]
           F(f) == [i \in 0..N |-> IF i = 0 THEN n
                       ELSE IF f[i - 1] \in Nodes THEN par[f[i - 1]] ELSE None]
<1>1. step \in [D -> D] /\ n \in D /\ N \in Nat
  BY NNat DEF Graph
<1>2. PICK f : Repeats(f, D, n, step, N)
  <2> HIDE DEF step, D
  <2> QED
    BY <1>1, Repetition
<1>10. /\ f \in [0..N -> D] /\ f[0] = n
       /\ \A i \in 1..N : f[i] = step[f[i - 1]]
  BY <1>2 DEF Repeats
<1>3. f = F(f)
  <2>1. f = [i \in 0..N |-> f[i]]
    BY <1>10
  <2>2. ASSUME NEW i \in 0..N PROVE f[i] = F(f)[i]
    <3>1. CASE i = 0
      BY <1>10, <3>1
    <3>2. CASE i \in 1..N
      <4>1. i - 1 \in 0..N /\ f[i - 1] \in D
        BY <1>10, <3>2, NNat
      <4>2. f[i] = step[f[i - 1]]
        BY <3>2, <1>10
      <4> QED
        BY <4>1, <4>2, <3>2
    <3> QED
      BY <3>1, <3>2, NNat
  <2> QED
    BY <2>1, <2>2
<1>4. Up(par, n) = CHOOSE g : g = F(g)
  BY DEF Up, N
<1>5. Up(par, n) = F(Up(par, n))
  <2> HIDE DEF F
  <2> QED
    BY <1>3, <1>4
<1> DEFINE u == Up(par, n)
<1> HIDE DEF u
<1>6. /\ u = [i \in 0..N |-> u[i]]
      /\ \A i \in 0..N : u[i] = IF i = 0 THEN n
                ELSE IF u[i - 1] \in Nodes THEN par[u[i - 1]] ELSE None
  <2>1. u = F(u)
    BY <1>5 DEF u
  <2> QED
    BY <2>1
<1>7. u[0] = n /\ \A i \in 1..N : u[i] = IF u[i - 1] \in Nodes THEN par[u[i - 1]] ELSE None
  <2>1. 0 \in 0..N /\ \A i \in 1..N : i \in 0..N /\ i # 0
    BY NNat
  <2> HIDE DEF F, D, step
  <2> QED
    BY <1>6, <2>1
<1>8. \A i \in 0..N : u[i] \in D
  <2> DEFINE T == {i \in Nat : i \in 0..N => u[i] \in D}
  <2>1. 0 \in T
    BY <1>7
  <2>2. ASSUME NEW i \in Nat, i \in T PROVE i + 1 \in T
    <3>1. CASE i + 1 \in 0..N
      <4>1. u[i + 1] = IF u[i] \in Nodes THEN par[u[i]] ELSE None
        BY <1>7, <3>1
      <4> QED
        BY <4>1 DEF Graph
    <3> QED
      BY <3>1
  <2>3. Nat \subseteq T
    <3> HIDE DEF T
    <3> QED
      BY <2>1, <2>2, Induction
  <2> QED
    BY <2>3, NNat
<1>9. u \in [0..N -> D]
  BY <1>6, <1>8
<1> QED
  BY <1>7, <1>9 DEF IsUp, u

\* What is above a node is on its way up.
LEMMA AboveIs ==
  ASSUME NEW par \in Graph, NEW n \in Nodes
  PROVE  Above(par, n) = {m \in Nodes : \E i \in 0..N : Up(par, n)[i] = m}
<1> DEFINE u == Up(par, n)
<1>1. IsUp(u, par, n)
  BY UpIs
<1> HIDE DEF u
<1>2. Range(u) \ {None} = {m \in Nodes : \E i \in 0..N : u[i] = m}
  BY <1>1, SceneNodesAssumption DEF Range, IsUp
<1> QED
  BY <1>2 DEF u, Above

\* A set that holds a node, and with each of its nodes the parent, holds
\* everything above the node.
LEMMA AboveLeast ==
  ASSUME NEW par \in Graph, NEW n \in Nodes, NEW S, n \in S,
         \A m \in S \cap Nodes : par[m] \in S \cup {None}
  PROVE  Above(par, n) \subseteq S
<1> DEFINE u == Up(par, n)
           T == {i \in Nat : i \in 0..N => u[i] \in S \cup {None}}
<1>1. IsUp(u, par, n)
  BY UpIs
<1> HIDE DEF u
<1>2. 0 \in T
  BY <1>1 DEF IsUp
<1>3. ASSUME NEW i \in Nat, i \in T PROVE i + 1 \in T
  <2>1. CASE i + 1 \in 0..N
    <3>1. u[i + 1] = IF u[i] \in Nodes THEN par[u[i]] ELSE None
      BY <1>1, <2>1 DEF IsUp
    <3>2. u[i] \in S \cup {None}
      BY <1>3, <2>1, NNat
    <3>3. u[i + 1] \in S \cup {None}
      BY <3>1, <3>2, SceneNodesAssumption
    <3> QED
      BY <3>3
  <2> QED
    BY <2>1
<1>4. Nat \subseteq T
  <2> HIDE DEF T
  <2> QED
    BY <1>2, <1>3, Induction
<1>5. \A i \in 0..N : u[i] \in S \cup {None}
  BY <1>4, NNat
<1> QED
  BY <1>5, AboveIs, SceneNodesAssumption DEF u

\* Once the way up has ended it does not go on.
LEMMA UpEnds ==
  ASSUME NEW par \in Graph, NEW n \in Nodes, NEW j \in 0..N, Up(par, n)[j] \in Nodes
  PROVE  \A i \in 0..j : Up(par, n)[i] \in Nodes
<1> DEFINE u == Up(par, n)
           T == {i \in Nat : i \in 0..j => u[j - i] \in Nodes}
<1>1. IsUp(u, par, n)
  BY UpIs
<1> HIDE DEF u
<1>2. 0 \in T
  BY DEF u
<1>3. ASSUME NEW i \in Nat, i \in T PROVE i + 1 \in T
  <2>1. CASE i + 1 \in 0..j
    <3>1. j - i \in 1..N /\ (j - i) - 1 = j - (i + 1)
      BY <2>1, NNat
    <3>2. u[j - i] = IF u[j - (i + 1)] \in Nodes THEN par[u[j - (i + 1)]] ELSE None
      BY <1>1, <3>1 DEF IsUp
    <3>3. u[j - i] \in Nodes
      <4>1. i \in 0..j
        BY <2>1
      <4> QED
        BY <4>1, <1>3
    <3> QED
      BY <3>2, <3>3, SceneNodesAssumption
  <2> QED
    BY <2>1
<1>4. Nat \subseteq T
  <2> HIDE DEF T
  <2> QED
    BY <1>2, <1>3, Induction
<1>5. ASSUME NEW i \in 0..j PROVE u[i] \in Nodes
  <2>1. j - i \in Nat /\ j - i \in 0..j /\ j - (j - i) = i
    OBVIOUS
  <2> QED
    BY <2>1, <1>4
<1> QED
  BY <1>5 DEF u

\* There are not enough nodes for the way up to be cut off before it repeats.
LEMMA UpRepeats ==
  ASSUME NEW par \in Graph, NEW n \in Nodes, Up(par, n)[N] \in Nodes
  PROVE  \E i \in 0..N : Up(par, n)[i] = par[Up(par, n)[N]]
<1> DEFINE u == Up(par, n)
<1>1. IsUp(u, par, n)
  BY UpIs
<1>2. \A i \in 0..N : u[i] \in Nodes
  BY UpEnds, NNat
<1> HIDE DEF u
<1>3. PICK x \in 0..N, y \in 0..N : x # y /\ u[x] = u[y]
  <2>1. IsFiniteSet(0..N) /\ Cardinality(0..N) = N + 1
    BY FS_Interval, NNat
  <2>2. u \in [0..N -> Nodes]
    BY <1>1, <1>2 DEF IsUp
  <2>3. N < N + 1
    BY NNat
  <2> QED
    <3>1. Cardinality(Nodes) < Cardinality(0..N) /\ IsFiniteSet(Nodes)
      BY <2>1, <2>3, SceneNodesAssumption DEF N
    <3> HIDE DEF N
    <3> QED
      BY <2>1, <2>2, <3>1, FS_PigeonHole
<1>4. PICK a \in 0..N, b \in 0..N : a < b /\ u[a] = u[b]
  BY <1>3, NNat
<1> DEFINE T == {d \in Nat : b + d \in 0..N => u[a + d] = u[b + d]}
<1>5. 0 \in T
  BY <1>4
<1>6. ASSUME NEW d \in Nat, d \in T PROVE d + 1 \in T
  <2>1. CASE b + (d + 1) \in 0..N
    <3>1. /\ a + (d + 1) \in 1..N /\ b + (d + 1) \in 1..N
          /\ a + (d + 1) - 1 = a + d /\ b + (d + 1) - 1 = b + d /\ b + d \in 0..N
      BY <1>4, <2>1, NNat
    <3>2. u[a + d] = u[b + d]
      BY <1>6, <3>1
    <3>3. u[a + (d + 1)] = IF u[a + d] \in Nodes THEN par[u[a + d]] ELSE None
      BY <1>1, <3>1 DEF IsUp
    <3>4. u[b + (d + 1)] = IF u[b + d] \in Nodes THEN par[u[b + d]] ELSE None
      BY <1>1, <3>1 DEF IsUp
    <3> QED
      BY <3>2, <3>3, <3>4
  <2> QED
    BY <2>1
<1>7. Nat \subseteq T
  <2> HIDE DEF T
  <2> QED
    BY <1>5, <1>6, Induction
<1> DEFINE e == N - b
<1>8. e \in Nat /\ b + e = N /\ a + e + 1 \in 1..N /\ (a + e + 1) - 1 = a + e
  BY <1>4, NNat
<1>9. u[a + e] = u[N]
  BY <1>7, <1>8, NNat
<1>10. u[a + e + 1] = par[u[N]]
  <2>1. u[a + e + 1] = IF u[a + e] \in Nodes THEN par[u[a + e]] ELSE None
    BY <1>1, <1>8 DEF IsUp
  <2>2. u[N] \in Nodes
    BY DEF u
  <2> QED
    BY <2>1, <2>2, <1>9
<1>11. a + e + 1 \in 0..N
  BY <1>8, NNat
<1> QED
  BY <1>10, <1>11 DEF u

\* What is above a node is a set of nodes, holds the node itself, and with
\* each node its parent.
LEMMA AboveClosed ==
  ASSUME NEW par \in Graph, NEW n \in Nodes
  PROVE  /\ Above(par, n) \subseteq Nodes
         /\ n \in Above(par, n)
         /\ \A m \in Above(par, n) : par[m] \in Above(par, n) \cup {None}
<1> DEFINE u == Up(par, n)
<1>1. IsUp(u, par, n)
  BY UpIs
<1>2. Above(par, n) = {m \in Nodes : \E i \in 0..N : u[i] = m}
  BY AboveIs
<1>3. u[N] \in Nodes => \E i \in 0..N : u[i] = par[u[N]]
  BY UpRepeats
<1> HIDE DEF u
<1>4. n \in Above(par, n)
  BY <1>1, <1>2, NNat DEF IsUp
<1>5. ASSUME NEW m \in Above(par, n) PROVE par[m] \in Above(par, n) \cup {None}
  <2>1. m \in Nodes /\ par[m] \in Nodes \cup {None}
    BY <1>2, <1>5 DEF Graph
  <2>2. PICK i \in 0..N : u[i] = m
    BY <1>2, <1>5
  <2>3. CASE i = N
    BY <1>2, <1>3, <2>1, <2>2, <2>3
  <2>4. CASE i # N
    <3>1. i + 1 \in 1..N /\ (i + 1) - 1 = i
      BY <2>4, NNat
    <3>2. u[i + 1] = par[m]
      BY <1>1, <2>1, <2>2, <3>1 DEF IsUp
    <3> QED
      BY <1>2, <2>1, <3>1, <3>2
  <2> QED
    BY <2>3, <2>4
<1> QED
  BY <1>2, <1>4, <1>5

\* The way up depends on the parents of what it passes only.
LEMMA UpSame ==
  ASSUME NEW par \in Graph, NEW par2 \in Graph, NEW n \in Nodes,
         \A m \in Above(par, n) : par2[m] = par[m]
  PROVE  /\ Up(par2, n) = Up(par, n)
         /\ Above(par2, n) = Above(par, n)
<1> DEFINE u == Up(par, n)
           v == Up(par2, n)
           T == {i \in Nat : i \in 0..N => v[i] = u[i]}
<1>1. IsUp(u, par, n) /\ IsUp(v, par2, n)
  BY UpIs
<1>2. \A i \in 0..N : u[i] \in Nodes => u[i] \in Above(par, n)
  BY AboveIs
<1> HIDE DEF u, v
<1>3. 0 \in T
  BY <1>1, NNat DEF IsUp
<1>4. ASSUME NEW i \in Nat, i \in T PROVE i + 1 \in T
  <2>1. CASE i + 1 \in 0..N
    <3>1. i + 1 \in 1..N /\ i \in 0..N
      BY <2>1, NNat
    <3>2. u[i + 1] = IF u[i] \in Nodes THEN par[u[i]] ELSE None
      BY <1>1, <3>1 DEF IsUp
    <3>3. v[i + 1] = IF v[i] \in Nodes THEN par2[v[i]] ELSE None
      BY <1>1, <3>1 DEF IsUp
    <3> QED
      BY <3>1, <3>2, <3>3, <1>2, <1>4
  <2> QED
    BY <2>1
<1>5. Nat \subseteq T
  <2> HIDE DEF T
  <2> QED
    BY <1>3, <1>4, Induction
<1>6. \A i \in 0..N : v[i] = u[i]
  BY <1>5, NNat
<1>7. v = u
  <2>1. u \in [0..N -> Nodes \cup {None}] /\ v \in [0..N -> Nodes \cup {None}]
    BY <1>1 DEF IsUp
  <2>2. u = [i \in 0..N |-> u[i]] /\ v = [i \in 0..N |-> v[i]]
    BY <2>1
  <2> QED
    BY <1>6, <2>2, Zenon
<1>8. Up(par2, n) = Up(par, n)
  BY <1>7 DEF u, v
<1> QED
  BY <1>8 DEF Above

-----------------------------------------------------------------------------
(* The nearest ancestor among some toplevels and the bands                 *)

Nearest(tops, par, n) ==
  LET up == Up(par, n)
      hits == {i \in DOMAIN up \ {0} : up[i] \in tops \cup Bands}
  IN IF hits = {} THEN Root ELSE up[Min(hits)]

\* The least element of a set of numbers is its minimum.
LEMMA MinIs ==
  ASSUME NEW T \in SUBSET Nat, NEW m \in T, \A i \in T : m <= i
  PROVE  Min(T) = m
<1>1. \A x \in T : (\A i \in T : x <= i) => x = m
  <2> SUFFICES ASSUME NEW x \in T, \A i \in T : x <= i PROVE x = m
    OBVIOUS
  <2>1. x \in Nat /\ m \in Nat /\ x <= m /\ m <= x
    OBVIOUS
  <2> QED
    BY <2>1
<1>2. (CHOOSE x \in T : \A i \in T : x <= i) = m
  BY <1>1
<1> QED
  BY <1>2 DEF Min

\* The nearest is the first hit on the way up, or the root if there is none.
LEMMA NearestIs ==
  ASSUME NEW tops, NEW par \in Graph, NEW n \in Nodes
  PROVE  \/ /\ Nearest(tops, par, n) = Root
            /\ \A i \in 1..N : Up(par, n)[i] \notin tops \cup Bands
         \/ \E i \in 1..N :
              /\ Nearest(tops, par, n) = Up(par, n)[i]
              /\ Up(par, n)[i] \in tops \cup Bands
              /\ \A j \in 1..N : Up(par, n)[j] \in tops \cup Bands => i <= j
<1> DEFINE u == Up(par, n)
           hits == {i \in 1..N : u[i] \in tops \cup Bands}
<1>1. DOMAIN u \ {0} = 1..N
  <2>1. DOMAIN u = 0..N
    BY UpIs DEF IsUp
  <2> QED
    BY <2>1, NNat
<1>2. Nearest(tops, par, n) = IF hits = {} THEN Root ELSE u[Min(hits)]
  BY <1>1 DEF Nearest
<1>3. CASE hits = {}
  BY <1>2, <1>3
<1>4. CASE hits # {}
  <2>1. hits \in SUBSET Nat
    OBVIOUS
  <2>2. PICK i \in hits : \A j \in hits : i <= j
    <3> HIDE DEF hits
    <3> QED
      BY <1>4, <2>1, LeastNatural
  <2>3. Min(hits) = i
    <3> HIDE DEF hits
    <3> QED
      BY <2>1, <2>2, MinIs
  <2>4. Nearest(tops, par, n) = u[i]
    BY <1>2, <1>4, <2>3
  <2> QED
    BY <2>2, <2>4
<1> QED
  BY <1>3, <1>4

\* The nearest of a node does not change with the toplevels that are not above
\* it, and not with the others while it remains.
LEMMA NearestKept ==
  ASSUME NEW tops, NEW tops2, NEW par \in Graph, NEW par2 \in Graph, NEW n \in Nodes,
         None \notin tops2,
         Up(par2, n) = Up(par, n),
         \A m \in Above(par, n) : m \in tops2 => m \in tops,
         Nearest(tops, par, n) \in tops => Nearest(tops, par, n) \in tops2
  PROVE  Nearest(tops2, par2, n) = Nearest(tops, par, n)
<1> DEFINE u == Up(par, n)
           c == Nearest(tops, par, n)
           d == Nearest(tops2, par2, n)
<1> SUFFICES d = c
  OBVIOUS
<1>1. \A i \in 1..N : u[i] \in tops2 \cup Bands => u[i] \in tops \cup Bands
  <2>1. \A i \in 1..N : u[i] \in Nodes \cup {None}
    BY UpIs, NNat DEF IsUp
  <2>2. \A i \in 1..N : u[i] \in Nodes => u[i] \in Above(par, n)
    BY AboveIs, NNat
  <2>3. None \notin Bands
    BY SceneNodesAssumption DEF Nodes
  <2> QED
    BY <2>1, <2>2, <2>3
<1>2. \/ c = Root /\ \A i \in 1..N : u[i] \notin tops \cup Bands
      \/ \E i \in 1..N : /\ c = u[i] /\ u[i] \in tops \cup Bands
                         /\ \A j \in 1..N : u[j] \in tops \cup Bands => i <= j
  BY NearestIs
<1>3. \/ d = Root /\ \A i \in 1..N : u[i] \notin tops2 \cup Bands
      \/ \E i \in 1..N : /\ d = u[i] /\ u[i] \in tops2 \cup Bands
                         /\ \A j \in 1..N : u[j] \in tops2 \cup Bands => i <= j
  <2>1. Up(par2, n) = u
    OBVIOUS
  <2> HIDE DEF u
  <2> QED
    BY <2>1, NearestIs
<1>4. c \in tops => c \in tops2
  OBVIOUS
<1> HIDE DEF u, c, d
<1>5. CASE c = Root /\ \A i \in 1..N : u[i] \notin tops \cup Bands
  BY <1>1, <1>3, <1>5
<1>6. CASE \E i \in 1..N : /\ c = u[i] /\ u[i] \in tops \cup Bands
                           /\ \A j \in 1..N : u[j] \in tops \cup Bands => i <= j
  <2>1. PICK i \in 1..N : /\ c = u[i] /\ u[i] \in tops \cup Bands
                          /\ \A j \in 1..N : u[j] \in tops \cup Bands => i <= j
    BY <1>6
  <2>2. u[i] \in tops2 \cup Bands
    BY <1>4, <2>1
  <2>3. PICK k \in 1..N : /\ d = u[k] /\ u[k] \in tops2 \cup Bands
                          /\ \A j \in 1..N : u[j] \in tops2 \cup Bands => k <= j
    BY <1>3, <2>2
  <2>4. i <= k /\ k <= i
    BY <1>1, <2>1, <2>2, <2>3
  <2>5. i = k
    BY <2>4
  <2> QED
    BY <2>1, <2>3, <2>5
<1> QED
  BY <1>2, <1>5, <1>6

\* There is a node.
LEMMA OneNode == N \in Nat \ {0}
<1>1. Nodes # {} /\ IsFiniteSet(Nodes)
  BY SceneNodesAssumption DEF Nodes
<1>2. Cardinality(Nodes) # 0
  BY <1>1, FS_EmptySet
<1> QED
  BY <1>2, NNat DEF N

\* The nearest of a node below a hit, and of one below the root.
LEMMA NearestOfParent ==
  ASSUME NEW tops, None \notin tops, NEW par \in Graph, NEW n \in Nodes,
         Root \notin tops, par[Root] = None
  PROVE  /\ par[n] \in tops \cup Bands => Nearest(tops, par, n) = par[n]
         /\ par[n] = Root => Nearest(tops, par, n) = Root
         /\ Nearest(tops, par, n) \in {Root} \cup Bands \cup tops
<1> DEFINE u == Up(par, n)
           c == Nearest(tops, par, n)
<1>1. IsUp(u, par, n)
  BY UpIs
<1>2. \/ c = Root /\ \A i \in 1..N : u[i] \notin tops \cup Bands
      \/ \E i \in 1..N : /\ c = u[i] /\ u[i] \in tops \cup Bands
                         /\ \A j \in 1..N : u[j] \in tops \cup Bands => i <= j
  BY NearestIs
<1> HIDE DEF u, c
<1>3. 1 \in 1..N /\ u[1] = par[n]
  BY <1>1, OneNode DEF IsUp
<1>4. ASSUME par[n] \in tops \cup Bands PROVE c = par[n]
  <2>1. PICK i \in 1..N : /\ c = u[i] /\ u[i] \in tops \cup Bands
                          /\ \A j \in 1..N : u[j] \in tops \cup Bands => i <= j
    BY <1>2, <1>3, <1>4
  <2>2. i = 1
    BY <1>3, <1>4, <2>1
  <2> QED
    BY <1>3, <2>1, <2>2
<1>5. ASSUME par[n] = Root PROVE c = Root
  <2> DEFINE T == {i \in Nat : i + 2 \in 0..N => u[i + 2] = None}
  <2>0. Root \in Nodes /\ None \notin Nodes /\ Root \notin Bands /\ None \notin Bands
    BY SceneNodesAssumption DEF Nodes
  <2>1. 0 \in T
    <3>1. CASE 2 \in 0..N
      <4>1. u[2] = IF u[1] \in Nodes THEN par[u[1]] ELSE None
        BY <1>1, <3>1 DEF IsUp
      <4> QED
        BY <4>1, <1>3, <1>5, <2>0
    <3> QED
      BY <3>1
  <2>2. ASSUME NEW i \in Nat, i \in T PROVE i + 1 \in T
    <3>1. CASE (i + 1) + 2 \in 0..N
      <4>1. (i + 1) + 2 \in 1..N /\ ((i + 1) + 2) - 1 = i + 2 /\ i + 2 \in 0..N
        BY <3>1, NNat
      <4>2. u[(i + 1) + 2] = IF u[i + 2] \in Nodes THEN par[u[i + 2]] ELSE None
        BY <1>1, <4>1 DEF IsUp
      <4> QED
        BY <4>1, <4>2, <2>2, <2>0
    <3> QED
      BY <3>1
  <2>3. Nat \subseteq T
    <3> HIDE DEF T
    <3> QED
      BY <2>1, <2>2, Induction
  <2>4. ASSUME NEW i \in 1..N PROVE u[i] \notin tops \cup Bands
    <3>1. CASE i = 1
      BY <1>3, <1>5, <2>0, <3>1
    <3>2. CASE i # 1
      <4>1. i - 2 \in Nat /\ (i - 2) + 2 = i /\ i \in 0..N
        BY <3>2, NNat
      <4>2. i - 2 \in T
        BY <2>3, <4>1
      <4>3. u[i] = None
        BY <4>1, <4>2
      <4> QED
        BY <4>3, <2>0
    <3> QED
      BY <3>1, <3>2
  <2> QED
    BY <1>2, <2>4
<1> QED
  BY <1>2, <1>4, <1>5 DEF c

-----------------------------------------------------------------------------
(* The inductive invariant of SceneNodes.                                  *)

\* The bands hang from the root, a toplevel's tree from the desktop, and
\* every other allocated node from an allocated one.
Anchored ==
  /\ Bands \cup {Root} \subseteq live
  /\ parent[Root] = None
  /\ \A b \in Bands : parent[b] = Root
  /\ \A t \in Toplevels \cap live : parent[t] = Desktop
  /\ \A n \in live \ {Root} : parent[n] \in live

\* No call by id can destroy or move what the consumer did not create.
Origins ==
  /\ \A n \in Bands \cup {Root} : nodes[n] = "Protected"
  /\ \A t \in Toplevels : nodes[t] \in {"none", "Foreign"}

\* The counters say which closures are on the stack.
FramesCounted ==
  /\ foreignFrames = Len(held)
  /\ nodeBorrows = Cardinality({i \in DOMAIN held : held[i] # None})

\* The parent in a row is the nearest ancestor that can be one.
RectsClassified ==
  \A r \in Rects : rects[r] # None => rects[r] = Nearest(toplevels, parent, r)

\* The fill exists only under a lock, and none is hidden beforehand.
FillKnown ==
  /\ ~locked => lockFill = None
  /\ lockFill = None => Fill \notin live
  /\ Fill \notin live => Fill \notin disabled

GraphTypes ==
  /\ live \subseteq Nodes
  /\ parent \in Graph
  /\ nodes \in [Nodes -> {"none", "Owned", "Protected", "Foreign"}]
  /\ rects \in [Rects \cup {Fill} -> {Root, None} \cup Bands \cup Toplevels]
  /\ toplevels \subseteq Toplevels

\* What is invariant of the graph and the tables.
GraphInv == /\ GraphTypes /\ Rooted /\ RowsNameLive
            /\ Anchored /\ Origins /\ RectsClassified

IInv == /\ TypeOK
        /\ Rooted /\ RowsNameLive
        /\ Anchored /\ Origins /\ RectsClassified
        /\ FramesCounted /\ HeldIsLive
        /\ FillKnown /\ FillIntact

\* classify_parent finds the nearest ancestor.
LEMMA NearestIsClassify ==
  \A par, n : Classify(par, n) = Nearest(toplevels, par, n)
BY DEF Classify, Nearest

\* The kinds of nodes, and what tells them apart.
LEMMA Sorts ==
  /\ Root \in Nodes /\ Bands \subseteq Nodes /\ Toplevels \subseteq Nodes
  /\ Created \subseteq Nodes /\ Fill \in Nodes /\ Rects \subseteq Created
  /\ Trees \subseteq Created /\ None \notin Nodes
  /\ Root \notin Bands \cup Created \cup Toplevels \cup {Fill}
  /\ Fill \notin Bands \cup Created \cup Toplevels
  /\ Bands \cap (Created \cup Toplevels) = {} /\ Toplevels \cap Created = {}
  /\ Desktop \in Bands /\ LockBand \in Bands /\ Desktop # LockBand
BY SceneNodesAssumption DEF Nodes, Bands, Created

\* What is above a node above another is above the other.
LEMMA AboveTrans ==
  ASSUME NEW par \in Graph, NEW n \in Nodes, NEW m \in Above(par, n)
  PROVE  Above(par, m) \subseteq Above(par, n)
<1>1. /\ m \in Nodes
      /\ \A x \in Above(par, n) \cap Nodes : par[x] \in Above(par, n) \cup {None}
  BY AboveClosed
<1> QED
  BY <1>1, AboveLeast

-----------------------------------------------------------------------------
(* What the graph's own changes preserve                                   *)

\* A new node under an allocated one leaves every way up alone.
LEMMA AttachKeeps ==
  ASSUME GraphInv, NEW n \in Nodes \ live, NEW p \in live,
         live' = live \cup {n}, parent' = [parent EXCEPT ![n] = p]
  PROVE  /\ parent' \in Graph
         /\ \A m \in live : Up(parent', m) = Up(parent, m)
         /\ Rooted'
<1>1. parent' \in Graph /\ parent \in Graph /\ live \subseteq Nodes
  BY DEF GraphInv, GraphTypes, Graph
<1>2. ASSUME NEW m \in live
      PROVE  Up(parent', m) = Up(parent, m) /\ Above(parent', m) = Above(parent, m)
  <2>1. Above(parent, m) \subseteq live
    BY DEF GraphInv, Rooted
  <2>2. \A x \in Above(parent, m) : parent'[x] = parent[x]
    BY <1>1, <2>1 DEF Graph
  <2> QED
    BY <1>1, <2>2, UpSame
<1>3. ASSUME NEW m \in live PROVE Root \in Above(parent', m) /\ Above(parent', m) \subseteq live'
  BY <1>2 DEF GraphInv, Rooted
<1>4. Root \in Above(parent', n) /\ Above(parent', n) \subseteq live'
  <2>1. parent'[n] = p /\ n \in Nodes /\ p \in Nodes
    BY <1>1 DEF Graph
  <2>2. p \in Above(parent', n)
    <3>1. /\ n \in Above(parent', n)
          /\ \A m \in Above(parent', n) : parent'[m] \in Above(parent', n) \cup {None}
      BY <1>1, <2>1, AboveClosed
    <3> QED
      BY <2>1, <3>1, Sorts
  <2>3. Root \in Above(parent', n)
    BY <1>1, <1>3, <2>2, AboveTrans
  <2> DEFINE S == {n} \cup Above(parent', p)
  <2>4. \A x \in S \cap Nodes : parent'[x] \in S \cup {None}
    BY <1>1, <2>1, AboveClosed
  <2>5. Above(parent', n) \subseteq S
    <3> HIDE DEF S
    <3>1. n \in S
      BY DEF S
    <3> QED
      BY <1>1, <2>4, <3>1, AboveLeast
  <2> QED
    BY <1>3, <2>3, <2>5
<1> QED
  BY <1>1, <1>2, <1>3, <1>4 DEF Rooted

\* Freeing what is below a node leaves the other ways up alone.
LEMMA CascadeKeeps ==
  ASSUME GraphInv, NEW x \in Nodes, Cascade(Subtree(x))
  PROVE  /\ parent' \in Graph
         /\ live' \subseteq live
         /\ \A m \in live' : /\ m \notin Subtree(x) /\ parent'[m] = parent[m]
                             /\ Up(parent', m) = Up(parent, m)
         /\ Rooted'
<1>1. /\ parent' \in Graph /\ parent \in Graph /\ live \subseteq Nodes
      /\ live' = live \ Subtree(x)
      /\ \A m \in Nodes : parent'[m] = IF m \in Subtree(x) THEN None ELSE parent[m]
  BY DEF GraphInv, GraphTypes, Graph, Cascade
<1>2. ASSUME NEW m \in live'
      PROVE  /\ Up(parent', m) = Up(parent, m) /\ Above(parent', m) = Above(parent, m)
             /\ Above(parent, m) \subseteq live'
  <2>1. m \in live /\ m \in Nodes /\ x \notin Above(parent, m)
    BY <1>1 DEF Subtree
  <2>2. Above(parent, m) \subseteq live
    BY <2>1 DEF GraphInv, Rooted
  <2>3. ASSUME NEW y \in Above(parent, m) PROVE y \notin Subtree(x)
    BY <1>1, <2>1, AboveTrans DEF Subtree
  <2>4. \A y \in Above(parent, m) : parent'[y] = parent[y]
    BY <1>1, <2>2, <2>3
  <2> QED
    BY <1>1, <2>1, <2>2, <2>3, <2>4, UpSame
<1>3. Rooted'
  BY <1>1, <1>2 DEF GraphInv, Rooted
<1> QED
  BY <1>1, <1>2, <1>3

\* What the crate and wlroots created is below nothing that can be destroyed.
LEMMA Spared ==
  ASSUME GraphInv, NEW x \in Nodes \ ({Root} \cup Bands),
         NEW y \in {Root} \cup Bands \cup (live \cap Toplevels), y # x
  PROVE  y \notin Subtree(x)
<1>1. parent \in Graph /\ y \in Nodes
  BY Sorts DEF GraphInv, GraphTypes
<1> DEFINE S == {y, Desktop, Root} \cup Bands
<1>2. \A m \in S \cap Nodes : parent[m] \in S \cup {None}
  BY Sorts DEF GraphInv, Anchored
<1>3. Above(parent, y) \subseteq S
  <2>1. y \in S
    OBVIOUS
  <2> HIDE DEF S
  <2> QED
    BY <1>1, <1>2, <2>1, AboveLeast
<1> QED
  BY <1>3, Sorts DEF Subtree

\* So is the fill while it is under the lock band.
LEMMA FillSpared ==
  ASSUME GraphInv, parent[Fill] = LockBand,
         NEW x \in Nodes \ ({Root, Fill} \cup Bands)
  PROVE  Fill \notin Subtree(x)
<1>1. parent \in Graph /\ Fill \in Nodes
  BY Sorts DEF GraphInv, GraphTypes
<1> DEFINE S == {Fill, Root} \cup Bands
<1>2. \A m \in S \cap Nodes : parent[m] \in S \cup {None}
  BY Sorts DEF GraphInv, Anchored
<1>3. Above(parent, Fill) \subseteq S
  <2>1. Fill \in S
    OBVIOUS
  <2> HIDE DEF S
  <2> QED
    BY <1>1, <1>2, <2>1, AboveLeast
<1> QED
  BY <1>3, Sorts DEF Subtree

\* A moved node stays under the root, for its new parent is not below it.
LEMMA MoveKeepsRooted ==
  ASSUME GraphInv, NEW n \in live, NEW p \in live, n \notin Above(parent, p),
         parent' = [parent EXCEPT ![n] = p], live' = live, n # Root
  PROVE  parent' \in Graph /\ Rooted'
<1>1. /\ parent' \in Graph /\ parent \in Graph /\ live \subseteq Nodes
      /\ \A m \in Nodes : parent'[m] = IF m = n THEN p ELSE parent[m]
  BY DEF GraphInv, GraphTypes, Graph
<1>2. Root \in Above(parent', p)
  <2>1. \A m \in Above(parent, p) : parent'[m] = parent[m]
    BY <1>1, AboveClosed
  <2>2. Above(parent', p) = Above(parent, p)
    BY <1>1, <2>1, UpSame
  <2> QED
    BY <2>2 DEF GraphInv, Rooted
<1>3. ASSUME NEW m \in live PROVE Root \in Above(parent', m)
  <2> DEFINE S == Above(parent', m)
  <2>1. m \in S /\ S \subseteq Nodes /\ \A y \in S : parent'[y] \in S \cup {None}
    BY <1>1, AboveClosed
  <2>2. CASE n \in S
    <3>1. p \in S
      BY <1>1, <2>1, <2>2, Sorts
    <3> QED
      BY <1>1, <1>2, <3>1, AboveTrans
  <2>3. CASE n \notin S
    <3>1. \A y \in S \cap Nodes : parent[y] \in S \cup {None}
      BY <1>1, <2>1, <2>3
    <3>2. Above(parent, m) \subseteq S
      <4> HIDE DEF S
      <4> QED
        BY <1>1, <2>1, <3>1, AboveLeast
    <3> QED
      BY <3>2 DEF GraphInv, Rooted
  <2> QED
    BY <2>2, <2>3
<1>4. ASSUME NEW m \in live PROVE Above(parent', m) \subseteq live
  <2>1. \A y \in live \cap Nodes : parent'[y] \in live \cup {None}
    BY <1>1 DEF GraphInv, Anchored
  <2> QED
    BY <1>1, <2>1, AboveLeast
<1> QED
  BY <1>1, <1>3, <1>4 DEF Rooted

-----------------------------------------------------------------------------
(* What the operations on the graph preserve                               *)

\* A node appended under an allocated one, with its row if it is a rect or
\* the fill, and in the table if it is a toplevel's tree.
LEMMA AttachPreserves ==
  ASSUME GraphInv, NEW n \in (Created \cup Toplevels \cup {Fill}) \ live, NEW p \in live,
         NEW origin \in {"none", "Owned"},
         Attach(n, p, origin), n \in Toplevels => p = Desktop /\ origin = "none",
         \/ rects' = rects
         \/ /\ n \in Rects \cup {Fill} /\ p \in {Root} \cup Bands \cup toplevels
            /\ rects' = [rects EXCEPT ![n] = p],
         toplevels' = toplevels \cup ({n} \cap Toplevels)
  PROVE  GraphInv'
<1>1. /\ live' = live \cup {n} /\ parent' = [parent EXCEPT ![n] = p]
      /\ nodes' = [nodes EXCEPT ![n] = origin] /\ n \in Nodes \ live
  BY Sorts DEF Attach
<1>2. /\ parent' \in Graph /\ parent \in Graph
      /\ \A m \in live : Up(parent', m) = Up(parent, m)
      /\ Rooted'
  BY <1>1, AttachKeeps DEF GraphInv, GraphTypes
<1>3. /\ \A m \in Nodes : parent'[m] = IF m = n THEN p ELSE parent[m]
      /\ \A m \in Nodes : nodes'[m] = IF m = n THEN origin ELSE nodes[m]
      /\ live \subseteq Nodes /\ toplevels \subseteq live
  BY <1>1 DEF GraphInv, GraphTypes, Graph, RowsNameLive
<1>4. GraphTypes'
  <2>1. live' \subseteq Nodes /\ toplevels' \subseteq Toplevels
    BY <1>1 DEF GraphInv, GraphTypes
  <2>2. nodes' \in [Nodes -> {"none", "Owned", "Protected", "Foreign"}]
    BY <1>1 DEF GraphInv, GraphTypes
  <2>3. rects' \in [Rects \cup {Fill} -> {Root, None} \cup Bands \cup Toplevels]
    BY DEF GraphInv, GraphTypes
  <2> QED
    BY <1>2, <2>1, <2>2, <2>3 DEF GraphTypes
<1>5. \A r \in Rects \cup {Fill} :
        \/ rects'[r] = rects[r]
        \/ r = n /\ rects'[r] = p /\ p \in {Root} \cup Bands \cup toplevels
  BY DEF GraphInv, GraphTypes
<1>6. RowsNameLive'
  BY <1>1, <1>3, <1>5 DEF GraphInv, RowsNameLive
<1>7. Anchored'
  BY <1>1, <1>3, Sorts DEF GraphInv, Anchored
<1>8. Origins'
  BY <1>1, <1>3, Sorts DEF GraphInv, Origins
<1>9. ASSUME NEW r \in Rects, rects'[r] # None
      PROVE  rects'[r] = Nearest(toplevels', parent', r)
  <2>1. /\ None \notin toplevels' /\ Root \notin toplevels' /\ parent'[Root] = None
        /\ r \in Nodes
    BY <1>3, <1>7, Sorts DEF GraphInv, GraphTypes, Anchored
  <2>2. CASE r = n
    <3>1. rects[n] = None
      BY <1>1, <2>2 DEF GraphInv, RowsNameLive
    <3>2. rects'[r] = p /\ p \in {Root} \cup Bands \cup toplevels /\ parent'[r] = p
      BY <1>3, <1>5, <1>9, <2>1, <2>2, <3>1
    <3>3. CASE p = Root
      BY <1>2, <2>1, <3>2, <3>3, NearestOfParent
    <3>4. CASE p \in toplevels' \cup Bands
      BY <1>2, <2>1, <3>2, <3>4, NearestOfParent
    <3> QED
      BY <3>2, <3>3, <3>4
  <2>3. CASE r # n
    <3>1. rects[r] # None /\ rects'[r] = rects[r] /\ r \in live
      BY <1>5, <1>9, <2>3 DEF GraphInv, RowsNameLive
    <3>2. rects[r] = Nearest(toplevels, parent, r) /\ Up(parent', r) = Up(parent, r)
      BY <1>2, <3>1 DEF GraphInv, RectsClassified
    <3>3. Above(parent, r) \subseteq live
      BY <3>1 DEF GraphInv, Rooted
    <3>4. \A m \in Above(parent, r) : m \in toplevels' => m \in toplevels
      BY <1>1, <3>3
    <3>5. Nearest(toplevels, parent, r) \in toplevels => Nearest(toplevels, parent, r) \in toplevels'
      OBVIOUS
    <3> QED
      BY <1>2, <2>1, <3>1, <3>2, <3>4, <3>5, NearestKept
  <2> QED
    BY <2>2, <2>3
<1> QED
  BY <1>2, <1>4, <1>6, <1>7, <1>8, <1>9 DEF GraphInv, RectsClassified

\* What is freed takes its rows along.
LEMMA CascadePreserves ==
  ASSUME GraphInv, NEW x \in (Created \cup Toplevels \cup {Fill}) \ toplevels,
         Cascade(Subtree(x)), UNCHANGED toplevels
  PROVE  GraphInv'
<1> DEFINE gone == Subtree(x)
<1>1. /\ live' = live \ gone
      /\ \A m \in Nodes : parent'[m] = IF m \in gone THEN None ELSE parent[m]
      /\ \A m \in Nodes : nodes'[m] = IF m \in gone THEN "none" ELSE nodes[m]
      /\ \A r \in Rects \cup {Fill} : rects'[r] = IF r \in gone THEN None ELSE rects[r]
      /\ nodes' = [m \in Nodes |-> nodes'[m]]
      /\ rects' = [r \in Rects \cup {Fill} |-> rects'[r]]
  BY DEF Cascade
<1>2. /\ parent' \in Graph /\ parent \in Graph /\ live' \subseteq live
      /\ \A m \in live' : /\ m \notin gone /\ parent'[m] = parent[m]
                          /\ Up(parent', m) = Up(parent, m)
      /\ Rooted'
  <2>1. x \in Nodes
    BY Sorts
  <2> QED
    BY <2>1, CascadeKeeps DEF GraphInv, GraphTypes
<1>3. /\ \A y \in {Root} \cup Bands : y \notin gone
      /\ \A t \in toplevels : t \notin gone
      /\ \A t \in live \cap Toplevels : t # x => t \notin gone
  <2>1. x \in Nodes \ ({Root} \cup Bands)
    BY Sorts
  <2>2. toplevels \subseteq live \cap Toplevels
    BY DEF GraphInv, GraphTypes, RowsNameLive
  <2>3. \A y \in {Root} \cup Bands : y # x
    BY Sorts
  <2> QED
    BY <2>1, <2>2, <2>3, Spared
<1> HIDE DEF gone
<1>4. GraphTypes'
  <2>1. nodes' \in [Nodes -> {"none", "Owned", "Protected", "Foreign"}]
    BY <1>1 DEF GraphInv, GraphTypes
  <2>2. rects' \in [Rects \cup {Fill} -> {Root, None} \cup Bands \cup Toplevels]
    BY <1>1 DEF GraphInv, GraphTypes
  <2> QED
    BY <1>1, <1>2, <2>1, <2>2 DEF GraphInv, GraphTypes
<1>5. RowsNameLive'
  <2>1. \A n \in Nodes : nodes'[n] # "none" => n \in live'
    BY <1>1 DEF GraphInv, RowsNameLive
  <2>2. \A r \in Rects \cup {Fill} : rects'[r] # None => r \in live'
    BY <1>1 DEF GraphInv, RowsNameLive
  <2> QED
    BY <1>1, <1>3, <2>1, <2>2 DEF GraphInv, RowsNameLive
<1>6. Anchored'
  <2>1. ASSUME NEW n \in live' \ {Root} PROVE parent'[n] \in live'
    <3>1. parent[n] \in live /\ parent'[n] = parent[n] /\ n \in Nodes
      BY <1>2, <2>1 DEF GraphInv, Anchored, GraphTypes
    <3>2. parent'[n] \in Above(parent', n)
      <4>1. /\ n \in Above(parent', n)
            /\ \A m \in Above(parent', n) : parent'[m] \in Above(parent', n) \cup {None}
        BY <1>2, <3>1, AboveClosed
      <4> QED
        BY <3>1, <4>1, Sorts DEF GraphInv, GraphTypes
    <3> QED
      BY <1>2, <2>1, <3>2 DEF Rooted
  <2> QED
    BY <1>1, <1>2, <1>3, <2>1, Sorts DEF GraphInv, Anchored
<1>7. Origins'
  BY <1>1, <1>3, Sorts DEF GraphInv, Origins
<1>8. ASSUME NEW r \in Rects, rects'[r] # None
      PROVE  rects'[r] = Nearest(toplevels', parent', r)
  <2>1. rects[r] # None /\ rects'[r] = rects[r] /\ r \in live' /\ r \in Nodes
    BY <1>1, <1>5, <1>8, Sorts DEF RowsNameLive
  <2>2. rects[r] = Nearest(toplevels, parent, r) /\ Up(parent', r) = Up(parent, r)
    BY <1>2, <2>1 DEF GraphInv, RectsClassified
  <2>3. None \notin toplevels
    BY Sorts DEF GraphInv, GraphTypes
  <2> QED
    BY <1>2, <2>1, <2>2, <2>3, NearestKept
<1> QED
  BY <1>2, <1>4, <1>5, <1>6, <1>7, <1>8 DEF GraphInv, RectsClassified

\* A move keeps the tree, and every recorded parent is found again.
LEMMA ReparentPreserves ==
  ASSUME GraphInv, NEW n \in Created \cup {Fill}, NEW p \in Nodes, ReparentNode(n, p)
  PROVE  GraphInv'
<1>1. /\ n # p /\ nodes[n] = "Owned" /\ n \notin Above(parent, p)
      /\ nodes[p] # "none" /\ live' = live /\ nodes' = nodes /\ toplevels' = toplevels
      /\ parent' = [parent EXCEPT ![n] = p]
      /\ \A r \in Rects \cup {Fill} :
           rects'[r] = IF rects[r] = None THEN None ELSE Nearest(toplevels, parent', r)
      /\ rects' = [r \in Rects \cup {Fill} |-> rects'[r]]
  BY NearestIsClassify DEF ReparentNode, OwnedNode, TreeNode, shell
<1>2. n \in live /\ p \in live /\ n \in Nodes /\ n # Root
  BY <1>1, Sorts DEF GraphInv, RowsNameLive
<1>3. parent' \in Graph /\ Rooted'
  BY <1>1, <1>2, MoveKeepsRooted
<1>4. \A m \in Nodes : parent'[m] = IF m = n THEN p ELSE parent[m]
  BY <1>1 DEF GraphInv, GraphTypes, Graph
<1>5. Anchored'
  BY <1>1, <1>2, <1>4, Sorts DEF GraphInv, Anchored, GraphTypes
<1>6. \A r \in Rects \cup {Fill} :
        Nearest(toplevels, parent', r) \in {Root} \cup Bands \cup toplevels
  <2>1. None \notin toplevels /\ Root \notin toplevels /\ parent'[Root] = None
    BY <1>5, Sorts DEF GraphInv, GraphTypes, Anchored
  <2>2. Rects \cup {Fill} \subseteq Nodes
    BY Sorts
  <2> QED
    BY <1>3, <2>1, <2>2, NearestOfParent
<1>7. GraphTypes'
  BY <1>1, <1>3, <1>6 DEF GraphInv, GraphTypes
<1>8. RowsNameLive' /\ Origins'
  BY <1>1 DEF GraphInv, RowsNameLive, Origins
<1>9. RectsClassified'
  BY <1>1 DEF RectsClassified
<1> QED
  BY <1>3, <1>5, <1>7, <1>8, <1>9 DEF GraphInv

\* Toplevels that die take the rows below them along.
LEMMA PurgePreserves ==
  ASSUME GraphInv, NEW gone \in SUBSET toplevels, PurgeRects(gone),
         toplevels' = toplevels \ gone, UNCHANGED <<live, parent, nodes>>
  PROVE  GraphInv'
<1>1. /\ \A r \in Rects \cup {Fill} :
           rects'[r] = IF rects[r] \in gone THEN None ELSE rects[r]
      /\ rects' = [r \in Rects \cup {Fill} |-> rects'[r]]
  BY DEF PurgeRects
<1>2. GraphTypes'
  BY <1>1 DEF GraphInv, GraphTypes
<1>3. RowsNameLive' /\ Rooted' /\ Anchored' /\ Origins'
  BY <1>1 DEF GraphInv, RowsNameLive, Rooted, Anchored, Origins
<1>4. ASSUME NEW r \in Rects, rects'[r] # None
      PROVE  rects'[r] = Nearest(toplevels', parent', r)
  <2>1. rects'[r] = rects[r] /\ rects[r] # None /\ rects[r] \notin gone /\ r \in Nodes
    BY <1>1, <1>4, Sorts
  <2>2. rects[r] = Nearest(toplevels, parent, r)
    BY <2>1 DEF GraphInv, RectsClassified
  <2>3. None \notin toplevels' /\ parent \in Graph /\ parent' = parent
    BY Sorts DEF GraphInv, GraphTypes
  <2>4. Nearest(toplevels, parent, r) \in toplevels => Nearest(toplevels, parent, r) \in toplevels'
    BY <2>1, <2>2
  <2> QED
    BY <2>1, <2>2, <2>3, <2>4, NearestKept
<1> QED
  BY <1>2, <1>3, <1>4 DEF GraphInv, RectsClassified

-----------------------------------------------------------------------------
(* The closures and the lock                                               *)

FramesInv == /\ held \in Seq(Nodes \cup {None})
             /\ nodeBorrows \in Nat /\ foreignFrames \in Nat
             /\ FramesCounted /\ HeldIsLive

LockInv == /\ locked \in BOOLEAN /\ lockFill \in {Fill, None}
           /\ disabled \subseteq {LockBand, Fill} /\ moved \subseteq {Fill}
           /\ FillKnown /\ FillIntact

\* The invariant in three parts that different actions disturb.
LEMMA Parts == IInv <=> GraphInv /\ LockInv /\ FramesInv /\ running \in BOOLEAN
BY DEF IInv, GraphInv, GraphTypes, Graph, LockInv, FramesInv, TypeOK

\* The same after a step.
LEMMA PartsNext ==
  ASSUME GraphInv', LockInv', FramesInv', running' \in BOOLEAN
  PROVE  IInv'
BY DEF IInv, GraphInv, GraphTypes, Graph, LockInv, FramesInv, TypeOK

\* While nothing walks the scene no closure is on the stack.
LEMMA NoClosure ==
  ASSUME FramesInv, ~SceneIsBeingWalked \/ Dispatching
  PROVE  held = <<>>
<1>1. CASE Dispatching
  BY <1>1 DEF Dispatching
<1>2. CASE ~SceneIsBeingWalked
  <2>1. Len(held) = 0 /\ held \in Seq(Nodes \cup {None})
    BY <1>2 DEF FramesInv, FramesCounted, SceneIsBeingWalked
  <2> QED
    BY <2>1
<1> QED
  BY <1>1, <1>2

\* A step of something else frees nothing while a closure is on the stack.
LEMMA FramesKept ==
  ASSUME FramesInv, held = <<>> \/ live \subseteq live', UNCHANGED frames
  PROVE  FramesInv'
<1>1. /\ held' = held /\ nodeBorrows' = nodeBorrows /\ foreignFrames' = foreignFrames
  BY DEF frames
<1>2. HeldIsLive'
  <2>1. CASE held = <<>>
    <3>1. ToSet(held') = {}
      BY <1>1, <2>1 DEF ToSet
    <3> QED
      BY <3>1 DEF HeldIsLive
  <2>2. CASE live \subseteq live'
    BY <1>1, <2>2 DEF FramesInv, HeldIsLive
  <2> QED
    BY <2>1, <2>2
<1> QED
  BY <1>1, <1>2 DEF FramesInv, FramesCounted

\* The fill is allocated under a lock, under the lock band, and in its row.
LEMMA FillAt ==
  ASSUME GraphInv, LockInv
  PROVE  /\ Fill \in live => /\ locked /\ lockFill = Fill
                             /\ parent[Fill] = LockBand /\ rects[Fill] = LockBand
                             /\ LockedAway(Fill) /\ Fill \notin moved \cup disabled
         /\ Fill \notin live => rects[Fill] = None /\ nodes[Fill] = "none" /\ lockFill = None
         /\ ~OwnedNode(Fill)
<1>1. Fill \in live => /\ locked /\ lockFill = Fill
                       /\ parent[Fill] = LockBand /\ rects[Fill] = LockBand
                       /\ Fill \notin moved \cup disabled
  BY DEF LockInv, FillKnown, FillIntact
<1>2. Fill \in live => LockBand \in Above(parent, Fill)
  <2>1. parent \in Graph /\ Fill \in Nodes
    BY Sorts DEF GraphInv, GraphTypes
  <2>2. /\ Fill \in Above(parent, Fill)
        /\ \A m \in Above(parent, Fill) : parent[m] \in Above(parent, Fill) \cup {None}
    BY <2>1, AboveClosed
  <2> QED
    BY <1>1, <2>2, Sorts
<1>3. Fill \notin live => rects[Fill] = None /\ nodes[Fill] = "none" /\ lockFill = None
  BY Sorts DEF GraphInv, RowsNameLive, LockInv, FillIntact, FillKnown
<1> QED
  BY <1>1, <1>2, <1>3 DEF LockedAway, OwnedNode

\* A step that leaves the fill where it is leaves the lock as it is.
LEMMA LockKept ==
  ASSUME GraphInv, LockInv, UNCHANGED lock, Fill \in live' <=> Fill \in live,
         Fill \in live => parent'[Fill] = parent[Fill] /\ rects'[Fill] = rects[Fill]
  PROVE  LockInv'
<1>1. /\ locked' = locked /\ lockFill' = lockFill /\ disabled' = disabled /\ moved' = moved
  BY DEF lock
<1>2. FillKnown'
  BY <1>1 DEF LockInv, FillKnown
<1>3. FillIntact'
  BY <1>1, FillAt DEF LockInv, FillIntact
<1> QED
  BY <1>1, <1>2, <1>3 DEF LockInv

\* What shell stands for.
LEMMA RunningKept ==
  ASSUME UNCHANGED shell PROVE running' = running /\ toplevels' = toplevels
BY DEF shell

\* What OwnedNode accepts the consumer created.
LEMMA OwnedIsCreated ==
  ASSUME GraphInv, LockInv, NEW n \in Nodes, OwnedNode(n)
  PROVE  n \in Created \cap live
<1>1. nodes[n] = "Owned"
  BY DEF OwnedNode
<1>2. n \in live
  BY <1>1 DEF GraphInv, RowsNameLive
<1>3. n # Fill
  BY FillAt
<1> QED
  BY <1>1, <1>2, <1>3 DEF GraphInv, Origins, Nodes

-----------------------------------------------------------------------------
\* The scene after init_graphics.
LEMMA InitIInv == Init => IInv
<1> SUFFICES ASSUME Init PROVE IInv
  OBVIOUS
<1>1. /\ live = Bands \cup {Root} /\ live \subseteq Nodes
      /\ \A n \in Nodes : parent[n] = IF n \in Bands THEN Root ELSE None
      /\ \A n \in Nodes : nodes[n] = IF n \in live THEN "Protected" ELSE "none"
      /\ \A r \in Rects \cup {Fill} : rects[r] = None
  BY Sorts DEF Init
<1>2. GraphTypes
  BY Sorts, <1>1 DEF Init, GraphTypes, Graph
<1>3. Rooted
  <2> SUFFICES ASSUME NEW n \in live
               PROVE  Root \in Above(parent, n) /\ Above(parent, n) \subseteq live
    BY DEF Rooted
  <2>1. n \in Nodes /\ parent \in Graph
    BY <1>2 DEF GraphTypes
  <2>2. /\ n \in Above(parent, n)
        /\ \A m \in Above(parent, n) : parent[m] \in Above(parent, n) \cup {None}
    BY <2>1, AboveClosed
  <2>3. Root \in Above(parent, n)
    BY <1>1, <2>1, <2>2, Sorts
  <2>4. \A m \in live \cap Nodes : parent[m] \in live \cup {None}
    BY <1>1, Sorts
  <2> QED
    BY <2>1, <2>3, <2>4, AboveLeast
<1>4. RowsNameLive /\ Anchored /\ Origins /\ RectsClassified
  BY <1>1, Sorts DEF Init, RowsNameLive, Anchored, Origins, RectsClassified
<1>5. LockInv
  BY <1>1, Sorts DEF Init, LockInv, FillKnown, FillIntact
<1>6. FramesInv
  <2>1. held = <<>> /\ nodeBorrows = 0 /\ foreignFrames = 0
    BY DEF Init
  <2>2. ToSet(held) = {} /\ {i \in DOMAIN held : held[i] # None} = {}
    BY <2>1 DEF ToSet
  <2>3. Cardinality({i \in DOMAIN held : held[i] # None}) = 0
    BY <2>2, FS_EmptySet
  <2> QED
    BY <2>1, <2>2, <2>3 DEF FramesInv, FramesCounted, HeldIsLive
<1> QED
  BY <1>2, <1>3, <1>4, <1>5, <1>6, Parts DEF GraphInv, Init

-----------------------------------------------------------------------------
(* One lemma for each group of actions                                     *)

\* create_tree_under and its siblings.
LEMMA CreateNodeIInv ==
  ASSUME IInv, NEW n \in Created, NEW p \in Nodes, CreateNode(n, p)
  PROVE  IInv'
<1>1. GraphInv /\ LockInv /\ FramesInv /\ running \in BOOLEAN
  BY Parts
<1>2. /\ n \notin live /\ nodes[p] # "none" /\ Attach(n, p, "Owned") /\ rects' = rects
      /\ UNCHANGED shell /\ UNCHANGED lock /\ UNCHANGED frames
  BY DEF CreateNode, TreeNode
<1>3. running' = running /\ toplevels' = toplevels
  BY <1>2, RunningKept
<1>4. p \in live
  BY <1>1, <1>2 DEF GraphInv, RowsNameLive
<1>5. GraphInv'
  <2>1. {n} \cap Toplevels = {}
    BY Sorts
  <2> QED
    BY <1>1, <1>2, <1>3, <1>4, <2>1, AttachPreserves
<1>6. live \subseteq live' /\ (Fill \in live' <=> Fill \in live)
      /\ parent'[Fill] = parent[Fill]
  BY <1>1, <1>2, Sorts DEF Attach, GraphInv, GraphTypes, Graph
<1>7. LockInv'
  BY <1>1, <1>2, <1>6, LockKept
<1>8. FramesInv'
  BY <1>1, <1>2, <1>6, FramesKept
<1> QED
  BY <1>1, <1>3, <1>5, <1>7, <1>8, PartsNext

\* add_rect and its siblings.
LEMMA AddRectIInv ==
  ASSUME IInv, NEW r \in Rects, NEW p \in Nodes, AddRect(r, p)
  PROVE  IInv'
<1>1. GraphInv /\ LockInv /\ FramesInv /\ running \in BOOLEAN
  BY Parts
<1>2. /\ r \notin live /\ p \in {Root} \cup Bands \cup toplevels
      /\ Attach(r, p, "Owned") /\ rects' = [rects EXCEPT ![r] = p]
      /\ UNCHANGED shell /\ UNCHANGED lock /\ UNCHANGED frames
  BY DEF AddRect
<1>3. running' = running /\ toplevels' = toplevels
  BY <1>2, RunningKept
<1>4. p \in live
  BY <1>1, <1>2 DEF GraphInv, RowsNameLive, Anchored
<1>5. GraphInv'
  <2>1. {r} \cap Toplevels = {} /\ r \in Created \ live
    BY <1>2, Sorts
  <2> QED
    BY <1>1, <1>2, <1>3, <1>4, <2>1, AttachPreserves
<1>6. /\ live \subseteq live' /\ (Fill \in live' <=> Fill \in live)
      /\ parent'[Fill] = parent[Fill] /\ rects'[Fill] = rects[Fill]
  BY <1>1, <1>2, Sorts DEF Attach, GraphInv, GraphTypes, Graph
<1>7. LockInv'
  BY <1>1, <1>2, <1>6, LockKept
<1>8. FramesInv'
  BY <1>1, <1>2, <1>6, FramesKept
<1> QED
  BY <1>1, <1>3, <1>5, <1>7, <1>8, PartsNext

\* node_parent and its siblings.
LEMMA ObserveNodeIInv ==
  ASSUME IInv, NEW t \in Toplevels, ObserveNode(t)
  PROVE  IInv'
<1>1. GraphInv /\ LockInv /\ FramesInv /\ running \in BOOLEAN
  BY Parts
<1>2. /\ t \in live /\ nodes' = [nodes EXCEPT ![t] = "Foreign"]
      /\ live' = live /\ parent' = parent /\ rects' = rects
      /\ UNCHANGED shell /\ UNCHANGED lock /\ UNCHANGED frames
  BY DEF ObserveNode
<1>3. running' = running /\ toplevels' = toplevels
  BY <1>2, RunningKept
<1>4. GraphTypes' /\ Rooted' /\ Anchored' /\ RectsClassified'
  BY <1>1, <1>2, <1>3 DEF GraphInv, GraphTypes, Rooted, Anchored, RectsClassified
<1>5. RowsNameLive' /\ Origins'
  BY <1>1, <1>2, <1>3, Sorts DEF GraphInv, GraphTypes, RowsNameLive, Origins
<1>6. LockInv'
  BY <1>1, <1>2, LockKept
<1>7. FramesInv'
  BY <1>1, <1>2, FramesKept
<1> QED
  BY <1>1, <1>3, <1>4, <1>5, <1>6, <1>7, PartsNext DEF GraphInv

\* A cascade from a node that is neither the fill nor below the bands only.
LEMMA CascadeIInv ==
  ASSUME IInv, NEW x \in (Created \cup Toplevels) \ toplevels, Cascade(Subtree(x)),
         held = <<>>, UNCHANGED <<shell, lock, frames>>
  PROVE  IInv'
<1>1. GraphInv /\ LockInv /\ FramesInv /\ running \in BOOLEAN
  BY Parts
<1>2. running' = running /\ toplevels' = toplevels
  BY RunningKept
<1>3. GraphInv'
  BY <1>1, <1>2, CascadePreserves
<1>4. /\ Fill \in live' <=> Fill \in live
      /\ Fill \in live => parent'[Fill] = parent[Fill] /\ rects'[Fill] = rects[Fill]
  <2>1. Fill \in live => Fill \notin Subtree(x)
    <3>1. x \in Nodes \ ({Root, Fill} \cup Bands)
      BY Sorts
    <3> QED
      BY <1>1, <3>1, FillAt, FillSpared
  <2> QED
    BY <2>1, Sorts DEF Cascade
<1>5. LockInv'
  BY <1>1, <1>4, LockKept
<1>6. FramesInv'
  BY <1>1, FramesKept
<1> QED
  BY <1>1, <1>2, <1>3, <1>5, <1>6, PartsNext

\* destroy_node.
LEMMA DestroyNodeIInv ==
  ASSUME IInv, NEW n \in Nodes, DestroyNode(n)
  PROVE  IInv'
<1>1. GraphInv /\ LockInv /\ FramesInv
  BY Parts
<1>2. /\ ~SceneIsBeingWalked /\ OwnedNode(n) /\ Cascade(Subtree(n))
      /\ UNCHANGED <<shell, lock, frames>>
  BY DEF DestroyNode
<1>3. n \in Created \ toplevels
  BY <1>1, <1>2, OwnedIsCreated, Sorts DEF GraphInv, GraphTypes
<1>4. held = <<>>
  BY <1>1, <1>2, NoClosure
<1> QED
  BY <1>2, <1>3, <1>4, CascadeIInv

\* remove_rect and remove_buffer.
LEMMA RemoveRectIInv ==
  ASSUME IInv, NEW r \in Rects, RemoveRect(r)
  PROVE  IInv'
<1>1. GraphInv /\ LockInv /\ FramesInv
  BY Parts
<1>2. /\ ~SceneIsBeingWalked /\ Cascade(Subtree(r))
      /\ UNCHANGED <<shell, lock, frames>>
  BY DEF RemoveRect
<1>3. r \in Created \ toplevels
  BY <1>1, Sorts DEF GraphInv, GraphTypes
<1>4. held = <<>>
  BY <1>1, <1>2, NoClosure
<1> QED
  BY <1>2, <1>3, <1>4, CascadeIInv

\* The tree of a toplevel that died.
LEMMA TreeFreedIInv ==
  ASSUME IInv, NEW t \in Toplevels, TreeFreed(t)
  PROVE  IInv'
<1>1. FramesInv
  BY Parts
<1>2. /\ Dispatching /\ t \in live \ toplevels /\ Cascade(Subtree(t))
      /\ UNCHANGED <<shell, lock, frames>>
  BY DEF TreeFreed
<1>3. held = <<>>
  BY <1>1, <1>2, NoClosure
<1> QED
  BY <1>2, <1>3, CascadeIInv

\* reparent_node.
LEMMA ReparentNodeIInv ==
  ASSUME IInv, NEW n \in Created \cup {Fill}, NEW p \in Nodes, ReparentNode(n, p)
  PROVE  IInv'
<1>1. GraphInv /\ LockInv /\ FramesInv /\ running \in BOOLEAN
  BY Parts
<1>2. /\ OwnedNode(n) /\ live' = live /\ parent' = [parent EXCEPT ![n] = p]
      /\ \A r \in Rects \cup {Fill} :
           rects'[r] = IF rects[r] = None THEN None ELSE Nearest(toplevels, parent', r)
      /\ UNCHANGED shell /\ UNCHANGED lock /\ UNCHANGED frames
  BY NearestIsClassify DEF ReparentNode
<1>3. running' = running /\ toplevels' = toplevels
  BY <1>2, RunningKept
<1>4. GraphInv'
  BY <1>1, ReparentPreserves
<1>5. n # Fill
  BY <1>1, <1>2, FillAt
<1>6. Fill \in live => parent'[Fill] = LockBand /\ rects'[Fill] = LockBand
  <2> SUFFICES ASSUME Fill \in live PROVE parent'[Fill] = LockBand /\ rects'[Fill] = LockBand
    OBVIOUS
  <2>1. parent[Fill] = LockBand /\ rects[Fill] = LockBand
    BY <1>1, FillAt
  <2>2. parent'[Fill] = LockBand
    BY <1>1, <1>2, <1>5, <2>1, Sorts DEF GraphInv, GraphTypes, Graph
  <2>3. /\ parent' \in Graph /\ parent'[Root] = None
        /\ None \notin toplevels /\ Root \notin toplevels
    BY <1>1, <1>4, Sorts DEF GraphInv, GraphTypes, Anchored
  <2>4. Nearest(toplevels, parent', Fill) = LockBand
    BY <2>2, <2>3, NearestOfParent, Sorts
  <2> QED
    BY <1>2, <2>1, <2>2, <2>4, Sorts
<1>7. LockInv'
  BY <1>1, <1>2, <1>6, FillAt, LockKept
<1>8. FramesInv'
  BY <1>1, <1>2, FramesKept
<1> QED
  BY <1>1, <1>3, <1>4, <1>7, <1>8, PartsNext

\* Nothing can be done by its id to a fill that is up.
LEMMA NodeStateIInv ==
  ASSUME IInv,
         \/ \E n \in {LockBand, Fill}, enabled \in BOOLEAN : SetNodeEnabled(n, enabled)
         \/ \E n \in Created \cup {LockBand, Fill} : SetNodePosition(n)
  PROVE  IInv'
<1>1. GraphInv /\ LockInv /\ FramesInv /\ running \in BOOLEAN
  BY Parts
<1>2. /\ UNCHANGED graph /\ UNCHANGED shell /\ UNCHANGED frames
      /\ locked' = locked /\ lockFill' = lockFill
  BY DEF SetNodeEnabled, SetNodePosition
<1>3. /\ disabled' \subseteq {LockBand, Fill} /\ moved' \subseteq {Fill}
      /\ Fill \in disabled' => Fill \in disabled
      /\ Fill \in moved' => Fill \in moved
  <2>1. ASSUME NEW n \in {LockBand, Fill}, NEW enabled \in BOOLEAN, SetNodeEnabled(n, enabled)
        PROVE  <1>3
    <3>1. /\ nodes[n] # "none" /\ (enabled \/ ~LockedAway(n))
          /\ disabled' = IF enabled THEN disabled \ {n} ELSE disabled \cup {n}
          /\ moved' = moved
      BY <2>1 DEF SetNodeEnabled
    <3>2. n = Fill => enabled
      BY <1>1, <3>1, FillAt
    <3> QED
      BY <1>1, <3>1, <3>2, Sorts DEF LockInv
  <2>2. ASSUME NEW n \in Created \cup {LockBand, Fill}, SetNodePosition(n)
        PROVE  <1>3
    <3>1. /\ OwnedNode(n) /\ moved' = moved \cup ({n} \cap {Fill}) /\ disabled' = disabled
      BY <2>2 DEF SetNodePosition
    <3>2. n # Fill
      BY <1>1, <3>1, FillAt
    <3> QED
      BY <1>1, <3>1, <3>2 DEF LockInv
  <2> QED
    BY <2>1, <2>2
<1>4. live' = live /\ parent' = parent /\ nodes' = nodes /\ rects' = rects
  BY <1>2 DEF graph
<1>5. running' = running /\ toplevels' = toplevels
  BY <1>2, RunningKept
<1>6. GraphInv'
  BY <1>1, <1>4, <1>5 DEF GraphInv, GraphTypes, Rooted, RowsNameLive, Anchored, Origins,
     RectsClassified
<1>7. LockInv'
  BY <1>1, <1>2, <1>3, <1>4 DEF LockInv, FillKnown, FillIntact
<1>8. FramesInv'
  BY <1>1, <1>2, <1>4, FramesKept
<1> QED
  BY <1>1, <1>5, <1>6, <1>7, <1>8, PartsNext

Holding(s) == {i \in DOMAIN s : s[i] # None}

\* One more closure holds one more node, unless it holds none.
LEMMA HoldingAppend ==
  ASSUME NEW s \in Seq(Nodes \cup {None}), NEW e \in Nodes \cup {None}
  PROVE  /\ IsFiniteSet(Holding(s)) /\ Cardinality(Holding(s)) \in Nat
         /\ Cardinality(Holding(Append(s, e)))
              = Cardinality(Holding(s)) + (IF e = None THEN 0 ELSE 1)
         /\ ToSet(Append(s, e)) = ToSet(s) \cup {e}
<1>1. /\ Len(s) \in Nat /\ DOMAIN s = 1..Len(s)
      /\ DOMAIN Append(s, e) = 1..Len(s) + 1
      /\ \A i \in 1..Len(s) : Append(s, e)[i] = s[i]
      /\ Append(s, e)[Len(s) + 1] = e
  OBVIOUS
<1>2. IsFiniteSet(Holding(s)) /\ Cardinality(Holding(s)) \in Nat
  <2>1. IsFiniteSet(1..Len(s)) /\ Holding(s) \in SUBSET (1..Len(s))
    BY <1>1, FS_Interval DEF Holding
  <2>2. IsFiniteSet(Holding(s))
    BY <2>1, FS_Subset
  <2> QED
    BY <2>2, FS_CardinalityType
<1>3. CASE e = None
  <2>1. Holding(Append(s, e)) = Holding(s)
    BY <1>1, <1>3 DEF Holding
  <2> QED
    BY <1>1, <1>2, <1>3, <2>1 DEF ToSet
<1>4. CASE e # None
  <2>1. Holding(Append(s, e)) = Holding(s) \cup {Len(s) + 1} /\ Len(s) + 1 \notin Holding(s)
    BY <1>1, <1>4 DEF Holding
  <2>2. Cardinality(Holding(s) \cup {Len(s) + 1}) = Cardinality(Holding(s)) + 1
    BY <1>2, <2>1, FS_AddElement
  <2> QED
    BY <1>1, <1>2, <1>4, <2>1, <2>2 DEF ToSet
<1> QED
  BY <1>3, <1>4

\* The count of the borrows, by the set of the closures that hold a node.
LEMMA FramesInvIs ==
  /\ FramesCounted <=> /\ foreignFrames = Len(held)
                       /\ nodeBorrows = Cardinality(Holding(held))
  /\ FramesCounted' <=> /\ foreignFrames' = Len(held')
                        /\ nodeBorrows' = Cardinality(Holding(held'))
BY DEF FramesCounted, Holding

\* What a step of a closure leaves alone keeps its invariant.
LEMMA GraphKept ==
  ASSUME GraphInv, UNCHANGED <<graph, toplevels>>
  PROVE  GraphInv'
BY DEF graph, GraphInv, GraphTypes, Rooted, RowsNameLive, Anchored, Origins, RectsClassified

\* A closure or a callback begins.
LEMMA PushIInv ==
  ASSUME IInv, NEW e \in live \cup {None}, held' = Append(held, e),
         nodeBorrows' = IF e = None THEN nodeBorrows ELSE nodeBorrows + 1,
         foreignFrames' = foreignFrames + 1, UNCHANGED <<graph, shell, lock>>
  PROVE  IInv'
<1>1. GraphInv /\ LockInv /\ FramesInv /\ running \in BOOLEAN
  BY Parts
<1>2. live' = live /\ running' = running /\ toplevels' = toplevels
  BY RunningKept DEF graph
<1>3. held \in Seq(Nodes \cup {None}) /\ e \in Nodes \cup {None}
  BY <1>1 DEF GraphInv, GraphTypes, FramesInv
<1>4. /\ Cardinality(Holding(held')) = Cardinality(Holding(held)) + (IF e = None THEN 0 ELSE 1)
      /\ ToSet(held') = ToSet(held) \cup {e}
      /\ Cardinality(Holding(held)) \in Nat
  BY <1>3, HoldingAppend
<1>5. held' \in Seq(Nodes \cup {None}) /\ Len(held') = Len(held) + 1 /\ Len(held) \in Nat
  BY <1>3
<1>6. foreignFrames' \in Nat /\ nodeBorrows' \in Nat /\ FramesCounted'
  <2>1. foreignFrames = Len(held) /\ nodeBorrows = Cardinality(Holding(held))
    BY <1>1, FramesInvIs DEF FramesInv
  <2> QED
    BY <1>4, <1>5, <2>1, FramesInvIs
<1>7. HeldIsLive'
  BY <1>1, <1>2, <1>4 DEF FramesInv, HeldIsLive
<1>8. FramesInv'
  BY <1>5, <1>6, <1>7 DEF FramesInv
<1>9. GraphInv'
  BY <1>1, <1>2, GraphKept
<1>10. LockInv'
  BY <1>1, LockKept DEF graph
<1> QED
  BY <1>1, <1>2, <1>8, <1>9, <1>10, PartsNext

\* A sequence is its front with its last element appended.
LEMMA FrontAndLast ==
  ASSUME NEW S, NEW s \in Seq(S), s # <<>>
  PROVE  Front(s) \in Seq(S) /\ Last(s) \in S /\ s = Append(Front(s), Last(s))
<1> DEFINE f == SubSeq(s, 1, Len(s) - 1)
           e == s[Len(s)]
<1>1. Len(s) \in Nat \ {0} /\ \A i \in 1..Len(s) : s[i] \in S
  OBVIOUS
<1>2. /\ f \in Seq(S) /\ Len(f) = Len(s) - 1
      /\ \A i \in 1..Len(s) - 1 : f[i] = s[i]
  <2>1. /\ f \in Seq(S) /\ Len(f) = IF 1 <= Len(s) - 1 THEN Len(s) - 1 - 1 + 1 ELSE 0
        /\ \A i \in 1..(Len(s) - 1 - 1 + 1) : f[i] = s[1 + i - 1]
    <3>1. 1 \in Int /\ Len(s) - 1 \in Int /\ \A i \in 1..Len(s) - 1 : s[i] \in S
      BY <1>1
    <3> QED
      BY <3>1, SubSeqProperties
  <2> HIDE DEF f
  <2>2. Len(f) = Len(s) - 1
    <3>1. CASE Len(s) = 1
      BY <2>1, <3>1
    <3>2. CASE Len(s) # 1
      <4>1. 1 <= Len(s) - 1 /\ Len(s) - 1 - 1 + 1 = Len(s) - 1
        <5>1. Len(s) \in Nat /\ Len(s) # 0
          BY <1>1
        <5>2. \A k \in Nat : k # 0 /\ k # 1 => 1 <= k - 1 /\ k - 1 - 1 + 1 = k - 1
          OBVIOUS
        <5> QED
          BY <3>2, <5>1, <5>2
      <4> QED
        BY <2>1, <4>1
    <3> QED
      BY <3>1, <3>2
  <2>3. ASSUME NEW i \in 1..Len(s) - 1 PROVE f[i] = s[i]
    <3>1. i \in 1..(Len(s) - 1 - 1 + 1) /\ 1 + i - 1 = i
      BY <1>1
    <3>2. f[i] = s[1 + i - 1]
      BY <2>1, <3>1
    <3> QED
      BY <3>1, <3>2
  <2> QED
    BY <2>1, <2>2, <2>3
<1>3. e \in S
  BY <1>1
<1> HIDE DEF f, e
<1>4. /\ Append(f, e) \in Seq(S) /\ Len(Append(f, e)) = Len(s)
      /\ \A i \in 1..Len(s) : Append(f, e)[i] = s[i]
  BY <1>1, <1>2, <1>3 DEF e
<1>5. s = Append(f, e)
  BY <1>4, SeqEqual
<1> QED
  BY <1>2, <1>3, <1>5 DEF f, e, Front, Last

\* The closure on top ends.
LEMMA ClosureEndsIInv ==
  ASSUME IInv, ClosureEnds
  PROVE  IInv'
<1>1. GraphInv /\ LockInv /\ FramesInv /\ running \in BOOLEAN
  BY Parts
<1>2. /\ held # <<>> /\ held' = Front(held)
      /\ nodeBorrows' = IF Last(held) = None THEN nodeBorrows ELSE nodeBorrows - 1
      /\ foreignFrames' = foreignFrames - 1
      /\ UNCHANGED graph /\ UNCHANGED shell /\ UNCHANGED lock
  BY DEF ClosureEnds
<1>3. live' = live /\ running' = running /\ toplevels' = toplevels
  BY <1>2, RunningKept DEF graph
<1> DEFINE e == Last(held)
<1>4. /\ held' \in Seq(Nodes \cup {None}) /\ e \in Nodes \cup {None}
      /\ held = Append(held', e)
  BY <1>1, <1>2, FrontAndLast DEF FramesInv
<1> HIDE DEF e
<1>5. /\ Cardinality(Holding(held)) = Cardinality(Holding(held')) + (IF e = None THEN 0 ELSE 1)
      /\ ToSet(held) = ToSet(held') \cup {e}
      /\ Cardinality(Holding(held')) \in Nat
  BY <1>4, HoldingAppend
<1>6. Len(held) = Len(held') + 1 /\ Len(held') \in Nat
  BY <1>4
<1>7. foreignFrames' \in Nat /\ nodeBorrows' \in Nat /\ FramesCounted'
  <2>1. foreignFrames = Len(held) /\ nodeBorrows = Cardinality(Holding(held))
    BY <1>1, FramesInvIs DEF FramesInv
  <2> QED
    BY <1>2, <1>5, <1>6, <2>1, FramesInvIs DEF e
<1>8. HeldIsLive'
  BY <1>1, <1>3, <1>5 DEF FramesInv, HeldIsLive
<1>9. FramesInv'
  BY <1>4, <1>7, <1>8 DEF FramesInv
<1>10. GraphInv'
  BY <1>1, <1>2, <1>3, GraphKept
<1>11. LockInv'
  BY <1>1, <1>2, LockKept DEF graph
<1> QED
  BY <1>1, <1>3, <1>9, <1>10, <1>11, PartsNext

\* All three steps of closures.
LEMMA ClosureIInv ==
  ASSUME IInv, ForeignCallback \/ ClosureEnds \/ \E n \in Nodes : WithNode(n)
  PROVE  IInv'
<1>1. CASE ForeignCallback
  <2>1. /\ held' = Append(held, None) /\ nodeBorrows' = nodeBorrows
        /\ foreignFrames' = foreignFrames + 1 /\ UNCHANGED <<graph, shell, lock>>
    BY <1>1 DEF ForeignCallback
  <2> QED
    BY <2>1, PushIInv
<1>2. CASE ClosureEnds
  BY <1>2, ClosureEndsIInv
<1>3. ASSUME NEW n \in Nodes, WithNode(n) PROVE IInv'
  <2>1. /\ held' = Append(held, n) /\ nodeBorrows' = nodeBorrows + 1 /\ nodes[n] # "none"
        /\ foreignFrames' = foreignFrames + 1 /\ UNCHANGED <<graph, shell, lock>>
    BY <1>3 DEF WithNode
  <2>2. n \in live /\ n # None
    BY <2>1, Sorts DEF IInv, RowsNameLive
  <2> QED
    BY <2>1, <2>2, PushIInv
<1> QED
  BY <1>1, <1>2, <1>3

\* on_new_toplevel.
LEMMA NewToplevelIInv ==
  ASSUME IInv, NEW t \in Toplevels, NewToplevel(t)
  PROVE  IInv'
<1>1. GraphInv /\ LockInv /\ FramesInv /\ running \in BOOLEAN
  BY Parts
<1>2. /\ t \notin live /\ Attach(t, Desktop, "none") /\ toplevels' = toplevels \cup {t}
      /\ rects' = rects /\ running' = running
      /\ UNCHANGED lock /\ UNCHANGED frames
  BY DEF NewToplevel
<1>3. Desktop \in live
  BY <1>1, Sorts DEF GraphInv, Anchored
<1>4. GraphInv'
  <2>1. {t} \cap Toplevels = {t} /\ t \in (Created \cup Toplevels \cup {Fill}) \ live
    BY <1>2
  <2> QED
    BY <1>1, <1>2, <1>3, <2>1, AttachPreserves
<1>5. live \subseteq live' /\ (Fill \in live' <=> Fill \in live)
      /\ parent'[Fill] = parent[Fill]
  BY <1>1, <1>2, Sorts DEF Attach, GraphInv, GraphTypes, Graph
<1>6. LockInv'
  BY <1>1, <1>2, <1>5, LockKept
<1>7. FramesInv'
  BY <1>1, <1>2, <1>5, FramesKept
<1> QED
  BY <1>1, <1>2, <1>4, <1>6, <1>7, PartsNext

\* Toplevels leave the tables alone, or all at the end of the run.
LEMMA ToplevelsLeaveIInv ==
  ASSUME IInv, RunEnd \/ \E t \in Toplevels : ToplevelDestroyed(t)
  PROVE  IInv'
<1>1. GraphInv /\ LockInv /\ FramesInv /\ running \in BOOLEAN
  BY Parts
<1>2. PICK gone \in SUBSET toplevels :
        /\ PurgeRects(gone) /\ toplevels' = toplevels \ gone /\ running' \in BOOLEAN
        /\ live' = live /\ parent' = parent /\ nodes' = nodes
        /\ UNCHANGED lock /\ UNCHANGED frames
  <2>1. CASE RunEnd
    <3>1. toplevels \ toplevels = {}
      OBVIOUS
    <3> QED
      BY <2>1, <3>1 DEF RunEnd
  <2>2. ASSUME NEW t \in Toplevels, ToplevelDestroyed(t) 
        PROVE  \E gone \in SUBSET toplevels :
                 /\ PurgeRects(gone) /\ toplevels' = toplevels \ gone /\ running' \in BOOLEAN
                 /\ live' = live /\ parent' = parent /\ nodes' = nodes
                 /\ UNCHANGED lock /\ UNCHANGED frames
    <3>1. /\ {t} \in SUBSET toplevels /\ PurgeRects({t}) /\ toplevels' = toplevels \ {t}
          /\ running' \in BOOLEAN /\ live' = live /\ parent' = parent /\ nodes' = nodes
          /\ UNCHANGED lock /\ UNCHANGED frames
      BY <1>1, <2>2 DEF ToplevelDestroyed
    <3> QED
      BY <3>1
  <2> QED
    BY <2>1, <2>2
<1>3. GraphInv'
  BY <1>1, <1>2, PurgePreserves
<1>4. Fill \in live => rects'[Fill] = rects[Fill]
  <2>1. LockBand \notin gone
    BY <1>1, <1>2, Sorts DEF GraphInv, GraphTypes
  <2> QED
    BY <1>1, <1>2, <2>1, FillAt DEF PurgeRects
<1>5. LockInv'
  BY <1>1, <1>2, <1>4, LockKept
<1>6. FramesInv'
  BY <1>1, <1>2, FramesKept
<1> QED
  BY <1>2, <1>3, <1>5, <1>6, PartsNext

\* begin_session_lock.
LEMMA BeginSessionLockIInv ==
  ASSUME IInv, NEW anyOutput \in BOOLEAN, BeginSessionLock(anyOutput)
  PROVE  IInv'
<1>1. GraphInv /\ LockInv /\ FramesInv /\ running \in BOOLEAN
  BY Parts
<1>2. /\ locked' = TRUE /\ disabled' = disabled /\ Dispatching
      /\ UNCHANGED shell /\ UNCHANGED frames
  BY DEF BeginSessionLock
<1>3. running' = running /\ toplevels' = toplevels
  BY <1>2, RunningKept
<1>4. held = <<>>
  BY <1>1, <1>2, NoClosure
<1>5. FramesInv'
  BY <1>1, <1>2, <1>4, FramesKept
<1>6. CASE UNCHANGED graph /\ lockFill' = lockFill /\ moved' \subseteq moved
  <2>1. GraphInv'
    BY <1>1, <1>3, <1>6, GraphKept
  <2>2. FillKnown' /\ FillIntact'
    <3>1. live' = live /\ parent' = parent /\ rects' = rects
      BY <1>6 DEF graph
    <3>2. locked \/ lockFill = None
      BY <1>1 DEF LockInv, FillKnown
    <3> QED
      BY <1>1, <1>2, <1>6, <3>1, <3>2 DEF LockInv, FillKnown, FillIntact
  <2>3. LockInv'
    BY <1>1, <1>2, <1>6, <2>2 DEF LockInv
  <2> QED
    BY <1>1, <1>3, <1>5, <2>1, <2>3, PartsNext
<1>7. CASE /\ lockFill = None /\ Attach(Fill, LockBand, "Owned")
           /\ rects' = [rects EXCEPT ![Fill] = LockBand]
           /\ lockFill' = Fill /\ moved' = moved \ {Fill}
  <2>1. Fill \notin live /\ Fill \notin disabled /\ LockBand \in live
    BY <1>1, <1>7, Sorts DEF LockInv, FillKnown, GraphInv, Anchored
  <2>2. GraphInv'
    <3>1. /\ {Fill} \cap Toplevels = {} /\ Fill \notin Toplevels
          /\ Fill \in (Created \cup Toplevels \cup {Fill}) \ live
      BY <2>1, Sorts
    <3> QED
      BY <1>1, <1>3, <1>7, <2>1, <3>1, Sorts, AttachPreserves
  <2>3. Fill \in live' /\ parent'[Fill] = LockBand /\ rects'[Fill] = LockBand
    BY <1>1, <1>7, Sorts DEF Attach, GraphInv, GraphTypes, Graph
  <2>4. LockInv'
    BY <1>1, <1>2, <1>7, <2>1, <2>3, Sorts DEF LockInv, FillKnown, FillIntact
  <2> QED
    BY <1>1, <1>3, <1>5, <2>2, <2>4, PartsNext
<1> QED
  BY <1>6, <1>7 DEF BeginSessionLock

\* unlock_session.
LEMMA UnlockSessionIInv ==
  ASSUME IInv, UnlockSession
  PROVE  IInv'
<1>1. GraphInv /\ LockInv /\ FramesInv /\ running \in BOOLEAN
  BY Parts
<1>2. /\ locked' = FALSE /\ lockFill' = None /\ moved' = moved /\ Dispatching
      /\ UNCHANGED shell /\ UNCHANGED frames
  BY DEF UnlockSession
<1>3. running' = running /\ toplevels' = toplevels
  BY <1>2, RunningKept
<1>4. held = <<>>
  BY <1>1, <1>2, NoClosure
<1>5. FramesInv'
  BY <1>1, <1>2, <1>4, FramesKept
<1>6. CASE lockFill # None
  <2>1. Fill \in live /\ rects[Fill] # None
    BY <1>1, <1>6, FillAt, Sorts
  <2>2. Cascade(Subtree(Fill)) /\ disabled' = disabled \ {Fill}
    BY <1>6, <2>1 DEF UnlockSession
  <2>3. GraphInv'
    <3>1. Fill \in (Created \cup Toplevels \cup {Fill}) \ toplevels
      BY <1>1, Sorts DEF GraphInv, GraphTypes
    <3> QED
      BY <1>1, <1>3, <2>2, <3>1, CascadePreserves
  <2>4. Fill \notin live'
    <3>1. Fill \in Above(parent, Fill)
      BY <1>1, Sorts, AboveClosed DEF GraphInv, GraphTypes
    <3> QED
      BY <2>1, <2>2, <3>1 DEF Cascade, Subtree
  <2>5. LockInv'
    BY <1>1, <1>2, <2>2, <2>4 DEF LockInv, FillKnown, FillIntact
  <2> QED
    BY <1>1, <1>3, <1>5, <2>3, <2>5, PartsNext
<1>7. CASE lockFill = None
  <2>1. UNCHANGED graph /\ disabled' = disabled
    BY <1>7 DEF UnlockSession
  <2>2. GraphInv'
    BY <1>1, <1>3, <2>1, GraphKept
  <2>3. live' = live
    BY <2>1 DEF graph
  <2>4. LockInv'
    BY <1>1, <1>2, <1>7, <2>1, <2>3 DEF LockInv, FillKnown, FillIntact
  <2> QED
    BY <1>1, <1>3, <1>5, <2>2, <2>4, PartsNext
<1> QED
  BY <1>6, <1>7

\* Steps that leave the graph, the lock and the closures alone.
LEMMA UnchangedIInv ==
  ASSUME IInv, RunStart \/ UNCHANGED vars
  PROVE  IInv'
<1>1. GraphInv /\ LockInv /\ FramesInv /\ running \in BOOLEAN
  BY Parts
<1>2. /\ UNCHANGED <<graph, toplevels>> /\ UNCHANGED lock /\ UNCHANGED frames
      /\ running' \in BOOLEAN
  BY <1>1 DEF RunStart, vars, shell
<1>3. GraphInv'
  BY <1>1, <1>2, GraphKept
<1>4. LockInv'
  BY <1>1, <1>2, LockKept DEF graph
<1>5. FramesInv'
  BY <1>1, <1>2, FramesKept DEF graph
<1> QED
  BY <1>2, <1>3, <1>4, <1>5, PartsNext

\* Every step preserves the invariant.
LEMMA NextIInv == IInv /\ [Next]_vars => IInv'
<1> SUFFICES ASSUME IInv, [Next]_vars PROVE IInv'
  OBVIOUS
<1>1. ASSUME NEW n \in Created, NEW p \in Nodes, CreateNode(n, p) PROVE IInv'
  BY <1>1, CreateNodeIInv
<1>2. ASSUME NEW r \in Rects, NEW p \in Nodes, AddRect(r, p) PROVE IInv'
  BY <1>2, AddRectIInv
<1>3. ASSUME NEW n \in Created \cup {Fill}, NEW p \in Nodes, ReparentNode(n, p) PROVE IInv'
  BY <1>3, ReparentNodeIInv
<1>4. ASSUME NEW n \in Nodes, DestroyNode(n) PROVE IInv'
  BY <1>4, DestroyNodeIInv
<1>5. ASSUME NEW r \in Rects, RemoveRect(r) PROVE IInv'
  BY <1>5, RemoveRectIInv
<1>6. ASSUME NEW t \in Toplevels, ObserveNode(t) PROVE IInv'
  BY <1>6, ObserveNodeIInv
<1>7. ASSUME NEW t \in Toplevels, NewToplevel(t) PROVE IInv'
  BY <1>7, NewToplevelIInv
<1>8. ASSUME NEW t \in Toplevels, TreeFreed(t) PROVE IInv'
  BY <1>8, TreeFreedIInv
<1>9. CASE RunEnd \/ \E t \in Toplevels : ToplevelDestroyed(t)
  BY <1>9, ToplevelsLeaveIInv
<1>10. CASE \/ \E n \in {LockBand, Fill}, enabled \in BOOLEAN : SetNodeEnabled(n, enabled)
            \/ \E n \in Created \cup {LockBand, Fill} : SetNodePosition(n)
  BY <1>10, NodeStateIInv
<1>11. CASE ForeignCallback \/ ClosureEnds \/ \E n \in Nodes : WithNode(n)
  BY <1>11, ClosureIInv
<1>12. ASSUME NEW anyOutput \in BOOLEAN, BeginSessionLock(anyOutput) PROVE IInv'
  BY <1>12, BeginSessionLockIInv
<1>13. CASE UnlockSession
  BY <1>13, UnlockSessionIInv
<1>14. CASE RunStart \/ UNCHANGED vars
  BY <1>14, UnchangedIInv
<1> QED
  BY <1>1, <1>2, <1>3, <1>4, <1>5, <1>6, <1>7, <1>8, <1>9, <1>10, <1>11, <1>12, <1>13,
     <1>14 DEF Next

\* The strengthened invariant holds of every behaviour of the scene.
THEOREM SceneInvariant == Spec => []IInv
BY InitIInv, NextIInv, PTL DEF Spec

\* Every variable of SceneNodes keeps its type.
THEOREM SceneTypeCorrect == Spec => []TypeOK
BY SceneInvariant, PTL DEF IInv

\* Every NodeId, RectId and toplevel row resolves to an allocated node: what
\* NodePurge::drop and forget_toplevel remove is all that is freed.
THEOREM LiveNames == Spec => []RowsNameLive
BY SceneInvariant, PTL DEF IInv

\* with_node and for_each_buffer never see their node freed: nothing unlinks
\* while the scene is being walked.
THEOREM HandlesStayLive == Spec => []HeldIsLive
BY SceneInvariant, PTL DEF IInv

\* reparent_node closes no cycle and detaches nothing: every allocated node
\* hangs from the scene root over allocated ones.
THEOREM TreeBelowRoot == Spec => []Rooted
BY SceneInvariant, PTL DEF IInv

\* reclassify_legacy_parents, and the rows forget_toplevel drops, keep the
\* parent of every older id equal to what classify_parent would answer.
THEOREM PurgedWithToplevel == Spec => []RectFollowsToplevel
<1>1. IInv => RectFollowsToplevel
  <2> SUFFICES ASSUME IInv, NEW r \in Rects, NEW t \in Toplevels, rects[r] # None
               PROVE  rects[r] = t <=> Classify(parent, r) = t
    BY DEF RectFollowsToplevel
  <2>1. rects[r] = Classify(parent, r)
    BY NearestIsClassify DEF IInv, RectsClassified
  <2> QED
    BY <2>1
<1> QED
  BY <1>1, SceneInvariant, PTL

\* While the lock is held no call by id hides, moves, reparents or destroys the
\* fill install_lock_fill put under the lock band.
THEOREM FillStays == Spec => []FillIntact
BY SceneInvariant, PTL DEF IInv

-----------------------------------------------------------------------------
(* The inductive invariant of TurnDrain.                                   *)

\* A queued handle was let go by its owner, and never is while it is owned.
QueuedAreDropped == /\ ToSet(pendingHandles) \subseteq dropped
                    /\ owned \cap dropped = {}

\* A handle is allocated exactly while its manager can free it.
ManagerFreesHandles ==
  \A h \in Handles : /\ mem[h] \in {"unborn", "live", "freed"}
                     /\ mem[h] = "live" => managerAlive
                     /\ h \in dropped => mem[h] # "unborn"

\* Between runs nothing is being delivered and no surface is recorded.
IdleIsQuiet == phase = "idle" => caller = "none" /\ layerSurfaces = {}

DrainInv == /\ DrainTypeOK
            /\ QueuedAreDropped
            /\ ManagerFreesHandles
            /\ IdleIsQuiet
            /\ EmittingIsAllocated
            /\ TableNamesLive
            /\ DroppedIsReleased
            /\ OwnedIsLive

\* Queueing adds the queued element and nothing else.
LEMMA AppendAdds ==
  ASSUME NEW S, NEW s \in Seq(S), NEW e \in S
  PROVE  ToSet(Append(s, e)) = ToSet(s) \cup {e}
<1>1. /\ Len(Append(s, e)) = Len(s) + 1
      /\ \A i \in 1..Len(s) : Append(s, e)[i] = s[i]
      /\ Append(s, e)[Len(s) + 1] = e
      /\ DOMAIN Append(s, e) = 1..Len(s) + 1
      /\ DOMAIN s = 1..Len(s) /\ Len(s) \in Nat
  OBVIOUS
<1> QED
  BY <1>1 DEF ToSet

\* Nothing is queued in an empty queue.
LEMMA EmptyHasNone == ToSet(<<>>) = {}
BY DEF ToSet

\* Freeing marks what is freed and leaves the rest.
LEMMA FreeMarks ==
  ASSUME DrainTypeOK, NEW gone, Free(gone)
  PROVE  /\ mem' \in [Objects -> {"unborn", "live", "dying", "freed"}]
         /\ frees' \in [Objects -> Nat]
         /\ \A x \in Objects : mem'[x] = IF x \in gone THEN "freed" ELSE mem[x]
BY DEF DrainTypeOK, Free

\* Before the first display.
LEMMA DrainInitInv == DrainInit => DrainInv
<1> SUFFICES ASSUME DrainInit PROVE DrainInv
  OBVIOUS
<1>1. DrainTypeOK
  <2>1. (emitting # NoObject) = (caller = "handler")
    BY DEF DrainInit
  <2>2. pendingLayers \in Seq(Layers) /\ draining \in Seq(Layers)
        /\ pendingHandles \in Seq(Handles)
    BY DEF DrainInit
  <2>3. /\ mem \in [Objects -> {"unborn", "live", "dying", "freed"}]
        /\ frees \in [Objects -> Nat]
    BY DEF DrainInit
  <2>4. displays \in 0..MaxDisplays
    BY TurnDrainAssumption DEF DrainInit
  <2>5. /\ display \in BOOLEAN /\ managerAlive \in BOOLEAN
        /\ layerSurfaces \subseteq Layers
        /\ owned \subseteq Handles /\ dropped \subseteq Handles
        /\ phase \in {"idle", "turn", "layers", "flush", "query"}
        /\ caller \in {"none", "handler", "stop"}
        /\ emitting \in Objects \cup {NoObject}
    BY DEF DrainInit
  <2> QED
    BY <2>1, <2>2, <2>3, <2>4, <2>5 DEF DrainTypeOK
<1>2. QueuedAreDropped /\ DroppedIsReleased
  BY EmptyHasNone DEF DrainInit, QueuedAreDropped, DroppedIsReleased
<1>3. ManagerFreesHandles
  BY DEF DrainInit, ManagerFreesHandles, Objects
<1> QED
  BY <1>1, <1>2, <1>3
     DEF DrainInit, DrainInv, IdleIsQuiet, EmittingIsAllocated, TableNamesLive, OwnedIsLive

-----------------------------------------------------------------------------
(* One lemma per group of actions.                                         *)

\* Displays and managers.
LEMMA RegistrySteps ==
  ASSUME DrainInv, NewDisplay \/ DropDisplay \/ CreateManager
  PROVE  DrainInv'
<1> USE TurnDrainAssumption
      DEF DrainInv, DrainTypeOK, QueuedAreDropped, ManagerFreesHandles, IdleIsQuiet,
          EmittingIsAllocated, TableNamesLive, DroppedIsReleased, OwnedIsLive,
          objects, control, ConsumerRuns, InDelivery
<1>1. CASE NewDisplay
  BY <1>1 DEF NewDisplay
<1>2. CASE DropDisplay
  <2>1. Free(Live) /\ owned' = {} /\ layerSurfaces' = {} /\ emitting' = NoObject
    BY <1>2 DEF DropDisplay
  <2>2. \A x \in Objects : mem'[x] = IF mem[x] = "live" THEN "freed" ELSE mem[x]
    BY <2>1, FreeMarks DEF Live
  <2>3. DrainTypeOK'
    BY <1>2, <2>1, FreeMarks DEF DropDisplay
  <2>4. ManagerFreesHandles'
    BY <1>2, <2>2 DEF DropDisplay, Objects
  <2>5. DroppedIsReleased'
    BY <1>2, <2>2 DEF DropDisplay, Objects
  <2> QED
    BY <1>2, <2>1, <2>3, <2>4, <2>5 DEF DropDisplay
<1>3. CASE CreateManager
  BY <1>3 DEF CreateManager
<1> QED
  BY <1>1, <1>2, <1>3

\* A handle dropped in a delivery is queued.
LEMMA DropHandleQueued ==
  ASSUME DrainInv, NEW h \in Handles,
         DropHandle(h), InDelivery
  PROVE  DrainInv'
<1>1. /\ pendingHandles' = Append(pendingHandles, h) /\ mem' = mem /\ frees' = frees
      /\ owned' = owned \ {h} /\ h \in owned /\ dropped' = dropped \cup {h}
      /\ UNCHANGED <<display, displays, managerAlive, layerSurfaces, pendingLayers,
                     draining, phase, caller, emitting>>
  BY DEF DropHandle, objects, control
<1>2. /\ pendingHandles \in Seq(Handles) /\ pendingHandles' \in Seq(Handles)
      /\ ToSet(pendingHandles') = ToSet(pendingHandles) \cup {h}
  <2>1. pendingHandles \in Seq(Handles)
    BY DEF DrainInv, DrainTypeOK
  <2> QED
    BY <1>1, <2>1, AppendAdds
<1>3. DrainTypeOK'
  BY <1>1, <1>2 DEF DrainInv, DrainTypeOK
<1>4. QueuedAreDropped'
  BY <1>1, <1>2 DEF DrainInv, QueuedAreDropped
<1>5. ManagerFreesHandles'
  BY <1>1 DEF DrainInv, ManagerFreesHandles, OwnedIsLive
<1>6. DroppedIsReleased'
  <2> SUFFICES ASSUME NEW g \in dropped \cup {h}
               PROVE  mem[g] = "freed" \/ g \in ToSet(pendingHandles')
    BY <1>1 DEF DroppedIsReleased
  <2> QED
    BY <1>2 DEF DrainInv, DroppedIsReleased
<1>7. IdleIsQuiet' /\ EmittingIsAllocated' /\ TableNamesLive' /\ OwnedIsLive'
  BY <1>1 DEF DrainInv, IdleIsQuiet, EmittingIsAllocated, TableNamesLive, OwnedIsLive
<1> QED
  BY <1>3, <1>4, <1>5, <1>6, <1>7 DEF DrainInv

\* The queued handles are destroyed, or forgotten with their manager.
LEMMA DrainHandlesStep ==
  ASSUME DrainInv, DrainHandles
  PROVE  DrainInv'
<1>1. /\ pendingHandles' = <<>> /\ phase' = "flush" /\ phase = "layers" /\ caller = "none"
      /\ UNCHANGED <<display, displays, managerAlive, owned, dropped, layerSurfaces,
                     pendingLayers, draining, caller, emitting>>
  BY DEF DrainHandles, registry
<1> DEFINE gone == IF managerAlive THEN ToSet(pendingHandles) ELSE {}
<1>2. gone \subseteq dropped /\ (managerAlive => gone = ToSet(pendingHandles))
  BY DEF DrainInv, QueuedAreDropped
<1>3. /\ mem' \in [Objects -> {"unborn", "live", "dying", "freed"}]
      /\ frees' \in [Objects -> Nat]
      /\ \A x \in Objects : mem'[x] = IF x \in gone THEN "freed" ELSE mem[x]
  <2>1. DrainTypeOK
    BY DEF DrainInv
  <2>2. CASE managerAlive
    <3>1. Free(gone)
      BY <2>2, Zenon DEF DrainHandles
    <3> HIDE DEF gone
    <3> QED
      BY <2>1, <3>1, FreeMarks
  <2>3. CASE ~managerAlive
    <3>1. mem' = mem /\ frees' = frees
      BY <2>3 DEF DrainHandles, objects
    <3> QED
      BY <2>1, <2>3, <3>1 DEF DrainTypeOK
  <2> QED
    BY <2>2, <2>3
<1> HIDE DEF gone
<1>4. ToSet(pendingHandles') = {} /\ pendingHandles' \in Seq(Handles)
  BY <1>1, EmptyHasNone
<1>5. DrainTypeOK'
  BY <1>1, <1>3, <1>4 DEF DrainInv, DrainTypeOK
<1>6. QueuedAreDropped'
  BY <1>1, <1>4 DEF DrainInv, QueuedAreDropped
<1>7. \A h \in Handles : h \in Objects
  BY DEF Objects
<1>8. ManagerFreesHandles'
  BY <1>1, <1>3, <1>7 DEF DrainInv, ManagerFreesHandles
<1>9. DroppedIsReleased'
  <2> SUFFICES ASSUME NEW h \in dropped PROVE mem'[h] = "freed"
    BY <1>1 DEF DroppedIsReleased
  <2>1. h \in Handles
    BY DEF DrainInv, DrainTypeOK
  <2>2. mem[h] = "freed" \/ h \in ToSet(pendingHandles)
    BY DEF DrainInv, DroppedIsReleased
  <2>3. /\ mem[h] \in {"unborn", "live", "freed"} /\ mem[h] # "unborn"
        /\ mem[h] = "live" => managerAlive
    BY <2>1 DEF DrainInv, ManagerFreesHandles
  <2>4. mem[h] = "freed" \/ h \in gone
    BY <1>2, <2>2, <2>3, Zenon
  <2> QED
    BY <1>3, <1>7, <2>1, <2>4
<1>10. TableNamesLive' /\ OwnedIsLive'
  <2>1. /\ \A l \in layerSurfaces : l \in Objects /\ l \notin gone
        /\ \A h \in owned : h \in Objects /\ h \notin gone
    BY <1>2, TurnDrainAssumption DEF DrainInv, DrainTypeOK, Objects, QueuedAreDropped
  <2> QED
    BY <1>1, <1>3, <2>1 DEF DrainInv, TableNamesLive, OwnedIsLive
<1>11. IdleIsQuiet' /\ EmittingIsAllocated'
  BY <1>1 DEF DrainInv, IdleIsQuiet, EmittingIsAllocated, DrainTypeOK
<1> QED
  BY <1>5, <1>6, <1>8, <1>9, <1>10, <1>11 DEF DrainInv

\* The consumer's calls on handles.
LEMMA HandleSteps ==
  ASSUME DrainInv, NEW h \in Handles, CreateHandle(h) \/ DropHandle(h)
  PROVE  DrainInv'
<1> USE TurnDrainAssumption
      DEF DrainInv, DrainTypeOK, QueuedAreDropped, ManagerFreesHandles, IdleIsQuiet,
          EmittingIsAllocated, TableNamesLive, DroppedIsReleased, OwnedIsLive,
          objects, control, ConsumerRuns, InDelivery
<1>1. CASE CreateHandle(h)
  BY <1>1 DEF CreateHandle, Objects
<1>2. CASE DropHandle(h) /\ InDelivery
  BY <1>2, DropHandleQueued
<1>3. CASE DropHandle(h) /\ ~InDelivery
  <2>1. Free({h}) /\ emitting' = NoObject /\ UNCHANGED pendingHandles
    BY <1>3 DEF DropHandle
  <2>2. \A x \in Objects : mem'[x] = IF x = h THEN "freed" ELSE mem[x]
    BY <2>1, FreeMarks
  <2>3. DrainTypeOK'
    BY <1>3, <2>1, FreeMarks DEF DropHandle
  <2>4. TableNamesLive'
    BY <1>3, <2>2 DEF DropHandle, Objects
  <2> QED
    BY <1>3, <2>1, <2>2, <2>3, <2>4 DEF DropHandle, Objects
<1> QED
  BY <1>1, <1>2, <1>3

\* Layer surfaces that come and go, and the consumer's destroys.
LEMMA LayerSteps ==
  ASSUME DrainInv, NEW l \in Layers,
         OnNewLayerSurface(l) \/ LayerGone(l) \/ DestroyLayerSurface(l)
  PROVE  DrainInv'
<1> USE TurnDrainAssumption
      DEF DrainInv, DrainTypeOK, QueuedAreDropped, ManagerFreesHandles, IdleIsQuiet,
          EmittingIsAllocated, TableNamesLive, DroppedIsReleased, OwnedIsLive,
          objects, registry, control, ConsumerRuns, InDelivery, WlrootsRuns
<1>1. CASE OnNewLayerSurface(l)
  BY <1>1 DEF OnNewLayerSurface, Objects
<1>2. CASE LayerGone(l)
  BY <1>2 DEF LayerGone, DestroyLayer, Objects
<1>3. CASE DestroyLayerSurface(l)
  BY <1>3 DEF DestroyLayerSurface
<1> QED
  BY <1>1, <1>2, <1>3

\* The drain.
LEMMA DrainSteps ==
  ASSUME DrainInv, StartDrain \/ DrainLayer \/ DrainHandles
  PROVE  DrainInv'
<1> USE TurnDrainAssumption
      DEF DrainInv, DrainTypeOK, QueuedAreDropped, ManagerFreesHandles, IdleIsQuiet,
          EmittingIsAllocated, TableNamesLive, DroppedIsReleased, OwnedIsLive,
          objects, registry, control
<1>1. CASE StartDrain
  BY <1>1 DEF StartDrain
<1>2. CASE DrainLayer
  <2>1. Head(draining) \in Layers /\ Tail(draining) \in Seq(Layers)
    BY <1>2 DEF DrainLayer
  <2>2. CASE Head(draining) \in layerSurfaces
    <3>1. /\ mem' = [mem EXCEPT ![Head(draining)] = "dying"]
          /\ layerSurfaces' = layerSurfaces \ {Head(draining)}
          /\ caller' = "handler" /\ emitting' = Head(draining)
          /\ frees' = [frees EXCEPT ![Head(draining)] = frees[Head(draining)]]
          /\ draining' = Tail(draining) /\ phase = "layers"
          /\ UNCHANGED <<registry, pendingLayers, pendingHandles, phase>>
      BY <1>2, <2>2 DEF DrainLayer, DestroyLayer
    <3>2. DrainTypeOK'
      BY <3>1, <2>1 DEF Objects
    <3> QED
      BY <3>1, <3>2, <2>1 DEF Objects
  <2>3. CASE Head(draining) \notin layerSurfaces
    BY <1>2, <2>1, <2>3 DEF DrainLayer
  <2> QED
    BY <2>2, <2>3
<1>3. CASE DrainHandles
  BY <1>3, DrainHandlesStep
<1> QED
  BY <1>1, <1>2, <1>3

\* The rest of the run.
LEMMA RunSteps ==
  ASSUME DrainInv,
         \/ StartRun \/ HandlerReturns \/ Flushed \/ RunReturn
         \/ \E x \in Objects : Signal(x)
         \/ \E stop \in BOOLEAN : StopReturns(stop)
  PROVE  DrainInv'
<1> USE TurnDrainAssumption
      DEF DrainInv, DrainTypeOK, QueuedAreDropped, ManagerFreesHandles, IdleIsQuiet,
          EmittingIsAllocated, TableNamesLive, DroppedIsReleased, OwnedIsLive,
          objects, registry, control, WlrootsRuns
<1>1. CASE StartRun
  BY <1>1 DEF StartRun
<1>2. CASE HandlerReturns
  <2>1. CASE mem[emitting] = "dying"
    <3>1. Free({emitting}) /\ emitting' = NoObject
      BY <1>2, <2>1 DEF HandlerReturns
    <3>2. \A x \in Objects : mem'[x] = IF x = emitting THEN "freed" ELSE mem[x]
      BY <3>1, FreeMarks
    <3>3. DrainTypeOK'
      BY <1>2, <3>1, FreeMarks DEF HandlerReturns
    <3>4. emitting \notin Handles /\ emitting \notin layerSurfaces
      BY <1>2, <2>1 DEF HandlerReturns
    <3> QED
      BY <1>2, <3>1, <3>2, <3>3, <3>4 DEF HandlerReturns, Objects
  <2>2. CASE mem[emitting] # "dying"
    BY <1>2, <2>2 DEF HandlerReturns
  <2> QED
    BY <2>1, <2>2
<1>3. CASE Flushed
  BY <1>3 DEF Flushed
<1>4. CASE RunReturn
  BY <1>4 DEF RunReturn, EndRun
<1>5. ASSUME NEW x \in Objects, Signal(x) PROVE DrainInv'
  BY <1>5 DEF Signal, Objects
<1>6. ASSUME NEW stop \in BOOLEAN, StopReturns(stop) PROVE DrainInv'
  BY <1>6 DEF StopReturns, EndRun
<1> QED
  BY <1>1, <1>2, <1>3, <1>4, <1>5, <1>6

\* Every step preserves the invariant.
LEMMA DrainNextInv == DrainInv /\ [DrainNext]_drainVars => DrainInv'
<1> SUFFICES ASSUME DrainInv, [DrainNext]_drainVars PROVE DrainInv'
  OBVIOUS
<1>1. CASE UNCHANGED drainVars
  BY <1>1 DEF drainVars, objects, registry, control, DrainInv, DrainTypeOK, QueuedAreDropped,
              ManagerFreesHandles, IdleIsQuiet, EmittingIsAllocated,
              TableNamesLive, DroppedIsReleased, OwnedIsLive
<1>2. CASE DrainNext
  BY <1>2, RegistrySteps, HandleSteps, LayerSteps, DrainSteps, RunSteps, Zenon
     DEF DrainNext
<1> QED
  BY <1>1, <1>2

-----------------------------------------------------------------------------
(* What holds with one display                                             *)

\* Every object was freed as often as its allocation says.
Tally == \A x \in Objects : frees[x] = IF mem[x] = "freed" THEN 1 ELSE 0

\* While there was one display at most, what is queued is still allocated as
\* long as the display is; a manager needs a display.
OneDisplay ==
  /\ managerAlive => display
  /\ display => displays # 0
  /\ displays = 0 => ToSet(pendingHandles) = {}
  /\ displays <= 1 =>
       Tally /\ (display => \A h \in ToSet(pendingHandles) : mem[h] = "live")

\* No handle is queued twice.
QueuedOnce ==
  \A i, j \in DOMAIN pendingHandles : pendingHandles[i] = pendingHandles[j] => i = j

\* Freeing what was not freed before keeps the tally.
LEMMA FreeTally ==
  ASSUME DrainTypeOK, Tally, NEW gone, Free(gone),
         \A x \in gone \cap Objects : mem[x] # "freed"
  PROVE  Tally'
<1>1. \A x \in Objects :
        /\ mem'[x] = IF x \in gone THEN "freed" ELSE mem[x]
        /\ frees'[x] = IF x \in gone THEN frees[x] + 1 ELSE frees[x]
  BY DEF Free
<1> QED
  BY <1>1 DEF Tally

\* Steps that change none of what OneDisplay is about.
LEMMA OneDisplaySame ==
  ASSUME OneDisplay, UNCHANGED <<mem, frees, display, displays, managerAlive, pendingHandles>>
  PROVE  OneDisplay'
BY DEF OneDisplay, Tally

\* What is queued is a handle its owner let go.
LEMMA QueuedIs ==
  ASSUME DrainInv
  PROVE  /\ ToSet(pendingHandles) \subseteq Handles \cap dropped
         /\ \A h \in owned : h \notin ToSet(pendingHandles)
         /\ Handles \subseteq Objects /\ Layers \subseteq Objects
BY DEF DrainInv, QueuedAreDropped, DrainTypeOK, Objects

\* A display that comes is the first, or no longer counts.
LEMMA OneDisplayRegistry ==
  ASSUME DrainInv, OneDisplay, NewDisplay \/ DropDisplay \/ CreateManager
  PROVE  OneDisplay'
<1>1. displays \in Nat
  BY DEF DrainInv, DrainTypeOK
<1>2. CASE NewDisplay
  BY <1>1, <1>2 DEF NewDisplay, objects, OneDisplay, Tally
<1>3. CASE CreateManager
  BY <1>3 DEF CreateManager, objects, OneDisplay, Tally
<1>4. CASE DropDisplay
  <2>1. /\ display' = FALSE /\ managerAlive' = FALSE /\ displays' = displays /\ display
        /\ pendingHandles' = pendingHandles /\ Free(Live)
    BY <1>4 DEF DropDisplay
  <2>2. displays <= 1 => Tally'
    <3>1. \A x \in Live \cap Objects : mem[x] # "freed"
      BY DEF Live
    <3> QED
      BY <2>1, <3>1, FreeTally DEF OneDisplay, DrainInv
  <2> QED
    BY <2>1, <2>2 DEF OneDisplay
<1> QED
  BY <1>2, <1>3, <1>4

\* What a handle's owner drops is allocated.
LEMMA OneDisplayHandle ==
  ASSUME DrainInv, OneDisplay, NEW h \in Handles, CreateHandle(h) \/ DropHandle(h)
  PROVE  OneDisplay'
<1>1. CASE CreateHandle(h)
  <2>1. /\ mem' = [mem EXCEPT ![h] = "live"] /\ frees' = frees /\ mem[h] = "unborn"
        /\ UNCHANGED <<display, displays, managerAlive, pendingHandles>>
    BY <1>1 DEF CreateHandle
  <2>2. \A x \in Objects : mem'[x] = IF x = h THEN "live" ELSE mem[x]
    BY <2>1 DEF DrainInv, DrainTypeOK
  <2>3. displays <= 1 => Tally'
    BY <2>1, <2>2 DEF OneDisplay, Tally
  <2>4. ToSet(pendingHandles) \subseteq Objects
    BY QueuedIs
  <2> QED
    BY <2>1, <2>2, <2>3, <2>4 DEF OneDisplay
<1>2. CASE DropHandle(h) /\ InDelivery
  <2>1. /\ pendingHandles' = Append(pendingHandles, h) /\ mem' = mem /\ frees' = frees
        /\ h \in owned /\ UNCHANGED <<display, displays, managerAlive>>
    BY <1>2 DEF DropHandle, objects
  <2>2. ToSet(pendingHandles') = ToSet(pendingHandles) \cup {h}
    BY <2>1, AppendAdds DEF DrainInv, DrainTypeOK
  <2>3. mem[h] = "live" /\ managerAlive
    BY <2>1 DEF DrainInv, OwnedIsLive
  <2>4. (managerAlive => display) /\ (display => displays # 0)
    BY DEF OneDisplay
  <2>5. display /\ displays # 0
    BY <2>3, <2>4, Zenon
  <2> QED
    BY <2>1, <2>2, <2>3, <2>5 DEF OneDisplay, Tally
<1>3. CASE DropHandle(h) /\ ~InDelivery
  <2>1. /\ h \in owned /\ Free({h})
        /\ UNCHANGED <<display, displays, managerAlive, pendingHandles>>
    BY <1>3 DEF DropHandle
  <2>2. mem[h] = "live"
    BY <2>1 DEF DrainInv, OwnedIsLive
  <2>3. displays <= 1 => Tally'
    BY <2>1, <2>2, FreeTally DEF OneDisplay, DrainInv
  <2>4. \A g \in ToSet(pendingHandles) : mem'[g] = mem[g]
    BY <2>1, QueuedIs, FreeMarks DEF DrainInv
  <2> QED
    BY <2>1, <2>3, <2>4 DEF OneDisplay
<1> QED
  BY <1>1, <1>2, <1>3

\* A live layer surface is destroyed.
LEMMA OneDisplayDestroy ==
  ASSUME DrainInv, OneDisplay, NEW l \in Layers, mem[l] = "live",
         DestroyLayer(l), UNCHANGED <<display, displays, managerAlive, pendingHandles>>
  PROVE  OneDisplay'
<1>1. l \in Objects /\ ToSet(pendingHandles) \subseteq Objects \ {l}
  BY QueuedIs, TurnDrainAssumption
<1>2. \A x \in Objects \ {l} : mem'[x] = mem[x] /\ frees'[x] = frees[x]
  BY DEF DestroyLayer, DrainInv, DrainTypeOK
<1>3. \/ mem'[l] = "dying" /\ frees'[l] = frees[l]
      \/ mem'[l] = "freed" /\ frees'[l] = frees[l] + 1
  BY <1>1 DEF DestroyLayer, DrainInv, DrainTypeOK
<1>4. displays <= 1 => Tally'
  BY <1>1, <1>2, <1>3 DEF OneDisplay, Tally
<1> QED
  BY <1>1, <1>2, <1>4 DEF OneDisplay

\* What wlroots and the drain destroy of the layer surfaces is alive.
LEMMA OneDisplayLayer ==
  ASSUME DrainInv, OneDisplay,
         \/ \E l \in Layers : OnNewLayerSurface(l) \/ LayerGone(l)
         \/ DrainLayer
  PROVE  OneDisplay'
<1>1. ASSUME NEW l \in Layers, OnNewLayerSurface(l) PROVE OneDisplay'
  <2>1. /\ mem' = [mem EXCEPT ![l] = "live"] /\ frees' = frees /\ mem[l] = "unborn"
        /\ UNCHANGED <<display, displays, managerAlive, pendingHandles>>
    BY <1>1 DEF OnNewLayerSurface, registry
  <2>2. \A x \in Objects : mem'[x] = IF x = l THEN "live" ELSE mem[x]
    BY <2>1 DEF DrainInv, DrainTypeOK
  <2>3. displays <= 1 => Tally'
    BY <2>1, <2>2 DEF OneDisplay, Tally
  <2>4. ToSet(pendingHandles) \subseteq Objects
    BY QueuedIs
  <2> QED
    BY <2>1, <2>2, <2>3, <2>4 DEF OneDisplay
<1>2. ASSUME NEW l \in Layers, LayerGone(l) PROVE OneDisplay'
  BY <1>2, OneDisplayDestroy DEF LayerGone, registry
<1>3. CASE DrainLayer /\ Head(draining) \in layerSurfaces
  <2>1. /\ DestroyLayer(Head(draining))
        /\ UNCHANGED <<display, displays, managerAlive, pendingHandles>>
    BY <1>3 DEF DrainLayer, registry
  <2>2. Head(draining) \in Layers /\ mem[Head(draining)] = "live"
    BY <1>3 DEF DrainInv, DrainTypeOK, TableNamesLive
  <2> QED
    BY <2>1, <2>2, OneDisplayDestroy
<1>4. CASE DrainLayer /\ Head(draining) \notin layerSurfaces
  BY <1>4, OneDisplaySame DEF DrainLayer, registry, objects
<1> QED
  BY <1>1, <1>2, <1>3, <1>4

\* A dying surface is freed when its handler returned.
LEMMA OneDisplayReturns ==
  ASSUME DrainInv, OneDisplay, HandlerReturns
  PROVE  OneDisplay'
<1>1. UNCHANGED <<display, displays, managerAlive, pendingHandles>>
  BY DEF HandlerReturns, registry
<1>2. CASE mem[emitting] = "dying"
  <2>1. Free({emitting})
    BY <1>2 DEF HandlerReturns
  <2>2. displays <= 1 => Tally'
    BY <1>2, <2>1, FreeTally DEF OneDisplay, DrainInv
  <2>3. \A g \in ToSet(pendingHandles) : mem[g] = "live" => mem'[g] = "live"
    BY <1>2, <2>1, QueuedIs, FreeMarks DEF DrainInv
  <2> QED
    BY <1>1, <2>2, <2>3 DEF OneDisplay
<1>3. CASE mem[emitting] # "dying"
  BY <1>1, <1>3, OneDisplaySame DEF HandlerReturns, objects
<1> QED
  BY <1>2, <1>3

\* The handles the drain destroys are alive.
LEMMA OneDisplayDrain ==
  ASSUME DrainInv, OneDisplay, DrainHandles
  PROVE  OneDisplay'
<1>1. /\ UNCHANGED <<display, displays, managerAlive>> /\ pendingHandles' = <<>>
      /\ ToSet(pendingHandles') = {}
  BY EmptyHasNone DEF DrainHandles, registry
<1>2. CASE managerAlive
  <2>1. Free(ToSet(pendingHandles))
    BY <1>2, Zenon DEF DrainHandles
  <2>2. displays <= 1 => \A h \in ToSet(pendingHandles) : mem[h] = "live"
    <3>1. managerAlive => display
      BY DEF OneDisplay
    <3>2. display
      BY <1>2, <3>1, Zenon
    <3> QED
      BY <3>2 DEF OneDisplay
  <2>3. displays <= 1 => Tally'
    BY <2>1, <2>2, FreeTally DEF OneDisplay, DrainInv
  <2> QED
    BY <1>1, <2>3 DEF OneDisplay
<1>3. CASE ~managerAlive
  <2>1. mem' = mem /\ frees' = frees
    BY <1>3, Zenon DEF DrainHandles, objects
  <2> QED
    BY <1>1, <2>1 DEF OneDisplay, Tally
<1> QED
  BY <1>2, <1>3

\* Every step keeps it.
LEMMA OneDisplayKept ==
  ASSUME DrainInv, OneDisplay, [DrainNext]_drainVars
  PROVE  OneDisplay'
<1>1. CASE NewDisplay \/ DropDisplay \/ CreateManager
  BY <1>1, OneDisplayRegistry
<1>2. ASSUME NEW h \in Handles, CreateHandle(h) \/ DropHandle(h) PROVE OneDisplay'
  BY <1>2, OneDisplayHandle
<1>3. CASE \/ \E l \in Layers : OnNewLayerSurface(l) \/ LayerGone(l)
           \/ DrainLayer
  BY <1>3, OneDisplayLayer
<1>4. CASE HandlerReturns
  BY <1>4, OneDisplayReturns
<1>5. CASE DrainHandles
  BY <1>5, OneDisplayDrain
<1>6. CASE \/ \E l \in Layers : DestroyLayerSurface(l)
           \/ \E x \in Objects : Signal(x)
           \/ StartRun \/ StartDrain \/ Flushed \/ RunReturn
           \/ \E stop \in BOOLEAN : StopReturns(stop)
           \/ UNCHANGED drainVars
  <2>1. UNCHANGED <<mem, frees, display, displays, managerAlive, pendingHandles>>
    BY <1>6 DEF DestroyLayerSurface, Signal, StartRun, StartDrain, Flushed,
       RunReturn, StopReturns, drainVars, objects, registry
  <2> QED
    BY <2>1, OneDisplaySame
<1> QED
  BY <1>1, <1>2, <1>3, <1>4, <1>5, <1>6, Zenon DEF DrainNext

\* A queued handle has no owner who could drop it again.
LEMMA QueuedOnceKept ==
  ASSUME DrainInv, QueuedOnce, [DrainNext]_drainVars
  PROVE  QueuedOnce'
<1>1. \/ pendingHandles' = pendingHandles \/ pendingHandles' = <<>>
      \/ \E h \in owned : pendingHandles' = Append(pendingHandles, h)
  <2>1. ASSUME NEW h \in Handles, CreateHandle(h) \/ DropHandle(h) PROVE <1>1
    BY <2>1, Zenon DEF CreateHandle, DropHandle
  <2>2. CASE \/ NewDisplay \/ DropDisplay \/ CreateManager \/ DrainHandles
             \/ HandlerReturns \/ DrainLayer
             \/ \E l \in Layers : \/ OnNewLayerSurface(l) \/ LayerGone(l)
                                  \/ DestroyLayerSurface(l)
             \/ \E x \in Objects : Signal(x)
             \/ StartRun \/ StartDrain \/ Flushed \/ RunReturn
             \/ \E stop \in BOOLEAN : StopReturns(stop)
             \/ UNCHANGED drainVars
    BY <2>2 DEF NewDisplay, DropDisplay, CreateManager, DrainHandles,
       HandlerReturns, DrainLayer, OnNewLayerSurface, LayerGone,
       DestroyLayerSurface, Signal, StartRun, StartDrain, Flushed,
       RunReturn, StopReturns, drainVars
  <2> QED
    BY <2>1, <2>2, Zenon DEF DrainNext
<1>2. CASE pendingHandles' = pendingHandles \/ pendingHandles' = <<>>
  BY <1>2 DEF QueuedOnce
<1>3. ASSUME NEW h \in owned, pendingHandles' = Append(pendingHandles, h) PROVE QueuedOnce'
  <2>1. pendingHandles \in Seq(Handles) /\ h \in Handles
    BY DEF DrainInv, DrainTypeOK
  <2>2. \A i \in DOMAIN pendingHandles : pendingHandles[i] # h
    BY QueuedIs DEF ToSet
  <2>3. /\ DOMAIN pendingHandles = 1..Len(pendingHandles) /\ Len(pendingHandles) \in Nat
        /\ DOMAIN pendingHandles' = 1..Len(pendingHandles) + 1
        /\ \A i \in 1..Len(pendingHandles) : pendingHandles'[i] = pendingHandles[i]
        /\ pendingHandles'[Len(pendingHandles) + 1] = h
    BY <1>3, <2>1
  <2> QED
    BY <2>2, <2>3 DEF QueuedOnce
<1> QED
  BY <1>1, <1>2, <1>3

\* The strengthened invariant for one display.
LEMMA DrainStrong == DrainSpec => [](DrainInv /\ OneDisplay /\ QueuedOnce)
<1>1. DrainInit => DrainInv /\ OneDisplay /\ QueuedOnce
  <2> SUFFICES ASSUME DrainInit PROVE DrainInv /\ OneDisplay /\ QueuedOnce
    OBVIOUS
  <2>1. DrainInv
    BY DrainInitInv
  <2>2. OneDisplay /\ QueuedOnce
    BY EmptyHasNone DEF DrainInit, OneDisplay, Tally, QueuedOnce
  <2> QED
    BY <2>1, <2>2
<1>2. DrainInv /\ OneDisplay /\ QueuedOnce /\ [DrainNext]_drainVars
        => (DrainInv /\ OneDisplay /\ QueuedOnce)'
  BY DrainNextInv, OneDisplayKept, QueuedOnceKept
<1> QED
  BY <1>1, <1>2, PTL DEF DrainSpec

-----------------------------------------------------------------------------
\* The strengthened invariant holds of every behaviour of the drain.
THEOREM DrainInvariant == DrainSpec => []DrainInv
<1>1. DrainInit => DrainInv
  BY DrainInitInv
<1>2. DrainInv /\ [DrainNext]_drainVars => DrainInv'
  BY DrainNextInv
<1> QED
  BY <1>1, <1>2, PTL DEF DrainSpec

\* Every variable of TurnDrain keeps its type, and the object a handler runs
\* under is known exactly while a handler runs.
THEOREM DrainTypeCorrect == DrainSpec => []DrainTypeOK
BY DrainInvariant, PTL DEF DrainInv

\* A destroy asked for in a handler never frees the object whose signal
\* wlroots is emitting: drop and destroy_layer_surface put it off.
THEOREM EmissionSafe == DrainSpec => []EmittingIsAllocated
BY DrainInvariant, PTL DEF DrainInv

\* What layer_surface_ptr resolves is alive, in every run and every turn.
THEOREM IdsResolveToLive == DrainSpec => []TableNamesLive
BY DrainInvariant, PTL DEF DrainInv

\* A dropped ForeignToplevelHandle is freed or still queued.
THEOREM NoHandleLeaked == DrainSpec => []DroppedIsReleased
BY DrainInvariant, PTL DEF DrainInv

\* A ForeignToplevelHandle that is not inert names a live handle of a live
\* manager.
THEOREM HandlesUsable == DrainSpec => []OwnedIsLive
BY DrainInvariant, PTL DEF DrainInv

\* With one display over the Runtime's life no object is freed twice, whichever
\* of a client, the display, a drop and the drain gets to it first.
THEOREM FreedAtMostOnce == DrainSpec => []FreedOnce
<1>1. OneDisplay => FreedOnce
  BY DEF OneDisplay, Tally, FreedOnce
<1> QED
  BY <1>1, DrainStrong, PTL

\* drain_pending_foreign_toplevel_destroys finds no pointer twice in its queue,
\* which is why the model may free the queue as a set.
THEOREM QueuedAtMostOnce == DrainSpec => []QueuedOnce
BY DrainStrong, PTL
=============================================================================
