------------------------ MODULE AccTreeIndex_proof ------------------------
(***************************************************************************)
(* Theorems about AccTreeIndex, for any keywords, files, batches, segments *)
(* and number of requests: the lanes in memory are the forest of the       *)
(* record index, LevelDB has every node below a root of the manifest, the  *)
(* proof of every match leads to its root, and the index answers what      *)
(* KeywordIndex promises, across every restart that finds the lanes        *)
(* written.                                                                *)
(*                                                                         *)
(* The trees are followed from the leaves up (Grown: no keyword on both    *)
(* sides of a node, and a search that gets to every leaf), so that a lane  *)
(* is known by its leaves (LaneIs), a forest gives back its index          *)
(* (ForestRecords), and a change of one keyword leaves the lanes before    *)
(* its place alone (RebuiltIs).  The invariant IInv is then about indexes. *)
(***************************************************************************)
EXTENDS AccTreeIndex, SequenceTheorems, WellFoundedInduction, TLAPS

(***************************************************************************)
(* Recursion                                                               *)
(***************************************************************************)

\* Induction on the numbers from 0 on, for sets.
LEMMA Upward ==
    ASSUME NEW n \in Nat, NEW T,
           0 \in T, \A k \in 1 .. n : k - 1 \in T => k \in T
    PROVE  0 .. n \subseteq T
<1> DEFINE R == {ss \in Nat \X Nat : ss[1] < ss[2]}
           Missed == {k \in Nat : k \in 0 .. n /\ k \notin T}
<1>1. IsWellFoundedOn(R, Nat)
  BY NatLessThanWellFounded DEF OpToRel
<1> HIDE DEF R
<1>2. CASE Missed = {}
  BY <1>2
<1>3. CASE Missed # {}
  <2>1. PICK k \in Missed : \A m \in Missed : ~(<<m, k>> \in R)
    <3>1. Missed \subseteq Nat
      OBVIOUS
    <3> HIDE DEF Missed
    <3> QED BY <1>1, <1>3, <3>1, WFMin
  <2>2. k \in Nat /\ k \in 0 .. n /\ k \notin T /\ k # 0
    OBVIOUS
  <2>3. k - 1 \in Nat /\ k - 1 \notin Missed
    <3>1. k - 1 \in Nat /\ k - 1 < k
      BY <2>2
    <3>2. <<k - 1, k>> \in R
      BY <2>2, <3>1 DEF R
    <3> HIDE DEF Missed
    <3> QED BY <2>1, <3>1, <3>2
  <2>4. k - 1 \in T /\ k \in 1 .. n
    BY <2>2, <2>3
  <2> QED BY <2>2, <2>4
<1> QED BY <1>2, <1>3

\* The function an operator is defined by exists, and its equations hold: the
\* levels of a lane.
LEMMA LevelsExist ==
    ASSUME NEW leaves, NEW n \in Nat
    PROVE  \E f : f = [h \in 0 .. n |-> IF h = 0 THEN leaves ELSE Paired(f[h - 1])]
<1> DEFINE Is(f, m) == f = [h \in 0 .. m |-> IF h = 0 THEN leaves ELSE Paired(f[h - 1])]
           T == {m \in 0 .. n : \E f : Is(f, m)}
<1>1. 0 \in T
  <2> DEFINE f == [h \in 0 .. 0 |-> leaves]
  <2>1. Is(f, 0)
    OBVIOUS
  <2> HIDE DEF Is
  <2> QED BY <2>1
<1>2. ASSUME NEW m \in 1 .. n, m - 1 \in T
      PROVE  m \in T
  <2>1. PICK f : Is(f, m - 1)
    BY <1>2
  <2> DEFINE g == [h \in 0 .. m |-> IF h = m THEN Paired(f[m - 1]) ELSE f[h]]
  <2>2. Is(g, m)
    <3>1. ASSUME NEW h \in 0 .. m
          PROVE  g[h] = IF h = 0 THEN leaves ELSE Paired(g[h - 1])
      <4>1. CASE h = m
        <5>1. g[h] = Paired(f[m - 1]) /\ g[h - 1] = f[m - 1] /\ h # 0
          BY <4>1
        <5> HIDE DEF g
        <5> QED BY <5>1
      <4>2. CASE h # m
        <5>1. h \in 0 .. m - 1 /\ g[h] = f[h]
          BY <4>2
        <5>2. f[h] = IF h = 0 THEN leaves ELSE Paired(f[h - 1])
          BY <2>1, <5>1
        <5>3. h # 0 => g[h - 1] = f[h - 1]
          BY <4>2
        <5> HIDE DEF g
        <5> QED BY <5>1, <5>2, <5>3
      <4> QED BY <4>1, <4>2
    <3> QED BY <3>1
  <2> HIDE DEF Is, g
  <2> QED BY <2>2
<1>3. 0 .. n \subseteq T
  <2> HIDE DEF T
  <2> QED BY <1>1, <1>2, Upward
<1>4. n \in T
  <2> HIDE DEF T
  <2> QED BY <1>3
<1> QED BY <1>4

\* The nodes of each depth.
LEMMA UnderExist ==
    ASSUME NEW node, NEW n \in Nat
    PROVE  \E f : f = [d \in 0 .. n |-> IF d = 0 THEN {node}
                                   ELSE Children(f[d - 1])]
<1> DEFINE From(x, d) == Children(x)
           Is(f, m) == f = [d \in 0 .. m |-> IF d = 0 THEN {node} ELSE From(f[d - 1], d)]
           T == {m \in 0 .. n : \E f : Is(f, m)}
<1>1. 0 \in T
  <2> DEFINE f == [d \in 0 .. 0 |-> {node}]
  <2>1. Is(f, 0)
    <3> HIDE DEF From
    <3> QED OBVIOUS
  <2> HIDE DEF Is
  <2> QED BY <2>1
<1>2. ASSUME NEW m \in 1 .. n, m - 1 \in T
      PROVE  m \in T
  <2>1. PICK f : Is(f, m - 1)
    BY <1>2
  <2> HIDE DEF From
  <2> DEFINE g == [d \in 0 .. m |-> IF d = m THEN From(f[m - 1], m) ELSE f[d]]
  <2>2. Is(g, m)
    <3>1. ASSUME NEW d \in 0 .. m
          PROVE  g[d] = IF d = 0 THEN {node} ELSE From(g[d - 1], d)
      <4>1. CASE d = m
        <5>1. g[d] = From(f[m - 1], m) /\ g[d - 1] = f[m - 1] /\ d # 0
          BY <4>1
        <5> HIDE DEF g
        <5> QED BY <4>1, <5>1
      <4>2. CASE d # m
        <5>1. d \in 0 .. m - 1 /\ g[d] = f[d]
          BY <4>2
        <5>2. f[d] = IF d = 0 THEN {node} ELSE From(f[d - 1], d)
          BY <2>1, <5>1
        <5>3. d # 0 => g[d - 1] = f[d - 1]
          BY <4>2
        <5> HIDE DEF g
        <5> QED BY <5>1, <5>2, <5>3
      <4> QED BY <4>1, <4>2
    <3> QED BY <3>1
  <2> HIDE DEF Is, g
  <2> QED BY <2>2
<1>3. 0 .. n \subseteq T
  <2> HIDE DEF T
  <2> QED BY <1>1, <1>2, Upward
<1>4. n \in T
  <2> HIDE DEF T
  <2> QED BY <1>3
<1> QED BY <1>4

\* What is reached in LevelDB.
IsReached(f, r, store, n) ==
    f = [d \in 0 .. n |-> IF d = 0 THEN {r} \cap store ELSE Children(f[d - 1]) \cap store]

\* Its function exists.
LEMMA ReachedExist ==
    ASSUME NEW r, NEW store, NEW n \in Nat
    PROVE  \E f : IsReached(f, r, store, n)
<1> DEFINE From(x, d) == Children(x) \cap store
           Is(f, m) == f = [d \in 0 .. m |-> IF d = 0 THEN {r} \cap store ELSE From(f[d - 1], d)]
           T == {m \in 0 .. n : \E f : Is(f, m)}
<1>1. 0 \in T
  <2> DEFINE f == [d \in 0 .. 0 |-> {r} \cap store]
  <2>1. Is(f, 0)
    <3> HIDE DEF From
    <3> QED OBVIOUS
  <2> HIDE DEF Is
  <2> QED BY <2>1
<1>2. ASSUME NEW m \in 1 .. n, m - 1 \in T
      PROVE  m \in T
  <2>1. PICK f : Is(f, m - 1)
    BY <1>2
  <2> HIDE DEF From
  <2> DEFINE g == [d \in 0 .. m |-> IF d = m THEN From(f[m - 1], m) ELSE f[d]]
  <2>2. Is(g, m)
    <3>1. ASSUME NEW d \in 0 .. m
          PROVE  g[d] = IF d = 0 THEN {r} \cap store ELSE From(g[d - 1], d)
      <4>1. CASE d = m
        <5>1. g[d] = From(f[m - 1], m) /\ g[d - 1] = f[m - 1] /\ d # 0
          BY <4>1
        <5> HIDE DEF g
        <5> QED BY <4>1, <5>1
      <4>2. CASE d # m
        <5>1. d \in 0 .. m - 1 /\ g[d] = f[d]
          BY <4>2
        <5>2. f[d] = IF d = 0 THEN {r} \cap store ELSE From(f[d - 1], d)
          BY <2>1, <5>1
        <5>3. d # 0 => g[d - 1] = f[d - 1]
          BY <4>2
        <5> HIDE DEF g
        <5> QED BY <5>1, <5>2, <5>3
      <4> QED BY <4>1, <4>2
    <3> QED BY <3>1
  <2> HIDE DEF Is, g
  <2> QED BY <2>2
<1>3. 0 .. n \subseteq T
  <2> HIDE DEF T
  <2> QED BY <1>1, <1>2, Upward
<1>4. n \in T
  <2> HIDE DEF T
  <2> QED BY <1>3
<1> QED BY <1>4 DEF IsReached

\* The worklist of collect_matches.
IsVisited(f, r, k, store, n) ==
    f = [d \in 0 .. n |-> IF d = 0 THEN WithKey({[node |-> r, path |-> <<>>]}, k, store)
                         ELSE WithKey(Lowered(f[d - 1], store), k, store)]

\* Its function exists.
LEMMA VisitedExist ==
    ASSUME NEW r, NEW k, NEW store, NEW n \in Nat
    PROVE  \E f : IsVisited(f, r, k, store, n)
<1> DEFINE From(x, d) == WithKey(Lowered(x, store), k, store)
           Is(f, m) == f = [d \in 0 .. m |-> IF d = 0 THEN WithKey({[node |-> r, path |-> <<>>]}, k, store)
                                         ELSE From(f[d - 1], d)]
           T == {m \in 0 .. n : \E f : Is(f, m)}
<1>1. 0 \in T
  <2> DEFINE f == [d \in 0 .. 0 |-> WithKey({[node |-> r, path |-> <<>>]}, k, store)]
  <2>1. Is(f, 0)
    <3> HIDE DEF From
    <3> QED OBVIOUS
  <2> HIDE DEF Is
  <2> QED BY <2>1
<1>2. ASSUME NEW m \in 1 .. n, m - 1 \in T
      PROVE  m \in T
  <2>1. PICK f : Is(f, m - 1)
    BY <1>2
  <2> HIDE DEF From
  <2> DEFINE g == [d \in 0 .. m |-> IF d = m THEN From(f[m - 1], m) ELSE f[d]]
  <2>2. Is(g, m)
    <3>1. ASSUME NEW d \in 0 .. m
          PROVE  g[d] = IF d = 0 THEN WithKey({[node |-> r, path |-> <<>>]}, k, store)
                        ELSE From(g[d - 1], d)
      <4>1. CASE d = m
        <5>1. g[d] = From(f[m - 1], m) /\ g[d - 1] = f[m - 1] /\ d # 0
          BY <4>1
        <5> HIDE DEF g
        <5> QED BY <4>1, <5>1
      <4>2. CASE d # m
        <5>1. d \in 0 .. m - 1 /\ g[d] = f[d]
          BY <4>2
        <5>2. f[d] = IF d = 0 THEN WithKey({[node |-> r, path |-> <<>>]}, k, store)
                     ELSE From(f[d - 1], d)
          BY <2>1, <5>1
        <5>3. d # 0 => g[d - 1] = f[d - 1]
          BY <4>2
        <5> HIDE DEF g
        <5> QED BY <5>1, <5>2, <5>3
      <4> QED BY <4>1, <4>2
    <3> QED BY <3>1
  <2> HIDE DEF Is, g
  <2> QED BY <2>2
<1>3. 0 .. n \subseteq T
  <2> HIDE DEF T
  <2> QED BY <1>1, <1>2, Upward
<1>4. n \in T
  <2> HIDE DEF T
  <2> QED BY <1>3
<1> QED BY <1>4 DEF IsVisited

\* The members of a set among the first i of an order.
IsUpTo(f, order, S, n) ==
    f = [i \in 0 .. n |-> IF i = 0 THEN <<>>
                         ELSE IF order[i] \in S THEN Append(f[i - 1], order[i]) ELSE f[i - 1]]

\* Its function exists.
LEMMA UpToExist ==
    ASSUME NEW order, NEW S, NEW n \in Nat
    PROVE  \E f : IsUpTo(f, order, S, n)
<1> DEFINE From(x, i) == IF order[i] \in S THEN Append(x, order[i]) ELSE x
           Is(f, m) == f = [i \in 0 .. m |-> IF i = 0 THEN <<>> ELSE From(f[i - 1], i)]
           T == {m \in 0 .. n : \E f : Is(f, m)}
<1>1. 0 \in T
  <2> DEFINE f == [i \in 0 .. 0 |-> <<>>]
  <2>1. Is(f, 0)
    <3> HIDE DEF From
    <3> QED OBVIOUS
  <2> HIDE DEF Is
  <2> QED BY <2>1
<1>2. ASSUME NEW m \in 1 .. n, m - 1 \in T
      PROVE  m \in T
  <2>1. PICK f : Is(f, m - 1)
    BY <1>2
  <2> HIDE DEF From
  <2> DEFINE g == [i \in 0 .. m |-> IF i = m THEN From(f[m - 1], m) ELSE f[i]]
  <2>2. Is(g, m)
    <3>1. ASSUME NEW i \in 0 .. m
          PROVE  g[i] = IF i = 0 THEN <<>> ELSE From(g[i - 1], i)
      <4>1. CASE i = m
        <5>1. g[i] = From(f[m - 1], m) /\ g[i - 1] = f[m - 1] /\ i # 0
          BY <4>1
        <5> HIDE DEF g
        <5> QED BY <4>1, <5>1
      <4>2. CASE i # m
        <5>1. i \in 0 .. m - 1 /\ g[i] = f[i]
          BY <4>2
        <5>2. f[i] = IF i = 0 THEN <<>> ELSE From(f[i - 1], i)
          BY <2>1, <5>1
        <5>3. i # 0 => g[i - 1] = f[i - 1]
          BY <4>2
        <5> HIDE DEF g
        <5> QED BY <5>1, <5>2, <5>3
      <4> QED BY <4>1, <4>2
    <3> QED BY <3>1
  <2> HIDE DEF Is, g
  <2> QED BY <2>2
<1>3. 0 .. n \subseteq T
  <2> HIDE DEF T
  <2> QED BY <1>1, <1>2, Upward
<1>4. n \in T
  <2> HIDE DEF T
  <2> QED BY <1>3
<1> QED BY <1>4 DEF IsUpTo

\* The nodes a path goes up through.
IsPath(f, leaf, path, n) ==
    f = [i \in 0 .. n |-> IF i = 0 THEN leaf ELSE Parent(f[i - 1], path[i])]

\* Its function exists.
LEMMA PathExist ==
    ASSUME NEW leaf, NEW path, NEW n \in Nat
    PROVE  \E f : IsPath(f, leaf, path, n)
<1> DEFINE From(x, i) == Parent(x, path[i])
           Is(f, m) == f = [i \in 0 .. m |-> IF i = 0 THEN leaf ELSE From(f[i - 1], i)]
           T == {m \in 0 .. n : \E f : Is(f, m)}
<1>1. 0 \in T
  <2> DEFINE f == [i \in 0 .. 0 |-> leaf]
  <2>1. Is(f, 0)
    <3> HIDE DEF From
    <3> QED OBVIOUS
  <2> HIDE DEF Is
  <2> QED BY <2>1
<1>2. ASSUME NEW m \in 1 .. n, m - 1 \in T
      PROVE  m \in T
  <2>1. PICK f : Is(f, m - 1)
    BY <1>2
  <2> HIDE DEF From
  <2> DEFINE g == [i \in 0 .. m |-> IF i = m THEN From(f[m - 1], m) ELSE f[i]]
  <2>2. Is(g, m)
    <3>1. ASSUME NEW i \in 0 .. m
          PROVE  g[i] = IF i = 0 THEN leaf ELSE From(g[i - 1], i)
      <4>1. CASE i = m
        <5>1. g[i] = From(f[m - 1], m) /\ g[i - 1] = f[m - 1] /\ i # 0
          BY <4>1
        <5> HIDE DEF g
        <5> QED BY <4>1, <5>1
      <4>2. CASE i # m
        <5>1. i \in 0 .. m - 1 /\ g[i] = f[i]
          BY <4>2
        <5>2. f[i] = IF i = 0 THEN leaf ELSE From(f[i - 1], i)
          BY <2>1, <5>1
        <5>3. i # 0 => g[i - 1] = f[i - 1]
          BY <4>2
        <5> HIDE DEF g
        <5> QED BY <5>1, <5>2, <5>3
      <4> QED BY <4>1, <4>2
    <3> QED BY <3>1
  <2> HIDE DEF Is, g
  <2> QED BY <2>2
<1>3. 0 .. n \subseteq T
  <2> HIDE DEF T
  <2> QED BY <1>1, <1>2, Upward
<1>4. n \in T
  <2> HIDE DEF T
  <2> QED BY <1>3
<1> QED BY <1>4 DEF IsPath

\* The equations of the operators that are defined by recursion.
LEMMA DepthIsNat == MaxDepth \in Nat
BY OrderAssumption, LenProperties DEF MaxDepth

\* The equations of the levels of build_lane_tree.
LEMMA LevelsEq ==
    ASSUME NEW leaves, Len(leaves) \in Nat
    PROVE  /\ Levels(leaves)[0] = leaves
           /\ \A h \in 1 .. Len(leaves) : Levels(leaves)[h] = Paired(Levels(leaves)[h - 1])
<1> DEFINE f == Levels(leaves)
           n == Len(leaves)
           start == leaves
           From(x, h) == Paired(x)
<1>1. \E fn : fn = [h \in 0 .. Len(leaves) |-> IF h = 0 THEN leaves ELSE Paired(fn[h - 1])]
  BY LevelsExist, Zenon
<1>2. f = [h \in 0 .. n |-> IF h = 0 THEN leaves ELSE Paired(f[h - 1])]
  BY <1>1, Zenon DEF Levels
<1>3. n \in Nat
  OBVIOUS
<1>4. f[0] = start /\ \A h \in 1 .. n : f[h] = From(f[h - 1], h)
  <2>1. f = [h \in 0 .. n |-> IF h = 0 THEN start ELSE From(f[h - 1], h)]
    BY <1>2
  <2> HIDE DEF f, n, start, From
  <2> QED BY <1>3, <2>1
<1> QED BY <1>4

\* The equations of the nodes under a node.
LEMMA UnderEq ==
    ASSUME NEW node
    PROVE  /\ Under(node)[0] = {node}
           /\ \A d \in 1 .. MaxDepth : Under(node)[d] = Children(Under(node)[d - 1])
<1> DEFINE f == Under(node)
           n == MaxDepth
           start == {node}
           From(x, d) == Children(x)
<1>1. \E fn : fn = [d \in 0 .. MaxDepth |-> IF d = 0 THEN {node} ELSE Children(fn[d - 1])]
  BY UnderExist, DepthIsNat, Zenon
<1>2. f = [d \in 0 .. n |-> IF d = 0 THEN {node} ELSE Children(f[d - 1])]
  BY <1>1, Zenon DEF Under
<1>3. n \in Nat
  BY DepthIsNat
<1>4. f[0] = start /\ \A d \in 1 .. n : f[d] = From(f[d - 1], d)
  <2>1. f = [d \in 0 .. n |-> IF d = 0 THEN start ELSE From(f[d - 1], d)]
    BY <1>2
  <2> HIDE DEF f, n, start, From
  <2> QED BY <1>3, <2>1
<1> QED BY <1>4

\* The equations of what is reached in a store.
LEMMA ReachedEq ==
    ASSUME NEW r, NEW store
    PROVE  /\ ReachedAt(r, store)[0] = {r} \cap store
           /\ \A d \in 1 .. MaxDepth :
                 ReachedAt(r, store)[d] = Children(ReachedAt(r, store)[d - 1]) \cap store
<1> DEFINE f == ReachedAt(r, store)
           n == MaxDepth
           start == {r} \cap store
           From(x, d) == Children(x) \cap store
<1>1. \E fn : IsReached(fn, r, store, MaxDepth)
  BY ReachedExist, DepthIsNat
<1>2. f = [d \in 0 .. n |-> IF d = 0 THEN {r} \cap store ELSE Children(f[d - 1]) \cap store]
  BY <1>1, Zenon DEF ReachedAt, IsReached
<1>3. n \in Nat
  BY DepthIsNat
<1>4. f[0] = start /\ \A d \in 1 .. n : f[d] = From(f[d - 1], d)
  <2>1. f = [d \in 0 .. n |-> IF d = 0 THEN start ELSE From(f[d - 1], d)]
    BY <1>2
  <2> HIDE DEF f, n, start, From
  <2> QED BY <1>3, <2>1
<1> QED BY <1>4

\* The equations of the worklist of a search.
Searches(v, r, k, store) ==
    /\ v[0] = WithKey({[node |-> r, path |-> <<>>]}, k, store)
    /\ \A d \in 1 .. MaxDepth : v[d] = WithKey(Lowered(v[d - 1], store), k, store)

LEMMA VisitedEq == \A r, k, store : Searches(VisitedAt(r, k, store), r, k, store)
<1> TAKE r, k, store
<1> DEFINE f == VisitedAt(r, k, store)
           n == MaxDepth
           start == WithKey({[node |-> r, path |-> <<>>]}, k, store)
           From(x, d) == WithKey(Lowered(x, store), k, store)
<1>1. \E fn : IsVisited(fn, r, k, store, MaxDepth)
  BY VisitedExist, DepthIsNat
<1>2. f = [d \in 0 .. n |-> IF d = 0 THEN WithKey({[node |-> r, path |-> <<>>]}, k, store)
                            ELSE WithKey(Lowered(f[d - 1], store), k, store)]
  BY <1>1, Zenon DEF VisitedAt, IsVisited
<1>3. n \in Nat
  BY DepthIsNat
<1>4. f[0] = start /\ \A d \in 1 .. n : f[d] = From(f[d - 1], d)
  <2>1. f = [d \in 0 .. n |-> IF d = 0 THEN start ELSE From(f[d - 1], d)]
    BY <1>2
  <2> HIDE DEF f, n, start, From
  <2> QED BY <1>3, <2>1
<1> QED BY <1>4 DEF Searches

\* The equations of the members of a set in order.
LEMMA UpToEq ==
    ASSUME NEW order, NEW S, Len(order) \in Nat
    PROVE  /\ UpTo(order, S)[0] = <<>>
           /\ \A i \in 1 .. Len(order) :
                 UpTo(order, S)[i] = IF order[i] \in S THEN Append(UpTo(order, S)[i - 1], order[i])
                                     ELSE UpTo(order, S)[i - 1]
           /\ InOrder(order, S) = UpTo(order, S)[Len(order)]
<1> DEFINE f == UpTo(order, S)
           n == Len(order)
           start == <<>>
           From(x, i) == IF order[i] \in S THEN Append(x, order[i]) ELSE x
<1>1. \E fn : IsUpTo(fn, order, S, Len(order))
  BY UpToExist
<1>2. f = [i \in 0 .. n |-> IF i = 0 THEN <<>>
                            ELSE IF order[i] \in S THEN Append(f[i - 1], order[i]) ELSE f[i - 1]]
  BY <1>1, Zenon DEF UpTo, IsUpTo
<1>3. n \in Nat
  OBVIOUS
<1>4. f[0] = start /\ \A i \in 1 .. n : f[i] = From(f[i - 1], i)
  <2>1. f = [i \in 0 .. n |-> IF i = 0 THEN start ELSE From(f[i - 1], i)]
    BY <1>2
  <2> HIDE DEF f, n, start, From
  <2> QED BY <1>3, <2>1
<1>5. InOrder(order, S) = UpTo(order, S)[Len(order)]
  BY DEF InOrder
<1> QED BY <1>4, <1>5

\* The equations of the walk up a path.
LEMMA PathEq ==
    ASSUME NEW leaf, NEW path, Len(path) \in Nat
    PROVE  /\ Upwards(leaf, path)[0] = leaf
           /\ \A i \in 1 .. Len(path) :
                 Upwards(leaf, path)[i] = Parent(Upwards(leaf, path)[i - 1], path[i])
           /\ PathRoot(leaf, path) = Upwards(leaf, path)[Len(path)]
<1> DEFINE f == Upwards(leaf, path)
           n == Len(path)
           start == leaf
           From(x, i) == Parent(x, path[i])
<1>1. \E fn : IsPath(fn, leaf, path, Len(path))
  BY PathExist
<1>2. f = [i \in 0 .. n |-> IF i = 0 THEN leaf ELSE Parent(f[i - 1], path[i])]
  BY <1>1, Zenon DEF Upwards, IsPath
<1>3. n \in Nat
  OBVIOUS
<1>4. f[0] = start /\ \A i \in 1 .. n : f[i] = From(f[i - 1], i)
  <2>1. f = [i \in 0 .. n |-> IF i = 0 THEN start ELSE From(f[i - 1], i)]
    BY <1>2
  <2> HIDE DEF f, n, start, From
  <2> QED BY <1>3, <2>1
<1>5. PathRoot(leaf, path) = Upwards(leaf, path)[Len(path)]
  BY DEF PathRoot
<1> QED BY <1>4, <1>5

(***************************************************************************)
(* The members of a set in order                                           *)
(***************************************************************************)

\* A function on the numbers up to n is a sequence of length n.
LEMMA FunctionIsSeq ==
    ASSUME NEW S, NEW n \in Nat, NEW f \in [1 .. n -> S]
    PROVE  f \in Seq(S) /\ Len(f) = n
<1>1. f \in Seq(S)
  BY SeqDef
<1>2. Len(f) \in Nat /\ DOMAIN f = 1 .. Len(f)
  BY <1>1, LenProperties
<1>3. DOMAIN f = 1 .. n
  OBVIOUS
<1>4. ASSUME NEW a \in Nat, NEW b \in Nat, 1 .. a = 1 .. b, a < b
      PROVE  FALSE
  <2>1. b \in 1 .. b /\ b \notin 1 .. a
    BY <1>4
  <2> QED BY <1>4, <2>1
<1>5. Len(f) = n
  BY <1>2, <1>3, <1>4
<1> QED BY <1>1, <1>5

\* What a sequence with one more element is.
LEMMA AppendIs ==
    ASSUME NEW S, NEW s \in Seq(S), NEW e \in S
    PROVE  /\ Append(s, e) \in Seq(S) /\ Len(Append(s, e)) = Len(s) + 1
           /\ \A i \in 1 .. Len(s) : Append(s, e)[i] = s[i]
           /\ Append(s, e)[Len(s) + 1] = e
           /\ ToSet(Append(s, e)) = ToSet(s) \cup {e}
<1>1. /\ Append(s, e) \in Seq(S) /\ Len(Append(s, e)) = Len(s) + 1
      /\ \A i \in 1 .. Len(s) : Append(s, e)[i] = s[i]
      /\ Append(s, e)[Len(s) + 1] = e
  OBVIOUS
<1>2. /\ Len(s) \in Nat /\ DOMAIN s = 1 .. Len(s)
      /\ DOMAIN Append(s, e) = 1 .. Len(s) + 1
  BY <1>1, LenProperties
<1>3. ToSet(Append(s, e)) = ToSet(s) \cup {e}
  <2> DEFINE t == Append(s, e)
  <2> HIDE DEF t
  <2>1. /\ \A i \in 1 .. Len(s) : t[i] = s[i]
        /\ t[Len(s) + 1] = e /\ DOMAIN t = 1 .. Len(s) + 1
    BY <1>1, <1>2 DEF t
  <2>2. ToSet(t) = ToSet(s) \cup {e}
    BY <1>2, <2>1 DEF ToSet
  <2> QED BY <2>2 DEF t
<1> QED BY <1>1, <1>3

\* What UpTo collects: the members of S among the first i, each once.
Collects(upTo, order, S, i) ==
    /\ upTo[i] \in Seq(ToSet(order))
    /\ Len(upTo[i]) <= i
    /\ \A a, b \in 1 .. Len(upTo[i]) : upTo[i][a] = upTo[i][b] => a = b
    /\ ToSet(upTo[i]) = {order[j] : j \in 1 .. i} \cap S

\* Each prefix of an order gives those of its elements that are in the set.
LEMMA UpToCollects ==
    ASSUME NEW E, NEW order \in Seq(E), IsInjective(order), NEW S
    PROVE  \A i \in 0 .. Len(order) : Collects(UpTo(order, S), order, S, i)
<1> DEFINE n == Len(order)
           u == UpTo(order, S)
           T == {i \in 0 .. n : Collects(u, order, S, i)}
           D == ToSet(order)
<1>1. n \in Nat /\ DOMAIN order = 1 .. n
  BY LenProperties
<1>2. /\ u[0] = <<>>
      /\ \A i \in 1 .. n : u[i] = IF order[i] \in S THEN Append(u[i - 1], order[i]) ELSE u[i - 1]
  BY <1>1, UpToEq
<1> HIDE DEF u
<1>3. 0 \in T
  <2>1. <<>> \in Seq(D) /\ Len(<<>>) = 0
    BY EmptySeq
  <2>2. DOMAIN <<>> = {}
    BY <2>1, LenProperties
  <2>3. ToSet(u[0]) = {} /\ {order[j] : j \in 1 .. 0} = {} /\ 1 .. Len(u[0]) = {}
    BY <1>2, <2>1, <2>2 DEF ToSet
  <2>4. Collects(u, order, S, 0)
    <3> DEFINE images == {order[j] : j \in 1 .. 0}
    <3>1. /\ u[0] \in Seq(D) /\ Len(u[0]) <= 0
          /\ \A a, b \in 1 .. Len(u[0]) : u[0][a] = u[0][b] => a = b
          /\ ToSet(u[0]) = images \cap S
      <4>1. images = {}
        BY <2>3
      <4> HIDE DEF images
      <4> QED BY <1>2, <2>1, <2>3, <4>1
    <3> QED BY <3>1, Zenon DEF Collects
  <2>5. 0 \in 0 .. n
    BY <1>1
  <2> QED BY <2>4, <2>5
<1>4. ASSUME NEW i \in 1 .. n, i - 1 \in T
      PROVE  i \in T
  <2>1. Collects(u, order, S, i - 1)
    BY <1>4
  <2>2. {order[j] : j \in 1 .. i} = {order[j] : j \in 1 .. i - 1} \cup {order[i]}
    <3>1. 1 .. i = (1 .. i - 1) \cup {i}
      BY <1>1
    <3> HIDE DEF n
    <3> QED BY <3>1
  <2>3. order[i] \in D
    BY <1>1 DEF ToSet
  <2>4. CASE order[i] \notin S
    <3>1. u[i] = u[i - 1]
      BY <1>2, <2>4
    <3>2. Collects(u, order, S, i)
      <4> HIDE DEF n
      <4>1. i \in Int /\ i - 1 <= i
        BY <1>1
      <4>2. Len(u[i - 1]) \in Int
        BY <2>1, LenProperties DEF Collects
      <4> QED BY <2>1, <2>2, <2>4, <3>1, <4>1, <4>2 DEF Collects
    <3> QED BY <3>2
  <2>5. CASE order[i] \in S
    <3> DEFINE s == u[i - 1]
               e == order[i]
    <3>1. u[i] = Append(s, e)
      BY <1>2, <2>5
    <3>2. s \in Seq(D) /\ e \in D /\ Len(s) \in Nat /\ DOMAIN s = 1 .. Len(s)
      BY <2>1, <2>3, LenProperties DEF Collects
    <3>3. e \notin ToSet(s)
      <4>1. \A j \in 1 .. i - 1 : order[j] # order[i]
        BY <1>1 DEF IsInjective
      <4>2. ToSet(s) \subseteq {order[j] : j \in 1 .. i - 1}
        BY <2>1 DEF Collects
      <4> HIDE DEF s
      <4> QED BY <4>1, <4>2
    <3>4. /\ Append(s, e) \in Seq(D) /\ Len(Append(s, e)) = Len(s) + 1
          /\ \A a \in 1 .. Len(s) : Append(s, e)[a] = s[a]
          /\ Append(s, e)[Len(s) + 1] = e
          /\ ToSet(Append(s, e)) = ToSet(s) \cup {e}
      <4> HIDE DEF s, e, D
      <4> QED BY <3>2, AppendIs
    <3> DEFINE t == Append(s, e)
    <3>5. \A a, b \in 1 .. Len(s) : s[a] = s[b] => a = b
      BY <2>1 DEF Collects
    <3>6. \A a \in 1 .. Len(s) : s[a] # e
      <4> HIDE DEF e
      <4> QED BY <3>2, <3>3 DEF ToSet
    <3>7. \A a, b \in 1 .. Len(t) : t[a] = t[b] => a = b
      <4> HIDE DEF s, e, t
      <4>1. /\ Len(t) = Len(s) + 1 /\ t[Len(s) + 1] = e
            /\ \A a \in 1 .. Len(s) : t[a] = s[a]
        BY <3>4 DEF t
      <4> QED BY <3>2, <3>5, <3>6, <4>1
    <3>8. Len(t) <= i
      <4>1. Len(s) <= i - 1
        BY <2>1 DEF Collects
      <4> HIDE DEF s, e
      <4> QED BY <1>1, <3>2, <3>4, <4>1
    <3>9. ToSet(t) = {order[j] : j \in 1 .. i} \cap S
      <4>1. ToSet(s) = {order[j] : j \in 1 .. i - 1} \cap S
        BY <2>1 DEF Collects
      <4>2. ToSet(t) = ToSet(s) \cup {e}
        BY <3>4
      <4> HIDE DEF s, t
      <4> QED BY <2>2, <2>5, <4>1, <4>2
    <3>10. Collects(u, order, S, i)
      <4>1. t \in Seq(D) /\ u[i] = t
        BY <3>1, <3>4
      <4> HIDE DEF t
      <4> QED BY <3>7, <3>8, <3>9, <4>1 DEF Collects
    <3> QED BY <3>10
  <2> QED BY <2>4, <2>5
<1>5. 0 .. n \subseteq T
  <2> HIDE DEF T, n
  <2> QED BY <1>1, <1>3, <1>4, Upward
<1> QED BY <1>5 DEF u

\* All the members of S, each once.
LEMMA InOrderIs ==
    ASSUME NEW E, NEW order \in Seq(E), IsInjective(order),
           NEW S \in SUBSET ToSet(order), NEW s, s = InOrder(order, S)
    PROVE  /\ s \in Seq(ToSet(order)) /\ Len(s) <= Len(order)
           /\ \A a, b \in 1 .. Len(s) : s[a] = s[b] => a = b
           /\ ToSet(s) = S
<1> DEFINE n == Len(order)
           u == UpTo(order, S)
<1>1. n \in Nat /\ DOMAIN order = 1 .. n
  BY LenProperties
<1>2. s = u[n]
  BY <1>1, UpToEq
<1>3. n \in 0 .. n
  BY <1>1
<1>4. Collects(u, order, S, n)
  BY <1>3, UpToCollects
<1>5. {order[j] : j \in 1 .. n} = ToSet(order)
  BY <1>1 DEF ToSet
<1> HIDE DEF n, u
<1> QED BY <1>2, <1>4, <1>5 DEF Collects, n

\* A member that S gets goes to a place q + 1 of the sequence t; s is what is
\* collected without it.
Opens(s, t, q, f) ==
    /\ q \in 0 .. Len(s) /\ Len(t) = Len(s) + 1
    /\ \A j \in 1 .. q : t[j] = s[j]
    /\ t[q + 1] = f

\* Two sequences that part at a place still do when both get longer.
LEMMA AppendOpens ==
    ASSUME NEW E, NEW s \in Seq(E), NEW t \in Seq(E), NEW q, NEW f, NEW e \in E, Opens(s, t, q, f)
    PROVE  Opens(Append(s, e), Append(t, e), q, f)
<1>1. Len(s) \in Nat /\ q \in 0 .. Len(s) /\ Len(t) = Len(s) + 1
  BY LenProperties DEF Opens
<1> DEFINE a == Append(s, e)
           b == Append(t, e)
<1>2. /\ Len(a) = Len(s) + 1 /\ Len(b) = Len(t) + 1
      /\ \A i \in 1 .. Len(s) : a[i] = s[i]
      /\ \A i \in 1 .. Len(t) : b[i] = t[i]
  BY AppendIs
<1> HIDE DEF a, b
<1>3. Opens(a, b, q, f)
  BY <1>1, <1>2 DEF Opens
<1> QED BY <1>3 DEF a, b

\* One more member opens a place in the ordered sequence of a set.
LEMMA InOrderOpens ==
    ASSUME NEW E, NEW order \in Seq(E), IsInjective(order),
           NEW S, NEW f \in ToSet(order), f \notin S
    PROVE  \E q : Opens(InOrder(order, S), InOrder(order, S \cup {f}), q, f)
<1> DEFINE n == Len(order)
           u == UpTo(order, S)
           v == UpTo(order, S \cup {f})
           D == ToSet(order)
<1>1. n \in Nat /\ DOMAIN order = 1 .. n
  BY LenProperties
<1>2. PICK p \in 1 .. n : order[p] = f
  BY <1>1 DEF ToSet
<1>3. \A i \in 1 .. n : i # p => order[i] # f
  BY <1>1, <1>2 DEF IsInjective
<1>4. /\ u[0] = <<>>
      /\ \A i \in 1 .. n : u[i] = IF order[i] \in S THEN Append(u[i - 1], order[i]) ELSE u[i - 1]
      /\ InOrder(order, S) = u[n]
  BY <1>1, UpToEq
<1>5. /\ v[0] = <<>>
      /\ \A i \in 1 .. n : v[i] = IF order[i] \in S \cup {f} THEN Append(v[i - 1], order[i])
                                  ELSE v[i - 1]
      /\ InOrder(order, S \cup {f}) = v[n]
  BY <1>1, UpToEq
<1>6. \A i \in 0 .. n : u[i] \in Seq(D) /\ v[i] \in Seq(D)
  BY UpToCollects DEF Collects
<1>7. \A i \in 1 .. n : order[i] \in D
  BY <1>1 DEF ToSet
<1> HIDE DEF u, v, D
<1> DEFINE q == Len(u[p - 1])
           T == {i \in 0 .. n : IF i < p THEN u[i] = v[i] ELSE Opens(u[i], v[i], q, f)}
<1>8. 0 \in T
  BY <1>1, <1>2, <1>4, <1>5
<1>9. ASSUME NEW i \in 1 .. n, i - 1 \in T
      PROVE  i \in T
  <2> DEFINE e == order[i]
  <2> HIDE DEF q, n
  <2>1. i \in Int /\ p \in Int /\ n \in Int /\ i - 1 \in 0 .. n
    BY <1>1, <1>2
  <2>2. CASE i < p
    <3>1. u[i - 1] = v[i - 1] /\ e # f
      BY <1>2, <1>3, <1>9, <2>1, <2>2
    <3>2. u[i] = v[i]
      BY <1>4, <1>5, <3>1
    <3> QED BY <2>1, <2>2, <3>2
  <2>3. CASE i = p
    <3>1. u[i - 1] = v[i - 1] /\ e = f
      BY <1>2, <1>9, <2>1, <2>3
    <3>2. u[i] = u[i - 1] /\ v[i] = Append(u[i - 1], f)
      BY <1>4, <1>5, <3>1
    <3> DEFINE s == u[i - 1]
    <3>3. s \in Seq(D) /\ f \in D /\ q = Len(s)
      BY <1>6, <1>7, <2>1, <2>3, <3>1 DEF q
    <3> HIDE DEF s
    <3>4. /\ Len(Append(s, f)) = Len(s) + 1 /\ \A j \in 1 .. Len(s) : Append(s, f)[j] = s[j]
          /\ Append(s, f)[Len(s) + 1] = f
      BY <3>3, AppendIs
    <3>5. Len(s) \in Nat
      BY <3>3, LenProperties
    <3>6. Opens(s, Append(s, f), q, f)
      BY <3>3, <3>4, <3>5 DEF Opens
    <3>7. Opens(u[i], v[i], q, f)
      BY <3>2, <3>6 DEF s
    <3> QED BY <2>1, <2>3, <3>7
  <2>4. CASE i > p
    <3>1. Opens(u[i - 1], v[i - 1], q, f) /\ e # f
      BY <1>2, <1>3, <1>9, <2>1, <2>4
    <3>2. Opens(u[i], v[i], q, f)
      <4>1. CASE e \in S
        <5>1. u[i] = Append(u[i - 1], e) /\ v[i] = Append(v[i - 1], e)
          BY <1>4, <1>5, <4>1
        <5>2. u[i - 1] \in Seq(D) /\ v[i - 1] \in Seq(D) /\ e \in D
          BY <1>6, <1>7, <2>1
        <5> QED BY <3>1, <5>1, <5>2, AppendOpens
      <4>2. CASE e \notin S
        <5>1. u[i] = u[i - 1] /\ v[i] = v[i - 1]
          BY <1>4, <1>5, <3>1, <4>2
        <5> QED BY <3>1, <5>1
      <4> QED BY <4>1, <4>2
    <3> QED BY <2>1, <2>4, <3>2
  <2> QED BY <2>1, <2>2, <2>3, <2>4
<1>10. 0 .. n \subseteq T
  <2> HIDE DEF T, n
  <2> QED BY <1>1, <1>8, <1>9, Upward
<1>11. Opens(u[n], v[n], q, f)
  <2>1. n \in T /\ ~(n < p)
    BY <1>1, <1>2, <1>10
  <2> HIDE DEF q, n
  <2> QED BY <2>1
<1> QED BY <1>4, <1>5, <1>11

\* The sorted sequence of a set of files has each of them once.
LEMMA SortedIs ==
    ASSUME NEW S \in SUBSET Files, NEW s, s = Sorted(S)
    PROVE  /\ s \in Seq(Files) /\ Len(s) <= Len(FileOrder)
           /\ \A a, b \in 1 .. Len(s) : s[a] = s[b] => a = b
           /\ ToSet(s) = S
BY InOrderIs, OrderAssumption DEF Sorted

\* Where a file comes or goes, and what stays before it.
Shifted(s, t, p) ==
    /\ p \in 1 .. Len(t) /\ Len(t) = Len(s) + 1
    /\ \A j \in 1 .. p - 1 : s[j] = t[j]

\* The place binary_search finds is where the file is, or would be.
LEMMA PlaceIs ==
    ASSUME NEW S \in SUBSET Files, NEW f \in Files, f \notin S,
           NEW s, s = Sorted(S), NEW t, t = Sorted(S \cup {f})
    PROVE  Shifted(s, t, Place(s, f)) /\ Shifted(s, t, Place(t, f))
<1>1. s \in Seq(Files) /\ ToSet(s) = S
  BY SortedIs
<1>2. /\ t \in Seq(Files) /\ ToSet(t) = S \cup {f}
      /\ \A a, b \in 1 .. Len(t) : t[a] = t[b] => a = b
  <2> DEFINE U == S \cup {f}
  <2>1. U \in SUBSET Files /\ t = Sorted(U)
    OBVIOUS
  <2> HIDE DEF U
  <2>2. /\ t \in Seq(Files) /\ ToSet(t) = U
        /\ \A a, b \in 1 .. Len(t) : t[a] = t[b] => a = b
    BY <2>1, SortedIs
  <2> QED BY <2>2 DEF U
<1>3. PICK q : Opens(s, t, q, f)
  <2>1. f \in ToSet(FileOrder)
    BY OrderAssumption
  <2> QED BY <2>1, OrderAssumption, InOrderOpens DEF Sorted
<1>4. Len(s) \in Nat /\ Len(t) \in Nat /\ DOMAIN t = 1 .. Len(t)
  BY <1>1, <1>2, LenProperties
<1> DEFINE p == CHOOSE i \in DOMAIN t : t[i] = f
<1>5. p = q + 1
  <2>1. q + 1 \in DOMAIN t /\ t[q + 1] = f
    BY <1>3, <1>4 DEF Opens
  <2>2. p \in DOMAIN t /\ t[p] = f
    BY <2>1, Zenon
  <2> HIDE DEF p
  <2> QED BY <1>2, <1>4, <2>1, <2>2
<1>6. Shifted(s, t, p)
  <2> HIDE DEF p
  <2>1. q \in Int /\ p - 1 = q /\ p \in 1 .. Len(t)
    BY <1>3, <1>4, <1>5 DEF Opens
  <2> QED BY <1>3, <2>1 DEF Opens, Shifted
<1>7. Place(s, f) = p /\ Place(t, f) = p
  <2>1. Sorted(ToSet(s) \cup {f}) = t
    BY <1>1
  <2>2. ToSet(t) \cup {f} = S \cup {f}
    BY <1>2
  <2>3. Sorted(ToSet(t) \cup {f}) = t
    BY <2>2
  <2> QED BY <2>1, <2>3 DEF Place
<1> QED BY <1>6, <1>7

\* A bounded set of numbers that is not empty has a greatest one.
LEMMA MaxExists ==
    ASSUME NEW n \in Nat, NEW S \in SUBSET (0 .. n), S # {}
    PROVE  Max(S) \in S /\ \A x \in S : x <= Max(S)
<1> DEFINE Greatest(m, b) == m \in S \cap 0 .. b /\ \A x \in S \cap 0 .. b : x <= m
           T == {b \in 0 .. n : S \cap 0 .. b = {} \/ \E m : Greatest(m, b)}
<1>1. 0 \in T
  <2>1. 0 .. 0 = {0}
    OBVIOUS
  <2>2. 0 \in S => Greatest(0, 0)
    BY <2>1
  <2>3. 0 \notin S => S \cap 0 .. 0 = {}
    BY <2>1
  <2> HIDE DEF Greatest
  <2> QED BY <2>2, <2>3
<1>2. ASSUME NEW b \in 1 .. n, b - 1 \in T
      PROVE  b \in T
  <2>1. b \in Nat /\ 0 .. b = (0 .. b - 1) \cup {b} /\ \A x \in 0 .. b : x <= b
    OBVIOUS
  <2>2. CASE b \in S
    <3>1. Greatest(b, b)
      BY <2>1, <2>2
    <3> HIDE DEF Greatest
    <3> QED BY <2>1, <3>1
  <2>3. CASE b \notin S
    <3>1. S \cap 0 .. b = S \cap 0 .. b - 1
      BY <2>1, <2>3
    <3>2. \A m : Greatest(m, b - 1) => Greatest(m, b)
      BY <3>1
    <3> HIDE DEF Greatest
    <3> QED BY <1>2, <3>1, <3>2
  <2> QED BY <2>2, <2>3
<1>3. 0 .. n \subseteq T
  <2> HIDE DEF T
  <2> QED BY <1>1, <1>2, Upward
<1>4. PICK m : m \in S /\ \A x \in S : x <= m
  <2>1. n \in T
    <3> HIDE DEF T
    <3> QED BY <1>3
  <2>2. S \cap 0 .. n = S
    OBVIOUS
  <2> QED BY <2>1, <2>2
<1>5. m \in S /\ \A x \in S : m >= x
  <2>1. \A x \in S : x \in Int
    OBVIOUS
  <2> QED BY <1>4, <2>1
<1>6. Max(S) \in S /\ \A x \in S : Max(S) >= x
  BY <1>5 DEF Max
<1> QED BY <1>6

(***************************************************************************)
(* Trees                                                                   *)
(***************************************************************************)

\* What a leaf is.
LEMMA LeafIs ==
    ASSUME NEW k, NEW f, NEW n, n = LeafNode(k, f)
    PROVE  IsLeaf(n) /\ n.keys = {k} /\ n.file = f
BY DEF LeafNode, IsLeaf

\* What a merged node is.
LEMMA MergeIs ==
    ASSUME NEW l, NEW r, NEW n, n = Merge(l, r)
    PROVE  ~IsLeaf(n) /\ n.left = l /\ n.right = r /\ n.keys = l.keys \cup r.keys
BY DEF Merge, IsLeaf

\* The children of two sets of nodes together.
LEMMA ChildrenOfUnion ==
    ASSUME NEW A, NEW B
    PROVE  Children(A \cup B) = Children(A) \cup Children(B)
BY DEF Children

\* The children of one node.
LEMMA ChildrenOfOne ==
    ASSUME NEW n
    PROVE  Children({n}) = IF IsLeaf(n) THEN {} ELSE {n.left, n.right}
BY DEF Children

\* Nothing has no children.
LEMMA ChildrenOfNone == Children({}) = {}
BY DEF Children

\* There is nothing under a leaf.
LEMMA UnderLeaf ==
    ASSUME NEW n, IsLeaf(n)
    PROVE  \A d \in 1 .. MaxDepth : Under(n)[d] = {}
<1> DEFINE u == Under(n)
           T == {d \in 0 .. MaxDepth : d > 0 => u[d] = {}}
<1>1. u[0] = {n} /\ \A d \in 1 .. MaxDepth : u[d] = Children(u[d - 1])
  BY UnderEq
<1> HIDE DEF u
<1>2. 0 \in T
  BY DepthIsNat
<1>3. ASSUME NEW d \in 1 .. MaxDepth, d - 1 \in T
      PROVE  d \in T
  <2>1. u[d] = Children(u[d - 1])
    BY <1>1
  <2>2. CASE d = 1
    <3>1. u[d - 1] = {n}
      BY <1>1, <2>2
    <3>2. Children({n}) = {}
      BY ChildrenOfOne
    <3>3. u[d] = {}
      BY <2>1, <3>1, <3>2
    <3> QED BY <3>3, DepthIsNat
  <2>3. CASE d # 1
    <3>1. u[d - 1] = {}
      BY <1>3, <2>3, DepthIsNat
    <3>2. u[d] = {}
      BY <2>1, <3>1, ChildrenOfNone
    <3> QED BY <3>2, DepthIsNat
  <2> QED BY <2>2, <2>3
<1>4. 0 .. MaxDepth \subseteq T
  <2> HIDE DEF T
  <2> QED BY <1>2, <1>3, DepthIsNat, Upward
<1> QED BY <1>4, DepthIsNat DEF u

\* Under a merged node there is what is under its two sides.
LEMMA UnderMerge ==
    ASSUME NEW l, NEW r, NEW n, n = Merge(l, r)
    PROVE  \A d \in 1 .. MaxDepth : Under(n)[d] = Under(l)[d - 1] \cup Under(r)[d - 1]
<1> DEFINE u == Under(n)
           v == Under(l)
           w == Under(r)
           T == {d \in 0 .. MaxDepth : d > 0 => u[d] = v[d - 1] \cup w[d - 1]}
<1>1. /\ u[0] = {n} /\ \A d \in 1 .. MaxDepth : u[d] = Children(u[d - 1])
      /\ v[0] = {l} /\ \A d \in 1 .. MaxDepth : v[d] = Children(v[d - 1])
      /\ w[0] = {r} /\ \A d \in 1 .. MaxDepth : w[d] = Children(w[d - 1])
  BY UnderEq
<1> HIDE DEF u, v, w
<1>2. 0 \in T
  BY DepthIsNat
<1>3. ASSUME NEW d \in 1 .. MaxDepth, d - 1 \in T
      PROVE  d \in T
  <2>1. u[d] = Children(u[d - 1])
    BY <1>1
  <2>2. CASE d = 1
    <3>1. u[d - 1] = {n} /\ v[d - 1] = {l} /\ w[d - 1] = {r}
      BY <1>1, <2>2
    <3>2. Children({n}) = {l, r}
      <4>1. ~IsLeaf(n) /\ n.left = l /\ n.right = r
        BY MergeIs
      <4> QED BY <4>1, ChildrenOfOne
    <3>3. u[d] = {l, r}
      BY <2>1, <3>1, <3>2, Zenon
    <3>4. u[d] = v[d - 1] \cup w[d - 1]
      BY <3>1, <3>3
    <3> QED BY <3>4, DepthIsNat
  <2>3. CASE d # 1
    <3>1. d - 1 \in 1 .. MaxDepth
      BY <2>3, DepthIsNat
    <3>2. u[d - 1] = v[d - 1 - 1] \cup w[d - 1 - 1]
      BY <1>3, <2>3, DepthIsNat
    <3>3. v[d - 1] = Children(v[d - 1 - 1]) /\ w[d - 1] = Children(w[d - 1 - 1])
      BY <1>1, <3>1
    <3>4. u[d] = v[d - 1] \cup w[d - 1]
      BY <2>1, <3>2, <3>3, ChildrenOfUnion
    <3> QED BY <3>4, DepthIsNat
  <2> QED BY <2>2, <2>3
<1>4. 0 .. MaxDepth \subseteq T
  <2> HIDE DEF T
  <2> QED BY <1>2, <1>3, DepthIsNat, Upward
<1> QED BY <1>4, DepthIsNat DEF u, v, w

\* A node of no more height than h.
Low(n, h) == \A d \in 0 .. MaxDepth : d > h => Under(n)[d] = {}

\* A leaf is all there is below it.
LEMMA BelowLeaf ==
    ASSUME NEW n, IsLeaf(n)
    PROVE  Below(n) = {n} /\ Low(n, 0)
<1> DEFINE u == Under(n)
<1>1. u[0] = {n} /\ \A d \in 1 .. MaxDepth : u[d] = {}
  BY UnderEq, UnderLeaf
<1> HIDE DEF u
<1>2. Below(n) = UNION {u[d] : d \in 0 .. MaxDepth}
  BY DEF Below, u
<1>3. 0 .. MaxDepth = {0} \cup 1 .. MaxDepth
  BY DepthIsNat
<1>4. UNION {u[d] : d \in 0 .. MaxDepth} = {n}
  BY <1>1, <1>3
<1>5. Low(n, 0)
  BY <1>1, <1>3, DepthIsNat DEF Low, u
<1> QED BY <1>2, <1>4, <1>5

\* Below a merged node are the node and what is below its two sides.
LEMMA BelowMerge ==
    ASSUME NEW l, NEW r, NEW n, n = Merge(l, r), NEW h \in Nat, h < MaxDepth,
           Low(l, h), Low(r, h)
    PROVE  Below(n) = {n} \cup Below(l) \cup Below(r) /\ Low(n, h + 1)
<1> DEFINE u == Under(n)
           v == Under(l)
           w == Under(r)
           M == MaxDepth
<1>1. M \in Nat
  BY DepthIsNat
<1>2. u[0] = {n} /\ \A d \in 1 .. M : u[d] = v[d - 1] \cup w[d - 1]
  BY UnderEq, UnderMerge
<1>3. \A d \in 0 .. M : d > h => v[d] = {} /\ w[d] = {}
  BY DEF Low
<1>4. /\ Below(n) = UNION {u[d] : d \in 0 .. M}
      /\ Below(l) = UNION {v[d] : d \in 0 .. M}
      /\ Below(r) = UNION {w[d] : d \in 0 .. M}
  BY DEF Below
<1>5. h < M
  OBVIOUS
<1>6. Low(n, h + 1)
  <2>1. ASSUME NEW d \in 0 .. M, d > h + 1
        PROVE  u[d] = {}
    <3> HIDE DEF u, v, w, M
    <3>1. d \in 1 .. M /\ d - 1 \in 0 .. M /\ d - 1 > h
      BY <1>1, <2>1
    <3>2. v[d - 1] = {} /\ w[d - 1] = {}
      BY <1>3, <3>1
    <3> QED BY <1>2, <3>1, <3>2
  <2> QED BY <2>1 DEF Low
<1> HIDE DEF u, v, w, M
<1>7. Below(n) \subseteq {n} \cup Below(l) \cup Below(r)
  <2> SUFFICES ASSUME NEW d \in 0 .. M, NEW x \in u[d]
               PROVE  x \in {n} \cup Below(l) \cup Below(r)
    BY <1>4
  <2>1. CASE d = 0
    BY <1>2, <2>1
  <2>2. CASE d # 0
    <3>1. d \in 1 .. M /\ d - 1 \in 0 .. M
      BY <1>1, <2>2
    <3> QED BY <1>2, <1>4, <3>1
  <2> QED BY <2>1, <2>2
<1>8. Below(l) \cup Below(r) \subseteq Below(n)
  <2> SUFFICES ASSUME NEW d \in 0 .. M, NEW x \in v[d] \cup w[d]
               PROVE  x \in Below(n)
    BY <1>4
  <2>1. ~(d > h)
    BY <1>3
  <2>2. d + 1 \in 1 .. M /\ (d + 1) - 1 = d /\ d + 1 \in 0 .. M
    BY <1>1, <1>5, <2>1
  <2>3. x \in u[d + 1]
    BY <1>2, <2>2
  <2> QED BY <1>4, <2>2, <2>3
<1>9. n \in Below(n)
  <2>1. 0 \in 0 .. M
    BY <1>1
  <2> QED BY <1>2, <1>4, <2>1
<1> QED BY <1>6, <1>7, <1>8, <1>9

LeavesOf(n) == {m \in Below(n) : IsLeaf(m)}

\* A leaf has a keyword and a file; any other node is the merge of two nodes
\* without a common keyword.
Regular(n) ==
    IF IsLeaf(n) THEN \E k \in Keys, f \in Files : n = LeafNode(k, f)
    ELSE n = Merge(n.left, n.right) /\ n.left.keys \cap n.right.keys = {}

\* From an entry for n, at a depth that leaves room for what is below n, the
\* worklist gets to every leaf with the keyword.
Searched(n, h) ==
    \A r, k, store, path : \A d \in 0 .. MaxDepth :
        /\ d + h <= MaxDepth /\ Below(n) \subseteq store
        /\ [node |-> n, path |-> path] \in VisitedAt(r, k, store)[d]
        => \A m \in LeavesOf(n) :
               k \in m.keys => \E p : [node |-> m, path |-> p] \in Visited(r, k, store)

\* The trees that are built.
Grown(n, h) ==
    /\ Low(n, h)
    /\ \A m \in Below(n) : Regular(m)
    /\ n.keys = UNION {m.keys : m \in LeavesOf(n)}
    /\ Searched(n, h)

\* A leaf is a tree that is built.
LEMMA GrownLeaf ==
    ASSUME NEW k \in Keys, NEW f \in Files, NEW n, n = LeafNode(k, f)
    PROVE  Grown(n, 0) /\ LeavesOf(n) = {n}
<1>1. IsLeaf(n) /\ n.keys = {k}
  BY LeafIs
<1>2. Below(n) = {n} /\ Low(n, 0)
  BY <1>1, BelowLeaf
<1>3. LeavesOf(n) = {n}
  BY <1>1, <1>2 DEF LeavesOf
<1>4. Regular(n)
  BY <1>1 DEF Regular
<1>5. n.keys = UNION {m.keys : m \in LeavesOf(n)}
  BY <1>3
<1>6. Searched(n, 0)
  <2> SUFFICES ASSUME NEW r, NEW kk, NEW store, NEW path, NEW d \in 0 .. MaxDepth,
                      [node |-> n, path |-> path] \in VisitedAt(r, kk, store)[d],
                      NEW m \in LeavesOf(n)
               PROVE  \E p : [node |-> m, path |-> p] \in Visited(r, kk, store)
    BY Zenon DEF Searched
  <2>1. m = n
    BY <1>3
  <2>2. [node |-> n, path |-> path] \in Visited(r, kk, store)
    BY DEF Visited
  <2> QED BY <2>1, <2>2
<1> QED BY <1>2, <1>3, <1>4, <1>5, <1>6 DEF Grown

\* A tree of a height fits a greater height.
LEMMA LowMore ==
    ASSUME NEW n, NEW h \in Nat, Low(n, h)
    PROVE  Low(n, h + 1)
BY DepthIsNat DEF Low

\* A tree of a height is one of a greater height too.
LEMMA GrownMore ==
    ASSUME NEW n, NEW h \in Nat, Grown(n, h)
    PROVE  Grown(n, h + 1)
<1>1. Low(n, h + 1)
  BY LowMore DEF Grown
<1>2. Searched(n, h + 1)
  <2> SUFFICES ASSUME NEW r, NEW k, NEW store, NEW path, NEW d \in 0 .. MaxDepth,
                      d + (h + 1) <= MaxDepth, Below(n) \subseteq store,
                      [node |-> n, path |-> path] \in VisitedAt(r, k, store)[d]
               PROVE  \A m \in LeavesOf(n) :
                        k \in m.keys => \E p : [node |-> m, path |-> p] \in Visited(r, k, store)
    BY Zenon DEF Searched
  <2>1. d + h <= MaxDepth
    BY DepthIsNat
  <2>2. Searched(n, h)
    BY DEF Grown
  <2> QED BY <2>1, <2>2, Zenon DEF Searched
<1> QED BY <1>1, <1>2 DEF Grown

\* A side of a merge is searched when the merge is.
LEMMA SearchedSide ==
    ASSUME NEW h \in Nat, NEW side, Searched(side, h),
           side.keys = UNION {m.keys : m \in LeavesOf(side)},
           NEW r, NEW k, NEW store, NEW d \in 0 .. MaxDepth, d + (h + 1) <= MaxDepth,
           Below(side) \subseteq store, side \in Below(side),
           NEW p, [node |-> side, path |-> p] \in Lowered(VisitedAt(r, k, store)[d], store),
           NEW m \in LeavesOf(side), k \in m.keys
    PROVE  \E q : [node |-> m, path |-> q] \in Visited(r, k, store)
<1>1. d + 1 \in 1 .. MaxDepth /\ (d + 1) - 1 = d /\ (d + 1) + h <= MaxDepth
  BY DepthIsNat
<1>2. k \in side.keys /\ side \in store
  OBVIOUS
<1> DEFINE e == [node |-> side, path |-> p]
<1>3. e.node = side
  OBVIOUS
<1>4. e \in WithKey(Lowered(VisitedAt(r, k, store)[d], store), k, store)
  <2> HIDE DEF e
  <2>1. e \in Lowered(VisitedAt(r, k, store)[d], store)
    BY Zenon DEF e
  <2> QED BY <1>2, <1>3, <2>1 DEF WithKey
<1>5. VisitedAt(r, k, store)[d + 1] = WithKey(Lowered(VisitedAt(r, k, store)[d], store), k, store)
  <2> DEFINE v == VisitedAt(r, k, store)
             c == d + 1
  <2>1. \A i \in 1 .. MaxDepth : v[i] = WithKey(Lowered(v[i - 1], store), k, store)
    BY VisitedEq DEF Searches
  <2>2. c \in 1 .. MaxDepth /\ c - 1 = d
    BY <1>1
  <2> HIDE DEF v, c
  <2>3. v[c] = WithKey(Lowered(v[d], store), k, store)
    BY <2>1, <2>2
  <2> QED BY <2>3 DEF v, c
<1>6. e \in VisitedAt(r, k, store)[d + 1]
  BY <1>4, <1>5, Zenon
<1>7. d + 1 \in 0 .. MaxDepth
  BY <1>1
<1> QED BY <1>1, <1>6, <1>7, Zenon DEF Searched

\* Two trees without a common keyword merge to a tree.
LEMMA GrownMerge ==
    ASSUME NEW l, NEW r, NEW n, n = Merge(l, r), NEW h \in Nat, h < MaxDepth,
           Grown(l, h), Grown(r, h), l.keys \cap r.keys = {}
    PROVE  Grown(n, h + 1) /\ LeavesOf(n) = LeavesOf(l) \cup LeavesOf(r)
<1>1. ~IsLeaf(n) /\ n.left = l /\ n.right = r /\ n.keys = l.keys \cup r.keys
  BY MergeIs
<1>2. Below(n) = {n} \cup Below(l) \cup Below(r) /\ Low(n, h + 1)
  BY BelowMerge DEF Grown
<1>3. LeavesOf(n) = LeavesOf(l) \cup LeavesOf(r)
  BY <1>1, <1>2 DEF LeavesOf
<1>4. \A m \in Below(n) : Regular(m)
  <2>1. Regular(n)
    BY <1>1 DEF Regular
  <2> QED BY <1>2, <2>1 DEF Grown
<1>5. n.keys = UNION {m.keys : m \in LeavesOf(n)}
  BY <1>1, <1>3 DEF Grown
<1>6. l \in Below(l) /\ r \in Below(r)
  <2>1. 0 \in 0 .. MaxDepth /\ Under(l)[0] = {l} /\ Under(r)[0] = {r}
    BY DepthIsNat, UnderEq
  <2> QED BY <2>1 DEF Below
<1>7. Searched(n, h + 1)
  <2> SUFFICES ASSUME NEW t, NEW k, NEW store, NEW path, NEW d \in 0 .. MaxDepth,
                      d + (h + 1) <= MaxDepth, Below(n) \subseteq store,
                      [node |-> n, path |-> path] \in VisitedAt(t, k, store)[d],
                      NEW m \in LeavesOf(n), k \in m.keys
               PROVE  \E p : [node |-> m, path |-> p] \in Visited(t, k, store)
    BY Zenon DEF Searched
  <2>1. Below(l) \subseteq store /\ Below(r) \subseteq store /\ l \in store /\ r \in store
    BY <1>2, <1>6
  <2> DEFINE e == [node |-> n, path |-> path]
             el == [node |-> n.left, path |-> Beside(n, FALSE) \o path]
             er == [node |-> n.right, path |-> Beside(n, TRUE) \o path]
             E == VisitedAt(t, k, store)[d]
  <2>2. e.node = n /\ e.path = path
    OBVIOUS
  <2>3. Lower(e, store) = {el, er}
    <3> HIDE DEF e
    <3> QED BY <1>1, <2>1, <2>2 DEF Lower
  <2>4. el \in Lowered(E, store) /\ er \in Lowered(E, store)
    <3>1. e \in {v \in E : ~IsLeaf(v.node)}
      BY <1>1, <2>2
    <3> HIDE DEF e, el, er, E
    <3> QED BY <2>3, <3>1 DEF Lowered
  <2>5. CASE m \in LeavesOf(l)
    <3>1. el = [node |-> l, path |-> Beside(n, FALSE) \o path]
      BY <1>1
    <3> QED BY <1>6, <2>1, <2>4, <2>5, <3>1, SearchedSide DEF Grown
  <2>6. CASE m \in LeavesOf(r)
    <3>1. er = [node |-> r, path |-> Beside(n, TRUE) \o path]
      BY <1>1
    <3> QED BY <1>6, <2>1, <2>4, <2>6, <3>1, SearchedSide DEF Grown
  <2> QED BY <1>3, <2>5, <2>6
<1> QED BY <1>2, <1>3, <1>4, <1>5, <1>7 DEF Grown

\* Level h over n leaves, which are the set S.
IsLevel(level, h, n, S) ==
    /\ Len(level) \in Nat \ {0} /\ DOMAIN level = 1 .. Len(level)
    /\ Len(level) <= n - h \/ Len(level) = 1
    /\ \A i \in 1 .. Len(level) : Grown(level[i], h)
    /\ \A i, j \in 1 .. Len(level) : i # j => level[i].keys \cap level[j].keys = {}
    /\ UNION {LeavesOf(level[i]) : i \in 1 .. Len(level)} = S

\* What a level of build_lane_tree has of the level below.
LEMMA PairedIs ==
    ASSUME NEW level, Len(level) \in Nat \ {0}, NEW next, next = Paired(level)
    PROVE  /\ Len(next) \in Nat \ {0} /\ DOMAIN next = 1 .. Len(next)
           /\ Len(next) < Len(level) \/ Len(next) = 1
           /\ \A i \in 1 .. Len(next) :
                 \/ /\ 2 * i <= Len(level)
                    /\ next[i] = Merge(level[2 * i - 1], level[2 * i])
                 \/ 2 * i - 1 = Len(level) /\ next[i] = level[2 * i - 1]
           /\ \A j \in 1 .. Len(level) :
                 \E i \in 1 .. Len(next) : j \in {2 * i - 1, 2 * i}
<1> DEFINE n == Len(level)
           m == (n + 1) \div 2
           S == {next[i] : i \in 1 .. m}
<1>1. m \in Nat \ {0} /\ 2 * m \in n .. n + 1
  <2>1. n \in Nat /\ n >= 1
    OBVIOUS
  <2> HIDE DEF n
  <2>2. m \in Nat /\ (n = 2 * m - 1 \/ n = 2 * m)
    BY <2>1
  <2> HIDE DEF m
  <2> QED BY <2>1, <2>2
<1>2. /\ DOMAIN next = 1 .. m
      /\ \A i \in 1 .. m : next[i] = IF 2 * i <= n THEN Merge(level[2 * i - 1], level[2 * i])
                                     ELSE level[2 * i - 1]
  <2>1. next = [i \in 1 .. m |-> IF 2 * i <= n THEN Merge(level[2 * i - 1], level[2 * i])
                                 ELSE level[2 * i - 1]]
    BY Zenon DEF Paired
  <2> HIDE DEF m, n
  <2> QED BY <2>1
<1>3. next \in [1 .. m -> S]
  <2>1. next = [i \in 1 .. m |-> next[i]]
    <3>1. next = [i \in 1 .. m |-> IF 2 * i <= n THEN Merge(level[2 * i - 1], level[2 * i])
                                   ELSE level[2 * i - 1]]
      BY Zenon DEF Paired
    <3> HIDE DEF m, n
    <3> QED BY <3>1
  <2> HIDE DEF m
  <2> QED BY <2>1
<1>4. Len(next) = m
  <2> HIDE DEF S, m
  <2> QED BY <1>1, <1>3, FunctionIsSeq
<1> HIDE DEF m, n
<1>5. n \in Nat \ {0}
  BY DEF n
<1>6. m < n \/ m = 1
  BY <1>1, <1>5
<1>7. \A i \in 1 .. m : 2 * i <= n \/ 2 * i - 1 = n
  BY <1>1, <1>5
<1>8. ASSUME NEW j \in 1 .. n
      PROVE  \E i \in 1 .. m : j \in {2 * i - 1, 2 * i}
  <2> DEFINE i == (j + 1) \div 2
  <2>1. j \in Nat \ {0} /\ j <= n /\ m \in Nat /\ 2 * m >= n
    BY <1>1, <1>5
  <2>2. i \in Nat /\ (j = 2 * i - 1 \/ j = 2 * i)
    BY <2>1
  <2> HIDE DEF i
  <2>3. i >= 1 /\ 2 * i <= 2 * m + 1
    BY <1>5, <2>1, <2>2
  <2>4. i \in 1 .. m
    BY <2>1, <2>2, <2>3
  <2> QED BY <2>2, <2>4
<1>9. \A i \in 1 .. m :
         \/ /\ 2 * i <= n
            /\ next[i] = Merge(level[2 * i - 1], level[2 * i])
         \/ 2 * i - 1 = n /\ next[i] = level[2 * i - 1]
  BY <1>1, <1>2, <1>5, <1>7
<1> QED BY <1>1, <1>2, <1>4, <1>6, <1>8, <1>9 DEF n

\* The node of a pair.
PairOf(level, i, node) ==
    \/ 2 * i <= Len(level) /\ node = Merge(level[2 * i - 1], level[2 * i])
    \/ 2 * i - 1 = Len(level) /\ node = level[2 * i - 1]

\* A node of the next level is a tree over its one or two nodes below.
LEMMA PairIs ==
    ASSUME NEW level, NEW h \in Nat, NEW n \in Nat, NEW S, IsLevel(level, h, n, S),
           h < MaxDepth, NEW i \in Nat \ {0}, NEW node, PairOf(level, i, node)
    PROVE  /\ Grown(node, h + 1)
           /\ node.keys = UNION {level[j].keys : j \in {2 * i - 1, 2 * i} \cap 1 .. Len(level)}
           /\ LeavesOf(node) =
                UNION {LeavesOf(level[j]) : j \in {2 * i - 1, 2 * i} \cap 1 .. Len(level)}
<1> DEFINE a == 2 * i - 1
           b == 2 * i
<1>1. a \in Nat \ {0} /\ b \in Nat \ {0} /\ a # b /\ a < b /\ b = a + 1 /\ Len(level) \in Nat
  BY DEF IsLevel
<1> HIDE DEF a, b
<1>2. CASE b <= Len(level) /\ node = Merge(level[a], level[b])
  <2>1. a \in 1 .. Len(level) /\ b \in 1 .. Len(level)
    BY <1>1, <1>2
  <2>2. {a, b} \cap 1 .. Len(level) = {a, b}
    BY <2>1
  <2> DEFINE l == level[a]
             r == level[b]
  <2>3. Grown(l, h) /\ Grown(r, h) /\ l.keys \cap r.keys = {}
    BY <1>1, <2>1 DEF IsLevel
  <2>4. node = Merge(l, r)
    BY <1>2
  <2> HIDE DEF l, r
  <2>5. Grown(node, h + 1) /\ LeavesOf(node) = LeavesOf(l) \cup LeavesOf(r)
    BY <2>3, <2>4, GrownMerge
  <2>6. node.keys = l.keys \cup r.keys
    BY <2>4, MergeIs
  <2>7. /\ UNION {level[j].keys : j \in {a, b}} = l.keys \cup r.keys
        /\ UNION {LeavesOf(level[j]) : j \in {a, b}} = LeavesOf(l) \cup LeavesOf(r)
    BY DEF l, r
  <2> QED BY <2>2, <2>5, <2>6, <2>7 DEF a, b
<1>3. CASE a = Len(level) /\ node = level[a]
  <2>1. {a, b} \cap 1 .. Len(level) = {a} /\ a \in 1 .. Len(level)
    BY <1>1, <1>3
  <2>2. Grown(node, h)
    BY <1>3, <2>1 DEF IsLevel
  <2>3. Grown(node, h + 1)
    BY <2>2, GrownMore
  <2>4. /\ UNION {level[j].keys : j \in {a}} = node.keys
        /\ UNION {LeavesOf(level[j]) : j \in {a}} = LeavesOf(node)
    BY <1>3
  <2> QED BY <2>1, <2>3, <2>4 DEF a, b
<1> QED BY <1>2, <1>3 DEF PairOf, a, b

\* One round of build_lane_tree keeps the leaves and halves the nodes.
LEMMA PairedLevel ==
    ASSUME NEW level, NEW h \in Nat, NEW n \in Nat, NEW S, IsLevel(level, h, n, S), h < MaxDepth
    PROVE  IsLevel(Paired(level), h + 1, n, S)
<1> DEFINE next == Paired(level)
<1>1. Len(level) \in Nat \ {0}
  BY DEF IsLevel
<1>2. /\ Len(next) \in Nat \ {0} /\ DOMAIN next = 1 .. Len(next)
      /\ Len(next) < Len(level) \/ Len(next) = 1
      /\ \A i \in 1 .. Len(next) : PairOf(level, i, next[i])
      /\ \A j \in 1 .. Len(level) : \E i \in 1 .. Len(next) : j \in {2 * i - 1, 2 * i}
  BY <1>1, PairedIs DEF PairOf
<1> HIDE DEF next
<1> DEFINE Places(i) == {2 * i - 1, 2 * i} \cap 1 .. Len(level)
<1>3. \A i \in 1 .. Len(next) :
         /\ Grown(next[i], h + 1)
         /\ next[i].keys = UNION {level[j].keys : j \in Places(i)}
         /\ LeavesOf(next[i]) = UNION {LeavesOf(level[j]) : j \in Places(i)}
  <2> SUFFICES ASSUME NEW i \in 1 .. Len(next)
               PROVE  /\ Grown(next[i], h + 1)
                      /\ next[i].keys = UNION {level[j].keys : j \in Places(i)}
                      /\ LeavesOf(next[i]) = UNION {LeavesOf(level[j]) : j \in Places(i)}
    OBVIOUS
  <2>1. i \in Nat \ {0} /\ PairOf(level, i, next[i])
    BY <1>2
  <2> QED BY <2>1, PairIs
<1>4. \A i, j \in 1 .. Len(next) : i # j => Places(i) \cap Places(j) = {}
  BY <1>2
<1>5. UNION {Places(i) : i \in 1 .. Len(next)} = 1 .. Len(level)
  <2>1. \A j \in 1 .. Len(level) : \E i \in 1 .. Len(next) : j \in Places(i)
    BY <1>2
  <2>2. \A i : Places(i) \subseteq 1 .. Len(level)
    OBVIOUS
  <2> HIDE DEF Places
  <2> QED BY <2>1, <2>2
<1> HIDE DEF Places
<1>6. \A i, j \in 1 .. Len(next) : i # j => next[i].keys \cap next[j].keys = {}
  <2> SUFFICES ASSUME NEW i \in 1 .. Len(next), NEW j \in 1 .. Len(next), i # j,
                      NEW k \in next[i].keys, k \in next[j].keys
               PROVE  FALSE
    OBVIOUS
  <2>1. PICK a \in Places(i) : k \in level[a].keys
    BY <1>3
  <2>2. PICK b \in Places(j) : k \in level[b].keys
    BY <1>3
  <2>3. a # b
    BY <1>4, <2>1, <2>2
  <2>4. a \in 1 .. Len(level) /\ b \in 1 .. Len(level)
    BY <2>1, <2>2 DEF Places
  <2> QED BY <2>1, <2>2, <2>3, <2>4 DEF IsLevel
<1>7. UNION {LeavesOf(next[i]) : i \in 1 .. Len(next)} = S
  <2>1. UNION {LeavesOf(level[j]) : j \in 1 .. Len(level)} = S
    BY DEF IsLevel
  <2> DEFINE L(j) == LeavesOf(level[j])
  <2>2. \A i \in 1 .. Len(next) : LeavesOf(next[i]) = UNION {L(j) : j \in Places(i)}
    BY <1>3
  <2>3. UNION {L(j) : j \in 1 .. Len(level)} = S
    BY <2>1
  <2> HIDE DEF L
  <2> QED BY <1>5, <2>2, <2>3
<1>8. Len(next) <= n - (h + 1) \/ Len(next) = 1
  <2>1. Len(level) <= n - h \/ Len(level) = 1
    BY DEF IsLevel
  <2> DEFINE a == Len(level)
             b == Len(next)
  <2>2. a \in Nat \ {0} /\ b \in Nat \ {0} /\ (b < a \/ b = 1) /\ (a <= n - h \/ a = 1)
    BY <1>1, <1>2, <2>1
  <2> HIDE DEF a, b
  <2>3. b <= n - (h + 1) \/ b = 1
    BY <2>2
  <2> QED BY <2>3 DEF b
<1>9. \A i \in 1 .. Len(next) : Grown(next[i], h + 1)
  BY <1>3
<1> QED BY <1>2, <1>6, <1>7, <1>8, <1>9 DEF IsLevel, next

\* What build_lane_tree makes of leaves with different keywords.
LEMMA LaneTreeIs ==
    ASSUME NEW S, NEW leaves \in Seq(S), Len(leaves) # 0, Len(leaves) <= MaxDepth,
           \A i \in 1 .. Len(leaves) : \E k \in Keys, f \in Files : leaves[i] = LeafNode(k, f),
           \A i, j \in 1 .. Len(leaves) : i # j => leaves[i].keys \cap leaves[j].keys = {}
    PROVE  Grown(LaneTree(leaves), Len(leaves)) /\ LeavesOf(LaneTree(leaves)) = ToSet(leaves)
<1> DEFINE n == Len(leaves)
           up == Levels(leaves)
           A == ToSet(leaves)
           T == {h \in 0 .. n : IsLevel(up[h], h, n, A)}
<1>1. n \in Nat \ {0} /\ DOMAIN leaves = 1 .. n /\ n <= MaxDepth
  BY LenProperties
<1>2. up[0] = leaves /\ \A h \in 1 .. n : up[h] = Paired(up[h - 1])
  BY <1>1, LevelsEq
<1> HIDE DEF up
<1>3. 0 \in T
  <2>1. \A i \in 1 .. n : Grown(leaves[i], 0) /\ LeavesOf(leaves[i]) = {leaves[i]}
    <3> SUFFICES ASSUME NEW i \in 1 .. n
                 PROVE  Grown(leaves[i], 0) /\ LeavesOf(leaves[i]) = {leaves[i]}
      OBVIOUS
    <3>1. PICK k \in Keys, f \in Files : leaves[i] = LeafNode(k, f)
      OBVIOUS
    <3> QED BY <3>1, GrownLeaf
  <2>2. UNION {LeavesOf(leaves[i]) : i \in 1 .. n} = A
    <3> HIDE DEF n
    <3> QED BY <1>1, <2>1 DEF ToSet
  <2>3. n <= n - 0 /\ 0 \in 0 .. n
    <3> HIDE DEF n
    <3> QED BY <1>1
  <2>4. IsLevel(leaves, 0, n, A)
    BY <1>1, <2>1, <2>2, <2>3 DEF IsLevel
  <2> QED BY <1>2, <2>3, <2>4
<1>4. ASSUME NEW h \in 1 .. n, h - 1 \in T
      PROVE  h \in T
  <2> DEFINE g == h - 1
  <2>1. g \in Nat /\ g + 1 = h /\ g < MaxDepth /\ h \in 0 .. n
    BY <1>1, DepthIsNat
  <2>2. IsLevel(up[g], g, n, A) /\ up[h] = Paired(up[g])
    BY <1>2, <1>4
  <2> HIDE DEF g
  <2>3. IsLevel(up[h], g + 1, n, A)
    BY <1>1, <2>1, <2>2, PairedLevel
  <2> QED BY <2>1, <2>3
<1>5. n \in T
  <2>1. 0 .. n \subseteq T
    <3> HIDE DEF T, n
    <3> QED BY <1>1, <1>3, <1>4, Upward
  <2> HIDE DEF T
  <2> QED BY <1>1, <2>1
<1> DEFINE top == up[n]
<1>6. IsLevel(top, n, n, A)
  BY <1>5
<1> HIDE DEF top
<1>7. Len(top) = 1
  <2>1. Len(top) \in Nat \ {0} /\ (Len(top) <= n - n \/ Len(top) = 1)
    BY <1>6, Zenon DEF IsLevel
  <2> HIDE DEF n
  <2> QED BY <1>1, <2>1
<1>8. Grown(top[1], n) /\ LeavesOf(top[1]) = A
  <2>1. 1 .. Len(top) = {1}
    BY <1>7
  <2>2. UNION {LeavesOf(top[i]) : i \in {1}} = LeavesOf(top[1])
    OBVIOUS
  <2> QED BY <1>6, <2>1, <2>2 DEF IsLevel
<1>9. LaneTree(leaves) = top[1]
  BY DEF LaneTree, top, up
<1> QED BY <1>8, <1>9

(***************************************************************************)
(* Records and lanes                                                       *)
(***************************************************************************)

GoodRecords(recs) ==
    /\ recs \in [Keys -> Seq(Files)]
    /\ \A k \in Keys : recs[k] = Sorted(ToSet(recs[k]))

\* A sequence of files has a set of files.
LEMMA FilesOf ==
    ASSUME NEW s \in Seq(Files)
    PROVE  ToSet(s) \in SUBSET Files /\ Len(s) \in Nat /\ DOMAIN s = 1 .. Len(s)
BY LenProperties DEF ToSet

\* What a sorted index has for a keyword.
LEMMA GoodIs ==
    ASSUME NEW recs, GoodRecords(recs), NEW k \in Keys
    PROVE  /\ recs[k] \in Seq(Files) /\ Len(recs[k]) \in Nat
           /\ DOMAIN recs[k] = 1 .. Len(recs[k])
           /\ Len(recs[k]) <= Len(FileOrder) /\ ToSet(recs[k]) \in SUBSET Files
           /\ recs[k] = Sorted(ToSet(recs[k]))
           /\ \A i \in 1 .. Len(recs[k]) : recs[k][i] \in Files
<1>1. recs[k] \in Seq(Files) /\ recs[k] = Sorted(ToSet(recs[k]))
  BY DEF GoodRecords
<1> DEFINE s == recs[k]
<1> HIDE DEF s
<1>2. s \in Seq(Files) /\ s = Sorted(ToSet(s))
  BY <1>1 DEF s
<1>3. ToSet(s) \in SUBSET Files /\ Len(s) \in Nat /\ DOMAIN s = 1 .. Len(s)
  BY <1>2, FilesOf
<1>4. Len(s) <= Len(FileOrder)
  BY <1>2, <1>3, SortedIs
<1>5. \A i \in 1 .. Len(s) : s[i] \in Files
  BY <1>2
<1> QED BY <1>2, <1>3, <1>4, <1>5 DEF s

\* To sort what is sorted changes nothing.
LEMMA SortedGood ==
    ASSUME NEW S \in SUBSET Files
    PROVE  Sorted(S) \in Seq(Files) /\ ToSet(Sorted(S)) = S /\ Sorted(S) = Sorted(ToSet(Sorted(S)))
<1> DEFINE s == Sorted(S)
<1>1. s \in Seq(Files) /\ ToSet(s) = S
  BY SortedIs
<1> QED BY <1>1

\* There are as many lanes as the keyword with most files has files.
LEMMA LaneCountIs ==
    ASSUME NEW recs, GoodRecords(recs)
    PROVE  /\ LaneCount(recs) \in Nat
           /\ \A k \in Keys : Len(recs[k]) <= LaneCount(recs)
           /\ LaneCount(recs) # 0 => \E k \in Keys : Len(recs[k]) = LaneCount(recs)
<1> DEFINE S == {0} \cup {Len(recs[k]) : k \in Keys}
           n == Len(FileOrder)
<1>1. n \in Nat
  BY OrderAssumption, LenProperties
<1>2. S \in SUBSET (0 .. n) /\ S # {}
  <2>1. \A k \in Keys : Len(recs[k]) \in Nat /\ Len(recs[k]) <= n
    BY GoodIs
  <2> HIDE DEF n
  <2> QED BY <1>1, <2>1
<1>3. LaneCount(recs) = Max(S)
  BY DEF LaneCount
<1>4. Max(S) \in S /\ \A x \in S : x <= Max(S)
  <2> HIDE DEF S, n
  <2> QED BY <1>1, <1>2, MaxExists
<1> DEFINE c == Max(S)
<1> HIDE DEF c
<1>5. c \in S /\ \A x \in S : x <= c
  BY <1>4 DEF c
<1>6. c \in Nat /\ (\A k \in Keys : Len(recs[k]) <= c) /\ (c # 0 => \E k \in Keys : Len(recs[k]) = c)
  <2>1. \A x \in S : x \in Nat
    BY <1>1, <1>2
  <2> QED BY <1>5, <2>1
<1> QED BY <1>3, <1>6 DEF c

\* The keywords that have a file in lane i.
Holders(recs, i) == {k \in Keys : Len(recs[k]) >= i}

\* A lane is a tree whose leaves are the files of its number.
LEMMA LaneIs ==
    ASSUME NEW recs, GoodRecords(recs), NEW i \in 1 .. LaneCount(recs)
    PROVE  /\ \E h \in 0 .. MaxDepth : Grown(Lane(recs, i), h)
           /\ LeavesOf(Lane(recs, i)) = {LeafNode(k, recs[k][i]) : k \in Holders(recs, i)}
<1> DEFINE H == Holders(recs, i)
           held == InOrder(KeyOrder, H)
           leaves == [j \in DOMAIN held |-> LeafNode(held[j], recs[held[j]][i])]
           n == Len(held)
<1>1. i \in Nat \ {0} /\ H \in SUBSET Keys /\ H # {}
  <2>1. LaneCount(recs) \in Nat /\ LaneCount(recs) # 0
    BY LaneCountIs
  <2>2. PICK k \in Keys : Len(recs[k]) = LaneCount(recs)
    BY <2>1, LaneCountIs
  <2>3. k \in H
    BY <2>1, <2>2 DEF Holders
  <2> QED BY <2>1, <2>3 DEF Holders
<1>2. \A k \in H : recs[k][i] \in Files
  <2> SUFFICES ASSUME NEW k \in H PROVE recs[k][i] \in Files
    OBVIOUS
  <2>1. k \in Keys /\ Len(recs[k]) >= i
    BY DEF Holders
  <2>2. Len(recs[k]) \in Nat /\ \A j \in 1 .. Len(recs[k]) : recs[k][j] \in Files
    BY <2>1, GoodIs
  <2>3. i \in 1 .. Len(recs[k])
    BY <1>1, <2>1, <2>2
  <2> QED BY <2>2, <2>3
<1>3. /\ held \in Seq(Keys) /\ n <= MaxDepth
      /\ \A a, b \in 1 .. n : held[a] = held[b] => a = b
      /\ ToSet(held) = H
  <2>1. H \in SUBSET ToSet(KeyOrder) /\ ToSet(KeyOrder) = Keys
    BY <1>1, OrderAssumption
  <2> HIDE DEF H
  <2> QED BY <2>1, OrderAssumption, InOrderIs DEF MaxDepth
<1> HIDE DEF H, held
<1>4. n \in Nat /\ DOMAIN held = 1 .. n
  BY <1>3, LenProperties
<1>5. n # 0
  <2>1. H # {} /\ ToSet(held) = H
    BY <1>1, <1>3
  <2>2. CASE n = 0
    <3>1. DOMAIN held = {}
      BY <1>4, <2>2
    <3> QED BY <2>1, <3>1 DEF ToSet
  <2> QED BY <2>2
<1> HIDE DEF n
<1>6. \A j \in 1 .. n : held[j] \in Keys /\ held[j] \in H
  BY <1>3, <1>4 DEF ToSet, n
<1> DEFINE S == {LeafNode(k, recs[k][i]) : k \in H}
<1>7. leaves \in [1 .. n -> S] /\ \A j \in 1 .. n : leaves[j] = LeafNode(held[j], recs[held[j]][i])
  BY <1>4, <1>6
<1> HIDE DEF leaves
<1>8. leaves \in Seq(S) /\ Len(leaves) = n
  <2> HIDE DEF S
  <2> QED BY <1>4, <1>7, FunctionIsSeq
<1>9. \A j \in 1 .. n : \E k \in Keys, f \in Files : leaves[j] = LeafNode(k, f)
  BY <1>2, <1>6, <1>7
<1>10. ASSUME NEW a \in 1 .. n, NEW b \in 1 .. n, a # b
       PROVE  leaves[a].keys \cap leaves[b].keys = {}
  <2>1. leaves[a].keys = {held[a]} /\ leaves[b].keys = {held[b]}
    BY <1>7, LeafIs
  <2>2. held[a] # held[b]
    BY <1>3, <1>10 DEF n
  <2> QED BY <2>1, <2>2
<1>11. ToSet(leaves) = S
  <2>1. DOMAIN leaves = 1 .. n
    BY <1>7
  <2>2. \A k \in H : \E j \in 1 .. n : held[j] = k
    BY <1>3, <1>4 DEF ToSet
  <2>3. S \subseteq ToSet(leaves)
    BY <1>7, <2>1, <2>2 DEF ToSet
  <2>4. ToSet(leaves) \subseteq S
    <3> HIDE DEF S
    <3> QED BY <1>7, <2>1 DEF ToSet
  <2> QED BY <2>3, <2>4
<1>12. Grown(LaneTree(leaves), n) /\ LeavesOf(LaneTree(leaves)) = S
  <2>1. n <= MaxDepth
    BY <1>3 DEF n
  <2>2. Grown(LaneTree(leaves), Len(leaves)) /\ LeavesOf(LaneTree(leaves)) = ToSet(leaves)
    <3> HIDE DEF S
    <3> QED BY <1>5, <1>8, <1>9, <1>10, <2>1, LaneTreeIs
  <2> QED BY <1>8, <1>11, <2>2
<1>13. Lane(recs, i) = LaneTree(leaves)
  BY DEF Lane, leaves, held, H, Holders
<1>14. n \in 0 .. MaxDepth
  BY <1>3, <1>4, DepthIsNat DEF n
<1> HIDE DEF S
<1>15. Grown(Lane(recs, i), n) /\ LeavesOf(Lane(recs, i)) = S
  BY <1>12, <1>13
<1> QED BY <1>14, <1>15 DEF S, H

\* A lane depends on the files of its number only.
LEMMA SameLane ==
    ASSUME NEW a, NEW b, NEW i \in Nat \ {0}, GoodRecords(a), GoodRecords(b),
           \A k \in Keys : Len(a[k]) >= i <=> Len(b[k]) >= i,
           \A k \in Keys : Len(a[k]) >= i => a[k][i] = b[k][i]
    PROVE  Lane(a, i) = Lane(b, i)
<1> DEFINE H == {k \in Keys : Len(a[k]) >= i}
           held == InOrder(KeyOrder, H)
<1>1. {k \in Keys : Len(b[k]) >= i} = H
  OBVIOUS
<1>2. ToSet(held) = H /\ held \in Seq(Keys)
  <2>1. H \in SUBSET ToSet(KeyOrder) /\ ToSet(KeyOrder) = Keys
    BY OrderAssumption
  <2> HIDE DEF H
  <2> QED BY <2>1, OrderAssumption, InOrderIs
<1> HIDE DEF held
<1>3. \A j \in DOMAIN held : a[held[j]][i] = b[held[j]][i]
  BY <1>2 DEF ToSet
<1>4. [j \in DOMAIN held |-> LeafNode(held[j], a[held[j]][i])]
        = [j \in DOMAIN held |-> LeafNode(held[j], b[held[j]][i])]
  BY <1>3
<1>5. /\ Lane(a, i) = LaneTree([j \in DOMAIN held |-> LeafNode(held[j], a[held[j]][i])])
      /\ Lane(b, i) = LaneTree([j \in DOMAIN held |-> LeafNode(held[j], b[held[j]][i])])
  BY <1>1, Zenon DEF Lane, held
<1> QED BY <1>4, <1>5, Zenon

\* The forest has the lanes in order.
LEMMA ForestIs ==
    ASSUME NEW recs, GoodRecords(recs), NEW lanes, lanes = Forest(recs)
    PROVE  /\ DOMAIN lanes = 1 .. LaneCount(recs) /\ LaneCount(recs) \in Nat
           /\ \A i \in 1 .. LaneCount(recs) : lanes[i] = Lane(recs, i)
           /\ ToSet(lanes) = {Lane(recs, i) : i \in 1 .. LaneCount(recs)}
           /\ (lanes = <<>> <=> LaneCount(recs) = 0)
<1> DEFINE n == LaneCount(recs)
           S == {Lane(recs, i) : i \in 1 .. n}
<1>1. n \in Nat
  BY LaneCountIs
<1>2. DOMAIN lanes = 1 .. n /\ \A i \in 1 .. n : lanes[i] = Lane(recs, i)
  BY DEF Forest
<1>3. ToSet(lanes) = S
  <2> HIDE DEF n
  <2> QED BY <1>2 DEF ToSet
<1>4. lanes \in [1 .. n -> S]
  BY DEF Forest
<1>5. lanes \in Seq(S) /\ Len(lanes) = n
  <2> HIDE DEF n, S
  <2> QED BY <1>1, <1>4, FunctionIsSeq
<1>6. lanes = <<>> <=> n = 0
  <2> HIDE DEF n, S
  <2>1. lanes # <<>> => Len(lanes) \in Nat \ {0}
    BY <1>5, EmptySeq
  <2>2. Len(<<>>) = 0
    BY EmptySeq
  <2> QED BY <1>1, <1>5, <2>1, <2>2
<1> QED BY <1>1, <1>2, <1>3, <1>6

\* Everything below a root is reached when it is in the store.
LEMMA AllReached ==
    ASSUME NEW r, NEW store, Below(r) \subseteq store
    PROVE  Reached(r, store) = Below(r)
<1> DEFINE u == Under(r)
           v == ReachedAt(r, store)
           M == MaxDepth
           T == {d \in 0 .. M : v[d] = u[d]}
<1>1. M \in Nat
  BY DepthIsNat
<1>2. u[0] = {r} /\ \A d \in 1 .. M : u[d] = Children(u[d - 1])
  BY UnderEq
<1>3. v[0] = {r} \cap store /\ \A d \in 1 .. M : v[d] = Children(v[d - 1]) \cap store
  BY ReachedEq
<1>4. \A d \in 0 .. M : u[d] \subseteq store
  BY DEF Below
<1>5. /\ Below(r) = UNION {u[d] : d \in 0 .. M}
      /\ Reached(r, store) = UNION {v[d] : d \in 0 .. M}
  BY DEF Below, Reached
<1> HIDE DEF u, v, M
<1>6. 0 \in T
  <2>1. 0 \in 0 .. M
    BY <1>1
  <2>2. v[0] = u[0]
    BY <1>2, <1>3, <1>4, <2>1
  <2> QED BY <2>1, <2>2
<1>7. ASSUME NEW d \in 1 .. M, d - 1 \in T
      PROVE  d \in T
  <2>1. d \in 0 .. M
    BY <1>1
  <2>2. u[d] = Children(u[d - 1]) /\ v[d] = Children(u[d - 1]) \cap store
    BY <1>2, <1>3, <1>7
  <2>3. v[d] = u[d]
    BY <1>4, <2>1, <2>2
  <2> QED BY <2>1, <2>3
<1>8. 0 .. M \subseteq T
  <2> HIDE DEF T
  <2> QED BY <1>1, <1>6, <1>7, Upward
<1>9. \A d \in 0 .. M : v[d] = u[d]
  BY <1>8
<1> QED BY <1>5, <1>9

\* The keyword and the file of every leaf of a set.
RecordsIn(S) == {<<CHOOSE k \in n.keys : TRUE, n.file>> : n \in {m \in S : IsLeaf(m)}}

\* The records persisted below a root are those of the leaves reached.
LEMMA StoredIs == \A r : Stored(r) = RecordsIn(Reached(r, nodes))
BY DEF Stored, RecordsIn

\* The records of a lane are the files of its number.
LEMMA LaneRecords ==
    ASSUME NEW recs, GoodRecords(recs), NEW i \in 1 .. LaneCount(recs)
    PROVE  RecordsIn(Below(Lane(recs, i))) = {<<k, recs[k][i]>> : k \in Holders(recs, i)}
<1> DEFINE l == Lane(recs, i)
           H == Holders(recs, i)
           S == {LeafNode(k, recs[k][i]) : k \in H}
           R(n) == <<CHOOSE k \in n.keys : TRUE, n.file>>
<1>1. LeavesOf(l) = S
  BY LaneIs
<1>2. RecordsIn(Below(l)) = {R(n) : n \in LeavesOf(l)}
  BY DEF RecordsIn, LeavesOf
<1>3. \A k \in H : R(LeafNode(k, recs[k][i])) = <<k, recs[k][i]>>
  <2> SUFFICES ASSUME NEW k \in H
               PROVE  R(LeafNode(k, recs[k][i])) = <<k, recs[k][i]>>
    OBVIOUS
  <2> DEFINE n == LeafNode(k, recs[k][i])
  <2>1. n.keys = {k} /\ n.file = recs[k][i]
    BY LeafIs
  <2>2. (CHOOSE kk \in {k} : TRUE) = k
    OBVIOUS
  <2> HIDE DEF n
  <2>3. R(n) = <<k, recs[k][i]>>
    BY <2>1, <2>2
  <2> QED BY <2>3 DEF n
<1> HIDE DEF R, l, H
<1>4. {R(n) : n \in S} = {<<k, recs[k][i]>> : k \in H}
  BY <1>3
<1> QED BY <1>1, <1>2, <1>4 DEF l, H

AllOf(recs) == UNION {{<<k, f>> : f \in ToSet(recs[k])} : k \in Keys}

\* A forest all of whose nodes are in the store is read back as it was.
LEMMA ForestRecords ==
    ASSUME NEW recs, GoodRecords(recs), NEW lanes, lanes = Forest(recs), NEW store,
           \A l \in ToSet(lanes) : Below(l) \subseteq store
    PROVE  UNION {RecordsIn(Reached(l, store)) : l \in ToSet(lanes)} = AllOf(recs)
<1> DEFINE n == LaneCount(recs)
           P(i) == {<<k, recs[k][i]>> : k \in Holders(recs, i)}
<1>1. n \in Nat /\ ToSet(lanes) = {Lane(recs, i) : i \in 1 .. n}
  BY ForestIs
<1>2. \A i \in 1 .. n : RecordsIn(Reached(Lane(recs, i), store)) = P(i)
  <2> SUFFICES ASSUME NEW i \in 1 .. n
               PROVE  RecordsIn(Reached(Lane(recs, i), store)) = P(i)
    OBVIOUS
  <2>1. Below(Lane(recs, i)) \subseteq store
    BY <1>1
  <2>2. Reached(Lane(recs, i), store) = Below(Lane(recs, i))
    BY <2>1, AllReached
  <2> QED BY <2>2, LaneRecords
<1>3. UNION {RecordsIn(Reached(l, store)) : l \in ToSet(lanes)} = UNION {P(i) : i \in 1 .. n}
  <2> HIDE DEF P, n
  <2> QED BY <1>1, <1>2
<1>4. UNION {P(i) : i \in 1 .. n} \subseteq AllOf(recs)
  <2> SUFFICES ASSUME NEW i \in 1 .. n, NEW k \in Holders(recs, i)
               PROVE  <<k, recs[k][i]>> \in AllOf(recs)
    OBVIOUS
  <2>1. k \in Keys /\ Len(recs[k]) >= i
    BY DEF Holders
  <2>2. DOMAIN recs[k] = 1 .. Len(recs[k]) /\ Len(recs[k]) \in Nat
    BY <2>1, GoodIs
  <2>3. i \in DOMAIN recs[k]
    BY <1>1, <2>1, <2>2
  <2>4. recs[k][i] \in ToSet(recs[k])
    BY <2>3 DEF ToSet
  <2> QED BY <2>1, <2>4 DEF AllOf
<1>5. AllOf(recs) \subseteq UNION {P(i) : i \in 1 .. n}
  <2> SUFFICES ASSUME NEW k \in Keys, NEW f \in ToSet(recs[k])
               PROVE  <<k, f>> \in UNION {P(i) : i \in 1 .. n}
    BY DEF AllOf
  <2>1. DOMAIN recs[k] = 1 .. Len(recs[k]) /\ Len(recs[k]) \in Nat /\ Len(recs[k]) <= n
    BY GoodIs, LaneCountIs
  <2>2. PICK i \in 1 .. Len(recs[k]) : recs[k][i] = f
    BY <2>1 DEF ToSet
  <2>3. i \in 1 .. n /\ k \in Holders(recs, i)
    BY <1>1, <2>1, <2>2 DEF Holders
  <2>4. <<k, f>> \in P(i)
    BY <2>2, <2>3
  <2> HIDE DEF P
  <2> QED BY <2>3, <2>4
<1> QED BY <1>3, <1>4, <1>5

\* The index built from pairs is sorted and has their files.
LEMMA IndexOfIs ==
    ASSUME NEW pairs, NEW recs, recs = IndexOf(pairs)
    PROVE  /\ GoodRecords(recs)
           /\ \A k \in Keys : ToSet(recs[k]) = {f \in Files : <<k, f>> \in pairs}
<1> DEFINE F(k) == {f \in Files : <<k, f>> \in pairs}
<1>1. \A k \in Keys : recs[k] = Sorted(F(k)) /\ F(k) \in SUBSET Files
  BY DEF IndexOf
<1>2. recs = [k \in Keys |-> recs[k]]
  BY DEF IndexOf
<1> HIDE DEF F
<1>3. \A k \in Keys : /\ recs[k] \in Seq(Files) /\ ToSet(recs[k]) = F(k)
                      /\ recs[k] = Sorted(ToSet(recs[k]))
  BY <1>1, SortedGood
<1>4. recs \in [Keys -> Seq(Files)]
  BY <1>2, <1>3
<1> QED BY <1>3, <1>4 DEF GoodRecords, F

\* The index built from all records of a sorted index is that index.
LEMMA IndexOfAll ==
    ASSUME NEW recs, GoodRecords(recs)
    PROVE  IndexOf(AllOf(recs)) = recs
<1> DEFINE new == IndexOf(AllOf(recs))
<1>1. \A k \in Keys : {f \in Files : <<k, f>> \in AllOf(recs)} = ToSet(recs[k])
  <2> SUFFICES ASSUME NEW k \in Keys
               PROVE  {f \in Files : <<k, f>> \in AllOf(recs)} = ToSet(recs[k])
    OBVIOUS
  <2>1. ToSet(recs[k]) \subseteq Files
    BY GoodIs
  <2>2. \A f : <<k, f>> \in AllOf(recs) <=> f \in ToSet(recs[k])
    BY DEF AllOf
  <2> QED BY <2>1, <2>2
<1>2. \A k \in Keys : new[k] = Sorted({f \in Files : <<k, f>> \in AllOf(recs)})
  BY DEF IndexOf
<1>3. \A k \in Keys : new[k] = recs[k]
  BY <1>1, <1>2 DEF GoodRecords
<1>4. new = [k \in Keys |-> new[k]] /\ recs = [k \in Keys |-> recs[k]]
  BY DEF IndexOf, GoodRecords
<1> HIDE DEF new
<1>5. new = recs
  BY <1>3, <1>4
<1> QED BY <1>5 DEF new

(***************************************************************************)
(* Matches                                                                 *)
(***************************************************************************)

\* The empty path leads nowhere.
LEMMA PathEmpty == \A n : PathRoot(n, <<>>) = n
<1> TAKE n
<1>1. Len(<<>>) = 0
  BY EmptySeq
<1> DEFINE p == <<>>
<1> HIDE DEF p
<1>2. Len(p) = 0
  BY <1>1 DEF p
<1>3. Upwards(n, p)[0] = n /\ PathRoot(n, p) = Upwards(n, p)[Len(p)]
  BY <1>2, PathEq
<1>4. PathRoot(n, p) = n
  BY <1>2, <1>3
<1> QED BY <1>4 DEF p

\* A sequence with one more element in front.
LEMMA Prefixed ==
    ASSUME NEW U, NEW path \in Seq(U), NEW e \in U
    PROVE  /\ <<e>> \o path \in Seq(U) /\ Len(path) \in Nat /\ Len(<<e>> \o path) = Len(path) + 1
           /\ (<<e>> \o path)[1] = e
           /\ \A i \in 1 .. Len(path) : (<<e>> \o path)[i + 1] = path[i]
<1> DEFINE m == Len(path)
           s == <<e>>
<1>1. s \in Seq(U) /\ Len(s) = 1 /\ s[1] = e
  <2>1. s \in Seq(U)
    OBVIOUS
  <2>2. Len(s) = 1
    OBVIOUS
  <2>3. s[1] = e
    OBVIOUS
  <2> QED BY <2>1, <2>2, <2>3
<1>2. m \in Nat
  BY LenProperties
<1> HIDE DEF s
<1>3. /\ s \o path \in Seq(U) /\ Len(s \o path) = 1 + Len(path)
      /\ \A i \in 1 .. 1 + Len(path) : (s \o path)[i] = IF i <= 1 THEN s[i] ELSE path[i - 1]
  <2>1. s \o path \in Seq(U)
    BY <1>1, ConcatProperties
  <2>2. Len(s \o path) = Len(s) + Len(path)
    BY <1>1, ConcatProperties
  <2>3. \A i \in 1 .. Len(s) + Len(path) :
          (s \o path)[i] = IF i <= Len(s) THEN s[i] ELSE path[i - Len(s)]
    BY <1>1, ConcatProperties
  <2> DEFINE w == s \o path
  <2> HIDE DEF w
  <2>4. w \in Seq(U) /\ Len(w) = 1 + Len(path)
    BY <1>1, <2>1, <2>2 DEF w
  <2>5. \A i \in 1 .. 1 + Len(path) : w[i] = IF i <= 1 THEN s[i] ELSE path[i - 1]
    BY <1>1, <2>3 DEF w
  <2> QED BY <2>4, <2>5 DEF w
<1> DEFINE w == s \o path
<1> HIDE DEF w, m
<1>4. /\ w \in Seq(U) /\ Len(w) = 1 + m
      /\ \A i \in 1 .. 1 + m : w[i] = IF i <= 1 THEN s[i] ELSE path[i - 1]
  BY <1>3 DEF w, m
<1>5. w[1] = e /\ Len(w) = m + 1
  BY <1>1, <1>2, <1>4
<1>6. ASSUME NEW i \in 1 .. m
      PROVE  w[i + 1] = path[i]
  <2> DEFINE j == i + 1
  <2>1. j \in 1 .. 1 + m /\ ~(j <= 1) /\ j - 1 = i
    BY <1>2
  <2> HIDE DEF j
  <2>2. w[j] = path[i]
    BY <1>4, <2>1
  <2> QED BY <2>2 DEF j
<1> QED BY <1>2, <1>4, <1>5, <1>6 DEF w, s, m

\* One more sibling at the bottom of a path.
LEMMA PathLonger ==
    ASSUME NEW U, NEW path \in Seq(U), NEW e \in U, NEW n
    PROVE  PathRoot(n, <<e>> \o path) = PathRoot(Parent(n, e), path)
<1> DEFINE q == <<e>> \o path
           m == Len(path)
           x == Parent(n, e)
           u == Upwards(n, q)
           v == Upwards(x, path)
           T == {i \in 0 .. m : u[i + 1] = v[i]}
<1>1. /\ m \in Nat /\ Len(q) = m + 1 /\ q[1] = e
      /\ \A i \in 1 .. m : q[i + 1] = path[i]
  BY Prefixed
<1> HIDE DEF q
<1>2. Len(q) \in Nat
  <2> HIDE DEF m
  <2> QED BY <1>1
<1>3. /\ u[0] = n /\ \A i \in 1 .. Len(q) : u[i] = Parent(u[i - 1], q[i])
      /\ PathRoot(n, q) = u[Len(q)]
  BY <1>2, PathEq
<1>4. /\ v[0] = x /\ \A i \in 1 .. m : v[i] = Parent(v[i - 1], path[i])
      /\ PathRoot(x, path) = v[m]
  BY <1>1, PathEq
<1> HIDE DEF u, v, m
<1>5. 0 \in T
  <2>1. 1 \in 1 .. Len(q) /\ 1 - 1 = 0 /\ 0 \in 0 .. m
    BY <1>1
  <2>2. u[1] = Parent(u[0], q[1])
    BY <1>3, <2>1
  <2>3. u[0 + 1] = v[0]
    BY <1>1, <1>3, <1>4, <2>2
  <2> QED BY <2>1, <2>3
<1>6. ASSUME NEW i \in 1 .. m, i - 1 \in T
      PROVE  i \in T
  <2> DEFINE j == i + 1
  <2>1. j \in 1 .. Len(q) /\ j - 1 = (i - 1) + 1 /\ i \in 0 .. m
    BY <1>1
  <2>2. u[j] = Parent(u[j - 1], q[j])
    BY <1>3, <2>1
  <2>3. u[j - 1] = v[i - 1]
    BY <1>6, <2>1
  <2>4. q[j] = path[i]
    BY <1>1
  <2>5. u[j] = v[i]
    BY <1>4, <2>2, <2>3, <2>4
  <2> QED BY <2>1, <2>5
<1>7. m \in T
  <2>1. 0 .. m \subseteq T
    <3> HIDE DEF T
    <3> QED BY <1>1, <1>5, <1>6, Upward
  <2> QED BY <1>1, <2>1
<1>8. PathRoot(n, q) = PathRoot(x, path)
  BY <1>1, <1>3, <1>4, <1>7
<1> QED BY <1>8 DEF q

PathSet(S) == [node : S, onLeft : BOOLEAN, parent : {n.keys : n \in S}]

\* What holds of every entry of the worklist: its path leads to the root.
Leads(e, r, k, S) ==
    /\ e = [node |-> e.node, path |-> e.path]
    /\ e.node \in S /\ k \in e.node.keys
    /\ e.path \in Seq(PathSet(S))
    /\ PathRoot(e.node, e.path) = r
    /\ \A i \in 1 .. Len(e.path) : k \notin e.path[i].node.keys

\* One step down, and the sibling beside it, leads to the same root.
LEMMA SideLeads ==
    ASSUME NEW S, NEW r, NEW k, NEW path \in Seq(PathSet(S)), NEW n \in S,
           PathRoot(n, path) = r, \A i \in 1 .. Len(path) : k \notin path[i].node.keys,
           NEW onLeft \in BOOLEAN, NEW side, NEW other,
           side = IF onLeft THEN n.right ELSE n.left,
           other = IF onLeft THEN n.left ELSE n.right,
           side \in S, other \in S, k \in side.keys,
           n = Merge(n.left, n.right), n.left.keys \cap n.right.keys = {}
    PROVE  Leads([node |-> side, path |-> Beside(n, onLeft) \o path], r, k, S)
<1> DEFINE e == [node |-> other, onLeft |-> onLeft, parent |-> n.keys]
           q == <<e>> \o path
<1>1. Beside(n, onLeft) = <<e>>
  BY DEF Beside
<1>2. e \in PathSet(S)
  BY DEF PathSet
<1>3. Parent(side, e) = n
  <2>1. e.onLeft = onLeft /\ e.node = other /\ e.parent = n.keys
    OBVIOUS
  <2> HIDE DEF e
  <2>2. Parent(side, e) = [keys |-> n.keys, left |-> n.left, right |-> n.right]
    <3>1. CASE onLeft
      BY <2>1, <3>1 DEF Parent
    <3>2. CASE ~onLeft
      BY <2>1, <3>2 DEF Parent
    <3> QED BY <3>1, <3>2
  <2>3. Merge(n.left, n.right) =
          [keys |-> n.left.keys \cup n.right.keys, left |-> n.left, right |-> n.right]
    BY DEF Merge
  <2>4. n.keys = n.left.keys \cup n.right.keys
    BY MergeIs
  <2> QED BY <2>2, <2>3, <2>4
<1>4. k \notin other.keys
  OBVIOUS
<1>5. e.node = other
  OBVIOUS
<1> HIDE DEF e
<1>6. PathRoot(side, q) = r
  BY <1>2, <1>3, PathLonger
<1>7. /\ q \in Seq(PathSet(S)) /\ Len(path) \in Nat /\ Len(q) = Len(path) + 1 /\ q[1] = e
      /\ \A i \in 1 .. Len(path) : q[i + 1] = path[i]
  BY <1>2, Prefixed
<1> HIDE DEF q
<1>8. ASSUME NEW i \in 1 .. Len(q)
      PROVE  k \notin q[i].node.keys
  <2>1. CASE i = 1
    BY <1>4, <1>5, <1>7, <2>1
  <2>2. CASE i # 1
    <3> DEFINE j == i - 1
    <3>1. j \in 1 .. Len(path) /\ j + 1 = i
      BY <1>7, <2>2
    <3> HIDE DEF j
    <3>2. q[j + 1] = path[j] /\ k \notin path[j].node.keys
      BY <1>7, <3>1
    <3> QED BY <3>1, <3>2
  <2> QED BY <2>1, <2>2
<1> DEFINE z == [node |-> side, path |-> q]
<1>9. z.node = side /\ z.path = q
  OBVIOUS
<1> HIDE DEF z
<1>10. z = [node |-> z.node, path |-> z.path]
  BY <1>9 DEF z
<1>11. Leads(z, r, k, S)
  BY <1>6, <1>7, <1>8, <1>9, <1>10 DEF Leads
<1> QED BY <1>1, <1>11 DEF z, q

\* Every entry of the worklist leads to the root.
LEMMA VisitedLead ==
    ASSUME NEW r, NEW S, r \in S, \A n \in S : Regular(n), NEW k
    PROVE  \A e \in Visited(r, k, S) : Leads(e, r, k, S)
<1> DEFINE v == VisitedAt(r, k, S)
           T == {d \in 0 .. MaxDepth : \A e \in v[d] : Leads(e, r, k, S)}
<1>1. /\ v[0] = WithKey({[node |-> r, path |-> <<>>]}, k, S)
      /\ \A d \in 1 .. MaxDepth : v[d] = WithKey(Lowered(v[d - 1], S), k, S)
  BY VisitedEq DEF Searches
<1>2. Visited(r, k, S) = UNION {v[d] : d \in 0 .. MaxDepth}
  BY DEF Visited
<1> HIDE DEF v
<1>3. 0 \in T
  <2> SUFFICES ASSUME NEW e \in v[0] PROVE Leads(e, r, k, S)
    BY DepthIsNat
  <2>1. e = [node |-> r, path |-> <<>>] /\ k \in e.node.keys
    BY <1>1 DEF WithKey
  <2>2. <<>> \in Seq(PathSet(S)) /\ Len(<<>>) = 0
    BY EmptySeq
  <2>3. PathRoot(r, <<>>) = r
    BY PathEmpty
  <2> DEFINE p == <<>>
  <2> HIDE DEF p
  <2>4. e = [node |-> r, path |-> p] /\ p \in Seq(PathSet(S)) /\ Len(p) = 0 /\ PathRoot(r, p) = r
    BY <2>1, <2>2, <2>3 DEF p
  <2>5. e.node = r /\ e.path = p
    BY <2>4
  <2>6. 1 .. Len(p) = {}
    BY <2>4
  <2> QED BY <2>1, <2>4, <2>5, <2>6 DEF Leads
<1>4. ASSUME NEW d \in 1 .. MaxDepth, d - 1 \in T
      PROVE  d \in T
  <2> SUFFICES ASSUME NEW e \in v[d] PROVE Leads(e, r, k, S)
    BY DepthIsNat
  <2>1. e \in Lowered(v[d - 1], S) /\ e.node \in S /\ k \in e.node.keys
    BY <1>1 DEF WithKey
  <2>2. PICK o \in v[d - 1] : ~IsLeaf(o.node) /\ e \in Lower(o, S)
    BY <2>1 DEF Lowered
  <2>3. Leads(o, r, k, S)
    BY <1>4
  <2> DEFINE n == o.node
             path == o.path
  <2>4. n.left \in S /\ n.right \in S
    BY <2>2 DEF Lower
  <2>5. \/ e = [node |-> n.left, path |-> Beside(n, FALSE) \o path]
        \/ e = [node |-> n.right, path |-> Beside(n, TRUE) \o path]
    BY <2>2 DEF Lower
  <2>6. /\ n \in S /\ path \in Seq(PathSet(S)) /\ PathRoot(n, path) = r
        /\ \A i \in 1 .. Len(path) : k \notin path[i].node.keys
    BY <2>3 DEF Leads
  <2>7. n = Merge(n.left, n.right) /\ n.left.keys \cap n.right.keys = {}
    BY <2>2, <2>6 DEF Regular
  <2> HIDE DEF n, path
  <2>8. CASE e = [node |-> n.left, path |-> Beside(n, FALSE) \o path]
    <3>1. e.node = n.left
      BY <2>8
    <3>2. k \in n.left.keys
      BY <2>1, <3>1
    <3>3. Leads([node |-> n.left, path |-> Beside(n, FALSE) \o path], r, k, S)
      BY <2>4, <2>6, <2>7, <3>2, SideLeads
    <3> QED BY <2>8, <3>3
  <2>9. CASE e = [node |-> n.right, path |-> Beside(n, TRUE) \o path]
    <3>1. e.node = n.right
      BY <2>9
    <3>2. k \in n.right.keys
      BY <2>1, <3>1
    <3>3. Leads([node |-> n.right, path |-> Beside(n, TRUE) \o path], r, k, S)
      BY <2>4, <2>6, <2>7, <3>2, SideLeads
    <3> QED BY <2>9, <3>3
  <2> QED BY <2>5, <2>8, <2>9
<1>5. 0 .. MaxDepth \subseteq T
  <2> HIDE DEF T
  <2> QED BY <1>3, <1>4, DepthIsNat, Upward
<1> QED BY <1>2, <1>5

\* A node is below itself.
LEMMA SelfBelow == \A n : n \in Below(n)
<1> TAKE n
<1>1. Under(n)[0] = {n} /\ 0 \in 0 .. MaxDepth
  BY UnderEq, DepthIsNat
<1> QED BY <1>1 DEF Below

\* The answers from one lane verify: MatchesProve, lane by lane.
LEMMA LaneProves ==
    ASSUME NEW recs, GoodRecords(recs), NEW i \in 1 .. LaneCount(recs), NEW r, r = Lane(recs, i),
           NEW k \in Keys, NEW m \in Matches(r, k, Below(r))
    PROVE  /\ PathRoot(LeafNode(k, m.file), m.path) = r
           /\ \A j \in DOMAIN m.path : k \notin m.path[j].node.keys
<1> DEFINE S == Below(r)
<1>1. r \in S
  BY SelfBelow
<1>2. \A n \in S : Regular(n)
  BY LaneIs DEF Grown
<1>3. PICK e \in Visited(r, k, S) : IsLeaf(e.node) /\ m = [file |-> e.node.file, path |-> e.path]
  BY DEF Matches
<1>4. Leads(e, r, k, S)
  BY <1>1, <1>2, VisitedLead
<1> HIDE DEF S
<1>5. /\ e.node \in S /\ k \in e.node.keys /\ e.path \in Seq(PathSet(S))
      /\ PathRoot(e.node, e.path) = r
      /\ \A j \in 1 .. Len(e.path) : k \notin e.path[j].node.keys
  BY <1>4 DEF Leads
<1>6. PICK q \in Keys, f \in Files : e.node = LeafNode(q, f)
  BY <1>2, <1>3, <1>5 DEF Regular
<1>7. e.node.keys = {q} /\ e.node.file = f
  BY <1>6, LeafIs
<1>8. q = k
  BY <1>5, <1>7
<1>9. m.file = f /\ m.path = e.path
  BY <1>3, <1>7
<1>10. DOMAIN e.path = 1 .. Len(e.path)
  BY <1>5, LenProperties
<1> QED BY <1>5, <1>6, <1>8, <1>9, <1>10

(***************************************************************************)
(* The requests                                                            *)
(***************************************************************************)

\* A change of one keyword leaves the lanes before the place of the change
\* as they were: what the code does not rebuild it need not rebuild.
LEMMA RebuiltIs ==
    ASSUME NEW base, NEW recs, GoodRecords(base), GoodRecords(recs), NEW k \in Keys,
           \A q \in Keys \ {k} : recs[q] = base[q],
           NEW start, Shifted(base[k], recs[k], start) \/ Shifted(recs[k], base[k], start)
    PROVE  /\ Rebuilt(Forest(base), recs, start) = Forest(recs)
           /\ start \in Nat
           /\ \A i \in 1 .. LaneCount(recs) :
                 i < start => i \in DOMAIN Forest(base) /\ Forest(recs)[i] = Forest(base)[i]
<1>1. Len(base[k]) \in Nat /\ Len(recs[k]) \in Nat
  BY GoodIs
<1>2. start \in Nat
  BY <1>1 DEF Shifted
<1>3. LaneCount(recs) \in Nat /\ LaneCount(base) \in Nat
  BY LaneCountIs
<1>4. ASSUME NEW i \in 1 .. LaneCount(recs), i < start
      PROVE  i \in 1 .. LaneCount(base) /\ Lane(recs, i) = Lane(base, i)
  <2>1. i \in Nat \ {0} /\ i \in 1 .. start - 1
    BY <1>2, <1>3, <1>4
  <2>2. Len(base[k]) >= i /\ Len(recs[k]) >= i /\ base[k][i] = recs[k][i]
    BY <1>1, <1>2, <2>1 DEF Shifted
  <2>3. i <= LaneCount(base)
    BY <1>1, <1>3, <2>1, <2>2, LaneCountIs
  <2>4. \A q \in Keys : Len(recs[q]) >= i <=> Len(base[q]) >= i
    BY <2>2
  <2>5. \A q \in Keys : Len(recs[q]) >= i => recs[q][i] = base[q][i]
    BY <2>2
  <2>6. Lane(recs, i) = Lane(base, i)
    BY <2>1, <2>4, <2>5, SameLane
  <2> QED BY <1>3, <2>1, <2>3, <2>6
<1> DEFINE old == Forest(base)
<1>5. DOMAIN old = 1 .. LaneCount(base) /\ \A i \in 1 .. LaneCount(base) : old[i] = Lane(base, i)
  BY ForestIs
<1>6. \A i \in 1 .. LaneCount(recs) : Forest(recs)[i] = Lane(recs, i)
  BY ForestIs
<1> HIDE DEF old
<1>7. \A i \in 1 .. LaneCount(recs) : (IF i >= start THEN Lane(recs, i) ELSE old[i]) = Lane(recs, i)
  BY <1>2, <1>3, <1>4, <1>5
<1>8. Rebuilt(old, recs, start) = Forest(recs)
  BY <1>7 DEF Rebuilt, Forest
<1>9. \A i \in 1 .. LaneCount(recs) : i < start => i \in DOMAIN old /\ Forest(recs)[i] = old[i]
  BY <1>4, <1>5, <1>6
<1> QED BY <1>2, <1>8, <1>9 DEF old

\* The manifest's root hashes are those of a whole forest.
ManifestIsForest == \E kept : GoodRecords(kept) /\ manifest = Forest(kept)

\* The inductive invariant.
IInv ==
    /\ roots # <<>> => GoodRecords(records) /\ roots = Forest(records)
    /\ ManifestIsForest
    /\ CleanLanesStored

\* The lanes `lanes` that are not touched are the manifest's.
AsWritten(lanes, touched) ==
    \A i \in DOMAIN lanes \ touched : i \in DOMAIN manifest /\ manifest[i] = lanes[i]

\* The lanes queries read.
Lanes == IF roots = <<>> THEN manifest ELSE roots

\* Hydration gives back the index and the forest there were.
LEMMA HydratedIs ==
    ASSUME IInv
    PROVE  /\ GoodRecords(Hydrated) /\ HydratedRoots = Forest(Hydrated)
           /\ AsWritten(HydratedRoots, dirty)
           /\ AllRecords = AllOf(Hydrated)
           /\ HydratedRoots = Lanes
<1>1. PICK kept : GoodRecords(kept) /\ manifest = Forest(kept)
  BY DEF IInv, ManifestIsForest
<1>2. CASE roots = <<>>
  <2>1. StoredRecords = UNION {RecordsIn(Reached(l, nodes)) : l \in ToSet(manifest)}
    BY StoredIs DEF StoredRecords
  <2>2. \A l \in ToSet(manifest) : Below(l) \subseteq nodes
    BY DEF IInv, CleanLanesStored
  <2>3. StoredRecords = AllOf(kept)
    BY <1>1, <2>1, <2>2, ForestRecords
  <2>4. Hydrated = IndexOf(StoredRecords)
    BY <1>2 DEF Hydrated
  <2>5. Hydrated = kept
    BY <1>1, <2>3, <2>4, IndexOfAll
  <2>6. HydratedRoots = Forest(Hydrated)
    BY <1>2 DEF HydratedRoots
  <2>7. HydratedRoots = manifest
    BY <1>1, <2>5, <2>6
  <2>8. AllRecords = StoredRecords
    BY <1>2 DEF AllRecords
  <2>9. HydratedRoots = Lanes
    BY <1>2, <2>7 DEF Lanes
  <2> QED BY <1>1, <2>3, <2>5, <2>6, <2>7, <2>8, <2>9 DEF AsWritten
<1>3. CASE roots # <<>>
  <2>1. Hydrated = records /\ HydratedRoots = roots /\ GoodRecords(records) /\ roots = Forest(records)
    BY <1>3 DEF Hydrated, HydratedRoots, IInv
  <2>2. AllRecords = AllOf(records)
    BY <1>3 DEF AllRecords, AllOf
  <2>3. AsWritten(roots, dirty)
    BY DEF IInv, CleanLanesStored, AsWritten
  <2>4. roots = Lanes
    BY <1>3 DEF Lanes
  <2> QED BY <2>1, <2>2, <2>3, <2>4
<1> QED BY <1>2, <1>3

\* A change in memory keeps the invariant, its untouched lanes being written.
LEMMA KeptInMemory ==
    ASSUME IInv, NEW recs, GoodRecords(recs), NEW lanes, lanes = Forest(recs), NEW touched,
           AsWritten(lanes, touched),
           InMemory(recs, lanes, touched), UNCHANGED <<nodes, manifest>>
    PROVE  IInv'
<1>1. records' = recs /\ roots' = lanes /\ dirty' = touched /\ nodes' = nodes /\ manifest' = manifest
  BY DEF InMemory
<1>2. CleanLanesStored'
  BY <1>1 DEF IInv, CleanLanesStored, AsWritten
<1>3. ManifestIsForest'
  BY <1>1 DEF IInv, ManifestIsForest
<1> QED BY <1>1, <1>2, <1>3 DEF IInv

\* What the nodes of the dirty lanes and the manifest leave in LevelDB.
LEMMA KeptSynced ==
    ASSUME IInv, NEW recs, GoodRecords(recs), NEW lanes, lanes = Forest(recs), NEW touched,
           AsWritten(lanes, touched), Synced(recs, lanes, touched)
    PROVE  IInv'
<1>1. /\ records' = recs /\ roots' = lanes /\ dirty' = {} /\ manifest' = lanes
      /\ nodes' = nodes \cup UNION {Below(lanes[i]) : i \in touched \cap DOMAIN lanes}
  BY DEF Synced, InMemory
<1>2. ASSUME NEW l \in ToSet(lanes)
      PROVE  Below(l) \subseteq nodes'
  <2>1. PICK i \in DOMAIN lanes : l = lanes[i]
    BY DEF ToSet
  <2>2. CASE i \in touched
    BY <1>1, <2>1, <2>2
  <2>3. CASE i \notin touched
    <3>1. i \in DOMAIN manifest /\ manifest[i] = l
      BY <2>1, <2>3 DEF AsWritten
    <3>2. l \in ToSet(manifest)
      BY <3>1 DEF ToSet
    <3>3. Below(l) \subseteq nodes
      BY <3>2 DEF IInv, CleanLanesStored
    <3> QED BY <1>1, <3>3
  <2> QED BY <2>2, <2>3
<1>3. CleanLanesStored'
  BY <1>1, <1>2 DEF CleanLanesStored
<1>4. ManifestIsForest'
  BY <1>1 DEF ManifestIsForest
<1> QED BY <1>1, <1>3, <1>4 DEF IInv

\* A forest built anew and written as a whole keeps the invariant.
LEMMA KeptRebuilt ==
    ASSUME IInv, NEW pairs, RebuiltFrom(pairs)
    PROVE  IInv'
<1> DEFINE recs == IndexOf(pairs)
           lanes == Forest(recs)
<1>1. GoodRecords(recs)
  BY IndexOfIs
<1>2. Synced(recs, lanes, DOMAIN lanes)
  BY DEF RebuiltFrom
<1>3. AsWritten(lanes, DOMAIN lanes)
  BY DEF AsWritten
<1> HIDE DEF recs
<1>4. lanes = Forest(recs)
  OBVIOUS
<1> HIDE DEF lanes
<1> QED BY <1>1, <1>2, <1>3, <1>4, KeptSynced

\* The empty index is sorted, and its forest is empty.
LEMMA NothingIsGood == GoodRecords(NoRecords) /\ Forest(NoRecords) = <<>>
<1>1. {} \in SUBSET Files /\ ToSet(<<>>) = {}
  BY DEF ToSet
<1>2. Sorted({}) = <<>>
  <2> DEFINE none == {}
             s    == Sorted(none)
  <2>1. none \in SUBSET Files /\ s = Sorted(none)
    OBVIOUS
  <2> HIDE DEF none, s
  <2>5. s \in Seq(Files) /\ ToSet(s) = none
    BY <2>1, SortedIs
  <2>6. none = {}
    BY DEF none
  <2>7. Len(s) \in Nat /\ DOMAIN s = 1 .. Len(s)
    BY <2>5, LenProperties
  <2>8. DOMAIN s = {}
    BY <2>5, <2>6 DEF ToSet
  <2>2. Len(s) \in Nat /\ DOMAIN s = 1 .. Len(s) /\ DOMAIN s = {}
    BY <2>7, <2>8
  <2>3. Len(s) = 0
    BY <2>2
  <2>4. s = <<>>
    BY <2>5, <2>3, EmptySeq
  <2> QED BY <2>4 DEF s, none
<1>3. GoodRecords(NoRecords)
  <2>1. \A k \in Keys : NoRecords[k] = <<>>
    BY DEF NoRecords
  <2>2. NoRecords \in [Keys -> Seq(Files)]
    BY EmptySeq DEF NoRecords
  <2>3. \A k \in Keys : NoRecords[k] = Sorted(ToSet(NoRecords[k]))
    BY <1>1, <1>2, <2>1
  <2> QED BY <2>2, <2>3 DEF GoodRecords
<1>4. LaneCount(NoRecords) = 0
  <2>1. \A k \in Keys : Len(NoRecords[k]) = 0
    BY EmptySeq DEF NoRecords
  <2> QED BY <1>3, <2>1, LaneCountIs
<1>5. Forest(NoRecords) = <<>>
  BY <1>3, <1>4, ForestIs
<1> QED BY <1>3, <1>5

\* The lanes a change of one keyword leaves alone are still the manifest's.
LEMMA RebuiltWritten ==
    ASSUME IInv, NEW recs, GoodRecords(recs), NEW k \in Keys,
           \A q \in Keys \ {k} : recs[q] = Hydrated[q], NEW start,
           Shifted(Hydrated[k], recs[k], start) \/ Shifted(recs[k], Hydrated[k], start)
    PROVE  /\ Rebuilt(HydratedRoots, recs, start) = Forest(recs)
           /\ AsWritten(Forest(recs), dirty \cup start .. LaneCount(recs))
<1>1. /\ GoodRecords(Hydrated) /\ HydratedRoots = Forest(Hydrated)
      /\ AsWritten(HydratedRoots, dirty)
  BY HydratedIs
<1>2. /\ Rebuilt(HydratedRoots, recs, start) = Forest(recs)
      /\ start \in Nat
      /\ \A i \in 1 .. LaneCount(recs) :
            i < start => i \in DOMAIN HydratedRoots /\ Forest(recs)[i] = HydratedRoots[i]
  BY <1>1, RebuiltIs
<1>3. DOMAIN Forest(recs) = 1 .. LaneCount(recs) /\ LaneCount(recs) \in Nat
  BY ForestIs
<1>4. ASSUME NEW i \in DOMAIN Forest(recs) \ (dirty \cup start .. LaneCount(recs))
      PROVE  i \in DOMAIN manifest /\ manifest[i] = Forest(recs)[i]
  <2>1. i \in 1 .. LaneCount(recs) /\ i < start /\ i \notin dirty
    BY <1>2, <1>3
  <2>2. i \in DOMAIN HydratedRoots /\ Forest(recs)[i] = HydratedRoots[i]
    BY <1>2, <2>1
  <2>3. i \in DOMAIN manifest /\ manifest[i] = HydratedRoots[i]
    BY <1>1, <2>1, <2>2 DEF AsWritten
  <2> QED BY <2>2, <2>3
<1> QED BY <1>2, <1>4 DEF AsWritten

With(base, k, s) == [base EXCEPT ![k] = s]

\* A sorted index with other files for one keyword is sorted.
LEMMA WithIsGood ==
    ASSUME NEW base, GoodRecords(base), NEW k \in Keys, NEW fids \in SUBSET Files,
           NEW recs, recs = With(base, k, Sorted(fids))
    PROVE  /\ GoodRecords(recs) /\ recs[k] = Sorted(fids)
           /\ \A q \in Keys \ {k} : recs[q] = base[q]
<1>1. base \in [Keys -> Seq(Files)]
  BY DEF GoodRecords
<1>2. recs[k] = Sorted(fids) /\ \A q \in Keys \ {k} : recs[q] = base[q]
  BY <1>1 DEF With
<1>3. Sorted(fids) \in Seq(Files) /\ Sorted(fids) = Sorted(ToSet(Sorted(fids)))
  BY SortedGood
<1>4. recs \in [Keys -> Seq(Files)]
  BY <1>1, <1>3 DEF With
<1>5. ASSUME NEW q \in Keys
      PROVE  recs[q] = Sorted(ToSet(recs[q]))
  BY <1>2, <1>3, GoodIs
<1> QED BY <1>2, <1>4, <1>5 DEF GoodRecords

\* The index once f came to k, or went, and the first lane that is rebuilt.
RecordsWith(k, f)    == With(Hydrated, k, Sorted(ToSet(Hydrated[k]) \cup {f}))
RecordsWithout(k, f) == With(Hydrated, k, Sorted(ToSet(Hydrated[k]) \ {f}))
StartOf(k, f)        == Place(Hydrated[k], f)

Changed(recs, start, k) ==
    /\ GoodRecords(recs) /\ Rebuilt(HydratedRoots, recs, start) = Forest(recs)
    /\ AsWritten(Forest(recs), dirty \cup start .. LaneCount(recs))
    /\ \A q \in Keys \ {k} : recs[q] = Hydrated[q]

\* What add makes of the index and of the forest, of a file that is new.
LEMMA Added ==
    ASSUME IInv, NEW k \in Keys, NEW f \in Files, f \notin ToSet(Hydrated[k])
    PROVE  /\ Changed(RecordsWith(k, f), StartOf(k, f), k)
           /\ StartOf(k, f) \in 1 .. LaneCount(RecordsWith(k, f))
           /\ ToSet(RecordsWith(k, f)[k]) = ToSet(Hydrated[k]) \cup {f}
<1> DEFINE recs == RecordsWith(k, f)
           start == StartOf(k, f)
           base == Hydrated
           fids == ToSet(base[k]) \cup {f}
<1>1. GoodRecords(base)
  BY HydratedIs
<1>2. recs = With(base, k, Sorted(fids)) /\ start = Place(base[k], f) /\ f \notin ToSet(base[k])
  BY DEF RecordsWith, StartOf
<1> HIDE DEF base, recs, start
<1>3. ToSet(base[k]) \in SUBSET Files /\ base[k] = Sorted(ToSet(base[k]))
  BY <1>1, GoodIs
<1>4. fids \in SUBSET Files
  BY <1>3
<1>5. Shifted(base[k], Sorted(fids), start)
  BY <1>2, <1>3, PlaceIs
<1>6. ToSet(Sorted(fids)) = fids
  BY <1>4, SortedGood
<1>7. fids = ToSet(base[k]) \cup {f}
  OBVIOUS
<1> HIDE DEF fids
<1>8. /\ GoodRecords(recs) /\ recs[k] = Sorted(fids)
      /\ \A q \in Keys \ {k} : recs[q] = base[q]
  <2> DEFINE new == With(base, k, Sorted(fids))
  <2>1. new = With(base, k, Sorted(fids))
    OBVIOUS
  <2> HIDE DEF new
  <2>2. /\ GoodRecords(new) /\ new[k] = Sorted(fids)
        /\ \A q \in Keys \ {k} : new[q] = base[q]
    BY ONLY <1>1, <1>4, <2>1, k \in Keys, WithIsGood
  <2>3. new = recs
    BY <1>2, <2>1
  <2> QED BY <2>2, <2>3
<1>9. /\ Rebuilt(HydratedRoots, recs, start) = Forest(recs)
      /\ AsWritten(Forest(recs), dirty \cup start .. LaneCount(recs))
  BY <1>5, <1>8, RebuiltWritten DEF base
<1>10. start \in 1 .. LaneCount(recs)
  <2>1. start \in 1 .. Len(recs[k])
    BY <1>5, <1>8 DEF Shifted
  <2>2. Len(recs[k]) \in Nat /\ LaneCount(recs) \in Nat /\ Len(recs[k]) <= LaneCount(recs)
    BY <1>8, GoodIs, LaneCountIs
  <2> QED BY <2>1, <2>2
<1>11. ToSet(recs[k]) = ToSet(Hydrated[k]) \cup {f}
  BY <1>6, <1>7, <1>8 DEF base
<1>12. Changed(recs, start, k)
  BY <1>8, <1>9 DEF base, Changed
<1> QED BY <1>10, <1>11, <1>12 DEF recs, start

\* What delete makes of the index and of the forest, of a file that is there.
LEMMA Deleted ==
    ASSUME IInv, NEW k \in Keys, NEW f \in Files, f \in ToSet(Hydrated[k])
    PROVE  /\ Changed(RecordsWithout(k, f), StartOf(k, f), k)
           /\ ToSet(RecordsWithout(k, f)[k]) = ToSet(Hydrated[k]) \ {f}
<1> DEFINE recs == RecordsWithout(k, f)
           start == StartOf(k, f)
           base == Hydrated
           fids == ToSet(base[k]) \ {f}
<1>1. GoodRecords(base)
  BY HydratedIs
<1>2. recs = With(base, k, Sorted(fids)) /\ start = Place(base[k], f) /\ f \in ToSet(base[k])
  BY DEF RecordsWithout, StartOf
<1> HIDE DEF base, recs, start
<1>3. ToSet(base[k]) \in SUBSET Files /\ base[k] = Sorted(ToSet(base[k]))
  BY <1>1, GoodIs
<1>4. /\ fids \in SUBSET Files /\ f \notin fids /\ fids \cup {f} = ToSet(base[k])
      /\ fids = ToSet(base[k]) \ {f}
  BY <1>2, <1>3
<1> HIDE DEF fids
<1>5. Shifted(Sorted(fids), base[k], start)
  BY <1>2, <1>3, <1>4, PlaceIs
<1>6. ToSet(Sorted(fids)) = fids
  BY <1>4, SortedGood
<1>8. /\ GoodRecords(recs) /\ recs[k] = Sorted(fids)
      /\ \A q \in Keys \ {k} : recs[q] = base[q]
  <2> DEFINE new == With(base, k, Sorted(fids))
  <2>1. new = With(base, k, Sorted(fids))
    OBVIOUS
  <2> HIDE DEF new
  <2>2. /\ GoodRecords(new) /\ new[k] = Sorted(fids)
        /\ \A q \in Keys \ {k} : new[q] = base[q]
    BY ONLY <1>1, <1>4, <2>1, k \in Keys, WithIsGood
  <2>3. new = recs
    BY <1>2, <2>1
  <2> QED BY <2>2, <2>3
<1>9. /\ Rebuilt(HydratedRoots, recs, start) = Forest(recs)
      /\ AsWritten(Forest(recs), dirty \cup start .. LaneCount(recs))
  BY <1>5, <1>8, RebuiltWritten DEF base
<1>10. ToSet(recs[k]) = ToSet(Hydrated[k]) \ {f}
  BY <1>4, <1>6, <1>8 DEF base
<1>11. Changed(recs, start, k)
  BY <1>8, <1>9 DEF base, Changed
<1> QED BY <1>10, <1>11 DEF recs, start

\* add keeps the invariant.
LEMMA AddKeeps ==
    ASSUME IInv, NEW k \in Keys, NEW f \in Files, Add(k, f)
    PROVE  IInv'
<1>1. UNCHANGED <<nodes, manifest>>
  BY DEF Add
<1>2. CASE f \in ToSet(Hydrated[k])
  <2>1. InMemory(Hydrated, HydratedRoots, dirty)
    BY <1>2 DEF Add
  <2> QED BY <1>1, <2>1, HydratedIs, KeptInMemory
<1>3. CASE f \notin ToSet(Hydrated[k])
  <2> DEFINE recs  == RecordsWith(k, f)
             start == StartOf(k, f)
  <2>1. InMemory(recs, Rebuilt(HydratedRoots, recs, start), dirty \cup start .. LaneCount(recs))
    BY <1>3 DEF Add, With, RecordsWith, StartOf
  <2>2. Changed(recs, start, k)
    BY <1>3, Added
  <2> HIDE DEF recs, start
  <2>3. /\ GoodRecords(recs) /\ Rebuilt(HydratedRoots, recs, start) = Forest(recs)
        /\ AsWritten(Forest(recs), dirty \cup start .. LaneCount(recs))
    BY <2>2 DEF Changed
  <2> QED BY <1>1, <2>1, <2>3, KeptInMemory
<1> QED BY <1>2, <1>3

\* delete keeps the invariant.
LEMMA DeleteKeeps ==
    ASSUME IInv, NEW k \in Keys, NEW f \in Files, Delete(k, f)
    PROVE  IInv'
<1>1. CASE f \notin ToSet(Hydrated[k])
  <2>1. InMemory(Hydrated, HydratedRoots, dirty) /\ UNCHANGED <<nodes, manifest>>
    BY <1>1 DEF Delete
  <2> QED BY <2>1, HydratedIs, KeptInMemory
<1>2. CASE f \in ToSet(Hydrated[k])
  <2> DEFINE recs  == RecordsWithout(k, f)
             start == StartOf(k, f)
  <2>1. Synced(recs, Rebuilt(HydratedRoots, recs, start), dirty \cup start .. LaneCount(recs))
    BY <1>2 DEF Delete, With, RecordsWithout, StartOf
  <2>2. Changed(recs, start, k)
    BY <1>2, Deleted
  <2> HIDE DEF recs, start
  <2>3. /\ GoodRecords(recs) /\ Rebuilt(HydratedRoots, recs, start) = Forest(recs)
        /\ AsWritten(Forest(recs), dirty \cup start .. LaneCount(recs))
    BY <2>2 DEF Changed
  <2> QED BY <2>1, <2>3, KeptSynced
<1> QED BY <1>1, <1>2

\* An empty index has the invariant.
LEMMA InitHolds == Init => IInv
<1> SUFFICES ASSUME Init PROVE IInv
  OBVIOUS
<1>1. roots = <<>> /\ manifest = <<>>
  BY DEF Init
<1>2. ManifestIsForest
  BY <1>1, NothingIsGood DEF ManifestIsForest
<1>3. CleanLanesStored
  BY <1>1 DEF CleanLanesStored, ToSet
<1> QED BY <1>1, <1>2, <1>3 DEF IInv

\* A process that starts again keeps the invariant, whatever was half written.
LEMMA EmptiedKeeps ==
    ASSUME IInv, roots' = <<>>, nodes \subseteq nodes', manifest' = manifest
    PROVE  IInv'
<1>1. ManifestIsForest'
  BY DEF IInv, ManifestIsForest
<1>2. CleanLanesStored'
  BY DEF IInv, CleanLanesStored
<1> QED BY <1>1, <1>2 DEF IInv

\* Every step keeps the invariant.
LEMMA StepKeeps == IInv /\ [Next]_vars => IInv'
<1> SUFFICES ASSUME IInv, [Next]_vars PROVE IInv'
  OBVIOUS
<1>1. ASSUME NEW k \in Keys, NEW f \in Files, Add(k, f) \/ Delete(k, f)
      PROVE  IInv'
  BY <1>1, AddKeeps, DeleteKeeps
<1>2. ASSUME NEW b \in Batches, AddBatch(b)
      PROVE  IInv'
  BY <1>2, KeptRebuilt DEF AddBatch
<1>3. ASSUME NEW p \in MigratedPrefixes
      PROVE  /\ \A s \in Segments : Import(p, {r \in s : r[1] \in p}) => IInv'
             /\ Drain(p) \/ ConfirmLast(p) => IInv'
             /\ Prepare(p) \/ ConfirmRefused(p) \/ ConfirmDeferred(p) => IInv'
  <2>1. \A s \in Segments : Import(p, {r \in s : r[1] \in p}) => IInv'
    <3> TAKE s \in Segments
    <3> DEFINE pairs == {r \in s : r[1] \in p}
    <3> HIDE DEF pairs
    <3>1. Import(p, pairs) => IInv'
      BY KeptRebuilt DEF Import
    <3> QED BY <3>1 DEF pairs
  <2>2. Drain(p) => IInv'
    BY KeptRebuilt DEF Drain
  <2>3. ConfirmLast(p) => IInv'
    BY KeptRebuilt DEF ConfirmLast
  <2>4. Prepare(p) \/ ConfirmRefused(p) \/ ConfirmDeferred(p) => IInv'
    <3> SUFFICES ASSUME UNCHANGED <<records, roots, dirty, nodes, manifest>> PROVE IInv'
      BY DEF Prepare, ConfirmRefused, ConfirmDeferred
    <3> QED BY DEF IInv, ManifestIsForest, CleanLanesStored
  <2> QED BY <2>1, <2>2, <2>3, <2>4
<1>4. CASE Reset
  <2>1. roots' = <<>> /\ manifest' = <<>>
    BY <1>4 DEF Reset, InMemory
  <2>2. ManifestIsForest'
    BY <2>1, NothingIsGood DEF ManifestIsForest
  <2>3. CleanLanesStored'
    BY <2>1 DEF CleanLanesStored, ToSet
  <2> QED BY <2>1, <2>2, <2>3 DEF IInv
<1>5. CASE Restart
  <2>1. roots' = <<>> /\ nodes \subseteq nodes' /\ manifest' = manifest
    BY <1>5 DEF Restart
  <2> QED BY <2>1, EmptiedKeeps
<1>6. CASE UNCHANGED vars
  BY <1>6 DEF vars, IInv, ManifestIsForest, CleanLanesStored
<1> QED BY <1>1, <1>2, <1>3, <1>4, <1>5, <1>6 DEF Next

\* Every reachable state has the invariant.
THEOREM Invariance == Spec => []IInv
BY InitHolds, StepKeeps, PTL DEF Spec

\* Every lane is the lane of its number in a good index.
LEMMA RootsProve == IInv => MatchesProve
<1> SUFFICES ASSUME IInv,
                    NEW r \in ToSet(IF roots = <<>> THEN manifest ELSE roots),
                    NEW k \in Keys, NEW m \in Matches(r, k, Below(r))
             PROVE  /\ PathRoot(LeafNode(k, m.file), m.path) = r
                    /\ \A i \in DOMAIN m.path : k \notin m.path[i].node.keys
  BY DEF MatchesProve
<1>1. PICK recs : GoodRecords(recs) /\ (IF roots = <<>> THEN manifest ELSE roots) = Forest(recs)
  BY DEF IInv, ManifestIsForest
<1>2. PICK i \in 1 .. LaneCount(recs) : r = Lane(recs, i)
  BY <1>1, ForestIs
<1> QED BY <1>1, <1>2, LaneProves

\* The lanes in memory are the forest of the record index, whatever the
\* requests that changed them one by one.
THEOREM LanesFollow == Spec => []LanesFollowRecords
<1>1. IInv => LanesFollowRecords
  BY DEF IInv, LanesFollowRecords
<1> QED BY <1>1, Invariance, PTL

\* What LevelDB holds is enough to come back to the manifest's forest.
THEOREM CleanLanes == Spec => []CleanLanesStored
<1>1. IInv => CleanLanesStored
  BY DEF IInv
<1> QED BY <1>1, Invariance, PTL

\* The proof of every match leads to the root of its lane.
THEOREM MatchesAreProved == Spec => []MatchesProve
BY RootsProve, Invariance, PTL

(***************************************************************************)
(* What queries answer                                                     *)
(***************************************************************************)

\* More nodes have more children.
LEMMA ChildrenMonotone ==
    ASSUME NEW A, NEW B, A \subseteq B
    PROVE  Children(A) \subseteq Children(B)
BY DEF Children

\* What the worklist visits is below the root it started from.
LEMMA VisitedBelow ==
    ASSUME NEW r, NEW k, NEW store
    PROVE  \A e \in Visited(r, k, store) : e.node \in Below(r) /\ k \in e.node.keys
<1> DEFINE v == VisitedAt(r, k, store)
           u == Under(r)
           T == {d \in 0 .. MaxDepth : \A e \in v[d] : e.node \in u[d] /\ k \in e.node.keys}
<1>1. /\ v[0] = WithKey({[node |-> r, path |-> <<>>]}, k, store)
      /\ \A d \in 1 .. MaxDepth : v[d] = WithKey(Lowered(v[d - 1], store), k, store)
  BY VisitedEq DEF Searches
<1>2. Visited(r, k, store) = UNION {v[d] : d \in 0 .. MaxDepth}
  BY DEF Visited
<1>3. u[0] = {r} /\ \A d \in 1 .. MaxDepth : u[d] = Children(u[d - 1])
  BY UnderEq
<1>4. Below(r) = UNION {u[d] : d \in 0 .. MaxDepth}
  BY DEF Below
<1> HIDE DEF v, u
<1>5. 0 \in T
  <2> SUFFICES ASSUME NEW e \in v[0] PROVE e.node \in u[0] /\ k \in e.node.keys
    BY DepthIsNat
  <2>1. e = [node |-> r, path |-> <<>>] /\ k \in e.node.keys
    BY <1>1 DEF WithKey
  <2>2. e.node = r
    BY <2>1
  <2> QED BY <1>3, <2>1, <2>2
<1>6. ASSUME NEW d \in 1 .. MaxDepth, d - 1 \in T
      PROVE  d \in T
  <2> SUFFICES ASSUME NEW e \in v[d] PROVE e.node \in u[d] /\ k \in e.node.keys
    BY DepthIsNat
  <2>1. e \in Lowered(v[d - 1], store) /\ k \in e.node.keys
    BY <1>1 DEF WithKey
  <2>2. PICK o \in v[d - 1] : ~IsLeaf(o.node) /\ e \in Lower(o, store)
    BY <2>1 DEF Lowered
  <2>3. o.node \in u[d - 1]
    BY <1>6
  <2>4. e.node \in {o.node.left, o.node.right}
    <3> DEFINE p == Beside(o.node, FALSE) \o o.path
               q == Beside(o.node, TRUE) \o o.path
    <3>1. e = [node |-> o.node.left, path |-> p] \/ e = [node |-> o.node.right, path |-> q]
      BY <2>2 DEF Lower
    <3> HIDE DEF p, q
    <3> QED BY <3>1
  <2>5. e.node \in Children(u[d - 1])
    BY <2>2, <2>3, <2>4 DEF Children
  <2> QED BY <1>3, <2>1, <2>5
<1>7. 0 .. MaxDepth \subseteq T
  <2> HIDE DEF T
  <2> QED BY <1>5, <1>6, DepthIsNat, Upward
<1> QED BY <1>2, <1>4, <1>7

\* What a search in a lane finds is a file of the keyword.
LEMMA MatchIs ==
    ASSUME NEW recs, GoodRecords(recs), NEW i \in 1 .. LaneCount(recs), NEW r, r = Lane(recs, i),
           NEW k \in Keys, NEW store, NEW m \in Matches(r, k, store)
    PROVE  m.file \in ToSet(recs[k])
<1>1. PICK e \in Visited(r, k, store) : IsLeaf(e.node) /\ m = [file |-> e.node.file, path |-> e.path]
  BY DEF Matches
<1>2. e.node \in Below(r) /\ k \in e.node.keys
  BY VisitedBelow
<1>3. e.node \in LeavesOf(r)
  BY <1>1, <1>2 DEF LeavesOf
<1>4. PICK q \in Holders(recs, i) : e.node = LeafNode(q, recs[q][i])
  BY <1>3, LaneIs
<1>5. e.node.keys = {q} /\ e.node.file = recs[q][i]
  BY <1>4, LeafIs
<1>6. q = k /\ m.file = recs[k][i]
  BY <1>1, <1>2, <1>5
<1>7. i \in DOMAIN recs[k]
  <2>1. Len(recs[k]) >= i
    BY <1>4, <1>6 DEF Holders
  <2>2. DOMAIN recs[k] = 1 .. Len(recs[k]) /\ Len(recs[k]) \in Nat /\ LaneCount(recs) \in Nat
    BY GoodIs, LaneCountIs
  <2> QED BY <2>1, <2>2
<1> QED BY <1>6, <1>7 DEF ToSet

\* A search in a lane finds the keyword's file of that number.
LEMMA FileMatched ==
    ASSUME NEW recs, GoodRecords(recs), NEW k \in Keys, NEW i \in 1 .. Len(recs[k]),
           NEW r, r = Lane(recs, i), NEW store, Below(r) \subseteq store
    PROVE  /\ i \in 1 .. LaneCount(recs)
           /\ \E m \in Matches(r, k, store) : m.file = recs[k][i]
<1>1. Len(recs[k]) \in Nat /\ LaneCount(recs) \in Nat /\ Len(recs[k]) <= LaneCount(recs)
  BY GoodIs, LaneCountIs
<1>2. i \in 1 .. LaneCount(recs)
  BY <1>1
<1>3. PICK h \in 0 .. MaxDepth : Grown(r, h)
  BY <1>2, LaneIs
<1>4. LeavesOf(r) = {LeafNode(q, recs[q][i]) : q \in Holders(recs, i)}
  BY <1>2, LaneIs
<1> DEFINE leaf == LeafNode(k, recs[k][i])
<1>5. k \in Holders(recs, i)
  BY <1>1 DEF Holders
<1>6. leaf \in LeavesOf(r)
  BY <1>4, <1>5
<1>7. IsLeaf(leaf) /\ leaf.keys = {k} /\ leaf.file = recs[k][i]
  BY LeafIs
<1> HIDE DEF leaf
<1>8. k \in r.keys
  BY <1>3, <1>6, <1>7 DEF Grown
<1>9. r \in store
  BY SelfBelow
<1> DEFINE e == [node |-> r, path |-> <<>>]
<1>10. e.node = r
  OBVIOUS
<1>11. VisitedAt(r, k, store)[0] = WithKey({e}, k, store)
  BY VisitedEq DEF Searches
<1>12. e \in VisitedAt(r, k, store)[0]
  <2> HIDE DEF e
  <2> QED BY <1>8, <1>9, <1>10, <1>11 DEF WithKey
<1>13. 0 \in 0 .. MaxDepth /\ 0 + h <= MaxDepth
  BY <1>3, DepthIsNat
<1>14. PICK p : [node |-> leaf, path |-> p] \in Visited(r, k, store)
  BY <1>3, <1>6, <1>7, <1>12, <1>13 DEF Grown, Searched
<1> DEFINE found == [node |-> leaf, path |-> p]
<1>15. found \in Visited(r, k, store) /\ found.node = leaf /\ found.path = p
  BY <1>14
<1> HIDE DEF found
<1> DEFINE m == [file |-> found.node.file, path |-> found.path]
<1>16. m \in Matches(r, k, store)
  BY <1>7, <1>15 DEF Matches
<1>17. m.file = recs[k][i]
  BY <1>7, <1>15
<1> HIDE DEF m
<1> QED BY <1>2, <1>16, <1>17

\* What a query of one keyword answers.
Answer(lanes, k, store) == {m.file : m \in Found(lanes, k, store)}

\* A query answers with the files of its keyword, whichever store the nodes
\* of the forest are read from.
LEMMA AnswerIs ==
    ASSUME NEW recs, GoodRecords(recs), NEW lanes, lanes = Forest(recs), NEW store,
           \A l \in ToSet(lanes) : Below(l) \subseteq store, NEW k \in Keys
    PROVE  Answer(lanes, k, store) = ToSet(recs[k])
<1>1. ToSet(lanes) = {Lane(recs, i) : i \in 1 .. LaneCount(recs)}
  BY ForestIs
<1>2. ASSUME NEW m \in Found(lanes, k, store)
      PROVE  m.file \in ToSet(recs[k])
  <2>1. PICK i \in 1 .. LaneCount(recs) : m \in Matches(Lane(recs, i), k, store)
    BY <1>1 DEF Found
  <2> QED BY <2>1, MatchIs
<1>3. ASSUME NEW f \in ToSet(recs[k])
      PROVE  \E m \in Found(lanes, k, store) : m.file = f
  <2>1. PICK i \in 1 .. Len(recs[k]) : f = recs[k][i]
    BY GoodIs DEF ToSet
  <2> DEFINE r == Lane(recs, i)
  <2>2. Len(recs[k]) \in Nat /\ LaneCount(recs) \in Nat /\ Len(recs[k]) <= LaneCount(recs)
    BY GoodIs, LaneCountIs
  <2>3. r \in ToSet(lanes)
    BY <1>1, <2>2
  <2> HIDE DEF r
  <2>4. \E m \in Matches(r, k, store) : m.file = f
    BY <2>1, <2>3, FileMatched DEF r
  <2> QED BY <2>3, <2>4 DEF Found
<1> QED BY <1>2, <1>3 DEF Answer

\* Different indexes have different forests.
LEMMA OneIndex ==
    ASSUME NEW a, NEW b, GoodRecords(a), GoodRecords(b), Forest(a) = Forest(b)
    PROVE  a = b
<1> DEFINE lanes == Forest(a)
           store == UNION {Below(l) : l \in ToSet(lanes)}
<1>1. \A l \in ToSet(lanes) : Below(l) \subseteq store
  OBVIOUS
<1>2. lanes = Forest(a) /\ lanes = Forest(b)
  OBVIOUS
<1> HIDE DEF lanes, store
<1>3. AllOf(a) = AllOf(b)
  <2> DEFINE all == UNION {RecordsIn(Reached(l, store)) : l \in ToSet(lanes)}
  <2>1. all = AllOf(a)
    BY <1>1, <1>2, ForestRecords
  <2>2. all = AllOf(b)
    BY <1>1, <1>2, ForestRecords
  <2> HIDE DEF all
  <2> QED BY <2>1, <2>2
<1>4. IndexOf(AllOf(a)) = a /\ IndexOf(AllOf(b)) = b
  BY IndexOfAll
<1> QED BY <1>3, <1>4, Zenon

(***************************************************************************)
(* The abstract index                                                      *)
(***************************************************************************)

K == INSTANCE KeywordIndex WITH Keywords <- Keys, Fids <- Files, Segments <- SUBSET Keys

PostingsOf(recs) == [k \in Keys |-> ToSet(recs[k])]

\* What queries answer is what hydration would find.
IndexInv ==
    /\ confirmed \subseteq SUBSET Keys
    /\ index = PostingsOf(Hydrated)
    /\ dirty = {} /\ roots # <<>> => manifest = roots

\* The forest read after a step is that of the index hydrated then.
LEMMA HydratedNext == IInv' => (GoodRecords(Hydrated) /\ Lanes = Forest(Hydrated))'
<1>1. IInv => GoodRecords(Hydrated) /\ Lanes = Forest(Hydrated)
  BY HydratedIs
<1> QED BY <1>1, PTL

\* The index there is after a request, given the lanes there are.
LEMMA HydratedAs ==
    ASSUME IInv', NEW recs, GoodRecords(recs), Lanes' = Forest(recs)
    PROVE  Hydrated' = recs
<1> DEFINE a == Hydrated'
<1>1. GoodRecords(a) /\ Lanes' = Forest(a)
  BY HydratedNext
<1> HIDE DEF a
<1>2. a = recs
  BY <1>1, OneIndex
<1> QED BY <1>2 DEF a

\* The postings of a sorted index are sets of files.
LEMMA PostingsIs ==
    ASSUME NEW recs, GoodRecords(recs)
    PROVE  PostingsOf(recs) \in K!Postings /\ \A k \in Keys : PostingsOf(recs)[k] = ToSet(recs[k])
<1>1. \A k \in Keys : ToSet(recs[k]) \in SUBSET Files
  BY GoodIs
<1> QED BY <1>1 DEF PostingsOf, K!Postings

\* Queries of a forest answer with the postings of its index.
LEMMA AnsweredAs ==
    ASSUME NEW recs, GoodRecords(recs), NEW lanes, lanes = Forest(recs), NEW store,
           \A l \in ToSet(lanes) : Below(l) \subseteq store, Answering(lanes, store)
    PROVE  index' = PostingsOf(recs)
<1>1. \A k \in Keys : Answer(lanes, k, store) = ToSet(recs[k])
  BY AnswerIs
<1>2. index' = [k \in Keys |-> Answer(lanes, k, store)]
  BY DEF Answering, Answer
<1>3. [k \in Keys |-> Answer(lanes, k, store)] = [k \in Keys |-> ToSet(recs[k])]
  BY <1>1
<1> QED BY <1>2, <1>3 DEF PostingsOf

\* The same of the lanes in memory.
LEMMA InMemoryAnswers ==
    ASSUME NEW recs, GoodRecords(recs), NEW lanes, lanes = Forest(recs), NEW touched,
           InMemory(recs, lanes, touched)
    PROVE  index' = PostingsOf(recs)
<1> DEFINE store == UNION {Below(l) : l \in ToSet(lanes)}
<1>1. \A l \in ToSet(lanes) : Below(l) \subseteq store
  OBVIOUS
<1>2. Answering(lanes, store)
  BY DEF InMemory
<1> HIDE DEF store
<1> QED BY <1>1, <1>2, AnsweredAs

\* After a change in memory alone.
LEMMA IndexInMemory ==
    ASSUME IInv', NEW recs, GoodRecords(recs), NEW lanes, lanes = Forest(recs), NEW touched,
           InMemory(recs, lanes, touched), lanes = <<>> => manifest' = lanes,
           touched = {} /\ lanes # <<>> => manifest' = lanes,
           confirmed' \subseteq SUBSET Keys
    PROVE  IndexInv' /\ index' = PostingsOf(recs)
<1>1. roots' = lanes /\ dirty' = touched
  BY DEF InMemory
<1>2. Lanes' = lanes
  BY <1>1 DEF Lanes
<1>3. Hydrated' = recs
  BY <1>2, HydratedAs
<1>4. index' = PostingsOf(recs)
  BY InMemoryAnswers
<1>5. (PostingsOf(Hydrated))' = PostingsOf(recs)
  BY <1>3 DEF PostingsOf
<1> QED BY <1>1, <1>4, <1>5 DEF IndexInv

\* After a change that is written at once.
LEMMA IndexSynced ==
    ASSUME IInv', NEW recs, GoodRecords(recs), NEW lanes, lanes = Forest(recs), NEW touched,
           Synced(recs, lanes, touched), confirmed' \subseteq SUBSET Keys
    PROVE  IndexInv' /\ index' = PostingsOf(recs)
<1>1. InMemory(recs, lanes, {}) /\ manifest' = lanes
  BY DEF Synced
<1> QED BY <1>1, IndexInMemory

\* After the whole forest is built from pairs.
LEMMA IndexRebuilt ==
    ASSUME IInv', NEW pairs, RebuiltFrom(pairs), confirmed' \subseteq SUBSET Keys
    PROVE  /\ IndexInv' /\ index' \in K!Postings
           /\ \A k \in Keys : index'[k] = {f \in Files : <<k, f>> \in pairs}
<1> DEFINE recs == IndexOf(pairs)
           lanes == Forest(recs)
<1>1. GoodRecords(recs) /\ \A k \in Keys : ToSet(recs[k]) = {f \in Files : <<k, f>> \in pairs}
  BY IndexOfIs
<1>2. Synced(recs, lanes, DOMAIN lanes)
  BY DEF RebuiltFrom
<1> HIDE DEF recs
<1>3. lanes = Forest(recs)
  OBVIOUS
<1> HIDE DEF lanes
<1>4. IndexInv' /\ index' = PostingsOf(recs)
  BY <1>1, <1>2, <1>3, IndexSynced
<1> QED BY <1>1, <1>4, PostingsIs

\* all_records gives what queries answer.
LEMMA AllAre ==
    ASSUME IInv, IndexInv
    PROVE  /\ index \in K!Postings
           /\ \A k \in Keys : index[k] = ToSet(Hydrated[k])
           /\ \A k \in Keys, f \in Files : <<k, f>> \in AllRecords <=> f \in index[k]
           /\ \A p : \A k \in Keys, f \in Files :
                 <<k, f>> \in Outside(p) <=> f \in index[k] /\ k \notin p
<1>1. GoodRecords(Hydrated) /\ AllRecords = AllOf(Hydrated)
  BY HydratedIs
<1>2. index = PostingsOf(Hydrated)
  BY DEF IndexInv
<1> DEFINE recs == Hydrated
<1> HIDE DEF recs
<1>3. GoodRecords(recs) /\ AllRecords = AllOf(recs) /\ index = PostingsOf(recs)
  BY <1>1, <1>2 DEF recs
<1>4. index \in K!Postings /\ \A k \in Keys : index[k] = ToSet(recs[k])
  BY <1>3, PostingsIs
<1>5. \A k \in Keys, f \in Files : <<k, f>> \in AllRecords <=> f \in index[k]
  BY <1>3, <1>4 DEF AllOf
<1>6. \A p : \A k \in Keys, f \in Files : <<k, f>> \in Outside(p) <=> f \in index[k] /\ k \notin p
  BY <1>5 DEF Outside
<1> QED BY <1>4, <1>5, <1>6 DEF recs

\* Two postings are the same when they are so keyword by keyword.
LEMMA SamePostings ==
    ASSUME NEW a \in K!Postings, NEW b \in K!Postings, \A k \in Keys : a[k] = b[k]
    PROVE  a = b
BY DEF K!Postings

\* add is the abstract add.
LEMMA AddAbstract ==
    ASSUME IInv, IndexInv, IInv', NEW k \in Keys, NEW f \in Files, Add(k, f)
    PROVE  IndexInv' /\ K!Next
<1> DEFINE r == [kind |-> "add", keyword |-> k, fid |-> f]
<1>1. op' = r /\ manifest' = manifest /\ confirmed' \subseteq SUBSET Keys
  BY DEF Add, Served, IndexInv
<1>2. /\ index \in K!Postings /\ \A q \in Keys : index[q] = ToSet(Hydrated[q])
  BY AllAre
<1>3. PICK recs :
        /\ GoodRecords(recs) /\ IndexInv' /\ index' = PostingsOf(recs)
        /\ ToSet(recs[k]) = ToSet(Hydrated[k]) \cup {f}
        /\ \A q \in Keys \ {k} : ToSet(recs[q]) = ToSet(Hydrated[q])
  <2>1. CASE f \in ToSet(Hydrated[k])
    <3> DEFINE lanes == HydratedRoots
    <3>1. InMemory(Hydrated, lanes, dirty)
      BY <2>1 DEF Add
    <3>2. GoodRecords(Hydrated) /\ lanes = Forest(Hydrated) /\ lanes = Lanes
      BY HydratedIs
    <3> HIDE DEF lanes
    <3>3. (lanes = <<>> => manifest' = lanes) /\ (dirty = {} /\ lanes # <<>> => manifest' = lanes)
      BY <1>1, <3>2 DEF Lanes, IndexInv
    <3>4. IndexInv' /\ index' = PostingsOf(Hydrated)
      BY <1>1, <3>1, <3>2, <3>3, IndexInMemory
    <3> QED BY <2>1, <3>2, <3>4
  <2>2. CASE f \notin ToSet(Hydrated[k])
    <3> DEFINE recs    == RecordsWith(k, f)
               start   == StartOf(k, f)
               touched == dirty \cup start .. LaneCount(recs)
               lanes   == Forest(recs)
    <3>1. InMemory(recs, Rebuilt(HydratedRoots, recs, start), touched)
      BY <2>2 DEF Add, With, RecordsWith, StartOf
    <3>2. /\ Changed(recs, start, k)
          /\ start \in 1 .. LaneCount(recs)
          /\ ToSet(recs[k]) = ToSet(Hydrated[k]) \cup {f}
      BY <2>2, Added
    <3> HIDE DEF recs, start
    <3>3. /\ GoodRecords(recs) /\ Rebuilt(HydratedRoots, recs, start) = lanes
          /\ start \in 1 .. LaneCount(recs)
          /\ ToSet(recs[k]) = ToSet(Hydrated[k]) \cup {f}
          /\ \A q \in Keys \ {k} : recs[q] = Hydrated[q]
      BY <3>2 DEF Changed
    <3>4. LaneCount(recs) \in Nat /\ (lanes = <<>> <=> LaneCount(recs) = 0)
      BY <3>3, ForestIs
    <3>5. lanes # <<>> /\ touched # {}
      BY <3>3, <3>4
    <3>6. lanes = Forest(recs)
      OBVIOUS
    <3> HIDE DEF lanes, touched
    <3>7. InMemory(recs, lanes, touched)
      BY <3>1, <3>3
    <3>8. IndexInv' /\ index' = PostingsOf(recs)
      BY <1>1, <3>3, <3>5, <3>6, <3>7, IndexInMemory
    <3>9. \A q \in Keys \ {k} : ToSet(recs[q]) = ToSet(Hydrated[q])
      BY <3>3
    <3> QED BY <3>3, <3>8, <3>9
  <2> QED BY <2>1, <2>2
<1>4. index' \in K!Postings /\ \A q \in Keys : index'[q] = ToSet(recs[q])
  BY <1>3, PostingsIs
<1> DEFINE new == [index EXCEPT ![k] = @ \cup {f}]
<1>5. new \in K!Postings /\ \A q \in Keys : new[q] = IF q = k THEN index[k] \cup {f} ELSE index[q]
  BY <1>2 DEF K!Postings
<1>6. K!Applied(r) = new
  BY DEF K!Applied
<1>7. r \in K!Requests /\ r.kind # "crash"
  BY DEF K!Requests
<1> HIDE DEF new, r
<1>8. \A q \in Keys : index'[q] = new[q]
  BY <1>2, <1>3, <1>4, <1>5
<1>9. index' = new
  BY <1>4, <1>5, <1>8, SamePostings
<1> QED BY <1>1, <1>3, <1>4, <1>6, <1>7, <1>9 DEF K!Next

\* delete is the abstract delete.
LEMMA DeleteAbstract ==
    ASSUME IInv, IndexInv, IInv', NEW k \in Keys, NEW f \in Files, Delete(k, f)
    PROVE  IndexInv' /\ K!Next
<1> DEFINE r == [kind |-> "delete", keyword |-> k, fid |-> f]
<1>1. op' = r /\ confirmed' \subseteq SUBSET Keys
  BY DEF Delete, Served, IndexInv
<1>2. /\ index \in K!Postings /\ \A q \in Keys : index[q] = ToSet(Hydrated[q])
  BY AllAre
<1>3. PICK recs :
        /\ GoodRecords(recs) /\ IndexInv' /\ index' = PostingsOf(recs)
        /\ ToSet(recs[k]) = ToSet(Hydrated[k]) \ {f}
        /\ \A q \in Keys \ {k} : ToSet(recs[q]) = ToSet(Hydrated[q])
  <2>1. CASE f \notin ToSet(Hydrated[k])
    <3> DEFINE lanes == HydratedRoots
    <3>1. InMemory(Hydrated, lanes, dirty) /\ manifest' = manifest
      BY <2>1 DEF Delete
    <3>2. GoodRecords(Hydrated) /\ lanes = Forest(Hydrated) /\ lanes = Lanes
      BY HydratedIs
    <3> HIDE DEF lanes
    <3>3. (lanes = <<>> => manifest' = lanes) /\ (dirty = {} /\ lanes # <<>> => manifest' = lanes)
      BY <3>1, <3>2 DEF Lanes, IndexInv
    <3>4. IndexInv' /\ index' = PostingsOf(Hydrated)
      BY <1>1, <3>1, <3>2, <3>3, IndexInMemory
    <3> QED BY <2>1, <3>2, <3>4
  <2>2. CASE f \in ToSet(Hydrated[k])
    <3> DEFINE recs    == RecordsWithout(k, f)
               start   == StartOf(k, f)
               touched == dirty \cup start .. LaneCount(recs)
    <3>1. Synced(recs, Rebuilt(HydratedRoots, recs, start), touched)
      BY <2>2 DEF Delete, With, RecordsWithout, StartOf
    <3>2. /\ Changed(recs, start, k)
          /\ ToSet(recs[k]) = ToSet(Hydrated[k]) \ {f}
      BY <2>2, Deleted
    <3> HIDE DEF recs, start
    <3>3. /\ GoodRecords(recs) /\ Rebuilt(HydratedRoots, recs, start) = Forest(recs)
          /\ ToSet(recs[k]) = ToSet(Hydrated[k]) \ {f}
          /\ \A q \in Keys \ {k} : recs[q] = Hydrated[q]
      BY <3>2 DEF Changed
    <3> HIDE DEF touched
    <3>4. IndexInv' /\ index' = PostingsOf(recs)
      BY <1>1, <3>1, <3>3, IndexSynced
    <3>5. \A q \in Keys \ {k} : ToSet(recs[q]) = ToSet(Hydrated[q])
      BY <3>3
    <3> QED BY <3>3, <3>4, <3>5
  <2> QED BY <2>1, <2>2
<1>4. index' \in K!Postings /\ \A q \in Keys : index'[q] = ToSet(recs[q])
  BY <1>3, PostingsIs
<1> DEFINE new == [index EXCEPT ![k] = @ \ {f}]
<1>5. new \in K!Postings /\ \A q \in Keys : new[q] = IF q = k THEN index[k] \ {f} ELSE index[q]
  BY <1>2 DEF K!Postings
<1>6. K!Applied(r) = new
  BY DEF K!Applied
<1>7. r \in K!Requests /\ r.kind # "crash"
  BY DEF K!Requests
<1> HIDE DEF new, r
<1>8. \A q \in Keys : index'[q] = new[q]
  BY <1>2, <1>3, <1>4, <1>5
<1>9. index' = new
  BY <1>4, <1>5, <1>8, SamePostings
<1> QED BY <1>1, <1>3, <1>4, <1>6, <1>7, <1>9 DEF K!Next

\* add_batch is the abstract batch.
LEMMA AddBatchAbstract ==
    ASSUME IInv, IndexInv, IInv', NEW b \in Batches, AddBatch(b)
    PROVE  IndexInv' /\ K!Next
<1> DEFINE r == [kind |-> "add_batch", pairs |-> b]
           all == AllRecords \cup b
<1>1. op' = r /\ RebuiltFrom(all) /\ confirmed' \subseteq SUBSET Keys
  BY DEF AddBatch, Served, IndexInv
<1>2. \A k \in Keys, f \in Files : <<k, f>> \in all <=> f \in index[k] \/ <<k, f>> \in b
  BY AllAre
<1> HIDE DEF all
<1>3. /\ IndexInv' /\ index' \in K!Postings
      /\ \A k \in Keys : index'[k] = {f \in Files : <<k, f>> \in all}
  BY <1>1, IndexRebuilt
<1>4. index \in K!Postings
  BY AllAre
<1> DEFINE new == [k \in Keys |-> index[k] \cup {f \in Files : <<k, f>> \in b}]
<1>5. new \in K!Postings /\ \A k \in Keys : new[k] = index[k] \cup {f \in Files : <<k, f>> \in b}
  BY <1>4 DEF K!Postings
<1>6. K!Applied(r) = new
  BY DEF K!Applied
<1>7. r \in K!Requests /\ r.kind # "crash"
  BY InputAssumption DEF K!Requests
<1> HIDE DEF new, r
<1>8. ASSUME NEW k \in Keys
      PROVE  index'[k] = new[k]
  <2>1. index[k] \subseteq Files
    BY <1>4 DEF K!Postings
  <2> QED BY <1>2, <1>3, <1>5, <2>1
<1>9. index' = new
  BY <1>3, <1>5, <1>8, SamePostings
<1> QED BY <1>1, <1>3, <1>6, <1>7, <1>9 DEF K!Next

\* import_prefix_segment is the abstract import.
LEMMA ImportAbstract ==
    ASSUME IInv, IndexInv, IInv', NEW p \in MigratedPrefixes, NEW pairs, Import(p, pairs)
    PROVE  IndexInv' /\ K!Next
<1> DEFINE got == [k \in Keys |-> {f \in Files : <<k, f>> \in pairs}]
           r   == [kind |-> "import", records |-> got]
           all == Outside(p) \cup pairs
<1>1. /\ op' = r /\ RebuiltFrom(all) /\ confirmed' \subseteq SUBSET Keys
      /\ AllRecords \ Outside(p) \subseteq pairs
  BY DEF Import, Served, IndexInv
<1>2. \A k \in Keys, f \in Files : <<k, f>> \in all <=> f \in index[k] \/ <<k, f>> \in pairs
  BY <1>1, AllAre
<1> HIDE DEF all
<1>3. /\ IndexInv' /\ index' \in K!Postings
      /\ \A k \in Keys : index'[k] = {f \in Files : <<k, f>> \in all}
  BY <1>1, IndexRebuilt
<1>4. index \in K!Postings
  BY AllAre
<1>5. got \in K!Postings /\ \A k \in Keys : got[k] = {f \in Files : <<k, f>> \in pairs}
  BY DEF K!Postings
<1> HIDE DEF got
<1> DEFINE new == [k \in Keys |-> index[k] \cup got[k]]
<1>6. new \in K!Postings /\ \A k \in Keys : new[k] = index[k] \cup got[k]
  BY <1>4, <1>5 DEF K!Postings
<1>7. K!Applied(r) = new
  BY DEF K!Applied
<1>8. r \in K!Requests /\ r.kind # "crash"
  BY <1>5 DEF K!Requests
<1> HIDE DEF new, r
<1>9. ASSUME NEW k \in Keys
      PROVE  index'[k] = new[k]
  <2>1. index[k] \subseteq Files
    BY <1>4 DEF K!Postings
  <2> QED BY <1>2, <1>3, <1>5, <1>6, <2>1
<1>10. index' = new
  BY <1>3, <1>6, <1>9, SamePostings
<1> QED BY <1>1, <1>3, <1>7, <1>8, <1>10 DEF K!Next

\* A segment is taken out: drain, and the confirmation that is the last.
LEMMA RemovedAbstract ==
    ASSUME IInv, IndexInv, IInv', NEW gone \in SUBSET Keys, RebuiltFrom(Outside(gone)),
           confirmed' \subseteq SUBSET Keys, NEW kind \in {"drain", "confirm"},
           op' = [kind |-> kind, segment |-> gone]
    PROVE  IndexInv' /\ K!Next
<1> DEFINE r == [kind |-> kind, segment |-> gone]
           all == Outside(gone)
<1>1. op' = r /\ RebuiltFrom(all)
  OBVIOUS
<1>2. \A k \in Keys, f \in Files : <<k, f>> \in all <=> f \in index[k] /\ k \notin gone
  BY AllAre
<1> HIDE DEF all
<1>3. /\ IndexInv' /\ index' \in K!Postings
      /\ \A k \in Keys : index'[k] = {f \in Files : <<k, f>> \in all}
  BY <1>1, IndexRebuilt
<1>4. index \in K!Postings
  BY AllAre
<1> DEFINE new == [k \in Keys |-> IF k \in gone THEN {} ELSE index[k]]
<1>5. new \in K!Postings /\ \A k \in Keys : new[k] = IF k \in gone THEN {} ELSE index[k]
  BY <1>4 DEF K!Postings
<1>6. K!Applied(r) = new
  BY DEF K!Applied
<1>7. r \in K!Requests /\ r.kind # "crash"
  BY DEF K!Requests
<1> HIDE DEF new, r
<1>8. ASSUME NEW k \in Keys
      PROVE  index'[k] = new[k]
  <2>1. index[k] \subseteq Files
    BY <1>4 DEF K!Postings
  <2> QED BY <1>2, <1>3, <1>5, <2>1
<1>9. index' = new
  BY <1>3, <1>5, <1>8, SamePostings
<1> QED BY <1>1, <1>3, <1>6, <1>7, <1>9 DEF K!Next

\* What changes the retained and the confirmed prefixes alone.
LEMMA MarkedAbstract ==
    ASSUME IInv, IndexInv, UNCHANGED <<records, roots, dirty, nodes, manifest, index>>,
           confirmed' \subseteq SUBSET Keys,
           \/ \E p \in MigratedPrefixes : op' = [kind |-> "prepare", segment |-> p]
           \/ op' = [kind |-> "refused"]
           \/ op' = [kind |-> "deferred"]
    PROVE  IndexInv' /\ K!Next
<1>1. Hydrated' = Hydrated
  BY DEF Hydrated, StoredRecords, Stored
<1>2. IndexInv'
  BY <1>1 DEF IndexInv, PostingsOf
<1>3. index' \in K!Postings
  BY AllAre
<1> DEFINE r == op'
<1>4. \/ \E p \in SUBSET Keys : r = [kind |-> "prepare", segment |-> p]
      \/ r = [kind |-> "refused"]
      \/ r = [kind |-> "deferred"]
  BY InputAssumption
<1> HIDE DEF r
<1>5. r \in K!Requests /\ r.kind \in {"prepare", "refused", "deferred"}
  BY <1>4 DEF K!Requests
<1>6. K!Applied(r) = index /\ r.kind # "crash"
  BY <1>5 DEF K!Applied
<1> QED BY <1>2, <1>3, <1>5, <1>6 DEF K!Next, r

\* reset is the abstract reset.
LEMMA ResetAbstract ==
    ASSUME IInv, IndexInv, IInv', Reset
    PROVE  IndexInv' /\ K!Next
<1> DEFINE r == [kind |-> "reset"]
<1>1. op' = r /\ InMemory(NoRecords, <<>>, {}) /\ manifest' = <<>> /\ confirmed' = {}
  BY DEF Reset, Served
<1>2. GoodRecords(NoRecords) /\ Forest(NoRecords) = <<>>
  BY NothingIsGood
<1> DEFINE lanes == <<>>
<1>3. lanes = Forest(NoRecords) /\ InMemory(NoRecords, lanes, {}) /\ manifest' = lanes
  BY <1>1, <1>2
<1> HIDE DEF lanes
<1>4. IndexInv' /\ index' = PostingsOf(NoRecords)
  BY <1>1, <1>2, <1>3, IndexInMemory
<1>5. index' \in K!Postings /\ \A k \in Keys : index'[k] = ToSet(NoRecords[k])
  BY <1>2, <1>4, PostingsIs
<1>6. \A k \in Keys : ToSet(NoRecords[k]) = {}
  BY DEF NoRecords, ToSet
<1>7. K!Nothing \in K!Postings /\ \A k \in Keys : K!Nothing[k] = {}
  BY DEF K!Nothing, K!Postings
<1>8. index' = K!Nothing
  <2> DEFINE none == K!Nothing
             new  == index'
  <2>1. /\ none \in K!Postings /\ new \in K!Postings
        /\ \A k \in Keys : new[k] = none[k]
    BY <1>5, <1>6, <1>7
  <2> HIDE DEF none, new
  <2>2. new = none
    BY <2>1, SamePostings
  <2> QED BY <2>2 DEF none, new
<1>9. K!Applied(r) = K!Nothing
  BY DEF K!Applied
<1>10. r \in K!Requests /\ r.kind # "crash"
  BY DEF K!Requests
<1> HIDE DEF r
<1> QED BY <1>1, <1>4, <1>5, <1>8, <1>9, <1>10 DEF K!Next

\* A restart with every lane written.
LEMMA RestartAbstract ==
    ASSUME IInv, IndexInv, IInv', <<"unsynced", "restart">> \notin Explored, Restart
    PROVE  IndexInv' /\ K!Next
<1> DEFINE r == [kind |-> "restart"]
<1>1. /\ op' = r /\ <<Phase, "restart">> \in Explored
      /\ roots' = <<>> /\ manifest' = manifest /\ dirty' = {} /\ confirmed' = {}
      /\ Answering(manifest, nodes)
  BY DEF Restart, Served, Serving
<1>2. dirty = {}
  BY <1>1 DEF Phase
<1>3. manifest = Lanes
  BY <1>2 DEF IndexInv, Lanes
<1> DEFINE recs == Hydrated
<1>4. GoodRecords(recs) /\ manifest = Forest(recs)
  BY <1>3, HydratedIs
<1>5. index = PostingsOf(recs) /\ index \in K!Postings
  BY AllAre DEF IndexInv
<1> HIDE DEF recs
<1>6. \A l \in ToSet(manifest) : Below(l) \subseteq nodes
  BY DEF IInv, CleanLanesStored
<1>7. index' = PostingsOf(recs)
  BY <1>1, <1>4, <1>6, AnsweredAs
<1>8. Lanes' = Forest(recs)
  BY <1>1, <1>4 DEF Lanes
<1>9. Hydrated' = recs
  BY <1>4, <1>8, HydratedAs
<1>10. IndexInv'
  BY <1>1, <1>7, <1>9 DEF IndexInv, PostingsOf
<1>11. K!Applied(r) = index
  BY DEF K!Applied
<1>12. r \in K!Requests /\ r.kind # "crash"
  BY DEF K!Requests
<1> HIDE DEF r
<1> QED BY <1>1, <1>5, <1>7, <1>10, <1>11, <1>12 DEF K!Next

\* Every step is one of the abstract index, or none.
LEMMA StepAbstract ==
    ASSUME IInv, IndexInv, IInv', <<"unsynced", "restart">> \notin Explored, [Next]_vars
    PROVE  IndexInv' /\ [K!Next]_<<index, op>>
<1>1. ASSUME NEW k \in Keys, NEW f \in Files, Add(k, f) \/ Delete(k, f)
      PROVE  IndexInv' /\ K!Next
  BY <1>1, AddAbstract, DeleteAbstract
<1>2. ASSUME NEW b \in Batches, AddBatch(b)
      PROVE  IndexInv' /\ K!Next
  BY <1>2, AddBatchAbstract
<1>3. ASSUME NEW p \in MigratedPrefixes, NEW s \in Segments, Import(p, {r \in s : r[1] \in p})
      PROVE  IndexInv' /\ K!Next
  <2> DEFINE pairs == {r \in s : r[1] \in p}
  <2>1. Import(p, pairs)
    BY <1>3
  <2> HIDE DEF pairs
  <2> QED BY <2>1, ImportAbstract
<1>4. ASSUME NEW p \in MigratedPrefixes, Drain(p)
      PROVE  IndexInv' /\ K!Next
  <2>1. /\ RebuiltFrom(Outside(p)) /\ confirmed' = confirmed
        /\ op' = [kind |-> "drain", segment |-> p]
    BY <1>4 DEF Drain, Served
  <2>2. p \in SUBSET Keys /\ confirmed' \subseteq SUBSET Keys
    BY <2>1, InputAssumption DEF IndexInv
  <2> QED BY <2>1, <2>2, RemovedAbstract
<1>5. ASSUME NEW p \in MigratedPrefixes, ConfirmLast(p)
      PROVE  IndexInv' /\ K!Next
  <2> DEFINE gone == UNION (confirmed \cup {p})
  <2>1. /\ RebuiltFrom(Outside(gone)) /\ confirmed' = {}
        /\ op' = [kind |-> "confirm", segment |-> gone]
    BY <1>5 DEF ConfirmLast, Served
  <2>2. gone \in SUBSET Keys /\ confirmed' \subseteq SUBSET Keys
    BY <2>1, InputAssumption DEF IndexInv
  <2> HIDE DEF gone
  <2> QED BY <2>1, <2>2, RemovedAbstract
<1>6. ASSUME NEW p \in MigratedPrefixes, Prepare(p) \/ ConfirmRefused(p) \/ ConfirmDeferred(p)
      PROVE  IndexInv' /\ K!Next
  <2>1. UNCHANGED <<records, roots, dirty, nodes, manifest, index>>
    BY <1>6 DEF Prepare, ConfirmRefused, ConfirmDeferred
  <2>2. confirmed' \subseteq SUBSET Keys
    <3>1. confirmed \subseteq SUBSET Keys /\ p \in SUBSET Keys
      BY InputAssumption DEF IndexInv
    <3>2. confirmed' \subseteq confirmed \cup {p}
      BY <1>6 DEF Prepare, ConfirmRefused, ConfirmDeferred
    <3> QED BY <3>1, <3>2
  <2>3. \/ op' = [kind |-> "prepare", segment |-> p]
        \/ op' = [kind |-> "refused"]
        \/ op' = [kind |-> "deferred"]
    BY <1>6 DEF Prepare, ConfirmRefused, ConfirmDeferred, Served
  <2> QED BY <2>1, <2>2, <2>3, MarkedAbstract
<1>7. CASE Reset
  BY <1>7, ResetAbstract
<1>8. CASE Restart
  BY <1>8, RestartAbstract
<1>9. CASE UNCHANGED vars
  <2>1. Hydrated' = Hydrated
    BY <1>9 DEF vars, Hydrated, StoredRecords, Stored
  <2> QED BY <1>9, <2>1 DEF vars, IndexInv, PostingsOf
<1> QED BY <1>1, <1>2, <1>3, <1>4, <1>5, <1>6, <1>7, <1>8, <1>9 DEF Next

\* The index starts as the abstract one does.
LEMMA InitAbstract == Init => IndexInv /\ K!Init
<1> SUFFICES ASSUME Init PROVE IndexInv /\ K!Init
  OBVIOUS
<1>1. /\ roots = <<>> /\ manifest = <<>> /\ confirmed = {}
      /\ index = [k \in Keys |-> {}] /\ op = [kind |-> "none"]
  BY DEF Init
<1>2. Lanes = Forest(NoRecords) /\ GoodRecords(NoRecords)
  BY <1>1, NothingIsGood DEF Lanes
<1>3. GoodRecords(Hydrated) /\ Lanes = Forest(Hydrated)
  BY InitHolds, HydratedIs
<1>4. Hydrated = NoRecords
  <2> DEFINE a == Hydrated
  <2>1. GoodRecords(a) /\ Forest(a) = Forest(NoRecords)
    BY <1>2, <1>3
  <2> HIDE DEF a
  <2>2. a = NoRecords
    BY <1>2, <2>1, OneIndex
  <2> QED BY <2>2 DEF a
<1>5. PostingsOf(NoRecords) = [k \in Keys |-> {}]
  <2>1. \A k \in Keys : ToSet(NoRecords[k]) = {}
    BY DEF NoRecords, ToSet
  <2> QED BY <2>1 DEF PostingsOf
<1>6. IndexInv
  BY <1>1, <1>4, <1>5 DEF IndexInv
<1>7. K!Init
  BY <1>1 DEF K!Init, K!Nothing
<1> QED BY <1>6, <1>7

\* A query answers with what the requests put into the index, across the
\* restarts that find every lane written: what KeywordIndex promises.
THEOREM TreeImplements ==
    ASSUME <<"unsynced", "restart">> \notin Explored
    PROVE  Spec => K!Spec
<1>1. IndexInv /\ IInv /\ IInv' /\ [Next]_vars => IndexInv' /\ [K!Next]_<<index, op>>
  BY StepAbstract
<1> QED BY <1>1, InitAbstract, Invariance, PTL DEF Spec, K!Spec
=============================================================================
