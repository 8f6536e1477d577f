-------------------------- MODULE SetAlgebra_proof --------------------------
(***************************************************************************)
(* Theorems about the proofs of boolean answers, for any files and any     *)
(* trees.  A tree is a set of nodes, each inner one higher than its two    *)
(* children (ProofTree); the set of files its leaves and operators stand   *)
(* for is that of every node in turn (StandFor).                           *)
(*                                                                         *)
(* Induction goes up the heights, by the least height at which a claim     *)
(* would fail (NoLeastFailure).  A node multiplies a common part with two  *)
(* coprime quotients, so the common part is the minimum of the two sides   *)
(* and the product their maximum (CommonIsMeet), whatever numbers of times *)
(* a file is in a leaf.                                                    *)
(***************************************************************************)
EXTENDS SetAlgebra, FiniteSetTheorems, SequenceTheorems, WellFoundedInduction, TLAPS

\* A polynomial: how often every file is a factor.
Polynomials == [Fids -> Nat]
Factors(p) == {f \in Fids : p[f] # 0}

\* The nodes of a proof, and their heights.
ProofTree(T, height) ==
    /\ height \in [T -> Nat]
    /\ \A n \in T : n.op \in {"leaf", "and", "or"}
    /\ \A n \in T : n.op # "leaf" =>
         /\ n.left \in T /\ n.right \in T
         /\ height[n.left] < height[n] /\ height[n.right] < height[n]

\* The files the nodes stand for: those listed by a leaf, those both children
\* have, those one of them has.
StandFor(T, files) ==
    /\ files \in [T -> SUBSET Fids]
    /\ \A n \in T :
         /\ n.op = "leaf" => n.fids \in Seq(Fids) /\ files[n] = ToSet(n.fids)
         /\ n.op = "and" => files[n] = files[n.left] \cap files[n.right]
         /\ n.op = "or" => files[n] = files[n.left] \cup files[n.right]

\* A claim that holds of a node when it holds of all lower ones holds of all.
LEMMA NoLeastFailure ==
    ASSUME NEW T, NEW height \in [T -> Nat], NEW Good,
           \A n \in T : (\A m \in T : height[m] < height[n] => m \in Good) => n \in Good
    PROVE  T \subseteq Good
<1> DEFINE R == {ss \in Nat \X Nat : ss[1] < ss[2]}
           Missed == {height[n] : n \in T \ Good}
<1>1. IsWellFoundedOn(R, Nat)
  BY NatLessThanWellFounded DEF OpToRel
<1>2. Missed \subseteq Nat
  OBVIOUS
<1>3. ASSUME Missed # {}
      PROVE  FALSE
  <2>1. PICK h \in Missed : \A g \in Missed : ~(<<g, h>> \in R)
    <3> HIDE DEF R, Missed
    <3> QED BY <1>1, <1>2, <1>3, WFMin
  <2>2. PICK n \in T \ Good : h = height[n]
    OBVIOUS
  <2>3. ASSUME NEW m \in T, height[m] < height[n]
        PROVE  m \in Good
    <3>1. <<height[m], h>> \in R
      BY <2>2, <2>3
    <3>2. CASE m \notin Good
      BY <2>1, <3>1, <3>2
    <3> QED BY <3>2
  <2> QED BY <2>2, <2>3
<1> QED BY <1>3

(***************************************************************************)
(* Leaves                                                                  *)
(***************************************************************************)

\* The factors of a list's polynomial are the files in the list, each once if
\* the list has none twice.
LEMMA LeafFactors ==
    ASSUME NEW fids \in Seq(Fids)
    PROVE  /\ Characteristic(fids) \in Polynomials
           /\ Factors(Characteristic(fids)) = ToSet(fids)
           /\ IsInjective(fids) => Characteristic(fids) = OfSet(ToSet(fids))
<1> DEFINE At(f) == {i \in DOMAIN fids : fids[i] = f}
<1>1. Len(fids) \in Nat /\ DOMAIN fids = 1 .. Len(fids)
  BY LenProperties
<1>2. \A f \in Fids : IsFiniteSet(At(f)) /\ Cardinality(At(f)) \in Nat
  <2>1. IsFiniteSet(DOMAIN fids)
    BY <1>1, FS_Interval
  <2>2. \A f \in Fids : At(f) \subseteq DOMAIN fids
    OBVIOUS
  <2> HIDE DEF At
  <2> QED BY <2>1, <2>2, FS_Subset, FS_CardinalityType
<1>3. \A f \in Fids : Cardinality(At(f)) = 0 <=> f \notin ToSet(fids)
  <2>1. \A f \in Fids : At(f) = {} <=> f \notin ToSet(fids)
    BY <1>1 DEF ToSet
  <2> HIDE DEF At
  <2> QED BY <1>2, <2>1, FS_EmptySet
<1>4. \A f \in Fids : Characteristic(fids)[f] = Cardinality(At(f))
  BY DEF Characteristic
<1>5. Characteristic(fids) \in Polynomials
  <2>1. Characteristic(fids) = [f \in Fids |-> Cardinality(At(f))]
    BY DEF Characteristic
  <2> HIDE DEF At
  <2> QED BY <1>2, <2>1 DEF Polynomials
<1>6. Factors(Characteristic(fids)) = ToSet(fids)
  <2>1. ToSet(fids) \subseteq Fids
    BY <1>1 DEF ToSet
  <2> HIDE DEF At
  <2> QED BY <1>3, <1>4, <2>1 DEF Factors
<1>7. ASSUME IsInjective(fids)
      PROVE  Characteristic(fids) = OfSet(ToSet(fids))
  <2>1. ASSUME NEW f \in Fids, f \in ToSet(fids)
        PROVE  Cardinality(At(f)) = 1
    <3>1. PICK i \in DOMAIN fids : fids[i] = f
      BY <2>1 DEF ToSet
    <3>2. At(f) = {i}
      BY <1>7, <3>1 DEF IsInjective
    <3> QED BY <3>2, FS_Singleton
  <2>2. Characteristic(fids) = [f \in Fids |-> Cardinality(At(f))]
    BY DEF Characteristic
  <2>3. \A f \in Fids : Cardinality(At(f)) = IF f \in ToSet(fids) THEN 1 ELSE 0
    <3> HIDE DEF At
    <3> QED BY <1>3, <2>1
  <2> HIDE DEF At
  <2> QED BY <2>2, <2>3 DEF OfSet
<1> QED BY <1>5, <1>6, <1>7

(***************************************************************************)
(* Nodes                                                                   *)
(***************************************************************************)

\* With coprime quotients the common part is the minimum of the two sides, and
\* the product of all three their maximum.
LEMMA CommonIsMeet ==
    ASSUME NEW c \in Polynomials, NEW a \in Polynomials, NEW b \in Polynomials, Coprime(a, b)
    PROVE  /\ Times(c, a) \in Polynomials /\ Times(c, b) \in Polynomials
           /\ Times(c, Times(a, b)) \in Polynomials
           /\ Factors(c) = Factors(Times(c, a)) \cap Factors(Times(c, b))
           /\ Factors(Times(c, Times(a, b))) = Factors(Times(c, a)) \cup Factors(Times(c, b))
<1>1. \A f \in Fids : c[f] \in Nat /\ a[f] \in Nat /\ b[f] \in Nat /\ (a[f] = 0 \/ b[f] = 0)
  BY DEF Polynomials, Coprime
<1>2. \A f \in Fids : Times(c, a)[f] = c[f] + a[f] /\ Times(c, b)[f] = c[f] + b[f]
  BY DEF Times
<1>3. \A f \in Fids : Times(c, Times(a, b))[f] = c[f] + (a[f] + b[f])
  BY DEF Times
<1>4. Times(c, a) \in Polynomials /\ Times(c, b) \in Polynomials
  BY <1>1 DEF Times, Polynomials
<1>5. Times(c, Times(a, b)) \in Polynomials
  BY <1>1 DEF Times, Polynomials
<1>6. ASSUME NEW f \in Fids
      PROVE  /\ c[f] # 0 <=> Times(c, a)[f] # 0 /\ Times(c, b)[f] # 0
             /\ Times(c, Times(a, b))[f] # 0 <=> Times(c, a)[f] # 0 \/ Times(c, b)[f] # 0
  <2> DEFINE x == c[f]
             y == a[f]
             z == b[f]
  <2>1. x \in Nat /\ y \in Nat /\ z \in Nat /\ (y = 0 \/ z = 0)
    BY <1>1
  <2>2. /\ Times(c, a)[f] = x + y /\ Times(c, b)[f] = x + z
        /\ Times(c, Times(a, b))[f] = x + (y + z)
    BY <1>2, <1>3
  <2>3. c[f] = x
    OBVIOUS
  <2> HIDE DEF x, y, z
  <2>4. (x # 0 <=> x + y # 0 /\ x + z # 0) /\ (x + (y + z) # 0 <=> x + y # 0 \/ x + z # 0)
    BY <2>1
  <2> QED BY <2>2, <2>3, <2>4
<1>7. Factors(c) = Factors(Times(c, a)) \cap Factors(Times(c, b))
  BY <1>6, Zenon DEF Factors
<1>8. Factors(Times(c, Times(a, b))) = Factors(Times(c, a)) \cup Factors(Times(c, b))
  BY <1>6, Zenon DEF Factors
<1> QED BY <1>4, <1>5, <1>7, <1>8

\* The products of two sets, of what they share and of what is left of them.
LEMMA SetsSplit ==
    ASSUME NEW L \in SUBSET Fids, NEW R \in SUBSET Fids
    PROVE  LET common == OfSet(L \cap R)
               a == Quotient(OfSet(L), common)
               b == Quotient(OfSet(R), common)
           IN  /\ Splits(OfSet(L), OfSet(R), common)
               /\ OfSet(L) = Times(common, a) /\ OfSet(R) = Times(common, b)
               /\ OfSet(L \cup R) = Times(common, Times(a, b))
               /\ OfSet(L \cup R) = Times(OfSet(L), b)
<1> DEFINE common == OfSet(L \cap R)
           a == Quotient(OfSet(L), common)
           b == Quotient(OfSet(R), common)
<1>1. \A S : \A f \in Fids : OfSet(S)[f] = IF f \in S THEN 1 ELSE 0
  BY DEF OfSet
<1>2. \A f \in Fids : a[f] = (IF f \in L THEN 1 ELSE 0) - (IF f \in L \cap R THEN 1 ELSE 0)
  BY <1>1 DEF Quotient
<1>3. \A f \in Fids : b[f] = (IF f \in R THEN 1 ELSE 0) - (IF f \in L \cap R THEN 1 ELSE 0)
  BY <1>1 DEF Quotient
<1>4. \A f \in Fids : common[f] = IF f \in L \cap R THEN 1 ELSE 0
  BY <1>1
<1> HIDE DEF a, b, common
<1>5. Divides(common, OfSet(L)) /\ Divides(common, OfSet(R))
  BY <1>1, <1>4 DEF Divides
<1>6. Coprime(a, b)
  BY <1>2, <1>3 DEF Coprime
<1>7. Splits(OfSet(L), OfSet(R), common)
  BY <1>5, <1>6 DEF Splits, a, b
<1>8. OfSet(L) = Times(common, a)
  BY <1>2, <1>4 DEF OfSet, Times
<1>9. OfSet(R) = Times(common, b)
  BY <1>3, <1>4 DEF OfSet, Times
<1>10. \A f \in Fids : Times(a, b)[f] = a[f] + b[f]
  BY DEF Times
<1>11. OfSet(L \cup R) = Times(common, Times(a, b))
  BY <1>2, <1>3, <1>4, <1>10 DEF OfSet, Times
<1>12. OfSet(L \cup R) = Times(OfSet(L), b)
  BY <1>1, <1>3 DEF OfSet, Times
<1> QED BY <1>7, <1>8, <1>9, <1>11, <1>12 DEF a, b, common

(***************************************************************************)
(* Polynomial proofs                                                       *)
(***************************************************************************)

\* A node whose claims hold has the factors its operator asks for.
LEMMA ClaimsFactors ==
    ASSUME NEW n, n.op \in {"and", "or"}, ClaimsHold(n),
           n.common \in Polynomials, n.ql \in Polynomials, n.qr \in Polynomials
    PROVE  LET l == Factors(PolynomialOf(n.left))
               r == Factors(PolynomialOf(n.right))
           IN  Factors(PolynomialOf(n)) = IF n.op = "and" THEN l \cap r ELSE l \cup r
<1> DEFINE c == n.common
           a == n.ql
           b == n.qr
<1>1. /\ PolynomialOf(n.left) = Times(c, a) /\ PolynomialOf(n.right) = Times(c, b)
      /\ Coprime(a, b)
      /\ n.set = IF n.op = "and" THEN c ELSE Times(c, Times(a, b))
  BY DEF ClaimsHold
<1>2. PolynomialOf(n) = n.set
  BY DEF PolynomialOf
<1>3. c \in Polynomials /\ a \in Polynomials /\ b \in Polynomials
  OBVIOUS
<1> HIDE DEF c, a, b
<1>4. /\ Factors(c) = Factors(PolynomialOf(n.left)) \cap Factors(PolynomialOf(n.right))
      /\ Factors(Times(c, Times(a, b))) = Factors(PolynomialOf(n.left)) \cup Factors(PolynomialOf(n.right))
  BY <1>1, <1>3, CommonIsMeet
<1>5. CASE n.op = "and"
  BY <1>1, <1>2, <1>4, <1>5
<1>6. CASE n.op = "or"
  BY <1>1, <1>2, <1>4, <1>6
<1> QED BY <1>5, <1>6

\* Whatever common parts, quotients and products the inner nodes of a proof
\* claim, and however often its leaves list a file: if every claim holds, a
\* result with the polynomial of the root has the files the operators make of
\* the leaves' lists.  AcceptsPolynomial of SetProofs asks for just that
\* (common/src/verification.rs, verify_polynomial_set_node and
\* verify_polynomial_intersection_aggregate).
THEOREM AcceptedIsAnswer ==
    ASSUME NEW T, NEW height, NEW files, ProofTree(T, height), StandFor(T, files),
           \A n \in T : n.op # "leaf" =>
               /\ n.common \in Polynomials /\ n.ql \in Polynomials /\ n.qr \in Polynomials
               /\ ClaimsHold(n),
           NEW root \in T, NEW result \in Seq(Fids), PolynomialOf(root) = Characteristic(result)
    PROVE  ToSet(result) = files[root]
<1> DEFINE Good == {n \in T : Factors(PolynomialOf(n)) = files[n]}
<1>1. ASSUME NEW n \in T, \A m \in T : height[m] < height[n] => m \in Good
      PROVE  n \in Good
  <2>1. CASE n.op = "leaf"
    <3>1. PolynomialOf(n) = Characteristic(n.fids)
      BY <2>1 DEF PolynomialOf
    <3>2. n.fids \in Seq(Fids) /\ files[n] = ToSet(n.fids)
      BY <2>1 DEF StandFor
    <3> QED BY <3>1, <3>2, LeafFactors
  <2>2. CASE n.op # "leaf"
    <3>1. n.op \in {"and", "or"}
      BY <2>2 DEF ProofTree
    <3>2. n.left \in Good /\ n.right \in Good
      BY <1>1, <2>2 DEF ProofTree
    <3>3. /\ Factors(PolynomialOf(n.left)) = files[n.left]
          /\ Factors(PolynomialOf(n.right)) = files[n.right]
      BY <3>2
    <3>4. Factors(PolynomialOf(n)) = IF n.op = "and" THEN files[n.left] \cap files[n.right]
                                     ELSE files[n.left] \cup files[n.right]
      BY <2>2, <3>1, <3>3, ClaimsFactors
    <3>5. files[n] = IF n.op = "and" THEN files[n.left] \cap files[n.right]
                     ELSE files[n.left] \cup files[n.right]
      BY <3>1 DEF StandFor
    <3> QED BY <3>4, <3>5
  <2> QED BY <2>1, <2>2
<1>2. height \in [T -> Nat]
  BY DEF ProofTree
<1>3. T \subseteq Good
  <2> HIDE DEF Good
  <2> QED BY <1>1, <1>2, NoLeastFailure
<1>4. Factors(Characteristic(result)) = files[root]
  BY <1>3
<1> QED BY <1>4, LeafFactors

\* The node build_polynomial_proof_tree makes of two children.
BuiltOf(n, files) == PolynomialNode(n.op, Tree(n.left, files[n.left]), Tree(n.right, files[n.right]))

\* A node built over two sets of files is there, verifies and is of the files
\* its operator asks for.
LEMMA NodeBuilt ==
    ASSUME NEW n, n.op \in {"and", "or"}, NEW files, n = BuiltOf(n, files).node,
           files[n.left] \in SUBSET Fids, files[n.right] \in SUBSET Fids,
           PolynomialOf(n.left) = OfSet(files[n.left]), PolynomialOf(n.right) = OfSet(files[n.right]),
           files[n] = IF n.op = "and" THEN files[n.left] \cap files[n.right]
                      ELSE files[n.left] \cup files[n.right]
    PROVE  BuiltOf(n, files) = Tree(n, files[n]) /\ ClaimsHold(n) /\ PolynomialOf(n) = OfSet(files[n])
<1> DEFINE L == files[n.left]
           R == files[n.right]
           common == OfSet(L \cap R)
           a == Quotient(OfSet(L), common)
           b == Quotient(OfSet(R), common)
           node == Inner(n.op, n.left, n.right, OfSet(files[n]), common)
<1>1. /\ Splits(OfSet(L), OfSet(R), common)
      /\ OfSet(L) = Times(common, a) /\ OfSet(R) = Times(common, b)
      /\ OfSet(L \cup R) = Times(common, Times(a, b))
      /\ Coprime(a, b)
  BY SetsSplit DEF Splits
<1>2. BuiltOf(n, files) = Tree(node, files[n])
  BY <1>1 DEF BuiltOf, PolynomialNode, Tree, UnionOf
<1>3. n = node
  BY <1>2 DEF Tree
<1>4. /\ n.set = OfSet(files[n]) /\ n.common = common
      /\ n.ql = Quotient(PolynomialOf(n.left), common)
      /\ n.qr = Quotient(PolynomialOf(n.right), common)
  BY <1>3 DEF Inner
<1>5. n.ql = a /\ n.qr = b
  BY <1>4
<1>6. n.set = IF n.op = "and" THEN common ELSE Times(common, Times(a, b))
  BY <1>1, <1>4
<1>7. ClaimsHold(n)
  BY <1>1, <1>4, <1>5, <1>6 DEF ClaimsHold
<1>8. PolynomialOf(n) = OfSet(files[n])
  BY <1>4 DEF PolynomialOf
<1> QED BY <1>2, <1>3, <1>7, <1>8

\* The manager builds a proof of every tree of ANDs and ORs whose leaves list
\* no file twice; all of its claims hold, and any list of the answer's files,
\* none of them twice, is the result it is about (manager/src/api/service.rs,
\* build_polynomial_proof_tree).
THEOREM HonestPolynomials ==
    ASSUME NEW T, NEW height, NEW files, ProofTree(T, height), StandFor(T, files),
           \A n \in T : n.op = "leaf" => IsInjective(n.fids),
           \A n \in T : n.op # "leaf" => n = BuiltOf(n, files).node
    PROVE  /\ \A n \in T : n.op # "leaf" => BuiltOf(n, files) = Tree(n, files[n]) /\ ClaimsHold(n)
           /\ \A n \in T, result \in Seq(Fids) :
                 IsInjective(result) /\ ToSet(result) = files[n] =>
                     PolynomialOf(n) = Characteristic(result)
<1> DEFINE Good == {n \in T : /\ PolynomialOf(n) = OfSet(files[n])
                              /\ n.op # "leaf" => BuiltOf(n, files) = Tree(n, files[n]) /\ ClaimsHold(n)}
<1>1. ASSUME NEW n \in T, \A m \in T : height[m] < height[n] => m \in Good
      PROVE  n \in Good
  <2>1. CASE n.op = "leaf"
    <3>1. PolynomialOf(n) = Characteristic(n.fids)
      BY <2>1 DEF PolynomialOf
    <3>2. n.fids \in Seq(Fids) /\ files[n] = ToSet(n.fids) /\ IsInjective(n.fids)
      BY <2>1 DEF StandFor
    <3>3. PolynomialOf(n) = OfSet(files[n])
      BY <3>1, <3>2, LeafFactors
    <3> QED BY <2>1, <3>3
  <2>2. CASE n.op # "leaf"
    <3>1. n.op \in {"and", "or"}
      BY <2>2 DEF ProofTree
    <3>2. n.left \in Good /\ n.right \in Good
      BY <1>1, <2>2 DEF ProofTree
    <3>3. PolynomialOf(n.left) = OfSet(files[n.left]) /\ PolynomialOf(n.right) = OfSet(files[n.right])
      BY <3>2
    <3>4. files[n.left] \in SUBSET Fids /\ files[n.right] \in SUBSET Fids
      BY <2>2 DEF ProofTree, StandFor
    <3>5. files[n] = IF n.op = "and" THEN files[n.left] \cap files[n.right]
                     ELSE files[n.left] \cup files[n.right]
      BY <3>1 DEF StandFor
    <3>6. n = BuiltOf(n, files).node
      BY <2>2
    <3>7. /\ BuiltOf(n, files) = Tree(n, files[n])
          /\ ClaimsHold(n)
          /\ PolynomialOf(n) = OfSet(files[n])
      BY <3>1, <3>3, <3>4, <3>5, <3>6, NodeBuilt
    <3> QED BY <3>7
  <2> QED BY <2>1, <2>2
<1>2. height \in [T -> Nat]
  BY DEF ProofTree
<1>3. T \subseteq Good
  <2> HIDE DEF Good
  <2> QED BY <1>1, <1>2, NoLeastFailure
<1>4. ASSUME NEW n \in T, NEW result \in Seq(Fids), IsInjective(result), ToSet(result) = files[n]
      PROVE  PolynomialOf(n) = Characteristic(result)
  <2>1. PolynomialOf(n) = OfSet(files[n])
    BY <1>3
  <2> QED BY <1>4, <2>1, LeafFactors
<1> QED BY <1>3, <1>4

(***************************************************************************)
(* Accumulator proofs                                                      *)
(***************************************************************************)

\* What the pairings say of a node's sides and result alone: the result has
\* the elements that the operator asks for, none added and none left out
\* (accumulator_ads/src/acc/proofs.rs, IntersectionProof and UnionProof).
THEOREM PairingsAreExact ==
    ASSUME NEW n, n.op \in {"and", "or"}, NEW l, NEW r, NEW result \in Polynomials,
           n.common \in Polynomials, n.wa \in Polynomials, n.wb \in Polynomials,
           PairingsHold(n, l, r, result)
    PROVE  Factors(result) = IF n.op = "and" THEN Factors(l) \cap Factors(r)
                             ELSE Factors(l) \cup Factors(r)
<1> DEFINE meet == IF n.op = "and" THEN result ELSE n.common
           a == n.wa
           b == n.wb
<1>1. meet \in Polynomials /\ a \in Polynomials /\ b \in Polynomials
  OBVIOUS
<1>2. /\ l = Times(meet, a) /\ r = Times(meet, b)
      /\ Coprime(a, b)
      /\ n.op = "or" => result = Times(l, b)
  BY DEF PairingsHold
<1>3. n.op = "and" => meet = result
  OBVIOUS
<1> HIDE DEF meet, a, b
<1>4. Times(Times(meet, a), b) = Times(meet, Times(a, b))
  <2>1. \A f \in Fids : meet[f] \in Nat /\ a[f] \in Nat /\ b[f] \in Nat
    BY <1>1 DEF Polynomials
  <2>2. \A f \in Fids : Times(meet, a)[f] = meet[f] + a[f] /\ Times(a, b)[f] = a[f] + b[f]
    BY DEF Times
  <2>3. \A f \in Fids : Times(meet, a)[f] + b[f] = meet[f] + Times(a, b)[f]
    BY <2>1, <2>2
  <2> QED BY <2>3 DEF Times
<1>5. n.op = "or" => result = Times(meet, Times(a, b))
  BY <1>2, <1>4
<1> QED BY <1>1, <1>2, <1>3, <1>5, CommonIsMeet

\* The node build_accumulator_proof_tree makes of two children.
AccumulatedOf(n, files) ==
    AccumulatorNode(n.op, Tree(n.left, files[n.left]), Tree(n.right, files[n.right]))

\* The manager builds a proof of every tree of ANDs and ORs, whatever its
\* leaves list; the sets the client puts together are the results of the
\* nodes, and the pairings hold of them (manager/src/api/service.rs,
\* build_accumulator_proof_tree; common/src/accumulator_set_proof.rs,
\* verify_accumulator_set_operation_node).
THEOREM HonestAccumulators ==
    ASSUME NEW T, NEW height, NEW files, ProofTree(T, height), StandFor(T, files),
           \A n \in T : n.op # "leaf" => n = AccumulatedOf(n, files).node
    PROVE  \A n \in T : n.op # "leaf" =>
               /\ AccumulatedOf(n, files) = Tree(n, files[n])
               /\ n.result = files[n]
               /\ PairingsHold(n, OfSet(files[n.left]), OfSet(files[n.right]), OfSet(n.result))
<1> SUFFICES ASSUME NEW n \in T, n.op # "leaf"
             PROVE  /\ AccumulatedOf(n, files) = Tree(n, files[n])
                    /\ n.result = files[n]
                    /\ PairingsHold(n, OfSet(files[n.left]), OfSet(files[n.right]), OfSet(n.result))
  OBVIOUS
<1> DEFINE L == files[n.left]
           R == files[n.right]
           common == OfSet(L \cap R)
           a == Quotient(OfSet(L), common)
           b == Quotient(OfSet(R), common)
           node == [op |-> n.op, left |-> n.left, right |-> n.right, result |-> files[n],
                    common |-> common, wa |-> a, wb |-> b]
<1>1. n.op \in {"and", "or"} /\ L \in SUBSET Fids /\ R \in SUBSET Fids
  BY DEF ProofTree, StandFor
<1>2. files[n] = IF n.op = "and" THEN L \cap R ELSE L \cup R
  BY <1>1 DEF StandFor
<1>3. /\ Splits(OfSet(L), OfSet(R), common)
      /\ OfSet(L) = Times(common, a) /\ OfSet(R) = Times(common, b)
      /\ OfSet(L \cup R) = Times(OfSet(L), b)
      /\ Coprime(a, b)
  BY <1>1, SetsSplit DEF Splits
<1>4. AccumulatedOf(n, files) = Tree(node, files[n])
  BY <1>1, <1>2, <1>3 DEF AccumulatedOf, AccumulatorNode, Tree, UnionOf
<1>5. n = node
  BY <1>4 DEF Tree
<1>6. n.result = files[n] /\ n.common = common /\ n.wa = a /\ n.wb = b
  BY <1>5
<1>7. PairingsHold(n, OfSet(L), OfSet(R), OfSet(files[n]))
  BY <1>1, <1>2, <1>3, <1>6 DEF PairingsHold
<1> QED BY <1>4, <1>5, <1>6, <1>7
=============================================================================
