----------------------------- MODULE SetAlgebra -----------------------------
(***************************************************************************)
(* One node of the proof of a boolean answer: what the manager makes of    *)
(* the answers below it (manager/src/api/service.rs), and what the client  *)
(* checks of it (common/src/poly_set_proof.rs, verification.rs,            *)
(* accumulator_set_proof.rs).  SetProofs has the trees of such nodes.      *)
(*                                                                         *)
(* A polynomial of these proofs is a product of factors X + fid, so it is  *)
(* the number of times each file is a factor.  A commitment, or the value  *)
(* of an accumulator, tells such products apart and nothing more, and      *)
(* Bezout coefficients exist exactly when two of them share no factor.     *)
(***************************************************************************)
EXTENDS Integers, Sequences, FiniteSets, SequencesExt

CONSTANT Fids

Characteristic(fids) == [f \in Fids |-> Cardinality({i \in DOMAIN fids : fids[i] = f})]
OfSet(S) == [f \in Fids |-> IF f \in S THEN 1 ELSE 0]

Divides(d, n) == \A f \in Fids : d[f] <= n[f]
Quotient(n, d) == [f \in Fids |-> n[f] - d[f]]
Times(m, n) == [f \in Fids |-> m[f] + n[f]]
Coprime(m, n) == \A f \in Fids : m[f] = 0 \/ n[f] = 0

NoTree == [ok |-> FALSE]
Tree(node, files) == [ok |-> TRUE, node |-> node, files |-> files]

\* A mistake: what the two sides share is taken for their union.
UnionOfCommon(l, r) == l.files \cap r.files
UnionOf(l, r) == l.files \cup r.files

\* What an inner node has to be for its quotients and coefficients to exist.
Splits(l, r, common) == Divides(common, l) /\ Divides(common, r)
                          /\ Coprime(Quotient(l, common), Quotient(r, common))

-----------------------------------------------------------------------------
(* Polynomial proofs.                                                      *)

PolynomialOf(node) == IF node.op = "leaf" THEN Characteristic(node.fids) ELSE node.set

Inner(op, left, right, set, common) ==
    [op |-> op, left |-> left, right |-> right, set |-> set, common |-> common,
     ql |-> Quotient(PolynomialOf(left), common), qr |-> Quotient(PolynomialOf(right), common)]

PolynomialNode(op, l, r) ==
    LET common == OfSet(l.files \cap r.files)
        lp == PolynomialOf(l.node)
        rp == PolynomialOf(r.node)
        files == IF op = "and" THEN l.files \cap r.files ELSE UnionOf(l, r)
    IN  IF /\ Splits(lp, rp, common)
           /\ op = "or" => OfSet(files) = Times(common, Times(Quotient(lp, common), Quotient(rp, common)))
        THEN Tree(Inner(op, l.node, r.node, OfSet(files), common), files)
        ELSE NoTree

\* What verify_polynomial_set_node asks of an inner node: the claims at the
\* challenge point hold when they hold of the polynomials.
ClaimsHold(n) ==
    /\ PolynomialOf(n.left) = Times(n.common, n.ql)
    /\ PolynomialOf(n.right) = Times(n.common, n.qr)
    /\ Coprime(n.ql, n.qr)
    /\ n.set = IF n.op = "and" THEN n.common ELSE Times(n.common, Times(n.ql, n.qr))

-----------------------------------------------------------------------------
(* Accumulator proofs.                                                     *)

AccumulatorNode(op, l, r) ==
    LET common == OfSet(l.files \cap r.files)
        files == IF op = "and" THEN l.files \cap r.files ELSE UnionOf(l, r)
    IN  IF Splits(OfSet(l.files), OfSet(r.files), common)
        THEN Tree([op |-> op, left |-> l.node, right |-> r.node, result |-> files,
                   common |-> common,
                   wa |-> Quotient(OfSet(l.files), common), wb |-> Quotient(OfSet(r.files), common)],
                  files)
        ELSE NoTree

\* IntersectionProof::verify and, of a union, UnionProof::verify.
PairingsHold(n, l, r, result) ==
    LET meet == IF n.op = "and" THEN result ELSE n.common IN
    /\ l = Times(meet, n.wa) /\ r = Times(meet, n.wb)
    /\ Coprime(n.wa, n.wb)
    /\ n.op = "or" => result = Times(l, n.wb)
=============================================================================
