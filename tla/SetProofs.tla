----------------------------- MODULE SetProofs -----------------------------
(***************************************************************************)
(* The proofs of boolean answers: the trees the manager builds over the    *)
(* answers for single keywords (manager/src/api/service.rs) and the checks *)
(* of the client (common/src/poly_set_proof.rs, verification.rs,           *)
(* accumulator_set_proof.rs).  SetAlgebra has what is done at one node.    *)
(***************************************************************************)
EXTENDS BooleanExpr, SetAlgebra

-----------------------------------------------------------------------------
(* Polynomial proofs.                                                      *)

\* build_polynomial_proof_tree over the files the storagers answered with.
RECURSIVE BuildPolynomial(_, _)
BuildPolynomial(e, answers) ==
    CASE e.op = "word" ->
           Tree([op |-> "leaf", fids |-> answers[e.text]], ToSet(answers[e.text]))
      [] e.op = "not"  -> NoTree
      [] OTHER ->
           LET l == BuildPolynomial(e.left, answers)
               r == BuildPolynomial(e.right, answers)
           IN  IF l.ok /\ r.ok THEN PolynomialNode(e.op, l, r) ELSE NoTree

\* verify_polynomial_set_node
RECURSIVE PolynomialVerifies(_)
PolynomialVerifies(n) ==
    n.op # "leaf" =>
        PolynomialVerifies(n.left) /\ PolynomialVerifies(n.right) /\ ClaimsHold(n)

\* verify_polynomial_intersection_aggregate
AcceptsPolynomial(node, result) ==
    PolynomialVerifies(node) /\ PolynomialOf(node) = Characteristic(result)

-----------------------------------------------------------------------------
(* Accumulator proofs.                                                     *)

\* build_accumulator_proof_tree
RECURSIVE BuildAccumulator(_, _)
BuildAccumulator(e, answers) ==
    CASE e.op = "word" ->
           Tree([op |-> "leaf", fids |-> answers[e.text]], ToSet(answers[e.text]))
      [] e.op = "not"  -> NoTree
      [] OTHER ->
           LET l == BuildAccumulator(e.left, answers)
               r == BuildAccumulator(e.right, answers)
           IN  IF l.ok /\ r.ok THEN AccumulatorNode(e.op, l, r) ELSE NoTree

Unverified == [ok |-> FALSE]

\* verify_accumulator_set_operation_node: the sets of the children are put
\* together again, and the proof has to be about these sets.
RECURSIVE AccumulatorVerifies(_)
AccumulatorVerifies(n) ==
    IF n.op = "leaf" THEN [ok |-> TRUE, files |-> ToSet(n.fids)]
    ELSE LET l == AccumulatorVerifies(n.left)
             r == AccumulatorVerifies(n.right)
             files == IF n.op = "and" THEN l.files \cap r.files ELSE l.files \cup r.files
         IN  IF /\ l.ok /\ r.ok
                /\ files = n.result
                /\ PairingsHold(n, OfSet(l.files), OfSet(r.files), OfSet(n.result))
             THEN [ok |-> TRUE, files |-> files] ELSE Unverified

\* verify_accumulator_set_operation_aggregate
AcceptsAccumulator(node, result) ==
    LET v == AccumulatorVerifies(node)
    IN  v.ok /\ v.files = ToSet(result) /\ IsInjective(result)
=============================================================================
