---------------------------- MODULE BooleanQuery ----------------------------
(***************************************************************************)
(* One boolean query from the text a user writes to the answer the client  *)
(* accepts: the client parses it, replaces the keywords by their digests   *)
(* and prints it again (client/src/client.rs); the manager parses what it  *)
(* gets, asks for each keyword, builds the proof and answers               *)
(* (manager/src/api/service.rs, query_boolean_function); the client checks *)
(* the proof and the files.  ManagerRequests has the manager's subrequests *)
(* one by one.                                                             *)
(***************************************************************************)
EXTENDS SetProofs

CONSTANTS
    Texts,      \* what users write
    Answers,    \* the lists of files a storager can answer with
    ProofModes  \* of {"polynomial", "accumulator"}

VARIABLES
    stage,      \* "written", "sent", "parsed", "answered", "accepted", "refused"
    text,       \* what the user wrote, then what the client sent
    meant,      \* the expression the user's text is, its keywords replaced
    asked,      \* the expression the manager parsed
    mode,       \* set_proof_mode, of the manager and of the client
    found,      \* keyword -> the files its storager answered with
    answer      \* the proof and the files of the answer

queryVars == <<stage, text, meant, asked, mode, found, answer>>

None == Keyword(<<>>)
NoAnswer == [node |-> [op |-> "leaf", fids |-> <<>>], fids |-> <<>>]

QueryInit ==
    /\ stage = "written"
    /\ text \in Texts
    /\ mode \in ProofModes
    /\ meant = None /\ asked = None
    /\ found = [k \in {} |-> <<>>]
    /\ answer = NoAnswer

\* encode_query_expression
ClientSends ==
    /\ stage = "written"
    /\ LET e == Parse(text) IN
       \/ /\ e.ok
          /\ meant' = Encoded(e.expr)
          /\ text' = ToText(Encoded(e.expr))
          /\ stage' = "sent"
       \/ ~e.ok /\ stage' = "refused" /\ UNCHANGED <<text, meant>>
    /\ UNCHANGED <<asked, mode, found, answer>>

\* A caller of the manager's service sends a text of its own.
OthersSend ==
    /\ stage = "written"
    /\ stage' = "sent"
    /\ UNCHANGED <<text, meant, asked, mode, found, answer>>

\* A text that does not parse is an invalid argument.
ManagerParses ==
    /\ stage = "sent"
    /\ LET e == Parse(text) IN
       \/ e.ok /\ asked' = e.expr /\ stage' = "parsed"
       \/ ~e.ok /\ stage' = "refused" /\ UNCHANGED asked
    /\ UNCHANGED <<text, meant, mode, found, answer>>

Results == [k \in DOMAIN found |-> ToSet(found[k])]

\* The keywords are asked for, the tree is built over the answers, and its
\* files have to be those of the expression.
ManagerAnswers ==
    /\ stage = "parsed"
    /\ found' \in [KeywordsOf(asked) -> Answers]
    /\ LET tree == IF mode = "polynomial" THEN BuildPolynomial(asked, found')
                   ELSE BuildAccumulator(asked, found')
       IN  IF tree.ok /\ tree.files = Evaluate(asked, Results')
           THEN /\ answer' = [node |-> tree.node, fids |-> SetToSeq(tree.files)]
                /\ stage' = "answered"
           ELSE stage' = "refused" /\ UNCHANGED answer
    /\ UNCHANGED <<text, meant, asked, mode>>

\* query_by_func_hex: the proof leads to the files, and they are the answer's.
ClientVerifies ==
    /\ stage = "answered"
    /\ stage' = IF IF mode = "polynomial" THEN AcceptsPolynomial(answer.node, answer.fids)
                   ELSE AcceptsAccumulator(answer.node, answer.fids)
                THEN "accepted" ELSE "refused"
    /\ UNCHANGED <<text, meant, asked, mode, found, answer>>

QueryNext == ClientSends \/ OthersSend \/ ManagerParses \/ ManagerAnswers \/ ClientVerifies

-----------------------------------------------------------------------------
(* Properties.                                                             *)

\* The manager reads what the client printed as the expression the user's text
\* is (boolean_expr.rs, to_string against looks_like_group and the precedence).
ExpressionSurvives ==
    meant # None /\ stage \in {"parsed", "answered", "accepted", "refused"} => asked = meant

\* A file is in the answer of e, the keywords having those of r.
RECURSIVE Satisfies(_, _, _)
Satisfies(f, e, r) ==
    CASE e.op = "word" -> f \in r[e.text]
      [] e.op = "and"  -> Satisfies(f, e.left, r) /\ Satisfies(f, e.right, r)
      [] e.op = "or"   -> Satisfies(f, e.left, r) \/ Satisfies(f, e.right, r)
      [] e.op = "not"  -> ~Satisfies(f, e.of, r)

\* Without NOT, and with no file twice in an answer of a storager, a query is
\* accepted and gives the files that satisfy it; with NOT it is refused by the
\* proof layer (service.rs, build_polynomial_proof_tree; verification.rs).
HonestProofsVerify ==
    stage \in {"accepted", "refused"} /\ asked # None /\ DOMAIN found # {} =>
        IF HasNot(asked) THEN stage = "refused"
        ELSE (\A k \in DOMAIN found : IsInjective(found[k])) =>
               /\ stage = "accepted"
               /\ ToSet(answer.fids) = {f \in Fids : Satisfies(f, asked, Results)}
=============================================================================
