---------------------------- MODULE BooleanExpr ----------------------------
(***************************************************************************)
(* The language of boolean queries (common/src/boolean_expr.rs): what a    *)
(* text means, what an expression prints as, and what it gives when each   *)
(* of its keywords has a set of files.                                     *)
(*                                                                         *)
(* A text is a sequence of tokens: AND, OR, NOT, the two parentheses and   *)
(* words, which end at white space or at a parenthesis.  A keyword is the  *)
(* sequence of the tokens it runs over, parentheses of its own included.   *)
(***************************************************************************)
EXTENDS Naturals, Sequences, FiniteSets, FiniteSetsExt, TLC

Operators == {"AND", "OR", "NOT"}

Keyword(text) == [op |-> "word", text |-> text]
Both(l, r)    == [op |-> "and", left |-> l, right |-> r]
Either(l, r)  == [op |-> "or", left |-> l, right |-> r]
Negated(e)    == [op |-> "not", of |-> e]

-----------------------------------------------------------------------------
(* Reading a text.  What is left of it starts at position p; `inner` is    *)
(* that of allow_right_paren: a right parenthesis ends what is read.       *)

Failed == [ok |-> FALSE]
Read(e, p) == [ok |-> TRUE, expr |-> e, next |-> p]

TokenAt(t, p, token) == p <= Len(t) /\ t[p] = token
Ends(t, p, inner) == inner /\ TokenAt(t, p, ")")

Depth(t, p, q) ==
    Cardinality({i \in p..q : t[i] = "("}) - Cardinality({i \in p..q : t[i] = ")"})
Closing(t, p) == {q \in p..Len(t) : t[q] = ")" /\ Depth(t, p, q) = 0}

\* A mistake: every parenthesis that is closed opens a group.
AnyGroup(t, p) == TokenAt(t, p, "(") /\ Closing(t, p) # {}

\* A parenthesis opens a group if an operator comes before the one that closes
\* it; else it is part of a keyword, as in Query(Linq).
LooksLikeGroup(t, p) ==
    /\ TokenAt(t, p, "(")
    /\ Closing(t, p) # {}
    /\ \E i \in (p + 1)..(Min(Closing(t, p)) - 1) : t[i] \in Operators

PhraseEnd(t, p, inner) ==
    Min({q \in p..Len(t) : t[q] \in Operators \/ (inner /\ t[q] = ")")} \cup {Len(t) + 1})

Phrase(t, p, inner) ==
    LET q == PhraseEnd(t, p, inner)
    IN  IF q = p THEN Failed ELSE Read(Keyword(SubSeq(t, p, q - 1)), q)

RECURSIVE Factor(_, _, _), Terms(_, _, _), MoreFactors(_, _, _), Expression(_, _, _), MoreTerms(_, _, _)

Group(t, p) ==
    LET e == Expression(t, p + 1, TRUE)
    IN  IF e.ok /\ TokenAt(t, e.next, ")") THEN Read(e.expr, e.next + 1) ELSE Failed

Factor(t, p, inner) ==
    IF TokenAt(t, p, "NOT")
    THEN LET e == Factor(t, p + 1, inner)
         IN  IF e.ok THEN Read(Negated(e.expr), e.next) ELSE Failed
    ELSE IF LooksLikeGroup(t, p) THEN Group(t, p)
    ELSE Phrase(t, p, inner)

\* Operators of one kind group to the left.
MoreFactors(t, left, inner) ==
    IF ~left.ok \/ Ends(t, left.next, inner) \/ ~TokenAt(t, left.next, "AND") THEN left
    ELSE LET right == Factor(t, left.next + 1, inner)
         IN  IF right.ok THEN MoreFactors(t, Read(Both(left.expr, right.expr), right.next), inner)
             ELSE Failed

Terms(t, p, inner) == MoreFactors(t, Factor(t, p, inner), inner)

MoreTerms(t, left, inner) ==
    IF ~left.ok \/ Ends(t, left.next, inner) \/ ~TokenAt(t, left.next, "OR") THEN left
    ELSE LET right == Terms(t, left.next + 1, inner)
         IN  IF right.ok THEN MoreTerms(t, Read(Either(left.expr, right.expr), right.next), inner)
             ELSE Failed

Expression(t, p, inner) == MoreTerms(t, Terms(t, p, inner), inner)

\* parse_boolean_expr: an expression, and nothing after it.
Parse(t) ==
    LET e == Expression(t, 1, FALSE)
    IN  IF e.ok /\ e.next = Len(t) + 1 THEN e ELSE Failed

-----------------------------------------------------------------------------
(* What is made of an expression.                                          *)

\* A mistake: parentheses are left out where the text seems to need none.
RECURSIVE PrintBare(_)
PrintBare(e) ==
    CASE e.op = "word" -> e.text
      [] e.op = "and"  -> PrintBare(e.left) \o <<"AND">> \o PrintBare(e.right)
      [] e.op = "or"   -> PrintBare(e.left) \o <<"OR">> \o PrintBare(e.right)
      [] e.op = "not"  -> <<"NOT">> \o PrintBare(e.of)

RECURSIVE ToText(_)
ToText(e) ==
    CASE e.op = "word" -> e.text
      [] e.op = "and"  -> <<"(">> \o ToText(e.left) \o <<"AND">> \o ToText(e.right) \o <<")">>
      [] e.op = "or"   -> <<"(">> \o ToText(e.left) \o <<"OR">> \o ToText(e.right) \o <<")">>
      [] e.op = "not"  -> <<"(", "NOT">> \o ToText(e.of) \o <<")">>

RECURSIVE KeywordsOf(_)
KeywordsOf(e) ==
    CASE e.op = "word" -> {e.text}
      [] e.op = "not"  -> KeywordsOf(e.of)
      [] OTHER         -> KeywordsOf(e.left) \cup KeywordsOf(e.right)

\* A keyword without a result has no file; of a NOT nothing is known.
RECURSIVE Evaluate(_, _)
Evaluate(e, results) ==
    CASE e.op = "word" -> IF e.text \in DOMAIN results THEN results[e.text] ELSE {}
      [] e.op = "and"  -> Evaluate(e.left, results) \cap Evaluate(e.right, results)
      [] e.op = "or"   -> Evaluate(e.left, results) \cup Evaluate(e.right, results)
      [] e.op = "not"  -> {}

\* The client sends the digest of a keyword, one word: encode_boolean_expr.
Hex(text) == <<ToString(text)>>

RECURSIVE Encoded(_)
Encoded(e) ==
    CASE e.op = "word" -> Keyword(Hex(e.text))
      [] e.op = "and"  -> Both(Encoded(e.left), Encoded(e.right))
      [] e.op = "or"   -> Either(Encoded(e.left), Encoded(e.right))
      [] e.op = "not"  -> Negated(Encoded(e.of))

RECURSIVE HasNot(_)
HasNot(e) ==
    CASE e.op = "word" -> FALSE
      [] e.op = "not"  -> TRUE
      [] OTHER         -> HasNot(e.left) \/ HasNot(e.right)
=============================================================================
