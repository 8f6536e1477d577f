----------------------------- MODULE MCRequests -----------------------------
(***************************************************************************)
(* What a request meets on its way, one part of it chosen at the start:    *)
(* the text of a boolean query, the route cache, the manager's handlers,   *)
(* and the calls a storager serves at once.                                *)
(***************************************************************************)
EXTENDS StoragerGate, RouteCache, ManagerRequests, TLC

CONSTANTS c1, c2, c3, c4, w1, w2, e1, e2, f1, f2,
          r1, r2, k1, k2, k3, k4, p1, p2, p3, n1, n2,
          Parts

VARIABLES part,
          stage, text, meant, asked, mode, found, answer

-----------------------------------------------------------------------------
\* Four calls of a storager.  c2 is the query that confirm waits for.
MCCalls == {c1, c2, c3, c4}
Load(a, b, c, d) == (c1 :> a) @@ (c2 :> b) @@ (c3 :> c) @@ (c4 :> d)
MCWorkloads == {
    Load("mutation", "mutation", "retain", "query"),
    Load("mutation", "mutation", "retain", "confirm"),
    Load("mutation", "query", "confirm", "exclusive"),
    Load("mutation", "retain", "export", "exclusive")}

\* Two readers of the cache and two changes.
MCWriters == {w1, w2}
Plan(a, b) == (w1 :> a) @@ (w2 :> b)
MCPlans == {Plan("insert", "forget"), Plan("insert", "delete"), Plan("presplit", "insert"),
            Plan("reset", "insert")}
ChangesOf(plan) == [w \in MCWriters |-> [kind |-> plan[w], at |-> "called"]]

\* All texts of up to four tokens, and longer ones in which precedence,
\* groups and parentheses of keywords meet.
Tokens == {"a", "b", "AND", "OR", "NOT", "(", ")"}
BinaryOperators == {"AND", "OR"}
MCTexts ==
    UNION {[1..n -> Tokens] : n \in 1..4}
    \cup {<<"a", x, "b", y, "c">> : x, y \in BinaryOperators}
    \cup {<<"(", "a", x, "b", ")", y, "c">> : x, y \in BinaryOperators}
    \cup {<<"a", x, "(", "b", y, "c", ")">> : x, y \in BinaryOperators}
    \cup {<<"a", x, "(", "b", y, "a", z, "c", ")">> : x, y, z \in BinaryOperators}
    \cup {<<"a", "(", "b", ")", x, "NOT", "(", "b", y, "a", ")">> : x, y \in BinaryOperators}
MCAnswers == {<<>>, <<f1>>, <<f2, f1>>, <<f1, f1>>}
MCModes == {"polynomial", "accumulator"}
Query == INSTANCE BooleanQuery WITH
    Texts <- MCTexts, Answers <- MCAnswers, ProofModes <- MCModes, Fids <- {f1, f2}

\* Two keywords share a prefix, and two prefixes a storager.
MCRequestIds == {r1, r2}
MCNodes == {n1, n2}
Job(what, old, new) == [kind |-> what, old |-> old, new |-> new, parallel |-> FALSE]
Wide(what, new) == [kind |-> what, old |-> {}, new |-> new, parallel |-> TRUE]
Pair(a, b) == (r1 :> a) @@ (r2 :> b)
MCJobs == {
    Pair(Job("update", {k1, k4}, {k1, k3}), Job("query", {}, {k3})),
    Pair(Job("update", {k2}, {k3}), Job("add", {}, {k1, k3})),
    Pair(Job("update", {k1}, {k2, k4}), Job("update", {k4}, {k1})),
    Pair(Wide("batch", {k1, k2, k3}), Job("delete", {k1, k4}, {})),
    Pair(Job("batch", {}, {k1, k2, k3}), Job("boolean", {}, {k1, k4})),
    Pair(Job("delete", {k1, k3}, {}), Job("add", {}, {k2})),
    Pair(Job("delete", {}, {}), Job("boolean", {}, {k1, k3}))}
MCKeywords == {k1, k2, k3, k4}
MCKeywordOrder == <<k1, k2, k3, k4>>
MCPrefixOf == (k1 :> p1) @@ (k2 :> p1) @@ (k3 :> p2) @@ (k4 :> p3)
MCNodeOf == (p1 :> n1) @@ (p2 :> n1) @@ (p3 :> n2)
MCContents == {{k1, k4}}

-----------------------------------------------------------------------------
QueryVars == <<stage, text, meant, asked, mode, found, answer>>
vars == <<part, gateVars, cacheVars, QueryVars, requestVars>>

\* The parts that are not chosen rest in one state.
Init ==
    /\ part \in Parts
    /\ IF part = "gate" THEN kind \in MCWorkloads
       ELSE kind = Load("mutation", "mutation", "retain", "query")
    /\ ring = e1
    /\ IF part = "cache" THEN change \in {ChangesOf(plan) : plan \in MCPlans}
       ELSE change = ChangesOf(Plan("insert", "forget"))
    /\ IF part = "query" THEN text \in MCTexts /\ mode \in MCModes
       ELSE text = <<"a">> /\ mode = "polynomial"
    /\ IF part = "manager" THEN job \in MCJobs
       ELSE job = Pair(Job("delete", {}, {}), Job("boolean", {}, {k1, k3}))
    /\ GateInit /\ CacheInit /\ Query!QueryInit /\ RequestInit

GateActs == part = "gate" /\ GateNext /\ UNCHANGED <<part, cacheVars, QueryVars, requestVars>>
CacheActs == part = "cache" /\ CacheNext /\ UNCHANGED <<part, gateVars, QueryVars, requestVars>>
QueryActs == part = "query" /\ Query!QueryNext /\ UNCHANGED <<part, gateVars, cacheVars, requestVars>>
ManagerActs == part = "manager" /\ RequestNext /\ UNCHANGED <<part, gateVars, cacheVars, QueryVars>>

Next == GateActs \/ CacheActs \/ QueryActs \/ ManagerActs

\* A storager or the manager does not stop while one of its calls can go on.  A
\* call takes finitely many steps, so which of them goes on need not be fair.
Spec == Init /\ [][Next]_vars /\ WF_vars(GateActs) /\ WF_vars(ManagerActs)

-----------------------------------------------------------------------------
\* The waits of a storager end, unless a notification was missed
\* (storager/src/storager.rs, the drops of the two guards).
StoragerWaitsEnd == part = "gate" => WaitsEnd

\* The manager reads the expression the client meant
\* (common/src/boolean_expr.rs, to_string and the parser).
ExpressionSurvives == part = "query" => Query!ExpressionSurvives

\* The client accepts what an honest manager builds, and it is the answer
\* (common/src/verification.rs; service.rs, the two proof trees).
HonestProofsVerify == part = "query" => Query!HonestProofsVerify

\* Every request ends (manager/src/core/manager.rs, acquire_subrequest_permits).
HandlersEnd == part = "manager" => RequestsEnd
=============================================================================
