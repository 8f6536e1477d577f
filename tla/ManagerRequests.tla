-------------------------- MODULE ManagerRequests --------------------------
(***************************************************************************)
(* The handlers of the manager as the requests they send to storagers, one *)
(* by one: order, permits, errors, retries, rollback, and what each answer *)
(* leaves in the manager's record of roots (manager/src/api/service.rs,    *)
(* core/manager.rs).  No prefix is split or migrates here: SplitMigration  *)
(* has that.                                                               *)
(*                                                                         *)
(* There is one file, so an index is the set of the keywords that have it, *)
(* and the root of an index is a function of that set: the set itself.     *)
(* Requests about different files meet only in the roots.                  *)
(***************************************************************************)
EXTENDS Naturals, Sequences, FiniteSets

CONSTANTS
    Keywords, KeywordOrder, PrefixOf, NodeOf,
    Nodes,
    Requests,
    Jobs,           \* the requests to explore: functions from Requests to jobs
    Contents,       \* sets of keywords that have the file at the start
    MaxInflight,    \* permits of the manager, and what one request has under way at most
    MaxPerStorager, \* permits of each storager
    DeleteRetries,  \* attempts of a deletion by an update
    MaxFaults       \* bound: subrequests that fail

Kinds == {"add", "batch", "delete", "update", "query", "boolean"}

\* The order has every keyword, and a prefix is on one storager.  Only an update
\* has both old and new keywords, and a query has one.
ASSUME RequestAssumption ==
    /\ PrefixOf \in [Keywords -> DOMAIN NodeOf] /\ NodeOf \in [DOMAIN NodeOf -> Nodes]
    /\ DOMAIN NodeOf \cap Nodes = {}
    /\ KeywordOrder \in Seq(Keywords)
    /\ \A k \in Keywords : \E i \in DOMAIN KeywordOrder : KeywordOrder[i] = k
    /\ Jobs \subseteq [Requests -> [kind : Kinds, old : SUBSET Keywords, new : SUBSET Keywords,
                                   parallel : BOOLEAN]]
    /\ \A jobs \in Jobs : \A r \in Requests :
         /\ jobs[r].kind \in {"add", "batch"} => jobs[r].old = {}
         /\ jobs[r].kind = "delete" => jobs[r].new = {}
         /\ jobs[r].kind = "query" => \E k \in Keywords : jobs[r].new = {k}
    /\ Contents \subseteq SUBSET Keywords

VARIABLES
    index,      \* storager -> the keywords that have the file
    roots,      \* root_hashes and root_accumulators of the manager
    summary,    \* the ring's root_summary of each prefix
    job,        \* request -> what it asks for
    req,        \* request -> how far it is
    faults,     \* failures so far
    \* What the properties remember.
    others,     \* request -> its keywords that another request served meanwhile
    calm,       \* queries whose storagers neither changed nor failed meanwhile
    unsure,     \* storagers and prefixes whose answers were lost, dropped or in no order
    latest      \* prefix -> its storager's root when it last answered about the prefix

requestVars == <<index, roots, summary, job, req, faults, others, calm, unsure, latest>>

Storager(k) == NodeOf[PrefixOf[k]]
Place(task) == NodeOf[task.prefix]
Topics(task) == {task.prefix, Place(task)}
HasFile(k) == k \in index[Storager(k)]

\* The tasks of a request, each at the place of its keyword in the order.
Places(ks) == {i \in DOMAIN KeywordOrder : KeywordOrder[i] \in ks}
Tasks(op, ks) ==
    [i \in Places(ks) |->
        [op |-> op, prefix |-> PrefixOf[KeywordOrder[i]], keys |-> {KeywordOrder[i]}]]

\* The items of a batch: one RPC for each storager and prefix.
Groups(ks) ==
    [p \in {PrefixOf[k] : k \in ks} |->
        [op |-> "add", prefix |-> p, keys |-> {k \in ks : PrefixOf[k] = p}]]

\* What an update took back, the other way round.
Undone(task) == [task EXCEPT !.op = IF @ = "add" THEN "delete" ELSE "add"]

Idle == [phase |-> "called", work |-> <<>>, flight |-> {}, done |-> <<>>,
         deleted |-> <<>>, added |-> <<>>, files |-> {}, answer |-> "none", undone |-> FALSE]

RequestInit ==
    /\ \E held \in Contents : index = [n \in Nodes |-> {k \in held : Storager(k) = n}]
    /\ roots = index
    /\ summary = [p \in DOMAIN NodeOf |-> index[NodeOf[p]]]
    /\ job \in Jobs
    /\ req = [r \in Requests |-> Idle]
    /\ faults = 0
    /\ others = [r \in Requests |-> {}]
    /\ calm = {r \in Requests : job[r].kind \in {"query", "boolean"}}
    /\ unsure = {} /\ latest = summary

InPhase(r, phase) == req[r].phase = phase
Running(r) == ~InPhase(r, "called") /\ ~InPhase(r, "ended")
Limited(r) == req[r].phase \in {"deleting", "taking", "giving", "undoing", "asking all"}

-----------------------------------------------------------------------------
(* Starting.                                                               *)

Goes(r, phase, work) ==
    req' = [req EXCEPT ![r].phase = phase, ![r].work = work, ![r].done = <<>>]

Begin(r) ==
    /\ InPhase(r, "called")
    /\ \/ job[r].kind = "add" /\ job[r].new # {} /\ Goes(r, "adding", Tasks("add", job[r].new))
       \/ job[r].kind = "batch" /\ Goes(r, "batch", Groups(job[r].new))
       \/ job[r].kind = "delete" /\ job[r].old # {} /\ Goes(r, "deleting", Tasks("delete", job[r].old))
       \/ job[r].kind = "update" /\ Goes(r, "taking", Tasks("delete", job[r].old))
       \/ job[r].kind = "query" /\ Goes(r, "asking", Tasks("query", job[r].new))
       \/ job[r].kind = "boolean" /\ Goes(r, "asking all", Tasks("query", job[r].new))
       \/ /\ job[r].kind \in {"add", "delete"} /\ job[r].old \cup job[r].new = {}
          /\ req' = [req EXCEPT ![r].phase = "ended", ![r].answer = "no keywords"]
    /\ UNCHANGED <<index, roots, summary, job, faults, others, calm, unsure, latest>>

\* A mistake: the last result decides.
LastOk(rs) == rs # <<>> => rs[Len(rs)].ok
AllOk(rs) == \A i \in DOMAIN rs : rs[i].ok

\* add and rollback_update send one at a time, batch_add one at a time or (with
\* AccTrie and AccTree) all at once, the others some at once: buffer_unordered.
MayLaunch(r) ==
    \/ InPhase(r, "adding") /\ req[r].flight = {} /\ req[r].done = <<>>
    \/ InPhase(r, "undoing") /\ req[r].flight = {}
    \/ InPhase(r, "batch") /\ (job[r].parallel \/ (req[r].flight = {} /\ AllOk(req[r].done)))
    \/ req[r].phase \in {"deleting", "taking", "giving", "asking", "asking all"}
       /\ Cardinality(req[r].flight) < MaxInflight

\* add goes by the sorted keywords and rollback_update by its lists; the others
\* take the keywords from a HashSet or HashMap.
InTurn(r) == InPhase(r, "adding") \/ InPhase(r, "undoing")

Without(work, i) == [j \in DOMAIN work \ {i} |-> work[j]]

Launch(r) ==
    /\ MayLaunch(r)
    /\ \E i \in DOMAIN req[r].work :
         /\ InTurn(r) => \A j \in DOMAIN req[r].work : i <= j
         /\ req' = [req EXCEPT
                ![r].work = Without(@, i),
                ![r].flight = @ \cup {[task |-> req[r].work[i], tries |-> 1, seen |-> {}, root |-> {},
                                       at |-> IF Limited(r) THEN "queued" ELSE "sent"]}]
    /\ UNCHANGED <<index, roots, summary, job, faults, others, calm, unsure, latest>>

-----------------------------------------------------------------------------
(* One subrequest: acquire_subrequest_permits, the RPC, its verification.   *)

Step(r, g, h) == req' = [req EXCEPT ![r].flight = (@ \ {g}) \cup {h}]
Flying == UNION {{<<r, g>> : g \in req[r].flight} : r \in {q \in Requests : Limited(q)}}

GlobalTaken == Cardinality({h \in Flying : h[2].at # "queued"})

\* A mistake: a subrequest that failed keeps its permit while its request runs.
TakenByFailures(n) ==
    Cardinality({h \in Flying : h[2].at \notin {"queued", "global"} /\ Place(h[2].task) = n})
    + Cardinality(UNION {{<<r, i>> : i \in {j \in DOMAIN req[r].done :
                            Limited(r) /\ ~req[r].done[j].ok /\ Place(req[r].done[j].task) = n}} :
                         r \in Requests})
Taken(n) ==
    Cardinality({h \in Flying : h[2].at \notin {"queued", "global"} /\ Place(h[2].task) = n})

TakeGlobal(r, g) ==
    /\ g.at = "queued" /\ GlobalTaken < MaxInflight
    /\ Step(r, g, [g EXCEPT !.at = "global"])
    /\ UNCHANGED <<index, roots, summary, job, faults, others, calm, unsure, latest>>

TakeLocal(r, g) ==
    /\ g.at = "global" /\ Taken(Place(g.task)) < MaxPerStorager
    /\ Step(r, g, [g EXCEPT !.at = "sent"])
    /\ UNCHANGED <<index, roots, summary, job, faults, others, calm, unsure, latest>>

\* Answers about x that the manager has not recorded yet, besides g of r.
Outstanding(r, g, x) ==
    \/ \E q \in Requests : \E h \in req[q].flight :
         <<q, h>> # <<r, g>> /\ h.at = "answered" /\ x \in Topics(h.task)
    \/ \E q \in Requests : (q # r \/ InPhase(r, "batch")) /\
         \E i \in DOMAIN req[q].done : req[q].done[i].came /\ x \in Topics(req[q].done[i].task)

\* What is remembered of an answer of a storager.
Answered(r, g) ==
    /\ latest' = [latest EXCEPT ![g.task.prefix] = index'[Place(g.task)]]
    /\ unsure' = (unsure \ Topics(g.task)) \cup {x \in Topics(g.task) : Outstanding(r, g, x)}

\* The storager adds or deletes, and makes the proof, in one step.
Serve(r, g) ==
    /\ g.at = "sent" /\ g.task.op # "query"
    /\ index' = [index EXCEPT ![Place(g.task)] =
                   IF g.task.op = "add" THEN @ \cup g.task.keys ELSE @ \ g.task.keys]
    /\ Step(r, g, [g EXCEPT !.at = "answered", !.root = index'[Place(g.task)]])
    /\ others' = [q \in Requests |->
                    IF q = r \/ InPhase(q, "called") THEN others[q]
                    ELSE others[q] \cup (g.task.keys \cap (job[q].old \cup job[q].new))]
    /\ calm' = {q \in calm : InPhase(q, "called") \/ \A k \in job[q].new : Storager(k) # Place(g.task)}
    /\ Answered(r, g)
    /\ UNCHANGED <<roots, summary, job, faults>>

\* A query reads the files with their proof, and then the root.
ReadFiles(r, g) ==
    /\ g.at = "sent" /\ g.task.op = "query"
    /\ Step(r, g, [g EXCEPT !.at = "read", !.seen = index[Place(g.task)]])
    /\ UNCHANGED <<index, roots, summary, job, faults, others, calm, unsure, latest>>

ReadRoot(r, g) ==
    /\ g.at = "read"
    /\ UNCHANGED <<index, roots, summary, job, faults, others, calm>>
    /\ Step(r, g, [g EXCEPT !.at = "answered", !.root = index[Place(g.task)]])
    /\ Answered(r, g)

\* A mistake: a proof is verified against the root on record.
VerifiesRecorded(g) == g.task.op = "query" => g.seen = roots[Place(g.task)]
Verifies(g) == g.task.op = "query" => g.seen = g.root

Result(g, came, ok) ==
    [task |-> g.task, came |-> came, ok |-> ok, root |-> g.root,
     files |-> g.seen \cap g.task.keys]

Latest(I) == CHOOSE i \in I : \A j \in I : j <= i

\* update_prefix_summary for each of the results at I, in their order.
WithSummaries(rs, I) ==
    [p \in DOMAIN NodeOf |->
        LET J == {i \in I : rs[i].task.prefix = p}
        IN  IF J = {} THEN summary[p] ELSE rs[Latest(J)].root]

\* A mistake: the first answer of a storager is kept.
FirstRoots(rs, I) ==
    [n \in Nodes |->
        LET J == {i \in I : Place(rs[i].task) = n}
        IN  IF J = {} THEN roots[n] ELSE rs[CHOOSE i \in J : \A j \in J : i <= j].root]
\* apply_root_state_updates of the last root of each storager.
WithRoots(rs, I) ==
    [n \in Nodes |->
        LET J == {i \in I : Place(rs[i].task) = n}
        IN  IF J = {} THEN roots[n] ELSE rs[Latest(J)].root]

Finish(r, g, result) ==
    req' = [req EXCEPT ![r].flight = @ \ {g}, ![r].done = Append(@, result)]

\* The rollback of an update records summaries as it goes.
Accept(r, g) ==
    /\ g.at = "answered" /\ Verifies(g)
    /\ Finish(r, g, Result(g, TRUE, TRUE))
    /\ summary' = IF InPhase(r, "undoing") THEN WithSummaries(<<Result(g, TRUE, TRUE)>>, {1}) ELSE summary
    /\ UNCHANGED <<index, roots, job, faults, others, calm, unsure, latest>>

\* An update tries a deletion again whose proof does not verify, with new
\* permits.  A batch verifies nothing.
Refuse(r, g) ==
    /\ g.at = "answered" /\ ~InPhase(r, "batch")
    /\ \/ ~Verifies(g) /\ UNCHANGED <<faults, calm>>
       \/ Verifies(g) /\ faults < MaxFaults /\ faults' = faults + 1 /\ calm' = calm \ {r}
    /\ IF InPhase(r, "taking") /\ g.tries < DeleteRetries
       THEN /\ Step(r, g, [g EXCEPT !.at = "queued", !.tries = @ + 1, !.root = {}])
            /\ unsure' = unsure \cup Topics(g.task)
       ELSE Finish(r, g, Result(g, TRUE, FALSE)) /\ UNCHANGED unsure
    /\ UNCHANGED <<index, roots, summary, job, others, latest>>

\* The connection or the RPC fails, before the storager served it or after.
Fail(r, g) ==
    /\ g.at \in {"sent", "answered"} /\ faults < MaxFaults
    /\ faults' = faults + 1
    /\ Finish(r, g, Result(g, FALSE, FALSE))
    /\ calm' = calm \ {r}
    /\ unsure' = IF g.at = "answered" THEN unsure \cup Topics(g.task) ELSE unsure
    /\ UNCHANGED <<index, roots, summary, job, others, latest>>

-----------------------------------------------------------------------------
(* What a handler makes of the results, in the order they came.            *)

\* The results before the first error, the good ones, those a storager gave.
Before(rs) == {i \in DOMAIN rs : \A j \in 1..i : rs[j].ok}
OkOf(rs) == {i \in DOMAIN rs : rs[i].ok}
CameOf(rs) == {i \in DOMAIN rs : rs[i].came}
IfAllOk(rs) == IF AllOk(rs) THEN DOMAIN rs ELSE {}

\* The orders in which batch_add may see the results of its groups.
Orders(rs) ==
    {[i \in DOMAIN rs |-> rs[f[i]]] : f \in
        {f \in [DOMAIN rs -> DOMAIN rs] : \A i \in DOMAIN rs : \E j \in DOMAIN rs : f[j] = i}}

KeysOf(tasks) == UNION {tasks[i].keys : i \in DOMAIN tasks}
TasksOf(rs, I) == [i \in I |-> rs[i].task]

\* The answers of rs, but for those at I: nothing is recorded of them.
Lost(rs, I) == {i \in DOMAIN rs \ I : rs[i].came}

\* Of the results, the roots at I are recorded and the summaries at J.
Record(rs, I, J) ==
    /\ roots' = WithRoots(rs, I)
    /\ summary' = WithSummaries(rs, J)
    /\ unsure' = unsure \cup {Place(rs[i].task) : i \in Lost(rs, I)}
                        \cup {rs[i].task.prefix : i \in Lost(rs, J)}
    /\ UNCHANGED <<index, job, faults, others, calm, latest>>

Ends(r, answer) ==
    req' = [req EXCEPT ![r].phase = "ended", ![r].work = <<>>, ![r].done = <<>>, ![r].answer = answer]
AllSent(r) == DOMAIN req[r].work = {}
Over(r, phase) == InPhase(r, phase) /\ AllSent(r) /\ req[r].flight = {}

\* add: the root is recorded before the proof is verified.
EndAdd(r) ==
    /\ InPhase(r, "adding") /\ req[r].done # <<>>
    /\ LET rs == req[r].done IN
       /\ Record(rs, CameOf(rs), OkOf(rs))
       /\ IF ~AllOk(rs) THEN Ends(r, "error")
          ELSE IF AllSent(r) THEN Ends(r, "ok") ELSE Goes(r, "adding", req[r].work)

\* batch_add: the results are in the order of the groups, which is any; one
\* after the other, an error leaves nothing recorded.
EndBatch(r) ==
    /\ InPhase(r, "batch") /\ req[r].flight = {}
    /\ LET rs == req[r].done IN
       /\ AllSent(r) \/ (~job[r].parallel /\ ~AllOk(rs))
       /\ IF job[r].parallel
          THEN \E os \in Orders(rs) : Record(os, Before(os), Before(os))
          ELSE Record(rs, IfAllOk(rs), IfAllOk(rs))
       /\ Ends(r, IF AllOk(rs) THEN "ok" ELSE "error")

\* delete, and the first phase of update: the roots are recorded if nothing
\* failed, and the deletions up to the first error.
EndDelete(r) ==
    /\ Over(r, "deleting")
    /\ Record(req[r].done, IfAllOk(req[r].done), Before(req[r].done))
    /\ Ends(r, IF AllOk(req[r].done) THEN "ok" ELSE "error")

EndTaking(r) ==
    /\ Over(r, "taking")
    /\ LET rs == req[r].done IN
       /\ Record(rs, IfAllOk(rs), Before(rs))
       /\ IF AllOk(rs)
          THEN req' = [req EXCEPT ![r].phase = "giving", ![r].work = Tasks("add", job[r].new),
                                  ![r].done = <<>>, ![r].deleted = TasksOf(rs, DOMAIN rs)]
          ELSE Ends(r, "error")

\* A mistake: all that was to be added is taken for added.
AllGiven(r) == TasksOf(req[r].done, DOMAIN req[r].done)
Given(r) == TasksOf(req[r].done, Before(req[r].done))

\* The second phase: the roots are recorded up to the first error, and what
\* came before it is undone.
EndGiving(r) ==
    /\ Over(r, "giving")
    /\ LET rs == req[r].done
           undo == req[r].deleted \o Given(r)
       IN  /\ Record(rs, Before(rs), IfAllOk(rs))
           /\ IF AllOk(rs) THEN Ends(r, "ok")
              ELSE req' = [req EXCEPT ![r].phase = "undoing", ![r].done = <<>>,
                                      ![r].work = [i \in DOMAIN undo |-> Undone(undo[i])],
                                      ![r].added = TasksOf(rs, Before(rs))]

\* rollback_update: what fails is passed over.
EndUndoing(r) ==
    /\ Over(r, "undoing")
    /\ Record(req[r].done, OkOf(req[r].done), OkOf(req[r].done))
    /\ req' = [req EXCEPT ![r].phase = "ended", ![r].done = <<>>, ![r].answer = "error",
                          ![r].undone = AllOk(req[r].done)]

\* query_single_keyword: the root is recorded whether the proof verifies or not.
EndAsking(r) ==
    /\ Over(r, "asking")
    /\ LET rs == req[r].done IN
       /\ Record(rs, CameOf(rs), CameOf(rs))
       /\ req' = [req EXCEPT
             ![r].phase = "ended", ![r].done = <<>>, ![r].files = IF AllOk(rs) THEN rs[1].files ELSE {},
             ![r].answer = IF AllOk(rs) THEN "ok" ELSE IF rs[1].came THEN "unverified" ELSE "error"]

\* query_boolean_function
EndAskingAll(r) ==
    /\ Over(r, "asking all")
    /\ LET rs == req[r].done IN
       /\ Record(rs, IfAllOk(rs), IfAllOk(rs))
       /\ req' = [req EXCEPT
             ![r].phase = "ended", ![r].done = <<>>,
             ![r].files = UNION {rs[i].files : i \in IfAllOk(rs)},
             ![r].answer = IF AllOk(rs) THEN "ok" ELSE "error"]

RequestStep(r) ==
    \/ Begin(r) \/ Launch(r)
    \/ \E g \in req[r].flight :
         \/ TakeGlobal(r, g) \/ TakeLocal(r, g) \/ Serve(r, g) \/ ReadFiles(r, g) \/ ReadRoot(r, g)
         \/ Accept(r, g) \/ Refuse(r, g) \/ Fail(r, g)
    \/ EndAdd(r) \/ EndBatch(r) \/ EndDelete(r) \/ EndTaking(r) \/ EndGiving(r) \/ EndUndoing(r)
    \/ EndAsking(r) \/ EndAskingAll(r)

RequestNext == \E r \in Requests : RequestStep(r)
RequestSpec == RequestInit /\ [][RequestNext]_requestVars

-----------------------------------------------------------------------------
(* Properties.                                                             *)

Answer(r, a) == InPhase(r, "ended") /\ req[r].answer = a

\* A request answered with success did all it was asked to: each of its
\* keywords is as it asked, unless another request served the keyword since it
\* began (service.rs, the loops over results and their early returns).
AcknowledgedIsDone ==
    \A r \in Requests : Answer(r, "ok") /\ job[r].kind \notin {"query", "boolean"} =>
        /\ \A k \in job[r].new \ others[r] : HasFile(k)
        /\ \A k \in job[r].old \ (job[r].new \cup others[r]) : ~HasFile(k)

\* An update that failed among its additions and whose rollback met no error
\* leaves what it deleted with the file, and what it knew it had added without
\* it (service.rs, rollback_update), a keyword it did both to included: that one
\* is deleted last.
FailedUpdateUndone ==
    \A r \in Requests : req[r].undone =>
        LET given == KeysOf(req[r].added) IN
        /\ \A k \in KeysOf(req[r].deleted) \ (given \cup others[r]) : HasFile(k)
        /\ \A k \in given \ others[r] : ~HasFile(k)

\* When nothing is under way, the root on record of a storager is the root of
\* its index, and the summary of a prefix is the root its storager had when it
\* last answered about it, unless answers were lost or dropped, or came while
\* others were outstanding (service.rs, the updates of roots and summaries).
RootsFollow ==
    (\A r \in Requests : ~Running(r)) =>
        /\ \A n \in Nodes \ unsure : roots[n] = index[n]
        /\ \A p \in DOMAIN NodeOf \ unsure : summary[p] = latest[p]

\* A query is answered, verified, with the files the keywords have, when their
\* storagers neither changed nor failed meanwhile, whatever roots the manager
\* has on record (service.rs, query_single_keyword and query_boolean_function).
QuietQueriesAnswered ==
    \A r \in calm : InPhase(r, "ended") =>
        Answer(r, "ok") /\ req[r].files = {k \in job[r].new : HasFile(k)}

\* Every request ends: permits are given back, retries and rollback are bounded
\* (core/manager.rs, acquire_subrequest_permits).
RequestsEnd == <>(\A r \in Requests : InPhase(r, "ended"))
=============================================================================
