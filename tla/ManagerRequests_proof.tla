----------------------- MODULE ManagerRequests_proof -----------------------
(***************************************************************************)
(* Theorems about ManagerRequests, for any keywords, storagers, requests,  *)
(* permits and failures: success means done, a rollback without an error   *)
(* undoes, and a query that nothing disturbs is answered with the files;   *)
(* in the second part, that the record of roots is right.                  *)
(*                                                                         *)
(* Each of the first speaks of the end of a request only.  What leads      *)
(* there is that every keyword of the phase has been served, or one of the *)
(* tasks the request still has to send, has under way or has seen fail is  *)
(* about it (Covered; UndoneInOrder for the two lists of a rollback).  A   *)
(* task leaves these when a storager's answer to it is accepted, and such  *)
(* an answer holds still (AnswersHold) unless another request served the   *)
(* keyword, which `others` remembers.  In a rollback a keyword may be in   *)
(* both lists; its deletion is sent after every addition was answered.     *)
(***************************************************************************)
EXTENDS ManagerRequests, SequenceTheorems, WellFoundedInduction, TLAPS

-----------------------------------------------------------------------------
(* Types.                                                                  *)

TaskSet ==
    {t \in [op : {"add", "delete", "query"}, prefix : DOMAIN NodeOf, keys : SUBSET Keywords] :
        \A k \in t.keys : PrefixOf[k] = t.prefix}
Points == {"queued", "global", "sent", "read", "answered"}
FlightSet ==
    [task : TaskSet, tries : Nat, seen : SUBSET Keywords, root : SUBSET Keywords, at : Points]
ResultSet ==
    [task : TaskSet, came : BOOLEAN, ok : BOOLEAN, root : SUBSET Keywords, files : SUBSET Keywords]
WorkSet == UNION {[D -> TaskSet] : D \in SUBSET (Nat \cup DOMAIN NodeOf)}
Phases == {"called", "adding", "batch", "deleting", "taking", "giving", "undoing",
           "asking", "asking all", "ended"}
Progress ==
    [phase : Phases, work : WorkSet, flight : SUBSET FlightSet, done : Seq(ResultSet),
     deleted : Seq(TaskSet), added : Seq(TaskSet), files : SUBSET Keywords,
     answer : {"none", "ok", "error", "unverified", "no keywords"}, undone : BOOLEAN]

Typed ==
    /\ index \in [Nodes -> SUBSET Keywords] /\ roots \in [Nodes -> SUBSET Keywords]
    /\ summary \in [DOMAIN NodeOf -> SUBSET Keywords]
    /\ latest \in [DOMAIN NodeOf -> SUBSET Keywords]
    /\ job \in Jobs
    /\ req \in [Requests -> Progress]
    /\ others \in [Requests -> SUBSET Keywords]
    /\ calm \subseteq Requests

-----------------------------------------------------------------------------
(* The invariant.                                                          *)

\* The tasks of what a request is doing, and those of them not known to be done.
Waiting(r) == {req[r].work[i] : i \in DOMAIN req[r].work}
Flown(r) == {g.task : g \in req[r].flight}
Ours(r) == Waiting(r) \cup Flown(r) \cup {req[r].done[i].task : i \in DOMAIN req[r].done}
Open(r) ==
    Waiting(r) \cup Flown(r)
    \cup {req[r].done[i].task : i \in {j \in DOMAIN req[r].done : ~req[r].done[j].ok}}

Adds(r) == req[r].phase \in {"adding", "batch", "giving"}
Deletes(r) == req[r].phase \in {"deleting", "taking"}
Asks(r) == req[r].phase \in {"asking", "asking all"}

\* Each kind of request has its phases.
InItsPhase(r) ==
    /\ InPhase(r, "adding") => job[r].kind = "add"
    /\ InPhase(r, "batch") => job[r].kind = "batch"
    /\ InPhase(r, "deleting") => job[r].kind = "delete"
    /\ req[r].phase \in {"taking", "giving", "undoing"} => job[r].kind = "update"
    /\ InPhase(r, "asking") => job[r].kind = "query"
    /\ InPhase(r, "asking all") => job[r].kind = "boolean"
    /\ req[r].undone => InPhase(r, "ended")

\* Outside the rollback all tasks of a phase are of one kind, about keywords of
\* the job; the rollback is about what was deleted and added.
OfThePhase(r) ==
    /\ \A t \in Ours(r) :
         /\ Adds(r) => t.op = "add" /\ t.keys \subseteq job[r].new
         /\ Deletes(r) => t.op = "delete" /\ t.keys \subseteq job[r].old
         /\ Asks(r) => t.op = "query" /\ t.keys \subseteq job[r].new /\ t.keys # {}
         /\ InPhase(r, "undoing") =>
              \/ t.op = "add" /\ t.keys \subseteq job[r].old
              \/ t.op = "delete" /\ t.keys \subseteq KeysOf(req[r].added)
    /\ Asks(r) => \A k \in job[r].new : \E t \in Ours(r) : k \in t.keys
    /\ \A i \in DOMAIN req[r].deleted :
         req[r].deleted[i].op = "delete" /\ req[r].deleted[i].keys \subseteq job[r].old
    /\ \A i \in DOMAIN req[r].added :
         req[r].added[i].op = "add" /\ req[r].added[i].keys \subseteq job[r].new

\* Where requests go one at a time, and where nothing is under way.
OneAtATime(r) ==
    /\ req[r].phase \in {"adding", "undoing"} => \A g, h \in req[r].flight : g = h
    /\ InPhase(r, "adding") /\ req[r].done # <<>> => req[r].flight = {}
    /\ ~Running(r) => req[r].flight = {}

\* A storager's answer is about what it did, and only a query reads twice.
AnswersHold(r) ==
    /\ \A g \in req[r].flight : g.at = "read" => g.task.op = "query"
    /\ \A g \in req[r].flight : g.at = "answered" =>
        \A k \in g.task.keys \ others[r] :
            /\ g.task.op = "add" => HasFile(k)
            /\ g.task.op = "delete" => ~HasFile(k)

\* What is not done yet is still to be done, or is under way, or has failed.
Covered(r) ==
    /\ Adds(r) => \A k \in job[r].new \ others[r] :
         HasFile(k) \/ \E t \in Open(r) : k \in t.keys
    /\ Deletes(r) => \A k \in job[r].old \ others[r] :
         ~HasFile(k) \/ \E t \in Open(r) : k \in t.keys
    /\ InPhase(r, "giving") => \A k \in job[r].old \ (job[r].new \cup others[r]) : ~HasFile(k)

\* The rollback adds again first and deletes then, so that a keyword both
\* deleted and added is left without the file.
UndoneInOrder(r) == InPhase(r, "undoing") =>
    /\ DOMAIN req[r].work \subseteq Nat
    /\ \A i, j \in DOMAIN req[r].work :
         req[r].work[i].op = "delete" /\ req[r].work[j].op = "add" => j < i
    /\ (\E t \in Waiting(r) \cup Flown(r) : t.op = "add") =>
         \A k \in KeysOf(req[r].added) : \E t \in Waiting(r) : t.op = "delete" /\ k \in t.keys
    /\ \A k \in KeysOf(req[r].deleted) \ (KeysOf(req[r].added) \cup others[r]) :
         HasFile(k) \/ \E t \in Open(r) : t.op = "add" /\ k \in t.keys
    /\ \A k \in KeysOf(req[r].added) \ others[r] :
         ~HasFile(k) \/ \E t \in Open(r) : t.op = "delete" /\ k \in t.keys

\* A query that nothing disturbed has read what the indexes still hold.
Undisturbed(r) == r \in calm =>
    /\ job[r].kind \in {"query", "boolean"}
    /\ req[r].phase \in {"called", "asking", "asking all", "ended"}
    /\ \A g \in req[r].flight :
         /\ g.at \in {"read", "answered"} => g.seen = index[Place(g.task)]
         /\ g.at = "answered" => g.root = index[Place(g.task)]
    /\ Asks(r) => \A i \in DOMAIN req[r].done :
         /\ req[r].done[i].ok
         /\ req[r].done[i].files = index[Place(req[r].done[i].task)] \cap req[r].done[i].task.keys
    /\ InPhase(r, "ended") => Answer(r, "ok") /\ req[r].files = {k \in job[r].new : HasFile(k)}

Kept(r) ==
    /\ Answer(r, "ok") /\ job[r].kind \notin {"query", "boolean"} =>
         /\ \A k \in job[r].new \ others[r] : HasFile(k)
         /\ \A k \in job[r].old \ (job[r].new \cup others[r]) : ~HasFile(k)
    /\ req[r].undone =>
         /\ \A k \in KeysOf(req[r].deleted) \ (KeysOf(req[r].added) \cup others[r]) : HasFile(k)
         /\ \A k \in KeysOf(req[r].added) \ others[r] : ~HasFile(k)

HandlerInv(r) ==
    /\ InItsPhase(r) /\ OfThePhase(r) /\ OneAtATime(r) /\ AnswersHold(r)
    /\ Covered(r) /\ UndoneInOrder(r) /\ Undisturbed(r) /\ Kept(r)

IInv == Typed /\ \A r \in Requests : HandlerInv(r)

-----------------------------------------------------------------------------
(* What an update of req leaves.                                           *)

\* The other requests are left alone.
Alone(r) == \A s \in Requests \ {r} : req'[s] = req[s]

\* A flight is replaced.
LEMMA StepFields ==
    ASSUME Typed, NEW r \in Requests, NEW g, NEW h \in FlightSet, Step(r, g, h)
    PROVE  /\ req' \in [Requests -> Progress] /\ Alone(r)
           /\ req'[r].flight = (req[r].flight \ {g}) \cup {h}
           /\ req'[r].phase = req[r].phase /\ req'[r].work = req[r].work
           /\ req'[r].done = req[r].done /\ req'[r].deleted = req[r].deleted
           /\ req'[r].added = req[r].added /\ req'[r].files = req[r].files
           /\ req'[r].answer = req[r].answer /\ req'[r].undone = req[r].undone
<1>1. req[r] \in Progress
  BY DEF Typed
<1>2. (req[r].flight \ {g}) \cup {h} \in SUBSET FlightSet
  BY <1>1 DEF Progress
<1> QED BY <1>1, <1>2 DEF Typed, Step, Alone, Progress

\* A flight becomes a result.
LEMMA FinishFields ==
    ASSUME Typed, NEW r \in Requests, NEW g, NEW result \in ResultSet, Finish(r, g, result)
    PROVE  /\ req' \in [Requests -> Progress] /\ Alone(r)
           /\ req'[r].flight = req[r].flight \ {g}
           /\ req'[r].done = Append(req[r].done, result)
           /\ req'[r].phase = req[r].phase /\ req'[r].work = req[r].work
           /\ req'[r].deleted = req[r].deleted
           /\ req'[r].added = req[r].added /\ req'[r].files = req[r].files
           /\ req'[r].answer = req[r].answer /\ req'[r].undone = req[r].undone
<1>1. req[r] \in Progress
  BY DEF Typed
<1>2. (req[r].flight \ {g}) \in SUBSET FlightSet /\ Append(req[r].done, result) \in Seq(ResultSet)
  BY <1>1, AppendProperties DEF Progress
<1> QED BY <1>1, <1>2 DEF Typed, Finish, Alone, Progress

\* A request goes on to a phase with its work.
LEMMA GoesFields ==
    ASSUME Typed, NEW r \in Requests, NEW phase \in Phases, NEW work \in WorkSet,
           Goes(r, phase, work)
    PROVE  /\ req' \in [Requests -> Progress] /\ Alone(r)
           /\ req'[r].phase = phase /\ req'[r].work = work /\ req'[r].done = <<>>
           /\ req'[r].flight = req[r].flight /\ req'[r].deleted = req[r].deleted
           /\ req'[r].added = req[r].added /\ req'[r].files = req[r].files
           /\ req'[r].answer = req[r].answer /\ req'[r].undone = req[r].undone
<1>1. req[r] \in Progress
  BY DEF Typed
<1>2. <<>> \in Seq(ResultSet)
  BY EmptySeq
<1> QED BY <1>1, <1>2 DEF Typed, Goes, Alone, Progress

\* A task is taken from the work.
LEMMA LaunchFields ==
    ASSUME Typed, NEW r \in Requests, Launch(r)
    PROVE  /\ req' \in [Requests -> Progress] /\ Alone(r)
           /\ req'[r].phase = req[r].phase
           /\ req'[r].done = req[r].done /\ req'[r].deleted = req[r].deleted
           /\ req'[r].added = req[r].added /\ req'[r].files = req[r].files
           /\ req'[r].answer = req[r].answer /\ req'[r].undone = req[r].undone
           /\ \E i \in DOMAIN req[r].work : \E h \in FlightSet :
                /\ InTurn(r) => \A j \in DOMAIN req[r].work : i <= j
                /\ h.task = req[r].work[i] /\ h.at \in {"queued", "sent"}
                /\ req'[r].work = Without(req[r].work, i)
                /\ req'[r].flight = req[r].flight \cup {h}
<1>1. PICK i \in DOMAIN req[r].work :
        /\ InTurn(r) => \A j \in DOMAIN req[r].work : i <= j
        /\ req' = [req EXCEPT
               ![r].work = Without(@, i),
               ![r].flight = @ \cup {[task |-> req[r].work[i], tries |-> 1, seen |-> {}, root |-> {},
                                      at |-> IF Limited(r) THEN "queued" ELSE "sent"]}]
  BY DEF Launch
<1>2. req[r] \in Progress
  BY DEF Typed
<1>3. PICK D \in SUBSET (Nat \cup DOMAIN NodeOf) : req[r].work \in [D -> TaskSet]
  BY <1>2 DEF Progress, WorkSet
<1>4. Without(req[r].work, i) \in WorkSet
  <2>1. D \ {i} \in SUBSET (Nat \cup DOMAIN NodeOf)
    OBVIOUS
  <2>2. Without(req[r].work, i) \in [D \ {i} -> TaskSet]
    BY <1>3 DEF Without
  <2> QED BY <2>1, <2>2 DEF WorkSet
<1> DEFINE h == [task |-> req[r].work[i], tries |-> 1, seen |-> {}, root |-> {},
                 at |-> IF Limited(r) THEN "queued" ELSE "sent"]
<1>5. h \in FlightSet /\ h.task = req[r].work[i] /\ h.at \in {"queued", "sent"}
  <2>1. req[r].work[i] \in TaskSet
    BY <1>1, <1>3
  <2> QED BY <2>1 DEF FlightSet, Points
<1>6. req[r].flight \cup {h} \in SUBSET FlightSet
  BY <1>2, <1>5 DEF Progress
<1>7. req' = [req EXCEPT ![r].work = Without(@, i), ![r].flight = @ \cup {h}]
  BY <1>1
<1> HIDE DEF h
<1>8. /\ req' \in [Requests -> Progress] /\ Alone(r)
      /\ req'[r].phase = req[r].phase
      /\ req'[r].done = req[r].done /\ req'[r].deleted = req[r].deleted
      /\ req'[r].added = req[r].added /\ req'[r].files = req[r].files
      /\ req'[r].answer = req[r].answer /\ req'[r].undone = req[r].undone
      /\ req'[r].work = Without(req[r].work, i)
      /\ req'[r].flight = req[r].flight \cup {h}
  BY <1>2, <1>4, <1>6, <1>7 DEF Typed, Alone, Progress
<1> QED BY <1>1, <1>5, <1>8

\* A request ends early or after its last result.
LEMMA EndsFields ==
    ASSUME Typed, NEW r \in Requests, NEW answer \in {"ok", "error"}, Ends(r, answer)
    PROVE  /\ req' \in [Requests -> Progress] /\ Alone(r)
           /\ req'[r].phase = "ended" /\ req'[r].answer = answer /\ req'[r].done = <<>>
           /\ req'[r].flight = req[r].flight /\ req'[r].deleted = req[r].deleted
           /\ req'[r].added = req[r].added /\ req'[r].files = req[r].files
           /\ req'[r].undone = req[r].undone
<1>1. req[r] \in Progress
  BY DEF Typed
<1>2. <<>> \in Seq(ResultSet) /\ <<>> \in WorkSet
  <2>1. <<>> \in [{} -> TaskSet]
    OBVIOUS
  <2> QED BY <2>1, EmptySeq DEF WorkSet
<1>3. "ended" \in Phases
  BY DEF Phases
<1> QED BY <1>1, <1>2, <1>3 DEF Typed, Ends, Alone, Progress

-----------------------------------------------------------------------------
(* The helpers.                                                            *)

\* A job of the program.
LEMMA JobTyped ==
    ASSUME Typed, NEW r \in Requests
    PROVE  /\ job[r].kind \in Kinds /\ job[r].old \subseteq Keywords /\ job[r].new \subseteq Keywords
           /\ job[r].kind \in {"add", "batch"} => job[r].old = {}
           /\ job[r].kind = "delete" => job[r].new = {}
           /\ job[r].kind = "query" => \E k \in Keywords : job[r].new = {k}
BY RequestAssumption DEF Typed

\* The tasks of a set of keywords: at a place in the order each, together all of them.
LEMMA TasksTyped ==
    ASSUME NEW op \in {"add", "delete", "query"}, NEW ks \in SUBSET Keywords
    PROVE  /\ Tasks(op, ks) \in WorkSet
           /\ \A i \in DOMAIN Tasks(op, ks) :
                /\ Tasks(op, ks)[i].op = op
                /\ Tasks(op, ks)[i].keys \subseteq ks /\ Tasks(op, ks)[i].keys # {}
           /\ \A k \in ks : \E i \in DOMAIN Tasks(op, ks) : k \in Tasks(op, ks)[i].keys
<1>1. Places(ks) \in SUBSET (Nat \cup DOMAIN NodeOf)
  <2>1. DOMAIN KeywordOrder = 1 .. Len(KeywordOrder) /\ Len(KeywordOrder) \in Nat
    BY RequestAssumption, LenProperties
  <2> QED BY <2>1 DEF Places
<1>2. ASSUME NEW i \in Places(ks)
      PROVE  /\ KeywordOrder[i] \in ks
             /\ [op |-> op, prefix |-> PrefixOf[KeywordOrder[i]], keys |-> {KeywordOrder[i]}] \in TaskSet
  <2>1. KeywordOrder[i] \in ks /\ KeywordOrder[i] \in Keywords
    BY DEF Places
  <2>2. PrefixOf[KeywordOrder[i]] \in DOMAIN NodeOf
    BY <2>1, RequestAssumption
  <2> QED BY <2>1, <2>2 DEF TaskSet
<1>3. Tasks(op, ks) \in [Places(ks) -> TaskSet]
  BY <1>2 DEF Tasks
<1>4. \A k \in ks : \E i \in Places(ks) : KeywordOrder[i] = k
  BY RequestAssumption DEF Places
<1>5. Tasks(op, ks) \in WorkSet
  BY <1>1, <1>3 DEF WorkSet
<1> QED BY <1>2, <1>4, <1>5 DEF Tasks

\* The groups of a batch: one for each prefix, together all of the keywords.
LEMMA GroupsTyped ==
    ASSUME NEW ks \in SUBSET Keywords
    PROVE  /\ Groups(ks) \in WorkSet
           /\ \A p \in DOMAIN Groups(ks) :
                Groups(ks)[p].op = "add" /\ Groups(ks)[p].keys \subseteq ks
           /\ \A k \in ks : \E p \in DOMAIN Groups(ks) : k \in Groups(ks)[p].keys
<1>1. {PrefixOf[k] : k \in ks} \in SUBSET (Nat \cup DOMAIN NodeOf)
  BY RequestAssumption
<1>2. ASSUME NEW p \in {PrefixOf[k] : k \in ks}
      PROVE  [op |-> "add", prefix |-> p, keys |-> {k \in ks : PrefixOf[k] = p}] \in TaskSet
  <2>1. p \in DOMAIN NodeOf
    BY RequestAssumption
  <2> QED BY <2>1 DEF TaskSet
<1>3. Groups(ks) \in [{PrefixOf[k] : k \in ks} -> TaskSet]
  BY <1>2 DEF Groups
<1>4. Groups(ks) \in WorkSet
  BY <1>1, <1>3 DEF WorkSet
<1> QED BY <1>4 DEF Groups

\* A nonempty set of naturals has a least one.
LEMMA LeastOf ==
    ASSUME NEW T \in SUBSET Nat, T # {}
    PROVE  \E x \in T : \A y \in T : x <= y
<1>1. IsWellFoundedOn(OpToRel(<, Nat), Nat)
  BY NatLessThanWellFounded
<1>2. PICK x \in T : \A y \in T : ~(<<y, x>> \in OpToRel(<, Nat))
  BY <1>1, WFMin
<1>3. \A y \in T : ~(y < x)
  BY <1>2 DEF OpToRel
<1> QED BY <1>3

\* The latest of some positions is one of them, and none of them is later.
LEMMA LatestIsLast ==
    ASSUME NEW n \in Nat, NEW J \in SUBSET (1..n), J # {}
    PROVE  Latest(J) \in J /\ \A j \in J : j <= Latest(J)
<1> DEFINE T == {n - j : j \in J}
<1>1. T \in SUBSET Nat /\ T # {}
  <2>1. \A j \in J : n - j \in Nat
    OBVIOUS
  <2> QED BY <2>1
<1>2. PICK x \in T : \A y \in T : x <= y
  BY <1>1, LeastOf
<1>3. PICK i \in J : x = n - i
  BY <1>2
<1>4. ASSUME NEW j \in J
      PROVE  j <= i
  <2>1. n - j \in T
    OBVIOUS
  <2>2. n - i <= n - j
    BY <1>2, <1>3, <2>1
  <2> QED BY <2>2
<1>5. \E k \in J : \A j \in J : j <= k
  BY <1>4
<1> QED BY <1>5 DEF Latest

\* The results before the first error are the first so many.
LEMMA BeforeIsPrefix ==
    ASSUME NEW rs \in Seq(ResultSet)
    PROVE  \E m \in 0 .. Len(rs) : Before(rs) = 1 .. m
<1>1. Len(rs) \in Nat /\ DOMAIN rs = 1 .. Len(rs)
  BY LenProperties
<1> DEFINE T == {i \in DOMAIN rs : ~rs[i].ok}
<1>2. CASE T = {}
  <2>1. Before(rs) = 1 .. Len(rs)
    BY <1>1, <1>2 DEF Before
  <2>2. Len(rs) \in 0 .. Len(rs)
    BY <1>1
  <2> QED BY <2>1, <2>2
<1>3. CASE T # {}
  <2>1. T \in SUBSET Nat
    BY <1>1
  <2>2. PICK x \in T : \A y \in T : x <= y
    BY <1>3, <2>1, LeastOf
  <2>3. x \in 1 .. Len(rs) /\ ~rs[x].ok
    BY <1>1
  <2>4. \A j \in 1 .. (x - 1) : rs[j].ok
    BY <1>1, <2>2, <2>3
  <2>5. Before(rs) = 1 .. (x - 1)
    BY <1>1, <2>3, <2>4 DEF Before
  <2>6. x - 1 \in 0 .. Len(rs)
    BY <1>1, <2>3
  <2> QED BY <2>5, <2>6
<1> QED BY <1>2, <1>3

\* The tasks of the results, and of those before the first error.
LEMMA TasksOfTyped ==
    ASSUME NEW rs \in Seq(ResultSet)
    PROVE  TasksOf(rs, DOMAIN rs) \in Seq(TaskSet) /\ TasksOf(rs, Before(rs)) \in Seq(TaskSet)
<1>1. Len(rs) \in Nat /\ DOMAIN rs = 1 .. Len(rs) /\ rs \in [1 .. Len(rs) -> ResultSet]
  BY LenProperties
<1>2. ASSUME NEW m \in 0 .. Len(rs)
      PROVE  TasksOf(rs, 1 .. m) \in Seq(TaskSet)
  <2>1. TasksOf(rs, 1 .. m) \in [1 .. m -> TaskSet]
    BY <1>1 DEF TasksOf, ResultSet
  <2> QED BY <2>1, <1>1, IsASeq
<1>3. PICK m \in 0 .. Len(rs) : Before(rs) = 1 .. m
  BY BeforeIsPrefix
<1>4. Len(rs) \in 0 .. Len(rs)
  BY <1>1
<1> QED BY <1>1, <1>2, <1>3, <1>4

\* Recording answers keeps roots and summaries sets of keywords.
LEMMA RecordTyped ==
    ASSUME Typed, NEW rs \in Seq(ResultSet), NEW I \in SUBSET (DOMAIN rs)
    PROVE  /\ WithRoots(rs, I) \in [Nodes -> SUBSET Keywords]
           /\ WithSummaries(rs, I) \in [DOMAIN NodeOf -> SUBSET Keywords]
<1>1. Len(rs) \in Nat /\ DOMAIN rs = 1 .. Len(rs) /\ \A i \in 1 .. Len(rs) : rs[i] \in ResultSet
  BY LenProperties
<1>2. ASSUME NEW J \in SUBSET I, J # {}
      PROVE  rs[Latest(J)].root \in SUBSET Keywords
  <2>1. Latest(J) \in 1 .. Len(rs)
    BY <1>1, <1>2, LatestIsLast
  <2> QED BY <1>1, <2>1 DEF ResultSet
<1>3. WithRoots(rs, I) \in [Nodes -> SUBSET Keywords]
  <2> SUFFICES ASSUME NEW n \in Nodes
               PROVE  (IF {i \in I : Place(rs[i].task) = n} = {} THEN roots[n]
                       ELSE rs[Latest({i \in I : Place(rs[i].task) = n})].root) \in SUBSET Keywords
    BY DEF WithRoots
  <2> DEFINE J == {i \in I : Place(rs[i].task) = n}
  <2>1. J \in SUBSET I
    OBVIOUS
  <2>2. roots[n] \in SUBSET Keywords
    BY DEF Typed
  <2> HIDE DEF J
  <2>3. (IF J = {} THEN roots[n] ELSE rs[Latest(J)].root) \in SUBSET Keywords
    BY <1>2, <2>1, <2>2
  <2> QED BY <2>3 DEF J
<1>4. WithSummaries(rs, I) \in [DOMAIN NodeOf -> SUBSET Keywords]
  <2> SUFFICES ASSUME NEW p \in DOMAIN NodeOf
               PROVE  (IF {i \in I : rs[i].task.prefix = p} = {} THEN summary[p]
                       ELSE rs[Latest({i \in I : rs[i].task.prefix = p})].root) \in SUBSET Keywords
    BY DEF WithSummaries
  <2> DEFINE J == {i \in I : rs[i].task.prefix = p}
  <2>1. J \in SUBSET I
    OBVIOUS
  <2>2. summary[p] \in SUBSET Keywords
    BY DEF Typed
  <2> HIDE DEF J
  <2>3. (IF J = {} THEN summary[p] ELSE rs[Latest(J)].root) \in SUBSET Keywords
    BY <1>2, <2>1, <2>2
  <2> QED BY <2>3 DEF J
<1> QED BY <1>3, <1>4

\* A result of a flight.
LEMMA ResultTyped ==
    ASSUME NEW g \in FlightSet, NEW came \in BOOLEAN, NEW ok \in BOOLEAN
    PROVE  /\ Result(g, came, ok) \in ResultSet
           /\ Result(g, came, ok).task = g.task /\ Result(g, came, ok).ok = ok
           /\ Result(g, came, ok).came = came /\ Result(g, came, ok).root = g.root
           /\ Result(g, came, ok).files = g.seen \cap g.task.keys
BY DEF Result, ResultSet, FlightSet

\* A task is about a storager and about the keywords of its prefix there.
LEMMA PlaceTyped ==
    ASSUME NEW t \in TaskSet
    PROVE  /\ Place(t) \in Nodes /\ t.prefix \in DOMAIN NodeOf /\ t.keys \in SUBSET Keywords
           /\ \A k \in t.keys : Storager(k) = Place(t)
BY RequestAssumption DEF TaskSet, Place, Storager

-----------------------------------------------------------------------------
(* What the ends of the phases leave.                                      *)

\* An update goes on to its additions.
LEMMA EndTakingFields ==
    ASSUME Typed, NEW r \in Requests, EndTaking(r), AllOk(req[r].done)
    PROVE  /\ req' \in [Requests -> Progress] /\ Alone(r)
           /\ req'[r].phase = "giving" /\ req'[r].work = Tasks("add", job[r].new)
           /\ req'[r].done = <<>> /\ req'[r].deleted = TasksOf(req[r].done, DOMAIN req[r].done)
           /\ req'[r].flight = req[r].flight /\ req'[r].added = req[r].added
           /\ req'[r].answer = req[r].answer /\ req'[r].undone = req[r].undone
<1>1. req[r] \in Progress /\ req[r].done \in Seq(ResultSet)
  BY DEF Typed, Progress
<1>2. Tasks("add", job[r].new) \in WorkSet
  BY JobTyped, TasksTyped
<1>3. TasksOf(req[r].done, DOMAIN req[r].done) \in Seq(TaskSet) /\ <<>> \in Seq(ResultSet)
  BY <1>1, TasksOfTyped, EmptySeq
<1>4. req' = [req EXCEPT ![r].phase = "giving", ![r].work = Tasks("add", job[r].new),
                         ![r].done = <<>>, ![r].deleted = TasksOf(req[r].done, DOMAIN req[r].done)]
  BY DEF EndTaking
<1>5. "giving" \in Phases
  BY DEF Phases
<1> QED BY <1>1, <1>2, <1>3, <1>4, <1>5 DEF Typed, Alone, Progress

\* An update goes on to its rollback.
LEMMA EndGivingFields ==
    ASSUME Typed, NEW r \in Requests, EndGiving(r), ~AllOk(req[r].done)
    PROVE  LET undo == req[r].deleted \o Given(r) IN
           /\ undo \in Seq(TaskSet) /\ Given(r) \in Seq(TaskSet)
           /\ req' \in [Requests -> Progress] /\ Alone(r)
           /\ req'[r].phase = "undoing"
           /\ req'[r].work = [i \in DOMAIN undo |-> Undone(undo[i])]
           /\ req'[r].done = <<>> /\ req'[r].deleted = req[r].deleted
           /\ req'[r].flight = req[r].flight /\ req'[r].added = Given(r)
           /\ req'[r].answer = req[r].answer /\ req'[r].undone = req[r].undone
<1> DEFINE undo == req[r].deleted \o Given(r)
           work == [i \in DOMAIN undo |-> Undone(undo[i])]
<1>1. req[r] \in Progress /\ req[r].done \in Seq(ResultSet) /\ req[r].deleted \in Seq(TaskSet)
  BY DEF Typed, Progress
<1>2. Given(r) \in Seq(TaskSet)
  BY <1>1, TasksOfTyped DEF Given
<1>3. undo \in Seq(TaskSet)
  BY <1>1, <1>2, ConcatProperties
<1>4. work \in WorkSet
  <2>1. DOMAIN undo = 1 .. Len(undo) /\ Len(undo) \in Nat /\ \A i \in DOMAIN undo : undo[i] \in TaskSet
    BY <1>3, LenProperties
  <2>2. DOMAIN undo \in SUBSET (Nat \cup DOMAIN NodeOf)
    BY <2>1
  <2>3. \A t \in TaskSet : Undone(t) \in TaskSet
    BY DEF TaskSet, Undone
  <2> HIDE DEF undo
  <2>4. work \in [DOMAIN undo -> TaskSet]
    BY <2>1, <2>3
  <2> QED BY <2>2, <2>4 DEF WorkSet
<1>5. <<>> \in Seq(ResultSet) /\ "undoing" \in Phases
  BY EmptySeq DEF Phases
<1>6. req' = [req EXCEPT ![r].phase = "undoing", ![r].done = <<>>, ![r].work = work,
                         ![r].added = Given(r)]
  BY DEF EndGiving, Given
<1> HIDE DEF work
<1>7. /\ req' \in [Requests -> Progress] /\ Alone(r)
      /\ req'[r].phase = "undoing" /\ req'[r].work = work
      /\ req'[r].done = <<>> /\ req'[r].deleted = req[r].deleted
      /\ req'[r].flight = req[r].flight /\ req'[r].added = Given(r)
      /\ req'[r].answer = req[r].answer /\ req'[r].undone = req[r].undone
  BY <1>1, <1>2, <1>4, <1>5, <1>6 DEF Typed, Alone, Progress
<1> QED BY <1>2, <1>3, <1>7 DEF work

\* The rollback is over.
LEMMA EndUndoingFields ==
    ASSUME Typed, NEW r \in Requests, EndUndoing(r)
    PROVE  /\ req' \in [Requests -> Progress] /\ Alone(r)
           /\ req'[r].phase = "ended" /\ req'[r].answer = "error" /\ req'[r].done = <<>>
           /\ req'[r].undone = AllOk(req[r].done)
           /\ req'[r].flight = req[r].flight /\ req'[r].deleted = req[r].deleted
           /\ req'[r].added = req[r].added
<1>1. req[r] \in Progress
  BY DEF Typed
<1>2. <<>> \in Seq(ResultSet) /\ "ended" \in Phases
  BY EmptySeq DEF Phases
<1>3. AllOk(req[r].done) \in BOOLEAN
  BY DEF AllOk
<1> DEFINE b == AllOk(req[r].done)
<1>4. req' = [req EXCEPT ![r].phase = "ended", ![r].done = <<>>, ![r].answer = "error", ![r].undone = b]
  BY DEF EndUndoing
<1> HIDE DEF b
<1>5. /\ req' \in [Requests -> Progress] /\ Alone(r)
      /\ req'[r].phase = "ended" /\ req'[r].answer = "error" /\ req'[r].done = <<>> /\ req'[r].undone = b
      /\ req'[r].flight = req[r].flight /\ req'[r].deleted = req[r].deleted
      /\ req'[r].added = req[r].added
  BY <1>1, <1>2, <1>3, <1>4 DEF Typed, Alone, Progress, b
<1> QED BY <1>5 DEF b

\* A query ends with its files.
LEMMA AnswerFields ==
    ASSUME Typed, NEW r \in Requests, NEW files \in SUBSET Keywords,
           NEW answer \in {"ok", "error", "unverified"},
           req' = [req EXCEPT ![r].phase = "ended", ![r].done = <<>>, ![r].files = files,
                              ![r].answer = answer]
    PROVE  /\ req' \in [Requests -> Progress] /\ Alone(r)
           /\ req'[r].phase = "ended" /\ req'[r].answer = answer /\ req'[r].files = files
           /\ req'[r].done = <<>>
           /\ req'[r].flight = req[r].flight /\ req'[r].deleted = req[r].deleted
           /\ req'[r].added = req[r].added /\ req'[r].undone = req[r].undone
<1>1. req[r] \in Progress
  BY DEF Typed
<1>2. <<>> \in Seq(ResultSet) /\ "ended" \in Phases
  BY EmptySeq DEF Phases
<1> QED BY <1>1, <1>2 DEF Typed, Alone, Progress

-----------------------------------------------------------------------------
(* Types are kept.                                                         *)

\* A flight that moves on is still one.
LEMMA FlightTyped ==
    ASSUME NEW g \in FlightSet, NEW at \in Points, NEW ks \in SUBSET Keywords
    PROVE  /\ [g EXCEPT !.at = at] \in FlightSet /\ [g EXCEPT !.at = at, !.seen = ks] \in FlightSet
           /\ [g EXCEPT !.at = at, !.root = ks] \in FlightSet
           /\ [g EXCEPT !.at = at, !.tries = @ + 1, !.root = ks] \in FlightSet
<1>1. [g EXCEPT !.at = at] \in FlightSet
  BY DEF FlightSet
<1>2. [g EXCEPT !.at = at, !.seen = ks] \in FlightSet
  BY DEF FlightSet
<1>3. [g EXCEPT !.at = at, !.root = ks] \in FlightSet
  BY DEF FlightSet
<1>4. [g EXCEPT !.at = at, !.tries = @ + 1, !.root = ks] \in FlightSet
  <2>1. g.tries + 1 \in Nat
    BY DEF FlightSet
  <2>2. \A n \in Nat : [g EXCEPT !.at = at, !.tries = n, !.root = ks] \in FlightSet
    BY DEF FlightSet
  <2>3. [g EXCEPT !.at = at, !.tries = @ + 1, !.root = ks]
        = [g EXCEPT !.at = at, !.tries = g.tries + 1, !.root = ks]
    BY Zenon
  <2> QED BY <2>1, <2>2, <2>3
<1> QED BY <1>1, <1>2, <1>3, <1>4

\* A flight is of the type of flights.
LEMMA FlightOf ==
    ASSUME Typed, NEW r \in Requests, NEW g \in req[r].flight
    PROVE  /\ g \in FlightSet /\ g.task \in TaskSet /\ g.root \in SUBSET Keywords
           /\ g.seen \in SUBSET Keywords
<1>1. req[r] \in Progress
  BY DEF Typed
<1>2. g \in FlightSet
  BY <1>1 DEF Progress
<1> QED BY <1>2 DEF FlightSet

\* Beginning keeps the types.
LEMMA TypedBegin ==
    ASSUME Typed, NEW r \in Requests, Begin(r)
    PROVE  Typed'
<1>1. /\ \A op \in {"add", "delete", "query"} :
           Tasks(op, job[r].old) \in WorkSet /\ Tasks(op, job[r].new) \in WorkSet
      /\ Groups(job[r].new) \in WorkSet
  BY JobTyped, TasksTyped, GroupsTyped
<1>2. req' \in [Requests -> Progress]
  <2>1. ASSUME NEW phase \in Phases, NEW work \in WorkSet, Goes(r, phase, work)
        PROVE  req' \in [Requests -> Progress]
    BY <2>1, GoesFields
  <2>2. CASE req' = [req EXCEPT ![r].phase = "ended", ![r].answer = "no keywords"]
    <3>1. req[r] \in Progress
      BY DEF Typed
    <3> QED BY <2>2, <3>1 DEF Typed, Progress, Phases
  <2>3. {"adding", "batch", "deleting", "taking", "asking", "asking all"} \subseteq Phases
    BY DEF Phases
  <2> QED BY <1>1, <2>1, <2>2, <2>3 DEF Begin
<1> QED BY <1>2 DEF Typed, Begin

\* A storager's answer to an addition or a deletion keeps the types.
LEMMA TypedServe ==
    ASSUME Typed, NEW r \in Requests, NEW g \in req[r].flight, Serve(r, g)
    PROVE  Typed'
<1>1. g \in FlightSet /\ g.task \in TaskSet /\ Place(g.task) \in Nodes /\ g.task.prefix \in DOMAIN NodeOf
      /\ g.task.keys \in SUBSET Keywords
  BY FlightOf, PlaceTyped
<1>2. index' \in [Nodes -> SUBSET Keywords]
  <2> DEFINE ks == IF g.task.op = "add" THEN index[Place(g.task)] \cup g.task.keys
                   ELSE index[Place(g.task)] \ g.task.keys
  <2>1. ks \in SUBSET Keywords
    BY <1>1 DEF Typed
  <2>2. index' = [index EXCEPT ![Place(g.task)] = ks]
    BY DEF Serve
  <2> HIDE DEF ks
  <2> QED BY <2>1, <2>2 DEF Typed
<1>3. PICK root \in SUBSET Keywords : root = index'[Place(g.task)]
  BY <1>1, <1>2
<1>4. req' \in [Requests -> Progress]
  <2>1. [g EXCEPT !.at = "answered", !.root = root] \in FlightSet
    BY <1>1, FlightTyped DEF Points
  <2>2. Step(r, g, [g EXCEPT !.at = "answered", !.root = root])
    BY <1>3 DEF Serve
  <2> QED BY <2>1, <2>2, StepFields
<1>5. latest' \in [DOMAIN NodeOf -> SUBSET Keywords]
  BY <1>1, <1>3 DEF Typed, Serve, Answered
<1>6. others' \in [Requests -> SUBSET Keywords]
  <2>1. \A q \in Requests : (IF q = r \/ InPhase(q, "called") THEN others[q]
            ELSE others[q] \cup (g.task.keys \cap (job[q].old \cup job[q].new))) \in SUBSET Keywords
    BY <1>1 DEF Typed
  <2> QED BY <2>1 DEF Serve
<1>7. calm' \subseteq Requests
  BY DEF Serve, Typed
<1>8. UNCHANGED <<roots, summary, job>>
  BY DEF Serve
<1> QED BY <1>2, <1>4, <1>5, <1>6, <1>7, <1>8 DEF Typed

\* Permits and the reads of a query keep the types.
LEMMA TypedRead ==
    ASSUME Typed, NEW r \in Requests, NEW g \in req[r].flight,
           TakeGlobal(r, g) \/ TakeLocal(r, g) \/ ReadFiles(r, g) \/ ReadRoot(r, g)
    PROVE  Typed'
<1>1. g \in FlightSet /\ Place(g.task) \in Nodes /\ g.task.prefix \in DOMAIN NodeOf
  BY FlightOf, PlaceTyped
<1>2. index[Place(g.task)] \in SUBSET Keywords
  BY <1>1 DEF Typed
<1>3. req' \in [Requests -> Progress]
  <2>1. \E h \in FlightSet : Step(r, g, h)
    BY <1>1, <1>2, FlightTyped DEF Points, TakeGlobal, TakeLocal, ReadFiles, ReadRoot
  <2> QED BY <2>1, StepFields
<1>4. index' = index /\ latest' \in [DOMAIN NodeOf -> SUBSET Keywords]
  BY <1>1, <1>2 DEF Typed, TakeGlobal, TakeLocal, ReadFiles, ReadRoot, Answered
<1>5. UNCHANGED <<roots, summary, job, others, calm>>
  BY DEF TakeGlobal, TakeLocal, ReadFiles, ReadRoot
<1> QED BY <1>3, <1>4, <1>5 DEF Typed

\* The end of a subrequest, or its next attempt, keeps the types.
LEMMA TypedFinish ==
    ASSUME Typed, NEW r \in Requests, NEW g \in req[r].flight,
           Accept(r, g) \/ Refuse(r, g) \/ Fail(r, g)
    PROVE  Typed'
<1>1. g \in FlightSet
  BY FlightOf
<1>2. req' \in [Requests -> Progress]
  <2>1. \/ \E h \in FlightSet : Step(r, g, h)
        \/ \E came \in BOOLEAN, ok \in BOOLEAN : Finish(r, g, Result(g, came, ok))
    <3>1. [g EXCEPT !.at = "queued", !.tries = @ + 1, !.root = {}] \in FlightSet
      <4>1. {} \in SUBSET Keywords /\ "queued" \in Points
        BY DEF Points
      <4> QED BY <1>1, <4>1, FlightTyped
    <3>2. CASE Accept(r, g)
      BY <3>2 DEF Accept
    <3>3. CASE Refuse(r, g)
      BY <3>1, <3>3 DEF Refuse
    <3>4. CASE Fail(r, g)
      BY <3>4 DEF Fail
    <3> QED BY <3>2, <3>3, <3>4
  <2> QED BY <1>1, <2>1, StepFields, FinishFields, ResultTyped
<1>3. summary' \in [DOMAIN NodeOf -> SUBSET Keywords]
  <2>1. Result(g, TRUE, TRUE) \in ResultSet
    BY <1>1, ResultTyped
  <2>2. <<Result(g, TRUE, TRUE)>> \in Seq(ResultSet) /\ {1} \in SUBSET (DOMAIN <<Result(g, TRUE, TRUE)>>)
    <3>1. \A x \in ResultSet : <<x>> \in Seq(ResultSet) /\ DOMAIN <<x>> = {1}
      OBVIOUS
    <3> QED BY <2>1, <3>1
  <2>3. WithSummaries(<<Result(g, TRUE, TRUE)>>, {1}) \in [DOMAIN NodeOf -> SUBSET Keywords]
    BY <2>2, RecordTyped
  <2> QED BY <2>3 DEF Accept, Refuse, Fail, Typed
<1>4. calm' \subseteq Requests
  BY DEF Typed, Accept, Refuse, Fail
<1>5. UNCHANGED <<index, roots, job, others, latest>>
  BY DEF Accept, Refuse, Fail
<1> QED BY <1>2, <1>3, <1>4, <1>5 DEF Typed

\* The results of a request, and any order of them.
LEMMA DoneTyped ==
    ASSUME Typed, NEW r \in Requests
    PROVE  /\ req[r].done \in Seq(ResultSet)
           /\ \A i \in DOMAIN req[r].done : req[r].done[i] \in ResultSet
<1>1. req[r] \in Progress
  BY DEF Typed
<1>2. req[r].done \in Seq(ResultSet)
  BY <1>1 DEF Progress
<1> QED BY <1>2, LenProperties

\* Results in another order are results.
LEMMA OrdersTyped ==
    ASSUME NEW rs \in Seq(ResultSet), NEW os \in Orders(rs)
    PROVE  os \in Seq(ResultSet)
<1>1. Len(rs) \in Nat /\ DOMAIN rs = 1 .. Len(rs) /\ rs \in [1 .. Len(rs) -> ResultSet]
  BY LenProperties
<1>2. PICK f \in [DOMAIN rs -> DOMAIN rs] : os = [i \in DOMAIN rs |-> rs[f[i]]]
  BY DEF Orders
<1>3. os \in [1 .. Len(rs) -> ResultSet]
  BY <1>1, <1>2
<1> QED BY <1>1, <1>3, IsASeq

\* What is recorded of results.
LEMMA RecordedTyped ==
    ASSUME Typed, req' \in [Requests -> Progress], NEW rs \in Seq(ResultSet),
           NEW I \in SUBSET (DOMAIN rs), NEW J \in SUBSET (DOMAIN rs), Record(rs, I, J)
    PROVE  Typed'
BY RecordTyped DEF Typed, Record

\* The places of results are places.
LEMMA PlacesOfResults ==
    ASSUME NEW rs
    PROVE  /\ Before(rs) \in SUBSET (DOMAIN rs) /\ OkOf(rs) \in SUBSET (DOMAIN rs)
           /\ CameOf(rs) \in SUBSET (DOMAIN rs) /\ IfAllOk(rs) \in SUBSET (DOMAIN rs)
BY DEF Before, OkOf, CameOf, IfAllOk

\* The end of a phase keeps the types.
LEMMA TypedEnds ==
    ASSUME Typed, NEW r \in Requests, OfThePhase(r), InItsPhase(r),
           \/ EndAdd(r) \/ EndBatch(r) \/ EndDelete(r) \/ EndTaking(r) \/ EndGiving(r)
           \/ EndUndoing(r)
    PROVE  Typed'
<1> DEFINE rs == req[r].done
<1>1. rs \in Seq(ResultSet)
  BY DoneTyped
<1>2. /\ Before(rs) \in SUBSET (DOMAIN rs) /\ OkOf(rs) \in SUBSET (DOMAIN rs)
      /\ CameOf(rs) \in SUBSET (DOMAIN rs) /\ IfAllOk(rs) \in SUBSET (DOMAIN rs)
  BY PlacesOfResults
<1>3. req' \in [Requests -> Progress]
  <2>1. ASSUME NEW answer \in {"ok", "error"}, Ends(r, answer)
        PROVE  req' \in [Requests -> Progress]
    BY <2>1, EndsFields
  <2>2. CASE EndAdd(r)
    <3>1. "adding" \in Phases /\ req[r].work \in WorkSet
      BY DEF Typed, Progress, Phases
    <3>2. Ends(r, "error") \/ Ends(r, "ok") \/ Goes(r, "adding", req[r].work)
      BY <2>2 DEF EndAdd
    <3> QED BY <2>1, <3>1, <3>2, GoesFields
  <2>3. CASE EndBatch(r) \/ EndDelete(r)
    <3>1. Ends(r, "error") \/ Ends(r, "ok")
      BY <2>3 DEF EndBatch, EndDelete
    <3> QED BY <2>1, <3>1
  <2>4. CASE EndTaking(r)
    <3>1. CASE AllOk(rs)
      BY <2>4, <3>1, EndTakingFields
    <3>2. CASE ~AllOk(rs)
      BY <2>1, <2>4, <3>2 DEF EndTaking
    <3> QED BY <3>1, <3>2
  <2>5. CASE EndGiving(r)
    <3>1. CASE AllOk(rs)
      BY <2>1, <2>5, <3>1 DEF EndGiving
    <3>2. CASE ~AllOk(rs)
      BY <2>5, <3>2, EndGivingFields
    <3> QED BY <3>1, <3>2
  <2>6. CASE EndUndoing(r)
    BY <2>6, EndUndoingFields
  <2> QED BY <2>2, <2>3, <2>4, <2>5, <2>6
<1>4. \E os \in Seq(ResultSet) : \E I, J \in SUBSET (DOMAIN os) : Record(os, I, J)
  <2>1. CASE EndBatch(r)
    <3>1. CASE job[r].parallel
      <4>1. PICK os \in Orders(rs) : Record(os, Before(os), Before(os))
        BY <2>1, <3>1 DEF EndBatch
      <4>2. os \in Seq(ResultSet)
        BY <1>1, <4>1, OrdersTyped
      <4>3. Before(os) \in SUBSET (DOMAIN os)
        BY PlacesOfResults
      <4> QED BY <4>1, <4>2, <4>3
    <3>2. CASE ~job[r].parallel
      BY <1>1, <1>2, <2>1, <3>2 DEF EndBatch
    <3> QED BY <3>1, <3>2
  <2>2. CASE ~EndBatch(r)
    <3>1. \E I, J \in SUBSET (DOMAIN rs) : Record(rs, I, J)
      BY <1>2, <2>2 DEF EndAdd, EndDelete, EndTaking, EndGiving, EndUndoing
    <3> QED BY <1>1, <3>1
  <2> QED BY <2>1, <2>2
<1> QED BY <1>3, <1>4, RecordedTyped

\* A query that ends has a result; a single one has one storager's.
LEMMA AskedResults ==
    ASSUME Typed, NEW r \in Requests, OfThePhase(r), InItsPhase(r), Over(r, "asking")
    PROVE  req[r].done # <<>> /\ 1 \in DOMAIN req[r].done
<1>1. PICK k \in Keywords : job[r].new = {k}
  BY JobTyped DEF InItsPhase, Over
<1>2. PICK t \in Ours(r) : k \in t.keys
  BY <1>1 DEF OfThePhase, Over, Asks, InPhase
<1>3. \E i \in DOMAIN req[r].done : t = req[r].done[i].task
  BY <1>2 DEF Ours, Waiting, Flown, Over, AllSent
<1>4. req[r].done \in Seq(ResultSet)
  BY DoneTyped
<1>5. DOMAIN req[r].done = 1 .. Len(req[r].done) /\ Len(req[r].done) \in Nat
  BY <1>4, LenProperties
<1>6. Len(req[r].done) # 0
  BY <1>3, <1>5
<1> QED BY <1>4, <1>5, <1>6, EmptySeq

\* The end of a query keeps the types.
LEMMA TypedAnswers ==
    ASSUME Typed, NEW r \in Requests, OfThePhase(r), InItsPhase(r),
           EndAsking(r) \/ EndAskingAll(r)
    PROVE  Typed'
<1> DEFINE rs == req[r].done
<1>1. rs \in Seq(ResultSet) /\ \A i \in DOMAIN rs : rs[i].files \in SUBSET Keywords
  BY DoneTyped DEF ResultSet
<1>2. CameOf(rs) \in SUBSET (DOMAIN rs) /\ IfAllOk(rs) \in SUBSET (DOMAIN rs)
  BY PlacesOfResults
<1>3. req' \in [Requests -> Progress]
  <2>1. CASE EndAsking(r)
    <3> DEFINE files == IF AllOk(rs) THEN rs[1].files ELSE {}
               answer == IF AllOk(rs) THEN "ok" ELSE IF rs[1].came THEN "unverified" ELSE "error"
    <3>1. files \in SUBSET Keywords /\ answer \in {"ok", "error", "unverified"}
      BY <1>1, <2>1, AskedResults DEF EndAsking
    <3>2. req' = [req EXCEPT ![r].phase = "ended", ![r].done = <<>>, ![r].files = files,
                             ![r].answer = answer]
      BY <2>1 DEF EndAsking
    <3> QED BY <3>1, <3>2, AnswerFields
  <2>2. CASE EndAskingAll(r)
    <3> DEFINE files == UNION {rs[i].files : i \in IfAllOk(rs)}
               answer == IF AllOk(rs) THEN "ok" ELSE "error"
    <3>1. files \in SUBSET Keywords /\ answer \in {"ok", "error", "unverified"}
      BY <1>1, <1>2
    <3>2. req' = [req EXCEPT ![r].phase = "ended", ![r].done = <<>>, ![r].files = files,
                             ![r].answer = answer]
      BY <2>2 DEF EndAskingAll
    <3> QED BY <3>1, <3>2, AnswerFields
  <2> QED BY <2>1, <2>2
<1>4. \E I \in SUBSET (DOMAIN rs) : Record(rs, I, I)
  BY <1>2 DEF EndAsking, EndAskingAll
<1> QED BY <1>1, <1>3, <1>4, RecordedTyped

\* Every step of a request keeps the types.
LEMMA TypedStep ==
    ASSUME Typed, NEW r \in Requests, OfThePhase(r), InItsPhase(r), RequestStep(r)
    PROVE  Typed'
<1>1. ASSUME Launch(r)
      PROVE  Typed'
  <2>1. req' \in [Requests -> Progress]
    BY <1>1, LaunchFields
  <2> QED BY <1>1, <2>1 DEF Launch, Typed
<1> QED BY <1>1, TypedBegin, TypedServe, TypedRead, TypedFinish, TypedEnds, TypedAnswers
        DEF RequestStep

-----------------------------------------------------------------------------
(* The tasks of a request.                                                 *)

\* A flight that moves on keeps its task.
LEMMA StepTasks ==
    ASSUME Typed, NEW r \in Requests, NEW g \in req[r].flight, NEW h \in FlightSet,
           h.task = g.task, Step(r, g, h)
    PROVE  /\ Waiting(r)' = Waiting(r) /\ Flown(r)' = Flown(r)
           /\ Ours(r)' = Ours(r) /\ Open(r)' = Open(r)
<1>1. /\ req'[r].flight = (req[r].flight \ {g}) \cup {h}
      /\ req'[r].work = req[r].work /\ req'[r].done = req[r].done
  BY StepFields
<1>2. Waiting(r)' = Waiting(r)
  BY <1>1 DEF Waiting
<1>3. Flown(r)' = Flown(r)
  BY <1>1 DEF Flown
<1> QED BY <1>1, <1>2, <1>3 DEF Ours, Open

\* A task that is sent is under way.
LEMMA LaunchTasks ==
    ASSUME Typed, NEW r \in Requests, Launch(r)
    PROVE  /\ Waiting(r)' \subseteq Waiting(r)
           /\ Waiting(r)' \cup Flown(r)' = Waiting(r) \cup Flown(r)
           /\ Ours(r)' = Ours(r) /\ Open(r)' = Open(r)
<1>1. PICK i \in DOMAIN req[r].work : \E h \in FlightSet :
        /\ h.task = req[r].work[i]
        /\ req'[r].work = Without(req[r].work, i)
        /\ req'[r].flight = req[r].flight \cup {h}
        /\ req'[r].done = req[r].done
  BY LaunchFields
<1>2. PICK h \in FlightSet :
        /\ h.task = req[r].work[i]
        /\ req'[r].work = Without(req[r].work, i)
        /\ req'[r].flight = req[r].flight \cup {h}
        /\ req'[r].done = req[r].done
  BY <1>1
<1>3. /\ DOMAIN req'[r].work = DOMAIN req[r].work \ {i}
      /\ \A j \in DOMAIN req[r].work \ {i} : req'[r].work[j] = req[r].work[j]
  BY <1>2 DEF Without
<1>4. Waiting(r)' \subseteq Waiting(r) /\ Waiting(r) \subseteq Waiting(r)' \cup {h.task}
  BY <1>2, <1>3 DEF Waiting
<1>5. Flown(r)' = Flown(r) \cup {h.task}
  BY <1>2 DEF Flown
<1>6. h.task \in Waiting(r)
  BY <1>2 DEF Waiting
<1>7. Waiting(r)' \cup Flown(r)' = Waiting(r) \cup Flown(r)
  BY <1>4, <1>5, <1>6
<1> QED BY <1>2, <1>4, <1>7 DEF Ours, Open

\* A result has the task of its flight, which is open no more if all went well.
LEMMA FinishTasks ==
    ASSUME Typed, NEW r \in Requests, NEW g \in req[r].flight, NEW result \in ResultSet,
           result.task = g.task, Finish(r, g, result)
    PROVE  /\ Waiting(r)' = Waiting(r) /\ Flown(r)' \subseteq Flown(r)
           /\ Ours(r)' = Ours(r)
           /\ Open(r)' \subseteq Open(r) /\ Open(r) \subseteq Open(r)' \cup {g.task}
           /\ ~result.ok => Open(r)' = Open(r)
           /\ \A i \in DOMAIN req'[r].done :
                \/ i \in DOMAIN req[r].done /\ req'[r].done[i] = req[r].done[i]
                \/ req'[r].done[i] = result
<1>1. /\ req'[r].flight = req[r].flight \ {g}
      /\ req'[r].work = req[r].work /\ req'[r].done = Append(req[r].done, result)
  BY FinishFields
<1> DEFINE rs == req[r].done  n == Len(rs)
<1>2. rs \in Seq(ResultSet)
  BY DoneTyped
<1>3. n \in Nat /\ DOMAIN rs = 1 .. n
  BY <1>2, LenProperties
<1>4. /\ DOMAIN Append(rs, result) = 1 .. (n + 1)
      /\ \A i \in 1 .. n : Append(rs, result)[i] = rs[i]
      /\ Append(rs, result)[n + 1] = result
  BY <1>2, AppendProperties, LenProperties
<1>5. /\ DOMAIN req'[r].done = DOMAIN rs \cup {n + 1} /\ req'[r].done[n + 1] = result
      /\ \A i \in DOMAIN rs : req'[r].done[i] = rs[i]
  <2>1. 1 .. (n + 1) = (1 .. n) \cup {n + 1}
    BY <1>3
  <2> QED BY <1>1, <1>3, <1>4, <2>1
<1> HIDE DEF n
<1>6. Waiting(r)' = Waiting(r)
  BY <1>1 DEF Waiting
<1>7. Flown(r)' \subseteq Flown(r) /\ Flown(r) \subseteq Flown(r)' \cup {g.task} /\ g.task \in Flown(r)
  BY <1>1 DEF Flown
<1>8. {req'[r].done[i].task : i \in DOMAIN req'[r].done}
      = {rs[i].task : i \in DOMAIN rs} \cup {g.task}
  BY <1>5
<1> DEFINE bad == {rs[i].task : i \in {j \in DOMAIN rs : ~rs[j].ok}}
           bad2 == {req'[r].done[i].task : i \in {j \in DOMAIN req'[r].done : ~req'[r].done[j].ok}}
<1>9. bad \subseteq bad2 /\ bad2 \subseteq bad \cup {g.task} /\ (~result.ok => g.task \in bad2)
  BY <1>5
<1>10. Open(r) = Waiting(r) \cup Flown(r) \cup bad /\ Open(r)' = Waiting(r)' \cup Flown(r)' \cup bad2
  BY DEF Open
<1>11. Ours(r)' = Ours(r)
  BY <1>6, <1>7, <1>8 DEF Ours
<1> HIDE DEF bad, bad2
<1>12. /\ Open(r)' \subseteq Open(r) /\ Open(r) \subseteq Open(r)' \cup {g.task}
       /\ ~result.ok => Open(r)' = Open(r)
  BY <1>6, <1>7, <1>9, <1>10
<1> QED BY <1>5, <1>6, <1>7, <1>11, <1>12

\* When all is sent and answered and nothing failed, nothing is open.
LEMMA NothingOpen ==
    ASSUME NEW r \in Requests, AllSent(r), req[r].flight = {}, AllOk(req[r].done)
    PROVE  Open(r) = {}
BY DEF AllSent, AllOk, Open, Waiting, Flown

\* The tasks of a request are tasks.
LEMMA OursTyped ==
    ASSUME Typed, NEW r \in Requests
    PROVE  Ours(r) \subseteq TaskSet /\ Open(r) \subseteq Ours(r) /\ Flown(r) \subseteq Ours(r)
<1>1. req[r] \in Progress
  BY DEF Typed
<1>2. Waiting(r) \subseteq TaskSet
  <2>1. PICK D \in SUBSET (Nat \cup DOMAIN NodeOf) : req[r].work \in [D -> TaskSet]
    BY <1>1 DEF Progress, WorkSet
  <2> QED BY <2>1 DEF Waiting
<1>3. Flown(r) \subseteq TaskSet
  BY FlightOf DEF Flown
<1>4. \A i \in DOMAIN req[r].done : req[r].done[i].task \in TaskSet
  BY DoneTyped DEF ResultSet
<1> QED BY <1>2, <1>3, <1>4 DEF Ours, Open

-----------------------------------------------------------------------------
(* A step of another request.                                              *)

\* What a step of r leaves of another request s: its own progress; the index of
\* its keywords, but for those it is noted to share; and, if it is a query still
\* calm, the storagers of its keywords.
LEMMA BystanderSees ==
    ASSUME Typed, NEW r \in Requests, NEW s \in Requests \ {r}, RequestStep(r)
    PROVE  /\ req'[s] = req[s] /\ job' = job /\ others[s] \subseteq others'[s]
           /\ ~InPhase(s, "called") =>
                \A k \in (job[s].old \cup job[s].new) \ others'[s] : (HasFile(k)' <=> HasFile(k))
           /\ s \in calm' => /\ s \in calm
                             /\ InPhase(s, "called") \/
                                  \A k \in job[s].new : index'[Storager(k)] = index[Storager(k)]
<1>1. CASE \E g \in req[r].flight : Serve(r, g)
  <2>1. PICK g \in req[r].flight : Serve(r, g)
    BY <1>1
  <2>2. g \in FlightSet /\ g.task \in TaskSet /\ Place(g.task) \in Nodes
        /\ \A k \in g.task.keys : Storager(k) = Place(g.task)
    BY FlightOf, PlaceTyped
  <2>3. \A n \in Nodes \ {Place(g.task)} : index'[n] = index[n]
    BY <2>1 DEF Serve, Typed
  <2>4. \A k \in Keywords \ g.task.keys :
          k \in index'[Place(g.task)] <=> k \in index[Place(g.task)]
    BY <2>1, <2>2 DEF Serve, Typed
  <2>5. \A k \in Keywords : Storager(k) \in Nodes
    BY RequestAssumption DEF Storager
  <2>6. \A k \in Keywords \ g.task.keys : (HasFile(k)' <=> HasFile(k))
    <3> SUFFICES ASSUME NEW k \in Keywords \ g.task.keys
                 PROVE  k \in index'[Storager(k)] <=> k \in index[Storager(k)]
      BY Zenon DEF HasFile
    <3>1. CASE Storager(k) = Place(g.task)
      BY <2>4, <3>1
    <3>2. CASE Storager(k) # Place(g.task)
      BY <2>3, <2>5, <3>2
    <3> QED BY <3>1, <3>2
  <2>7. others'[s] = IF InPhase(s, "called") THEN others[s]
                     ELSE others[s] \cup (g.task.keys \cap (job[s].old \cup job[s].new))
    BY <2>1 DEF Serve
  <2>8. req'[s] = req[s] /\ job' = job
    <3>1. PICK root : root = index'[Place(g.task)]
      OBVIOUS
    <3>2. req' = [req EXCEPT ![r].flight = (@ \ {g}) \cup {[g EXCEPT !.at = "answered", !.root = root]}]
      BY <2>1, <3>1 DEF Serve, Step
    <3> QED BY <2>1, <3>2 DEF Serve, Typed
  <2>9. job[s].old \subseteq Keywords /\ job[s].new \subseteq Keywords
    BY JobTyped
  <2>10. s \in calm' => s \in calm /\ (InPhase(s, "called") \/
                             \A k \in job[s].new : Storager(k) # Place(g.task))
    BY <2>1 DEF Serve
  <2>11. s \in calm' => s \in calm /\ (InPhase(s, "called") \/
                             \A k \in job[s].new : index'[Storager(k)] = index[Storager(k)])
    BY <2>3, <2>5, <2>9, <2>10
  <2> QED BY <2>6, <2>7, <2>8, <2>9, <2>11
<1>2. CASE ~\E g \in req[r].flight : Serve(r, g)
  <2>1. index' = index /\ job' = job /\ others' = others /\ calm' \subseteq calm
    BY <1>2 DEF RequestStep, Begin, Launch, TakeGlobal, TakeLocal, ReadFiles, ReadRoot, Accept,
                Refuse, Fail, EndAdd, EndBatch, EndDelete, EndTaking, EndGiving, EndUndoing,
                EndAsking, EndAskingAll, Record
  <2>2. req'[s] = req[s]
    BY <1>2 DEF Typed, RequestStep, Begin, Launch, TakeGlobal, TakeLocal, ReadFiles, ReadRoot, Accept,
                Refuse, Fail, EndAdd, EndBatch, EndDelete, EndTaking, EndGiving, EndUndoing,
                EndAsking, EndAskingAll, Goes, Step, Finish, Ends
  <2> QED BY <2>1, <2>2 DEF HasFile
<1> QED BY <1>1, <1>2

\* What a request has to do with are keywords of its job.
LEMMA KeysOfJob ==
    ASSUME Typed, NEW s \in Requests, OfThePhase(s)
    PROVE  /\ KeysOf(req[s].deleted) \subseteq job[s].old
           /\ KeysOf(req[s].added) \subseteq job[s].new
           /\ Running(s) => \A t \in Ours(s) : t.keys \subseteq job[s].old \cup job[s].new
<1>1. KeysOf(req[s].deleted) \subseteq job[s].old /\ KeysOf(req[s].added) \subseteq job[s].new
  BY DEF KeysOf, OfThePhase
<1>2. Running(s) => Adds(s) \/ Deletes(s) \/ Asks(s) \/ InPhase(s, "undoing")
  <2>1. req[s] \in Progress
    BY DEF Typed
  <2>2. req[s].phase \in Phases
    BY <2>1 DEF Progress
  <2> QED BY <2>2 DEF Phases, Running, Adds, Deletes, Asks, InPhase
<1>3. ASSUME Running(s), NEW t \in Ours(s)
      PROVE  t.keys \subseteq job[s].old \cup job[s].new
  BY <1>1, <1>2, <1>3 DEF OfThePhase
<1> QED BY <1>1, <1>3

\* Where req and the job stay, so does all that is said of them alone.
LEMMA SameRequest ==
    ASSUME NEW s \in Requests, req'[s] = req[s], job' = job
    PROVE  /\ Ours(s)' = Ours(s) /\ Open(s)' = Open(s)
           /\ Waiting(s)' = Waiting(s) /\ Flown(s)' = Flown(s)
           /\ (Adds(s)' <=> Adds(s)) /\ (Deletes(s)' <=> Deletes(s)) /\ (Asks(s)' <=> Asks(s))
           /\ (Running(s)' <=> Running(s))
           /\ \A phase : InPhase(s, phase)' <=> InPhase(s, phase)
           /\ InItsPhase(s) => InItsPhase(s)'
           /\ OfThePhase(s) => OfThePhase(s)'
           /\ OneAtATime(s) => OneAtATime(s)'
<1>1. Waiting(s)' = Waiting(s) /\ Flown(s)' = Flown(s)
  BY DEF Waiting, Flown
<1>2. Ours(s)' = Ours(s) /\ Open(s)' = Open(s)
  BY <1>1 DEF Ours, Open
<1>3. /\ (Adds(s)' <=> Adds(s)) /\ (Deletes(s)' <=> Deletes(s)) /\ (Asks(s)' <=> Asks(s))
      /\ (Running(s)' <=> Running(s))
      /\ \A phase : InPhase(s, phase)' <=> InPhase(s, phase)
  BY DEF Adds, Deletes, Asks, Running, InPhase
<1>4. InItsPhase(s) => InItsPhase(s)'
  BY DEF InItsPhase, InPhase
<1>5. OfThePhase(s) => OfThePhase(s)'
  BY <1>2, <1>3 DEF OfThePhase, InPhase
<1>6. OneAtATime(s) => OneAtATime(s)'
  BY <1>3 DEF OneAtATime, InPhase
<1> QED BY <1>1, <1>2, <1>3, <1>4, <1>5, <1>6

\* What a request does leaves all that is said of another one: the keywords it
\* served are in `others`, the storagers it changed take a query out of `calm`.
LEMMA BystanderKept ==
    ASSUME Typed, NEW r \in Requests, NEW s \in Requests \ {r}, RequestStep(r), HandlerInv(s)
    PROVE  HandlerInv(s)'
<1>1. /\ req'[s] = req[s] /\ job' = job /\ others[s] \subseteq others'[s]
      /\ ~InPhase(s, "called") =>
           \A k \in (job[s].old \cup job[s].new) \ others'[s] : (HasFile(k)' <=> HasFile(k))
      /\ s \in calm' => /\ s \in calm
                        /\ InPhase(s, "called") \/
                             \A k \in job[s].new : index'[Storager(k)] = index[Storager(k)]
  BY BystanderSees
<1>2. /\ Ours(s)' = Ours(s) /\ Open(s)' = Open(s)
      /\ Waiting(s)' = Waiting(s) /\ Flown(s)' = Flown(s)
      /\ (Adds(s)' <=> Adds(s)) /\ (Deletes(s)' <=> Deletes(s)) /\ (Asks(s)' <=> Asks(s))
      /\ (Running(s)' <=> Running(s))
      /\ \A phase : InPhase(s, phase)' <=> InPhase(s, phase)
      /\ InItsPhase(s)' /\ OfThePhase(s)' /\ OneAtATime(s)'
  BY <1>1, SameRequest DEF HandlerInv
<1>3. /\ KeysOf(req[s].deleted) \subseteq job[s].old /\ KeysOf(req[s].added) \subseteq job[s].new
      /\ Running(s) => \A t \in Ours(s) : t.keys \subseteq job[s].old \cup job[s].new
  BY KeysOfJob DEF HandlerInv
<1>4. \A g \in req[s].flight : g.at = "read" => g.task.op = "query"
  BY DEF HandlerInv, AnswersHold
<1>5. AnswersHold(s)'
  <2> SUFFICES ASSUME NEW g \in req[s].flight, g.at = "answered", NEW k \in g.task.keys \ others'[s]
               PROVE  /\ g.task.op = "add" => HasFile(k)'
                      /\ g.task.op = "delete" => ~HasFile(k)'
    BY <1>1, <1>4, Zenon DEF AnswersHold
  <2>1. Running(s) /\ g.task \in Ours(s)
    BY DEF HandlerInv, OneAtATime, Ours, Flown
  <2>2. k \in job[s].old \cup job[s].new /\ ~InPhase(s, "called")
    BY <1>3, <2>1 DEF Running
  <2>3. k \in g.task.keys \ others[s] /\ (HasFile(k)' <=> HasFile(k))
    BY <1>1, <2>2
  <2> QED BY <2>3 DEF HandlerInv, AnswersHold
<1>6. Covered(s)'
  <2>1. Adds(s) \/ Deletes(s) \/ InPhase(s, "giving") => ~InPhase(s, "called")
    BY DEF Adds, Deletes, InPhase
  <2>2. Covered(s)
    BY DEF HandlerInv
  <2>3. Adds(s) => \A k \in job[s].new \ others'[s] :
          HasFile(k)' \/ \E t \in Open(s) : k \in t.keys
    BY <1>1, <2>1, <2>2 DEF Covered
  <2>4. Deletes(s) => \A k \in job[s].old \ others'[s] :
          ~HasFile(k)' \/ \E t \in Open(s) : k \in t.keys
    BY <1>1, <2>1, <2>2 DEF Covered
  <2>5. InPhase(s, "giving") => \A k \in job[s].old \ (job[s].new \cup others'[s]) : ~HasFile(k)'
    BY <1>1, <2>1, <2>2 DEF Covered
  <2> QED BY <1>1, <1>2, <2>3, <2>4, <2>5 DEF Covered
<1>7. UndoneInOrder(s)'
  <2> SUFFICES ASSUME InPhase(s, "undoing")
               PROVE  UndoneInOrder(s)'
    BY <1>2 DEF UndoneInOrder
  <2>1. UndoneInOrder(s) /\ ~InPhase(s, "called")
    BY DEF HandlerInv, InPhase
  <2>2. \A k \in KeysOf(req[s].deleted) \ (KeysOf(req[s].added) \cup others'[s]) :
         HasFile(k)' \/ \E t \in Open(s) : t.op = "add" /\ k \in t.keys
    BY <1>1, <1>3, <2>1 DEF UndoneInOrder
  <2>3. \A k \in KeysOf(req[s].added) \ others'[s] :
         ~HasFile(k)' \/ \E t \in Open(s) : t.op = "delete" /\ k \in t.keys
    BY <1>1, <1>3, <2>1 DEF UndoneInOrder
  <2> QED BY <1>1, <1>2, <2>1, <2>2, <2>3 DEF UndoneInOrder
<1>8. Undisturbed(s)'
  <2> SUFFICES ASSUME s \in calm'
               PROVE  Undisturbed(s)'
    BY DEF Undisturbed
  <2>1. s \in calm /\ Undisturbed(s)
    BY <1>1 DEF HandlerInv
  <2>2. CASE InPhase(s, "called")
    BY <1>1, <1>2, <2>1, <2>2 DEF HandlerInv, Undisturbed, OneAtATime, Running, Asks, InPhase
  <2>3. CASE ~InPhase(s, "called")
    <3>1. \A k \in job[s].new : index'[Storager(k)] = index[Storager(k)] /\ (HasFile(k)' <=> HasFile(k))
      BY <1>1, <2>3 DEF HasFile
    <3>2. ASSUME Asks(s), NEW t \in Ours(s)
          PROVE  index'[Place(t)] = index[Place(t)]
      <4>1. PICK k \in t.keys : k \in job[s].new
        BY <3>2 DEF HandlerInv, OfThePhase
      <4>2. Storager(k) = Place(t)
        BY <4>1, OursTyped, PlaceTyped
      <4> QED BY <3>1, <4>1, <4>2
    <3>3. req[s].flight # {} => Asks(s)
      BY <2>1, <2>3 DEF HandlerInv, OneAtATime, Running, Undisturbed, Asks, InPhase
    <3>4. \A g \in req[s].flight : index'[Place(g.task)] = index[Place(g.task)]
      BY <3>2, <3>3 DEF Ours, Flown
    <3>5. Asks(s) => \A i \in DOMAIN req[s].done :
            index'[Place(req[s].done[i].task)] = index[Place(req[s].done[i].task)]
      BY <3>2 DEF Ours
    <3>6. {k \in job[s].new : HasFile(k)'} = {k \in job[s].new : HasFile(k)}
      BY <3>1
    <3>7. /\ job[s].kind \in {"query", "boolean"}
          /\ req[s].phase \in {"called", "asking", "asking all", "ended"}
          /\ \A g \in req[s].flight :
               /\ g.at \in {"read", "answered"} => g.seen = index'[Place(g.task)]
               /\ g.at = "answered" => g.root = index'[Place(g.task)]
      BY <2>1, <3>4 DEF Undisturbed
    <3>8. Asks(s) => \A i \in DOMAIN req[s].done :
            /\ req[s].done[i].ok
            /\ req[s].done[i].files = index'[Place(req[s].done[i].task)] \cap req[s].done[i].task.keys
      BY <2>1, <3>5 DEF Undisturbed
    <3>9. InPhase(s, "ended") =>
            Answer(s, "ok") /\ req[s].files = {k \in job[s].new : HasFile(k)'}
      BY <2>1, <3>6 DEF Undisturbed
    <3> QED BY <1>1, <1>2, <3>7, <3>8, <3>9 DEF Undisturbed, Answer, Place
  <2> QED BY <2>2, <2>3
<1>9. Kept(s)'
  <2>1. Kept(s) /\ InItsPhase(s)
    BY DEF HandlerInv
  <2>2. Answer(s, "ok") \/ req[s].undone => ~InPhase(s, "called")
    BY <2>1 DEF Answer, InItsPhase, InPhase
  <2>3. Answer(s, "ok") /\ job[s].kind \notin {"query", "boolean"} =>
         /\ \A k \in job[s].new \ others'[s] : HasFile(k)'
         /\ \A k \in job[s].old \ (job[s].new \cup others'[s]) : ~HasFile(k)'
    BY <1>1, <2>1, <2>2 DEF Kept
  <2>4. req[s].undone =>
         /\ \A k \in KeysOf(req[s].deleted) \ (KeysOf(req[s].added) \cup others'[s]) : HasFile(k)'
         /\ \A k \in KeysOf(req[s].added) \ others'[s] : ~HasFile(k)'
    BY <1>1, <1>3, <2>1, <2>2 DEF Kept
  <2>5. Answer(s, "ok")' <=> Answer(s, "ok")
    BY <1>1 DEF Answer, InPhase
  <2> QED BY <1>1, <2>3, <2>4, <2>5 DEF Kept
<1> QED BY <1>2, <1>5, <1>6, <1>7, <1>8, <1>9, Zenon DEF HandlerInv

-----------------------------------------------------------------------------
(* A step of the request itself, within a phase.                           *)

\* A request with something to send or under way is running.
LEMMA UnderWay ==
    ASSUME NEW r \in Requests, OneAtATime(r), req[r].flight # {} \/ MayLaunch(r)
    PROVE  Running(r)
BY DEF OneAtATime, MayLaunch, Running, InPhase

\* Within a phase the tasks stay the same, and nothing has been answered yet.
LEMMA OnItsWay ==
    ASSUME NEW r \in Requests, HandlerInv(r), Running(r), job' = job,
           req'[r].phase = req[r].phase, req'[r].deleted = req[r].deleted,
           req'[r].added = req[r].added, req'[r].undone = req[r].undone,
           Ours(r)' = Ours(r)
    PROVE  /\ (Adds(r)' <=> Adds(r)) /\ (Deletes(r)' <=> Deletes(r)) /\ (Asks(r)' <=> Asks(r))
           /\ Running(r)' /\ ~req[r].undone
           /\ \A phase : InPhase(r, phase)' <=> InPhase(r, phase)
           /\ InItsPhase(r)' /\ OfThePhase(r)' /\ Kept(r)'
<1>1. /\ (Adds(r)' <=> Adds(r)) /\ (Deletes(r)' <=> Deletes(r)) /\ (Asks(r)' <=> Asks(r))
      /\ Running(r)'
      /\ \A phase : InPhase(r, phase)' <=> InPhase(r, phase)
  BY DEF Adds, Deletes, Asks, Running, InPhase
<1>2. InItsPhase(r)'
  BY DEF HandlerInv, InItsPhase, InPhase
<1>3. OfThePhase(r)'
  BY <1>1 DEF HandlerInv, OfThePhase, InPhase
<1>4. ~req[r].undone
  BY DEF HandlerInv, InItsPhase, Running, InPhase
<1>5. Kept(r)'
  BY <1>4 DEF Kept, Answer, Running, InPhase
<1> QED BY <1>1, <1>2, <1>3, <1>4, <1>5

\* A flight that moves on without changing an index.
LEMMA MoveKept ==
    ASSUME Typed, NEW r \in Requests, HandlerInv(r), NEW g \in req[r].flight, NEW h \in FlightSet,
           h.task = g.task, Step(r, g, h),
           index' = index, job' = job, others' = others, calm' \subseteq calm,
           h.at \in {"read", "answered"} => h.task.op = "query",
           r \in calm => /\ h.at \in {"read", "answered"} => h.seen = index[Place(h.task)]
                         /\ h.at = "answered" => h.root = index[Place(h.task)]
    PROVE  HandlerInv(r)'
<1>1. /\ req'[r].flight = (req[r].flight \ {g}) \cup {h}
      /\ req'[r].phase = req[r].phase /\ req'[r].work = req[r].work
      /\ req'[r].done = req[r].done /\ req'[r].deleted = req[r].deleted
      /\ req'[r].added = req[r].added /\ req'[r].files = req[r].files
      /\ req'[r].answer = req[r].answer /\ req'[r].undone = req[r].undone
  BY StepFields
<1>2. /\ Waiting(r)' = Waiting(r) /\ Flown(r)' = Flown(r)
      /\ Ours(r)' = Ours(r) /\ Open(r)' = Open(r)
  BY StepTasks
<1>3. Running(r)
  BY UnderWay DEF HandlerInv
<1>4. /\ (Adds(r)' <=> Adds(r)) /\ (Deletes(r)' <=> Deletes(r)) /\ (Asks(r)' <=> Asks(r))
      /\ Running(r)' /\ ~req[r].undone
      /\ \A phase : InPhase(r, phase)' <=> InPhase(r, phase)
      /\ InItsPhase(r)' /\ OfThePhase(r)' /\ Kept(r)'
  BY <1>1, <1>2, <1>3, OnItsWay
<1>5. OneAtATime(r)'
  BY <1>1, <1>4 DEF HandlerInv, OneAtATime, InPhase
<1>6. \A k : HasFile(k)' <=> HasFile(k)
  BY DEF HasFile
<1>7. AnswersHold(r)'
  <2> SUFFICES ASSUME NEW f \in req'[r].flight, f.at = "answered",
                      NEW k \in f.task.keys \ others[r]
               PROVE  /\ f.task.op = "add" => HasFile(k)'
                      /\ f.task.op = "delete" => ~HasFile(k)'
    <3>1. \A f \in req'[r].flight : f.at = "read" => f.task.op = "query"
      BY <1>1 DEF HandlerInv, AnswersHold
    <3> QED BY <3>1, Zenon DEF AnswersHold
  <2> QED BY <1>1, <1>6 DEF HandlerInv, AnswersHold
<1>8. Covered(r)'
  BY <1>1, <1>2, <1>4, <1>6 DEF HandlerInv, Covered
<1>9. UndoneInOrder(r)'
  BY <1>1, <1>2, <1>4, <1>6 DEF HandlerInv, UndoneInOrder
<1>10. Undisturbed(r)'
  <2> SUFFICES ASSUME r \in calm
               PROVE  Undisturbed(r)'
    BY DEF Undisturbed
  <2>1. Undisturbed(r)
    BY DEF HandlerInv
  <2>2. ~InPhase(r, "ended")'
    BY <1>3, <1>4 DEF Running
  <2>3. \A f \in req'[r].flight :
          /\ f.at \in {"read", "answered"} => f.seen = index[Place(f.task)]
          /\ f.at = "answered" => f.root = index[Place(f.task)]
    BY <1>1, <2>1 DEF Undisturbed
  <2> QED BY <1>1, <1>4, <2>1, <2>2, <2>3 DEF Undisturbed, Place
<1> QED BY <1>4, <1>5, <1>7, <1>8, <1>9, <1>10, Zenon DEF HandlerInv

\* Permits and reads.
LEMMA ReadKept ==
    ASSUME Typed, NEW r \in Requests, HandlerInv(r), NEW g \in req[r].flight,
           TakeGlobal(r, g) \/ TakeLocal(r, g) \/ ReadFiles(r, g) \/ ReadRoot(r, g)
    PROVE  HandlerInv(r)'
<1>1. g \in FlightSet /\ g.task \in TaskSet /\ Place(g.task) \in Nodes
  BY FlightOf, PlaceTyped
<1>2. index[Place(g.task)] \in SUBSET Keywords
  BY <1>1 DEF Typed
<1>3. index' = index /\ job' = job /\ others' = others /\ calm' \subseteq calm
  BY DEF TakeGlobal, TakeLocal, ReadFiles, ReadRoot
<1>4. CASE TakeGlobal(r, g) \/ TakeLocal(r, g)
  <2>1. PICK at \in {"global", "sent"} : Step(r, g, [g EXCEPT !.at = at])
    BY <1>4 DEF TakeGlobal, TakeLocal
  <2>2. [g EXCEPT !.at = at] \in FlightSet
    BY <1>1, FlightTyped DEF Points
  <2>3. [g EXCEPT !.at = at].task = g.task /\ [g EXCEPT !.at = at].at = at
    BY <1>1 DEF FlightSet
  <2> QED BY <1>3, <2>1, <2>2, <2>3, MoveKept
<1>5. CASE ReadFiles(r, g)
  <2> DEFINE h == [g EXCEPT !.at = "read", !.seen = index[Place(g.task)]]
  <2>1. h \in FlightSet
    BY <1>1, <1>2, FlightTyped DEF Points
  <2>2. h.task = g.task /\ h.at = "read" /\ h.seen = index[Place(g.task)]
    BY <1>1 DEF FlightSet
  <2>3. Step(r, g, h) /\ g.task.op = "query"
    BY <1>5 DEF ReadFiles
  <2> HIDE DEF h
  <2> QED BY <1>3, <2>1, <2>2, <2>3, MoveKept
<1>6. CASE ReadRoot(r, g)
  <2> DEFINE h == [g EXCEPT !.at = "answered", !.root = index[Place(g.task)]]
  <2>1. h \in FlightSet
    BY <1>1, <1>2, FlightTyped DEF Points
  <2>2. h.task = g.task /\ h.at = "answered" /\ h.root = index[Place(g.task)] /\ h.seen = g.seen
    BY <1>1 DEF FlightSet
  <2>3. Step(r, g, h)
    BY <1>6 DEF ReadRoot
  <2>4. g.task.op = "query"
    BY <1>6 DEF ReadRoot, HandlerInv, AnswersHold
  <2>5. r \in calm => h.seen = index[Place(h.task)]
    BY <1>6, <2>2 DEF ReadRoot, HandlerInv, Undisturbed
  <2> HIDE DEF h
  <2> QED BY <1>3, <2>1, <2>2, <2>3, <2>4, <2>5, MoveKept
<1> QED BY <1>4, <1>5, <1>6

\* What a storager does to the keywords.
LEMMA ServeEffect ==
    ASSUME Typed, NEW r \in Requests, NEW g \in req[r].flight, Serve(r, g), NEW k \in Keywords
    PROVE  HasFile(k)' <=> (IF k \in g.task.keys THEN g.task.op = "add" ELSE HasFile(k))
<1>1. g.task \in TaskSet /\ Place(g.task) \in Nodes /\ \A j \in g.task.keys : Storager(j) = Place(g.task)
  BY FlightOf, PlaceTyped
<1>2. index' = [index EXCEPT ![Place(g.task)] =
                   IF g.task.op = "add" THEN @ \cup g.task.keys ELSE @ \ g.task.keys]
  BY DEF Serve
<1>3. Storager(k) \in Nodes
  BY RequestAssumption DEF Storager
<1>4. HasFile(k)' <=> k \in index'[Storager(k)]
  BY Zenon DEF HasFile
<1> QED BY <1>1, <1>2, <1>3, <1>4 DEF HasFile, Typed

\* What a storager does makes its answer hold.
LEMMA ServeKept ==
    ASSUME Typed, NEW r \in Requests, HandlerInv(r), NEW g \in req[r].flight, Serve(r, g)
    PROVE  HandlerInv(r)'
<1>1. /\ g \in FlightSet /\ g.task \in TaskSet /\ Place(g.task) \in Nodes
      /\ g.task.keys \in SUBSET Keywords
  BY FlightOf, PlaceTyped
<1>2. PICK root : root = index'[Place(g.task)]
  OBVIOUS
<1>3. root \in SUBSET Keywords
  <2>1. Typed'
    BY TypedServe
  <2>2. index' \in [Nodes -> SUBSET Keywords]
    BY <2>1 DEF Typed
  <2> QED BY <1>1, <1>2, <2>2
<1> DEFINE h == [g EXCEPT !.at = "answered", !.root = root]
<1>4. h \in FlightSet /\ h.task = g.task /\ h.at = "answered" /\ h.root = root
  <2>1. h \in FlightSet
    BY <1>1, <1>3, FlightTyped DEF Points
  <2> QED BY <1>1, <2>1 DEF FlightSet
<1>5. Step(r, g, h) /\ g.task.op # "query" /\ job' = job /\ others'[r] = others[r] /\ calm' \subseteq calm
  BY <1>2 DEF Serve, Typed
<1> HIDE DEF h
<1>6. /\ req'[r].flight = (req[r].flight \ {g}) \cup {h}
      /\ req'[r].phase = req[r].phase /\ req'[r].work = req[r].work
      /\ req'[r].done = req[r].done /\ req'[r].deleted = req[r].deleted
      /\ req'[r].added = req[r].added /\ req'[r].files = req[r].files
      /\ req'[r].answer = req[r].answer /\ req'[r].undone = req[r].undone
  BY <1>4, <1>5, StepFields
<1>7. /\ Waiting(r)' = Waiting(r) /\ Flown(r)' = Flown(r)
      /\ Ours(r)' = Ours(r) /\ Open(r)' = Open(r)
  BY <1>4, <1>5, StepTasks
<1>8. Running(r)
  BY UnderWay DEF HandlerInv
<1>9. /\ (Adds(r)' <=> Adds(r)) /\ (Deletes(r)' <=> Deletes(r)) /\ (Asks(r)' <=> Asks(r))
      /\ Running(r)' /\ ~req[r].undone
      /\ \A phase : InPhase(r, phase)' <=> InPhase(r, phase)
      /\ InItsPhase(r)' /\ OfThePhase(r)' /\ Kept(r)'
  BY <1>5, <1>6, <1>7, <1>8, OnItsWay
<1>10. OneAtATime(r)'
  BY <1>6, <1>9 DEF HandlerInv, OneAtATime, InPhase
<1>11. \A k \in Keywords :
         HasFile(k)' <=> (IF k \in g.task.keys THEN g.task.op = "add" ELSE HasFile(k))
  BY ServeEffect
<1>12. /\ job[r].old \subseteq Keywords /\ job[r].new \subseteq Keywords
       /\ KeysOf(req[r].deleted) \subseteq job[r].old /\ KeysOf(req[r].added) \subseteq job[r].new
  BY JobTyped, KeysOfJob DEF HandlerInv
<1>13. g.task \in Ours(r) /\ g.task \in Flown(r) /\ g.task \in Open(r)
  BY DEF Ours, Flown, Open
<1>14. ~Asks(r)
  BY <1>5, <1>13 DEF HandlerInv, OfThePhase
<1>15. Adds(r) \/ Deletes(r) \/ InPhase(r, "undoing")
  <2>1. req[r] \in Progress
    BY DEF Typed
  <2>2. req[r].phase \in Phases
    BY <2>1 DEF Progress
  <2> QED BY <1>8, <1>14, <2>2 DEF Phases, Running, Adds, Deletes, Asks, InPhase
<1>16. /\ Adds(r) => g.task.op = "add" /\ g.task.keys \subseteq job[r].new
       /\ Deletes(r) => g.task.op = "delete" /\ g.task.keys \subseteq job[r].old
       /\ InPhase(r, "undoing") =>
             \/ g.task.op = "add" /\ g.task.keys \subseteq job[r].old
             \/ g.task.op = "delete" /\ g.task.keys \subseteq KeysOf(req[r].added)
  BY <1>13 DEF HandlerInv, OfThePhase
<1>17. AnswersHold(r)'
  <2>1. \A f \in req'[r].flight : f.at = "read" => f.task.op = "query"
    BY <1>4, <1>6 DEF HandlerInv, AnswersHold
  <2> SUFFICES ASSUME NEW f \in req'[r].flight, f.at = "answered",
                      NEW k \in f.task.keys \ others[r]
               PROVE  /\ f.task.op = "add" => HasFile(k)'
                      /\ f.task.op = "delete" => ~HasFile(k)'
    BY <1>5, <2>1, Zenon DEF AnswersHold
  <2>2. CASE f = h
    <3>1. k \in Keywords /\ k \in g.task.keys
      BY <1>1, <1>4, <2>2
    <3>2. HasFile(k)' <=> g.task.op = "add"
      BY <1>11, <3>1
    <3> QED BY <1>4, <2>2, <3>2
  <2>3. CASE f # h
    <3>1. f \in req[r].flight /\ f # g /\ f.task \in Ours(r)
      BY <1>4, <1>6, <2>3 DEF Ours, Flown
    <3>2. f.task.op = g.task.op
      <4>1. ~InPhase(r, "undoing")
        BY <3>1 DEF HandlerInv, OneAtATime, InPhase
      <4> QED BY <1>13, <1>15, <3>1, <4>1 DEF HandlerInv, OfThePhase
    <3>3. /\ f.task.op = "add" => HasFile(k)
          /\ f.task.op = "delete" => ~HasFile(k)
      BY <3>1 DEF HandlerInv, AnswersHold
    <3>4. k \in Keywords
      BY <3>1, FlightOf, PlaceTyped
    <3> QED BY <1>11, <3>2, <3>3, <3>4
  <2> QED BY <2>2, <2>3
<1>18. Covered(r)'
  <2>1. Covered(r)
    BY DEF HandlerInv
  <2>2. Adds(r) => \A k \in job[r].new \ others[r] :
          HasFile(k)' \/ \E t \in Open(r) : k \in t.keys
    BY <1>11, <1>12, <1>16, <2>1 DEF Covered
  <2>3. Deletes(r) => \A k \in job[r].old \ others[r] :
          ~HasFile(k)' \/ \E t \in Open(r) : k \in t.keys
    BY <1>11, <1>12, <1>16, <2>1 DEF Covered
  <2>4. InPhase(r, "giving") => \A k \in job[r].old \ (job[r].new \cup others[r]) : ~HasFile(k)'
    <3>1. InPhase(r, "giving") => Adds(r)
      BY DEF Adds, InPhase
    <3> QED BY <1>11, <1>12, <1>16, <2>1, <3>1 DEF Covered
  <2> QED BY <1>5, <1>7, <1>9, <2>2, <2>3, <2>4 DEF Covered
<1>19. UndoneInOrder(r)'
  <2> SUFFICES ASSUME InPhase(r, "undoing")
               PROVE  UndoneInOrder(r)'
    BY <1>9 DEF UndoneInOrder
  <2>1. UndoneInOrder(r)
    BY DEF HandlerInv
  <2>2. \A k \in KeysOf(req[r].deleted) \ (KeysOf(req[r].added) \cup others[r]) :
         HasFile(k)' \/ \E t \in Open(r) : t.op = "add" /\ k \in t.keys
    BY <1>11, <1>12, <1>16, <2>1 DEF UndoneInOrder
  <2>3. \A k \in KeysOf(req[r].added) \ others[r] :
         ~HasFile(k)' \/ \E t \in Open(r) : t.op = "delete" /\ k \in t.keys
    <3>1. CASE g.task.op = "add"
      <4>1. \A k \in KeysOf(req[r].added) : \E t \in Waiting(r) : t.op = "delete" /\ k \in t.keys
        BY <1>13, <2>1, <3>1 DEF UndoneInOrder
      <4> QED BY <4>1 DEF Open
    <3>2. CASE g.task.op # "add"
      BY <1>11, <1>12, <1>16, <2>1, <3>2 DEF UndoneInOrder
    <3> QED BY <3>1, <3>2
  <2> QED BY <1>5, <1>6, <1>7, <1>9, <2>1, <2>2, <2>3 DEF UndoneInOrder
<1>20. Undisturbed(r)'
  <2>1. r \notin calm
    BY <1>8, <1>14 DEF HandlerInv, Undisturbed, Running, Asks, InPhase
  <2> QED BY <1>5, <2>1 DEF Undisturbed
<1> QED BY <1>9, <1>10, <1>17, <1>18, <1>19, <1>20, Zenon DEF HandlerInv

\* A task that is sent is still open; a rollback sends its additions first.
LEMMA LaunchKept ==
    ASSUME Typed, NEW r \in Requests, HandlerInv(r), Launch(r)
    PROVE  HandlerInv(r)'
<1>1. PICK i \in DOMAIN req[r].work : \E h \in FlightSet :
        /\ InTurn(r) => \A j \in DOMAIN req[r].work : i <= j
        /\ h.task = req[r].work[i] /\ h.at \in {"queued", "sent"}
        /\ req'[r].work = Without(req[r].work, i)
        /\ req'[r].flight = req[r].flight \cup {h}
  BY LaunchFields
<1>2. PICK h \in FlightSet :
        /\ InTurn(r) => \A j \in DOMAIN req[r].work : i <= j
        /\ h.task = req[r].work[i] /\ h.at \in {"queued", "sent"}
        /\ req'[r].work = Without(req[r].work, i)
        /\ req'[r].flight = req[r].flight \cup {h}
  BY <1>1
<1>3. /\ req'[r].phase = req[r].phase
      /\ req'[r].done = req[r].done /\ req'[r].deleted = req[r].deleted
      /\ req'[r].added = req[r].added /\ req'[r].files = req[r].files
      /\ req'[r].answer = req[r].answer /\ req'[r].undone = req[r].undone
  BY LaunchFields
<1>4. /\ Waiting(r)' \subseteq Waiting(r)
      /\ Waiting(r)' \cup Flown(r)' = Waiting(r) \cup Flown(r)
      /\ Ours(r)' = Ours(r) /\ Open(r)' = Open(r)
  BY LaunchTasks
<1>5. MayLaunch(r) /\ index' = index /\ job' = job /\ others' = others /\ calm' = calm
  BY DEF Launch
<1>6. Running(r)
  BY <1>5, UnderWay DEF HandlerInv
<1>7. /\ (Adds(r)' <=> Adds(r)) /\ (Deletes(r)' <=> Deletes(r)) /\ (Asks(r)' <=> Asks(r))
      /\ Running(r)' /\ ~req[r].undone
      /\ \A phase : InPhase(r, phase)' <=> InPhase(r, phase)
      /\ InItsPhase(r)' /\ OfThePhase(r)' /\ Kept(r)'
  BY <1>3, <1>4, <1>5, <1>6, OnItsWay
<1>8. OneAtATime(r)'
  <2>1. CASE InPhase(r, "adding") \/ InPhase(r, "undoing")
    <3>1. req[r].flight = {} /\ (InPhase(r, "adding") => req[r].done = <<>>)
      BY <1>5, <2>1 DEF MayLaunch, InPhase
    <3> QED BY <1>2, <1>3, <1>7, <3>1 DEF OneAtATime, InPhase
  <2>2. CASE ~(InPhase(r, "adding") \/ InPhase(r, "undoing"))
    BY <1>3, <1>7, <2>2 DEF OneAtATime, InPhase
  <2> QED BY <2>1, <2>2
<1>9. \A k : HasFile(k)' <=> HasFile(k)
  BY <1>5 DEF HasFile
<1>10. AnswersHold(r)'
  <2>1. \A f \in req'[r].flight : f.at = "read" => f.task.op = "query"
    BY <1>2 DEF HandlerInv, AnswersHold
  <2> SUFFICES ASSUME NEW f \in req'[r].flight, f.at = "answered",
                      NEW k \in f.task.keys \ others[r]
               PROVE  /\ f.task.op = "add" => HasFile(k)'
                      /\ f.task.op = "delete" => ~HasFile(k)'
    BY <1>5, <2>1, Zenon DEF AnswersHold
  <2> QED BY <1>2, <1>9 DEF HandlerInv, AnswersHold
<1>11. Covered(r)'
  BY <1>4, <1>5, <1>7, <1>9 DEF HandlerInv, Covered
<1>12. UndoneInOrder(r)'
  <2> SUFFICES ASSUME InPhase(r, "undoing")
               PROVE  UndoneInOrder(r)'
    BY <1>7 DEF UndoneInOrder
  <2>1. UndoneInOrder(r) /\ req[r].flight = {} /\ \A j \in DOMAIN req[r].work : i <= j
    BY <1>2, <1>5 DEF HandlerInv, MayLaunch, InTurn, InPhase
  <2>2. /\ DOMAIN req'[r].work = DOMAIN req[r].work \ {i}
        /\ \A j \in DOMAIN req[r].work \ {i} : req'[r].work[j] = req[r].work[j]
    BY <1>2 DEF Without
  <2>3. /\ DOMAIN req'[r].work \subseteq Nat
        /\ \A l, j \in DOMAIN req'[r].work :
             req'[r].work[l].op = "delete" /\ req'[r].work[j].op = "add" => j < l
    BY <2>1, <2>2 DEF UndoneInOrder
  <2>4. ASSUME NEW t \in Waiting(r) \cup Flown(r), t.op = "add"
        PROVE  \A k \in KeysOf(req[r].added) : \E u \in Waiting(r)' : u.op = "delete" /\ k \in u.keys
    <3>1. PICK j \in DOMAIN req[r].work : req[r].work[j] = t
      BY <2>1, <2>4 DEF Waiting, Flown
    <3>2. req[r].work[i].op # "delete"
      <4>1. i \in Nat /\ j \in Nat /\ i <= j
        BY <2>1, <3>1 DEF UndoneInOrder
      <4> QED BY <2>1, <2>4, <3>1, <4>1 DEF UndoneInOrder
    <3>3. \A u \in Waiting(r) : u.op = "delete" => u \in Waiting(r)'
      BY <2>2, <3>2 DEF Waiting
    <3>4. \A k \in KeysOf(req[r].added) : \E u \in Waiting(r) : u.op = "delete" /\ k \in u.keys
      BY <2>1, <2>4 DEF UndoneInOrder
    <3> QED BY <3>3, <3>4
  <2> QED BY <1>3, <1>4, <1>5, <1>7, <1>9, <2>1, <2>3, <2>4 DEF UndoneInOrder
<1>13. Undisturbed(r)'
  <2> SUFFICES ASSUME r \in calm
               PROVE  Undisturbed(r)'
    BY <1>5 DEF Undisturbed
  <2>1. Undisturbed(r)
    BY DEF HandlerInv
  <2>2. ~InPhase(r, "ended")'
    BY <1>6, <1>7 DEF Running
  <2>3. \A f \in req'[r].flight :
          /\ f.at \in {"read", "answered"} => f.seen = index[Place(f.task)]
          /\ f.at = "answered" => f.root = index[Place(f.task)]
    BY <1>2, <2>1 DEF Undisturbed
  <2> QED BY <1>3, <1>5, <1>7, <2>1, <2>2, <2>3 DEF Undisturbed, Place
<1> QED BY <1>7, <1>8, <1>10, <1>11, <1>12, <1>13, Zenon DEF HandlerInv

\* A subrequest that ends, with the result of an answer that verified or another.
LEMMA FinishKept ==
    ASSUME Typed, NEW r \in Requests, HandlerInv(r), NEW g \in req[r].flight,
           NEW result \in ResultSet, result.task = g.task, Finish(r, g, result),
           index' = index, job' = job, others' = others, calm' \subseteq calm,
           result.ok => g.at = "answered",
           r \in calm' => result.ok /\ result.files = g.seen \cap g.task.keys
    PROVE  HandlerInv(r)'
<1>1. /\ req'[r].flight = req[r].flight \ {g}
      /\ req'[r].phase = req[r].phase /\ req'[r].work = req[r].work
      /\ req'[r].deleted = req[r].deleted
      /\ req'[r].added = req[r].added /\ req'[r].files = req[r].files
      /\ req'[r].answer = req[r].answer /\ req'[r].undone = req[r].undone
  BY FinishFields
<1>2. /\ Waiting(r)' = Waiting(r) /\ Flown(r)' \subseteq Flown(r)
      /\ Ours(r)' = Ours(r)
      /\ Open(r)' \subseteq Open(r) /\ Open(r) \subseteq Open(r)' \cup {g.task}
      /\ ~result.ok => Open(r)' = Open(r)
      /\ \A i \in DOMAIN req'[r].done :
           \/ i \in DOMAIN req[r].done /\ req'[r].done[i] = req[r].done[i]
           \/ req'[r].done[i] = result
  BY FinishTasks
<1>3. Running(r)
  BY UnderWay DEF HandlerInv
<1>4. /\ (Adds(r)' <=> Adds(r)) /\ (Deletes(r)' <=> Deletes(r)) /\ (Asks(r)' <=> Asks(r))
      /\ Running(r)' /\ ~req[r].undone
      /\ \A phase : InPhase(r, phase)' <=> InPhase(r, phase)
      /\ InItsPhase(r)' /\ OfThePhase(r)' /\ Kept(r)'
  BY <1>1, <1>2, <1>3, OnItsWay
<1>5. OneAtATime(r)'
  <2>1. InPhase(r, "adding") => req'[r].flight = {}
    BY <1>1 DEF HandlerInv, OneAtATime, InPhase
  <2> QED BY <1>1, <1>4, <2>1 DEF HandlerInv, OneAtATime, InPhase
<1>6. \A k : HasFile(k)' <=> HasFile(k)
  BY DEF HasFile
<1>7. AnswersHold(r)'
  <2>1. \A f \in req'[r].flight : f.at = "read" => f.task.op = "query"
    BY <1>1 DEF HandlerInv, AnswersHold
  <2> SUFFICES ASSUME NEW f \in req'[r].flight, f.at = "answered",
                      NEW k \in f.task.keys \ others[r]
               PROVE  /\ f.task.op = "add" => HasFile(k)'
                      /\ f.task.op = "delete" => ~HasFile(k)'
    BY <2>1, Zenon DEF AnswersHold
  <2> QED BY <1>1, <1>6 DEF HandlerInv, AnswersHold
<1>8. g.task \in Ours(r)
  BY DEF Ours, Flown
<1>9. \A k \in g.task.keys \ others[r] : result.ok =>
        /\ g.task.op = "add" => HasFile(k)
        /\ g.task.op = "delete" => ~HasFile(k)
  BY DEF HandlerInv, AnswersHold
<1>10. \A t \in Open(r) : t \in Open(r)' \/ (t = g.task /\ result.ok)
  BY <1>2
<1>11. Covered(r)'
  <2>1. Covered(r)
    BY DEF HandlerInv
  <2>2. Adds(r) => \A k \in job[r].new \ others[r] :
          HasFile(k) \/ \E t \in Open(r)' : k \in t.keys
    BY <1>8, <1>9, <1>10, <2>1 DEF Covered, HandlerInv, OfThePhase
  <2>3. Deletes(r) => \A k \in job[r].old \ others[r] :
          ~HasFile(k) \/ \E t \in Open(r)' : k \in t.keys
    BY <1>8, <1>9, <1>10, <2>1 DEF Covered, HandlerInv, OfThePhase
  <2> QED BY <1>4, <1>6, <2>1, <2>2, <2>3 DEF Covered
<1>12. UndoneInOrder(r)'
  <2> SUFFICES ASSUME InPhase(r, "undoing")
               PROVE  UndoneInOrder(r)'
    BY <1>4 DEF UndoneInOrder
  <2>1. UndoneInOrder(r)
    BY DEF HandlerInv
  <2>2. \A k \in KeysOf(req[r].deleted) \ (KeysOf(req[r].added) \cup others[r]) :
         HasFile(k) \/ \E t \in Open(r)' : t.op = "add" /\ k \in t.keys
    BY <1>9, <1>10, <2>1 DEF UndoneInOrder
  <2>3. \A k \in KeysOf(req[r].added) \ others[r] :
         ~HasFile(k) \/ \E t \in Open(r)' : t.op = "delete" /\ k \in t.keys
    BY <1>9, <1>10, <2>1 DEF UndoneInOrder
  <2> QED BY <1>1, <1>2, <1>4, <1>6, <2>1, <2>2, <2>3 DEF UndoneInOrder
<1>13. Undisturbed(r)'
  <2> SUFFICES ASSUME r \in calm'
               PROVE  Undisturbed(r)'
    BY DEF Undisturbed
  <2>1. Undisturbed(r) /\ r \in calm
    BY DEF HandlerInv
  <2>2. ~InPhase(r, "ended")'
    BY <1>3, <1>4 DEF Running
  <2>3. result.files = index[Place(g.task)] \cap g.task.keys
    BY <2>1 DEF Undisturbed
  <2>4. Asks(r) => \A i \in DOMAIN req'[r].done :
          /\ req'[r].done[i].ok
          /\ req'[r].done[i].files = index[Place(req'[r].done[i].task)] \cap req'[r].done[i].task.keys
    BY <1>2, <2>1, <2>3 DEF Undisturbed
  <2> QED BY <1>1, <1>4, <2>1, <2>2, <2>4 DEF Undisturbed, Place
<1> QED BY <1>4, <1>5, <1>7, <1>11, <1>12, <1>13, Zenon DEF HandlerInv

\* A task is done only by an accepted answer, which holds.
LEMMA ResultKept ==
    ASSUME Typed, NEW r \in Requests, HandlerInv(r), NEW g \in req[r].flight,
           Accept(r, g) \/ Refuse(r, g) \/ Fail(r, g)
    PROVE  HandlerInv(r)'
<1>1. g \in FlightSet
  BY FlightOf
<1>2. index' = index /\ job' = job /\ others' = others /\ calm' \subseteq calm
  BY DEF Accept, Refuse, Fail
<1>3. ASSUME NEW came \in BOOLEAN, NEW ok \in BOOLEAN, Finish(r, g, Result(g, came, ok)),
             ok => g.at = "answered", r \in calm' => ok
      PROVE  HandlerInv(r)'
  <2>1. PICK result \in ResultSet :
          /\ result = Result(g, came, ok) /\ result.task = g.task /\ result.ok = ok
          /\ result.files = g.seen \cap g.task.keys
    BY <1>1, ResultTyped
  <2> QED BY <1>2, <1>3, <2>1, FinishKept
<1>4. ASSUME Refuse(r, g)
      PROVE  r \notin calm'
  <2>1. r \in calm => Verifies(g)
    BY <1>4 DEF Refuse, HandlerInv, Undisturbed, Verifies
  <2> QED BY <1>2, <1>4, <2>1 DEF Refuse
<1>5. CASE Accept(r, g)
  BY <1>3, <1>5 DEF Accept
<1>6. CASE Fail(r, g)
  BY <1>3, <1>6 DEF Fail
<1>7. CASE Refuse(r, g)
  <2>1. CASE InPhase(r, "taking") /\ g.tries < DeleteRetries
    <3> DEFINE h == [g EXCEPT !.at = "queued", !.tries = @ + 1, !.root = {}]
    <3>1. h \in FlightSet
      BY <1>1, FlightTyped DEF Points
    <3>2. h.task = g.task /\ h.at = "queued"
      BY <1>1, <3>1 DEF FlightSet
    <3>3. Step(r, g, h)
      BY <1>7, <2>1 DEF Refuse
    <3> HIDE DEF h
    <3> QED BY <1>2, <3>1, <3>2, <3>3, MoveKept
  <2>2. CASE ~(InPhase(r, "taking") /\ g.tries < DeleteRetries)
    BY <1>3, <1>4, <1>7, <2>2 DEF Refuse
  <2> QED BY <2>1, <2>2
<1> QED BY <1>5, <1>6, <1>7

-----------------------------------------------------------------------------
(* A step of the request itself, from a phase to the next.                 *)

\* What the lists of an update are of.
ListsOf(r) ==
    /\ \A i \in DOMAIN req[r].deleted :
         req[r].deleted[i].op = "delete" /\ req[r].deleted[i].keys \subseteq job[r].old
    /\ \A i \in DOMAIN req[r].added :
         req[r].added[i].op = "add" /\ req[r].added[i].keys \subseteq job[r].new

\* A request that begins a phase other than the rollback has nothing under way.
LEMMA PhaseKept ==
    ASSUME NEW r \in Requests, HandlerInv(r), job' = job, calm' \subseteq calm,
           req'[r].flight = {}, req'[r].done = <<>>, ~req'[r].undone,
           req'[r].phase \in {"adding", "batch", "deleting", "taking", "giving", "asking", "asking all"},
           InItsPhase(r)', ListsOf(r)', Covered(r)',
           \A t \in Waiting(r)' :
             /\ Adds(r)' => t.op = "add" /\ t.keys \subseteq job[r].new
             /\ Deletes(r)' => t.op = "delete" /\ t.keys \subseteq job[r].old
             /\ Asks(r)' => t.op = "query" /\ t.keys \subseteq job[r].new /\ t.keys # {},
           Asks(r)' => \A k \in job[r].new : \E t \in Waiting(r)' : k \in t.keys
    PROVE  HandlerInv(r)'
<1>1. DOMAIN req'[r].done = {}
  BY EmptySeq, LenProperties
<1>2. Flown(r)' = {} /\ Ours(r)' = Waiting(r)'
  BY <1>1 DEF Flown, Ours
<1>3. /\ ~InPhase(r, "undoing")' /\ ~InPhase(r, "ended")' /\ ~InPhase(r, "called")'
  BY DEF InPhase
<1>4. OfThePhase(r)'
  BY <1>2, <1>3 DEF OfThePhase, ListsOf
<1>5. OneAtATime(r)' /\ AnswersHold(r)'
  BY DEF OneAtATime, AnswersHold, InPhase
<1>6. UndoneInOrder(r)'
  BY <1>3 DEF UndoneInOrder
<1>7. Kept(r)'
  BY <1>3 DEF Kept, Answer
<1>8. Undisturbed(r)'
  <2> SUFFICES ASSUME r \in calm'
               PROVE  Undisturbed(r)'
    BY DEF Undisturbed
  <2>1. job[r].kind \in {"query", "boolean"}
    BY DEF HandlerInv, Undisturbed
  <2>2. req'[r].phase \in {"asking", "asking all"}
    BY <2>1 DEF InItsPhase, InPhase
  <2> QED BY <1>1, <1>3, <2>1, <2>2 DEF Undisturbed
<1> QED BY <1>4, <1>5, <1>6, <1>7, <1>8, Zenon DEF HandlerInv

\* Of a request that ended only its answer matters.
LEMMA EndedKept ==
    ASSUME NEW r \in Requests, req'[r].flight = {}, req'[r].phase = "ended",
           ListsOf(r)', Kept(r)', Undisturbed(r)'
    PROVE  HandlerInv(r)'
<1>1. /\ \A phase : InPhase(r, phase)' <=> phase = "ended"
      /\ ~Adds(r)' /\ ~Deletes(r)' /\ ~Asks(r)'
  BY DEF InPhase, Adds, Deletes, Asks
<1>2. InItsPhase(r)'
  BY <1>1 DEF InItsPhase
<1>3. OfThePhase(r)'
  BY <1>1 DEF OfThePhase, ListsOf
<1>4. OneAtATime(r)' /\ AnswersHold(r)'
  BY <1>1 DEF OneAtATime, AnswersHold
<1>5. UndoneInOrder(r)' /\ Covered(r)'
  BY <1>1 DEF UndoneInOrder, Covered
<1> QED BY <1>2, <1>3, <1>4, <1>5, Zenon DEF HandlerInv

\* A request that has been called has not left anything yet.
LEMMA CalledHas ==
    ASSUME NEW r \in Requests, HandlerInv(r)
    PROVE  /\ ~Running(r) => req[r].flight = {}
           /\ ~InPhase(r, "ended") => ~req[r].undone
           /\ ListsOf(r)
BY DEF HandlerInv, OneAtATime, InItsPhase, OfThePhase, ListsOf

\* When a request begins, all its keywords are in its tasks.
LEMMA BeginKept ==
    ASSUME Typed, NEW r \in Requests, HandlerInv(r), Begin(r)
    PROVE  HandlerInv(r)'
<1>1. /\ InPhase(r, "called") /\ req[r].flight = {} /\ ~req[r].undone /\ ListsOf(r)
  BY CalledHas DEF Begin, Running, InPhase
<1>2. /\ index' = index /\ job' = job /\ others' = others /\ calm' = calm
  BY DEF Begin
<1>3. job[r].old \in SUBSET Keywords /\ job[r].new \in SUBSET Keywords
  BY JobTyped
<1>4. ASSUME NEW phase \in {"adding", "batch", "deleting", "taking", "giving", "asking", "asking all"},
             NEW work \in WorkSet, Goes(r, phase, work),
             /\ phase = "adding" => job[r].kind = "add"
             /\ phase = "batch" => job[r].kind = "batch"
             /\ phase = "deleting" => job[r].kind = "delete"
             /\ phase = "taking" => job[r].kind = "update"
             /\ phase = "asking" => job[r].kind = "query"
             /\ phase = "asking all" => job[r].kind = "boolean"
             /\ phase # "giving",
             \A i \in DOMAIN work :
               /\ phase \in {"adding", "batch"} => work[i].op = "add" /\ work[i].keys \subseteq job[r].new
               /\ phase \in {"deleting", "taking"} =>
                    work[i].op = "delete" /\ work[i].keys \subseteq job[r].old
               /\ phase \in {"asking", "asking all"} =>
                    work[i].op = "query" /\ work[i].keys \subseteq job[r].new /\ work[i].keys # {},
             \A k \in (IF phase \in {"deleting", "taking"} THEN job[r].old ELSE job[r].new) :
               \E i \in DOMAIN work : k \in work[i].keys
      PROVE  HandlerInv(r)'
  <2>1. /\ req'[r].phase = phase /\ req'[r].work = work /\ req'[r].done = <<>>
        /\ req'[r].flight = req[r].flight /\ req'[r].deleted = req[r].deleted
        /\ req'[r].added = req[r].added /\ req'[r].undone = req[r].undone
    <3>1. phase \in Phases
      BY DEF Phases
    <3> QED BY <1>4, <3>1, GoesFields
  <2>2. ListsOf(r)'
    BY <1>1, <1>2, <2>1 DEF ListsOf
  <2>3. InItsPhase(r)'
    BY <1>1, <1>2, <1>4, <2>1 DEF InItsPhase, InPhase
  <2>4. Waiting(r)' = {work[i] : i \in DOMAIN work} /\ Waiting(r)' \subseteq Open(r)'
    BY <2>1 DEF Waiting, Open
  <2>5. /\ Adds(r)' <=> phase \in {"adding", "batch"}
        /\ Deletes(r)' <=> phase \in {"deleting", "taking"}
        /\ Asks(r)' <=> phase \in {"asking", "asking all"}
    BY <1>4, <2>1 DEF Adds, Deletes, Asks
  <2>6. Covered(r)'
    <3>1. Adds(r)' => \A k \in job[r].new : \E t \in Open(r)' : k \in t.keys
      BY <1>4, <2>4, <2>5
    <3>2. Deletes(r)' => \A k \in job[r].old : \E t \in Open(r)' : k \in t.keys
      BY <1>4, <2>4, <2>5
    <3>3. ~InPhase(r, "giving")'
      BY <1>4, <2>1 DEF InPhase
    <3> QED BY <1>2, <3>1, <3>2, <3>3 DEF Covered
  <2>7. \A t \in Waiting(r)' :
             /\ Adds(r)' => t.op = "add" /\ t.keys \subseteq job[r].new
             /\ Deletes(r)' => t.op = "delete" /\ t.keys \subseteq job[r].old
             /\ Asks(r)' => t.op = "query" /\ t.keys \subseteq job[r].new /\ t.keys # {}
    BY <1>4, <2>4, <2>5
  <2>8. Asks(r)' => \A k \in job[r].new : \E t \in Waiting(r)' : k \in t.keys
    BY <1>4, <2>4, <2>5
  <2> QED BY <1>1, <1>2, <1>4, <2>1, <2>2, <2>3, <2>6, <2>7, <2>8, PhaseKept
<1>5. CASE job[r].kind = "add" /\ Goes(r, "adding", Tasks("add", job[r].new))
  BY <1>3, <1>4, <1>5, TasksTyped
<1>6. CASE job[r].kind = "batch" /\ Goes(r, "batch", Groups(job[r].new))
  BY <1>3, <1>4, <1>6, GroupsTyped
<1>7. CASE job[r].kind = "delete" /\ Goes(r, "deleting", Tasks("delete", job[r].old))
  BY <1>3, <1>4, <1>7, TasksTyped
<1>8. CASE job[r].kind = "update" /\ Goes(r, "taking", Tasks("delete", job[r].old))
  BY <1>3, <1>4, <1>8, TasksTyped
<1>9. CASE job[r].kind = "query" /\ Goes(r, "asking", Tasks("query", job[r].new))
  BY <1>3, <1>4, <1>9, TasksTyped
<1>10. CASE job[r].kind = "boolean" /\ Goes(r, "asking all", Tasks("query", job[r].new))
  <2>1. /\ Tasks("query", job[r].new) \in WorkSet
        /\ \A i \in DOMAIN Tasks("query", job[r].new) :
             /\ Tasks("query", job[r].new)[i].op = "query"
             /\ Tasks("query", job[r].new)[i].keys \subseteq job[r].new
             /\ Tasks("query", job[r].new)[i].keys # {}
        /\ \A k \in job[r].new :
             \E i \in DOMAIN Tasks("query", job[r].new) : k \in Tasks("query", job[r].new)[i].keys
    BY <1>3, TasksTyped
  <2> QED BY <1>4, <1>10, <2>1
<1>11. CASE /\ job[r].kind \in {"add", "delete"}
            /\ req' = [req EXCEPT ![r].phase = "ended", ![r].answer = "no keywords"]
  <2>1. /\ req'[r].phase = "ended" /\ req'[r].answer = "no keywords"
        /\ req'[r].flight = req[r].flight /\ req'[r].deleted = req[r].deleted
        /\ req'[r].added = req[r].added /\ req'[r].undone = req[r].undone
    <3>1. req[r] \in Progress
      BY DEF Typed
    <3> QED BY <1>11, <3>1 DEF Typed, Progress
  <2>2. ListsOf(r)'
    BY <1>1, <1>2, <2>1 DEF ListsOf
  <2>3. Kept(r)'
    BY <1>1, <2>1 DEF Kept, Answer
  <2>4. Undisturbed(r)'
    BY <1>2, <1>11 DEF HandlerInv, Undisturbed
  <2> QED BY <1>1, <2>1, <2>2, <2>3, <2>4, EndedKept
<1> QED BY <1>5, <1>6, <1>7, <1>8, <1>9, <1>10, <1>11 DEF Begin

\* A request that changes indexes is answered.
LEMMA AnsweredKept ==
    ASSUME Typed, NEW r \in Requests, HandlerInv(r), req[r].flight = {},
           Adds(r) \/ Deletes(r), NEW answer \in {"ok", "error"}, Ends(r, answer),
           index' = index, job' = job, others' = others, calm' = calm,
           answer = "ok" =>
             /\ \A k \in job[r].new \ others[r] : HasFile(k)
             /\ \A k \in job[r].old \ (job[r].new \cup others[r]) : ~HasFile(k)
    PROVE  HandlerInv(r)'
<1>1. /\ req'[r].phase = "ended" /\ req'[r].answer = answer
      /\ req'[r].flight = req[r].flight /\ req'[r].deleted = req[r].deleted
      /\ req'[r].added = req[r].added /\ req'[r].undone = req[r].undone
  BY EndsFields
<1>2. ~InPhase(r, "ended") /\ r \notin calm
  BY DEF HandlerInv, Undisturbed, Adds, Deletes, InPhase
<1>3. ~req[r].undone /\ ListsOf(r)
  BY <1>2, CalledHas
<1>4. ListsOf(r)'
  BY <1>1, <1>3 DEF ListsOf
<1>5. \A k : HasFile(k)' <=> HasFile(k)
  BY DEF HasFile
<1>6. Kept(r)'
  BY <1>1, <1>3, <1>5 DEF Kept, Answer
<1>7. Undisturbed(r)'
  BY <1>2 DEF Undisturbed
<1> QED BY <1>1, <1>4, <1>6, <1>7, EndedKept

\* When all went well, what was asked for is done.
LEMMA AllDone ==
    ASSUME NEW r \in Requests, HandlerInv(r), AllSent(r), req[r].flight = {}, AllOk(req[r].done)
    PROVE  /\ Adds(r) => \A k \in job[r].new \ others[r] : HasFile(k)
           /\ Deletes(r) => \A k \in job[r].old \ others[r] : ~HasFile(k)
BY NothingOpen DEF HandlerInv, Covered

\* add goes on with the rest of its work, or ends with nothing open.
LEMMA EndAddKept ==
    ASSUME Typed, NEW r \in Requests, HandlerInv(r), EndAdd(r)
    PROVE  HandlerInv(r)'
<1>1. /\ InPhase(r, "adding") /\ req[r].done # <<>> /\ Adds(r)
      /\ index' = index /\ job' = job /\ others' = others /\ calm' = calm
  BY DEF EndAdd, Record, Adds, InPhase
<1>2. req[r].flight = {} /\ job[r].kind = "add" /\ job[r].old = {}
  BY <1>1, JobTyped DEF HandlerInv, OneAtATime, InItsPhase
<1>3. CASE ~AllOk(req[r].done)
  <2>1. Ends(r, "error")
    BY <1>3 DEF EndAdd
  <2> QED BY <1>1, <1>2, <2>1, AnsweredKept
<1>4. CASE AllOk(req[r].done) /\ AllSent(r)
  <2>1. Ends(r, "ok")
    BY <1>4 DEF EndAdd
  <2>2. \A k \in job[r].new \ others[r] : HasFile(k)
    BY <1>1, <1>2, <1>4, AllDone
  <2> QED BY <1>1, <1>2, <2>1, <2>2, AnsweredKept
<1>5. CASE AllOk(req[r].done) /\ ~AllSent(r)
  <2>1. "adding" \in Phases /\ req[r].work \in WorkSet
    <3>1. req[r] \in Progress
      BY DEF Typed
    <3> QED BY <3>1 DEF Progress, Phases
  <2>2. Goes(r, "adding", req[r].work)
    BY <1>5 DEF EndAdd
  <2>3. /\ req'[r].phase = "adding" /\ req'[r].work = req[r].work /\ req'[r].done = <<>>
        /\ req'[r].flight = req[r].flight /\ req'[r].deleted = req[r].deleted
        /\ req'[r].added = req[r].added /\ req'[r].undone = req[r].undone
    BY <2>1, <2>2, GoesFields
  <2>4. ~req[r].undone /\ ListsOf(r)
    BY <1>1, CalledHas DEF InPhase
  <2>5. ListsOf(r)'
    BY <1>1, <2>3, <2>4 DEF ListsOf
  <2>6. InItsPhase(r)'
    BY <1>1, <1>2, <2>3, <2>4 DEF InItsPhase, InPhase
  <2>7. Waiting(r)' = Waiting(r) /\ Waiting(r)' \subseteq Open(r)'
    BY <2>3 DEF Waiting, Open
  <2>8. Open(r) = Waiting(r)
    BY <1>2, <1>5 DEF Open, Flown, AllOk
  <2>9. Covered(r)'
    <3>1. \A k \in job[r].new \ others[r] : HasFile(k) \/ \E t \in Open(r) : k \in t.keys
      BY <1>1 DEF HandlerInv, Covered
    <3>2. \A k : HasFile(k)' <=> HasFile(k)
      BY <1>1 DEF HasFile
    <3>3. ~Deletes(r)' /\ ~InPhase(r, "giving")'
      BY <2>3 DEF Deletes, InPhase
    <3> QED BY <1>1, <2>7, <2>8, <3>1, <3>2, <3>3 DEF Covered
  <2>10. Adds(r)' /\ ~Deletes(r)' /\ ~Asks(r)'
    BY <2>3 DEF Adds, Deletes, Asks
  <2>11. \A t \in Waiting(r)' : t.op = "add" /\ t.keys \subseteq job[r].new
    BY <1>1, <2>7 DEF HandlerInv, OfThePhase, Ours
  <2> QED BY <1>1, <1>2, <2>3, <2>4, <2>5, <2>6, <2>9, <2>10, <2>11, PhaseKept
<1> QED BY <1>3, <1>4, <1>5

\* A batch without an error ends with nothing open.
LEMMA EndBatchKept ==
    ASSUME Typed, NEW r \in Requests, HandlerInv(r), EndBatch(r)
    PROVE  HandlerInv(r)'
<1>1. /\ InPhase(r, "batch") /\ req[r].flight = {} /\ Adds(r)
      /\ index' = index /\ job' = job /\ others' = others /\ calm' = calm
  BY DEF EndBatch, Record, Adds, InPhase
<1>2. job[r].old = {}
  BY <1>1, JobTyped DEF HandlerInv, InItsPhase
<1>3. CASE AllOk(req[r].done)
  <2>1. Ends(r, "ok") /\ AllSent(r)
    BY <1>3 DEF EndBatch
  <2>2. \A k \in job[r].new \ others[r] : HasFile(k)
    BY <1>1, <1>3, <2>1, AllDone
  <2> QED BY <1>1, <1>2, <2>1, <2>2, AnsweredKept
<1>4. CASE ~AllOk(req[r].done)
  <2>1. Ends(r, "error")
    BY <1>4 DEF EndBatch
  <2> QED BY <1>1, <2>1, AnsweredKept
<1> QED BY <1>3, <1>4

\* A deletion without an error ends with nothing open.
LEMMA EndDeleteKept ==
    ASSUME Typed, NEW r \in Requests, HandlerInv(r), EndDelete(r)
    PROVE  HandlerInv(r)'
<1>1. /\ InPhase(r, "deleting") /\ AllSent(r) /\ req[r].flight = {} /\ Deletes(r)
      /\ index' = index /\ job' = job /\ others' = others /\ calm' = calm
  BY DEF EndDelete, Over, Record, Deletes, InPhase
<1>2. job[r].new = {}
  BY <1>1, JobTyped DEF HandlerInv, InItsPhase
<1>3. CASE AllOk(req[r].done)
  <2>1. Ends(r, "ok")
    BY <1>3 DEF EndDelete
  <2>2. \A k \in job[r].old \ others[r] : ~HasFile(k)
    BY <1>1, <1>3, AllDone
  <2> QED BY <1>1, <1>2, <2>1, <2>2, AnsweredKept
<1>4. CASE ~AllOk(req[r].done)
  <2>1. Ends(r, "error")
    BY <1>4 DEF EndDelete
  <2> QED BY <1>1, <2>1, AnsweredKept
<1> QED BY <1>3, <1>4

\* An update that deleted everything begins to add.
LEMMA EndTakingKept ==
    ASSUME Typed, NEW r \in Requests, HandlerInv(r), EndTaking(r)
    PROVE  HandlerInv(r)'
<1>1. /\ InPhase(r, "taking") /\ AllSent(r) /\ req[r].flight = {} /\ Deletes(r)
      /\ index' = index /\ job' = job /\ others' = others /\ calm' = calm
  BY DEF EndTaking, Over, Record, Deletes, InPhase
<1>2. CASE ~AllOk(req[r].done)
  <2>1. Ends(r, "error")
    BY <1>2 DEF EndTaking
  <2> QED BY <1>1, <2>1, AnsweredKept
<1>3. CASE AllOk(req[r].done)
  <2>1. /\ req'[r].phase = "giving" /\ req'[r].work = Tasks("add", job[r].new)
        /\ req'[r].done = <<>> /\ req'[r].deleted = TasksOf(req[r].done, DOMAIN req[r].done)
        /\ req'[r].flight = req[r].flight /\ req'[r].added = req[r].added
        /\ req'[r].undone = req[r].undone
    BY <1>3, EndTakingFields
  <2>2. ~req[r].undone /\ ListsOf(r)
    BY <1>1, CalledHas DEF InPhase
  <2>3. ListsOf(r)'
    <3>1. \A i \in DOMAIN req[r].done :
            req[r].done[i].task.op = "delete" /\ req[r].done[i].task.keys \subseteq job[r].old
      BY <1>1 DEF HandlerInv, OfThePhase, Ours
    <3> QED BY <1>1, <2>1, <2>2, <3>1 DEF ListsOf, TasksOf
  <2>4. InItsPhase(r)'
    BY <1>1, <2>1, <2>2 DEF HandlerInv, InItsPhase, InPhase
  <2>5. /\ \A i \in DOMAIN req'[r].work :
             req'[r].work[i].op = "add" /\ req'[r].work[i].keys \subseteq job[r].new
        /\ \A k \in job[r].new : \E i \in DOMAIN req'[r].work : k \in req'[r].work[i].keys
    BY <2>1, JobTyped, TasksTyped
  <2>6. Adds(r)' /\ ~Deletes(r)' /\ ~Asks(r)'
    BY <2>1 DEF Adds, Deletes, Asks
  <2>7. Covered(r)'
    <3>1. \A k \in job[r].old \ others[r] : ~HasFile(k)
      BY <1>1, <1>3, AllDone
    <3>2. \A k : HasFile(k)' <=> HasFile(k)
      BY <1>1 DEF HasFile
    <3>3. \A k \in job[r].new : \E t \in Open(r)' : k \in t.keys
      BY <2>5 DEF Open, Waiting
    <3> QED BY <1>1, <2>6, <3>1, <3>2, <3>3 DEF Covered
  <2>8. \A t \in Waiting(r)' : t.op = "add" /\ t.keys \subseteq job[r].new
    BY <2>5 DEF Waiting
  <2> QED BY <1>1, <2>1, <2>2, <2>3, <2>4, <2>6, <2>7, <2>8, PhaseKept
<1> QED BY <1>2, <1>3

\* The work of a rollback: first what was deleted, to be added, then what was added.
IsRollback(work, deleted, given) ==
    /\ DOMAIN work \subseteq Nat
    /\ \A i, j \in DOMAIN work : work[i].op = "delete" /\ work[j].op = "add" => j < i
    /\ \A i \in DOMAIN work :
         \/ work[i].op = "add" /\ \E j \in DOMAIN deleted : work[i].keys = deleted[j].keys
         \/ work[i].op = "delete" /\ \E j \in DOMAIN given : work[i].keys = given[j].keys
    /\ \A j \in DOMAIN deleted : \E i \in DOMAIN work :
         work[i].op = "add" /\ work[i].keys = deleted[j].keys
    /\ \A j \in DOMAIN given : \E i \in DOMAIN work :
         work[i].op = "delete" /\ work[i].keys = given[j].keys

\* The work of a rollback: an addition for each deletion, then a deletion for
\* each addition that was accepted.
LEMMA RollbackWork ==
    ASSUME NEW deleted \in Seq(TaskSet), NEW given \in Seq(TaskSet), NEW work,
           \A i \in DOMAIN deleted : deleted[i].op = "delete",
           \A i \in DOMAIN given : given[i].op = "add",
           DOMAIN work = DOMAIN (deleted \o given),
           \A i \in DOMAIN work : work[i] = Undone((deleted \o given)[i])
    PROVE  IsRollback(work, deleted, given)
<1> DEFINE m == Len(deleted)  n == Len(given)
<1>1. /\ m \in Nat /\ n \in Nat /\ DOMAIN deleted = 1 .. m /\ DOMAIN given = 1 .. n
  BY LenProperties
<1>2. /\ deleted \o given \in Seq(TaskSet) /\ Len(deleted \o given) = m + n
      /\ \A i \in 1 .. (m + n) : (deleted \o given)[i] = IF i <= m THEN deleted[i] ELSE given[i - m]
  BY ConcatProperties
<1>3. DOMAIN (deleted \o given) = 1 .. (m + n)
  BY <1>2, LenProperties
<1>4. \A t \in TaskSet : /\ Undone(t).op = (IF t.op = "add" THEN "delete" ELSE "add")
                         /\ Undone(t).keys = t.keys
  BY DEF TaskSet, Undone
<1>5. (\A i \in 1 .. m : deleted[i] \in TaskSet) /\ (\A i \in 1 .. n : given[i] \in TaskSet)
  BY LenProperties
<1> HIDE DEF m, n
<1>6. DOMAIN work = 1 .. (m + n) /\ \A i \in 1 .. (m + n) : work[i] = Undone((deleted \o given)[i])
  BY <1>3
<1>7. ASSUME NEW i \in 1 .. m
      PROVE  i \in DOMAIN work /\ work[i].op = "add" /\ work[i].keys = deleted[i].keys
  <2>1. i \in 1 .. (m + n) /\ i <= m
    BY <1>1
  <2>2. work[i] = Undone(deleted[i])
    BY <1>2, <1>6, <2>1
  <2>3. deleted[i] \in TaskSet /\ deleted[i].op = "delete"
    BY <1>1, <1>5
  <2>4. Undone(deleted[i]).op = "add" /\ Undone(deleted[i]).keys = deleted[i].keys
    BY <1>4, <2>3
  <2> QED BY <1>6, <2>1, <2>2, <2>4
<1>8. ASSUME NEW i \in 1 .. n
      PROVE  i + m \in DOMAIN work /\ work[i + m].op = "delete" /\ work[i + m].keys = given[i].keys
  <2>1. i + m \in 1 .. (m + n) /\ ~(i + m <= m) /\ (i + m) - m = i
    BY <1>1
  <2>2. work[i + m] = Undone(given[i])
    BY <1>2, <1>6, <2>1
  <2>3. given[i] \in TaskSet /\ given[i].op = "add"
    BY <1>1, <1>5
  <2>4. Undone(given[i]).op = "delete" /\ Undone(given[i]).keys = given[i].keys
    BY <1>4, <2>3
  <2> QED BY <1>6, <2>1, <2>2, <2>4
<1>9. \A i \in DOMAIN work : (i \in 1 .. m) \/ (\E j \in 1 .. n : i = j + m)
  <2> SUFFICES ASSUME NEW i \in 1 .. (m + n), i \notin 1 .. m
               PROVE  \E j \in 1 .. n : i = j + m
    BY <1>6
  <2>1. i - m \in 1 .. n /\ i = (i - m) + m
    BY <1>1
  <2> QED BY <2>1
<1>10. DOMAIN work \subseteq Nat
  BY <1>1, <1>6
<1>11. \A i, j \in DOMAIN work : work[i].op = "delete" /\ work[j].op = "add" => j < i
  <2> SUFFICES ASSUME NEW i \in DOMAIN work, NEW j \in DOMAIN work,
                      work[i].op = "delete", work[j].op = "add"
               PROVE  j < i
    OBVIOUS
  <2>1. j \in 1 .. m
    BY <1>8, <1>9
  <2>2. PICK l \in 1 .. n : i = l + m
    BY <1>7, <1>9
  <2> QED BY <1>1, <2>1, <2>2
<1>12. \A i \in DOMAIN work :
                \/ work[i].op = "add" /\ \E j \in DOMAIN deleted : work[i].keys = deleted[j].keys
                \/ work[i].op = "delete" /\ \E j \in DOMAIN given : work[i].keys = given[j].keys
  <2> SUFFICES ASSUME NEW i \in DOMAIN work
               PROVE  \/ work[i].op = "add" /\ \E j \in DOMAIN deleted : work[i].keys = deleted[j].keys
                      \/ work[i].op = "delete" /\ \E j \in DOMAIN given : work[i].keys = given[j].keys
    OBVIOUS
  <2>1. CASE i \in 1 .. m
    <3>1. work[i].op = "add" /\ i \in DOMAIN deleted /\ work[i].keys = deleted[i].keys
      BY <1>1, <1>7, <2>1
    <3> QED BY <3>1
  <2>2. CASE \E j \in 1 .. n : i = j + m
    <3>1. PICK j \in 1 .. n : i = j + m
      BY <2>2
    <3>2. work[i].op = "delete" /\ j \in DOMAIN given /\ work[i].keys = given[j].keys
      BY <1>1, <1>8, <3>1
    <3> QED BY <3>2
  <2>3. (i \in 1 .. m) \/ (\E j \in 1 .. n : i = j + m)
    BY <1>9
  <2> QED BY <2>1, <2>2, <2>3
<1>13. \A j \in DOMAIN deleted : \E i \in DOMAIN work :
         work[i].op = "add" /\ work[i].keys = deleted[j].keys
  BY <1>1, <1>7
<1>14. \A j \in DOMAIN given : \E i \in DOMAIN work :
         work[i].op = "delete" /\ work[i].keys = given[j].keys
  BY <1>1, <1>8
<1> QED BY <1>10, <1>11, <1>12, <1>13, <1>14 DEF IsRollback

\* An update ends with everything added, or begins its rollback.
LEMMA EndGivingKept ==
    ASSUME Typed, NEW r \in Requests, HandlerInv(r), EndGiving(r)
    PROVE  HandlerInv(r)'
<1>1. /\ InPhase(r, "giving") /\ AllSent(r) /\ req[r].flight = {} /\ Adds(r)
      /\ index' = index /\ job' = job /\ others' = others /\ calm' = calm
  BY DEF EndGiving, Over, Record, Adds, InPhase
<1>2. CASE AllOk(req[r].done)
  <2>1. Ends(r, "ok")
    BY <1>2 DEF EndGiving
  <2>2. \A k \in job[r].new \ others[r] : HasFile(k)
    BY <1>1, <1>2, AllDone
  <2>3. \A k \in job[r].old \ (job[r].new \cup others[r]) : ~HasFile(k)
    BY <1>1 DEF HandlerInv, Covered
  <2> QED BY <1>1, <2>1, <2>2, <2>3, AnsweredKept
<1>3. CASE ~AllOk(req[r].done)
  <2>1. /\ Given(r) \in Seq(TaskSet)
        /\ req'[r].phase = "undoing"
        /\ req'[r].work = [i \in DOMAIN (req[r].deleted \o Given(r)) |->
                             Undone((req[r].deleted \o Given(r))[i])]
        /\ req'[r].done = <<>> /\ req'[r].deleted = req[r].deleted
        /\ req'[r].flight = req[r].flight /\ req'[r].added = Given(r)
        /\ req'[r].answer = req[r].answer /\ req'[r].undone = req[r].undone
    BY <1>3, EndGivingFields
  <2>2. req[r].deleted \in Seq(TaskSet)
    <3>1. req[r] \in Progress
      BY DEF Typed
    <3> QED BY <3>1 DEF Progress
  <2>3. ~req[r].undone /\ ListsOf(r)
    BY <1>1, CalledHas DEF InPhase
  <2>4. \A i \in DOMAIN Given(r) : Given(r)[i].op = "add" /\ Given(r)[i].keys \subseteq job[r].new
    <3>1. \A i \in DOMAIN req[r].done :
            req[r].done[i].task.op = "add" /\ req[r].done[i].task.keys \subseteq job[r].new
      BY <1>1 DEF HandlerInv, OfThePhase, Ours
    <3>2. Before(req[r].done) \subseteq DOMAIN req[r].done
      BY PlacesOfResults
    <3> QED BY <3>1, <3>2 DEF Given, TasksOf
  <2>5. PICK work : work = req'[r].work
    OBVIOUS
  <2>6. IsRollback(work, req[r].deleted, Given(r))
    <3>1. PICK deleted \in Seq(TaskSet) : deleted = req[r].deleted
      BY <2>2
    <3>2. PICK given \in Seq(TaskSet) : given = Given(r)
      BY <2>1
    <3>3. \A i \in DOMAIN deleted : deleted[i].op = "delete"
      BY <2>3, <3>1 DEF ListsOf
    <3>4. \A i \in DOMAIN given : given[i].op = "add"
      BY <2>4, <3>2
    <3>5. /\ DOMAIN work = DOMAIN (deleted \o given)
          /\ \A i \in DOMAIN work : work[i] = Undone((deleted \o given)[i])
      BY <2>1, <2>5, <3>1, <3>2
    <3>6. IsRollback(work, deleted, given)
      BY <3>1, <3>2, <3>3, <3>4, <3>5, RollbackWork, Zenon
    <3> QED BY <3>1, <3>2, <3>6
  <2>7. /\ Waiting(r)' = {work[i] : i \in DOMAIN work} /\ Waiting(r)' \subseteq Open(r)'
        /\ Flown(r)' = {}
    BY <1>1, <2>1, <2>5 DEF Waiting, Open, Flown
  <2>8. DOMAIN req'[r].done = {}
    BY <2>1, EmptySeq, LenProperties
  <2>9. Ours(r)' = Waiting(r)'
    BY <2>7, <2>8 DEF Ours
  <2>10. /\ ~Adds(r)' /\ ~Deletes(r)' /\ ~Asks(r)' /\ InPhase(r, "undoing")'
         /\ ~InPhase(r, "giving")' /\ ~InPhase(r, "ended")'
    BY <2>1 DEF Adds, Deletes, Asks, InPhase
  <2>11. InItsPhase(r)'
    BY <1>1, <2>1, <2>3 DEF HandlerInv, InItsPhase, InPhase
  <2>12. OfThePhase(r)'
    <3>1. \A t \in Waiting(r)' : \/ t.op = "add" /\ t.keys \subseteq job[r].old
                                 \/ t.op = "delete" /\ t.keys \subseteq KeysOf(Given(r))
      BY <2>3, <2>6, <2>7 DEF ListsOf, KeysOf, IsRollback
    <3> QED BY <1>1, <2>1, <2>3, <2>4, <2>9, <2>10, <3>1 DEF OfThePhase, ListsOf, KeysOf
  <2>13. OneAtATime(r)' /\ AnswersHold(r)'
    BY <1>1, <2>1 DEF OneAtATime, AnswersHold, InPhase
  <2>14. Covered(r)'
    BY <2>10 DEF Covered
  <2>15. UndoneInOrder(r)'
    <3>1. \A k \in KeysOf(Given(r)) : \E t \in Waiting(r)' : t.op = "delete" /\ k \in t.keys
      BY <2>6, <2>7 DEF KeysOf, IsRollback
    <3>2. \A k \in KeysOf(req[r].deleted) : \E t \in Waiting(r)' : t.op = "add" /\ k \in t.keys
      BY <2>6, <2>7 DEF KeysOf, IsRollback
    <3>3. KeysOf(req[r].added)' = KeysOf(Given(r)) /\ KeysOf(req[r].deleted)' = KeysOf(req[r].deleted)
      BY <2>1 DEF KeysOf
    <3>4. /\ DOMAIN req'[r].work \subseteq Nat
          /\ \A i, j \in DOMAIN req'[r].work :
               req'[r].work[i].op = "delete" /\ req'[r].work[j].op = "add" => j < i
      BY <2>5, <2>6 DEF IsRollback
    <3>5. \A k \in KeysOf(req[r].deleted) : \E t \in Open(r)' : t.op = "add" /\ k \in t.keys
      BY <2>7, <3>2
    <3>6. \A k \in KeysOf(Given(r)) : \E t \in Open(r)' : t.op = "delete" /\ k \in t.keys
      BY <2>7, <3>1
    <3> QED BY <3>1, <3>3, <3>4, <3>5, <3>6, Zenon DEF UndoneInOrder
  <2>16. Undisturbed(r)'
    BY <1>1 DEF HandlerInv, Undisturbed, InPhase
  <2>17. Kept(r)'
    BY <2>1, <2>3, <2>10 DEF Kept, Answer
  <2> QED BY <2>11, <2>12, <2>13, <2>14, <2>15, <2>16, <2>17, Zenon DEF HandlerInv
<1> QED BY <1>2, <1>3

\* A rollback that ends without an error has nothing open.
LEMMA EndUndoingKept ==
    ASSUME Typed, NEW r \in Requests, HandlerInv(r), EndUndoing(r)
    PROVE  HandlerInv(r)'
<1>1. /\ InPhase(r, "undoing") /\ AllSent(r) /\ req[r].flight = {}
      /\ index' = index /\ job' = job /\ others' = others /\ calm' = calm
  BY DEF EndUndoing, Over, Record, InPhase
<1>2. /\ req'[r].phase = "ended" /\ req'[r].answer = "error"
      /\ req'[r].undone = AllOk(req[r].done)
      /\ req'[r].flight = req[r].flight /\ req'[r].deleted = req[r].deleted
      /\ req'[r].added = req[r].added
  BY EndUndoingFields
<1>3. ListsOf(r)'
  BY <1>1, <1>2, CalledHas DEF ListsOf
<1>4. Kept(r)'
  <2>1. ~Answer(r, "ok")'
    BY <1>2 DEF Answer
  <2>2. ASSUME AllOk(req[r].done)
        PROVE  /\ \A k \in KeysOf(req[r].deleted) \ (KeysOf(req[r].added) \cup others[r]) : HasFile(k)'
               /\ \A k \in KeysOf(req[r].added) \ others[r] : ~HasFile(k)'
    <3>1. Open(r) = {}
      BY <1>1, <2>2, NothingOpen
    <3>2. \A k : HasFile(k)' <=> HasFile(k)
      BY <1>1 DEF HasFile
    <3> QED BY <1>1, <3>1, <3>2 DEF HandlerInv, UndoneInOrder
  <2> QED BY <1>1, <1>2, <2>1, <2>2 DEF Kept, KeysOf
<1>5. Undisturbed(r)'
  BY <1>1 DEF HandlerInv, Undisturbed, InPhase
<1> QED BY <1>1, <1>2, <1>3, <1>4, <1>5, EndedKept

\* A calm query that has all its results has the files of its keywords.
LEMMA CalmAnswer ==
    ASSUME Typed, NEW r \in Requests, HandlerInv(r), r \in calm, Asks(r),
           AllSent(r), req[r].flight = {}
    PROVE  /\ AllOk(req[r].done)
           /\ \A i \in DOMAIN req[r].done :
                req[r].done[i].files = {k \in req[r].done[i].task.keys : HasFile(k)}
           /\ \A i \in DOMAIN req[r].done :
                req[r].done[i].task.keys \subseteq job[r].new /\ req[r].done[i].task.keys # {}
           /\ \A k \in job[r].new : \E i \in DOMAIN req[r].done : k \in req[r].done[i].task.keys
<1>1. AllOk(req[r].done)
  BY DEF HandlerInv, Undisturbed, AllOk
<1>2. ASSUME NEW i \in DOMAIN req[r].done
      PROVE  /\ req[r].done[i].files = {k \in req[r].done[i].task.keys : HasFile(k)}
             /\ req[r].done[i].task.keys \subseteq job[r].new /\ req[r].done[i].task.keys # {}
  <2>1. req[r].done[i].task \in Ours(r)
    BY DEF Ours
  <2>2. \A k \in req[r].done[i].task.keys : Storager(k) = Place(req[r].done[i].task)
    BY <2>1, OursTyped, PlaceTyped
  <2>3. req[r].done[i].files = index[Place(req[r].done[i].task)] \cap req[r].done[i].task.keys
    BY DEF HandlerInv, Undisturbed
  <2>4. req[r].done[i].files = {k \in req[r].done[i].task.keys : HasFile(k)}
    BY <2>2, <2>3 DEF HasFile
  <2> QED BY <2>1, <2>4 DEF HandlerInv, OfThePhase
<1>3. \A k \in job[r].new : \E i \in DOMAIN req[r].done : k \in req[r].done[i].task.keys
  <2>1. Ours(r) = {req[r].done[i].task : i \in DOMAIN req[r].done}
    BY DEF Ours, Waiting, Flown, AllSent
  <2> QED BY <2>1 DEF HandlerInv, OfThePhase
<1> QED BY <1>1, <1>2, <1>3

\* A query ends with the results it has.
LEMMA AnswerKept ==
    ASSUME Typed, NEW r \in Requests, HandlerInv(r), EndAsking(r) \/ EndAskingAll(r)
    PROVE  HandlerInv(r)'
<1>1. /\ Asks(r) /\ ~InPhase(r, "ended") /\ AllSent(r) /\ req[r].flight = {}
      /\ index' = index /\ job' = job /\ others' = others /\ calm' = calm
  BY DEF EndAsking, EndAskingAll, Over, Record, Asks, InPhase
<1>2. job[r].kind \in {"query", "boolean"}
  BY <1>1 DEF HandlerInv, InItsPhase, Asks, InPhase
<1>3. /\ req[r].done \in Seq(ResultSet)
      /\ \A i \in DOMAIN req[r].done : req[r].done[i].files \in SUBSET Keywords
  BY DoneTyped DEF ResultSet
<1>4. \E files \in SUBSET Keywords : \E answer \in {"ok", "error", "unverified"} :
        /\ req' = [req EXCEPT ![r].phase = "ended", ![r].done = <<>>, ![r].files = files,
                              ![r].answer = answer]
        /\ r \in calm => answer = "ok" /\ files = {k \in job[r].new : HasFile(k)}
  <2>1. CASE EndAsking(r)
    <3> DEFINE files == IF AllOk(req[r].done) THEN req[r].done[1].files ELSE {}
               answer == IF AllOk(req[r].done) THEN "ok"
                         ELSE IF req[r].done[1].came THEN "unverified" ELSE "error"
    <3>1. InPhase(r, "asking") /\ 1 \in DOMAIN req[r].done
      BY <2>1, AskedResults DEF EndAsking, Over, HandlerInv
    <3>2. files \in SUBSET Keywords /\ answer \in {"ok", "error", "unverified"}
      BY <1>3, <3>1
    <3>3. req' = [req EXCEPT ![r].phase = "ended", ![r].done = <<>>, ![r].files = files,
                             ![r].answer = answer]
      BY <2>1 DEF EndAsking
    <3>4. ASSUME r \in calm
          PROVE  answer = "ok" /\ files = {k \in job[r].new : HasFile(k)}
      <4>1. PICK k \in Keywords : job[r].new = {k}
        BY <3>1, JobTyped DEF HandlerInv, InItsPhase
      <4>2. /\ AllOk(req[r].done)
            /\ req[r].done[1].files = {j \in req[r].done[1].task.keys : HasFile(j)}
            /\ req[r].done[1].task.keys \subseteq job[r].new /\ req[r].done[1].task.keys # {}
        BY <1>1, <3>1, <3>4, CalmAnswer
      <4>3. req[r].done[1].task.keys = job[r].new
        BY <4>1, <4>2
      <4> QED BY <4>2, <4>3
    <3> HIDE DEF files, answer
    <3> QED BY <3>2, <3>3, <3>4
  <2>2. CASE EndAskingAll(r)
    <3> DEFINE files == UNION {req[r].done[i].files : i \in IfAllOk(req[r].done)}
               answer == IF AllOk(req[r].done) THEN "ok" ELSE "error"
    <3>1. files \in SUBSET Keywords /\ answer \in {"ok", "error", "unverified"}
      BY <1>3, PlacesOfResults
    <3>2. req' = [req EXCEPT ![r].phase = "ended", ![r].done = <<>>, ![r].files = files,
                             ![r].answer = answer]
      BY <2>2 DEF EndAskingAll
    <3>3. ASSUME r \in calm
          PROVE  answer = "ok" /\ files = {k \in job[r].new : HasFile(k)}
      <4>1. /\ AllOk(req[r].done)
            /\ \A i \in DOMAIN req[r].done :
                 req[r].done[i].files = {k \in req[r].done[i].task.keys : HasFile(k)}
            /\ \A i \in DOMAIN req[r].done : req[r].done[i].task.keys \subseteq job[r].new
            /\ \A k \in job[r].new : \E i \in DOMAIN req[r].done : k \in req[r].done[i].task.keys
        BY <1>1, <3>3, CalmAnswer
      <4>2. IfAllOk(req[r].done) = DOMAIN req[r].done
        BY <4>1 DEF IfAllOk
      <4>3. files = {k \in job[r].new : HasFile(k)}
        BY <4>1, <4>2
      <4> QED BY <4>1, <4>3
    <3> HIDE DEF files, answer
    <3> QED BY <3>1, <3>2, <3>3
  <2> QED BY <2>1, <2>2
<1>5. PICK files \in SUBSET Keywords, answer \in {"ok", "error", "unverified"} :
        /\ req' = [req EXCEPT ![r].phase = "ended", ![r].done = <<>>, ![r].files = files,
                              ![r].answer = answer]
        /\ r \in calm => answer = "ok" /\ files = {k \in job[r].new : HasFile(k)}
  BY <1>4
<1>6. /\ req'[r].phase = "ended" /\ req'[r].answer = answer /\ req'[r].files = files
      /\ req'[r].flight = req[r].flight /\ req'[r].deleted = req[r].deleted
      /\ req'[r].added = req[r].added /\ req'[r].undone = req[r].undone
  <2>1. req' = [req EXCEPT ![r].phase = "ended", ![r].done = <<>>, ![r].files = files,
                           ![r].answer = answer]
    BY <1>5
  <2>2. req[r] \in Progress /\ req \in [Requests -> Progress]
    BY DEF Typed
  <2> QED BY <2>1, <2>2 DEF Progress
<1>7. ~req[r].undone /\ ListsOf(r)
  BY <1>1, CalledHas
<1>8. ListsOf(r)'
  BY <1>1, <1>6, <1>7 DEF ListsOf
<1>9. Kept(r)'
  BY <1>1, <1>2, <1>6, <1>7 DEF Kept
<1>10. Undisturbed(r)'
  <2>1. \A k : HasFile(k)' <=> HasFile(k)
    BY <1>1 DEF HasFile
  <2>2. r \in calm => req'[r].files = {k \in job[r].new : HasFile(k)'}
    BY <1>5, <1>6, <2>1
  <2>3. r \in calm => Answer(r, "ok")'
    BY <1>5, <1>6 DEF Answer, InPhase
  <2>4. ~Asks(r)'
    BY <1>6 DEF Asks
  <2> QED BY <1>1, <1>2, <1>6, <2>2, <2>3, <2>4 DEF Undisturbed
<1> QED BY <1>1, <1>6, <1>8, <1>9, <1>10, EndedKept

-----------------------------------------------------------------------------
(* The theorems about what requests do.                                    *)

\* Every step keeps the invariant.
LEMMA HandlerStep ==
    ASSUME IInv, NEW r \in Requests, RequestStep(r)
    PROVE  IInv'
<1>1. Typed /\ HandlerInv(r)
  BY DEF IInv
<1>2. Typed'
  BY <1>1, TypedStep DEF HandlerInv
<1>3. \A s \in Requests \ {r} : HandlerInv(s)'
  BY <1>1, BystanderKept DEF IInv
<1>4. HandlerInv(r)'
  BY <1>1, BeginKept, LaunchKept, ReadKept, ServeKept, ResultKept, EndAddKept, EndBatchKept,
     EndDeleteKept, EndTakingKept, EndGivingKept, EndUndoingKept, AnswerKept DEF RequestStep
<1>5. \A s \in Requests : HandlerInv(s)'
  BY <1>3, <1>4
<1> QED BY <1>2, <1>5, Zenon DEF IInv

\* So does a step that changes nothing.
LEMMA Stutters ==
    ASSUME IInv, UNCHANGED requestVars
    PROVE  IInv'
<1>1. /\ req' = req /\ job' = job /\ index' = index /\ others' = others /\ calm' = calm
      /\ roots' = roots /\ summary' = summary /\ latest' = latest
  BY DEF requestVars
<1>2. Typed'
  BY <1>1 DEF IInv, Typed
<1>3. ASSUME NEW s \in Requests
      PROVE  HandlerInv(s)'
  <2>1. HandlerInv(s)
    BY DEF IInv
  <2>2. /\ Ours(s)' = Ours(s) /\ Open(s)' = Open(s)
        /\ Waiting(s)' = Waiting(s) /\ Flown(s)' = Flown(s)
        /\ (Adds(s)' <=> Adds(s)) /\ (Deletes(s)' <=> Deletes(s)) /\ (Asks(s)' <=> Asks(s))
        /\ \A phase : InPhase(s, phase)' <=> InPhase(s, phase)
        /\ InItsPhase(s)' /\ OfThePhase(s)' /\ OneAtATime(s)'
    BY <1>1, <2>1, SameRequest DEF HandlerInv
  <2>3. \A k : HasFile(k)' <=> HasFile(k)
    BY <1>1 DEF HasFile
  <2>4. AnswersHold(s)'
    BY <1>1, <2>1, <2>3 DEF HandlerInv, AnswersHold
  <2>5. Covered(s)'
    BY <1>1, <2>1, <2>2, <2>3 DEF HandlerInv, Covered
  <2>6. UndoneInOrder(s)'
    BY <1>1, <2>1, <2>2, <2>3 DEF HandlerInv, UndoneInOrder
  <2>7. Undisturbed(s)'
    <3>1. {k \in job[s].new : HasFile(k)'} = {k \in job[s].new : HasFile(k)}
      BY <2>3
    <3> QED BY <1>1, <2>1, <2>2, <3>1 DEF HandlerInv, Undisturbed, Answer, Place
  <2>8. Kept(s)'
    BY <1>1, <2>1, <2>2, <2>3 DEF HandlerInv, Kept, Answer
  <2> QED BY <2>2, <2>4, <2>5, <2>6, <2>7, <2>8, Zenon DEF HandlerInv
<1> QED BY <1>2, <1>3, Zenon DEF IInv

\* A system without requests under way has the invariant.
LEMMA InitIInv == RequestInit => IInv
<1> SUFFICES ASSUME RequestInit
             PROVE  IInv
  OBVIOUS
<1>1. <<>> \in Seq(ResultSet) /\ <<>> \in Seq(TaskSet) /\ <<>> \in WorkSet
  <2>1. <<>> \in [{} -> TaskSet]
    BY EmptySeq, LenProperties
  <2> QED BY <2>1, EmptySeq DEF WorkSet
<1>2. Idle \in Progress
  BY <1>1 DEF Idle, Progress, Phases
<1>3. \A r \in Requests : req[r] = Idle
  BY DEF RequestInit
<1>4. index \in [Nodes -> SUBSET Keywords]
  <2>1. PICK held \in Contents : index = [n \in Nodes |-> {k \in held : Storager(k) = n}]
    BY DEF RequestInit
  <2> QED BY <2>1, RequestAssumption
<1>5. Typed
  <2>1. summary \in [DOMAIN NodeOf -> SUBSET Keywords]
    BY <1>4, RequestAssumption DEF RequestInit
  <2> QED BY <1>2, <1>4, <2>1 DEF Typed, RequestInit
<1>6. ASSUME NEW r \in Requests
      PROVE  HandlerInv(r)
  <2>1. /\ req[r].phase = "called" /\ req[r].flight = {} /\ req[r].done = <<>>
        /\ req[r].deleted = <<>> /\ req[r].added = <<>> /\ ~req[r].undone /\ req[r].work = <<>>
    BY <1>3 DEF Idle
  <2>2. DOMAIN req[r].deleted = {} /\ DOMAIN req[r].added = {}
    BY <2>1, EmptySeq, LenProperties
  <2>3. r \in calm => job[r].kind \in {"query", "boolean"}
    BY DEF RequestInit
  <2> QED BY <2>1, <2>2, <2>3 DEF HandlerInv, InItsPhase, OfThePhase, OneAtATime, AnswersHold,
        Covered, UndoneInOrder, Undisturbed, Kept, Adds, Deletes, Asks, InPhase, Answer
<1> QED BY <1>5, <1>6, Zenon DEF IInv

\* The invariant holds always.
LEMMA HandlerInvariance == RequestSpec => []IInv
<1>1. IInv /\ [RequestNext]_requestVars => IInv'
  BY HandlerStep, Stutters DEF RequestNext
<1> QED BY InitIInv, <1>1, PTL DEF RequestSpec

\* A request answered with success did all it was asked to, whatever other requests
\* did meanwhile to keywords it does not share with them, whichever subrequests
\* failed and were tried again, and in whatever order the answers came.
THEOREM Acknowledged == RequestSpec => []AcknowledgedIsDone
<1>1. IInv => AcknowledgedIsDone
  BY DEF IInv, HandlerInv, Kept, AcknowledgedIsDone
<1> QED BY HandlerInvariance, <1>1, PTL

\* A rollback that met no error undoes what the update deleted and what it knew it
\* had added; what makes it right for a keyword it did both to is that it adds
\* first and deletes then, one at a time.
THEOREM RolledBack == RequestSpec => []FailedUpdateUndone
<1>1. IInv => FailedUpdateUndone
  BY DEF IInv, HandlerInv, Kept, FailedUpdateUndone
<1> QED BY HandlerInvariance, <1>1, PTL

\* A query whose storagers neither changed nor failed is answered with exactly the
\* files its keywords have, whatever the manager has on record.
THEOREM QuietAnswered == RequestSpec => []QuietQueriesAnswered
<1>1. IInv => QuietQueriesAnswered
  BY DEF IInv, Typed, HandlerInv, Undisturbed, QuietQueriesAnswered
<1> QED BY HandlerInvariance, <1>1, PTL

-----------------------------------------------------------------------------
(* The record of roots.                                                    *)
(*                                                                         *)
(* That the record is right when nothing is under way is not inductive: an *)
(* answer is recorded later, in an order that depends on its request.  But *)
(* of a storager or prefix outside `unsure` all answers not yet recorded   *)
(* are one request's, at most one of them is not among its results, and    *)
(* the last has the current root.                                          *)

\* The answers about x that a request has and has not recorded.
AnsweredAbout(r, x) == {g \in req[r].flight : g.at = "answered" /\ x \in Topics(g.task)}
ResultsAbout(r, x) ==
    {i \in DOMAIN req[r].done : req[r].done[i].came /\ x \in Topics(req[r].done[i].task)}
Pending(r, x) == AnsweredAbout(r, x) # {} \/ ResultsAbout(r, x) # {}

\* What the record of x should be, and what it is.
Truth(x) == IF x \in Nodes THEN index[x] ELSE latest[x]
OnRecord(x) == IF x \in Nodes THEN roots[x] ELSE summary[x]

\* The last of the answers has the root; the groups of a batch have one at most,
\* because their order is lost.
OwnRoots(r, x) ==
    /\ \A g, h \in AnsweredAbout(r, x) : g = h
    /\ \A g \in AnsweredAbout(r, x) : g.root = Truth(x)
    /\ AnsweredAbout(r, x) = {} =>
         \A i \in ResultsAbout(r, x) :
            (\A j \in ResultsAbout(r, x) : j <= i) => req[r].done[i].root = Truth(x)
    /\ InPhase(r, "batch") =>
         /\ \A i, j \in ResultsAbout(r, x) : i = j
         /\ AnsweredAbout(r, x) # {} => ResultsAbout(r, x) = {}

RootsOf(x) ==
    /\ \A r, q \in Requests : Pending(r, x) /\ Pending(q, x) => r = q
    /\ \A r \in Requests : OwnRoots(r, x)
    /\ (\A r \in Requests : ~Pending(r, x)) => OnRecord(x) = Truth(x)

ResultsFit(r) ==
    /\ \A i \in DOMAIN req[r].done : req[r].done[i].ok => req[r].done[i].came
    /\ ~Running(r) => req[r].done = <<>>

RootsInv ==
    /\ \A r \in Requests : ResultsFit(r)
    /\ \A x \in (Nodes \cup DOMAIN NodeOf) \ unsure : RootsOf(x)

\* Nothing happens to x.
LEMMA QuietRoots ==
    ASSUME NEW x, RootsOf(x), Truth(x)' = Truth(x), OnRecord(x)' = OnRecord(x),
           \A q \in Requests :
             /\ AnsweredAbout(q, x)' = AnsweredAbout(q, x)
             /\ ResultsAbout(q, x)' = ResultsAbout(q, x)
             /\ \A i \in ResultsAbout(q, x) : req'[q].done[i] = req[q].done[i]
             /\ Pending(q, x) => (InPhase(q, "batch")' <=> InPhase(q, "batch"))
    PROVE  RootsOf(x)'
<1>1. ASSUME NEW q \in Requests
      PROVE  (Pending(q, x)' <=> Pending(q, x)) /\ OwnRoots(q, x)'
  <2>1. Pending(q, x)' <=> Pending(q, x)
    BY DEF Pending
  <2>2. OwnRoots(q, x)
    BY DEF RootsOf
  <2>3. /\ \A g, h \in AnsweredAbout(q, x)' : g = h
        /\ \A g \in AnsweredAbout(q, x)' : g.root = Truth(x)'
        /\ AnsweredAbout(q, x)' = {} =>
             \A i \in ResultsAbout(q, x)' :
                (\A j \in ResultsAbout(q, x)' : j <= i) => req'[q].done[i].root = Truth(x)'
    BY <2>2 DEF OwnRoots
  <2>4. InPhase(q, "batch")' =>
         /\ \A i, j \in ResultsAbout(q, x)' : i = j
         /\ AnsweredAbout(q, x)' # {} => ResultsAbout(q, x)' = {}
    BY <2>2 DEF OwnRoots, Pending
  <2> QED BY <2>1, <2>3, <2>4 DEF OwnRoots
<1> QED BY <1>1 DEF RootsOf

\* Other requests keep their answers.
LEMMA OthersPending ==
    ASSUME NEW r \in Requests, Alone(r), NEW s \in Requests \ {r}, NEW x
    PROVE  /\ AnsweredAbout(s, x)' = AnsweredAbout(s, x)
           /\ ResultsAbout(s, x)' = ResultsAbout(s, x)
           /\ req'[s].done = req[s].done
           /\ (Pending(s, x)' <=> Pending(s, x))
           /\ (InPhase(s, "batch")' <=> InPhase(s, "batch"))
<1>1. req'[s] = req[s]
  BY DEF Alone
<1>2. AnsweredAbout(s, x)' = AnsweredAbout(s, x) /\ ResultsAbout(s, x)' = ResultsAbout(s, x)
  BY <1>1 DEF AnsweredAbout, ResultsAbout
<1> QED BY <1>1, <1>2 DEF Pending, InPhase

\* A flight moves on without a word about x.
LEMMA QuietMove ==
    ASSUME Typed, NEW r \in Requests, NEW g \in req[r].flight, NEW h \in FlightSet,
           h.task = g.task, Step(r, g, h), NEW x, RootsOf(x),
           x \notin Topics(g.task) \/ (g.at # "answered" /\ h.at # "answered"),
           Truth(x)' = Truth(x), OnRecord(x)' = OnRecord(x)
    PROVE  RootsOf(x)'
<1>1. /\ Alone(r) /\ req'[r].flight = (req[r].flight \ {g}) \cup {h}
      /\ req'[r].phase = req[r].phase /\ req'[r].done = req[r].done
  BY StepFields
<1>2. AnsweredAbout(r, x)' = AnsweredAbout(r, x)
  BY <1>1 DEF AnsweredAbout
<1>3. ResultsAbout(r, x)' = ResultsAbout(r, x)
  BY <1>1 DEF ResultsAbout
<1>4. InPhase(r, "batch")' <=> InPhase(r, "batch")
  BY <1>1 DEF InPhase
<1> QED BY <1>1, <1>2, <1>3, <1>4, OthersPending, QuietRoots

\* A storager answers about x, and no other answer is outstanding.
LEMMA FreshAnswer ==
    ASSUME Typed, NEW r \in Requests, NEW g \in req[r].flight, NEW h \in FlightSet,
           h.task = g.task, Step(r, g, h), g.at # "answered", h.at = "answered",
           NEW x \in Topics(g.task), ~Outstanding(r, g, x), h.root = Truth(x)'
    PROVE  RootsOf(x)'
<1>1. /\ Alone(r) /\ req'[r].flight = (req[r].flight \ {g}) \cup {h}
      /\ req'[r].phase = req[r].phase /\ req'[r].done = req[r].done
  BY StepFields
<1>2. ASSUME NEW s \in Requests \ {r}
      PROVE  ~Pending(s, x)
  <2>1. AnsweredAbout(s, x) = {}
    BY DEF Outstanding, AnsweredAbout
  <2>2. ResultsAbout(s, x) = {}
    BY DEF Outstanding, ResultsAbout
  <2> QED BY <2>1, <2>2 DEF Pending
<1>3. \A s \in Requests \ {r} : ~Pending(s, x)'
  BY <1>1, <1>2, OthersPending
<1>4. AnsweredAbout(r, x)' = {h}
  <2>1. \A k \in req[r].flight \ {g} : ~(k.at = "answered" /\ x \in Topics(k.task))
    BY DEF Outstanding
  <2> QED BY <1>1, <2>1 DEF AnsweredAbout
<1>5. InPhase(r, "batch")' => ResultsAbout(r, x)' = {}
  <2>1. InPhase(r, "batch") => ResultsAbout(r, x) = {}
    BY DEF Outstanding, ResultsAbout
  <2> QED BY <1>1, <2>1 DEF InPhase, ResultsAbout
<1>6. OwnRoots(r, x)'
  BY <1>4, <1>5 DEF OwnRoots
<1>7. ASSUME NEW s \in Requests \ {r}
      PROVE  OwnRoots(s, x)'
  BY <1>3 DEF OwnRoots, Pending
<1>8. Pending(r, x)'
  BY <1>4 DEF Pending
<1> QED BY <1>3, <1>6, <1>7, <1>8 DEF RootsOf

\* A subrequest ends without an answer about x.
LEMMA QuietFinish ==
    ASSUME Typed, NEW r \in Requests, NEW g \in req[r].flight, NEW result \in ResultSet,
           result.task = g.task, Finish(r, g, result), NEW x, RootsOf(x),
           x \notin Topics(g.task) \/ (g.at # "answered" /\ ~result.came),
           Truth(x)' = Truth(x), OnRecord(x)' = OnRecord(x)
    PROVE  RootsOf(x)'
<1> DEFINE n == Len(req[r].done)
<1>1. /\ Alone(r) /\ req'[r].flight = req[r].flight \ {g}
      /\ req'[r].phase = req[r].phase /\ req'[r].done = Append(req[r].done, result)
  BY FinishFields
<1>2. req[r].done \in Seq(ResultSet)
  BY DoneTyped
<1>3. n \in Nat /\ DOMAIN req[r].done = 1 .. n /\ DOMAIN req'[r].done = 1 .. n + 1
  BY <1>1, <1>2, AppendProperties, LenProperties
<1>4. req'[r].done[n + 1] = result /\ \A i \in 1 .. n : req'[r].done[i] = req[r].done[i]
  BY <1>1, <1>2, <1>3, AppendProperties
<1> HIDE DEF n
<1>5. AnsweredAbout(r, x)' = AnsweredAbout(r, x)
  BY <1>1 DEF AnsweredAbout
<1>6. ResultsAbout(r, x)' = ResultsAbout(r, x)
  <2>1. \A i : i \in 1 .. n + 1 <=> i \in 1 .. n \/ i = n + 1
    BY <1>3
  <2>2. n + 1 \notin 1 .. n
    BY <1>3
  <2>3. ~(result.came /\ x \in Topics(result.task))
    OBVIOUS
  <2>4. \A i : i \in ResultsAbout(r, x)' <=> i \in ResultsAbout(r, x)
    BY <1>3, <1>4, <2>1, <2>2, <2>3 DEF ResultsAbout
  <2> QED BY <2>4
<1>7. InPhase(r, "batch")' <=> InPhase(r, "batch")
  BY <1>1 DEF InPhase
<1>8. \A i \in ResultsAbout(r, x) : req'[r].done[i] = req[r].done[i]
  BY <1>3, <1>4 DEF ResultsAbout
<1> QED BY <1>1, <1>5, <1>6, <1>7, <1>8, OthersPending, QuietRoots

\* The answer about x becomes the last result about it.
LEMMA AnswerFinished ==
    ASSUME Typed, NEW r \in Requests, NEW g \in req[r].flight, NEW result \in ResultSet,
           result.task = g.task, result.root = g.root, Finish(r, g, result),
           NEW x \in Topics(g.task), RootsOf(x), g.at = "answered", result.came,
           Truth(x)' = Truth(x)
    PROVE  RootsOf(x)'
<1> DEFINE n == Len(req[r].done)
<1>1. /\ Alone(r) /\ req'[r].flight = req[r].flight \ {g}
      /\ req'[r].phase = req[r].phase /\ req'[r].done = Append(req[r].done, result)
  BY FinishFields
<1>2. req[r].done \in Seq(ResultSet)
  BY DoneTyped
<1>3. n \in Nat /\ DOMAIN req[r].done = 1 .. n /\ DOMAIN req'[r].done = 1 .. n + 1
  BY <1>1, <1>2, AppendProperties, LenProperties
<1>4. req'[r].done[n + 1] = result /\ \A i \in 1 .. n : req'[r].done[i] = req[r].done[i]
  BY <1>1, <1>2, <1>3, AppendProperties
<1> HIDE DEF n
<1>5. g \in AnsweredAbout(r, x) /\ OwnRoots(r, x)
  BY DEF AnsweredAbout, RootsOf
<1>6. AnsweredAbout(r, x)' = {}
  BY <1>1, <1>5 DEF OwnRoots, AnsweredAbout
<1>7. ResultsAbout(r, x)' = ResultsAbout(r, x) \cup {n + 1}
  <2>1. \A i : i \in 1 .. n + 1 <=> i \in 1 .. n \/ i = n + 1
    BY <1>3
  <2>2. n + 1 \notin 1 .. n
    BY <1>3
  <2>3. \A i : i \in ResultsAbout(r, x)' <=> i \in ResultsAbout(r, x) \/ i = n + 1
    BY <1>3, <1>4, <2>1, <2>2 DEF ResultsAbout
  <2> QED BY <2>3
<1>8. ResultsAbout(r, x) \subseteq 1 .. n
  BY <1>3 DEF ResultsAbout
<1>9. InPhase(r, "batch")' => ResultsAbout(r, x) = {}
  BY <1>1, <1>5 DEF OwnRoots, InPhase
<1>10. ASSUME NEW i \in ResultsAbout(r, x)', \A j \in ResultsAbout(r, x)' : j <= i
       PROVE  req'[r].done[i].root = Truth(x)'
  <2>1. i = n + 1
    <3>1. n + 1 <= i
      BY <1>7, <1>10
    <3>2. i \in 1 .. n \/ i = n + 1
      BY <1>7, <1>8, <1>10
    <3> QED BY <1>3, <3>1, <3>2
  <2>2. g.root = Truth(x)
    BY <1>5 DEF OwnRoots
  <2> QED BY <1>4, <2>1, <2>2
<1>11. OwnRoots(r, x)'
  BY <1>6, <1>7, <1>9, <1>10 DEF OwnRoots
<1>12. Pending(r, x) /\ Pending(r, x)'
  BY <1>5, <1>7 DEF Pending
<1>13. \A s \in Requests \ {r} : ~Pending(s, x)'
  BY <1>1, <1>12, OthersPending DEF RootsOf
<1>14. ASSUME NEW s \in Requests \ {r}
       PROVE  OwnRoots(s, x)'
  BY <1>13 DEF OwnRoots, Pending
<1> QED BY <1>11, <1>12, <1>13, <1>14 DEF RootsOf

\* The order of results is one of their orders.
LEMMA OwnOrder ==
    ASSUME NEW rs \in Seq(ResultSet)
    PROVE  rs \in Orders(rs)
<1> DEFINE f == [i \in DOMAIN rs |-> i]
<1>1. rs = [i \in DOMAIN rs |-> rs[f[i]]]
  <2>1. rs = [i \in DOMAIN rs |-> rs[i]]
    BY LenProperties
  <2>2. \A i \in DOMAIN rs : f[i] = i
    OBVIOUS
  <2> HIDE DEF f
  <2> QED BY <2>1, <2>2
<1>2. f \in [DOMAIN rs -> DOMAIN rs] /\ \A i \in DOMAIN rs : \E j \in DOMAIN rs : f[j] = i
  OBVIOUS
<1> HIDE DEF f
<1> QED BY <1>1, <1>2 DEF Orders

\* The results about x among those to be recorded.
About(os, I, x) == {i \in I : x \in Topics(os[i].task)}

\* A handler records what it makes of its results about x, and is done with them:
\* unless x becomes unsure the last answer about it is recorded.
LEMMA RecordedRoots ==
    ASSUME Typed, NEW r \in Requests, Alone(r), ResultsFit(r),
           req[r].flight = {}, req'[r].flight = {}, req'[r].done = <<>>,
           NEW os \in Orders(req[r].done), os = req[r].done \/ InPhase(r, "batch"),
           NEW x, RootsOf(x), Truth(x)' = Truth(x),
           NEW I \in SUBSET (DOMAIN os), \A i \in I : os[i].came,
           \A i \in DOMAIN os : os[i].came /\ x \in Topics(os[i].task) => i \in I,
           About(os, I, x) = {} => OnRecord(x)' = OnRecord(x),
           About(os, I, x) # {} => OnRecord(x)' = os[Latest(About(os, I, x))].root
    PROVE  RootsOf(x)'
<1> DEFINE rs == req[r].done
           n == Len(rs)
           K == About(os, I, x)
<1>1. rs \in Seq(ResultSet) /\ n \in Nat /\ DOMAIN rs = 1 .. n
  BY DoneTyped, LenProperties
<1>2. PICK f \in [DOMAIN rs -> DOMAIN rs] :
        /\ os = [i \in DOMAIN rs |-> rs[f[i]]]
        /\ \A i \in DOMAIN rs : \E j \in DOMAIN rs : f[j] = i
  BY DEF Orders
<1>3. DOMAIN os = 1 .. n /\ \A i \in 1 .. n : f[i] \in 1 .. n /\ os[i] = rs[f[i]]
  BY <1>1, <1>2
<1>4. AnsweredAbout(r, x) = {} /\ AnsweredAbout(r, x)' = {}
  BY DEF AnsweredAbout
<1>5. ResultsAbout(r, x)' = {}
  <2>1. DOMAIN req'[r].done = {}
    BY EmptySeq, LenProperties
  <2> QED BY <2>1 DEF ResultsAbout
<1>6. ~Pending(r, x)'
  BY <1>4, <1>5 DEF Pending
<1>7. K \subseteq 1 .. n /\ \A i \in K : f[i] \in ResultsAbout(r, x)
  BY <1>1, <1>3 DEF ResultsAbout, About
<1>8. \A c \in ResultsAbout(r, x) : \E i \in K : f[i] = c
  <2> SUFFICES ASSUME NEW c \in ResultsAbout(r, x)
               PROVE  \E i \in K : f[i] = c
    OBVIOUS
  <2>1. PICK j \in DOMAIN rs : f[j] = c
    BY <1>2 DEF ResultsAbout
  <2>2. j \in DOMAIN os /\ os[j].came /\ x \in Topics(os[j].task)
    BY <1>1, <1>3, <2>1 DEF ResultsAbout
  <2>3. j \in K
    BY <2>2 DEF About
  <2> QED BY <2>1, <2>3
<1> HIDE DEF n, K
<1>9. CASE K = {}
  <2>1. ResultsAbout(r, x) = {}
    BY <1>8, <1>9
  <2>2. ~Pending(r, x)
    BY <1>4, <2>1 DEF Pending
  <2>3. OnRecord(x)' = OnRecord(x)
    BY <1>9 DEF K
  <2> QED BY <1>4, <1>5, <2>1, <2>2, <2>3, OthersPending, QuietRoots
<1>10. CASE K # {}
  <2>1. Latest(K) \in K /\ \A j \in K : j <= Latest(K)
    BY <1>1, <1>7, <1>10, LatestIsLast DEF n
  <2> DEFINE m == Latest(K)
  <2>2. m \in 1 .. n /\ f[m] \in ResultsAbout(r, x) /\ os[m] = rs[f[m]]
    BY <1>3, <1>7, <2>1
  <2> HIDE DEF m
  <2>3. Pending(r, x) /\ OwnRoots(r, x)
    BY <2>2 DEF Pending, RootsOf
  <2>4. os[m].root = Truth(x)
    <3>1. CASE InPhase(r, "batch")
      <4>1. \A c \in ResultsAbout(r, x) : c = f[m]
        BY <2>2, <2>3, <3>1 DEF OwnRoots
      <4>2. f[m] \in 1 .. n
        BY <1>3, <2>2
      <4>3. f[m] <= f[m]
        BY <1>1, <4>2 DEF n
      <4> QED BY <1>4, <2>2, <2>3, <4>1, <4>3 DEF OwnRoots
    <3>2. CASE ~InPhase(r, "batch")
      <4>1. os = rs
        BY <3>2
      <4>2. m \in ResultsAbout(r, x)
        BY <1>1, <2>1, <4>1 DEF K, m, About, ResultsAbout
      <4>3. \A c \in ResultsAbout(r, x) : c \in K
        BY <4>1 DEF K, About, ResultsAbout
      <4>4. \A c \in ResultsAbout(r, x) : c <= m
        BY <2>1, <4>3 DEF m
      <4> QED BY <1>4, <2>2, <2>3, <4>1, <4>2, <4>4 DEF OwnRoots
    <3> QED BY <3>1, <3>2
  <2>5. OnRecord(x)' = Truth(x)
    BY <1>10, <2>4 DEF K, m
  <2>6. \A s \in Requests \ {r} : ~Pending(s, x)'
    BY <2>3, OthersPending DEF RootsOf
  <2>7. ASSUME NEW s \in Requests
        PROVE  ~Pending(s, x)' /\ OwnRoots(s, x)'
    <3>1. ~Pending(s, x)'
      BY <1>6, <2>6
    <3> QED BY <3>1 DEF OwnRoots, Pending
  <2> QED BY <2>5, <2>7 DEF RootsOf
<1> QED BY <1>9, <1>10

\* That is what Record does, to the storagers and to the prefixes.
LEMMA RecordKept ==
    ASSUME Typed, NEW r \in Requests, Alone(r), ResultsFit(r),
           req[r].flight = {}, req'[r].flight = {}, req'[r].done = <<>>,
           NEW os \in Orders(req[r].done), os = req[r].done \/ InPhase(r, "batch"),
           NEW I \in SUBSET (DOMAIN os), NEW J \in SUBSET (DOMAIN os),
           \A i \in I \cup J : os[i].came, Record(os, I, J),
           NEW x \in (Nodes \cup DOMAIN NodeOf) \ unsure', RootsOf(x)
    PROVE  RootsOf(x)'
<1>1. \A i \in DOMAIN os : os[i].task \in TaskSet
  <2>1. os \in Seq(ResultSet)
    BY DoneTyped, OrdersTyped
  <2>2. \A i \in DOMAIN os : os[i] \in ResultSet
    BY <2>1, LenProperties
  <2> QED BY <2>2 DEF ResultSet
<1>2. \A i \in DOMAIN os :
        /\ Place(os[i].task) \in Nodes /\ os[i].task.prefix \in DOMAIN NodeOf
        /\ Topics(os[i].task) = {os[i].task.prefix, Place(os[i].task)}
  BY <1>1, PlaceTyped DEF Topics
<1>3. Truth(x)' = Truth(x)
  BY DEF Truth, Record
<1>4. \A i \in DOMAIN os : os[i].came =>
        /\ Place(os[i].task) = x => i \in I
        /\ os[i].task.prefix = x => i \in J
  BY DEF Record, Lost
<1>5. CASE x \in Nodes
  <2>1. \A i \in DOMAIN os : x \in Topics(os[i].task) <=> Place(os[i].task) = x
    <3>1. x \notin DOMAIN NodeOf
      BY <1>5, RequestAssumption
    <3>2. \A i \in DOMAIN os : os[i].task.prefix # x
      BY <1>2, <3>1
    <3> QED BY <1>2, <3>2
  <2>2. About(os, I, x) = {i \in I : Place(os[i].task) = x}
    BY <2>1 DEF About
  <2>3. \A i \in DOMAIN os : os[i].came /\ x \in Topics(os[i].task) => i \in I
    BY <1>4, <2>1
  <2>4. roots'[x] = IF About(os, I, x) = {} THEN roots[x] ELSE os[Latest(About(os, I, x))].root
    BY <1>5, <2>2 DEF Record, WithRoots
  <2>5. OnRecord(x)' = roots'[x] /\ OnRecord(x) = roots[x]
    BY <1>5 DEF OnRecord
  <2> QED BY <1>3, <2>3, <2>4, <2>5, RecordedRoots
<1>6. CASE x \in DOMAIN NodeOf
  <2>1. x \notin Nodes
    BY <1>6, RequestAssumption
  <2>2. \A i \in DOMAIN os : x \in Topics(os[i].task) <=> os[i].task.prefix = x
    BY <1>2, <2>1
  <2>3. About(os, J, x) = {i \in J : os[i].task.prefix = x}
    BY <2>2 DEF About
  <2>4. \A i \in DOMAIN os : os[i].came /\ x \in Topics(os[i].task) => i \in J
    BY <1>4, <2>2
  <2>5. summary'[x] = IF About(os, J, x) = {} THEN summary[x] ELSE os[Latest(About(os, J, x))].root
    BY <1>6, <2>3 DEF Record, WithSummaries
  <2>6. OnRecord(x)' = summary'[x] /\ OnRecord(x) = summary[x]
    BY <2>1 DEF OnRecord
  <2> QED BY <1>3, <2>4, <2>5, <2>6, RecordedRoots
<1> QED BY <1>5, <1>6

\* All that is recorded of results are answers.
LEMMA RecordedCame ==
    ASSUME NEW rs \in Seq(ResultSet), \A i \in DOMAIN rs : rs[i].ok => rs[i].came
    PROVE  \A i \in Before(rs) \cup OkOf(rs) \cup CameOf(rs) \cup IfAllOk(rs) : rs[i].came
<1>1. ASSUME NEW i \in Before(rs)
      PROVE  rs[i].came
  <2>1. Len(rs) \in Nat /\ DOMAIN rs = 1 .. Len(rs)
    BY LenProperties
  <2>2. i \in 1 .. Len(rs) /\ \A j \in 1 .. i : rs[j].ok
    BY <2>1 DEF Before
  <2>3. i \in 1 .. i
    BY <2>1, <2>2
  <2> QED BY <2>1, <2>2, <2>3
<1>2. ASSUME NEW i \in OkOf(rs) \cup CameOf(rs) \cup IfAllOk(rs)
      PROVE  rs[i].came
  BY DEF OkOf, CameOf, IfAllOk, AllOk
<1> QED BY <1>1, <1>2

\* At the end of a phase the results become records, those of a batch in any order.
LEMMA EndKept ==
    ASSUME Typed, NEW r \in Requests, HandlerInv(r), RootsInv,
           \/ EndAdd(r) \/ EndBatch(r) \/ EndDelete(r) \/ EndTaking(r) \/ EndGiving(r)
           \/ EndUndoing(r) \/ EndAsking(r) \/ EndAskingAll(r)
    PROVE  RootsInv'
<1> DEFINE rs == req[r].done
<1>1. req[r].flight = {}
  BY DEF HandlerInv, OneAtATime, EndAdd, EndBatch, EndDelete, EndTaking, EndGiving, EndUndoing,
         EndAsking, EndAskingAll, Over
<1>2. Alone(r) /\ req'[r].flight = {} /\ req'[r].done = <<>>
  <2>1. req[r].work \in WorkSet /\ "adding" \in Phases
    <3>1. req[r] \in Progress
      BY DEF Typed
    <3> QED BY <3>1 DEF Progress, Phases
  <2>2. \A answer \in {"ok", "error"} : Ends(r, answer) =>
          Alone(r) /\ req'[r].flight = {} /\ req'[r].done = <<>>
    BY <1>1, EndsFields
  <2>3. CASE EndAdd(r)
    <3>1. Ends(r, "error") \/ Ends(r, "ok") \/ Goes(r, "adding", req[r].work)
      BY <2>3 DEF EndAdd
    <3> QED BY <1>1, <2>1, <2>2, <3>1, GoesFields
  <2>4. CASE EndBatch(r) \/ EndDelete(r)
    <3>1. Ends(r, "error") \/ Ends(r, "ok")
      BY <2>4 DEF EndBatch, EndDelete
    <3> QED BY <2>2, <3>1
  <2>5. CASE EndTaking(r)
    <3>1. AllOk(rs) \/ Ends(r, "error")
      BY <2>5 DEF EndTaking
    <3> QED BY <1>1, <2>2, <2>5, <3>1, EndTakingFields
  <2>6. CASE EndGiving(r)
    <3>1. ~AllOk(rs) \/ Ends(r, "ok")
      BY <2>6 DEF EndGiving
    <3> QED BY <1>1, <2>2, <2>6, <3>1, EndGivingFields
  <2>7. CASE EndUndoing(r)
    BY <1>1, <2>7, EndUndoingFields
  <2>8. CASE EndAsking(r) \/ EndAskingAll(r)
    <3>1. PICK files, answer :
            req' = [req EXCEPT ![r].phase = "ended", ![r].done = <<>>, ![r].files = files,
                               ![r].answer = answer]
      BY <2>8 DEF EndAsking, EndAskingAll
    <3>2. req \in [Requests -> Progress] /\ req[r] \in Progress
      BY DEF Typed
    <3> QED BY <1>1, <3>1, <3>2 DEF Alone, Progress
  <2> QED BY <2>3, <2>4, <2>5, <2>6, <2>7, <2>8
<1>3. rs \in Seq(ResultSet) /\ ResultsFit(r)
  BY DoneTyped DEF RootsInv
<1>4. \E os \in Orders(rs) : \E I, J \in SUBSET (DOMAIN os) :
        /\ os = rs \/ InPhase(r, "batch")
        /\ \A i \in I \cup J : os[i].came
        /\ Record(os, I, J)
  <2>1. /\ rs \in Orders(rs)
        /\ Before(rs) \in SUBSET (DOMAIN rs) /\ OkOf(rs) \in SUBSET (DOMAIN rs)
        /\ CameOf(rs) \in SUBSET (DOMAIN rs) /\ IfAllOk(rs) \in SUBSET (DOMAIN rs)
        /\ \A i \in Before(rs) \cup OkOf(rs) \cup CameOf(rs) \cup IfAllOk(rs) : rs[i].came
    BY <1>3, OwnOrder, PlacesOfResults, RecordedCame DEF ResultsFit
  <2>2. CASE EndBatch(r) /\ job[r].parallel
    <3>1. PICK os \in Orders(rs) : Record(os, Before(os), Before(os))
      BY <2>2 DEF EndBatch
    <3>2. os \in Seq(ResultSet)
      BY <1>3, OrdersTyped
    <3>3. \A i \in DOMAIN os : os[i].ok => os[i].came
      <4>1. PICK f \in [DOMAIN rs -> DOMAIN rs] : os = [i \in DOMAIN rs |-> rs[f[i]]]
        BY <3>1 DEF Orders
      <4>2. \A i \in DOMAIN os : f[i] \in DOMAIN rs /\ os[i] = rs[f[i]]
        BY <4>1
      <4> QED BY <1>3, <4>2 DEF ResultsFit
    <3>4. Before(os) \in SUBSET (DOMAIN os) /\ \A i \in Before(os) : os[i].came
      BY <3>2, <3>3, PlacesOfResults, RecordedCame
    <3>5. InPhase(r, "batch")
      BY <2>2 DEF EndBatch
    <3> QED BY <3>1, <3>4, <3>5
  <2>3. CASE EndBatch(r) /\ ~job[r].parallel
    <3>1. Record(rs, IfAllOk(rs), IfAllOk(rs))
      BY <2>3 DEF EndBatch
    <3> QED BY <2>1, <3>1
  <2>4. CASE EndAdd(r)
    <3>1. Record(rs, CameOf(rs), OkOf(rs))
      BY <2>4 DEF EndAdd
    <3> QED BY <2>1, <3>1
  <2>5. CASE EndDelete(r) \/ EndTaking(r)
    <3>1. Record(rs, IfAllOk(rs), Before(rs))
      BY <2>5 DEF EndDelete, EndTaking
    <3> QED BY <2>1, <3>1
  <2>6. CASE EndGiving(r)
    <3>1. Record(rs, Before(rs), IfAllOk(rs))
      BY <2>6 DEF EndGiving
    <3> QED BY <2>1, <3>1
  <2>7. CASE EndUndoing(r)
    <3>1. Record(rs, OkOf(rs), OkOf(rs))
      BY <2>7 DEF EndUndoing
    <3> QED BY <2>1, <3>1
  <2>8. CASE EndAsking(r)
    <3>1. Record(rs, CameOf(rs), CameOf(rs))
      BY <2>8 DEF EndAsking
    <3> QED BY <2>1, <3>1
  <2>9. CASE EndAskingAll(r)
    <3>1. Record(rs, IfAllOk(rs), IfAllOk(rs))
      BY <2>9 DEF EndAskingAll
    <3> QED BY <2>1, <3>1
  <2> QED BY <2>2, <2>3, <2>4, <2>5, <2>6, <2>7, <2>8, <2>9
<1>5. PICK os \in Orders(rs) : \E I, J \in SUBSET (DOMAIN os) :
        /\ os = rs \/ InPhase(r, "batch")
        /\ \A i \in I \cup J : os[i].came
        /\ Record(os, I, J)
  BY <1>4
<1>6. PICK I \in SUBSET (DOMAIN os), J \in SUBSET (DOMAIN os) :
        /\ os = rs \/ InPhase(r, "batch")
        /\ \A i \in I \cup J : os[i].came
        /\ Record(os, I, J)
  BY <1>5
<1>7. unsure \subseteq unsure'
  BY <1>6 DEF Record
<1>8. ASSUME NEW x \in (Nodes \cup DOMAIN NodeOf) \ unsure'
      PROVE  RootsOf(x)'
  <2>1. RootsOf(x)
    BY <1>7 DEF RootsInv
  <2> QED BY <1>1, <1>2, <1>3, <1>6, <2>1, RecordKept
<1>9. ASSUME NEW s \in Requests
      PROVE  ResultsFit(s)'
  <2>1. CASE s = r
    <3>1. DOMAIN req'[r].done = {}
      BY <1>2, EmptySeq, LenProperties
    <3> QED BY <1>2, <2>1, <3>1 DEF ResultsFit
  <2>2. CASE s # r
    BY <1>2, <2>2 DEF ResultsFit, RootsInv, Alone, Running, InPhase
  <2> QED BY <2>1, <2>2
<1> QED BY <1>8, <1>9 DEF RootsInv

\* Where a request neither answers nor records, nothing changes for the record.
LEMMA NoWord ==
    ASSUME RootsInv, NEW r \in Requests, Alone(r), req'[r].done = req[r].done,
           \A x : AnsweredAbout(r, x)' = AnsweredAbout(r, x),
           Running(r) => (InPhase(r, "batch")' <=> InPhase(r, "batch")),
           ~Running(r) => req[r].flight = {}, Running(r)' \/ req'[r].done = <<>>,
           index' = index, roots' = roots, summary' = summary, latest' = latest, unsure' = unsure
    PROVE  RootsInv'
<1>1. ASSUME NEW x \in (Nodes \cup DOMAIN NodeOf) \ unsure'
      PROVE  RootsOf(x)'
  <2>1. RootsOf(x)
    BY DEF RootsInv
  <2>2. Truth(x)' = Truth(x) /\ OnRecord(x)' = OnRecord(x)
    BY DEF Truth, OnRecord
  <2>3. ResultsAbout(r, x)' = ResultsAbout(r, x)
    BY DEF ResultsAbout
  <2>4. Pending(r, x) => Running(r)
    <3>1. req[r].done = <<>> => ResultsAbout(r, x) = {}
      BY EmptySeq, LenProperties DEF ResultsAbout
    <3> QED BY <3>1 DEF Pending, AnsweredAbout, RootsInv, ResultsFit
  <2> QED BY <2>1, <2>2, <2>3, <2>4, OthersPending, QuietRoots
<1>2. ASSUME NEW s \in Requests
      PROVE  ResultsFit(s)'
  <2>1. CASE s = r
    BY <2>1 DEF ResultsFit, RootsInv
  <2>2. CASE s # r
    BY <2>2 DEF ResultsFit, RootsInv, Alone, Running, InPhase
  <2> QED BY <2>1, <2>2
<1> QED BY <1>1, <1>2 DEF RootsInv

\* What a request sends is no answer yet.
LEMMA SendsKept ==
    ASSUME Typed, NEW r \in Requests, HandlerInv(r), RootsInv, Begin(r) \/ Launch(r)
    PROVE  RootsInv'
<1>1. /\ index' = index /\ roots' = roots /\ summary' = summary /\ latest' = latest
      /\ unsure' = unsure
  BY DEF Begin, Launch
<1>2. ~Running(r) => req[r].flight = {} /\ req[r].done = <<>>
  BY DEF HandlerInv, OneAtATime, RootsInv, ResultsFit
<1>3. CASE Begin(r)
  <2>1. req \in [Requests -> Progress] /\ req[r] \in Progress
    BY DEF Typed
  <2>2. ~Running(r)
    BY <1>3 DEF Begin, Running, InPhase
  <2>3. /\ Alone(r) /\ req'[r].flight = {} /\ req'[r].done = <<>>
    <3>1. \/ \E phase, work : Goes(r, phase, work)
          \/ req' = [req EXCEPT ![r].phase = "ended", ![r].answer = "no keywords"]
      BY <1>3, Zenon DEF Begin
    <3>2. req[r].flight = {} /\ req[r].done = <<>>
      BY <1>2, <2>2
    <3>3. ASSUME NEW phase, NEW work, Goes(r, phase, work)
          PROVE  Alone(r) /\ req'[r].flight = {} /\ req'[r].done = <<>>
      <4>1. req' = [req EXCEPT ![r].phase = phase, ![r].work = work, ![r].done = <<>>]
        BY <3>3 DEF Goes
      <4>2. /\ Alone(r)
            /\ req'[r] = [req[r] EXCEPT !.phase = phase, !.work = work, !.done = <<>>]
        BY <2>1, <4>1 DEF Alone
      <4> QED BY <2>1, <3>2, <4>2 DEF Progress
    <3>4. CASE req' = [req EXCEPT ![r].phase = "ended", ![r].answer = "no keywords"]
      <4>1. /\ Alone(r)
            /\ req'[r] = [req[r] EXCEPT !.phase = "ended", !.answer = "no keywords"]
        BY <2>1, <3>4 DEF Alone
      <4> QED BY <2>1, <3>2, <4>1 DEF Progress
    <3> QED BY <3>1, <3>3, <3>4
  <2>4. \A x : AnsweredAbout(r, x)' = AnsweredAbout(r, x)
    BY <1>2, <2>2, <2>3 DEF AnsweredAbout
  <2> QED BY <1>1, <1>2, <2>2, <2>3, <2>4, NoWord
<1>4. CASE Launch(r)
  <2>1. PICK h \in FlightSet : h.at \in {"queued", "sent"} /\ req'[r].flight = req[r].flight \cup {h}
    BY <1>4, LaunchFields
  <2>2. Alone(r) /\ req'[r].phase = req[r].phase /\ req'[r].done = req[r].done
    BY <1>4, LaunchFields
  <2>3. \A x : AnsweredAbout(r, x)' = AnsweredAbout(r, x)
    BY <2>1 DEF AnsweredAbout
  <2>4. (Running(r)' <=> Running(r)) /\ (InPhase(r, "batch")' <=> InPhase(r, "batch"))
    BY <2>2 DEF Running, InPhase
  <2> QED BY <1>1, <1>2, <2>2, <2>3, <2>4, NoWord
<1> QED BY <1>3, <1>4

\* A flight on its way to the storager, or reading there, has not answered.
LEMMA OnTheWayKept ==
    ASSUME Typed, NEW r \in Requests, HandlerInv(r), RootsInv, NEW g \in req[r].flight,
           TakeGlobal(r, g) \/ TakeLocal(r, g) \/ ReadFiles(r, g)
    PROVE  RootsInv'
<1>1. /\ index' = index /\ roots' = roots /\ summary' = summary /\ latest' = latest
      /\ unsure' = unsure
  BY DEF TakeGlobal, TakeLocal, ReadFiles
<1>2. g \in FlightSet /\ index[Place(g.task)] \in SUBSET Keywords
  BY FlightOf, PlaceTyped DEF Typed
<1>3. \E h \in FlightSet : Step(r, g, h) /\ g.at # "answered" /\ h.at # "answered"
  <2>1. \A at \in {"global", "sent"} :
          [g EXCEPT !.at = at] \in FlightSet /\ [g EXCEPT !.at = at].at = at
    <3>1. {} \in SUBSET Keywords /\ {"global", "sent"} \subseteq Points
      BY DEF Points
    <3>2. \A at \in {"global", "sent"} : [g EXCEPT !.at = at] \in FlightSet
      BY <1>2, <3>1, FlightTyped
    <3>3. \A at : [g EXCEPT !.at = at].at = at
      BY <1>2 DEF FlightSet
    <3> QED BY <3>2, <3>3
  <2>2. /\ [g EXCEPT !.at = "read", !.seen = index[Place(g.task)]] \in FlightSet
        /\ [g EXCEPT !.at = "read", !.seen = index[Place(g.task)]].at = "read"
    <3>1. "read" \in Points
      BY DEF Points
    <3>2. [g EXCEPT !.at = "read", !.seen = index[Place(g.task)]] \in FlightSet
      BY <1>2, <3>1, FlightTyped
    <3>3. [g EXCEPT !.at = "read", !.seen = index[Place(g.task)]].at = "read"
      BY <1>2 DEF FlightSet
    <3> QED BY <3>2, <3>3
  <2> QED BY <2>1, <2>2 DEF TakeGlobal, TakeLocal, ReadFiles
<1>4. PICK h \in FlightSet : Step(r, g, h) /\ g.at # "answered" /\ h.at # "answered"
  BY <1>3
<1>5. /\ Alone(r) /\ req'[r].flight = (req[r].flight \ {g}) \cup {h}
      /\ req'[r].phase = req[r].phase /\ req'[r].done = req[r].done
  BY <1>4, StepFields
<1>6. \A x : AnsweredAbout(r, x)' = AnsweredAbout(r, x)
  BY <1>4, <1>5 DEF AnsweredAbout
<1>7. (Running(r)' <=> Running(r)) /\ (InPhase(r, "batch")' <=> InPhase(r, "batch"))
  BY <1>5 DEF Running, InPhase
<1>8. Running(r)
  BY DEF HandlerInv, OneAtATime
<1> QED BY <1>1, <1>5, <1>6, <1>7, <1>8, NoWord

\* An answer of a storager is the truth about it, or makes it unsure.
LEMMA ServedKept ==
    ASSUME Typed, NEW r \in Requests, HandlerInv(r), RootsInv, NEW g \in req[r].flight,
           Serve(r, g) \/ ReadRoot(r, g)
    PROVE  RootsInv'
<1>1. g \in FlightSet /\ g.task \in TaskSet /\ Place(g.task) \in Nodes
      /\ g.task.prefix \in DOMAIN NodeOf /\ g.task.keys \in SUBSET Keywords
  BY FlightOf, PlaceTyped
<1>2. Answered(r, g) /\ roots' = roots /\ summary' = summary /\ g.at # "answered"
  BY DEF Serve, ReadRoot
<1>3. /\ index' \in [Nodes -> SUBSET Keywords]
      /\ \A n \in Nodes \ {Place(g.task)} : index'[n] = index[n]
  <2>1. Typed'
    BY TypedServe, TypedRead
  <2> QED BY <2>1 DEF Serve, ReadRoot, Typed
<1> DEFINE h == [g EXCEPT !.at = "answered", !.root = index'[Place(g.task)]]
<1>4. /\ h \in FlightSet /\ h.task = g.task /\ h.at = "answered"
      /\ h.root = index'[Place(g.task)] /\ Step(r, g, h)
  <2>1. index'[Place(g.task)] \in SUBSET Keywords
    BY <1>1, <1>3
  <2>2. h \in FlightSet
    BY <1>1, <2>1, FlightTyped DEF Points
  <2>3. h.task = g.task /\ h.at = "answered" /\ h.root = index'[Place(g.task)]
    BY <1>1 DEF FlightSet
  <2>4. Step(r, g, h)
    <3>1. CASE Serve(r, g)
      BY <3>1 DEF Serve
    <3>2. CASE ReadRoot(r, g)
      BY <3>2 DEF ReadRoot
    <3> QED BY <3>1, <3>2
  <2> QED BY <2>2, <2>3, <2>4
<1> HIDE DEF h
<1>5. /\ latest' = [latest EXCEPT ![g.task.prefix] = index'[Place(g.task)]]
      /\ unsure' = (unsure \ Topics(g.task)) \cup {x \in Topics(g.task) : Outstanding(r, g, x)}
  BY <1>2 DEF Answered
<1>6. ASSUME NEW x \in (Nodes \cup DOMAIN NodeOf) \ unsure'
      PROVE  RootsOf(x)'
  <2>1. CASE x \in Topics(g.task)
    <3>1. ~Outstanding(r, g, x)
      BY <1>5, <1>6, <2>1
    <3>2. Truth(x)' = index'[Place(g.task)]
      <4>1. CASE x = Place(g.task)
        BY <1>1, <4>1 DEF Truth
      <4>2. CASE x = g.task.prefix
        <5>1. x \notin Nodes
          BY <1>1, <4>2, RequestAssumption
        <5>2. latest'[x] = index'[Place(g.task)]
          BY <1>1, <1>5, <4>2 DEF Typed
        <5> QED BY <5>1, <5>2 DEF Truth
      <4> QED BY <2>1, <4>1, <4>2 DEF Topics
    <3> QED BY <1>2, <1>4, <2>1, <3>1, <3>2, FreshAnswer
  <2>2. CASE x \notin Topics(g.task)
    <3>1. x \notin unsure
      BY <1>5, <1>6, <2>2
    <3>2. RootsOf(x)
      BY <1>6, <3>1 DEF RootsInv
    <3>3. Truth(x)' = Truth(x)
      <4>1. x # Place(g.task) /\ x # g.task.prefix
        BY <2>2 DEF Topics
      <4>2. x \in Nodes => index'[x] = index[x]
        BY <1>3, <4>1
      <4>3. x \notin Nodes => latest'[x] = latest[x]
        BY <1>5, <1>6, <4>1 DEF Typed
      <4> QED BY <4>2, <4>3 DEF Truth
    <3>4. OnRecord(x)' = OnRecord(x)
      BY <1>2 DEF OnRecord
    <3> QED BY <1>4, <2>2, <3>2, <3>3, <3>4, QuietMove
  <2> QED BY <2>1, <2>2
<1>7. ASSUME NEW s \in Requests
      PROVE  ResultsFit(s)'
  <2>1. Alone(r) /\ req'[r].phase = req[r].phase /\ req'[r].done = req[r].done
    BY <1>4, StepFields
  <2> QED BY <2>1 DEF ResultsFit, RootsInv, Alone, Running, InPhase
<1> QED BY <1>6, <1>7 DEF RootsInv

\* The results that fit still do when one is appended that does.
LEMMA FinishFits ==
    ASSUME Typed, RootsInv, NEW r \in Requests, HandlerInv(r), NEW g \in req[r].flight,
           NEW result \in ResultSet, Finish(r, g, result), result.ok => result.came,
           NEW s \in Requests
    PROVE  ResultsFit(s)'
<1>1. /\ Alone(r) /\ req'[r].phase = req[r].phase /\ req'[r].done = Append(req[r].done, result)
  BY FinishFields
<1>2. CASE s # r
  BY <1>1, <1>2 DEF ResultsFit, RootsInv, Alone, Running, InPhase
<1>3. CASE s = r
  <2>1. Running(r)'
    BY <1>1 DEF HandlerInv, OneAtATime, Running, InPhase
  <2>2. req[r].done \in Seq(ResultSet)
    BY DoneTyped
  <2>3. /\ Len(req[r].done) \in Nat /\ DOMAIN req[r].done = 1 .. Len(req[r].done)
        /\ DOMAIN req'[r].done = 1 .. Len(req[r].done) + 1
    BY <1>1, <2>2, AppendProperties, LenProperties
  <2>4. /\ req'[r].done[Len(req[r].done) + 1] = result
        /\ \A i \in 1 .. Len(req[r].done) : req'[r].done[i] = req[r].done[i]
    BY <1>1, <2>2, <2>3, AppendProperties
  <2>5. \A i \in DOMAIN req[r].done : req[r].done[i].ok => req[r].done[i].came
    BY DEF RootsInv, ResultsFit
  <2>6. ASSUME NEW i \in DOMAIN req'[r].done
        PROVE  req'[r].done[i].ok => req'[r].done[i].came
    <3>1. i \in 1 .. Len(req[r].done) \/ i = Len(req[r].done) + 1
      BY <2>3
    <3> QED BY <2>3, <2>4, <2>5, <3>1
  <2> QED BY <1>3, <2>1, <2>6 DEF ResultsFit
<1> QED BY <1>2, <1>3

\* An answer becomes a result, or is lost and leaves its topics unsure.
LEMMA ReceivedKept ==
    ASSUME Typed, NEW r \in Requests, HandlerInv(r), RootsInv, NEW g \in req[r].flight,
           Accept(r, g) \/ Refuse(r, g) \/ Fail(r, g)
    PROVE  RootsInv'
<1>1. g \in FlightSet /\ g.task \in TaskSet /\ g.task.prefix \in DOMAIN NodeOf
  BY FlightOf, PlaceTyped
<1>2. index' = index /\ latest' = latest /\ roots' = roots /\ unsure \subseteq unsure'
  BY DEF Accept, Refuse, Fail
<1>3. \A x : Truth(x)' = Truth(x)
  BY <1>2 DEF Truth
<1>4. \A x \in Nodes \cup DOMAIN NodeOf : x # g.task.prefix => OnRecord(x)' = OnRecord(x)
  <2>1. CASE Accept(r, g)
    <3> DEFINE rs == <<Result(g, TRUE, TRUE)>>
    <3>1. rs[1].task = g.task
      BY <1>1, ResultTyped
    <3>2. summary' = IF InPhase(r, "undoing") THEN WithSummaries(rs, {1}) ELSE summary
      BY <2>1 DEF Accept
    <3> HIDE DEF rs
    <3>3. \A p \in DOMAIN NodeOf : p # g.task.prefix => summary'[p] = summary[p]
      <4>1. ASSUME NEW p \in DOMAIN NodeOf, p # g.task.prefix
            PROVE  WithSummaries(rs, {1})[p] = summary[p]
        <5>1. {i \in {1} : rs[i].task.prefix = p} = {}
          BY <3>1, <4>1
        <5> QED BY <5>1 DEF WithSummaries
      <4> QED BY <3>2, <4>1
    <3> QED BY <1>2, <3>3 DEF OnRecord
  <2>2. CASE Refuse(r, g) \/ Fail(r, g)
    BY <1>2, <2>2 DEF OnRecord, Refuse, Fail
  <2> QED BY <2>1, <2>2
<1>5. Accept(r, g) \/ OnRecord(g.task.prefix)' = OnRecord(g.task.prefix)
  BY <1>2 DEF OnRecord, Refuse, Fail
<1>6. ASSUME NEW came \in BOOLEAN, NEW ok \in BOOLEAN, Finish(r, g, Result(g, came, ok)),
             ok => came, came => g.at = "answered",
             ~came /\ g.at = "answered" => Topics(g.task) \subseteq unsure',
             came \/ ~Accept(r, g)
      PROVE  RootsInv'
  <2> DEFINE result == Result(g, came, ok)
  <2>1. /\ result \in ResultSet /\ result.task = g.task /\ result.root = g.root
        /\ (result.came <=> came) /\ (result.ok <=> ok)
    BY <1>1, ResultTyped
  <2>2. Finish(r, g, result)
    BY <1>6
  <2> HIDE DEF result
  <2>3. ASSUME NEW x \in (Nodes \cup DOMAIN NodeOf) \ unsure'
        PROVE  RootsOf(x)'
    <3>1. RootsOf(x)
      BY <1>2 DEF RootsInv
    <3>2. CASE came /\ x \in Topics(g.task)
      BY <1>3, <1>6, <2>1, <2>2, <3>1, <3>2, AnswerFinished
    <3>3. CASE ~came \/ x \notin Topics(g.task)
      <4>1. x \notin Topics(g.task) \/ (g.at # "answered" /\ ~result.came)
        BY <1>6, <2>1, <2>3, <3>3
      <4>2. OnRecord(x)' = OnRecord(x)
        BY <1>4, <1>5, <1>6, <3>3 DEF Topics
      <4> QED BY <1>3, <2>1, <2>2, <3>1, <4>1, <4>2, QuietFinish
    <3> QED BY <3>2, <3>3
  <2>4. \A s \in Requests : ResultsFit(s)'
    BY <1>6, <2>1, <2>2, FinishFits
  <2> QED BY <2>3, <2>4 DEF RootsInv
<1>7. CASE Accept(r, g)
  <2>1. Finish(r, g, Result(g, TRUE, TRUE)) /\ g.at = "answered"
    BY <1>7 DEF Accept
  <2> QED BY <1>6, <2>1
<1>8. CASE Fail(r, g)
  <2>1. /\ Finish(r, g, Result(g, FALSE, FALSE))
        /\ g.at = "answered" => Topics(g.task) \subseteq unsure'
    BY <1>8 DEF Fail
  <2>2. CASE Accept(r, g)
    BY <1>7, <2>2
  <2> QED BY <1>6, <2>1, <2>2
<1>9. CASE Refuse(r, g)
  <2>1. g.at = "answered"
    BY <1>9 DEF Refuse
  <2>2. CASE Finish(r, g, Result(g, TRUE, FALSE))
    BY <1>6, <2>1, <2>2
  <2>3. CASE ~Finish(r, g, Result(g, TRUE, FALSE))
    <3> DEFINE h == [g EXCEPT !.at = "queued", !.tries = @ + 1, !.root = {}]
    <3>1. Step(r, g, h) /\ unsure' = unsure \cup Topics(g.task) /\ summary' = summary
      BY <1>9, <2>3 DEF Refuse
    <3>2. h \in FlightSet /\ h.task = g.task
      <4>1. {} \in SUBSET Keywords /\ "queued" \in Points
        BY DEF Points
      <4>2. h \in FlightSet
        BY <1>1, <4>1, FlightTyped
      <4>3. h.task = g.task
        BY <1>1 DEF FlightSet
      <4> QED BY <4>2, <4>3
    <3> HIDE DEF h
    <3>3. ASSUME NEW x \in (Nodes \cup DOMAIN NodeOf) \ unsure'
          PROVE  RootsOf(x)'
      <4>1. RootsOf(x) /\ x \notin Topics(g.task)
        BY <3>1 DEF RootsInv
      <4>2. OnRecord(x)' = OnRecord(x)
        BY <1>2, <3>1 DEF OnRecord
      <4> QED BY <1>3, <3>1, <3>2, <4>1, <4>2, QuietMove
    <3>4. Alone(r) /\ req'[r].phase = req[r].phase /\ req'[r].done = req[r].done
      BY <3>1, <3>2, StepFields
    <3>5. \A s \in Requests : ResultsFit(s)'
      BY <3>4 DEF ResultsFit, RootsInv, Alone, Running, InPhase
    <3> QED BY <3>3, <3>5 DEF RootsInv
  <2> QED BY <2>2, <2>3
<1> QED BY <1>7, <1>8, <1>9

\* Every step keeps it, and so does one that changes nothing.
LEMMA RootsStep ==
    ASSUME IInv, RootsInv, [RequestNext]_requestVars
    PROVE  RootsInv'
<1>1. ASSUME NEW r \in Requests, RequestStep(r)
      PROVE  RootsInv'
  <2>1. Typed /\ HandlerInv(r)
    BY DEF IInv
  <2>2. \/ Begin(r) \/ Launch(r)
        \/ \E g \in req[r].flight :
             \/ TakeGlobal(r, g) \/ TakeLocal(r, g) \/ ReadFiles(r, g)
             \/ Serve(r, g) \/ ReadRoot(r, g)
             \/ Accept(r, g) \/ Refuse(r, g) \/ Fail(r, g)
        \/ EndAdd(r) \/ EndBatch(r) \/ EndDelete(r) \/ EndTaking(r) \/ EndGiving(r)
        \/ EndUndoing(r) \/ EndAsking(r) \/ EndAskingAll(r)
    BY <1>1 DEF RequestStep
  <2> QED BY <2>1, <2>2, SendsKept, OnTheWayKept, ServedKept, ReceivedKept, EndKept
<1>2. ASSUME UNCHANGED requestVars
      PROVE  RootsInv'
  <2>1. /\ req' = req /\ index' = index /\ roots' = roots /\ summary' = summary
        /\ latest' = latest /\ unsure' = unsure
    BY <1>2 DEF requestVars
  <2>2. ASSUME NEW x \in (Nodes \cup DOMAIN NodeOf) \ unsure'
        PROVE  RootsOf(x)'
    <3>1. RootsOf(x)
      BY <2>1 DEF RootsInv
    <3>2. Truth(x)' = Truth(x) /\ OnRecord(x)' = OnRecord(x)
      BY <2>1 DEF Truth, OnRecord
    <3>3. \A q \in Requests :
            /\ AnsweredAbout(q, x)' = AnsweredAbout(q, x)
            /\ ResultsAbout(q, x)' = ResultsAbout(q, x)
            /\ InPhase(q, "batch")' <=> InPhase(q, "batch")
      BY <2>1 DEF AnsweredAbout, ResultsAbout, InPhase
    <3> QED BY <2>1, <3>1, <3>2, <3>3, QuietRoots
  <2>3. \A s \in Requests : ResultsFit(s)'
    BY <2>1 DEF RootsInv, ResultsFit, Running, InPhase
  <2> QED BY <2>2, <2>3 DEF RootsInv
<1> QED BY <1>1, <1>2 DEF RequestNext

\* At the start nothing is under way and the record is right.
LEMMA InitRoots == RequestInit => RootsInv
<1> SUFFICES ASSUME RequestInit
             PROVE  RootsInv
  OBVIOUS
<1>1. \A r \in Requests : req[r].phase = "called" /\ req[r].flight = {} /\ req[r].done = <<>>
  BY DEF RequestInit, Idle
<1>2. DOMAIN <<>> = {}
  BY EmptySeq, LenProperties
<1>3. \A r \in Requests : ResultsFit(r)
  <2>1. \A r \in Requests : DOMAIN req[r].done = {}
    BY <1>1, <1>2
  <2> QED BY <1>1, <2>1 DEF ResultsFit
<1>4. ASSUME NEW x \in Nodes \cup DOMAIN NodeOf
      PROVE  RootsOf(x)
  <2>1. \A r \in Requests : AnsweredAbout(r, x) = {} /\ ResultsAbout(r, x) = {}
    <3>1. \A r \in Requests : DOMAIN req[r].done = {}
      BY <1>1, <1>2
    <3> QED BY <1>1, <3>1 DEF AnsweredAbout, ResultsAbout
  <2>2. OnRecord(x) = Truth(x)
    BY DEF OnRecord, Truth, RequestInit
  <2> QED BY <2>1, <2>2 DEF RootsOf, OwnRoots, Pending
<1> QED BY <1>3, <1>4 DEF RootsInv

\* When nothing is under way the manager has on record the root of every storager
\* and, of every prefix, the root its storager last answered with, whatever order
\* the answers were recorded in; those whose answers were lost, dropped or in no
\* order are excepted until the next answer about them.
THEOREM RootsRecorded == RequestSpec => []RootsFollow
<1>1. RequestInit => IInv /\ RootsInv
  BY InitIInv, InitRoots
<1>2. IInv /\ RootsInv /\ [RequestNext]_requestVars => (IInv /\ RootsInv)'
  BY HandlerStep, Stutters, RootsStep DEF RequestNext
<1>3. IInv /\ RootsInv => RootsFollow
  <2> SUFFICES ASSUME IInv, RootsInv, \A r \in Requests : ~Running(r)
               PROVE  /\ \A n \in Nodes \ unsure : roots[n] = index[n]
                      /\ \A p \in DOMAIN NodeOf \ unsure : summary[p] = latest[p]
    BY DEF RootsFollow
  <2>1. \A r \in Requests : req[r].flight = {} /\ DOMAIN req[r].done = {}
    BY EmptySeq, LenProperties DEF IInv, HandlerInv, OneAtATime, RootsInv, ResultsFit
  <2>2. \A r \in Requests : \A x : ~Pending(r, x)
    BY <2>1 DEF Pending, AnsweredAbout, ResultsAbout
  <2>3. \A x \in (Nodes \cup DOMAIN NodeOf) \ unsure : OnRecord(x) = Truth(x)
    BY <2>2 DEF RootsInv, RootsOf
  <2>4. \A p \in DOMAIN NodeOf : p \notin Nodes
    BY RequestAssumption
  <2> QED BY <2>3, <2>4 DEF OnRecord, Truth
<1> QED BY <1>1, <1>2, <1>3, PTL DEF RequestSpec
=============================================================================
