--------------------------- MODULE SplitMigration ---------------------------
(***************************************************************************)
(* Writes, deletes and splits of the manager over its storagers: the       *)
(* handlers `add` and `delete`, the background task that moves the keys of *)
(* a split prefix, the operations buffered while it does, and the reset    *)
(* (manager/src/api/service.rs, core/manager.rs, core/routing.rs).         *)
(*                                                                         *)
(* A step is what runs between two awaits or two lock acquisitions of a    *)
(* handler.  A request carries one keyword: the handlers run the same      *)
(* steps keyword by keyword.  A storager is the set of postings it holds.  *)
(*                                                                         *)
(* A keyword has two hashes.  The ring routes by RingHash (xxh3); a        *)
(* storager selects the postings of a prefix by AdsHash (SHA-256).         *)
(***************************************************************************)
EXTENDS PrefixRing, FiniteSets

CONSTANTS
    Clients,      \* requests the manager serves at once
    Keywords,
    Fids,
    RingHash,     \* EPRing::keyword_to_hex
    AdsHash,      \* AccTrie::hashed_key_hex
    ImportMode,   \* what an import does to postings the target holds already
    MaxRequests,  \* bound: requests made
    MaxFailures,  \* bound: storager RPCs of migrations and resets that fail
    MaxResets,    \* bound: resets of the system
    NoRoute

ASSUME HashesAssumption ==
    /\ RingHash \in [Keywords -> KeyHashes]
    /\ AdsHash \in [Keywords -> KeyHashes]
    /\ ImportMode \in {"replace_prefix", "replace_keyword"}

ASSUME BoundsAssumption ==
    MaxRequests \in Nat /\ MaxFailures \in Nat /\ MaxResets \in Nat

VARIABLES
    entries,      \* the ring
    overrides,    \* Router.keyword_overrides: keyword -> route or NoRoute
    migrations,   \* Manager.prefix_migrations: parent prefix -> state
    store,        \* storager -> postings
    client,       \* request in progress of each client
    queue,        \* split plans whose task waits for migration_lock
    task,         \* the migration that holds migration_lock
    failures, resets,
    \* What the properties remember.
    issued,       \* requests made so far: no request is made twice
    added,        \* postings of acknowledged adds nobody asked to delete
    deleted,      \* postings of acknowledged deletes
    emptied,      \* child prefixes removed from their source
    raced,        \* keywords of an operation that overlapped a split in a window
                  \* the handlers leave open
    apart         \* keywords whose two hashes a migration told apart

router == <<entries, overrides>>
bounds == <<failures, resets>>
ghosts == <<issued, added, deleted, emptied, raced, apart>>
vars == <<entries, overrides, migrations, store, client, queue, task, failures, resets, ghosts>>

Postings == Keywords \X Fids
Ops == [kind : {"add", "delete"}, kw : Keywords, fid : Fids]
Posting(op) == <<op.kw, op.fid>>

\* HashMap::insert.
Put(map, key, value) ==
    [k \in DOMAIN map \cup {key} |-> IF k = key THEN value ELSE map[k]]

(***************************************************************************)
(* Routing                                                                 *)
(***************************************************************************)
RingRoute(kw) ==
    LET i == RouteKey(entries, RingHash[kw])
    IN  [prefix |-> entries[i].prefix, node |-> entries[i].owner_ref]

\* Router::route_keyword: the override of a recorded keyword, else the ring.
RouteKeyword(kw) == IF overrides[kw] # NoRoute THEN overrides[kw] ELSE RingRoute(kw)

ChildPrefix(p, kw) == Append(p, RingHash[kw][Len(p) + 1])

\* active_prefix_migration_for_keyword: unconfirmed, with a child the keyword is under.
ActiveMigrations(kw) ==
    {p \in DOMAIN migrations : ~migrations[p].confirmed /\ IsPrefix(p, RingHash[kw])}

\* What query_boolean_function does: route the query like a write.
QueryRoutesAsWrites(kw) == {RouteKeyword(kw)}

\* query_route_keyword reads from the source while the prefix moves.  The map of
\* migrations has no order: any matching state may be found.
QueryRoutes(kw) ==
    IF ActiveMigrations(kw) = {}
    THEN {RouteKeyword(kw)}
    ELSE {[prefix |-> ChildPrefix(p, kw), node |-> migrations[p].source] :
            p \in ActiveMigrations(kw)}

(***************************************************************************)
(* Recording an answer (record_prefix_insert, record_prefix_delete)        *)
(***************************************************************************)
RecordedEntries(op, prefix) ==
    LET i == FindEntry(entries, prefix) IN
    IF i = NoEntry THEN entries
    ELSE IF op.kind = "add" THEN Inserted(entries, i, EmptySummary)
    ELSE Deleted(entries, i, EmptySummary)

RecordedOverride(op, route) ==
    [overrides EXCEPT ![op.kw] = IF op.kind = "add" THEN route ELSE NoRoute]

SplitsOn(op, prefix) ==
    LET i == FindEntry(entries, prefix)
    IN  op.kind = "add" /\ i # NoEntry /\ SplitsOnInsert(entries, i)

\* build_split_plan, from the ring after the split of `prefix` and before it.
SplitPlan(prefix, es) ==
    LET i == FindEntry(es, prefix)
    IN  [parent |-> prefix,
         source |-> es[i].owner_ref,
         targets |-> [d \in Digits |-> (es[i].owner_ref + d) % NodeCount]]

NoPlan == [parent |-> <<>>, source |-> 0, targets |-> [d \in Digits |-> 0]]

Applied(held, op) ==
    IF op.kind = "add" THEN held \cup {Posting(op)} ELSE held \ {Posting(op)}

\* What the answer to the client promises.
Acknowledge(op) ==
    IF op.kind = "add"
    THEN added' = added \cup {Posting(op)} /\ deleted' = deleted \ {Posting(op)}
    ELSE UNCHANGED added /\ deleted' = deleted \cup {Posting(op)}

(***************************************************************************)
(* Requests                                                                *)
(***************************************************************************)
NoOp == [kind |-> "none"]
IdleClient == [pc |-> "idle", op |-> NoOp, route |-> NoRoute, plan |-> NoPlan]

\* The route a request computed no longer is where the ring sends its keyword, or
\* its prefix is split and moving.
Stale(op, route) ==
    \/ ActiveMigrations(op.kw) # {}
    \/ RingRoute(op.kw) # route
    \/ \E c \in Clients :
        client[c].pc = "schedule" /\ IsPrefix(client[c].plan.parent, RingHash[op.kw])

KeywordsUnder(p) == {kw \in Keywords : IsPrefix(p, RingHash[kw])}

\* An overtaken operation taints its keyword; one that also splits its prefix again
\* taints all keywords of that prefix.
Overtaken(op, route) ==
    IF ~Stale(op, route) THEN {}
    ELSE IF SplitsOn(op, route.prefix) THEN KeywordsUnder(route.prefix)
    ELSE {op.kw}

\* The read gate is taken and the first check made.  A client deletes what it knows
\* to be there.
Request(c, op) ==
    /\ client[c].pc = "idle"
    /\ op \notin issued
    /\ Cardinality(issued) < MaxRequests
    /\ op.kind = "delete" => Posting(op) \in added
    /\ client' = [client EXCEPT ![c].pc = IF ActiveMigrations(op.kw) # {}
                                          THEN "buffer" ELSE "route",
                                ![c].op = op]
    /\ issued' = issued \cup {op}
    /\ added' = IF op.kind = "delete" THEN added \ {Posting(op)} ELSE added
    /\ UNCHANGED <<router, migrations, store, queue, task, bounds, deleted, emptied, raced, apart>>

\* add routes as a write, delete as a query.
Route(c) ==
    LET op == client[c].op IN
    /\ client[c].pc = "route"
    /\ \E route \in IF op.kind = "add" THEN {RouteKeyword(op.kw)} ELSE QueryRoutes(op.kw) :
        client' = [client EXCEPT ![c].pc = "recheck", ![c].route = route]
    /\ UNCHANGED <<router, migrations, store, queue, task, bounds, ghosts>>

Recheck(c) ==
    /\ client[c].pc = "recheck"
    /\ client' = [client EXCEPT ![c].pc = IF ActiveMigrations(client[c].op.kw) # {}
                                          THEN "buffer" ELSE "rpc"]
    /\ UNCHANGED <<router, migrations, store, queue, task, bounds, ghosts>>

\* The pending list of p was taken for replay already and p is not confirmed yet.
Taken(p) ==
    /\ task.pc \in {"replay", "replay_rpc", "replay_record", "finish"}
    /\ task.plan.parent = p

\* buffer_operation_during_migration.  A buffered delete goes on to
\* record_prefix_delete with an empty prefix.
Buffer(c) ==
    LET op == client[c].op IN
    /\ client[c].pc = "buffer"
    /\ \E p \in ActiveMigrations(op.kw) :
        /\ migrations' = [migrations EXCEPT ![p].pending = Append(@, op)]
        /\ raced' = IF Taken(p) THEN raced \cup {op.kw} ELSE raced
    /\ IF op.kind = "add"
       THEN client' = [client EXCEPT ![c] = IdleClient] /\ Acknowledge(op)
       ELSE /\ client' = [client EXCEPT ![c].pc = "record",
                                        ![c].route = [prefix |-> <<>>, node |-> 0]]
            /\ UNCHANGED <<added, deleted>>
    /\ UNCHANGED <<router, store, queue, task, bounds, issued, emptied, apart>>

\* The migration ended between the check and the buffering: add prints the error
\* and answers success all the same, delete answers the error.
BufferRefused(c) ==
    LET op == client[c].op IN
    /\ client[c].pc = "buffer"
    /\ ActiveMigrations(op.kw) = {}
    /\ client' = [client EXCEPT ![c] = IdleClient]
    /\ IF op.kind = "add"
       THEN Acknowledge(op) /\ raced' = raced \cup {op.kw}
       ELSE UNCHANGED <<added, deleted, raced>>
    /\ UNCHANGED <<router, migrations, store, queue, task, bounds, issued, emptied, apart>>

\* The storager's add or delete.
StoragerRpc(c) ==
    LET op == client[c].op
        node == client[c].route.node
    IN
    /\ client[c].pc = "rpc"
    /\ store' = [store EXCEPT ![node] = Applied(@, op)]
    /\ raced' = IF Stale(op, client[c].route) THEN raced \cup {op.kw} ELSE raced
    /\ client' = [client EXCEPT ![c].pc = "record"]
    /\ UNCHANGED <<router, migrations, queue, task, bounds, issued, added, deleted, emptied, apart>>

\* record_prefix_insert or record_prefix_delete, under the router's locks.
Record(c) ==
    LET op == client[c].op
        route == client[c].route
    IN
    /\ client[c].pc = "record"
    /\ entries' = RecordedEntries(op, route.prefix)
    /\ overrides' = RecordedOverride(op, route)
    /\ raced' = IF route.prefix = <<>> THEN raced ELSE raced \cup Overtaken(op, route)
    /\ IF SplitsOn(op, route.prefix)
       THEN /\ client' = [client EXCEPT ![c].pc = "schedule",
                                        ![c].plan = SplitPlan(route.prefix, entries)]
            /\ UNCHANGED <<added, deleted>>
       ELSE client' = [client EXCEPT ![c] = IdleClient] /\ Acknowledge(op)
    /\ UNCHANGED <<migrations, store, queue, task, bounds, issued, emptied, apart>>

\* A queue with room for one plan.
QueueReplaced(plan) == {plan}

\* Every spawned task waits for migration_lock.
Queued(plan) == queue \cup {plan}

NewMigration(plan) == [source |-> plan.source, confirmed |-> FALSE, pending |-> <<>>]

\* schedule_split_migration: a state of this parent still unconfirmed wins.
Schedule(c) ==
    LET plan == client[c].plan
        pending == plan.parent \in DOMAIN migrations /\ ~migrations[plan.parent].confirmed
    IN
    /\ client[c].pc = "schedule"
    /\ IF pending
       THEN UNCHANGED <<migrations, queue>>
       ELSE /\ migrations' = Put(migrations, plan.parent, NewMigration(plan))
            /\ queue' = Queued(plan)
    /\ client' = [client EXCEPT ![c] = IdleClient]
    /\ Acknowledge(client[c].op)
    /\ UNCHANGED <<router, store, task, bounds, issued, emptied, raced, apart>>

(***************************************************************************)
(* The background task of a split (run_split_migration)                    *)
(***************************************************************************)
IdleTask == [pc |-> "idle", plan |-> NoPlan, segments |-> << >>, imported |-> {},
             broken |-> FALSE, confirmed |-> {}, replay |-> <<>>, route |-> NoRoute]

\* Children that change storager; those that stay are skipped by every loop.
Moved(plan) == {d \in Digits : plan.targets[d] # plan.source}
Least(S) == CHOOSE d \in S : \A e \in S : d =< e
Segment(plan, d) == Append(plan.parent, d)

\* Keywords that one hash puts under a moved child and the other does not: the
\* storagers move one set of postings, the ring routes another.
ToldApart(plan) ==
    {kw \in Keywords : \E d \in Moved(plan) :
        IsPrefix(Segment(plan, d), RingHash[kw]) # IsPrefix(Segment(plan, d), AdsHash[kw])}

\* What a storager selects for a prefix, by its own hash.
Selected(held, prefix) == {x \in held : IsPrefix(prefix, AdsHash[x[1]])}

\* A storager that drops what it exported without waiting for the confirmation.
AfterPrepareDropped(held, prefix) == held \ Selected(held, prefix)

\* prepare_retain_prefix_segment marks the prefix and keeps its postings.
AfterPrepare(held, prefix) == held

\* import_prefix_segment: AccTrie and AccTree replace what they hold under the
\* prefix, MPT the file list of each imported keyword.
AfterImport(held, prefix, segment) ==
    LET replaced == IF ImportMode = "replace_prefix"
                    THEN Selected(held, prefix)
                    ELSE {x \in held : \E y \in segment : y[1] = x[1]}
    IN  (held \ replaced) \cup segment

\* A confirmation that leaves the retained postings behind.
AfterConfirmKept(held, prefix) == held

\* confirm_prefix_migration removes all the source holds under the prefix by now.
AfterConfirm(held, prefix) == held \ Selected(held, prefix)

TaskStart ==
    /\ task.pc = "idle"
    /\ \E plan \in queue :
        /\ task' = [IdleTask EXCEPT !.pc = IF Moved(plan) = {} THEN "clear" ELSE "prepare",
                                    !.plan = plan]
        /\ queue' = queue \ {plan}
        /\ apart' = apart \cup ToldApart(plan)
    /\ UNCHANGED <<router, migrations, store, client, bounds, issued, added, deleted, emptied, raced>>

\* One child after the other, at the source.
Prepare ==
    LET plan == task.plan
        d == Least(Moved(plan) \ DOMAIN task.segments)
    IN
    /\ task.pc = "prepare"
    /\ task' = [task EXCEPT
                    !.segments = Put(@, d, Selected(store[plan.source], Segment(plan, d))),
                    !.pc = IF Moved(plan) = DOMAIN task.segments \cup {d}
                           THEN "import" ELSE "prepare"]
    /\ store' = [store EXCEPT ![plan.source] = AfterPrepare(@, Segment(plan, d))]
    /\ UNCHANGED <<router, migrations, client, queue, bounds, ghosts>>

\* All children at once, each at its target; the task looks at the outcomes when
\* the last one is in.
ImportEnds(d, fails) ==
    LET all == task.imported \cup {d} = DOMAIN task.segments
        broken == task.broken \/ fails
    IN  task' = IF all /\ broken THEN IdleTask
                ELSE [task EXCEPT !.imported = @ \cup {d}, !.broken = broken,
                                  !.pc = IF all THEN "confirm" ELSE "import"]

Import(d) ==
    /\ task.pc = "import"
    /\ d \in DOMAIN task.segments \ task.imported
    /\ store' = [store EXCEPT ![task.plan.targets[d]] =
                    AfterImport(@, Segment(task.plan, d), task.segments[d])]
    /\ ImportEnds(d, FALSE)
    /\ UNCHANGED <<router, migrations, client, queue, bounds, ghosts>>

ImportFails(d) ==
    /\ task.pc = "import"
    /\ d \in DOMAIN task.segments \ task.imported
    /\ failures < MaxFailures
    /\ failures' = failures + 1
    /\ ImportEnds(d, TRUE)
    /\ UNCHANGED <<router, migrations, store, client, queue, resets, ghosts>>

\* One child after the other, at the source.
Confirm ==
    LET plan == task.plan
        d == Least(Moved(plan) \ task.confirmed)
    IN
    /\ task.pc = "confirm"
    /\ store' = [store EXCEPT ![plan.source] = AfterConfirm(@, Segment(plan, d))]
    /\ task' = [task EXCEPT !.confirmed = @ \cup {d},
                            !.pc = IF Moved(plan) = task.confirmed \cup {d}
                                   THEN "clear" ELSE "confirm"]
    /\ emptied' = emptied \cup {Segment(plan, d)}
    /\ UNCHANGED <<router, migrations, client, queue, bounds, issued, added, deleted, raced, apart>>

\* A migration that forgets to clear the overrides.
ClearedNothing(p) == overrides

\* clear_keyword_overrides_for_prefix: the overrides of the parent's keywords.
ClearedOverrides(p) ==
    [kw \in Keywords |-> IF IsPrefix(p, RingHash[kw]) THEN NoRoute ELSE overrides[kw]]

ClearOverrides ==
    /\ task.pc = "clear"
    /\ overrides' = ClearedOverrides(task.plan.parent)
    /\ task' = [task EXCEPT !.pc = "take"]
    /\ UNCHANGED <<entries, migrations, store, client, queue, bounds, ghosts>>

\* A task that drops what was buffered.
FinishAtOnce(rest) == "finish"

ReplayOrFinish(rest) == IF rest = <<>> THEN "finish" ELSE "replay"

\* replay_pending_operations takes the list; a reset may have dropped the state,
\* and then the task ends with an error.
TakePending ==
    LET p == task.plan.parent IN
    /\ task.pc = "take"
    /\ IF p \in DOMAIN migrations
       THEN /\ task' = [task EXCEPT !.replay = migrations[p].pending,
                                    !.pc = ReplayOrFinish(migrations[p].pending)]
            /\ migrations' = [migrations EXCEPT ![p].pending = <<>>]
       ELSE task' = IdleTask /\ UNCHANGED migrations
    /\ UNCHANGED <<router, store, client, queue, bounds, ghosts>>

ReplayRoute ==
    /\ task.pc = "replay"
    /\ task' = [task EXCEPT !.route = RouteKeyword(Head(task.replay).kw), !.pc = "replay_rpc"]
    /\ UNCHANGED <<router, migrations, store, client, queue, bounds, ghosts>>

\* An operation replayed on a route that a split has overtaken.
StaleReplay(op, route) == RingRoute(op.kw) # route

ReplayRpc ==
    LET op == Head(task.replay) IN
    /\ task.pc = "replay_rpc"
    /\ store' = [store EXCEPT ![task.route.node] = Applied(@, op)]
    /\ raced' = IF StaleReplay(op, task.route) THEN raced \cup {op.kw} ELSE raced
    /\ task' = [task EXCEPT !.pc = "replay_record"]
    /\ UNCHANGED <<router, migrations, client, queue, bounds, issued, added, deleted, emptied, apart>>

\* A split caused here is made in the ring and its plan dropped: nothing moves.
ReplayRecord ==
    LET op == Head(task.replay)
        rest == Tail(task.replay)
        split == IF SplitsOn(op, task.route.prefix)
                 THEN KeywordsUnder(task.route.prefix)
                 ELSE {}
    IN
    /\ task.pc = "replay_record"
    /\ entries' = RecordedEntries(op, task.route.prefix)
    /\ overrides' = RecordedOverride(op, task.route)
    /\ raced' = raced \cup split
                      \cup IF StaleReplay(op, task.route) THEN {op.kw} ELSE {}
    /\ task' = [task EXCEPT !.replay = rest, !.pc = ReplayOrFinish(rest)]
    /\ UNCHANGED <<migrations, store, client, queue, bounds, issued, added, deleted, emptied, apart>>

Finish ==
    LET p == task.plan.parent IN
    /\ task.pc = "finish"
    /\ migrations' = IF p \in DOMAIN migrations
                     THEN [migrations EXCEPT ![p].confirmed = TRUE]
                     ELSE migrations
    /\ task' = IdleTask
    /\ UNCHANGED <<router, store, client, queue, bounds, ghosts>>

\* A storager RPC of the task answers an error: the task logs it and ends.  The
\* state stays unconfirmed, and what was taken for replay is dropped.
TaskFails ==
    /\ task.pc \in {"prepare", "confirm", "replay_rpc"}
    /\ failures < MaxFailures
    /\ failures' = failures + 1
    /\ raced' = raced \cup {task.replay[i].kw : i \in DOMAIN task.replay}
    /\ task' = IdleTask
    /\ UNCHANGED <<router, migrations, store, client, queue, resets, issued, added, deleted, emptied, apart>>

(***************************************************************************)
(* reset_system: the write gate waits for every request, migration_lock    *)
(* for the running task; a queued task waits behind it.                    *)
(***************************************************************************)
CanReset ==
    /\ \A c \in Clients : client[c].pc = "idle"
    /\ task.pc = "idle"
    /\ resets < MaxResets

Reset ==
    /\ CanReset
    /\ resets' = resets + 1
    /\ store' = [n \in Nodes |-> {}]
    /\ migrations' = << >>
    /\ entries' = NewRing
    /\ overrides' = [kw \in Keywords |-> NoRoute]
    /\ added' = {} /\ deleted' = {} /\ emptied' = {}
    /\ raced' = UNION {KeywordsUnder(plan.parent) : plan \in queue}
    /\ apart' = {}
    /\ UNCHANGED <<client, queue, task, failures, issued>>

\* The storagers before the failing one are reset and nothing else is.
ResetFails ==
    /\ CanReset
    /\ failures < MaxFailures
    /\ failures' = failures + 1
    /\ resets' = resets + 1
    /\ \E S \in SUBSET Nodes \ {Nodes} :
        /\ store' = [n \in Nodes |-> IF n \in S THEN {} ELSE store[n]]
        /\ raced' = IF S = {} THEN raced ELSE Keywords
    /\ UNCHANGED <<router, migrations, client, queue, task, issued, added, deleted, emptied, apart>>

(***************************************************************************)
(* Specification                                                           *)
(***************************************************************************)
Init ==
    /\ entries = NewRing
    /\ overrides = [kw \in Keywords |-> NoRoute]
    /\ migrations = << >>
    /\ store = [n \in Nodes |-> {}]
    /\ client = [c \in Clients |-> IdleClient]
    /\ queue = {}
    /\ task = IdleTask
    /\ failures = 0 /\ resets = 0
    /\ issued = {} /\ added = {} /\ deleted = {} /\ emptied = {}
    /\ raced = {} /\ apart = {}

ClientStep(c) ==
    \/ Route(c) \/ Recheck(c) \/ Buffer(c) \/ BufferRefused(c)
    \/ StoragerRpc(c) \/ Record(c) \/ Schedule(c)

TaskStep ==
    \/ TaskStart \/ Prepare \/ Confirm \/ ClearOverrides \/ TakePending
    \/ ReplayRoute \/ ReplayRpc \/ ReplayRecord \/ Finish
    \/ \E d \in Digits : Import(d)

Failure == TaskFails \/ ResetFails \/ \E d \in Digits : ImportFails(d)

Next ==
    \/ \E c \in Clients : ClientStep(c) \/ \E op \in Ops : Request(c, op)
    \/ TaskStep
    \/ Failure
    \/ Reset

Spec == Init /\ [][Next]_vars

\* The runtime runs every ready task, and migration_lock is handed on in order.
FairSpec == Spec /\ WF_vars(TaskStep) /\ \A c \in Clients : WF_vars(ClientStep(c))

(***************************************************************************)
(* Properties                                                              *)
(***************************************************************************)
Routes == [prefix : Prefixes, node : Nodes]
Plans == [parent : Prefixes, source : Nodes, targets : [Digits -> Nodes]]

TypeOK ==
    /\ entries \in Seq(EntryType)
    /\ \A i \in Leaves(entries) : entries[i].owner_ref \in Nodes
    /\ overrides \in [Keywords -> Routes \cup {NoRoute}]
    /\ \A p \in DOMAIN migrations :
        /\ p \in Prefixes
        /\ migrations[p] \in
            [source : Nodes, confirmed : BOOLEAN, pending : Seq(Ops)]
    /\ store \in [Nodes -> SUBSET Postings]
    /\ client \in [Clients ->
        [pc : {"idle", "route", "recheck", "buffer", "rpc", "record", "schedule"},
         op : Ops \cup {NoOp}, route : Routes \cup {NoRoute}, plan : Plans]]
    /\ queue \subseteq Plans
    /\ task.plan \in Plans /\ task.replay \in Seq(Ops)
    /\ failures \in 0 .. MaxFailures /\ resets \in 0 .. MaxResets
    /\ added \cup deleted \subseteq Postings /\ issued \subseteq Ops
    /\ raced \cup apart \subseteq Keywords /\ emptied \subseteq Prefixes

ReplayPending(kind, x) ==
    LET Waits(ops) == \E i \in DOMAIN ops : ops[i].kind = kind /\ Posting(ops[i]) = x
    IN  Waits(task.replay) \/ \E p \in DOMAIN migrations : Waits(migrations[p].pending)

Held(x) == \E n \in Nodes : x \in store[n]

\* An acknowledged add is in a storager, or waits in a list that is still to be
\* replayed.  Whatever the splits, failures and resets, the only adds that get lost
\* are those of a keyword in `raced`: an RPC or a record overtaken by a split, an
\* operation buffered after its list was taken, refused by the buffer, dropped by a
\* failed or skipped replay, or overtaken by a plan that outlived a reset; and those
\* of a keyword in `apart`, which a migration moves by the wrong hash.
AcknowledgedAddKept ==
    \A x \in added : x[1] \notin raced \cup apart => Held(x) \/ ReplayPending("add", x)

\* An acknowledged delete stays deleted: no import or replay brings back a posting
\* whose delete did not race a split, nor is of a keyword told apart (delete 608-844,
\* the import of a segment exported before it).
AcknowledgedDeleteKept ==
    \A x \in deleted : x[1] \notin raced \cup apart => ~Held(x) \/ ReplayPending("delete", x)

\* From the confirmation of a child at the source to the end of the task, queries
\* are still sent to the source, which holds nothing of it any more.
InConfirmWindow(kw) == \E p \in ActiveMigrations(kw) : ChildPrefix(p, kw) \in emptied

Queryable(x) == \A route \in QueryRoutes(x[1]) : x \in store[route.node]

\* A split made in the ring whose migration state is not inserted yet: a keyword
\* without an override is already routed to a child that received nothing.
InScheduleWindow(kw) ==
    \E c \in Clients :
        client[c].pc = "schedule" /\ IsPrefix(client[c].plan.parent, RingHash[kw])

\* A query sent now finds the posting, unless it is buffered or in a window above.
Readable(x) ==
    \/ ReplayPending("add", x)
    \/ InConfirmWindow(x[1]) \/ InScheduleWindow(x[1])
    \/ Queryable(x)

\* A query sent now finds every acknowledged posting that was not overtaken or told
\* apart, with the migration at any step but the two windows above
\* (query_route_keyword 790-805, run_split_migration).
ReadYourWrites == \A x \in added : x[1] \notin raced \cup apart => Readable(x)

\* The same of keywords told apart, as though xxh3 and SHA-256 were one hash: the
\* segments of a migration are those of the ring (service.rs, run_split_migration).
SegmentsAreTheRings == \A x \in added : x[1] \notin raced => Readable(x)

\* The same without the confirm window: what storage_service.proto:37-39 says of a
\* retained segment.
QueryableThroughoutMigration ==
    \A x \in added :
        \/ x[1] \in raced
        \/ ReplayPending("add", x)
        \/ InScheduleWindow(x[1])
        \/ Queryable(x)

\* A confirmed migration leaves no buffered operation behind (service.rs:262
\* "buffer operation if so").
BufferedOperationsReplayed ==
    \A p \in DOMAIN migrations : migrations[p].confirmed => migrations[p].pending = <<>>

SplittablePrefixes == UNION {[1 .. l -> Digits] : l \in RootLen .. MaxPrefixLen - 1}

\* Every migration state is confirmed in the end unless an RPC failed, so that the
\* keywords of a split prefix do not stay buffered for ever.
MigrationsEnd ==
    \A p \in SplittablePrefixes :
        (p \in DOMAIN migrations /\ ~migrations[p].confirmed)
            ~> (failures > 0 \/ p \notin DOMAIN migrations \/ migrations[p].confirmed)

\* Every buffered operation is applied in the end, unless an RPC failed or it was
\* buffered too late.
BufferedOperationsApplied ==
    \A op \in Ops :
        ReplayPending(op.kind, Posting(op))
            ~> (failures > 0 \/ op.kw \in raced \/ ~ReplayPending(op.kind, Posting(op)))
=============================================================================
