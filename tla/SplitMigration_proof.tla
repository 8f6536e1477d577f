------------------------ MODULE SplitMigration_proof ------------------------
(***************************************************************************)
(* Theorems about SplitMigration, for any number of clients, keywords,     *)
(* files, storagers, splits and failures, and for any two hash functions   *)
(* of ring and storagers: what every step of handlers, migration task and  *)
(* reset keeps; that no acknowledged add gets lost, that no acknowledged   *)
(* delete comes back and that queries find what was added.  The exceptions *)
(* are those that the properties state: the keywords of an operation that  *)
(* was overtaken (raced) and those that a migration told apart by its two  *)
(* hashes (apart).                                                         *)
(*                                                                         *)
(* What is said of a posting depends on where its operations are (OpsFit,  *)
(* ListsFit, OrderFits), on which parent prefix its keyword is moving from *)
(* (RoutePrefixes, ParentsFit, PlansFit), and on which storagers hold it   *)
(* at that point of the move (SegmentsFit, StoreFits), which depends on    *)
(* its two hashes being under the same moved child (AlikeFits).  What a    *)
(* query finds depends besides on the overrides and the emptied children   *)
(* (ReadsInv).                                                             *)
(***************************************************************************)
EXTENDS SplitMigration, PrefixRing_proof

\* The parent of a plan had room for children.
Splittable(plan) == plan \in Plans /\ Len(plan.parent) < MaxPrefixLen

ClientType ==
    [pc : {"idle", "route", "recheck", "buffer", "rpc", "record", "schedule"},
     op : Ops \cup {NoOp}, route : Routes \cup {NoRoute}, plan : Plans]

\* A handler has what its next step reads.
ClientFits(x) ==
    /\ x \in ClientType
    /\ x.pc # "idle" => x.op \in Ops
    /\ x.pc \in {"recheck", "rpc", "record", "schedule"} => x.route \in Routes
    /\ x.pc = "schedule" => x.op.kind = "add" /\ Splittable(x.plan)

ReplayStates == {"replay", "replay_rpc", "replay_record"}

SegmentMaps == UNION {[S -> SUBSET Postings] : S \in SUBSET Digits}

TaskType ==
    [pc : {"idle", "prepare", "import", "confirm", "clear", "take", "finish"} \cup ReplayStates,
     plan : Plans,
     segments : SegmentMaps,
     imported : SUBSET Digits, broken : BOOLEAN, confirmed : SUBSET Digits,
     replay : Seq(Ops), route : Routes \cup {NoRoute}]

\* The loops of the task are over the moved children, and each ends where the next
\* begins; the replay ends with the last operation.
TaskFits(t) ==
    LET moved == Moved(t.plan) IN
    /\ t \in TaskType
    /\ t.pc # "idle" => Splittable(t.plan)
    /\ t.pc = "prepare" =>
        /\ DOMAIN t.segments \subseteq moved /\ DOMAIN t.segments # moved
        /\ t.imported = {} /\ t.confirmed = {} /\ ~t.broken
    /\ t.pc = "import" =>
        /\ DOMAIN t.segments = moved
        /\ t.imported \subseteq moved /\ t.imported # moved
        /\ t.confirmed = {}
    /\ t.pc = "confirm" => t.confirmed \subseteq moved /\ t.confirmed # moved
    /\ t.replay # <<>> <=> t.pc \in ReplayStates
    /\ t.pc \in {"replay_rpc", "replay_record"} => t.route \in Routes

MigrationFits(m) == m \in [source : Nodes, confirmed : BOOLEAN, pending : Seq(Ops)]

MigrationsFit(ms) ==
    \A p \in DOMAIN ms : p \in Prefixes /\ Len(p) < MaxPrefixLen /\ MigrationFits(ms[p])

CountsFit ==
    /\ failures \in 0 .. MaxFailures /\ resets \in 0 .. MaxResets

GhostsFit ==
    /\ added \subseteq Postings /\ deleted \subseteq Postings /\ issued \subseteq Ops
    /\ raced \subseteq Keywords /\ apart \subseteq Keywords /\ emptied \subseteq Prefixes

RouterFits ==
    /\ RingInv(entries)
    /\ overrides \in [Keywords -> Routes \cup {NoRoute}]

TypeInv ==
    /\ RouterFits
    /\ MigrationsFit(migrations)
    /\ store \in [Nodes -> SUBSET Postings]
    /\ client \in [Clients -> ClientType] /\ \A c \in Clients : ClientFits(client[c])
    /\ queue \subseteq Plans /\ \A plan \in queue : Splittable(plan)
    /\ TaskFits(task)
    /\ CountsFit /\ GhostsFit

(***************************************************************************)
(* Routes and plans                                                        *)
(***************************************************************************)

\* The ring's route of a keyword is where the walk of its hash ends.
LEMMA RingRouteTyped ==
    ASSUME RingInv(entries), NEW kw \in Keywords
    PROVE  /\ RingHash[kw] \in KeyHashes
           /\ RingRoute(kw) = [prefix |-> LeafOf(entries, RingHash[kw]).prefix,
                               node |-> LeafOf(entries, RingHash[kw]).owner_ref]
           /\ RingRoute(kw) \in Routes
           /\ IsPrefix(RingRoute(kw).prefix, RingHash[kw])
<1>1. RingHash[kw] \in KeyHashes
  BY HashesAssumption
<1>2. /\ LeafOf(entries, RingHash[kw]).prefix \in Prefixes
      /\ LeafOf(entries, RingHash[kw]).owner_ref \in Nodes
      /\ IsPrefix(LeafOf(entries, RingHash[kw]).prefix, RingHash[kw])
  BY <1>1, RouteTyped
<1>3. RingRoute(kw) = [prefix |-> LeafOf(entries, RingHash[kw]).prefix,
                       node |-> LeafOf(entries, RingHash[kw]).owner_ref]
  BY DEF RingRoute, LeafOf
<1> QED BY <1>1, <1>2, <1>3 DEF Routes

\* So is the route of a write.
LEMMA RouteKeywordTyped ==
    ASSUME RouterFits, NEW kw \in Keywords
    PROVE  RouteKeyword(kw) \in Routes
  BY RingRouteTyped DEF RouterFits, RouteKeyword

\* And of a query, which may be the child of a prefix that moves.
LEMMA QueryRoutesTyped ==
    ASSUME RouterFits, MigrationsFit(migrations), NEW kw \in Keywords
    PROVE  QueryRoutes(kw) \subseteq Routes
<1>1. RouteKeyword(kw) \in Routes
  BY RouteKeywordTyped
<1>2. ASSUME NEW p \in ActiveMigrations(kw)
      PROVE  [prefix |-> ChildPrefix(p, kw), node |-> migrations[p].source] \in Routes
  <2>1. p \in Prefixes /\ Len(p) < MaxPrefixLen /\ migrations[p].source \in Nodes
    BY DEF ActiveMigrations, MigrationsFit, MigrationFits
  <2>2. Len(p) \in Nat
    BY <2>1, PrefixIsSeq, LenProperties
  <2>3. RingHash[kw][Len(p) + 1] \in Digits
    BY <2>1, <2>2, HashesAssumption, RingShape DEF KeyHashes
  <2>4. ChildPrefix(p, kw) \in Prefixes
    BY <2>1, <2>3, ChildOf DEF ChildPrefix
  <2> QED BY <2>1, <2>4 DEF Routes
<1> QED BY <1>1, <1>2 DEF QueryRoutes

\* Recording an answer keeps the ring; it moves routes only by a split of its prefix.
LEMMA RecordedRing ==
    ASSUME RingInv(entries), NEW op \in Ops, NEW prefix \in Prefixes
    PROVE  LET new == RecordedEntries(op, prefix)
               i == FindEntry(entries, prefix)
           IN
           /\ RingInv(new) /\ Grown(entries, new)
           /\ ~SplitsOn(op, prefix) => SameRoutes(entries, new)
           /\ SplitsOn(op, prefix) =>
                /\ i \in Leaves(entries) /\ entries[i].prefix = prefix
                /\ Len(prefix) < MaxPrefixLen
                /\ EntryIsSplit(new, i)
                /\ SplitRoutes(entries, new, prefix)
<1> DEFINE i == FindEntry(entries, prefix)
           new == RecordedEntries(op, prefix)
<1>1. CASE i = NoEntry
  <2>1. new = entries /\ ~SplitsOn(op, prefix)
    BY <1>1 DEF RecordedEntries, SplitsOn
  <2>2. SameRoutes(entries, entries) /\ Grown(entries, entries)
    BY DEF SameRoutes, Grown
  <2> QED BY <2>1, <2>2
<1>2. CASE i # NoEntry
  <2>1. i \in DOMAIN entries /\ entries[i].prefix = prefix
    BY <1>2, FindTyped
  <2>2. EmptySummary \in Summaries \cup {EmptySummary}
    OBVIOUS
  <2>3. new = IF op.kind = "add" THEN Inserted(entries, i, EmptySummary)
              ELSE Deleted(entries, i, EmptySummary)
    BY <1>2 DEF RecordedEntries
  <2>4. SplitsOn(op, prefix) <=> op.kind = "add" /\ SplitsOnInsert(entries, i)
    BY <1>2 DEF SplitsOn
  <2> HIDE DEF i, new
  <2>5. CASE op.kind = "add"
    <3>1. new = Inserted(entries, i, EmptySummary)
      BY <2>3, <2>5
    <3>2. /\ RingInv(new) /\ Grown(entries, new)
          /\ ~SplitsOnInsert(entries, i) => SameRoutes(entries, new)
          /\ SplitsOnInsert(entries, i) =>
                /\ i \in Leaves(entries) /\ Len(entries[i].prefix) < MaxPrefixLen
                /\ EntryIsSplit(new, i)
                /\ SplitRoutes(entries, new, entries[i].prefix)
      BY <2>1, <2>2, <3>1, InsertedRing
    <3> QED BY <2>1, <2>4, <2>5, <3>2 DEF i, new
  <2>6. CASE op.kind # "add"
    <3>1. new = Deleted(entries, i, EmptySummary)
      BY <2>3, <2>6
    <3>2. RingInv(new) /\ Grown(entries, new) /\ SameRoutes(entries, new)
      BY <2>1, <2>2, <3>1, DeletedRing
    <3> QED BY <2>4, <2>6, <3>2 DEF i, new
  <2> QED BY <2>5, <2>6
<1> QED BY <1>1, <1>2

\* build_split_plan names nodes of the ring.
LEMMA SplitPlanTyped ==
    ASSUME RingInv(entries), NEW op \in Ops, NEW prefix \in Prefixes, SplitsOn(op, prefix)
    PROVE  Splittable(SplitPlan(prefix, entries)) /\ SplitPlan(prefix, entries).parent = prefix
<1> DEFINE i == FindEntry(entries, prefix)
           plan == SplitPlan(prefix, entries)
<1>1. i \in Leaves(entries) /\ Len(prefix) < MaxPrefixLen
  BY RecordedRing
<1>2. entries[i].owner_ref \in Nodes
  BY <1>1 DEF RingInv, WellTyped
<1>3. plan = [parent |-> prefix, source |-> entries[i].owner_ref,
              targets |-> [d \in Digits |-> (entries[i].owner_ref + d) % NodeCount]]
  BY DEF SplitPlan
<1> HIDE DEF i, plan
<1>4. ASSUME NEW d \in Digits PROVE (entries[i].owner_ref + d) % NodeCount \in Nodes
  BY <1>2, RingShape DEF Nodes, Digits
<1> QED BY <1>1, <1>2, <1>3, <1>4 DEF Splittable, Plans, plan

\* A client that is idle, and a task that is.
LEMMA NoPlanTyped ==
    NoPlan \in Plans /\ IdleClient \in ClientType /\ ClientFits(IdleClient) /\ TaskFits(IdleTask)
<1>1. <<>> \in Prefixes
  <2> DEFINE p == <<>>
  <2>1. p \in Seq(Digits) /\ Len(p) = 0
    BY EmptySeq
  <2>2. 0 =< MaxPrefixLen
    BY RingShape
  <2> HIDE DEF p
  <2>3. p \in Prefixes
    BY <2>1, <2>2, PrefixIsSeq
  <2> QED BY <2>3 DEF p
<1>2. 0 \in Nodes
  BY RingShape DEF Nodes
<1>3. NoPlan \in Plans
  BY <1>1, <1>2 DEF NoPlan, Plans
<1>4. IdleClient \in ClientType /\ ClientFits(IdleClient)
  BY <1>3 DEF IdleClient, ClientType, ClientFits
<1>5. << >> \in SegmentMaps /\ <<>> \in Seq(Ops)
  <2>1. << >> \in [{} -> SUBSET Postings] /\ {} \in SUBSET Digits
    OBVIOUS
  <2>2. << >> \in SegmentMaps
    BY <2>1, Zenon DEF SegmentMaps
  <2> QED BY <2>2, EmptySeq
<1>6. IdleTask \in TaskType
  <2> DEFINE e == << >>
  <2>1. e \in SegmentMaps /\ e \in Seq(Ops)
    BY <1>5
  <2>2. IdleTask = [pc |-> "idle", plan |-> NoPlan, segments |-> e, imported |-> {},
                    broken |-> FALSE, confirmed |-> {}, replay |-> e, route |-> NoRoute]
    BY DEF IdleTask
  <2> HIDE DEF e
  <2> QED BY <1>3, <2>1, <2>2 DEF TaskType
<1>7. TaskFits(IdleTask)
  BY <1>6 DEF IdleTask, TaskFits, ReplayStates
<1> QED BY <1>3, <1>4, <1>7

\* A nonempty set of digits has a least one.
LEMMA LeastIn ==
    ASSUME NEW S, S \subseteq Digits, S # {}
    PROVE  Least(S) \in S
<1> DEFINE R == OpToRel(<, Nat)
<1>1. S \subseteq Nat
  BY RingShape DEF Digits
<1>2. IsWellFoundedOn(R, Nat)
  BY NatLessThanWellFounded
<1>3. \A d, e \in Nat : ~(<<e, d>> \in R) => d =< e
  BY DEF OpToRel
<1> HIDE DEF R
<1>4. \E d \in S : \A e \in S : ~(<<e, d>> \in R)
  BY <1>1, <1>2, WFMin
<1>5. \E d \in S : \A e \in S : d =< e
  BY <1>1, <1>3, <1>4
<1> QED BY <1>5 DEF Least

(***************************************************************************)
(* Every step keeps the types                                              *)
(***************************************************************************)

\* One handler takes a step.
LEMMA ClientMoves ==
    ASSUME client \in [Clients -> ClientType], \A c \in Clients : ClientFits(client[c]),
           NEW c \in Clients, NEW x, ClientFits(x), client' = [client EXCEPT ![c] = x]
    PROVE  client' \in [Clients -> ClientType] /\ \A b \in Clients : ClientFits(client'[b])
<1>1. x \in ClientType
  BY DEF ClientFits
<1> QED BY <1>1

\* The ring is new, no storager holds anything and nothing is under way.
LEMMA InitTypes == Init => TypeInv
<1> SUFFICES ASSUME Init PROVE TypeInv
  OBVIOUS
<1> USE DEF Init
<1>1. RouterFits
  BY NewRingInv DEF RouterFits
<1>2. MigrationsFit(migrations)
  BY DEF MigrationsFit
<1>3. client \in [Clients -> ClientType] /\ \A c \in Clients : ClientFits(client[c])
  BY NoPlanTyped
<1>4. TaskFits(task)
  BY NoPlanTyped
<1>5. CountsFit
  BY BoundsAssumption DEF CountsFit
<1> QED BY <1>1, <1>2, <1>3, <1>4, <1>5 DEF TypeInv, GhostsFit

\* The handlers.
LEMMA ClientTypes ==
    ASSUME TypeInv, NEW c \in Clients,
           ClientStep(c) \/ \E op \in Ops : Request(c, op)
    PROVE  TypeInv'
<1> USE DEF TypeInv
<1> DEFINE op == client[c].op
           route == client[c].route
<1>0. client[c] \in ClientType /\ ClientFits(client[c])
  OBVIOUS
<1>1. ASSUME NEW o \in Ops, Request(c, o) PROVE TypeInv'
  <2> DEFINE x == [client[c] EXCEPT !.pc = IF ActiveMigrations(o.kw) # {}
                                           THEN "buffer" ELSE "route", !.op = o]
  <2>1. client' = [client EXCEPT ![c] = x]
    BY <1>1 DEF Request
  <2>2. ClientFits(x)
    BY <1>0 DEF ClientFits, ClientType
  <2> HIDE DEF x
  <2>3. client' \in [Clients -> ClientType] /\ \A b \in Clients : ClientFits(client'[b])
    BY <2>1, <2>2, ClientMoves
  <2>4. GhostsFit'
    BY <1>1 DEF Request, GhostsFit
  <2> QED BY <1>1, <2>3, <2>4 DEF Request, router, bounds, RouterFits, CountsFit
<1>2. CASE Route(c)
  <2>1. PICK r \in IF op.kind = "add" THEN {RouteKeyword(op.kw)} ELSE QueryRoutes(op.kw) :
            client' = [client EXCEPT ![c].pc = "recheck", ![c].route = r]
    BY <1>2 DEF Route
  <2>2. op \in Ops /\ op.kw \in Keywords
    BY <1>0, <1>2 DEF Route, ClientFits, Ops
  <2>3. r \in Routes
    BY <2>1, <2>2, RouteKeywordTyped, QueryRoutesTyped
  <2> DEFINE x == [client[c] EXCEPT !.pc = "recheck", !.route = r]
  <2>4. client' = [client EXCEPT ![c] = x]
    BY <2>1
  <2>5. ClientFits(x)
    BY <1>0, <2>2, <2>3 DEF ClientFits, ClientType
  <2> HIDE DEF x
  <2>6. client' \in [Clients -> ClientType] /\ \A b \in Clients : ClientFits(client'[b])
    BY <2>4, <2>5, ClientMoves
  <2> QED BY <1>2, <2>6 DEF Route, router, bounds, ghosts, RouterFits, CountsFit, GhostsFit
<1>3. CASE Recheck(c)
  <2> DEFINE x == [client[c] EXCEPT !.pc = IF ActiveMigrations(op.kw) # {} THEN "buffer" ELSE "rpc"]
  <2>1. client' = [client EXCEPT ![c] = x] /\ client[c].pc = "recheck"
    BY <1>3 DEF Recheck
  <2>2. ClientFits(x)
    BY <1>0, <2>1 DEF ClientFits, ClientType
  <2> HIDE DEF x
  <2>3. client' \in [Clients -> ClientType] /\ \A b \in Clients : ClientFits(client'[b])
    BY <2>1, <2>2, ClientMoves
  <2> QED BY <1>3, <2>3 DEF Recheck, router, bounds, ghosts, RouterFits, CountsFit, GhostsFit
<1>4. CASE Buffer(c)
  <2>1. op \in Ops /\ op.kw \in Keywords /\ Posting(op) \in Postings
    BY <1>0, <1>4 DEF Buffer, ClientFits, Ops, Posting, Postings
  <2>2. PICK p \in ActiveMigrations(op.kw) :
            /\ migrations' = [migrations EXCEPT ![p].pending = Append(@, op)]
            /\ raced' = IF Taken(p) THEN raced \cup {op.kw} ELSE raced
    BY <1>4 DEF Buffer
  <2>3. p \in DOMAIN migrations /\ MigrationFits(migrations[p])
    BY DEF ActiveMigrations, MigrationsFit
  <2>4. Append(migrations[p].pending, op) \in Seq(Ops)
    BY <2>1, <2>3, AppendProperties DEF MigrationFits
  <2>5. MigrationFits([migrations[p] EXCEPT !.pending = Append(migrations[p].pending, op)])
    BY <2>3, <2>4 DEF MigrationFits
  <2>6. /\ DOMAIN migrations' = DOMAIN migrations
        /\ \A q \in DOMAIN migrations : migrations'[q] =
            IF q = p THEN [migrations[p] EXCEPT !.pending = Append(migrations[p].pending, op)]
            ELSE migrations[q]
    BY <2>2, <2>3
  <2>7. MigrationsFit(migrations')
    BY <2>5, <2>6 DEF MigrationsFit
  <2> DEFINE x == IF op.kind = "add" THEN IdleClient
                  ELSE [client[c] EXCEPT !.pc = "record", !.route = [prefix |-> <<>>, node |-> 0]]
  <2>8. client' = [client EXCEPT ![c] = x]
    BY <1>4 DEF Buffer
  <2>9. ClientFits(x)
    <3>1. [prefix |-> <<>>, node |-> 0] \in Routes
      BY NoPlanTyped DEF NoPlan, Plans, Routes
    <3> QED BY <1>0, <2>1, <3>1, NoPlanTyped DEF ClientFits, ClientType
  <2> HIDE DEF x
  <2>10. client' \in [Clients -> ClientType] /\ \A b \in Clients : ClientFits(client'[b])
    BY <2>8, <2>9, ClientMoves
  <2>11. GhostsFit'
    BY <1>4, <2>1, <2>2 DEF Buffer, Acknowledge, GhostsFit
  <2> QED BY <1>4, <2>7, <2>10, <2>11 DEF Buffer, router, bounds, RouterFits, CountsFit
<1>5. CASE BufferRefused(c)
  <2>1. op \in Ops /\ op.kw \in Keywords /\ Posting(op) \in Postings
    BY <1>0, <1>5 DEF BufferRefused, ClientFits, Ops, Posting, Postings
  <2>2. client' \in [Clients -> ClientType] /\ \A b \in Clients : ClientFits(client'[b])
    BY <1>5, NoPlanTyped, ClientMoves DEF BufferRefused
  <2>3. GhostsFit'
    BY <1>5, <2>1 DEF BufferRefused, Acknowledge, GhostsFit
  <2> QED BY <1>5, <2>2, <2>3 DEF BufferRefused, router, bounds, RouterFits, CountsFit
<1>6. CASE StoragerRpc(c)
  <2>1. op \in Ops /\ op.kw \in Keywords /\ Posting(op) \in Postings /\ route \in Routes
    BY <1>0, <1>6 DEF StoragerRpc, ClientFits, Ops, Posting, Postings
  <2> DEFINE x == [client[c] EXCEPT !.pc = "record"]
  <2>2. client' = [client EXCEPT ![c] = x] /\ client[c].pc = "rpc"
    BY <1>6 DEF StoragerRpc
  <2>3. ClientFits(x)
    BY <1>0, <2>2 DEF ClientFits, ClientType
  <2> HIDE DEF x
  <2>4. client' \in [Clients -> ClientType] /\ \A b \in Clients : ClientFits(client'[b])
    BY <2>2, <2>3, ClientMoves
  <2>5. store' \in [Nodes -> SUBSET Postings]
    BY <1>6, <2>1 DEF StoragerRpc, Applied
  <2>6. GhostsFit'
    BY <1>6, <2>1 DEF StoragerRpc, GhostsFit
  <2> QED BY <1>6, <2>4, <2>5, <2>6 DEF StoragerRpc, router, bounds, RouterFits, CountsFit
<1>7. CASE Record(c)
  <2>1. /\ op \in Ops /\ op.kw \in Keywords /\ Posting(op) \in Postings
        /\ route \in Routes /\ route.prefix \in Prefixes
    BY <1>0, <1>7 DEF Record, ClientFits, Ops, Posting, Postings, Routes
  <2>2. RouterFits'
    <3>1. RingInv(RecordedEntries(op, route.prefix))
      BY <2>1, RecordedRing DEF RouterFits
    <3>2. RecordedOverride(op, route) \in [Keywords -> Routes \cup {NoRoute}]
      BY <2>1 DEF RecordedOverride, RouterFits
    <3> QED BY <1>7, <3>1, <3>2 DEF Record, RouterFits
  <2> DEFINE x == IF SplitsOn(op, route.prefix)
                  THEN [client[c] EXCEPT !.pc = "schedule", !.plan = SplitPlan(route.prefix, entries)]
                  ELSE IdleClient
  <2>3. client' = [client EXCEPT ![c] = x]
    BY <1>7 DEF Record
  <2>4. ClientFits(x)
    <3>1. CASE SplitsOn(op, route.prefix)
      <4>1. Splittable(SplitPlan(route.prefix, entries)) /\ op.kind = "add"
        BY <2>1, <3>1, SplitPlanTyped DEF RouterFits, SplitsOn
      <4> QED BY <1>0, <2>1, <3>1, <4>1 DEF ClientFits, ClientType, Splittable
    <3> QED BY <3>1, NoPlanTyped
  <2> HIDE DEF x
  <2>5. client' \in [Clients -> ClientType] /\ \A b \in Clients : ClientFits(client'[b])
    BY <2>3, <2>4, ClientMoves
  <2>6. GhostsFit'
    BY <1>7, <2>1 DEF Record, Acknowledge, Overtaken, KeywordsUnder, GhostsFit
  <2> QED BY <1>7, <2>2, <2>5, <2>6 DEF Record, bounds, CountsFit
<1>8. CASE Schedule(c)
  <2> DEFINE plan == client[c].plan
  <2>1. /\ op \in Ops /\ op.kw \in Keywords /\ Posting(op) \in Postings
        /\ Splittable(plan)
    BY <1>0, <1>8 DEF Schedule, ClientFits, Ops, Posting, Postings
  <2>2. client' \in [Clients -> ClientType] /\ \A b \in Clients : ClientFits(client'[b])
    BY <1>8, NoPlanTyped, ClientMoves DEF Schedule
  <2>3. GhostsFit'
    BY <1>8, <2>1 DEF Schedule, Acknowledge, GhostsFit
  <2>4. queue' \subseteq Plans /\ \A pl \in queue' : Splittable(pl)
    BY <1>8, <2>1 DEF Schedule, Queued, Splittable
  <2>5. MigrationsFit(migrations')
    <3> DEFINE ms == Put(migrations, plan.parent, NewMigration(plan))
    <3>1. MigrationFits(NewMigration(plan)) /\ plan.parent \in Prefixes /\ Len(plan.parent) < MaxPrefixLen
      BY <2>1, EmptySeq DEF NewMigration, MigrationFits, Splittable, Plans
    <3>2. /\ DOMAIN ms = DOMAIN migrations \cup {plan.parent}
          /\ \A p \in DOMAIN ms : ms[p] = IF p = plan.parent THEN NewMigration(plan) ELSE migrations[p]
      BY DEF Put
    <3> HIDE DEF ms
    <3>3. MigrationsFit(ms)
      BY <3>1, <3>2 DEF MigrationsFit
    <3> QED BY <1>8, <3>3 DEF Schedule, ms
  <2> QED BY <1>8, <2>2, <2>3, <2>4, <2>5 DEF Schedule, router, bounds, RouterFits, CountsFit
<1> QED BY <1>1, <1>2, <1>3, <1>4, <1>5, <1>6, <1>7, <1>8 DEF ClientStep

\* The moved children are digits, and a moved child's target is a node.
LEMMA MovedTyped ==
    ASSUME NEW plan \in Plans
    PROVE  /\ Moved(plan) \subseteq Digits
           /\ \A d \in Digits : plan.targets[d] \in Nodes
           /\ plan.source \in Nodes
  BY DEF Moved, Plans

\* The exported segments, one child further.
LEMMA SegmentsTyped ==
    ASSUME NEW segments \in SegmentMaps, NEW d \in Digits, NEW held \in SUBSET Postings, NEW prefix
    PROVE  /\ Put(segments, d, Selected(held, prefix)) \in SegmentMaps
           /\ DOMAIN Put(segments, d, Selected(held, prefix)) = DOMAIN segments \cup {d}
<1> DEFINE new == Put(segments, d, Selected(held, prefix))
<1>1. PICK S \in SUBSET Digits : segments \in [S -> SUBSET Postings]
  BY DEF SegmentMaps
<1>2. Selected(held, prefix) \in SUBSET Postings
  BY DEF Selected
<1>3. new \in [S \cup {d} -> SUBSET Postings] /\ S \cup {d} \in SUBSET Digits
  BY <1>1, <1>2 DEF Put
<1>4. DOMAIN new = DOMAIN segments \cup {d}
  BY DEF Put
<1> HIDE DEF new
<1>5. new \in SegmentMaps
  BY <1>3 DEF SegmentMaps
<1> QED BY <1>4, <1>5 DEF new

\* What an import leaves.
LEMMA ImportTyped ==
    ASSUME NEW held \in SUBSET Postings, NEW segment \in SUBSET Postings, NEW prefix
    PROVE  AfterImport(held, prefix, segment) \in SUBSET Postings
  BY DEF AfterImport, Selected

\* The task's steps up to the confirmation.
LEMMA MoveTypes ==
    ASSUME TypeInv,
           \/ TaskStart \/ Prepare \/ Confirm
           \/ \E d \in Digits : Import(d) \/ ImportFails(d)
    PROVE  TypeInv'
<1> USE DEF TypeInv
<1> DEFINE plan == task.plan
<1>0. task \in TaskType /\ plan \in Plans
  BY DEF TaskFits, TaskType
<1>1. CASE TaskStart
  <2>1. PICK pl \in queue :
            /\ task' = [IdleTask EXCEPT !.pc = IF Moved(pl) = {} THEN "clear" ELSE "prepare",
                                        !.plan = pl]
            /\ queue' = queue \ {pl} /\ apart' = apart \cup ToldApart(pl)
    BY <1>1 DEF TaskStart
  <2>2. pl \in Plans /\ Splittable(pl)
    BY DEF Splittable
  <2> DEFINE e == << >>
  <2>3. IdleTask = [pc |-> "idle", plan |-> NoPlan, segments |-> e, imported |-> {},
                    broken |-> FALSE, confirmed |-> {}, replay |-> e, route |-> NoRoute]
    BY DEF IdleTask
  <2>4. IdleTask \in TaskType /\ DOMAIN e = {} /\ e = << >>
    BY NoPlanTyped DEF TaskFits
  <2> HIDE DEF e
  <2>5. task' = [pc |-> IF Moved(pl) = {} THEN "clear" ELSE "prepare", plan |-> pl,
                 segments |-> e, imported |-> {}, broken |-> FALSE, confirmed |-> {},
                 replay |-> e, route |-> NoRoute]
    BY <2>1, <2>3
  <2>6. task' \in TaskType
    BY <2>2, <2>3, <2>4, <2>5 DEF TaskType
  <2>7. TaskFits(task')
    BY <2>2, <2>4, <2>5, <2>6 DEF TaskFits, ReplayStates
  <2>8. GhostsFit'
    BY <1>1, <2>1 DEF TaskStart, ToldApart, GhostsFit
  <2> QED BY <1>1, <2>1, <2>7, <2>8 DEF TaskStart, router, bounds, RouterFits, CountsFit
<1>2. CASE Prepare
  <2> DEFINE d == Least(Moved(plan) \ DOMAIN task.segments)
             seg == Put(task.segments, d, Selected(store[plan.source], Segment(plan, d)))
  <2>1. task.pc = "prepare" /\ DOMAIN task.segments \subseteq Moved(plan)
        /\ DOMAIN task.segments # Moved(plan) /\ Splittable(plan)
    BY <1>2 DEF Prepare, TaskFits
  <2>2. d \in Moved(plan) \ DOMAIN task.segments /\ d \in Digits
    <3>1. Moved(plan) \ DOMAIN task.segments \subseteq Digits
      BY <1>0, MovedTyped
    <3>2. Moved(plan) \ DOMAIN task.segments # {}
      BY <2>1
    <3> QED BY <3>1, <3>2, LeastIn
  <2>3. task' = [task EXCEPT !.segments = seg,
                             !.pc = IF Moved(plan) = DOMAIN task.segments \cup {d}
                                    THEN "import" ELSE "prepare"]
    BY <1>2 DEF Prepare
  <2>4. store[plan.source] \in SUBSET Postings /\ store' = store
    <3>1. plan.source \in Nodes
      BY <1>0, MovedTyped
    <3> QED BY <1>2, <3>1 DEF Prepare, AfterPrepare
  <2> HIDE DEF d
  <2>5. seg \in SegmentMaps /\ DOMAIN seg = DOMAIN task.segments \cup {d}
    <3> DEFINE segments == task.segments
               held == store[plan.source]
               prefix == Segment(plan, d)
    <3>1. segments \in SegmentMaps /\ d \in Digits /\ held \in SUBSET Postings
      BY <1>0, <2>2, <2>4 DEF TaskType
    <3>2. seg = Put(segments, d, Selected(held, prefix)) /\ segments = task.segments
      OBVIOUS
    <3> HIDE DEF segments, held, prefix, seg
    <3>3. /\ Put(segments, d, Selected(held, prefix)) \in SegmentMaps
          /\ DOMAIN Put(segments, d, Selected(held, prefix)) = DOMAIN segments \cup {d}
      BY <3>1, SegmentsTyped
    <3> QED BY <3>2, <3>3
  <2> HIDE DEF seg
  <2>6. task' \in TaskType
    <3> DEFINE place == IF Moved(plan) = DOMAIN task.segments \cup {d} THEN "import" ELSE "prepare"
    <3>1. place \in {"import", "prepare"} /\ task' = [task EXCEPT !.segments = seg, !.pc = place]
      BY <2>3
    <3> HIDE DEF place
    <3>2. task \in TaskType
      BY <1>0
    <3> QED BY <2>5, <3>1, <3>2 DEF TaskType
  <2>7. /\ task'.plan = plan /\ task'.segments = seg /\ task'.replay = task.replay
        /\ task'.imported = task.imported /\ task'.confirmed = task.confirmed
        /\ task'.broken = task.broken
        /\ task'.pc = IF Moved(plan) = DOMAIN seg THEN "import" ELSE "prepare"
    BY <1>0, <2>3, <2>5 DEF TaskType
  <2>8. TaskFits(task')
    BY <2>1, <2>2, <2>5, <2>6, <2>7 DEF TaskFits, ReplayStates
  <2> QED BY <1>2, <2>4, <2>8 DEF Prepare, router, bounds, ghosts, RouterFits, CountsFit, GhostsFit
<1>3. CASE Confirm
  <2> DEFINE d == Least(Moved(plan) \ task.confirmed)
  <2>1. task.pc = "confirm" /\ task.confirmed \subseteq Moved(plan)
        /\ task.confirmed # Moved(plan) /\ Splittable(plan)
    BY <1>3 DEF Confirm, TaskFits
  <2>2. d \in Moved(plan) \ task.confirmed /\ d \in Digits
    <3>1. Moved(plan) \ task.confirmed \subseteq Digits
      BY <1>0, MovedTyped
    <3>2. Moved(plan) \ task.confirmed # {}
      BY <2>1
    <3> QED BY <3>1, <3>2, LeastIn
  <2>3. /\ task' = [task EXCEPT !.confirmed = task.confirmed \cup {d},
                                !.pc = IF Moved(plan) = task.confirmed \cup {d}
                                       THEN "clear" ELSE "confirm"]
        /\ store' = [store EXCEPT ![plan.source] = AfterConfirm(@, Segment(plan, d))]
        /\ emptied' = emptied \cup {Segment(plan, d)}
    BY <1>3 DEF Confirm
  <2> HIDE DEF d
  <2>4. task' \in TaskType
    BY <1>0, <2>2, <2>3 DEF TaskType
  <2>5. /\ task'.plan = plan /\ task'.replay = task.replay
        /\ task'.confirmed = task.confirmed \cup {d}
        /\ task'.pc = IF Moved(plan) = task.confirmed \cup {d} THEN "clear" ELSE "confirm"
    BY <1>0, <2>3 DEF TaskType
  <2>6. TaskFits(task')
    BY <2>1, <2>2, <2>4, <2>5 DEF TaskFits, ReplayStates
  <2>7. store' \in [Nodes -> SUBSET Postings]
    BY <2>3 DEF AfterConfirm, Selected
  <2>8. Segment(plan, d) \in Prefixes
    BY <1>0, <2>1, <2>2, ChildOf DEF Segment, Plans, Splittable
  <2>9. GhostsFit'
    BY <1>3, <2>3, <2>8 DEF Confirm, GhostsFit
  <2> QED BY <1>3, <2>6, <2>7, <2>9 DEF Confirm, router, bounds, RouterFits, CountsFit
<1>4. ASSUME NEW d \in Digits, Import(d) \/ ImportFails(d) PROVE TypeInv'
  <2>1. /\ task.pc = "import" /\ d \in DOMAIN task.segments \ task.imported
        /\ DOMAIN task.segments = Moved(plan) /\ task.imported \subseteq Moved(plan)
        /\ Splittable(plan) /\ task.confirmed = {} /\ task.replay = <<>>
    BY <1>4 DEF Import, ImportFails, TaskFits, ReplayStates
  <2>2. PICK fails \in BOOLEAN : ImportEnds(d, fails)
    BY <1>4 DEF Import, ImportFails
  <2>3. TaskFits(task')
    <3> DEFINE all == task.imported \cup {d} = DOMAIN task.segments
               broken == task.broken \/ fails
    <3>1. CASE all /\ broken
      BY <2>2, <3>1, NoPlanTyped DEF ImportEnds
    <3>2. CASE ~(all /\ broken)
      <4>1. task' = [task EXCEPT !.imported = task.imported \cup {d}, !.broken = broken,
                                 !.pc = IF all THEN "confirm" ELSE "import"]
        BY <2>2, <3>2, Zenon DEF ImportEnds
      <4>2. broken \in BOOLEAN
        BY <1>0 DEF TaskType
      <4> HIDE DEF broken
      <4>3. task' \in TaskType
        BY <1>0, <4>1, <4>2 DEF TaskType
      <4>4. /\ task'.plan = plan /\ task'.replay = task.replay /\ task'.segments = task.segments
            /\ task'.confirmed = {} /\ task'.imported = task.imported \cup {d}
            /\ task'.pc = IF all THEN "confirm" ELSE "import"
        BY <1>0, <2>1, <4>1 DEF TaskType
      <4>5. Moved(plan) # {}
        BY <2>1
      <4> QED BY <2>1, <4>3, <4>4, <4>5 DEF TaskFits, ReplayStates
    <3> QED BY <3>1, <3>2
  <2>4. store' \in [Nodes -> SUBSET Postings]
    <3>1. CASE Import(d)
      <4>1. task.segments[d] \in SUBSET Postings
        BY <1>0, <2>1 DEF TaskType, SegmentMaps
      <4>2. plan.targets[d] \in Nodes
        BY <1>0, MovedTyped
      <4>3. AfterImport(store[plan.targets[d]], Segment(plan, d), task.segments[d]) \in SUBSET Postings
        BY <4>1, <4>2, ImportTyped
      <4> QED BY <3>1, <4>3 DEF Import
    <3>2. CASE ImportFails(d)
      BY <3>2 DEF ImportFails
    <3> QED BY <1>4, <3>1, <3>2
  <2>5. CountsFit'
    <3>1. CASE Import(d)
      BY <3>1 DEF Import, bounds, CountsFit
    <3>2. CASE ImportFails(d)
      BY <3>2, BoundsAssumption DEF ImportFails, CountsFit
    <3> QED BY <1>4, <3>1, <3>2
  <2> QED BY <1>4, <2>3, <2>4, <2>5 DEF Import, ImportFails, router, ghosts, RouterFits, GhostsFit
<1> QED BY <1>1, <1>2, <1>3, <1>4

\* Its steps after it, and its failure.
LEMMA ReplayTypes ==
    ASSUME TypeInv,
           \/ ClearOverrides \/ TakePending \/ ReplayRoute \/ ReplayRpc \/ ReplayRecord
           \/ Finish \/ TaskFails
    PROVE  TypeInv'
<1> USE DEF TypeInv
<1> DEFINE plan == task.plan
           op == Head(task.replay)
<1>0. task \in TaskType /\ plan \in Plans
  BY DEF TaskFits, TaskType
<1>1. ASSUME task.replay # <<>>
      PROVE  /\ op \in Ops /\ op.kw \in Keywords /\ Posting(op) \in Postings
             /\ Tail(task.replay) \in Seq(Ops)
  <2>1. op \in Ops /\ Tail(task.replay) \in Seq(Ops)
    BY <1>0, <1>1, HeadTailProperties DEF TaskType
  <2> QED BY <2>1 DEF Ops, Posting, Postings
<1>2. CASE ClearOverrides
  <2>1. task.pc = "clear" /\ task' = [task EXCEPT !.pc = "take"]
    BY <1>2 DEF ClearOverrides
  <2>2. TaskFits(task')
    BY <2>1 DEF TaskFits, TaskType, ReplayStates
  <2>3. RouterFits'
    BY <1>2 DEF ClearOverrides, ClearedOverrides, RouterFits
  <2> QED BY <1>2, <2>2, <2>3 DEF ClearOverrides, bounds, ghosts, CountsFit, GhostsFit
<1>3. CASE TakePending
  <2> DEFINE p == plan.parent
  <2>1. CASE p \notin DOMAIN migrations
    <3>1. TaskFits(task') /\ migrations' = migrations
      BY <1>3, <2>1, NoPlanTyped DEF TakePending
    <3> QED BY <1>3, <3>1 DEF TakePending, router, bounds, ghosts, RouterFits, CountsFit, GhostsFit
  <2>2. CASE p \in DOMAIN migrations
    <3> DEFINE pending == migrations[p].pending
    <3>1. /\ task.pc = "take"
          /\ task' = [task EXCEPT !.replay = pending, !.pc = ReplayOrFinish(pending)]
          /\ migrations' = [migrations EXCEPT ![p].pending = <<>>]
      BY <1>3, <2>2 DEF TakePending
    <3>2. MigrationFits(migrations[p])
      BY <2>2 DEF MigrationsFit
    <3>3. MigrationFits([migrations[p] EXCEPT !.pending = <<>>])
      BY <3>2, EmptySeq DEF MigrationFits
    <3>4. MigrationsFit(migrations')
      BY <2>2, <3>1, <3>3 DEF MigrationsFit
    <3>5. pending \in Seq(Ops)
      BY <3>2 DEF MigrationFits
    <3> HIDE DEF pending
    <3>6. TaskFits(task')
      BY <3>1, <3>5 DEF TaskFits, TaskType, ReplayStates, ReplayOrFinish
    <3> QED BY <1>3, <3>4, <3>6 DEF TakePending, router, bounds, ghosts, RouterFits, CountsFit, GhostsFit
  <2> QED BY <2>1, <2>2
<1>4. CASE ReplayRoute
  <2>1. /\ task.pc = "replay" /\ task.replay # <<>>
        /\ task' = [task EXCEPT !.route = RouteKeyword(op.kw), !.pc = "replay_rpc"]
    BY <1>4 DEF ReplayRoute, TaskFits, ReplayStates
  <2>2. RouteKeyword(op.kw) \in Routes
    BY <1>1, <2>1, RouteKeywordTyped
  <2>3. TaskFits(task')
    BY <2>1, <2>2 DEF TaskFits, TaskType, ReplayStates
  <2> QED BY <1>4, <2>3 DEF ReplayRoute, router, bounds, ghosts, RouterFits, CountsFit, GhostsFit
<1>5. CASE ReplayRpc
  <2>1. /\ task.pc = "replay_rpc" /\ task.replay # <<>> /\ task.route \in Routes
        /\ task' = [task EXCEPT !.pc = "replay_record"]
        /\ store' = [store EXCEPT ![task.route.node] = Applied(@, op)]
    BY <1>5 DEF ReplayRpc, TaskFits, ReplayStates
  <2>2. TaskFits(task')
    BY <2>1 DEF TaskFits, TaskType, ReplayStates
  <2>3. store' \in [Nodes -> SUBSET Postings]
    BY <1>1, <2>1 DEF Applied
  <2>4. GhostsFit'
    BY <1>1, <1>5, <2>1 DEF ReplayRpc, GhostsFit
  <2> QED BY <1>5, <2>2, <2>3, <2>4 DEF ReplayRpc, router, bounds, RouterFits, CountsFit
<1>6. CASE ReplayRecord
  <2> DEFINE rest == Tail(task.replay)
             route == task.route
  <2>1. /\ task.pc = "replay_record" /\ task.replay # <<>>
        /\ route \in Routes /\ route.prefix \in Prefixes
        /\ task' = [task EXCEPT !.replay = rest, !.pc = ReplayOrFinish(rest)]
    BY <1>6 DEF ReplayRecord, TaskFits, ReplayStates, Routes
  <2>2. RouterFits'
    <3>1. RingInv(RecordedEntries(op, route.prefix))
      BY <1>1, <2>1, RecordedRing DEF RouterFits
    <3>2. RecordedOverride(op, route) \in [Keywords -> Routes \cup {NoRoute}]
      BY <1>1, <2>1 DEF RecordedOverride, RouterFits
    <3> QED BY <1>6, <3>1, <3>2 DEF ReplayRecord, RouterFits
  <2>3. TaskFits(task')
    <3>1. rest \in Seq(Ops)
      BY <1>1, <2>1
    <3> HIDE DEF rest
    <3> QED BY <2>1, <3>1 DEF TaskFits, TaskType, ReplayStates, ReplayOrFinish
  <2>4. GhostsFit'
    BY <1>1, <1>6, <2>1 DEF ReplayRecord, KeywordsUnder, GhostsFit
  <2> QED BY <1>6, <2>2, <2>3, <2>4 DEF ReplayRecord, bounds, CountsFit
<1>7. CASE Finish
  <2> DEFINE p == plan.parent
  <2>1. MigrationsFit(migrations')
    <3>1. CASE p \notin DOMAIN migrations
      BY <1>7, <3>1 DEF Finish
    <3>2. CASE p \in DOMAIN migrations
      <4>1. MigrationFits([migrations[p] EXCEPT !.confirmed = TRUE])
        BY <3>2 DEF MigrationsFit, MigrationFits
      <4>2. migrations' = [migrations EXCEPT ![p].confirmed = TRUE]
        BY <1>7, <3>2 DEF Finish
      <4> QED BY <3>2, <4>1, <4>2 DEF MigrationsFit
    <3> QED BY <3>1, <3>2
  <2>2. TaskFits(task')
    BY <1>7, NoPlanTyped DEF Finish
  <2> QED BY <1>7, <2>1, <2>2 DEF Finish, router, bounds, ghosts, RouterFits, CountsFit, GhostsFit
<1>8. CASE TaskFails
  <2>1. TaskFits(task')
    BY <1>8, NoPlanTyped DEF TaskFails
  <2>2. \A i \in DOMAIN task.replay : task.replay[i].kw \in Keywords
    <3>1. \A i \in DOMAIN task.replay : task.replay[i] \in Ops
      BY <1>0, ElementOfSeq, LenProperties DEF TaskType
    <3> QED BY <3>1 DEF Ops
  <2>3. GhostsFit' /\ CountsFit'
    BY <1>8, <2>2, BoundsAssumption DEF TaskFails, GhostsFit, CountsFit
  <2> QED BY <1>8, <2>1, <2>3 DEF TaskFails, router, RouterFits
<1> QED BY <1>2, <1>3, <1>4, <1>5, <1>6, <1>7, <1>8

\* The reset.
LEMMA ResetTypes ==
    ASSUME TypeInv, Reset \/ ResetFails
    PROVE  TypeInv'
<1> USE DEF TypeInv
<1>1. CASE Reset
  <2>1. RouterFits'
    BY <1>1, NewRingInv DEF Reset, RouterFits
  <2>2. MigrationsFit(migrations')
    BY <1>1 DEF Reset, MigrationsFit
  <2>3. CountsFit' /\ GhostsFit'
    BY <1>1, BoundsAssumption DEF Reset, CanReset, CountsFit, GhostsFit, KeywordsUnder
  <2> QED BY <1>1, <2>1, <2>2, <2>3 DEF Reset
<1>2. CASE ResetFails
  <2>1. CountsFit' /\ GhostsFit'
    BY <1>2, BoundsAssumption DEF ResetFails, CanReset, CountsFit, GhostsFit
  <2>2. store' \in [Nodes -> SUBSET Postings]
    BY <1>2 DEF ResetFails
  <2> QED BY <1>2, <2>1, <2>2 DEF ResetFails, router, RouterFits
<1> QED BY <1>1, <1>2

\* Every step keeps the types.
LEMMA NextTypes == TypeInv /\ [Next]_vars => TypeInv'
<1> SUFFICES ASSUME TypeInv, [Next]_vars PROVE TypeInv'
  OBVIOUS
<1>1. CASE UNCHANGED vars
  BY <1>1 DEF vars, ghosts, TypeInv, RouterFits, CountsFit, GhostsFit
<1>2. CASE Next
  BY <1>2, ClientTypes, MoveTypes, ReplayTypes, ResetTypes DEF Next, TaskStep, Failure
<1> QED BY <1>1, <1>2

\* The types with what makes them inductive: the ring's own invariant, a prefix with room
\* for children in every plan and state, a task whose lists fit the loop it is in
\* (run_split_migration).
THEOREM TypesInvariance == Spec => []TypeInv
<1> QED BY InitTypes, NextTypes, PTL DEF Spec

\* Router, migrations, storagers, handlers and task keep their types: every plan
\* names existing storagers and a prefix that had room for children, through any
\* splits, failed RPCs and resets (manager/src/api/service.rs, core/manager.rs).
THEOREM TypeCorrect == Spec => []TypeOK
<1>1. TypeInv => TypeOK
  <2> SUFFICES ASSUME TypeInv PROVE TypeOK
    OBVIOUS
  <2>1. entries \in Seq(EntryType) /\ \A i \in Leaves(entries) : entries[i].owner_ref \in Nodes
    BY DEF TypeInv, RouterFits, RingInv, WellTyped
  <2>2. task.plan \in Plans /\ task.replay \in Seq(Ops)
    BY DEF TypeInv, TaskFits, TaskType
  <2> QED BY <2>1, <2>2
          DEF TypeInv, TypeOK, RouterFits, MigrationsFit, MigrationFits, ClientType,
              CountsFit, GhostsFit
<1> QED BY <1>1, TypesInvariance, PTL

(***************************************************************************)
(* Operations                                                              *)
(***************************************************************************)
Is(op, kind, x) == op.kind = kind /\ Posting(op) = x

Has(ops, kind, x) == \E op \in ops : Is(op, kind, x)

Busy(c) == client[c].pc # "idle"

\* An operation is requested once, by one client, and a delete only of a posting that
\* was added and acknowledged before.
OpsFit ==
    /\ \A c \in Clients : Busy(c) => client[c].op \in issued
    /\ \A b, c \in Clients : (b # c /\ Busy(b) /\ Busy(c)) => client[b].op # client[c].op
    /\ \A op \in issued : op.kind = "delete" => Has(issued, "add", Posting(op))
    /\ \A x \in added : Has(issued, "add", x) /\ ~Has(issued, "delete", x)
    /\ \A x \in deleted : Has(issued, "delete", x)
    /\ \A c \in Clients : Busy(c) /\ client[c].op.kind = "add" =>
        Posting(client[c].op) \notin added /\ ~Has(issued, "delete", Posting(client[c].op))
    /\ \A c \in Clients : Busy(c) /\ client[c].op.kind = "delete" =>
        Posting(client[c].op) \notin deleted

\* What waits was requested, and waits with a migration over its keyword.
ListFits(ops, p) ==
    \A i \in DOMAIN ops : ops[i] \in issued /\ IsPrefix(p, RingHash[ops[i].kw])

\* An operation buffered for a prefix whose list was taken is a race.
ListsFit ==
    /\ ListFits(task.replay, task.plan.parent)
    /\ \A p \in DOMAIN migrations :
        /\ ListFits(migrations[p].pending, p)
        /\ \A i \in DOMAIN migrations[p].pending :
            migrations[p].pending[i].kw \notin raced => ~migrations[p].confirmed /\ ~Taken(p)

\* Where a delete of x is, that add of x waits for: with a client that has yet to
\* buffer it, or further back in the list.
Behind(ops, i, x) ==
    \/ \E c \in Clients : client[c].pc = "buffer" /\ Is(client[c].op, "delete", x)
    \/ \E j \in DOMAIN ops : i < j /\ Is(ops[j], "delete", x)

Ordered(ops, x) ==
    \A i \in DOMAIN ops : (Is(ops[i], "add", x) /\ Has(issued, "delete", x)) => Behind(ops, i, x)

OrderFits ==
    \A x \in Postings : x[1] \notin raced =>
        /\ Ordered(task.replay, x)
        /\ \A p \in DOMAIN migrations : Ordered(migrations[p].pending, x)

(***************************************************************************)
(* The ring and the plans                                                  *)
(***************************************************************************)
SplitAt(es, p) == \E i \in DOMAIN es : es[i].prefix = p /\ EntryIsSplit(es, i)

RoutedStates == {"recheck", "rpc", "record", "schedule"}

\* A route's prefix begins the hash of the keyword it is for.
RoutePrefixes ==
    /\ \A c \in Clients : client[c].pc \in RoutedStates =>
        IsPrefix(client[c].route.prefix, RingHash[client[c].op.kw])
    /\ \A kw \in Keywords : overrides[kw] # NoRoute => IsPrefix(overrides[kw].prefix, RingHash[kw])
    /\ task.pc \in {"replay_rpc", "replay_record"} =>
        IsPrefix(task.route.prefix, RingHash[Head(task.replay).kw])

\* A split is made once, and has one state.
ParentsFit ==
    /\ \A p \in DOMAIN migrations : SplitAt(entries, p)
    /\ \A c \in Clients : client[c].pc = "schedule" =>
        /\ SplitAt(entries, client[c].plan.parent)
        /\ client[c].plan.parent \notin DOMAIN migrations
    /\ \A b, c \in Clients : (b # c /\ client[b].pc = "schedule" /\ client[c].pc = "schedule") =>
        client[b].plan.parent # client[c].plan.parent

\* The plans of splits without a state yet.
Windows == {client[c].plan : c \in {b \in Clients : client[b].pc = "schedule"}}

Over(plan, kw) == IsPrefix(plan.parent, RingHash[kw])
DigitOf(plan, kw) == RingHash[kw][Len(plan.parent) + 1]

\* The ring routes the keyword to its child of the parent, where the plan moves it.
PlanRoutes(plan, kw) ==
    /\ Len(RingRoute(kw).prefix) = Len(plan.parent) + 1
    /\ RingRoute(kw).node = plan.targets[DigitOf(plan, kw)]

PlanAttached(plan, kw) ==
    /\ PlanRoutes(plan, kw)
    /\ plan.parent \in ActiveMigrations(kw)
    /\ migrations[plan.parent].source = plan.source

\* A keyword moves from one parent at a time, and one plan says how.
PlansFit(kw) ==
    /\ \A plan \in Windows : Over(plan, kw) => PlanRoutes(plan, kw)
    /\ \A p \in ActiveMigrations(kw) : Len(RingRoute(kw).prefix) = Len(p) + 1
    /\ \A plan \in queue : Over(plan, kw) => PlanAttached(plan, kw)
    /\ \A plan, other \in queue : Over(plan, kw) /\ Over(other, kw) => plan = other
    /\ (task.pc # "idle" /\ Over(task.plan, kw)) =>
        /\ PlanAttached(task.plan, kw)
        /\ \A plan \in queue : ~Over(plan, kw)

(***************************************************************************)
(* The storagers                                                           *)
(***************************************************************************)
At(n, kw) == {x \in store[n] : x[1] = kw}
OnlyAt(node, kw) == \A n \in Nodes : At(n, kw) # {} => n = node

\* A segment is of its child.
SegmentsFit ==
    \A d \in DOMAIN task.segments : \A x \in task.segments[d] :
        IsPrefix(Segment(task.plan, d), AdsHash[x[1]])

\* A keyword not told apart moves with the child that the ring gives it.
Alike(plan, kw) ==
    \A d \in Moved(plan) :
        IsPrefix(Segment(plan, d), AdsHash[kw]) <=> IsPrefix(Segment(plan, d), RingHash[kw])

AlikeFits == task.pc # "idle" => \A kw \in Keywords \ apart : Alike(task.plan, kw)

AfterStates == {"clear", "take", "finish"} \cup ReplayStates

\* The source has everything until the import of the keyword's child d, the target has
\* it from then on and alone once the child is confirmed.
MovesWith(kw, d, source, target) ==
    /\ (task.pc \in {"prepare", "import"} /\ d \notin task.imported) => OnlyAt(source, kw)
    /\ (task.pc \in {"prepare", "import"} /\ d \in DOMAIN task.segments) =>
        {x \in task.segments[d] : x[1] = kw} = At(source, kw)
    /\ (task.pc = "import" /\ d \in task.imported /\ ~task.broken) =>
        At(source, kw) \subseteq At(target, kw)
    /\ task.pc = "confirm" => At(source, kw) \subseteq At(target, kw)
    /\ (task.pc = "confirm" /\ d \in task.confirmed) => OnlyAt(target, kw)
    /\ task.pc \in AfterStates => OnlyAt(target, kw)

TaskStore(kw) ==
    LET d == DigitOf(task.plan, kw)
    IN  MovesWith(kw, d, task.plan.source, task.plan.targets[d])

\* Nothing is anywhere but where the ring routes, and where it moves from.
Located(kw) ==
    \A n \in Nodes : At(n, kw) # {} =>
        \/ n = RingRoute(kw).node
        \/ \E plan \in Windows : Over(plan, kw) /\ n = plan.source
        \/ \E p \in ActiveMigrations(kw) : n = migrations[p].source

StoreFits(kw) ==
    /\ Located(kw)
    /\ \A plan \in Windows : Over(plan, kw) => OnlyAt(plan.source, kw)
    /\ \A plan \in queue : Over(plan, kw) => OnlyAt(plan.source, kw)
    /\ (task.pc # "idle" /\ Over(task.plan, kw)) => TaskStore(kw)

(***************************************************************************)
(* What is done is in the storagers                                        *)
(***************************************************************************)
Waits(kind, x) ==
    \/ \E i \in DOMAIN task.replay : Is(task.replay[i], kind, x)
    \/ \E p \in DOMAIN migrations :
        \E i \in DOMAIN migrations[p].pending : Is(migrations[p].pending[i], kind, x)

DoneFits ==
    /\ \A c \in Clients :
        (client[c].pc \in {"record", "schedule"} /\ client[c].op.kw \notin raced \cup apart) =>
            LET x == Posting(client[c].op) IN
            IF client[c].op.kind = "add" THEN Held(x) ELSE ~Held(x) \/ Waits("delete", x)
    /\ (task.pc = "replay_record" /\ Head(task.replay).kw \notin raced \cup apart) =>
        LET x == Posting(Head(task.replay)) IN
        IF Head(task.replay).kind = "add" THEN Held(x) ELSE ~Held(x)

KeptFits ==
    /\ \A x \in added : x[1] \notin raced \cup apart => Held(x) \/ Waits("add", x)
    /\ \A x \in deleted : x[1] \notin raced \cup apart => ~Held(x) \/ Waits("delete", x)

KeptInv ==
    /\ OpsFit /\ ListsFit /\ OrderFits /\ RoutePrefixes /\ ParentsFit /\ SegmentsFit /\ AlikeFits
    /\ \A kw \in Keywords \ raced : PlansFit(kw)
    /\ \A kw \in Keywords \ (raced \cup apart) : StoreFits(kw)
    /\ DoneFits /\ KeptFits

(***************************************************************************)
(* Clients                                                                 *)
(***************************************************************************)

\* Two operations of one kind on one posting are the same.
LEMMA SameOp ==
    ASSUME NEW op1 \in Ops, NEW op2 \in Ops, op1.kind = op2.kind, Posting(op1) = Posting(op2)
    PROVE  op1 = op2
  BY DEF Ops, Posting

\* An operation adds or deletes a posting of its keyword.
LEMMA OpTyped ==
    ASSUME NEW op \in Ops
    PROVE  /\ op.kind = "add" \/ op.kind = "delete"
           /\ op.kw \in Keywords /\ Posting(op) \in Postings /\ Posting(op)[1] = op.kw
  BY DEF Ops, Posting, Postings

\* What a step of a handler does to its own record: it goes on with its operation, or
\* ends and has answered.
Onward(c, x) ==
    /\ Busy(c) /\ client' = [client EXCEPT ![c] = x]
    /\ x.pc # "idle" => x.op = client[c].op /\ UNCHANGED <<added, deleted>>
    /\ x.pc = "schedule" => client[c].pc = "record"
    /\ x.pc = "idle" => Acknowledge(client[c].op) \/ UNCHANGED <<added, deleted>>
    /\ issued' = issued

\* Every handler step but the request is one.
LEMMA StepOnward ==
    ASSUME TypeInv, NEW c \in Clients, ClientStep(c)
    PROVE  \E x : Onward(c, x)
<1>0. client[c] \in ClientType
  BY DEF TypeInv
<1>1. CASE Route(c)
  <2>1. PICK r \in IF client[c].op.kind = "add" THEN {RouteKeyword(client[c].op.kw)}
                   ELSE QueryRoutes(client[c].op.kw) :
            client' = [client EXCEPT ![c] = [client[c] EXCEPT !.pc = "recheck", !.route = r]]
    BY <1>1 DEF Route
  <2> DEFINE x == [client[c] EXCEPT !.pc = "recheck", !.route = r]
  <2>2. x.pc = "recheck" /\ x.op = client[c].op
    BY <1>0 DEF ClientType
  <2>3. client' = [client EXCEPT ![c] = x]
    BY <2>1
  <2> HIDE DEF x
  <2>4. Onward(c, x)
    BY <1>1, <2>2, <2>3 DEF Route, Onward, Busy, ghosts
  <2> QED BY <2>4
<1>2. CASE Buffer(c)
  <2> DEFINE x == IF client[c].op.kind = "add" THEN IdleClient
                  ELSE [client[c] EXCEPT !.pc = "record", !.route = [prefix |-> <<>>, node |-> 0]]
  <2>1. client' = [client EXCEPT ![c] = x]
    BY <1>2 DEF Buffer
  <2>2. IF client[c].op.kind = "add" THEN x.pc = "idle" ELSE x.pc = "record" /\ x.op = client[c].op
    BY <1>0 DEF ClientType, IdleClient
  <2> HIDE DEF x
  <2>3. Onward(c, x)
    BY <1>2, <2>1, <2>2 DEF Buffer, Onward, Busy
  <2> QED BY <2>3
<1>3. CASE BufferRefused(c)
  <2>1. IdleClient.pc = "idle"
    BY DEF IdleClient
  <2>2. Onward(c, IdleClient)
    BY <1>3, <2>1 DEF BufferRefused, Onward, Busy
  <2> QED BY <2>2
<1>4. CASE StoragerRpc(c)
  <2> DEFINE x == [client[c] EXCEPT !.pc = "record"]
  <2>1. client' = [client EXCEPT ![c] = x]
    BY <1>4 DEF StoragerRpc
  <2>2. x.pc = "record" /\ x.op = client[c].op
    BY <1>0 DEF ClientType
  <2> HIDE DEF x
  <2>3. Onward(c, x)
    BY <1>4, <2>1, <2>2 DEF StoragerRpc, Onward, Busy
  <2> QED BY <2>3
<1>5. CASE Record(c)
  <2> DEFINE splits == SplitsOn(client[c].op, client[c].route.prefix)
             x == IF splits
                  THEN [client[c] EXCEPT !.pc = "schedule",
                                         !.plan = SplitPlan(client[c].route.prefix, entries)]
                  ELSE IdleClient
  <2>1. client' = [client EXCEPT ![c] = x]
    BY <1>5 DEF Record
  <2>2. IF splits THEN x.pc = "schedule" /\ x.op = client[c].op ELSE x.pc = "idle"
    BY <1>0 DEF ClientType, IdleClient
  <2> HIDE DEF x
  <2>3. Onward(c, x)
    BY <1>5, <2>1, <2>2 DEF Record, Onward, Busy
  <2> QED BY <2>3
<1>6. CASE Schedule(c)
  <2>1. IdleClient.pc = "idle"
    BY DEF IdleClient
  <2>2. Onward(c, IdleClient)
    BY <1>6, <2>1 DEF Schedule, Onward, Busy
  <2> QED BY <2>2
<1>7. CASE Recheck(c)
  <2> DEFINE pc == IF ActiveMigrations(client[c].op.kw) # {} THEN "buffer" ELSE "rpc"
             x == [client[c] EXCEPT !.pc = pc]
  <2>1. client' = [client EXCEPT ![c] = x]
    BY <1>7 DEF Recheck
  <2>2. x.pc \in {"buffer", "rpc"} /\ x.op = client[c].op
    BY <1>0 DEF ClientType
  <2> HIDE DEF x
  <2>3. Onward(c, x)
    BY <1>7, <2>1, <2>2 DEF Recheck, Onward, Busy, ghosts
  <2> QED BY <2>3
<1> QED BY <1>1, <1>2, <1>3, <1>4, <1>5, <1>6, <1>7 DEF ClientStep

\* What the other handlers have stays theirs.
LEMMA OnwardClients ==
    ASSUME client \in [Clients -> ClientType], NEW c \in Clients, NEW x, Onward(c, x)
    PROVE  /\ DOMAIN client' = Clients
           /\ client'[c] = x
           /\ \A b \in Clients \ {c} : client'[b] = client[b]
  BY DEF Onward

(***************************************************************************)
(* Operations keep their place                                             *)
(***************************************************************************)

\* The facts about operations, through a request.
LEMMA RequestKeepsOps ==
    ASSUME TypeInv, OpsFit, NEW c \in Clients, NEW o \in Ops, Request(c, o)
    PROVE  OpsFit'
<1>1. /\ client \in [Clients -> ClientType]
      /\ \A b \in Clients : Busy(b) => client[b].op \in Ops
      /\ issued \subseteq Ops /\ added \subseteq Postings
  BY DEF TypeInv, ClientFits, Busy, GhostsFit
<1>2. /\ client[c].pc = "idle" /\ o \notin issued /\ issued' = issued \cup {o}
      /\ deleted' = deleted
      /\ added' = IF o.kind = "delete" THEN added \ {Posting(o)} ELSE added
      /\ o.kind = "delete" => Posting(o) \in added
  BY DEF Request
<1>3. /\ client'[c].pc # "idle" /\ client'[c].op = o
      /\ \A b \in Clients \ {c} : client'[b] = client[b]
  <2> DEFINE pc == IF ActiveMigrations(o.kw) # {} THEN "buffer" ELSE "route"
  <2>1. client' = [client EXCEPT ![c].pc = pc, ![c].op = o]
    BY DEF Request
  <2>2. pc # "idle"
    OBVIOUS
  <2> HIDE DEF pc
  <2> QED BY <1>1, <2>1, <2>2 DEF ClientType
<1>4. \A kind, x : Has(issued, kind, x) => Has(issued', kind, x)
  BY <1>2 DEF Has
<1>5. \A kind, x : Has(issued', kind, x) => Has(issued, kind, x) \/ Is(o, kind, x)
  BY <1>2 DEF Has
<1>6. \A kind, x : Is(o, kind, x) => ~Has(issued, kind, x)
  BY <1>1, <1>2, SameOp DEF Has, Is
<1>7. \A b \in Clients : Busy(b)' => client'[b].op \in issued'
  BY <1>2, <1>3 DEF OpsFit, Busy
<1>8. \A a, b \in Clients : (a # b /\ Busy(a)' /\ Busy(b)') => client'[a].op # client'[b].op
  BY <1>2, <1>3 DEF OpsFit, Busy
<1>9. \A op \in issued' : op.kind = "delete" => Has(issued', "add", Posting(op))
  BY <1>2, <1>4 DEF OpsFit
<1>10. \A x \in added' : Has(issued', "add", x) /\ ~Has(issued', "delete", x)
  BY <1>2, <1>4, <1>5 DEF OpsFit, Is
<1>11. \A x \in deleted' : Has(issued', "delete", x)
  BY <1>2, <1>4 DEF OpsFit
<1>12. ASSUME NEW b \in Clients, Busy(b)', client'[b].op.kind = "add"
       PROVE  Posting(client'[b].op) \notin added' /\ ~Has(issued', "delete", Posting(client'[b].op))
  <2> DEFINE x == Posting(client'[b].op)
  <2>1. CASE b = c
    <3>1. Is(o, "add", x) /\ ~Is(o, "delete", x)
      BY <1>3, <1>12, <2>1 DEF Is
    <3>2. ~Has(issued, "add", x)
      BY <1>6, <3>1
    <3>3. ~Has(issued, "delete", x)
      BY <3>2 DEF OpsFit, Has, Is
    <3> QED BY <1>2, <1>5, <3>1, <3>2, <3>3 DEF OpsFit
  <2>2. CASE b # c
    <3>1. Busy(b) /\ client[b].op.kind = "add" /\ x = Posting(client[b].op)
      BY <1>3, <1>12, <2>2 DEF Busy
    <3>2. x \notin added /\ ~Has(issued, "delete", x)
      BY <3>1 DEF OpsFit
    <3> QED BY <1>2, <1>5, <3>2 DEF Is
  <2> QED BY <2>1, <2>2
<1>13. ASSUME NEW b \in Clients, Busy(b)', client'[b].op.kind = "delete"
       PROVE  Posting(client'[b].op) \notin deleted'
  <2> DEFINE x == Posting(client'[b].op)
  <2>1. CASE b = c
    <3>1. Is(o, "delete", x)
      BY <1>3, <1>13, <2>1 DEF Is
    <3> QED BY <1>2, <1>6, <3>1 DEF OpsFit
  <2>2. CASE b # c
    <3>1. Busy(b) /\ client[b].op.kind = "delete" /\ x = Posting(client[b].op)
      BY <1>3, <1>13, <2>2 DEF Busy
    <3> QED BY <1>2, <3>1 DEF OpsFit
  <2> QED BY <2>1, <2>2
<1> QED BY <1>7, <1>8, <1>9, <1>10, <1>11, <1>12, <1>13, Zenon DEF OpsFit

\* Through any other step of a handler.
LEMMA OnwardKeepsOps ==
    ASSUME TypeInv, OpsFit, NEW c \in Clients, NEW x, Onward(c, x)
    PROVE  OpsFit'
<1> DEFINE op == client[c].op
<1>1. /\ client \in [Clients -> ClientType]
      /\ \A b \in Clients : Busy(b) => client[b].op \in Ops
      /\ Busy(c) /\ op \in Ops /\ op \in issued
  BY DEF TypeInv, ClientFits, Busy, Onward, OpsFit
<1>2. /\ client'[c] = x /\ \A b \in Clients \ {c} : client'[b] = client[b]
  BY <1>1, OnwardClients
<1>3. issued' = issued
  BY DEF Onward
<1>4. \A b \in Clients : Busy(b)' => Busy(b) /\ client'[b].op = client[b].op
  BY <1>1, <1>2 DEF Onward, Busy
<1>5. \A y \in added' : y \in added \/ (op.kind = "add" /\ y = Posting(op) /\ ~Busy(c)')
  BY <1>2 DEF Onward, Acknowledge, Busy
<1>6. \A y \in deleted' : y \in deleted \/ (op.kind # "add" /\ y = Posting(op) /\ ~Busy(c)')
  BY <1>2 DEF Onward, Acknowledge, Busy
<1> HIDE DEF op
<1>7. \A b \in Clients : Busy(b)' => client'[b].op \in issued'
  BY <1>3, <1>4 DEF OpsFit
<1>8. \A a, b \in Clients : (a # b /\ Busy(a)' /\ Busy(b)') => client'[a].op # client'[b].op
  BY <1>4 DEF OpsFit
<1>9. \A o \in issued' : o.kind = "delete" => Has(issued', "add", Posting(o))
  BY <1>3 DEF OpsFit
<1>10. \A y \in added' : Has(issued', "add", y) /\ ~Has(issued', "delete", y)
  <2> SUFFICES ASSUME NEW y \in added', y \notin added
               PROVE  Has(issued, "add", y) /\ ~Has(issued, "delete", y)
    BY <1>3 DEF OpsFit
  <2>1. op.kind = "add" /\ y = Posting(op)
    BY <1>5
  <2> QED BY <1>1, <2>1 DEF OpsFit, Has, Is, op
<1>11. \A y \in deleted' : Has(issued', "delete", y)
  <2> SUFFICES ASSUME NEW y \in deleted', y \notin deleted
               PROVE  Has(issued, "delete", y)
    BY <1>3 DEF OpsFit
  <2>1. op.kind = "delete" /\ y = Posting(op)
    BY <1>1, <1>6, OpTyped
  <2> QED BY <1>1, <2>1 DEF Has, Is
<1>12. ASSUME NEW b \in Clients, Busy(b)', client'[b].op.kind = "add"
       PROVE  Posting(client'[b].op) \notin added' /\ ~Has(issued', "delete", Posting(client'[b].op))
  <2> DEFINE o == client[b].op
  <2>1. Busy(b) /\ o.kind = "add" /\ client'[b].op = o /\ o \in Ops
    BY <1>1, <1>4, <1>12
  <2>2. Posting(o) \notin added /\ ~Has(issued, "delete", Posting(o))
    BY <2>1 DEF OpsFit
  <2>3. ASSUME Posting(o) \in added' PROVE FALSE
    <3>1. op.kind = "add" /\ Posting(o) = Posting(op) /\ ~Busy(c)'
      BY <1>5, <2>2, <2>3
    <3>2. o = op /\ b # c
      BY <1>1, <1>12, <2>1, <3>1, SameOp
    <3> QED BY <1>1, <2>1, <3>2 DEF OpsFit, op
  <2> QED BY <1>3, <2>1, <2>2, <2>3
<1>13. ASSUME NEW b \in Clients, Busy(b)', client'[b].op.kind = "delete"
       PROVE  Posting(client'[b].op) \notin deleted'
  <2> DEFINE o == client[b].op
  <2>1. Busy(b) /\ o.kind = "delete" /\ client'[b].op = o /\ o \in Ops
    BY <1>1, <1>4, <1>13
  <2>2. Posting(o) \notin deleted
    BY <2>1 DEF OpsFit
  <2>3. ASSUME Posting(o) \in deleted' PROVE FALSE
    <3>1. op.kind = "delete" /\ Posting(o) = Posting(op) /\ ~Busy(c)'
      BY <1>1, <1>6, <2>2, <2>3, OpTyped
    <3>2. o = op /\ b # c
      BY <1>1, <1>13, <2>1, <3>1, SameOp
    <3> QED BY <1>1, <2>1, <3>2 DEF OpsFit, op
  <2> QED BY <2>1, <2>3
<1> QED BY <1>7, <1>8, <1>9, <1>10, <1>11, <1>12, <1>13, Zenon DEF OpsFit

\* And through any step at all.
LEMMA OpsKept ==
    ASSUME TypeInv, OpsFit, [Next]_vars
    PROVE  OpsFit'
<1>1. CASE UNCHANGED <<client, issued, added, deleted>>
  BY <1>1 DEF OpsFit, Busy
<1>2. ASSUME NEW c \in Clients, ClientStep(c) PROVE OpsFit'
  BY <1>2, StepOnward, OnwardKeepsOps
<1>3. ASSUME NEW c \in Clients, NEW o \in Ops, Request(c, o) PROVE OpsFit'
  BY <1>3, RequestKeepsOps
<1>4. CASE TaskStep
  <2>1. UNCHANGED <<client, issued, added, deleted>>
    BY <1>4 DEF TaskStep, TaskStart, Prepare, Import, Confirm, ClearOverrides, TakePending,
                ReplayRoute, ReplayRpc, ReplayRecord, Finish, ghosts
  <2> QED BY <1>1, <2>1
<1>5. CASE Failure
  <2>1. UNCHANGED <<client, issued, added, deleted>>
    BY <1>5 DEF Failure, TaskFails, ResetFails, ImportFails, ghosts
  <2> QED BY <1>1, <2>1
<1>6. CASE Reset
  <2>1. /\ client' = client /\ issued' = issued /\ added' = {} /\ deleted' = {}
        /\ \A c \in Clients : ~Busy(c)
    BY <1>6 DEF Reset, CanReset, Busy
  <2> QED BY <2>1 DEF OpsFit, Busy
<1>7. CASE UNCHANGED vars
  BY <1>1, <1>7 DEF vars, ghosts
<1> QED BY <1>2, <1>3, <1>4, <1>5, <1>6, <1>7 DEF Next

(***************************************************************************)
(* What the steps of the task make of it                                   *)
(***************************************************************************)
LEMMA IdleFields ==
    /\ IdleTask.pc = "idle" /\ IdleTask.replay = <<>> /\ IdleTask.segments = << >>
    /\ DOMAIN IdleTask.segments = {}
    /\ IdleTask.imported = {} /\ IdleTask.confirmed = {}
  BY DEF IdleTask

LEMMA StartTask ==
    ASSUME TypeInv, TaskStart
    PROVE  \E plan \in queue :
            /\ task.pc = "idle" /\ queue' = queue \ {plan} /\ plan \in Plans /\ Splittable(plan)
            /\ task'.plan = plan /\ task'.replay = <<>> /\ DOMAIN task'.segments = {}
            /\ task'.imported = {} /\ task'.confirmed = {}
            /\ task'.pc = IF Moved(plan) = {} THEN "clear" ELSE "prepare"
<1>1. PICK plan \in queue :
        /\ task.pc = "idle"
        /\ task' = [IdleTask EXCEPT !.pc = IF Moved(plan) = {} THEN "clear" ELSE "prepare",
                                    !.plan = plan]
        /\ queue' = queue \ {plan}
  BY DEF TaskStart
<1>2. plan \in Plans /\ Splittable(plan)
  BY DEF TypeInv
<1>3. IdleTask \in TaskType
  BY NoPlanTyped DEF TaskFits
<1>4. /\ task'.plan = plan /\ task'.replay = IdleTask.replay /\ task'.segments = IdleTask.segments
      /\ task'.imported = IdleTask.imported /\ task'.confirmed = IdleTask.confirmed
      /\ task'.pc = IF Moved(plan) = {} THEN "clear" ELSE "prepare"
  BY <1>1, <1>3 DEF TaskType
<1> QED BY <1>1, <1>2, <1>4, IdleFields

\* The task while it is at one of the loops over the moved children.
LEMMA LoopTask ==
    ASSUME TypeInv
    PROVE  /\ task \in TaskType /\ task.plan \in Plans
           /\ task.pc # "idle" => Splittable(task.plan)
           /\ task.pc \notin ReplayStates => task.replay = <<>>
           /\ Moved(task.plan) \subseteq Digits /\ task.plan.source \in Nodes
           /\ \A d \in Digits : task.plan.targets[d] \in Nodes
<1>1. TaskFits(task)
  BY DEF TypeInv
<1>2. task \in TaskType /\ task.plan \in Plans
  BY <1>1 DEF TaskFits, TaskType
<1>3. /\ task.pc # "idle" => Splittable(task.plan)
      /\ task.pc \notin ReplayStates => task.replay = <<>>
  BY <1>1 DEF TaskFits
<1> QED BY <1>2, <1>3, MovedTyped

LEMMA PrepareTask ==
    ASSUME TypeInv, Prepare
    PROVE  LET plan == task.plan
               d == Least(Moved(plan) \ DOMAIN task.segments)
           IN
           /\ task.pc = "prepare" /\ d \in Moved(plan) \ DOMAIN task.segments /\ d \in Digits
           /\ task'.pc = IF Moved(plan) = DOMAIN task.segments \cup {d} THEN "import" ELSE "prepare"
           /\ task'.plan = plan /\ task'.replay = <<>>
           /\ task.imported = {} /\ task'.imported = {} /\ task'.confirmed = {}
           /\ DOMAIN task'.segments = DOMAIN task.segments \cup {d}
           /\ \A e \in DOMAIN task'.segments :
                task'.segments[e] = IF e = d THEN Selected(store[plan.source], Segment(plan, d))
                                    ELSE task.segments[e]
           /\ store' = store
<1> DEFINE plan == task.plan
           d == Least(Moved(plan) \ DOMAIN task.segments)
           seg == Put(task.segments, d, Selected(store[plan.source], Segment(plan, d)))
<1>1. /\ task.pc = "prepare" /\ DOMAIN task.segments \subseteq Moved(plan)
      /\ DOMAIN task.segments # Moved(plan) /\ task.imported = {} /\ task.confirmed = {}
      /\ task.replay = <<>> /\ task \in TaskType /\ plan \in Plans
  BY LoopTask DEF Prepare, TypeInv, TaskFits, ReplayStates
<1>2. d \in Moved(plan) \ DOMAIN task.segments /\ d \in Digits
  <2>1. Moved(plan) \ DOMAIN task.segments \subseteq Digits
    BY LoopTask
  <2>2. Moved(plan) \ DOMAIN task.segments # {}
    BY <1>1
  <2> QED BY <2>1, <2>2, LeastIn
<1>3. /\ task' = [task EXCEPT !.segments = seg,
                              !.pc = IF Moved(plan) = DOMAIN task.segments \cup {d}
                                     THEN "import" ELSE "prepare"]
      /\ store' = store
  <2>1. plan.source \in Nodes /\ store \in [Nodes -> SUBSET Postings]
    BY LoopTask DEF TypeInv
  <2> QED BY <2>1 DEF Prepare, AfterPrepare
<1> HIDE DEF d
<1>4. /\ DOMAIN seg = DOMAIN task.segments \cup {d}
      /\ \A e \in DOMAIN seg : seg[e] = IF e = d THEN Selected(store[plan.source], Segment(plan, d))
                                        ELSE task.segments[e]
  BY DEF Put
<1> HIDE DEF seg
<1>5. /\ task'.plan = plan /\ task'.segments = seg /\ task'.replay = <<>>
      /\ task'.imported = {} /\ task'.confirmed = {}
      /\ task'.pc = IF Moved(plan) = DOMAIN task.segments \cup {d} THEN "import" ELSE "prepare"
  BY <1>1, <1>3 DEF TaskType
<1> QED BY <1>1, <1>2, <1>3, <1>4, <1>5 DEF d

LEMMA ImportTask ==
    ASSUME TypeInv, NEW d \in Digits, Import(d) \/ ImportFails(d)
    PROVE  LET plan == task.plan IN
           /\ task.pc = "import" /\ d \in Moved(plan) \ task.imported
           /\ DOMAIN task.segments = Moved(plan)
           /\ \/ task' = IdleTask
              \/ /\ task'.pc = IF task'.imported = Moved(plan) THEN "confirm" ELSE "import"
                 /\ task'.plan = plan /\ task'.replay = <<>> /\ task'.segments = task.segments
                 /\ task'.imported = task.imported \cup {d} /\ task'.confirmed = {}
                 /\ ImportFails(d) => task'.broken
                 /\ ~task'.broken => ~task.broken
                 /\ task'.pc = "confirm" => ~task'.broken
<1> DEFINE plan == task.plan
<1>1. /\ task.pc = "import" /\ d \in Moved(plan) \ task.imported
      /\ DOMAIN task.segments = Moved(plan) /\ task.confirmed = {}
      /\ task.replay = <<>> /\ task \in TaskType
  BY LoopTask DEF Import, ImportFails, TypeInv, TaskFits, ReplayStates
<1>2. ASSUME NEW fails \in BOOLEAN, ImportEnds(d, fails), task' # IdleTask
      PROVE  /\ task'.pc = IF task'.imported = Moved(plan) THEN "confirm" ELSE "import"
             /\ task'.plan = plan /\ task'.replay = <<>> /\ task'.segments = task.segments
             /\ task'.imported = task.imported \cup {d} /\ task'.confirmed = {}
             /\ task'.broken = (task.broken \/ fails)
             /\ task'.pc = "confirm" => ~task'.broken
  <2> DEFINE broken == task.broken \/ fails
             all == task.imported \cup {d} = DOMAIN task.segments
  <2>1. ~(all /\ broken)
        /\ task' = [task EXCEPT !.imported = task.imported \cup {d}, !.broken = broken,
                                !.pc = IF all THEN "confirm" ELSE "import"]
    BY <1>2, Zenon DEF ImportEnds
  <2>2. broken \in BOOLEAN
    BY <1>1 DEF TaskType
  <2> HIDE DEF broken
  <2>3. /\ task'.plan = plan /\ task'.replay = <<>> /\ task'.segments = task.segments
        /\ task'.imported = task.imported \cup {d} /\ task'.confirmed = {}
        /\ task'.broken = broken
        /\ task'.pc = IF all THEN "confirm" ELSE "import"
    BY <1>1, <2>1 DEF TaskType
  <2> QED BY <1>1, <2>1, <2>3 DEF broken
<1>3. CASE Import(d)
  <2>1. (ImportEnds(d, FALSE) /\ ~ImportFails(d)) \/ task' = IdleTask \/ ImportEnds(d, TRUE)
    BY <1>3 DEF Import, ImportFails
  <2>2. CASE ImportEnds(d, TRUE)
    BY <1>1, <1>2, <2>2
  <2>3. CASE ImportEnds(d, FALSE) /\ ~ImportFails(d)
    BY <1>1, <1>2, <2>3
  <2> QED BY <1>1, <2>1, <2>2, <2>3
<1>4. CASE ImportFails(d)
  <2>1. ImportEnds(d, TRUE)
    BY <1>4 DEF ImportFails
  <2> QED BY <1>1, <1>2, <2>1
<1> QED BY <1>3, <1>4

LEMMA ConfirmTask ==
    ASSUME TypeInv, Confirm
    PROVE  LET plan == task.plan
               d == Least(Moved(plan) \ task.confirmed)
           IN
           /\ task.pc = "confirm" /\ d \in Moved(plan) \ task.confirmed /\ d \in Digits
           /\ task'.plan = plan /\ task'.replay = <<>> /\ task'.segments = task.segments
           /\ task'.confirmed = task.confirmed \cup {d}
           /\ task'.pc = IF Moved(plan) = task'.confirmed THEN "clear" ELSE "confirm"
           /\ store' = [store EXCEPT ![plan.source] = AfterConfirm(@, Segment(plan, d))]
           /\ emptied' = emptied \cup {Segment(plan, d)}
<1> DEFINE plan == task.plan
           d == Least(Moved(plan) \ task.confirmed)
<1>1. /\ task.pc = "confirm" /\ task.confirmed \subseteq Moved(plan)
      /\ task.confirmed # Moved(plan) /\ task.replay = <<>> /\ task \in TaskType
  BY LoopTask DEF Confirm, TypeInv, TaskFits, ReplayStates
<1>2. d \in Moved(plan) \ task.confirmed /\ d \in Digits
  <2>1. Moved(plan) \ task.confirmed \subseteq Digits
    BY LoopTask
  <2>2. Moved(plan) \ task.confirmed # {}
    BY <1>1
  <2> QED BY <2>1, <2>2, LeastIn
<1>3. /\ task' = [task EXCEPT !.confirmed = task.confirmed \cup {d},
                              !.pc = IF Moved(plan) = task.confirmed \cup {d}
                                     THEN "clear" ELSE "confirm"]
      /\ store' = [store EXCEPT ![plan.source] = AfterConfirm(@, Segment(plan, d))]
      /\ emptied' = emptied \cup {Segment(plan, d)}
  BY DEF Confirm
<1> HIDE DEF d
<1>4. /\ task'.plan = plan /\ task'.replay = <<>> /\ task'.segments = task.segments
      /\ task'.confirmed = task.confirmed \cup {d}
      /\ task'.pc = IF Moved(plan) = task.confirmed \cup {d} THEN "clear" ELSE "confirm"
  BY <1>1, <1>3 DEF TaskType
<1> QED BY <1>1, <1>2, <1>3, <1>4 DEF d

LEMMA ReplayTask ==
    ASSUME TypeInv
    PROVE  /\ ClearOverrides =>
                task.pc = "clear" /\ task'.pc = "take" /\ task'.plan = task.plan
                /\ task'.replay = <<>> /\ task'.segments = task.segments
           /\ (TakePending /\ task.plan.parent \in DOMAIN migrations) =>
                /\ task.pc = "take" /\ task'.plan = task.plan /\ task'.segments = task.segments
                /\ task'.replay = migrations[task.plan.parent].pending
                /\ task'.pc = ReplayOrFinish(task'.replay)
           /\ ReplayRoute =>
                /\ task.pc = "replay" /\ task'.pc = "replay_rpc" /\ task'.plan = task.plan
                /\ task'.replay = task.replay /\ task'.segments = task.segments
                /\ task'.route = RouteKeyword(Head(task.replay).kw)
           /\ ReplayRpc =>
                /\ task.pc = "replay_rpc" /\ task'.pc = "replay_record" /\ task'.plan = task.plan
                /\ task'.replay = task.replay /\ task'.segments = task.segments
                /\ task'.route = task.route
           /\ ReplayRecord =>
                /\ task.pc = "replay_record" /\ task'.plan = task.plan
                /\ task'.replay = Tail(task.replay) /\ task'.segments = task.segments
                /\ task'.pc = ReplayOrFinish(task'.replay)
<1>1. task \in TaskType /\ (task.pc \notin ReplayStates => task.replay = <<>>)
  BY LoopTask
<1>2. ClearOverrides =>
        task.pc = "clear" /\ task'.pc = "take" /\ task'.plan = task.plan
        /\ task'.replay = <<>> /\ task'.segments = task.segments
  BY <1>1 DEF ClearOverrides, TaskType, ReplayStates
<1>3. (TakePending /\ task.plan.parent \in DOMAIN migrations) =>
        /\ task.pc = "take" /\ task'.plan = task.plan /\ task'.segments = task.segments
        /\ task'.replay = migrations[task.plan.parent].pending
        /\ task'.pc = ReplayOrFinish(task'.replay)
  <2> DEFINE pending == migrations[task.plan.parent].pending
             pc == ReplayOrFinish(pending)
  <2>1. SUFFICES ASSUME TakePending, task.plan.parent \in DOMAIN migrations
                 PROVE  /\ task.pc = "take" /\ task'.plan = task.plan
                        /\ task'.segments = task.segments
                        /\ task'.replay = pending /\ task'.pc = pc
    OBVIOUS
  <2>2. task.pc = "take" /\ task' = [task EXCEPT !.replay = pending, !.pc = pc]
    BY <2>1 DEF TakePending
  <2> HIDE DEF pending, pc
  <2> QED BY <1>1, <2>2 DEF TaskType
<1>4. ReplayRoute =>
        /\ task.pc = "replay" /\ task'.pc = "replay_rpc" /\ task'.plan = task.plan
        /\ task'.replay = task.replay /\ task'.segments = task.segments
        /\ task'.route = RouteKeyword(Head(task.replay).kw)
  BY <1>1 DEF ReplayRoute, TaskType
<1>5. ReplayRpc =>
        /\ task.pc = "replay_rpc" /\ task'.pc = "replay_record" /\ task'.plan = task.plan
        /\ task'.replay = task.replay /\ task'.segments = task.segments
        /\ task'.route = task.route
  BY <1>1 DEF ReplayRpc, TaskType
<1>6. ReplayRecord =>
        /\ task.pc = "replay_record" /\ task'.plan = task.plan
        /\ task'.replay = Tail(task.replay) /\ task'.segments = task.segments
        /\ task'.pc = ReplayOrFinish(task'.replay)
  BY <1>1 DEF ReplayRecord, TaskType
<1> QED BY <1>2, <1>3, <1>4, <1>5, <1>6

(***************************************************************************)
(* What the steps make of the migrations                                   *)
(***************************************************************************)

\* What waits is an operation.
LEMMA ListTyped ==
    ASSUME TypeInv
    PROVE  /\ task.replay \in Seq(Ops) /\ \A i \in DOMAIN task.replay : task.replay[i] \in Ops
           /\ \A p \in DOMAIN migrations :
                /\ MigrationFits(migrations[p])
                /\ migrations[p].pending \in Seq(Ops)
                /\ \A i \in DOMAIN migrations[p].pending : migrations[p].pending[i] \in Ops
<1>1. task.replay \in Seq(Ops)
  BY LoopTask DEF TaskType
<1>2. \A p \in DOMAIN migrations : MigrationFits(migrations[p]) /\ migrations[p].pending \in Seq(Ops)
  BY DEF TypeInv, MigrationsFit, MigrationFits
<1>3. \A s \in Seq(Ops) : \A i \in DOMAIN s : s[i] \in Ops
  BY ElementOfSeq, LenProperties
<1> QED BY <1>1, <1>2, <1>3

\* A handler in a state other than idle and what it has.
LEMMA BusyTyped ==
    ASSUME TypeInv, NEW c \in Clients, Busy(c)
    PROVE  /\ client[c] \in ClientType /\ client[c].op \in Ops
           /\ client[c].op.kw \in Keywords /\ Posting(client[c].op) \in Postings
           /\ client[c].op.kind = "add" \/ client[c].op.kind = "delete"
           /\ client[c].pc \in RoutedStates => client[c].route \in Routes
           /\ client[c].pc = "schedule" => client[c].op.kind = "add" /\ Splittable(client[c].plan)
<1>1. ClientFits(client[c])
  BY DEF TypeInv
<1>2. client[c].op \in Ops
  BY <1>1 DEF ClientFits, Busy
<1> QED BY <1>1, <1>2, OpTyped DEF ClientFits, RoutedStates

LEMMA BufferEffect ==
    ASSUME TypeInv, NEW c \in Clients, Buffer(c)
    PROVE  LET op == client[c].op IN
           \E p \in ActiveMigrations(op.kw) :
            /\ p \in DOMAIN migrations /\ DOMAIN migrations' = DOMAIN migrations
            /\ migrations'[p].pending = Append(migrations[p].pending, op)
            /\ migrations'[p].source = migrations[p].source
            /\ migrations'[p].confirmed = migrations[p].confirmed
            /\ \A q \in DOMAIN migrations \ {p} : migrations'[q] = migrations[q]
            /\ raced' = IF Taken(p) THEN raced \cup {op.kw} ELSE raced
<1> DEFINE op == client[c].op
<1>1. PICK p \in ActiveMigrations(op.kw) :
        /\ migrations' = [migrations EXCEPT ![p].pending = Append(@, op)]
        /\ raced' = IF Taken(p) THEN raced \cup {op.kw} ELSE raced
  BY DEF Buffer
<1>2. p \in DOMAIN migrations /\ MigrationFits(migrations[p])
  BY ListTyped DEF ActiveMigrations
<1> DEFINE pending == Append(migrations[p].pending, op)
           m == [migrations[p] EXCEPT !.pending = pending]
<1>3. /\ DOMAIN migrations' = DOMAIN migrations /\ migrations'[p] = m
      /\ \A q \in DOMAIN migrations \ {p} : migrations'[q] = migrations[q]
  BY <1>1, <1>2
<1> HIDE DEF pending
<1>4. m.pending = pending /\ m.source = migrations[p].source
      /\ m.confirmed = migrations[p].confirmed
  BY <1>2 DEF MigrationFits
<1> QED BY <1>1, <1>2, <1>3, <1>4 DEF pending

LEMMA ScheduleEffect ==
    ASSUME TypeInv, NEW c \in Clients, Schedule(c)
    PROVE  LET plan == client[c].plan IN
           \/ /\ migrations' = migrations /\ queue' = queue
              /\ plan.parent \in DOMAIN migrations
           \/ /\ DOMAIN migrations' = DOMAIN migrations \cup {plan.parent}
              /\ migrations'[plan.parent].pending = <<>>
              /\ migrations'[plan.parent].source = plan.source
              /\ ~migrations'[plan.parent].confirmed
              /\ \A q \in DOMAIN migrations \ {plan.parent} : migrations'[q] = migrations[q]
              /\ queue' = queue \cup {plan}
<1> DEFINE plan == client[c].plan
           pending == plan.parent \in DOMAIN migrations /\ ~migrations[plan.parent].confirmed
<1>1. IF pending THEN migrations' = migrations /\ queue' = queue
      ELSE migrations' = Put(migrations, plan.parent, NewMigration(plan)) /\ queue' = Queued(plan)
  BY DEF Schedule
<1>2. CASE pending
  BY <1>1, <1>2
<1>3. CASE ~pending
  <2> DEFINE p == plan.parent
             m == NewMigration(plan)
  <2>1. m.source = plan.source /\ ~m.confirmed /\ m.pending = <<>>
    BY DEF NewMigration
  <2>2. migrations' = Put(migrations, p, m) /\ queue' = queue \cup {plan}
    BY <1>1, <1>3 DEF Queued
  <2> HIDE DEF m, p
  <2>3. /\ DOMAIN migrations' = DOMAIN migrations \cup {p} /\ migrations'[p] = m
        /\ \A q \in DOMAIN migrations \ {p} : migrations'[q] = migrations[q]
    BY <2>2 DEF Put
  <2> QED BY <2>1, <2>2, <2>3 DEF p
<1> QED BY <1>2, <1>3

LEMMA TakeEffect ==
    ASSUME TypeInv, TakePending, task.plan.parent \in DOMAIN migrations
    PROVE  LET p == task.plan.parent IN
           /\ DOMAIN migrations' = DOMAIN migrations
           /\ migrations'[p].pending = <<>>
           /\ migrations'[p].source = migrations[p].source
           /\ migrations'[p].confirmed = migrations[p].confirmed
           /\ \A q \in DOMAIN migrations \ {p} : migrations'[q] = migrations[q]
<1> DEFINE p == task.plan.parent
           e == << >>
           m == [migrations[p] EXCEPT !.pending = e]
<1>1. migrations' = [migrations EXCEPT ![p].pending = e]
  BY DEF TakePending
<1>2. MigrationFits(migrations[p])
  BY ListTyped
<1>3. /\ DOMAIN migrations' = DOMAIN migrations /\ migrations'[p] = m
      /\ \A q \in DOMAIN migrations \ {p} : migrations'[q] = migrations[q]
  BY <1>1
<1> HIDE DEF e
<1>4. m.pending = e /\ m.source = migrations[p].source
      /\ m.confirmed = migrations[p].confirmed
  BY <1>2 DEF MigrationFits
<1> QED BY <1>3, <1>4 DEF e

LEMMA FinishEffect ==
    ASSUME TypeInv, Finish
    PROVE  LET p == task.plan.parent IN
           /\ task.pc = "finish" /\ task.replay = <<>> /\ task' = IdleTask
           /\ DOMAIN migrations' = DOMAIN migrations
           /\ p \in DOMAIN migrations => migrations'[p].confirmed
           /\ \A q \in DOMAIN migrations :
                /\ migrations'[q].pending = migrations[q].pending
                /\ migrations'[q].source = migrations[q].source
                /\ q # p => migrations'[q] = migrations[q]
<1> DEFINE p == task.plan.parent
           m == [migrations[p] EXCEPT !.confirmed = TRUE]
<1>1. task.pc = "finish" /\ task.replay = <<>> /\ task' = IdleTask
  BY LoopTask DEF Finish, ReplayStates
<1>2. CASE p \notin DOMAIN migrations
  BY <1>1, <1>2 DEF Finish
<1>3. CASE p \in DOMAIN migrations
  <2>1. migrations' = [migrations EXCEPT ![p].confirmed = TRUE]
    BY <1>3 DEF Finish
  <2>2. MigrationFits(migrations[p])
    BY <1>3, ListTyped
  <2>3. /\ DOMAIN migrations' = DOMAIN migrations /\ migrations'[p] = m
        /\ \A q \in DOMAIN migrations \ {p} : migrations'[q] = migrations[q]
    BY <1>3, <2>1
  <2>4. m.confirmed /\ m.pending = migrations[p].pending /\ m.source = migrations[p].source
    BY <2>2 DEF MigrationFits
  <2> HIDE DEF m
  <2> QED BY <1>1, <1>3, <2>3, <2>4
<1> QED BY <1>2, <1>3

(***************************************************************************)
(* What waits stays where it waits                                         *)
(***************************************************************************)

\* Of one length there is one prefix of a hash.
LEMMA SameParent ==
    ASSUME NEW kw \in Keywords, NEW p \in Prefixes, NEW q \in Prefixes,
           IsPrefix(p, RingHash[kw]), IsPrefix(q, RingHash[kw]), Len(p) = Len(q)
    PROVE  p = q
  BY PrefixesOfOneHash, SamePrefix

\* A keyword moves from one parent.
LEMMA OneActive ==
    ASSUME TypeInv, NEW kw \in Keywords, PlansFit(kw),
           NEW p \in ActiveMigrations(kw), NEW q \in ActiveMigrations(kw)
    PROVE  p = q
<1>1. p \in Prefixes /\ q \in Prefixes /\ Len(p) \in Nat /\ Len(q) \in Nat
  BY PrefixIsSeq, LenProperties DEF ActiveMigrations, TypeInv, MigrationsFit
<1>2. IsPrefix(p, RingHash[kw]) /\ IsPrefix(q, RingHash[kw])
  BY DEF ActiveMigrations
<1>3. Len(p) = Len(q)
  BY <1>1 DEF PlansFit
<1> QED BY <1>1, <1>2, <1>3, SameParent

\* What waits for a keyword waits with the parent it moves from, either in the list of
\* its state or taken for replay.
LEMMA WaitsActive ==
    ASSUME TypeInv, ListsFit, NEW kw \in Keywords, kw \notin raced, PlansFit(kw)
    PROVE  /\ \A p \in DOMAIN migrations : \A i \in DOMAIN migrations[p].pending :
                migrations[p].pending[i].kw = kw => p \in ActiveMigrations(kw) /\ ~Taken(p)
           /\ \A i \in DOMAIN task.replay : task.replay[i].kw = kw =>
                /\ task.pc \in ReplayStates /\ Over(task.plan, kw)
                /\ task.plan.parent \in ActiveMigrations(kw)
                /\ Taken(task.plan.parent)
<1>1. ASSUME NEW p \in DOMAIN migrations, NEW i \in DOMAIN migrations[p].pending,
             migrations[p].pending[i].kw = kw
      PROVE  p \in ActiveMigrations(kw) /\ ~Taken(p)
  BY <1>1 DEF ListsFit, ListFits, ActiveMigrations
<1>2. ASSUME NEW i \in DOMAIN task.replay, task.replay[i].kw = kw
      PROVE  /\ task.pc \in ReplayStates /\ Over(task.plan, kw)
             /\ task.plan.parent \in ActiveMigrations(kw)
             /\ Taken(task.plan.parent)
  <2>1. task.replay # <<>>
    BY <1>2
  <2>2. task.pc \in ReplayStates
    BY <2>1, LoopTask
  <2>3. Over(task.plan, kw)
    BY <1>2 DEF ListsFit, ListFits, Over
  <2> QED BY <2>2, <2>3 DEF PlansFit, PlanAttached, Taken, ReplayStates
<1> QED BY <1>1, <1>2

\* A step that leaves the lists alone, but may drop what was taken for replay.
QuietLists ==
    /\ migrations' = migrations
    /\ \/ task'.replay = task.replay /\ (task.replay = <<>> \/ task'.plan = task.plan)
       \/ task'.replay = <<>> /\ \A i \in DOMAIN task.replay : task.replay[i].kw \in raced'
    /\ \A p : Taken(p)' => Taken(p)
    /\ raced \subseteq raced' /\ issued \subseteq issued'

\* The steps that do more are the buffering, the start of a migration, the task's steps
\* over its list, its end, and the reset.
LEMMA QuietSteps ==
    ASSUME TypeInv, [Next]_vars
    PROVE  \/ QuietLists /\ UNCHANGED <<client, issued>>
           \/ \E c \in Clients :
                \/ QuietLists /\ \/ Route(c) \/ Recheck(c) \/ BufferRefused(c)
                                 \/ StoragerRpc(c) \/ Record(c) \/ \E o \in Ops : Request(c, o)
                \/ Buffer(c) \/ Schedule(c)
           \/ TakePending /\ task.plan.parent \in DOMAIN migrations
           \/ ReplayRecord \/ Finish \/ Reset
<1> USE DEF QuietLists
<1>0. task \in TaskType /\ (task.pc \notin ReplayStates => task.replay = <<>>)
  BY LoopTask
<1>1. ASSUME NEW c \in Clients,
             \/ Route(c) \/ Recheck(c) \/ BufferRefused(c) \/ StoragerRpc(c) \/ Record(c)
             \/ \E o \in Ops : Request(c, o)
      PROVE  QuietLists
  <2>1. migrations' = migrations /\ task' = task /\ raced \subseteq raced' /\ issued \subseteq issued'
    BY <1>1 DEF Route, Recheck, BufferRefused, StoragerRpc, Record, Request, ghosts
  <2> QED BY <2>1 DEF Taken
<1> DEFINE Stay == UNCHANGED <<client, issued>>
<1>2. CASE TaskStart
  <2>1. migrations' = migrations /\ raced' = raced /\ Stay
    BY <1>2 DEF TaskStart, ghosts
  <2> QED BY <1>0, <1>2, <2>1, StartTask DEF Taken, ReplayStates
<1>3. CASE Prepare
  <2>1. migrations' = migrations /\ raced' = raced /\ Stay
    BY <1>3 DEF Prepare, ghosts
  <2>2. task.pc = "prepare" /\ task'.replay = <<>> /\ task'.pc \in {"prepare", "import"}
    BY <1>3, PrepareTask
  <2> QED BY <1>0, <2>1, <2>2 DEF Taken, ReplayStates
<1>4. ASSUME NEW d \in Digits, Import(d) \/ ImportFails(d) PROVE QuietLists /\ Stay
  <2>1. migrations' = migrations /\ raced' = raced /\ Stay
    BY <1>4 DEF Import, ImportFails, ghosts
  <2>2. task.pc = "import" /\ task'.replay = <<>> /\ task'.pc \in {"idle", "import", "confirm"}
    BY <1>4, ImportTask, IdleFields
  <2> QED BY <1>0, <2>1, <2>2 DEF Taken, ReplayStates
<1>5. CASE Confirm
  <2>1. migrations' = migrations /\ raced' = raced /\ Stay
    BY <1>5 DEF Confirm, ghosts
  <2>2. task.pc = "confirm" /\ task'.replay = <<>> /\ task'.pc \in {"confirm", "clear"}
    BY <1>5, ConfirmTask
  <2> QED BY <1>0, <2>1, <2>2 DEF Taken, ReplayStates
<1>6. CASE ClearOverrides \/ ReplayRoute \/ ReplayRpc
  <2>1. migrations' = migrations /\ raced \subseteq raced' /\ Stay
    BY <1>6 DEF ClearOverrides, ReplayRoute, ReplayRpc, ghosts
  <2>2. /\ task'.plan = task.plan /\ task'.pc \in {"take", "replay_rpc", "replay_record"}
        /\ task'.replay = task.replay
        /\ task'.pc # "take" => task.pc \in ReplayStates
    BY <1>0, <1>6, ReplayTask DEF ReplayStates
  <2> QED BY <2>1, <2>2 DEF Taken, ReplayStates
<1>7. CASE TakePending /\ task.plan.parent \notin DOMAIN migrations
  <2>1. migrations' = migrations /\ raced' = raced /\ Stay /\ task' = IdleTask
        /\ task.pc = "take"
    BY <1>7 DEF TakePending, ghosts
  <2> QED BY <1>0, <2>1, IdleFields DEF Taken, ReplayStates
<1>8. CASE TaskFails
  <2>1. migrations' = migrations /\ Stay /\ task' = IdleTask
        /\ raced' = raced \cup {task.replay[i].kw : i \in DOMAIN task.replay}
    BY <1>8 DEF TaskFails
  <2> QED BY <2>1, IdleFields DEF Taken
<1>9. CASE ResetFails
  <2>1. migrations' = migrations /\ Stay /\ task' = task
    BY <1>9 DEF ResetFails
  <2>2. raced \subseteq Keywords
    BY DEF TypeInv, GhostsFit
  <2>3. raced \subseteq raced'
    BY <1>9, <2>2 DEF ResetFails
  <2> QED BY <2>1, <2>3 DEF Taken
<1>10. CASE UNCHANGED vars
  BY <1>10 DEF vars, ghosts, Taken
<1> QED BY <1>1, <1>2, <1>3, <1>4, <1>5, <1>6, <1>7, <1>8, <1>9, <1>10
        DEF Next, ClientStep, TaskStep, Failure

\* A keyword that was overtaken stays so, until a reset.
LEMMA RacedGrows ==
    ASSUME TypeInv, [Next]_vars
    PROVE  raced \subseteq raced' \/ Reset
<1>1. \A c \in Clients : Buffer(c) \/ Schedule(c) => raced \subseteq raced'
  BY DEF Buffer, Schedule
<1>2. TakePending \/ ReplayRecord \/ Finish => raced \subseteq raced'
  BY DEF TakePending, ReplayRecord, Finish, ghosts
<1> QED BY <1>1, <1>2, QuietSteps DEF QuietLists

\* A list without its first operation.
LEMMA TailOf ==
    ASSUME NEW s \in Seq(Ops), s # <<>>
    PROVE  /\ Head(s) \in Ops /\ Head(s) = s[1] /\ 1 \in DOMAIN s
           /\ Tail(s) \in Seq(Ops)
           /\ \A i \in DOMAIN Tail(s) : i \in Nat /\ i + 1 \in DOMAIN s /\ Tail(s)[i] = s[i + 1]
           /\ \A i \in DOMAIN s : i # 1 => i - 1 \in DOMAIN Tail(s) /\ Tail(s)[i - 1] = s[i]
<1>1. /\ Head(s) \in Ops /\ Tail(s) \in Seq(Ops) /\ Len(Tail(s)) = Len(s) - 1
      /\ \A i \in 1 .. Len(Tail(s)) : Tail(s)[i] = s[i + 1]
  BY HeadTailProperties
<1>2. Len(s) \in Nat /\ Len(s) # 0 /\ DOMAIN s = 1 .. Len(s)
  BY LenProperties, EmptySeq
<1>3. DOMAIN Tail(s) = 1 .. Len(s) - 1
  BY <1>1, LenProperties
<1>4. Head(s) = s[1]
  OBVIOUS
<1> QED BY <1>1, <1>2, <1>3, <1>4

\* The operation that is replayed, and what is left then.
LEMMA Replayed ==
    ASSUME TypeInv, task.pc \in {"replay_rpc", "replay_record"}
    PROVE  LET op == Head(task.replay) IN
           /\ task.replay # <<>> /\ op \in Ops /\ op = task.replay[1] /\ 1 \in DOMAIN task.replay
           /\ op.kw \in Keywords /\ Posting(op) \in Postings /\ Posting(op)[1] = op.kw
           /\ op.kind = "add" \/ op.kind = "delete"
           /\ task.route \in Routes /\ task.route.node \in Nodes /\ task.route.prefix \in Prefixes
<1>1. task.replay # <<>> /\ task.route \in Routes
  BY DEF TypeInv, TaskFits, ReplayStates
<1>2. task.replay \in Seq(Ops)
  BY ListTyped
<1>3. Head(task.replay) \in Ops /\ Head(task.replay) = task.replay[1] /\ 1 \in DOMAIN task.replay
  BY <1>1, <1>2, TailOf
<1> QED BY <1>1, <1>3, OpTyped DEF Routes

\* Every step keeps the lists as they should be.
LEMMA ListsKept ==
    ASSUME TypeInv, OpsFit, ListsFit, [Next]_vars
    PROVE  ListsFit'
<1>1. CASE QuietLists
  <2>1. ListFits(task.replay, task.plan.parent)'
    BY <1>1 DEF QuietLists, ListsFit, ListFits
  <2>2. ASSUME NEW p \in DOMAIN migrations'
        PROVE  /\ ListFits(migrations[p].pending, p)'
               /\ \A i \in DOMAIN migrations'[p].pending :
                    migrations'[p].pending[i].kw \notin raced' => ~migrations'[p].confirmed /\ ~Taken(p)'
    BY <1>1 DEF QuietLists, ListsFit, ListFits
  <2> QED BY <2>1, <2>2 DEF ListsFit
<1>2. ASSUME NEW c \in Clients, Buffer(c) PROVE ListsFit'
  <2> DEFINE op == client[c].op
  <2>0. Busy(c) /\ task' = task /\ issued' = issued
    BY <1>2 DEF Buffer, Busy
  <2>1. op \in issued /\ op \in Ops /\ op.kw \in Keywords
    BY <2>0, BusyTyped DEF OpsFit
  <2>2. PICK p \in ActiveMigrations(op.kw) :
            /\ p \in DOMAIN migrations /\ DOMAIN migrations' = DOMAIN migrations
            /\ migrations'[p].pending = Append(migrations[p].pending, op)
            /\ migrations'[p].source = migrations[p].source
            /\ migrations'[p].confirmed = migrations[p].confirmed
            /\ \A q \in DOMAIN migrations \ {p} : migrations'[q] = migrations[q]
            /\ raced' = IF Taken(p) THEN raced \cup {op.kw} ELSE raced
    BY <1>2, BufferEffect
  <2>3. ~migrations[p].confirmed /\ IsPrefix(p, RingHash[op.kw])
    BY DEF ActiveMigrations
  <2>4. raced \subseteq raced' /\ (Taken(p) => op.kw \in raced')
    BY <2>2
  <2>5. \A q : Taken(q)' <=> Taken(q)
    BY <2>0 DEF Taken
  <2> HIDE DEF op
  <2>6. ListFits(task.replay, task.plan.parent)'
    BY <2>0 DEF ListsFit, ListFits
  <2>7. \A i \in DOMAIN migrations'[p].pending :
            migrations'[p].pending[i] = op \/ (i \in DOMAIN migrations[p].pending
                                               /\ migrations'[p].pending[i] = migrations[p].pending[i])
    <3>1. migrations[p].pending \in Seq(Ops)
      BY <2>2, ListTyped
    <3>2. Append(migrations[p].pending, op) \in Seq(Ops)
          /\ Len(Append(migrations[p].pending, op)) = Len(migrations[p].pending) + 1
      BY <2>1, <3>1, AppendProperties
    <3> QED BY <2>1, <2>2, <3>1, <3>2, AppendProperties, LenProperties
  <2>8. /\ ListFits(migrations[p].pending, p)'
        /\ \A i \in DOMAIN migrations'[p].pending :
             migrations'[p].pending[i].kw \notin raced' => ~migrations'[p].confirmed /\ ~Taken(p)'
    BY <2>0, <2>1, <2>2, <2>3, <2>4, <2>5, <2>7 DEF ListsFit, ListFits
  <2>9. ASSUME NEW q \in DOMAIN migrations', q # p
        PROVE  /\ ListFits(migrations[q].pending, q)'
               /\ \A i \in DOMAIN migrations'[q].pending :
                    migrations'[q].pending[i].kw \notin raced' => ~migrations'[q].confirmed /\ ~Taken(q)'
    BY <2>0, <2>2, <2>4, <2>5, <2>9 DEF ListsFit, ListFits
  <2> QED BY <2>6, <2>8, <2>9 DEF ListsFit
<1>3. ASSUME NEW c \in Clients, Schedule(c) PROVE ListsFit'
  <2> DEFINE p == client[c].plan.parent
  <2>0. task' = task /\ issued' = issued /\ raced' = raced
    BY <1>3 DEF Schedule
  <2>1. \A q : Taken(q)' <=> Taken(q)
    BY <2>0 DEF Taken
  <2>2. ListFits(task.replay, task.plan.parent)'
    BY <2>0 DEF ListsFit, ListFits
  <2>3. ASSUME NEW q \in DOMAIN migrations'
        PROVE  migrations'[q].pending = <<>> \/ (q \in DOMAIN migrations /\ migrations'[q] = migrations[q])
    BY <1>3, ScheduleEffect
  <2>4. ASSUME NEW q \in DOMAIN migrations'
        PROVE  /\ ListFits(migrations[q].pending, q)'
               /\ \A i \in DOMAIN migrations'[q].pending :
                    migrations'[q].pending[i].kw \notin raced' => ~migrations'[q].confirmed /\ ~Taken(q)'
    BY <2>0, <2>1, <2>3 DEF ListsFit, ListFits
  <2> QED BY <2>2, <2>4 DEF ListsFit
<1>4. CASE TakePending /\ task.plan.parent \in DOMAIN migrations
  <2> DEFINE p == task.plan.parent
  <2>0. issued' = issued /\ raced' = raced /\ task.pc = "take"
    BY <1>4 DEF TakePending, ghosts
  <2>1. /\ task'.plan = task.plan /\ task'.replay = migrations[p].pending
        /\ DOMAIN migrations' = DOMAIN migrations /\ migrations'[p].pending = <<>>
        /\ \A q \in DOMAIN migrations \ {p} : migrations'[q] = migrations[q]
    BY <1>4, ReplayTask, TakeEffect
  <2>2. ListFits(task.replay, task.plan.parent)'
    BY <1>4, <2>0, <2>1 DEF ListsFit, ListFits
  <2>3. \A q : Taken(q)' => q = p
    BY <2>1 DEF Taken
  <2>4. ASSUME NEW q \in DOMAIN migrations'
        PROVE  /\ ListFits(migrations[q].pending, q)'
               /\ \A i \in DOMAIN migrations'[q].pending :
                    migrations'[q].pending[i].kw \notin raced' => ~migrations'[q].confirmed /\ ~Taken(q)'
    <3>1. CASE q = p
      BY <2>1, <3>1 DEF ListFits
    <3>2. CASE q # p
      BY <2>0, <2>1, <2>3, <3>2 DEF ListsFit, ListFits
    <3> QED BY <3>1, <3>2
  <2> QED BY <2>2, <2>4 DEF ListsFit
<1>5. CASE ReplayRecord
  <2>0. /\ task.pc = "replay_record" /\ migrations' = migrations /\ issued' = issued
        /\ raced \subseteq raced'
    BY <1>5 DEF ReplayRecord
  <2>1. /\ task'.plan = task.plan /\ task'.replay = Tail(task.replay)
    BY <1>5, ReplayTask
  <2>2. task.replay \in Seq(Ops) /\ task.replay # <<>>
    BY <2>0, ListTyped, Replayed
  <2>3. \A i \in DOMAIN task'.replay : i + 1 \in DOMAIN task.replay /\ task'.replay[i] = task.replay[i + 1]
    BY <2>1, <2>2, TailOf
  <2>4. ListFits(task.replay, task.plan.parent)'
    BY <2>0, <2>1, <2>3 DEF ListsFit, ListFits
  <2>5. \A q : Taken(q)' => Taken(q)
    BY <2>0, <2>1 DEF Taken
  <2>6. ASSUME NEW q \in DOMAIN migrations'
        PROVE  /\ ListFits(migrations[q].pending, q)'
               /\ \A i \in DOMAIN migrations'[q].pending :
                    migrations'[q].pending[i].kw \notin raced' => ~migrations'[q].confirmed /\ ~Taken(q)'
    BY <2>0, <2>5 DEF ListsFit, ListFits
  <2> QED BY <2>4, <2>6 DEF ListsFit
<1>6. CASE Finish
  <2> DEFINE p == task.plan.parent
  <2>0. issued' = issued /\ raced' = raced
    BY <1>6 DEF Finish, ghosts
  <2>1. /\ task.pc = "finish" /\ task' = IdleTask /\ DOMAIN migrations' = DOMAIN migrations
        /\ \A q \in DOMAIN migrations :
             /\ migrations'[q].pending = migrations[q].pending
             /\ q # p => migrations'[q] = migrations[q]
    BY <1>6, FinishEffect
  <2>2. ListFits(task.replay, task.plan.parent)'
    BY <2>1, IdleFields DEF ListFits
  <2>3. Taken(p) /\ \A q : ~Taken(q)'
    BY <2>1, IdleFields DEF Taken
  <2>4. ASSUME NEW q \in DOMAIN migrations'
        PROVE  /\ ListFits(migrations[q].pending, q)'
               /\ \A i \in DOMAIN migrations'[q].pending :
                    migrations'[q].pending[i].kw \notin raced' => ~migrations'[q].confirmed /\ ~Taken(q)'
    BY <2>0, <2>1, <2>3 DEF ListsFit, ListFits
  <2> QED BY <2>2, <2>4 DEF ListsFit
<1>7. CASE Reset
  <2>1. DOMAIN migrations' = {} /\ task' = task /\ task.pc = "idle"
    BY <1>7 DEF Reset, CanReset
  <2>2. task.replay = <<>>
    BY <2>1, LoopTask DEF ReplayStates
  <2> QED BY <2>1, <2>2 DEF ListsFit, ListFits
<1> QED BY <1>1, <1>2, <1>3, <1>4, <1>5, <1>6, <1>7, QuietSteps

(***************************************************************************)
(* A delete waits behind the add it deletes                                *)
(***************************************************************************)

\* The lists stay as they are: nobody asks for a delete of x without going to buffer it,
\* and who has to buffer one still has to.
LEMMA QuietOrdered ==
    ASSUME QuietLists, NEW x, x[1] \notin raced',
           Ordered(task.replay, x), \A p \in DOMAIN migrations : Ordered(migrations[p].pending, x),
           \A i \in DOMAIN task.replay : task.replay[i] \in Ops,
           \/ ~Waits("add", x)
           \/ /\ Has(issued', "delete", x) =>
                    \/ Has(issued, "delete", x)
                    \/ \E c \in Clients : client'[c].pc = "buffer" /\ Is(client'[c].op, "delete", x)
              /\ \A c \in Clients : (client[c].pc = "buffer" /\ Is(client[c].op, "delete", x)) =>
                    client'[c].pc = "buffer" /\ Is(client'[c].op, "delete", x)
    PROVE  /\ Ordered(task.replay, x)'
           /\ \A p \in DOMAIN migrations' : Ordered(migrations[p].pending, x)'
<1>1. ASSUME NEW ops, Ordered(ops, x), \/ \A i \in DOMAIN ops : ~Is(ops[i], "add", x)
                                        \/ Waits("add", x)
      PROVE  \A i \in DOMAIN ops : (Is(ops[i], "add", x) /\ Has(issued', "delete", x)) =>
                \/ \E c \in Clients : client'[c].pc = "buffer" /\ Is(client'[c].op, "delete", x)
                \/ \E j \in DOMAIN ops : i < j /\ Is(ops[j], "delete", x)
  BY <1>1 DEF Ordered, Behind
<1>2. Ordered(task.replay, x)'
  <2>1. CASE task'.replay = <<>>
    BY <2>1 DEF Ordered
  <2>2. CASE task'.replay = task.replay
    <3>1. \/ \A i \in DOMAIN task.replay : ~Is(task.replay[i], "add", x)
          \/ Waits("add", x)
      BY DEF Waits
    <3> QED BY <1>1, <2>2, <3>1 DEF Ordered, Behind
  <2> QED BY <2>1, <2>2 DEF QuietLists
<1>3. ASSUME NEW p \in DOMAIN migrations'
      PROVE  Ordered(migrations[p].pending, x)'
  <2>1. migrations' = migrations
    BY DEF QuietLists
  <2>2. \/ \A i \in DOMAIN migrations[p].pending : ~Is(migrations[p].pending[i], "add", x)
        \/ Waits("add", x)
    BY <2>1 DEF Waits
  <2>3. Ordered(migrations[p].pending, x)
    BY <2>1
  <2> QED BY <1>1, <2>1, <2>2, <2>3 DEF Ordered, Behind
<1> QED BY <1>2, <1>3

\* An add of x in a list: its keyword moves.
LEMMA WaitsAdd ==
    ASSUME TypeInv, ListsFit, NEW x \in Postings, x[1] \notin raced, PlansFit(x[1]), NEW kind,
           Waits(kind, x)
    PROVE  ActiveMigrations(x[1]) # {}
<1>1. x[1] \in Keywords
  BY DEF Postings
<1>2. \A op : Is(op, kind, x) => op.kw = x[1]
  BY DEF Is, Posting
<1> QED BY <1>1, <1>2, WaitsActive DEF Waits

\* Every step keeps the order.
LEMMA OrderKept ==
    ASSUME TypeInv, OpsFit, ListsFit, OrderFits, [Next]_vars,
           \A kw \in Keywords \ raced : PlansFit(kw)
    PROVE  OrderFits'
<1>0. /\ client \in [Clients -> ClientType]
      /\ \A i \in DOMAIN task.replay : task.replay[i] \in Ops
  BY ListTyped DEF TypeInv
<1>1. CASE Reset
  <2>1. DOMAIN migrations' = {} /\ task' = task /\ task.pc = "idle"
    BY <1>1 DEF Reset, CanReset
  <2>2. task.replay = <<>>
    BY <2>1, LoopTask DEF ReplayStates
  <2> QED BY <2>1, <2>2 DEF OrderFits, Ordered
<1> SUFFICES ASSUME NEW x \in Postings, x[1] \notin raced', raced \subseteq raced', ~Reset
             PROVE  /\ Ordered(task.replay, x)'
                    /\ \A p \in DOMAIN migrations' : Ordered(migrations[p].pending, x)'
  BY <1>1, RacedGrows DEF OrderFits
<1>2. /\ x[1] \in Keywords /\ x[1] \notin raced /\ PlansFit(x[1])
      /\ Ordered(task.replay, x) /\ \A p \in DOMAIN migrations : Ordered(migrations[p].pending, x)
      /\ Waits("add", x) => ActiveMigrations(x[1]) # {}
  BY WaitsAdd DEF Postings, OrderFits
<1>3. CASE QuietLists /\ UNCHANGED <<client, issued>>
  BY <1>0, <1>2, <1>3, QuietOrdered
<1>4. ASSUME QuietLists, NEW c \in Clients, NEW o \in Ops, Request(c, o)
      PROVE  /\ Ordered(task.replay, x)'
             /\ \A p \in DOMAIN migrations' : Ordered(migrations[p].pending, x)'
  <2> DEFINE pc == IF ActiveMigrations(o.kw) # {} THEN "buffer" ELSE "route"
  <2>1. client[c].pc = "idle" /\ issued' = issued \cup {o} /\ client' = [client EXCEPT ![c].pc = pc, ![c].op = o]
    BY <1>4 DEF Request
  <2> HIDE DEF pc
  <2>2. client'[c].pc = pc /\ client'[c].op = o /\ \A b \in Clients \ {c} : client'[b] = client[b]
    BY <1>0, <2>1 DEF ClientType
  <2>3. Has(issued', "delete", x) => Has(issued, "delete", x) \/ Is(o, "delete", x)
    BY <2>1 DEF Has
  <2>4. (Is(o, "delete", x) /\ Waits("add", x)) => pc = "buffer"
    BY <1>2 DEF Is, Posting, pc
  <2>5. \A b \in Clients : client[b].pc = "buffer" => client'[b] = client[b]
    BY <2>1, <2>2
  <2> QED BY <1>0, <1>2, <1>4, <2>2, <2>3, <2>4, <2>5, QuietOrdered
<1>5. ASSUME QuietLists, NEW c \in Clients, BufferRefused(c)
      PROVE  /\ Ordered(task.replay, x)'
             /\ \A p \in DOMAIN migrations' : Ordered(migrations[p].pending, x)'
  <2>1. ActiveMigrations(client[c].op.kw) = {} /\ issued' = issued /\ client' = [client EXCEPT ![c] = IdleClient]
    BY <1>5 DEF BufferRefused
  <2>2. \A b \in Clients \ {c} : client'[b] = client[b]
    BY <1>0, <2>1
  <2>3. Is(client[c].op, "delete", x) => ~Waits("add", x)
    BY <1>2, <2>1 DEF Is, Posting
  <2> QED BY <1>0, <1>2, <1>5, <2>1, <2>2, <2>3, QuietOrdered
<1>6. ASSUME QuietLists, NEW c \in Clients, Route(c) \/ Recheck(c) \/ StoragerRpc(c) \/ Record(c)
      PROVE  /\ Ordered(task.replay, x)'
             /\ \A p \in DOMAIN migrations' : Ordered(migrations[p].pending, x)'
  <2>1. issued' = issued /\ client[c].pc # "buffer"
    BY <1>6 DEF Route, Recheck, StoragerRpc, Record, ghosts
  <2>2. \A b \in Clients \ {c} : client'[b] = client[b]
    BY <1>0, <1>6, StepOnward, OnwardClients DEF ClientStep
  <2> QED BY <1>0, <1>2, <1>6, <2>1, <2>2, QuietOrdered
<1>7. ASSUME NEW c \in Clients, Buffer(c)
      PROVE  /\ Ordered(task.replay, x)'
             /\ \A p \in DOMAIN migrations' : Ordered(migrations[p].pending, x)'
  <2> DEFINE op == client[c].op
  <2>0. Busy(c) /\ client[c].pc = "buffer" /\ task' = task /\ issued' = issued
    BY <1>7 DEF Buffer, Busy
  <2>1. op \in issued /\ op \in Ops /\ op.kw \in Keywords
    BY <2>0, BusyTyped DEF OpsFit
  <2>2. PICK p \in ActiveMigrations(op.kw) :
            /\ p \in DOMAIN migrations /\ DOMAIN migrations' = DOMAIN migrations
            /\ migrations'[p].pending = Append(migrations[p].pending, op)
            /\ migrations'[p].source = migrations[p].source
            /\ migrations'[p].confirmed = migrations[p].confirmed
            /\ \A q \in DOMAIN migrations \ {p} : migrations'[q] = migrations[q]
            /\ raced' = IF Taken(p) THEN raced \cup {op.kw} ELSE raced
    BY <1>7, BufferEffect
  <2>3. \A b \in Clients \ {c} : client'[b] = client[b]
    BY <1>0, <1>7, StepOnward, OnwardClients DEF ClientStep
  <2>4. Is(op, "add", x) => ~Has(issued, "delete", x)
    BY <2>0 DEF OpsFit, Is
  <2> DEFINE old == migrations[p].pending
             new == migrations'[p].pending
  <2>5. /\ DOMAIN old = 1 .. Len(old) /\ DOMAIN new = 1 .. Len(old) + 1 /\ Len(old) \in Nat
        /\ new[Len(old) + 1] = op
        /\ \A i \in DOMAIN old : new[i] = old[i]
    <3>1. old \in Seq(Ops)
      BY <2>2, ListTyped
    <3> QED BY <2>1, <2>2, <3>1, AppendProperties, LenProperties
  <2> HIDE DEF old, new, op
  <2>6. ASSUME Is(op, "delete", x)
        PROVE  /\ op.kw = x[1]
               /\ \A i \in DOMAIN task.replay : ~Is(task.replay[i], "add", x)
               /\ \A q \in DOMAIN migrations \ {p} : \A i \in DOMAIN migrations[q].pending :
                    ~Is(migrations[q].pending[i], "add", x)
    <3>1. op.kw = x[1] /\ \A o : Is(o, "add", x) => o.kw = x[1]
      BY <2>6 DEF Is, Posting
    <3>2. \A q \in ActiveMigrations(x[1]) : q = p
      BY <1>2, <2>2, <3>1, OneActive
    <3>3. ~Taken(p)
      BY <2>2, <3>1
    <3> QED BY <1>2, <3>1, <3>2, <3>3, WaitsActive
  <2>7. \A b \in Clients : (client[b].pc = "buffer" /\ Is(client[b].op, "delete", x)) =>
            \/ client'[b].pc = "buffer" /\ Is(client'[b].op, "delete", x)
            \/ Is(op, "delete", x)
    BY <2>3 DEF op
  <2>8. Ordered(task.replay, x)'
    BY <1>2, <2>0, <2>6, <2>7 DEF Ordered, Behind
  <2>9. ASSUME NEW q \in DOMAIN migrations', q # p PROVE Ordered(migrations[q].pending, x)'
    <3>1. migrations'[q] = migrations[q] /\ Ordered(migrations[q].pending, x)
      BY <1>2, <2>2, <2>9
    <3> QED BY <2>0, <2>2, <2>6, <2>7, <2>9, <3>1 DEF Ordered, Behind
  <2>10. Ordered(migrations[p].pending, x)'
    <3> SUFFICES ASSUME NEW i \in DOMAIN new, Is(new[i], "add", x), Has(issued, "delete", x)
                 PROVE  \/ \E b \in Clients : client'[b].pc = "buffer" /\ Is(client'[b].op, "delete", x)
                        \/ \E j \in DOMAIN new : i < j /\ Is(new[j], "delete", x)
      BY <2>0 DEF Ordered, Behind, new
    <3>1. i \in DOMAIN old /\ new[i] = old[i]
      BY <2>4, <2>5
    <3>2. \/ \E b \in Clients : client[b].pc = "buffer" /\ Is(client[b].op, "delete", x)
          \/ \E j \in DOMAIN old : i < j /\ Is(old[j], "delete", x)
      BY <1>2, <2>2, <3>1 DEF Ordered, Behind, old
    <3>3. CASE \E j \in DOMAIN old : i < j /\ Is(old[j], "delete", x)
      BY <2>5, <3>3
    <3>4. CASE Is(op, "delete", x)
      <4>1. i < Len(old) + 1 /\ Len(old) + 1 \in DOMAIN new
        BY <2>5, <3>1
      <4> QED BY <2>5, <3>4, <4>1
    <3> QED BY <2>7, <3>2, <3>3, <3>4
  <2> QED BY <2>8, <2>9, <2>10
<1>8. ASSUME NEW c \in Clients, Schedule(c)
      PROVE  /\ Ordered(task.replay, x)'
             /\ \A p \in DOMAIN migrations' : Ordered(migrations[p].pending, x)'
  <2>0. task' = task /\ issued' = issued /\ client[c].pc = "schedule"
    BY <1>8 DEF Schedule
  <2>1. \A b \in Clients \ {c} : client'[b] = client[b]
    BY <1>0, <1>8, StepOnward, OnwardClients DEF ClientStep
  <2>2. \A b \in Clients : client[b].pc = "buffer" => client'[b] = client[b]
    BY <2>0, <2>1
  <2>3. Ordered(task.replay, x)'
    BY <1>2, <2>0, <2>2 DEF Ordered, Behind
  <2>4. ASSUME NEW q \in DOMAIN migrations' PROVE Ordered(migrations[q].pending, x)'
    <3>1. migrations'[q].pending = <<>> \/ (q \in DOMAIN migrations /\ migrations'[q] = migrations[q])
      BY <1>8, ScheduleEffect
    <3>2. CASE migrations'[q].pending = <<>>
      BY <3>2 DEF Ordered
    <3>3. CASE q \in DOMAIN migrations /\ migrations'[q] = migrations[q]
      <4>1. Ordered(migrations[q].pending, x)
        BY <1>2, <3>3
      <4> QED BY <2>0, <2>2, <3>3, <4>1 DEF Ordered, Behind
    <3> QED BY <3>1, <3>2, <3>3
  <2> QED BY <2>3, <2>4
<1>9. CASE TakePending /\ task.plan.parent \in DOMAIN migrations
  <2> DEFINE p == task.plan.parent
  <2>0. client' = client /\ issued' = issued
    BY <1>9 DEF TakePending, ghosts
  <2>1. /\ task'.replay = migrations[p].pending
        /\ DOMAIN migrations' = DOMAIN migrations /\ migrations'[p].pending = <<>>
        /\ \A q \in DOMAIN migrations \ {p} : migrations'[q] = migrations[q]
    BY <1>9, ReplayTask, TakeEffect
  <2>2. Ordered(migrations[p].pending, x)
    BY <1>2, <1>9
  <2>3. Ordered(task.replay, x)'
    BY <2>0, <2>1, <2>2 DEF Ordered, Behind
  <2>4. ASSUME NEW q \in DOMAIN migrations' PROVE Ordered(migrations[q].pending, x)'
    <3>1. CASE q = p
      BY <2>1, <3>1 DEF Ordered
    <3>2. CASE q # p
      <4>1. Ordered(migrations[q].pending, x) /\ migrations'[q] = migrations[q]
        BY <1>2, <2>1, <3>2
      <4> QED BY <2>0, <4>1 DEF Ordered, Behind
    <3> QED BY <3>1, <3>2
  <2> QED BY <2>3, <2>4
<1>10. CASE ReplayRecord
  <2>0. client' = client /\ issued' = issued /\ migrations' = migrations /\ task.pc = "replay_record"
    BY <1>10 DEF ReplayRecord
  <2>1. task'.replay = Tail(task.replay)
    BY <1>10, ReplayTask
  <2> DEFINE old == task.replay
             new == Tail(task.replay)
  <2>2. old \in Seq(Ops) /\ old # <<>>
    BY <2>0, ListTyped, Replayed
  <2>3. /\ \A i \in DOMAIN new : i \in Nat /\ i + 1 \in DOMAIN old /\ new[i] = old[i + 1]
        /\ \A i \in DOMAIN old : i # 1 => i - 1 \in DOMAIN new /\ new[i - 1] = old[i]
        /\ \A i \in DOMAIN old : i \in Nat
    BY <2>2, TailOf, LenProperties
  <2> HIDE DEF old, new
  <2>4. Ordered(task.replay, x)'
    <3> SUFFICES ASSUME NEW i \in DOMAIN new, Is(new[i], "add", x), Has(issued, "delete", x)
                 PROVE  \/ \E b \in Clients : client[b].pc = "buffer" /\ Is(client[b].op, "delete", x)
                        \/ \E j \in DOMAIN new : i < j /\ Is(new[j], "delete", x)
      BY <2>0, <2>1 DEF Ordered, Behind, new
    <3>1. i \in Nat /\ i + 1 \in DOMAIN old /\ Is(old[i + 1], "add", x)
      BY <2>3
    <3>2. \/ \E b \in Clients : client[b].pc = "buffer" /\ Is(client[b].op, "delete", x)
          \/ \E j \in DOMAIN old : i + 1 < j /\ Is(old[j], "delete", x)
      BY <1>2, <3>1 DEF Ordered, Behind, old
    <3>3. ASSUME NEW j \in DOMAIN old, i + 1 < j, Is(old[j], "delete", x)
          PROVE  j - 1 \in DOMAIN new /\ i < j - 1 /\ Is(new[j - 1], "delete", x)
      BY <2>3, <3>1, <3>3
    <3> QED BY <3>2, <3>3
  <2>5. \A p \in DOMAIN migrations' : Ordered(migrations[p].pending, x)'
    BY <1>2, <2>0 DEF Ordered, Behind
  <2> QED BY <2>4, <2>5
<1>11. CASE Finish
  <2>0. client' = client /\ issued' = issued
    BY <1>11 DEF Finish, ghosts
  <2>1. /\ task' = IdleTask /\ DOMAIN migrations' = DOMAIN migrations
        /\ \A q \in DOMAIN migrations : migrations'[q].pending = migrations[q].pending
    BY <1>11, FinishEffect
  <2>2. Ordered(task.replay, x)'
    BY <2>1, IdleFields DEF Ordered
  <2>3. ASSUME NEW q \in DOMAIN migrations' PROVE Ordered(migrations[q].pending, x)'
    <3>1. Ordered(migrations[q].pending, x)
      BY <1>2, <2>1
    <3> QED BY <2>0, <2>1, <3>1 DEF Ordered, Behind
  <2> QED BY <2>2, <2>3
<1> QED BY <1>3, <1>4, <1>5, <1>6, <1>7, <1>8, <1>9, <1>10, <1>11, QuietSteps

(***************************************************************************)
(* Routes and splits                                                       *)
(***************************************************************************)

\* Who changes what.
LEMMA Changes ==
    ASSUME [Next]_vars
    PROVE  /\ client' = client \/ \E c \in Clients : ClientStep(c) \/ \E o \in Ops : Request(c, o)
           /\ entries' = entries \/ (\E c \in Clients : Record(c)) \/ ReplayRecord \/ Reset
           /\ \/ overrides' = overrides \/ \E c \in Clients : Record(c)
              \/ ReplayRecord \/ ClearOverrides \/ Reset
           /\ task' = task \/ TaskStep \/ TaskFails \/ \E d \in Digits : ImportFails(d)
           /\ DOMAIN migrations' = DOMAIN migrations
              \/ (\E c \in Clients : Buffer(c) \/ Schedule(c)) \/ TakePending \/ Finish \/ Reset
<1>1. ASSUME NEW c \in Clients, ClientStep(c) \/ \E o \in Ops : Request(c, o)
      PROVE  /\ task' = task
             /\ entries' = entries \/ Record(c)
             /\ overrides' = overrides \/ Record(c)
             /\ migrations' = migrations \/ Buffer(c) \/ Schedule(c)
  BY <1>1 DEF ClientStep, Route, Recheck, Buffer, BufferRefused, StoragerRpc, Record, Schedule,
              Request, router
<1>2. ASSUME TaskStep
      PROVE  /\ client' = client
             /\ entries' = entries \/ ReplayRecord
             /\ overrides' = overrides \/ ReplayRecord \/ ClearOverrides
             /\ migrations' = migrations \/ TakePending \/ Finish
  BY <1>2 DEF TaskStep, TaskStart, Prepare, Import, Confirm, ClearOverrides, TakePending,
              ReplayRoute, ReplayRpc, ReplayRecord, Finish, router
<1>3. ASSUME Failure
      PROVE  /\ client' = client /\ entries' = entries /\ overrides' = overrides
             /\ migrations' = migrations
             /\ task' = task \/ TaskFails \/ \E d \in Digits : ImportFails(d)
  BY <1>3 DEF Failure, TaskFails, ResetFails, ImportFails, router
<1>4. CASE Reset
  BY <1>4 DEF Reset
<1>5. CASE UNCHANGED vars
  BY <1>5 DEF vars, router
<1> QED BY <1>1, <1>2, <1>3, <1>4, <1>5 DEF Next

\* What recording an answer makes of the ring and its routes.
LEMMA RecordedRoutes ==
    ASSUME TypeInv, NEW op \in Ops, NEW q \in Prefixes, entries' = RecordedEntries(op, q)
    PROVE  LET plan == SplitPlan(q, entries) IN
           /\ Grown(entries, entries')
           /\ SplitsOn(op, q) => ~SplitAt(entries, q) /\ SplitAt(entries', q)
           /\ \A kw \in Keywords :
                ~(SplitsOn(op, q) /\ IsPrefix(q, RingHash[kw])) => RingRoute(kw)' = RingRoute(kw)
           /\ \A kw \in Keywords : (SplitsOn(op, q) /\ IsPrefix(q, RingHash[kw])) =>
                /\ RingRoute(kw).prefix = q /\ RingRoute(kw).node = plan.source
                /\ Len(RingRoute(kw)'.prefix) = Len(q) + 1
                /\ RingRoute(kw)'.node = plan.targets[RingHash[kw][Len(q) + 1]]
<1> DEFINE i == FindEntry(entries, q)
           plan == SplitPlan(q, entries)
           new == RecordedEntries(op, q)
<1>1. /\ RingInv(entries) /\ RingInv(new) /\ Grown(entries, new)
      /\ ~SplitsOn(op, q) => SameRoutes(entries, new)
      /\ SplitsOn(op, q) =>
            /\ i \in Leaves(entries) /\ entries[i].prefix = q
            /\ Len(q) < MaxPrefixLen
            /\ EntryIsSplit(new, i)
            /\ SplitRoutes(entries, new, q)
  BY RecordedRing DEF TypeInv, RouterFits
<1>2. entries' = new
  OBVIOUS
<1> HIDE DEF new
<1>3. SplitsOn(op, q) => ~SplitAt(entries, q) /\ SplitAt(entries', q)
  <2> SUFFICES ASSUME SplitsOn(op, q) PROVE ~SplitAt(entries, q) /\ SplitAt(new, q)
    BY <1>2
  <2>1. i \in DOMAIN entries /\ ~EntryIsSplit(entries, i) /\ entries[i].prefix = q
    BY <1>1 DEF Leaves
  <2>2. i \in DOMAIN new /\ new[i].prefix = q
    BY <1>1, <2>1 DEF Grown
  <2>3. \A j \in DOMAIN entries : entries[j].prefix = q => j = i
    BY <1>1, <2>1 DEF RingInv, PrefixesUnique
  <2> HIDE DEF i
  <2> QED BY <1>1, <2>1, <2>2, <2>3 DEF SplitAt, i
<1>4. ASSUME NEW kw \in Keywords
      PROVE  /\ RingHash[kw] \in KeyHashes
             /\ RingRoute(kw) = [prefix |-> LeafOf(entries, RingHash[kw]).prefix,
                                 node |-> LeafOf(entries, RingHash[kw]).owner_ref]
             /\ RingRoute(kw)' = [prefix |-> LeafOf(new, RingHash[kw]).prefix,
                                  node |-> LeafOf(new, RingHash[kw]).owner_ref]
             /\ IsPrefix(LeafOf(entries, RingHash[kw]).prefix, RingHash[kw])
  <2>1. RingHash[kw] \in KeyHashes
    BY HashesAssumption
  <2>2. IsPrefix(LeafOf(entries, RingHash[kw]).prefix, RingHash[kw])
    BY <1>1, <2>1, RouteTyped
  <2> QED BY <1>2, <2>1, <2>2 DEF RingRoute, LeafOf
<1>5. ASSUME NEW kw \in Keywords, ~(SplitsOn(op, q) /\ IsPrefix(q, RingHash[kw]))
      PROVE  RingRoute(kw)' = RingRoute(kw)
  <2>1. CASE ~SplitsOn(op, q)
    BY <1>1, <1>4, <2>1 DEF SameRoutes
  <2>2. CASE SplitsOn(op, q)
    <3>1. LeafOf(entries, RingHash[kw]).prefix # q
      BY <1>4, <1>5, <2>2
    <3> QED BY <1>1, <1>4, <2>2, <3>1 DEF SplitRoutes
  <2> QED BY <2>1, <2>2
<1>6. ASSUME NEW kw \in Keywords, SplitsOn(op, q) /\ IsPrefix(q, RingHash[kw])
      PROVE  /\ RingRoute(kw).prefix = q /\ RingRoute(kw).node = plan.source
             /\ Len(RingRoute(kw)'.prefix) = Len(q) + 1
             /\ RingRoute(kw)'.node = plan.targets[RingHash[kw][Len(q) + 1]]
  <2> DEFINE hash == RingHash[kw]
             d == hash[Len(q) + 1]
  <2>1. RouteKey(entries, hash) = i
    BY <1>1, <1>4, <1>6, LeafOver
  <2>2. LeafOf(entries, hash) = entries[i]
    BY <2>1 DEF LeafOf
  <2>3. /\ d \in Digits
        /\ LeafOf(new, hash).prefix = Append(q, d)
        /\ LeafOf(new, hash).owner_ref = (entries[i].owner_ref + d) % NodeCount
    BY <1>1, <1>4, <1>6, <2>2 DEF SplitRoutes
  <2>4. Len(Append(q, d)) = Len(q) + 1
    BY <1>1, <1>6, <2>3, ChildOf
  <2>5. plan.source = entries[i].owner_ref
        /\ plan.targets[d] = (entries[i].owner_ref + d) % NodeCount
    BY <2>3 DEF SplitPlan
  <2>6. entries[i].prefix = q
    BY <1>1, <1>6
  <2> HIDE DEF i, plan
  <2> QED BY <1>4, <2>2, <2>3, <2>4, <2>5, <2>6
<1> QED BY <1>1, <1>2, <1>3, <1>5, <1>6

\* A route that is computed is for its keyword.
LEMMA RoutesBegin ==
    ASSUME TypeInv, RoutePrefixes, NEW kw \in Keywords
    PROVE  /\ IsPrefix(RouteKeyword(kw).prefix, RingHash[kw])
           /\ \A route \in QueryRoutes(kw) : IsPrefix(route.prefix, RingHash[kw])
<1>1. IsPrefix(RouteKeyword(kw).prefix, RingHash[kw])
  BY RingRouteTyped DEF TypeInv, RouterFits, RoutePrefixes, RouteKeyword
<1>2. ASSUME NEW p \in ActiveMigrations(kw) PROVE IsPrefix(ChildPrefix(p, kw), RingHash[kw])
  <2> DEFINE d == RingHash[kw][Len(p) + 1]
  <2>1. p \in Prefixes /\ Len(p) < MaxPrefixLen /\ IsPrefix(p, RingHash[kw])
    BY DEF ActiveMigrations, TypeInv, MigrationsFit
  <2>2. Len(p) \in Nat
    BY <2>1, PrefixIsSeq, LenProperties
  <2>3. RingHash[kw] \in KeyHashes
    BY HashesAssumption
  <2>4. d \in Digits /\ Len(RingHash[kw]) = MaxPrefixLen
    BY <2>1, <2>2, <2>3, HashIsPrefix, RingShape DEF KeyHashes
  <2>5. /\ Len(Append(p, d)) = Len(p) + 1
        /\ \A k \in 1 .. Len(p) : Append(p, d)[k] = p[k]
        /\ Append(p, d)[Len(p) + 1] = d
    BY <2>1, <2>4, ChildOf
  <2>6. MaxPrefixLen \in Nat
    BY RingShape
  <2> QED BY <2>1, <2>2, <2>4, <2>5, <2>6 DEF ChildPrefix, IsPrefix
<1> QED BY <1>1, <1>2 DEF QueryRoutes

\* How a handler comes to the route it has.
RouteComes(b) ==
    LET op == client[b].op IN
    \/ client[b].pc \in RoutedStates /\ client'[b].route = client[b].route
    \/ client'[b].route \in IF op.kind = "add" THEN {RouteKeyword(op.kw)} ELSE QueryRoutes(op.kw)
    \/ op.kind # "add" /\ client'[b].route.prefix = <<>>

LEMMA ClientRoutes ==
    ASSUME TypeInv, [Next]_vars, NEW b \in Clients, client'[b].pc \in RoutedStates
    PROVE  client[b].op \in Ops /\ client'[b].op = client[b].op /\ RouteComes(b)
<1>0. client \in [Clients -> ClientType]
  BY DEF TypeInv
<1>1. CASE client'[b] = client[b]
  BY <1>1, BusyTyped DEF RouteComes, Busy, RoutedStates
<1>2. ASSUME NEW c \in Clients, NEW o \in Ops, Request(c, o), client'[b] # client[b] PROVE FALSE
  <2> DEFINE pc == IF ActiveMigrations(o.kw) # {} THEN "buffer" ELSE "route"
  <2>1. client' = [client EXCEPT ![c].pc = pc, ![c].op = o]
    BY <1>2 DEF Request
  <2> HIDE DEF pc
  <2>2. client'[b].pc = pc
    BY <1>0, <1>2, <2>1 DEF ClientType
  <2> QED BY <2>2 DEF RoutedStates, pc
<1>3. ASSUME NEW c \in Clients, ClientStep(c), client'[b] # client[b]
      PROVE  client[b].op \in Ops /\ client'[b].op = client[b].op /\ RouteComes(b)
  <2> DEFINE op == client[c].op
             route == client[c].route
  <2>0. b = c
    BY <1>0, <1>3, StepOnward, OnwardClients
  <2>1. Busy(c) /\ client[c] \in ClientType /\ op \in Ops /\ op.kw \in Keywords
    <3>1. Busy(c)
      BY <1>3, StepOnward DEF Onward
    <3> QED BY <3>1, BusyTyped
  <2>2. CASE Route(c)
    <3>1. PICK r \in IF op.kind = "add" THEN {RouteKeyword(op.kw)} ELSE QueryRoutes(op.kw) :
              client' = [client EXCEPT ![c].pc = "recheck", ![c].route = r]
      BY <2>2 DEF Route
    <3>2. client'[c].route = r /\ client'[c].op = op
      BY <1>0, <2>1, <3>1 DEF ClientType
    <3> QED BY <2>0, <2>1, <3>1, <3>2 DEF RouteComes
  <2>3. CASE Recheck(c) \/ StoragerRpc(c)
    <3> DEFINE pc == IF StoragerRpc(c) THEN "record"
                     ELSE IF ActiveMigrations(op.kw) # {} THEN "buffer" ELSE "rpc"
    <3>1. client' = [client EXCEPT ![c].pc = pc] /\ client[c].pc \in RoutedStates
      <4>1. CASE StoragerRpc(c)
        BY <4>1 DEF StoragerRpc, RoutedStates
      <4>2. CASE ~StoragerRpc(c)
        BY <2>3, <4>2 DEF Recheck, RoutedStates
      <4> QED BY <4>1, <4>2
    <3> HIDE DEF pc
    <3>2. client'[c].route = route /\ client'[c].op = op
      BY <1>0, <2>1, <3>1 DEF ClientType
    <3> QED BY <2>0, <2>1, <3>1, <3>2 DEF RouteComes
  <2>4. CASE Buffer(c)
    <3>1. CASE op.kind = "add"
      <4>1. client'[c] = IdleClient
        BY <1>0, <2>4, <3>1 DEF Buffer
      <4> QED BY <2>0, <4>1 DEF IdleClient, RoutedStates
    <3>2. CASE op.kind # "add"
      <4> DEFINE e == << >>
                 r == [prefix |-> e, node |-> 0]
      <4>1. client' = [client EXCEPT ![c].pc = "record", ![c].route = r]
        BY <2>4, <3>2 DEF Buffer
      <4>2. r.prefix = <<>>
        OBVIOUS
      <4> HIDE DEF r
      <4>3. client'[c].route = r /\ client'[c].op = op
        BY <1>0, <2>1, <4>1 DEF ClientType
      <4> QED BY <2>0, <2>1, <3>2, <4>2, <4>3 DEF RouteComes
    <3> QED BY <3>1, <3>2
  <2>5. CASE Record(c)
    <3>1. CASE SplitsOn(op, route.prefix)
      <4> DEFINE plan == SplitPlan(route.prefix, entries)
      <4>1. client' = [client EXCEPT ![c].pc = "schedule", ![c].plan = plan] /\ client[c].pc = "record"
        BY <2>5, <3>1 DEF Record
      <4> HIDE DEF plan
      <4>2. client'[c].route = route /\ client'[c].op = op
        BY <1>0, <2>1, <4>1 DEF ClientType
      <4> QED BY <2>0, <2>1, <4>1, <4>2 DEF RouteComes, RoutedStates
    <3>2. CASE ~SplitsOn(op, route.prefix)
      <4>1. client'[c] = IdleClient
        BY <1>0, <2>5, <3>2 DEF Record
      <4> QED BY <2>0, <4>1 DEF IdleClient, RoutedStates
    <3> QED BY <3>1, <3>2
  <2>6. CASE BufferRefused(c) \/ Schedule(c)
    <3>1. client'[c] = IdleClient
      BY <1>0, <2>6 DEF BufferRefused, Schedule
    <3> QED BY <2>0, <3>1 DEF IdleClient, RoutedStates
  <2> QED BY <1>3, <2>2, <2>3, <2>4, <2>5, <2>6 DEF ClientStep
<1> QED BY <1>1, <1>2, <1>3, Changes

\* How a keyword comes to its override.
LEMMA OverrideComes ==
    ASSUME TypeInv, [Next]_vars, NEW kw \in Keywords, overrides'[kw] # NoRoute
    PROVE  \/ overrides'[kw] = overrides[kw] /\ (ClearOverrides => ~Over(task.plan, kw))
           \/ \E c \in Clients :
                /\ Record(c) /\ client[c].op.kw = kw /\ client[c].op.kind = "add"
                /\ overrides'[kw] = client[c].route
           \/ /\ ReplayRecord /\ Head(task.replay).kw = kw /\ Head(task.replay).kind = "add"
              /\ overrides'[kw] = task.route
<1>1. overrides \in [Keywords -> Routes \cup {NoRoute}]
  BY DEF TypeInv, RouterFits
<1>2. ASSUME NEW op, NEW route, overrides' = RecordedOverride(op, route)
      PROVE  \/ overrides'[kw] = overrides[kw]
             \/ op.kw = kw /\ op.kind = "add" /\ overrides'[kw] = route
  BY <1>1, <1>2 DEF RecordedOverride
<1>3. CASE ClearOverrides
  BY <1>1, <1>3 DEF ClearOverrides, ClearedOverrides, Over
<1>4. CASE Reset
  BY <1>4 DEF Reset
<1>5. ASSUME NEW c \in Clients, Record(c)
      PROVE  \/ overrides'[kw] = overrides[kw]
             \/ /\ client[c].op.kw = kw /\ client[c].op.kind = "add"
                /\ overrides'[kw] = client[c].route
  BY <1>2, <1>5 DEF Record
<1>6. CASE ReplayRecord
  <2>1. PICK op, route : op = Head(task.replay) /\ route = task.route
    OBVIOUS
  <2>2. overrides' = RecordedOverride(op, route)
    BY <1>6, <2>1 DEF ReplayRecord
  <2>3. \/ overrides'[kw] = overrides[kw]
        \/ op.kw = kw /\ op.kind = "add" /\ overrides'[kw] = route
    BY <1>2, <2>2
  <2>4. CASE ClearOverrides
    BY <1>3, <2>4
  <2> QED BY <1>6, <2>1, <2>3, <2>4
<1> QED BY <1>3, <1>4, <1>5, <1>6, Changes

\* How the task comes to the route it replays on.
LEMMA ReplayRoutes ==
    ASSUME TypeInv, [Next]_vars, task'.pc \in {"replay_rpc", "replay_record"}
    PROVE  /\ Head(task'.replay) = Head(task.replay) /\ Head(task.replay).kw \in Keywords
           /\ \/ task.pc \in {"replay_rpc", "replay_record"} /\ task'.route = task.route
              \/ task'.route = RouteKeyword(Head(task.replay).kw)
<1>1. CASE task' = task
  BY <1>1, Replayed
<1>2. CASE ReplayRoute
  <2>1. task.pc = "replay" /\ task'.replay = task.replay
        /\ task'.route = RouteKeyword(Head(task.replay).kw)
    BY <1>2, ReplayTask
  <2>2. task.replay \in Seq(Ops) /\ task.replay # <<>>
    BY <2>1, ListTyped DEF TypeInv, TaskFits, ReplayStates
  <2>3. Head(task.replay).kw \in Keywords
    BY <2>2, TailOf, OpTyped
  <2> QED BY <2>1, <2>3
<1>3. CASE ReplayRpc
  <2>1. task.pc = "replay_rpc" /\ task'.replay = task.replay /\ task'.route = task.route
    BY <1>3, ReplayTask
  <2> QED BY <2>1, Replayed
<1>4. CASE TaskStart \/ Prepare \/ Confirm \/ ClearOverrides \/ ReplayRecord \/ Finish \/ TakePending
           \/ TaskFails \/ \E d \in Digits : Import(d) \/ ImportFails(d)
  <2>1. task'.pc \in {"idle", "prepare", "import", "confirm", "clear", "take", "finish", "replay"}
    <3>1. CASE TaskStart
      BY <3>1, StartTask
    <3>2. CASE Prepare
      BY <3>2, PrepareTask
    <3>3. CASE Confirm
      BY <3>3, ConfirmTask
    <3>4. CASE ClearOverrides \/ ReplayRecord
      BY <3>4, ReplayTask DEF ReplayOrFinish
    <3>5. CASE TakePending
      BY <3>5, ReplayTask, IdleFields DEF TakePending, ReplayOrFinish
    <3>6. CASE Finish \/ TaskFails
      BY <3>6, IdleFields DEF Finish, TaskFails
    <3>7. ASSUME NEW d \in Digits, Import(d) \/ ImportFails(d)
          PROVE  task'.pc \in {"idle", "import", "confirm"}
      BY <3>7, ImportTask, IdleFields
    <3> QED BY <1>4, <3>1, <3>2, <3>3, <3>4, <3>5, <3>6, <3>7
  <2> QED BY <2>1
<1> QED BY <1>1, <1>2, <1>3, <1>4, Changes DEF TaskStep

\* The empty prefix begins every hash.
LEMMA EmptyBegins ==
    ASSUME NEW p, p = <<>>, NEW kw \in Keywords
    PROVE  IsPrefix(p, RingHash[kw])
<1>1. Len(p) = 0
  BY EmptySeq
<1>2. RingHash[kw] \in KeyHashes
  BY HashesAssumption
<1>3. Len(RingHash[kw]) = MaxPrefixLen /\ MaxPrefixLen \in Nat
  BY <1>2, HashIsPrefix, RingShape
<1> QED BY <1>1, <1>3 DEF IsPrefix

\* Every step keeps routes on their keywords.
LEMMA RoutePrefixesKept ==
    ASSUME TypeInv, RoutePrefixes, [Next]_vars
    PROVE  RoutePrefixes'
<1>1. ASSUME NEW b \in Clients, client'[b].pc \in RoutedStates
      PROVE  IsPrefix(client'[b].route.prefix, RingHash[client'[b].op.kw])
  <2>1. client[b].op \in Ops /\ client'[b].op = client[b].op /\ client[b].op.kw \in Keywords
    BY <1>1, ClientRoutes, OpTyped
  <2>2. RouteComes(b)
    BY <1>1, ClientRoutes
  <2> QED BY <2>1, <2>2, RoutesBegin, EmptyBegins DEF RouteComes, RoutePrefixes
<1>2. ASSUME NEW kw \in Keywords, overrides'[kw] # NoRoute
      PROVE  IsPrefix(overrides'[kw].prefix, RingHash[kw])
  <2>1. CASE overrides'[kw] = overrides[kw]
    BY <1>2, <2>1 DEF RoutePrefixes
  <2>2. ASSUME NEW c \in Clients, Record(c), client[c].op.kw = kw,
               overrides'[kw] = client[c].route
        PROVE  IsPrefix(overrides'[kw].prefix, RingHash[kw])
    <3>1. client[c].pc \in RoutedStates
      BY <2>2 DEF Record, RoutedStates
    <3> QED BY <2>2, <3>1 DEF RoutePrefixes
  <2>3. ASSUME ReplayRecord, Head(task.replay).kw = kw, overrides'[kw] = task.route
        PROVE  IsPrefix(overrides'[kw].prefix, RingHash[kw])
    <3>1. task.pc = "replay_record"
      BY <2>3 DEF ReplayRecord
    <3> QED BY <2>3, <3>1 DEF RoutePrefixes
  <2> QED BY <1>2, <2>1, <2>2, <2>3, OverrideComes
<1>3. ASSUME task'.pc \in {"replay_rpc", "replay_record"}
      PROVE  IsPrefix(task'.route.prefix, RingHash[Head(task'.replay).kw])
  <2>1. Head(task'.replay) = Head(task.replay) /\ Head(task.replay).kw \in Keywords
    BY <1>3, ReplayRoutes
  <2>2. CASE task.pc \in {"replay_rpc", "replay_record"} /\ task'.route = task.route
    BY <2>1, <2>2 DEF RoutePrefixes
  <2>3. CASE task'.route = RouteKeyword(Head(task.replay).kw)
    BY <2>1, <2>3, RoutesBegin
  <2> QED BY <1>3, <2>2, <2>3, ReplayRoutes
<1> QED BY <1>1, <1>2, <1>3, Zenon DEF RoutePrefixes

\* A handler comes to schedule a plan by the split it recorded.
LEMMA Scheduling ==
    ASSUME TypeInv, [Next]_vars, NEW b \in Clients, client'[b].pc = "schedule",
           client'[b] # client[b]
    PROVE  LET op == client[b].op
               q == client[b].route.prefix
           IN
           /\ Record(b) /\ SplitsOn(op, q) /\ client[b].pc = "record"
           /\ client'[b].plan = SplitPlan(q, entries) /\ client'[b].plan.parent = q
           /\ client'[b].op = op
           /\ op \in Ops /\ op.kw \in Keywords /\ q \in Prefixes
           /\ entries' = RecordedEntries(op, q)
           /\ \A a \in Clients \ {b} : client'[a] = client[a]
<1> DEFINE op == client[b].op
           q == client[b].route.prefix
<1>0. client \in [Clients -> ClientType]
  BY DEF TypeInv
<1>1. PICK c \in Clients : ClientStep(c) \/ \E o \in Ops : Request(c, o)
  BY Changes
<1>2. ~(\E o \in Ops : Request(c, o))
  <2> SUFFICES ASSUME NEW o \in Ops, Request(c, o) PROVE FALSE
    OBVIOUS
  <2> DEFINE pc == IF ActiveMigrations(o.kw) # {} THEN "buffer" ELSE "route"
  <2>1. client' = [client EXCEPT ![c].pc = pc, ![c].op = o]
    BY DEF Request
  <2>2. pc # "schedule"
    OBVIOUS
  <2> HIDE DEF pc
  <2>3. client'[b] = client[b] \/ client'[b].pc = pc
    BY <1>0, <2>1 DEF ClientType
  <2> QED BY <2>2, <2>3
<1>3. PICK x : Onward(c, x)
  BY <1>1, <1>2, StepOnward
<1>4. c = b /\ client'[b] = x /\ \A a \in Clients \ {b} : client'[a] = client[a]
  BY <1>0, <1>3, OnwardClients
<1>5. client[b].pc = "record"
  BY <1>3, <1>4 DEF Onward
<1>6. Record(b)
  BY <1>1, <1>2, <1>4, <1>5
     DEF ClientStep, Route, Recheck, Buffer, BufferRefused, StoragerRpc, Schedule
<1>7. op \in Ops /\ op.kw \in Keywords /\ client[b].route \in Routes /\ client[b] \in ClientType
  BY <1>5, BusyTyped DEF Busy, RoutedStates
<1>8. q \in Prefixes
  BY <1>7 DEF Routes
<1>9. SplitsOn(op, q)
  <2> SUFFICES ASSUME ~SplitsOn(op, q) PROVE FALSE
    OBVIOUS
  <2>1. client'[b] = IdleClient
    BY <1>0, <1>6 DEF Record
  <2> QED BY <2>1 DEF IdleClient
<1> DEFINE plan == SplitPlan(q, entries)
<1>10. client' = [client EXCEPT ![b].pc = "schedule", ![b].plan = plan]
       /\ entries' = RecordedEntries(op, q)
  BY <1>6, <1>9 DEF Record
<1>11. plan.parent = q
  BY DEF SplitPlan
<1> HIDE DEF plan
<1>12. client'[b].plan = plan /\ client'[b].op = op
  BY <1>0, <1>7, <1>10 DEF ClientType
<1> QED BY <1>4, <1>5, <1>6, <1>7, <1>8, <1>9, <1>10, <1>11, <1>12 DEF plan

\* Splits stay, until a reset.
LEMMA SplitsStay ==
    ASSUME TypeInv, [Next]_vars, ~Reset, NEW p, SplitAt(entries, p)
    PROVE  SplitAt(entries', p)
<1>1. Grown(entries, entries')
  <2>1. CASE entries' = entries
    BY <2>1 DEF Grown
  <2>2. ASSUME NEW c \in Clients, Record(c) PROVE Grown(entries, entries')
    <3>1. client[c].op \in Ops /\ client[c].route \in Routes
      BY <2>2, BusyTyped DEF Record, Busy, RoutedStates
    <3>2. client[c].route.prefix \in Prefixes
      BY <3>1 DEF Routes
    <3> QED BY <2>2, <3>1, <3>2, RecordedRoutes DEF Record
  <2>3. CASE ReplayRecord
    BY <2>3, Replayed, RecordedRoutes DEF ReplayRecord
  <2> QED BY <2>1, <2>2, <2>3, Changes
<1> QED BY <1>1 DEF Grown, SplitAt

\* Every step keeps the parents as they should be.
LEMMA ParentsKept ==
    ASSUME TypeInv, ParentsFit, [Next]_vars
    PROVE  ParentsFit'
<1>0. client \in [Clients -> ClientType]
  BY DEF TypeInv
<1>1. CASE Reset
  <2>1. DOMAIN migrations' = {} /\ client' = client /\ \A c \in Clients : client[c].pc = "idle"
    BY <1>1 DEF Reset, CanReset
  <2> QED BY <2>1 DEF ParentsFit
<1>2. CASE ~Reset
  <2>1. \A p : SplitAt(entries, p) => SplitAt(entries', p)
    BY <1>2, SplitsStay
  <2>2. ASSUME NEW b \in Clients, client'[b].pc = "schedule", client'[b] # client[b]
        PROVE  LET p == client'[b].plan.parent IN
               /\ SplitAt(entries', p) /\ ~SplitAt(entries, p)
               /\ \A a \in Clients \ {b} : client'[a] = client[a]
               /\ DOMAIN migrations' = DOMAIN migrations
    <3> DEFINE q == client[b].route.prefix
               op == client[b].op
    <3>1. /\ Record(b) /\ SplitsOn(op, q) /\ client'[b].plan.parent = q
          /\ op \in Ops /\ q \in Prefixes /\ entries' = RecordedEntries(op, q)
          /\ \A a \in Clients \ {b} : client'[a] = client[a]
      BY <2>2, Scheduling
    <3>2. migrations' = migrations
      BY <3>1 DEF Record
    <3> HIDE DEF q, op
    <3>3. SplitAt(entries', q) /\ ~SplitAt(entries, q)
      BY <3>1, RecordedRoutes
    <3> QED BY <3>1, <3>2, <3>3
  <2>3. ASSUME NEW p \in DOMAIN migrations', p \notin DOMAIN migrations
        PROVE  \E c \in Clients :
                /\ client[c].pc = "schedule" /\ p = client[c].plan.parent
                /\ client'[c] = IdleClient /\ \A a \in Clients \ {c} : client'[a] = client[a]
    <3>1. PICK c \in Clients : Schedule(c)
      <4>1. \A c \in Clients : Buffer(c) => DOMAIN migrations' = DOMAIN migrations
        BY BufferEffect
      <4>2. TakePending => DOMAIN migrations' = DOMAIN migrations
        BY TakeEffect DEF TakePending
      <4>3. Finish => DOMAIN migrations' = DOMAIN migrations
        BY FinishEffect
      <4> QED BY <1>2, <2>3, <4>1, <4>2, <4>3, Changes
    <3>2. p = client[c].plan.parent
      BY <2>3, <3>1, ScheduleEffect
    <3>3. client[c].pc = "schedule" /\ client' = [client EXCEPT ![c] = IdleClient]
      BY <3>1 DEF Schedule
    <3> QED BY <1>0, <3>2, <3>3
  <2>4. \A p \in DOMAIN migrations' : SplitAt(entries', p)
    BY <2>1, <2>3 DEF ParentsFit
  <2>5. ASSUME NEW b \in Clients, client'[b].pc = "schedule"
        PROVE  /\ SplitAt(entries', client'[b].plan.parent)
               /\ client'[b].plan.parent \notin DOMAIN migrations'
    <3>1. CASE client'[b] = client[b]
      <4>1. SplitAt(entries', client[b].plan.parent) /\ client[b].plan.parent \notin DOMAIN migrations
        BY <2>1, <2>5, <3>1 DEF ParentsFit
      <4>2. ASSUME client[b].plan.parent \in DOMAIN migrations' PROVE FALSE
        <5>1. PICK c \in Clients :
                /\ client[c].pc = "schedule" /\ client[b].plan.parent = client[c].plan.parent
                /\ client'[c] = IdleClient
          BY <2>3, <4>1, <4>2
        <5>2. c # b
          BY <2>5, <5>1 DEF IdleClient
        <5> QED BY <2>5, <3>1, <5>1, <5>2 DEF ParentsFit
      <4> QED BY <3>1, <4>1, <4>2
    <3>2. CASE client'[b] # client[b]
      BY <2>2, <2>5, <3>2 DEF ParentsFit
    <3> QED BY <3>1, <3>2
  <2>6. ASSUME NEW a \in Clients, NEW b \in Clients, a # b,
               client'[a].pc = "schedule", client'[b].pc = "schedule"
        PROVE  client'[a].plan.parent # client'[b].plan.parent
    <3>1. CASE client'[a] = client[a] /\ client'[b] = client[b]
      BY <2>6, <3>1 DEF ParentsFit
    <3>2. CASE client'[a] # client[a]
      <4>1. client'[b] = client[b] /\ ~SplitAt(entries, client'[a].plan.parent)
        BY <2>2, <2>6, <3>2
      <4> QED BY <2>6, <4>1 DEF ParentsFit
    <3>3. CASE client'[b] # client[b]
      <4>1. client'[a] = client[a] /\ ~SplitAt(entries, client'[b].plan.parent)
        BY <2>2, <2>6, <3>3
      <4> QED BY <2>6, <4>1 DEF ParentsFit
    <3> QED BY <3>1, <3>2, <3>3
  <2> QED BY <2>4, <2>5, <2>6, Zenon DEF ParentsFit
<1> QED BY <1>1, <1>2

(***************************************************************************)
(* A keyword moves by one plan                                             *)
(***************************************************************************)
OverIn(plans, kw) == {plan \in plans : Over(plan, kw)}

\* A step that leaves alone where a keyword is routed and how it moves.
QuietPlans(kw) ==
    /\ RingRoute(kw)' = RingRoute(kw)
    /\ ActiveMigrations(kw)' = ActiveMigrations(kw)
    /\ \A p \in ActiveMigrations(kw) : migrations'[p].source = migrations[p].source
    /\ OverIn(Windows, kw)' = OverIn(Windows, kw)
    /\ OverIn(queue, kw)' = OverIn(queue, kw)
    /\ \/ task'.pc = "idle" \/ ~Over(task'.plan, kw)
       \/ task.pc # "idle" /\ task'.plan = task.plan

\* The recording that splits the prefix a keyword is routed to.
RecordSplits(c, kw) ==
    /\ Record(c) /\ SplitsOn(client[c].op, client[c].route.prefix)
    /\ IsPrefix(client[c].route.prefix, RingHash[kw])

ScheduleOver(c, kw) == Schedule(c) /\ Over(client[c].plan, kw)

StartOver(kw) == TaskStart /\ Over(task'.plan, kw)

FinishOver(kw) == Finish /\ Over(task.plan, kw)

\* Who moves a route: a split that a replay makes overtakes its keywords.
LEMMA RouteStays ==
    ASSUME TypeInv, [Next]_vars, ~Reset, NEW kw \in Keywords, kw \notin raced'
    PROVE  RingRoute(kw)' = RingRoute(kw) \/ \E c \in Clients : RecordSplits(c, kw)
<1>1. CASE entries' = entries
  BY <1>1 DEF RingRoute
<1>2. ASSUME NEW c \in Clients, Record(c)
      PROVE  RingRoute(kw)' = RingRoute(kw) \/ RecordSplits(c, kw)
  <2> DEFINE op == client[c].op
             q == client[c].route.prefix
  <2>1. op \in Ops /\ client[c].route \in Routes /\ entries' = RecordedEntries(op, q)
    BY <1>2, BusyTyped DEF Record, Busy, RoutedStates
  <2>2. q \in Prefixes
    BY <2>1 DEF Routes
  <2>3. ~(SplitsOn(op, q) /\ IsPrefix(q, RingHash[kw])) => RingRoute(kw)' = RingRoute(kw)
    BY <2>1, <2>2, RecordedRoutes
  <2> QED BY <1>2, <2>3 DEF RecordSplits
<1>3. CASE ReplayRecord
  <2> DEFINE op == Head(task.replay)
             q == task.route.prefix
  <2>1. op \in Ops /\ q \in Prefixes /\ entries' = RecordedEntries(op, q)
    BY <1>3, Replayed DEF ReplayRecord
  <2>2. ~(SplitsOn(op, q) /\ IsPrefix(q, RingHash[kw]))
    BY <1>3 DEF ReplayRecord, KeywordsUnder
  <2> QED BY <2>1, <2>2, RecordedRoutes
<1> QED BY <1>1, <1>2, <1>3, Changes

\* Who changes what a keyword moves from.
LEMMA ActiveStays ==
    ASSUME TypeInv, [Next]_vars, ~Reset, NEW kw \in Keywords
    PROVE  \/ /\ ActiveMigrations(kw)' = ActiveMigrations(kw)
              /\ \A p \in ActiveMigrations(kw) : migrations'[p].source = migrations[p].source
           \/ \E c \in Clients : ScheduleOver(c, kw)
           \/ FinishOver(kw)
<1>1. ASSUME DOMAIN migrations' = DOMAIN migrations,
             \A p \in DOMAIN migrations : IsPrefix(p, RingHash[kw]) =>
                /\ migrations'[p].source = migrations[p].source
                /\ migrations'[p].confirmed = migrations[p].confirmed
      PROVE  /\ ActiveMigrations(kw)' = ActiveMigrations(kw)
             /\ \A p \in ActiveMigrations(kw) : migrations'[p].source = migrations[p].source
  BY <1>1 DEF ActiveMigrations
<1>2. CASE QuietLists \/ ReplayRecord
  <2>1. migrations' = migrations
    BY <1>2 DEF QuietLists, ReplayRecord
  <2> QED BY <1>1, <2>1
<1>3. ASSUME NEW c \in Clients, Buffer(c)
      PROVE  /\ ActiveMigrations(kw)' = ActiveMigrations(kw)
             /\ \A p \in ActiveMigrations(kw) : migrations'[p].source = migrations[p].source
  <2>1. PICK p \in ActiveMigrations(client[c].op.kw) :
            /\ DOMAIN migrations' = DOMAIN migrations
            /\ migrations'[p].source = migrations[p].source
            /\ migrations'[p].confirmed = migrations[p].confirmed
            /\ \A q \in DOMAIN migrations \ {p} : migrations'[q] = migrations[q]
    BY <1>3, BufferEffect
  <2> QED BY <1>1, <2>1
<1>4. ASSUME NEW c \in Clients, Schedule(c), ~ScheduleOver(c, kw)
      PROVE  /\ ActiveMigrations(kw)' = ActiveMigrations(kw)
             /\ \A p \in ActiveMigrations(kw) : migrations'[p].source = migrations[p].source
  <2> DEFINE p == client[c].plan.parent
  <2>1. ~IsPrefix(p, RingHash[kw])
    BY <1>4 DEF ScheduleOver, Over
  <2>2. \/ migrations' = migrations
        \/ /\ DOMAIN migrations' = DOMAIN migrations \cup {p}
           /\ \A q \in DOMAIN migrations \ {p} : migrations'[q] = migrations[q]
    BY <1>4, ScheduleEffect
  <2> HIDE DEF p
  <2> QED BY <2>1, <2>2 DEF ActiveMigrations
<1>5. CASE TakePending /\ task.plan.parent \in DOMAIN migrations
  BY <1>1, <1>5, TakeEffect
<1>6. CASE Finish /\ ~FinishOver(kw)
  <2>1. ~IsPrefix(task.plan.parent, RingHash[kw])
    BY <1>6 DEF FinishOver, Over
  <2> QED BY <1>1, <1>6, <2>1, FinishEffect
<1> QED BY <1>2, <1>3, <1>4, <1>5, <1>6, QuietSteps

\* Who opens a window and who closes one.
LEMMA WindowsChange ==
    ASSUME TypeInv, [Next]_vars
    PROVE  /\ \A plan \in Windows' : plan \in Windows \/
                \E b \in Clients : /\ client'[b].pc = "schedule" /\ client'[b] # client[b]
                                   /\ plan = client'[b].plan
           /\ \A plan \in Windows : plan \in Windows' \/
                \E c \in Clients : Schedule(c) /\ plan = client[c].plan
<1>0. client \in [Clients -> ClientType]
  BY DEF TypeInv
<1>1. \A plan \in Windows' : plan \in Windows \/
            \E b \in Clients : /\ client'[b].pc = "schedule" /\ client'[b] # client[b]
                               /\ plan = client'[b].plan
  BY DEF Windows
<1>2. ASSUME NEW b \in Clients, client[b].pc = "schedule", ~Schedule(b)
      PROVE  client'[b] = client[b]
  <2>1. CASE client' = client
    BY <2>1
  <2>2. ASSUME NEW c \in Clients, ClientStep(c) PROVE client'[b] = client[b]
    <3>1. c # b
      BY <1>2, <2>2
         DEF ClientStep, Route, Recheck, Buffer, BufferRefused, StoragerRpc, Record
    <3> QED BY <1>0, <2>2, <3>1, StepOnward, OnwardClients
  <2>3. ASSUME NEW c \in Clients, NEW o \in Ops, Request(c, o) PROVE client'[b] = client[b]
    BY <1>0, <1>2, <2>3 DEF Request
  <2> QED BY <2>1, <2>2, <2>3, Changes
<1> QED BY <1>1, <1>2 DEF Windows

LEMMA WindowsStay ==
    ASSUME TypeInv, [Next]_vars, NEW kw \in Keywords
    PROVE  \/ OverIn(Windows, kw)' = OverIn(Windows, kw)
           \/ \E c \in Clients : RecordSplits(c, kw) \/ ScheduleOver(c, kw)
<1>1. ASSUME NEW plan \in Windows', Over(plan, kw), \A c \in Clients : ~RecordSplits(c, kw)
      PROVE  plan \in Windows
  <2> SUFFICES ASSUME NEW b \in Clients, client'[b].pc = "schedule", client'[b] # client[b],
                      plan = client'[b].plan
               PROVE  FALSE
    BY WindowsChange
  <2> DEFINE q == client[b].route.prefix
  <2>1. Record(b) /\ SplitsOn(client[b].op, q) /\ plan.parent = q
    BY Scheduling
  <2> QED BY <1>1, <2>1 DEF Over, RecordSplits
<1>2. ASSUME NEW plan \in Windows, Over(plan, kw), \A c \in Clients : ~ScheduleOver(c, kw)
      PROVE  plan \in Windows'
  BY <1>2, WindowsChange DEF ScheduleOver
<1>3. \A plan : Over(plan, kw)' <=> Over(plan, kw)
  BY DEF Over
<1> QED BY <1>1, <1>2, <1>3 DEF OverIn

\* Who changes what is queued.
LEMMA QueueStays ==
    ASSUME TypeInv, [Next]_vars, NEW kw \in Keywords
    PROVE  \/ OverIn(queue, kw)' = OverIn(queue, kw)
           \/ \E c \in Clients : ScheduleOver(c, kw)
           \/ StartOver(kw)
<1>1. ASSUME NEW c \in Clients, ClientStep(c) \/ \E o \in Ops : Request(c, o), ~Schedule(c)
      PROVE  queue' = queue
  BY <1>1 DEF ClientStep, Route, Recheck, Buffer, BufferRefused, StoragerRpc, Record, Request
<1>2. ASSUME TaskStep, ~TaskStart PROVE queue' = queue
  BY <1>2 DEF TaskStep, Prepare, Import, Confirm, ClearOverrides, TakePending,
              ReplayRoute, ReplayRpc, ReplayRecord, Finish
<1>3. CASE Failure \/ Reset \/ UNCHANGED vars
  <2>1. queue' = queue
    BY <1>3 DEF Failure, TaskFails, ResetFails, ImportFails, Reset, vars
  <2> QED BY <2>1 DEF OverIn, Over
<1>4. ASSUME NEW c \in Clients, Schedule(c), ~ScheduleOver(c, kw)
      PROVE  OverIn(queue, kw)' = OverIn(queue, kw)
  <2>1. queue' = queue \/ queue' = queue \cup {client[c].plan}
    BY <1>4, ScheduleEffect
  <2> QED BY <1>4, <2>1 DEF OverIn, Over, ScheduleOver
<1>5. CASE TaskStart /\ ~StartOver(kw)
  <2>1. PICK plan \in queue : queue' = queue \ {plan} /\ task'.plan = plan
    BY <1>5, StartTask
  <2> QED BY <1>5, <2>1 DEF OverIn, Over, StartOver
<1>6. CASE queue' = queue
  BY <1>6 DEF OverIn, Over
<1> QED BY <1>1, <1>2, <1>3, <1>4, <1>5, <1>6 DEF Next

\* The task keeps its plan until it ends.
LEMMA TaskPlanStays ==
    ASSUME TypeInv, [Next]_vars
    PROVE  task'.pc = "idle" \/ TaskStart \/ (task.pc # "idle" /\ task'.plan = task.plan)
<1>1. CASE task' = task
  BY <1>1
<1>2. CASE Prepare
  BY <1>2, PrepareTask
<1>3. CASE Confirm
  BY <1>3, ConfirmTask
<1>4. CASE ClearOverrides \/ ReplayRoute \/ ReplayRpc \/ ReplayRecord
  BY <1>4, ReplayTask
<1>5. CASE TakePending
  BY <1>5, ReplayTask, IdleFields DEF TakePending
<1>6. CASE Finish \/ TaskFails
  BY <1>6, IdleFields DEF Finish, TaskFails
<1>7. ASSUME NEW d \in Digits, Import(d) \/ ImportFails(d)
      PROVE  task'.pc = "idle" \/ (task.pc # "idle" /\ task'.plan = task.plan)
  BY <1>7, ImportTask, IdleFields
<1> QED BY <1>1, <1>2, <1>3, <1>4, <1>5, <1>6, <1>7, Changes DEF TaskStep

\* The steps that change how a keyword moves: the split, its scheduling, the start of its
\* task and the end of it.
LEMMA QuietPlanSteps ==
    ASSUME TypeInv, [Next]_vars, ~Reset, NEW kw \in Keywords, kw \notin raced'
    PROVE  \/ QuietPlans(kw)
           \/ \E c \in Clients : RecordSplits(c, kw) \/ ScheduleOver(c, kw)
           \/ StartOver(kw) \/ FinishOver(kw)
<1>1. \/ task'.pc = "idle" \/ ~Over(task'.plan, kw) \/ StartOver(kw)
      \/ task.pc # "idle" /\ task'.plan = task.plan
  BY TaskPlanStays DEF StartOver
<1> QED BY <1>1, RouteStays, ActiveStays, WindowsStay, QueueStays DEF QuietPlans

\* A keyword in a window moves from nowhere else.
LEMMA WindowAlone ==
    ASSUME TypeInv, ParentsFit, NEW kw \in Keywords, PlansFit(kw),
           NEW c \in Clients, client[c].pc = "schedule", Over(client[c].plan, kw)
    PROVE  /\ ActiveMigrations(kw) = {}
           /\ \A b \in Clients : client[b].pc = "schedule" /\ Over(client[b].plan, kw) => b = c
           /\ OverIn(queue, kw) = {}
           /\ task.pc # "idle" => ~Over(task.plan, kw)
<1> DEFINE plan == client[c].plan
<1>1. /\ plan \in Windows /\ plan.parent \in Prefixes /\ plan.parent \notin DOMAIN migrations
      /\ \A b \in Clients : client[b].pc = "schedule" =>
            client[b].plan \in Windows /\ client[b].plan.parent \in Prefixes
  <2>1. \A b \in Clients : client[b].pc = "schedule" => Splittable(client[b].plan)
    BY BusyTyped DEF Busy
  <2> QED BY <2>1 DEF Windows, ParentsFit, Splittable, Plans
<1>2. \A p \in ActiveMigrations(kw) : p \in DOMAIN migrations /\ p \in Prefixes /\ IsPrefix(p, RingHash[kw])
  BY DEF ActiveMigrations, TypeInv, MigrationsFit
<1>3. \A p \in Prefixes : Len(p) \in Nat
  BY PrefixIsSeq, LenProperties
<1>4. ActiveMigrations(kw) = {}
  <2> SUFFICES ASSUME NEW p \in ActiveMigrations(kw) PROVE FALSE
    OBVIOUS
  <2>1. Len(RingRoute(kw).prefix) = Len(p) + 1 /\ Len(RingRoute(kw).prefix) = Len(plan.parent) + 1
    BY <1>1 DEF PlansFit, PlanRoutes
  <2>2. Len(p) = Len(plan.parent)
    BY <1>1, <1>2, <1>3, <2>1
  <2>3. p = plan.parent
    BY <1>1, <1>2, <2>2, SameParent DEF Over
  <2> QED BY <1>1, <1>2, <2>3
<1>5. ASSUME NEW b \in Clients, client[b].pc = "schedule", Over(client[b].plan, kw) PROVE b = c
  <2>1. Len(RingRoute(kw).prefix) = Len(client[b].plan.parent) + 1
        /\ Len(RingRoute(kw).prefix) = Len(plan.parent) + 1
    BY <1>1, <1>5 DEF PlansFit, PlanRoutes
  <2>2. Len(client[b].plan.parent) = Len(plan.parent)
    BY <1>1, <1>3, <1>5, <2>1
  <2>3. client[b].plan.parent = plan.parent
    BY <1>1, <1>5, <2>2, SameParent DEF Over
  <2> QED BY <1>5, <2>3 DEF ParentsFit
<1>6. \A pl : PlanAttached(pl, kw) => FALSE
  BY <1>4 DEF PlanAttached
<1> QED BY <1>4, <1>5, <1>6 DEF PlansFit, OverIn

\* A prefix one digit shorter begins every hash the longer one begins.
LEMMA ShorterBegins ==
    ASSUME NEW p \in Prefixes, NEW q \in Prefixes, NEW h1 \in KeyHashes, NEW h2 \in KeyHashes,
           Len(q) = Len(p) + 1,
           IsPrefix(p, h1), IsPrefix(q, h1), IsPrefix(q, h2)
    PROVE  IsPrefix(p, h2)
<1>1. Len(p) \in Nat /\ Len(q) \in Nat
  BY PrefixIsSeq, LenProperties
<1>2. \A k \in 1 .. Len(p) : k \in 1 .. Len(q) /\ p[k] = h1[k] /\ q[k] = h1[k] /\ q[k] = h2[k]
  BY <1>1 DEF IsPrefix
<1>3. Len(h2) \in Nat
  BY HashIsPrefix, RingShape
<1> QED BY <1>1, <1>2, <1>3 DEF IsPrefix

\* The split of the prefix a keyword is routed to begins its move, or overtakes it.
LEMMA SplitOver ==
    ASSUME TypeInv, RoutePrefixes, NEW kw \in Keywords, PlansFit(kw), kw \notin raced',
           NEW c \in Clients, RecordSplits(c, kw)
    PROVE  /\ ActiveMigrations(kw) = {} /\ OverIn(Windows, kw) = {}
           /\ \E plan :
                /\ Over(plan, kw) /\ PlanRoutes(plan, kw)' /\ RingRoute(kw).node = plan.source
                /\ OverIn(Windows, kw)' = {plan}
<1> DEFINE op == client[c].op
           route == client[c].route
           q == route.prefix
           plan == SplitPlan(q, entries)
<1>1. /\ client[c].pc = "record" /\ Record(c) /\ SplitsOn(op, q) /\ IsPrefix(q, RingHash[kw])
      /\ entries' = RecordedEntries(op, q)
      /\ client' = [client EXCEPT ![c].pc = "schedule", ![c].plan = plan]
  BY DEF RecordSplits, Record
<1>2. op \in Ops /\ op.kw \in Keywords /\ route \in Routes /\ q \in Prefixes /\ plan.parent = q
      /\ client[c] \in ClientType /\ client \in [Clients -> ClientType]
  BY <1>1, BusyTyped DEF Busy, RoutedStates, Routes, SplitPlan, TypeInv
<1>3. /\ RingRoute(kw).prefix = q /\ RingRoute(kw).node = plan.source
      /\ Len(RingRoute(kw)'.prefix) = Len(q) + 1
      /\ RingRoute(kw)'.node = plan.targets[RingHash[kw][Len(q) + 1]]
  BY <1>1, <1>2, RecordedRoutes
<1>4. IsPrefix(q, RingHash[op.kw])
  BY <1>1 DEF RoutePrefixes, RoutedStates
<1>5. RingHash[kw] \in KeyHashes /\ RingHash[op.kw] \in KeyHashes
  BY <1>2, HashesAssumption
<1>6. ASSUME NEW p \in Prefixes, IsPrefix(p, RingHash[kw]), Len(q) = Len(p) + 1
      PROVE  IsPrefix(p, RingHash[op.kw]) /\ q # <<>>
  <2>1. Len(p) \in Nat
    BY PrefixIsSeq, LenProperties
  <2>2. q # <<>>
    BY <1>6, <2>1, EmptySeq
  <2> QED BY <1>1, <1>2, <1>4, <1>5, <1>6, <2>2, ShorterBegins
<1>7. q # <<>> => ~Stale(op, route)
  <2> SUFFICES ASSUME q # <<>>, Stale(op, route) PROVE FALSE
    OBVIOUS
  <2>1. raced' = raced \cup Overtaken(op, route)
    BY <1>1 DEF Record
  <2>2. kw \in Overtaken(op, route)
    BY <1>1 DEF Overtaken, KeywordsUnder
  <2> QED BY <2>1, <2>2
<1>8. ActiveMigrations(kw) = {}
  <2> SUFFICES ASSUME NEW p \in ActiveMigrations(kw) PROVE FALSE
    OBVIOUS
  <2>1. p \in DOMAIN migrations /\ ~migrations[p].confirmed /\ p \in Prefixes
        /\ IsPrefix(p, RingHash[kw])
    BY DEF ActiveMigrations, TypeInv, MigrationsFit
  <2>2. Len(q) = Len(p) + 1
    BY <1>3 DEF PlansFit
  <2>3. p \in ActiveMigrations(op.kw) /\ q # <<>>
    BY <1>6, <2>1, <2>2 DEF ActiveMigrations
  <2> QED BY <1>7, <2>3 DEF Stale
<1>9. ASSUME NEW b \in Clients, client[b].pc = "schedule", Over(client[b].plan, kw) PROVE FALSE
  <2> DEFINE p == client[b].plan.parent
  <2>1. p \in Prefixes /\ IsPrefix(p, RingHash[kw])
    BY <1>9, BusyTyped DEF Busy, Splittable, Plans, Over
  <2>2. Len(q) = Len(p) + 1
    BY <1>3, <1>9 DEF PlansFit, PlanRoutes, Windows
  <2>3. IsPrefix(p, RingHash[op.kw]) /\ q # <<>>
    BY <1>6, <2>1, <2>2
  <2> QED BY <1>7, <1>9, <2>3 DEF Stale
<1> HIDE DEF plan, op, q, route
<1>10. client'[c].pc = "schedule" /\ client'[c].plan = plan
       /\ \A b \in Clients \ {c} : client'[b] = client[b]
  BY <1>1, <1>2 DEF ClientType
<1>11. Over(plan, kw)
  BY <1>1, <1>2 DEF Over
<1>12. OverIn(Windows, kw) = {}
  BY <1>9 DEF OverIn, Windows
<1>13. OverIn(Windows, kw)' = {plan}
  BY <1>9, <1>10, <1>11 DEF OverIn, Windows, Over
<1>14. \A pl : pl = plan => PlanRoutes(pl, kw)'
  BY <1>2, <1>3 DEF PlanRoutes, DigitOf
<1> QED BY <1>3, <1>8, <1>11, <1>12, <1>13, <1>14

\* The scheduling turns the window into a state and a queued plan.
LEMMA ScheduledOver ==
    ASSUME TypeInv, ParentsFit, NEW kw \in Keywords, PlansFit(kw),
           NEW c \in Clients, ScheduleOver(c, kw)
    PROVE  \E plan \in Windows :
            /\ Over(plan, kw) /\ PlanRoutes(plan, kw)
            /\ ActiveMigrations(kw) = {}
            /\ task.pc # "idle" => ~Over(task.plan, kw)
            /\ RingRoute(kw)' = RingRoute(kw)
            /\ ActiveMigrations(kw)' = {plan.parent}
            /\ migrations'[plan.parent].source = plan.source
            /\ OverIn(Windows, kw)' = {} /\ OverIn(queue, kw)' = {plan}
            /\ task' = task /\ store' = store /\ raced' = raced
<1> DEFINE plan == client[c].plan
<1>1. /\ Schedule(c) /\ Over(plan, kw) /\ client[c].pc = "schedule" /\ plan \in Windows
      /\ client' = [client EXCEPT ![c] = IdleClient]
      /\ entries' = entries /\ task' = task /\ store' = store /\ raced' = raced
  BY DEF ScheduleOver, Schedule, Windows, router
<1>2. /\ ActiveMigrations(kw) = {}
      /\ \A b \in Clients : client[b].pc = "schedule" /\ Over(client[b].plan, kw) => b = c
      /\ OverIn(queue, kw) = {}
      /\ task.pc # "idle" => ~Over(task.plan, kw)
  BY <1>1, WindowAlone
<1>3. PlanRoutes(plan, kw)
  BY <1>1 DEF PlansFit
<1>4. RingRoute(kw)' = RingRoute(kw)
  BY <1>1 DEF RingRoute
<1>5. plan.parent \notin DOMAIN migrations
  BY <1>1 DEF ParentsFit
<1>6. /\ DOMAIN migrations' = DOMAIN migrations \cup {plan.parent}
      /\ migrations'[plan.parent].source = plan.source
      /\ ~migrations'[plan.parent].confirmed
      /\ \A q \in DOMAIN migrations \ {plan.parent} : migrations'[q] = migrations[q]
      /\ queue' = queue \cup {plan}
  BY <1>1, <1>5, ScheduleEffect
<1>7. client \in [Clients -> ClientType]
  BY DEF TypeInv
<1> HIDE DEF plan
<1>8. ActiveMigrations(kw)' = {plan.parent}
  BY <1>1, <1>2, <1>5, <1>6 DEF ActiveMigrations, Over
<1>9. OverIn(Windows, kw)' = {}
  <2>1. \A b \in Clients : client'[b].pc = "schedule" => b # c /\ client'[b] = client[b]
    BY <1>1, <1>7 DEF IdleClient
  <2> QED BY <1>2, <2>1 DEF OverIn, Windows, Over
<1>10. OverIn(queue, kw)' = {plan}
  BY <1>1, <1>2, <1>6 DEF OverIn, Over
<1> QED BY <1>1, <1>2, <1>3, <1>4, <1>6, <1>8, <1>9, <1>10

\* The start of its task takes the plan from the queue.
LEMMA StartedOver ==
    ASSUME TypeInv, NEW kw \in Keywords, PlansFit(kw), StartOver(kw)
    PROVE  \E plan \in queue :
            /\ Over(plan, kw) /\ PlanAttached(plan, kw)
            /\ task'.plan = plan /\ plan \in Plans
            /\ OverIn(queue, kw)' = {}
            /\ DOMAIN task'.segments = {} /\ task'.imported = {}
            /\ task'.pc = IF Moved(plan) = {} THEN "clear" ELSE "prepare"
            /\ UNCHANGED <<entries, migrations, client, store, raced>>
<1>1. PICK plan \in queue :
            /\ queue' = queue \ {plan} /\ task'.plan = plan /\ plan \in Plans
            /\ DOMAIN task'.segments = {} /\ task'.imported = {}
            /\ task'.pc = IF Moved(plan) = {} THEN "clear" ELSE "prepare"
  BY StartTask DEF StartOver
<1>2. Over(plan, kw)
  BY <1>1 DEF StartOver, Over
<1>3. PlanAttached(plan, kw) /\ \A other \in queue : Over(other, kw) => other = plan
  BY <1>2 DEF PlansFit
<1>4. OverIn(queue, kw)' = {}
  BY <1>1, <1>3 DEF OverIn, Over
<1>5. UNCHANGED <<entries, migrations, client, store, raced>>
  BY DEF StartOver, TaskStart, router, ghosts
<1> QED BY <1>1, <1>2, <1>3, <1>4, <1>5

\* Its end lets the keyword go.
LEMMA FinishedOver ==
    ASSUME TypeInv, NEW kw \in Keywords, PlansFit(kw), FinishOver(kw)
    PROVE  /\ task.pc = "finish" /\ Over(task.plan, kw) /\ PlanAttached(task.plan, kw)
           /\ ActiveMigrations(kw)' = {} /\ OverIn(queue, kw) = {}
           /\ task'.pc = "idle" /\ UNCHANGED <<entries, client, queue, store, raced>>
<1> DEFINE p == task.plan.parent
<1>1. /\ task.pc = "finish" /\ task' = IdleTask /\ Over(task.plan, kw)
      /\ UNCHANGED <<entries, client, queue, store, raced>>
  BY DEF FinishOver, Finish, router, ghosts
<1>2. PlanAttached(task.plan, kw) /\ \A plan \in queue : ~Over(plan, kw)
  BY <1>1 DEF PlansFit
<1>3. p \in ActiveMigrations(kw)
  BY <1>2 DEF PlanAttached
<1>4. ActiveMigrations(kw) \subseteq {p}
  BY <1>3, OneActive
<1>5. /\ DOMAIN migrations' = DOMAIN migrations
      /\ p \in DOMAIN migrations => migrations'[p].confirmed
      /\ \A q \in DOMAIN migrations : q # p => migrations'[q] = migrations[q]
  BY FinishEffect DEF FinishOver
<1> HIDE DEF p
<1>6. ActiveMigrations(kw)' = {}
  BY <1>4, <1>5 DEF ActiveMigrations
<1> QED BY <1>1, <1>2, <1>6, IdleFields DEF OverIn

\* Every step keeps the plans, but for a keyword it taints.
LEMMA PlansKept ==
    ASSUME TypeInv, RoutePrefixes, ParentsFit, \A kw \in Keywords \ raced : PlansFit(kw),
           [Next]_vars, NEW kw \in Keywords, kw \notin raced'
    PROVE  PlansFit(kw)'
<1>1. CASE Reset
  <2>1. /\ DOMAIN migrations' = {} /\ client' = client /\ \A c \in Clients : client[c].pc = "idle"
        /\ task'.pc = "idle" /\ queue' = queue
        /\ \A plan \in queue : ~Over(plan, kw)
    BY <1>1 DEF Reset, CanReset, KeywordsUnder, Over
  <2>2. ActiveMigrations(kw)' = {} /\ Windows' = {}
    BY <2>1 DEF ActiveMigrations, Windows
  <2>3. \A plan : Over(plan, kw)' <=> Over(plan, kw)
    BY DEF Over
  <2> QED BY <2>1, <2>2, <2>3 DEF PlansFit
<1> SUFFICES ASSUME ~Reset, raced \subseteq raced' PROVE PlansFit(kw)'
  BY <1>1, RacedGrows
<1>2. kw \notin raced /\ PlansFit(kw) /\ \A plan : Over(plan, kw)' <=> Over(plan, kw)
  BY DEF Over
<1>3. CASE QuietPlans(kw)
  <2>1. \A plan : (PlanRoutes(plan, kw)' <=> PlanRoutes(plan, kw)) /\ (PlanAttached(plan, kw) => PlanAttached(plan, kw)')
    BY <1>3 DEF QuietPlans, PlanRoutes, PlanAttached, DigitOf
  <2>2. \A plan \in Windows' : Over(plan, kw) => plan \in Windows
    BY <1>3 DEF QuietPlans, OverIn, Over
  <2>3. \A plan \in queue' : Over(plan, kw) => plan \in queue
    BY <1>3 DEF QuietPlans, OverIn, Over
  <2>4. (task'.pc # "idle" /\ Over(task'.plan, kw)) => task.pc # "idle" /\ task'.plan = task.plan
    BY <1>3 DEF QuietPlans, Over
  <2>5. \A p \in ActiveMigrations(kw)' : Len(RingRoute(kw)'.prefix) = Len(p) + 1
    BY <1>2, <1>3 DEF QuietPlans, PlansFit
  <2>6. (task'.pc # "idle" /\ Over(task'.plan, kw)) =>
            PlanAttached(task.plan, kw)' /\ \A plan \in queue' : ~Over(plan, kw)
    <3> SUFFICES ASSUME task'.pc # "idle", Over(task'.plan, kw)
                 PROVE  PlanAttached(task.plan, kw)' /\ \A plan \in queue' : ~Over(plan, kw)
      OBVIOUS
    <3>1. task.pc # "idle" /\ task'.plan = task.plan /\ Over(task.plan, kw)
      BY <2>4
    <3>2. PICK pl : pl = task.plan
      OBVIOUS
    <3>3. PlanAttached(pl, kw) /\ \A plan \in queue : ~Over(plan, kw)
      BY <1>2, <3>1, <3>2 DEF PlansFit
    <3>4. PlanAttached(pl, kw)'
      BY <2>1, <3>3
    <3> QED BY <2>3, <3>1, <3>2, <3>3, <3>4 DEF PlanAttached, PlanRoutes, DigitOf
  <2> QED BY <1>2, <2>1, <2>2, <2>3, <2>5, <2>6 DEF PlansFit, Over
<1>4. ASSUME NEW c \in Clients, RecordSplits(c, kw) PROVE PlansFit(kw)'
  <2>1. ActiveMigrations(kw) = {}
    BY <1>2, <1>4, SplitOver
  <2>2. PICK plan : PlanRoutes(plan, kw)' /\ OverIn(Windows, kw)' = {plan}
    BY <1>2, <1>4, SplitOver
  <2>3. UNCHANGED <<migrations, queue, task>>
    BY <1>4 DEF RecordSplits, Record
  <2>4. ActiveMigrations(kw)' = {}
    BY <2>1, <2>3 DEF ActiveMigrations
  <2>5. \A pl : PlanAttached(pl, kw) => FALSE
    BY <2>1 DEF PlanAttached
  <2>6. /\ \A pl \in queue' : ~Over(pl, kw)
        /\ ~(task'.pc # "idle" /\ Over(task'.plan, kw))
    BY <1>2, <2>3, <2>5 DEF PlansFit
  <2> QED BY <1>2, <2>2, <2>4, <2>6 DEF PlansFit, OverIn, Over
<1>5. ASSUME NEW c \in Clients, ScheduleOver(c, kw) PROVE PlansFit(kw)'
  <2>1. PICK plan \in Windows :
            /\ Over(plan, kw) /\ PlanRoutes(plan, kw)
            /\ task.pc # "idle" => ~Over(task.plan, kw)
            /\ RingRoute(kw)' = RingRoute(kw)
            /\ ActiveMigrations(kw)' = {plan.parent}
            /\ migrations'[plan.parent].source = plan.source
            /\ OverIn(Windows, kw)' = {} /\ OverIn(queue, kw)' = {plan}
            /\ task' = task
    BY <1>2, <1>5, ScheduledOver
  <2>2. PlanRoutes(plan, kw)' /\ PlanAttached(plan, kw)'
    BY <2>1 DEF PlanAttached, PlanRoutes, DigitOf
  <2>3. Len(RingRoute(kw)'.prefix) = Len(plan.parent) + 1
    BY <2>1 DEF PlanRoutes
  <2> QED BY <1>2, <2>1, <2>2, <2>3 DEF PlansFit, OverIn, Over
<1>6. CASE StartOver(kw)
  <2>1. PICK plan \in queue :
            /\ Over(plan, kw) /\ PlanAttached(plan, kw)
            /\ task'.plan = plan /\ OverIn(queue, kw)' = {}
            /\ UNCHANGED <<entries, migrations, client>>
    BY <1>2, <1>6, StartedOver
  <2>2. RingRoute(kw)' = RingRoute(kw) /\ ActiveMigrations(kw)' = ActiveMigrations(kw)
        /\ Windows' = Windows
    BY <2>1 DEF RingRoute, ActiveMigrations, Windows
  <2>3. \A pl : (PlanRoutes(pl, kw)' <=> PlanRoutes(pl, kw)) /\ (PlanAttached(pl, kw)' <=> PlanAttached(pl, kw))
    BY <2>1, <2>2 DEF PlanRoutes, PlanAttached, DigitOf
  <2>4. PlanAttached(task.plan, kw)'
    BY <2>1, <2>3 DEF PlanAttached, PlanRoutes, DigitOf
  <2>5. \A pl \in queue' : ~Over(pl, kw)
    BY <2>1 DEF OverIn, Over
  <2> QED BY <1>2, <2>2, <2>3, <2>4, <2>5 DEF PlansFit
<1>7. CASE FinishOver(kw)
  <2>1. /\ ActiveMigrations(kw)' = {} /\ OverIn(queue, kw) = {}
        /\ task'.pc = "idle" /\ UNCHANGED <<entries, client, queue>>
    BY <1>2, <1>7, FinishedOver
  <2>2. RingRoute(kw)' = RingRoute(kw) /\ Windows' = Windows
    BY <2>1 DEF RingRoute, Windows
  <2>3. \A pl : PlanRoutes(pl, kw)' <=> PlanRoutes(pl, kw)
    BY <2>2 DEF PlanRoutes, DigitOf
  <2> QED BY <1>2, <2>1, <2>2, <2>3 DEF PlansFit, OverIn
<1> QED BY <1>3, <1>4, <1>5, <1>6, <1>7, QuietPlanSteps

(***************************************************************************)
(* What the storagers hold of a keyword                                    *)
(***************************************************************************)
SameAt(kw) == \A n \in Nodes : At(n, kw)' = At(n, kw)

\* The child of a plan that a keyword moves with.
LEMMA OwnSegment ==
    ASSUME NEW plan, Splittable(plan), NEW kw \in Keywords, NEW d \in Digits
    PROVE  /\ IsPrefix(Segment(plan, d), RingHash[kw]) <=> Over(plan, kw) /\ d = DigitOf(plan, kw)
           /\ DigitOf(plan, kw) \in Digits
           /\ plan.targets[DigitOf(plan, kw)] \in Nodes /\ plan.source \in Nodes
<1> DEFINE p == plan.parent
           hash == RingHash[kw]
<1>1. plan \in Plans /\ p \in Prefixes /\ Len(p) < MaxPrefixLen /\ hash \in KeyHashes
  BY HashesAssumption DEF Splittable, Plans
<1>2. Len(p) \in Nat /\ Len(hash) = MaxPrefixLen /\ MaxPrefixLen \in Nat
  BY <1>1, PrefixIsSeq, LenProperties, HashIsPrefix, RingShape
<1>3. /\ Len(Append(p, d)) = Len(p) + 1
      /\ \A k \in 1 .. Len(p) : Append(p, d)[k] = p[k]
      /\ Append(p, d)[Len(p) + 1] = d
  BY <1>1, ChildOf
<1>4. hash[Len(p) + 1] \in Digits
  BY <1>1, <1>2 DEF KeyHashes
<1> HIDE DEF hash, p
<1>5. IsPrefix(Append(p, d), hash) <=> IsPrefix(p, hash) /\ d = hash[Len(p) + 1]
  <2> DEFINE q == Append(p, d)
             n == Len(p)
  <2>1. n \in Nat /\ n + 1 =< Len(hash) /\ Len(q) = n + 1 /\ n + 1 \in 1 .. n + 1
    BY <1>1, <1>2, <1>3
  <2>2. \A k \in 1 .. n + 1 : k \in 1 .. n \/ k = n + 1
    BY <2>1
  <2>3. \A k \in 1 .. n : k \in 1 .. n + 1
    BY <2>1
  <2>4. n =< Len(hash) /\ Len(q) =< Len(hash)
    BY <1>2, <2>1
  <2>5. (\A k \in 1 .. n : q[k] = p[k]) /\ q[n + 1] = d
    BY <1>3
  <2>6. IsPrefix(q, hash) <=> \A k \in 1 .. n + 1 : q[k] = hash[k]
    BY <2>1, <2>4 DEF IsPrefix
  <2>7. IsPrefix(p, hash) <=> \A k \in 1 .. n : p[k] = hash[k]
    BY <2>4 DEF IsPrefix
  <2> HIDE DEF q, n
  <2>8. IsPrefix(q, hash) <=> IsPrefix(p, hash) /\ d = hash[n + 1]
    BY <2>1, <2>2, <2>3, <2>5, <2>6, <2>7
  <2> QED BY <2>8 DEF q, n
<1> QED BY <1>1, <1>4, <1>5, MovedTyped DEF Segment, Over, DigitOf, p, hash

\* Segments are of their child.
LEMMA SegmentsKept ==
    ASSUME TypeInv, SegmentsFit, [Next]_vars
    PROVE  SegmentsFit'
<1>1. CASE DOMAIN task'.segments = {}
  BY <1>1 DEF SegmentsFit
<1>2. CASE task'.segments = task.segments /\ task'.plan = task.plan
  BY <1>2 DEF SegmentsFit, Segment
<1>3. CASE task' = task
  BY <1>2, <1>3
<1>4. CASE TaskStart
  BY <1>1, <1>4, StartTask
<1>5. CASE Prepare
  <2> DEFINE plan == task.plan
             d == Least(Moved(plan) \ DOMAIN task.segments)
  <2>1. /\ task'.plan = plan
        /\ DOMAIN task'.segments = DOMAIN task.segments \cup {d}
        /\ \A e \in DOMAIN task'.segments :
             task'.segments[e] = IF e = d THEN Selected(store[plan.source], Segment(plan, d))
                                 ELSE task.segments[e]
    BY <1>5, PrepareTask
  <2> HIDE DEF d
  <2>2. ASSUME NEW e \in DOMAIN task'.segments, NEW x \in task'.segments[e]
        PROVE  IsPrefix(Segment(plan, e), AdsHash[x[1]])
    <3>1. CASE e = d
      BY <2>1, <2>2, <3>1 DEF Selected
    <3>2. CASE e # d
      BY <2>1, <2>2, <3>2 DEF SegmentsFit
    <3> QED BY <3>1, <3>2
  <2> QED BY <2>1, <2>2 DEF SegmentsFit, Segment
<1>6. CASE Confirm
  BY <1>2, <1>6, ConfirmTask
<1>7. CASE ClearOverrides \/ ReplayRoute \/ ReplayRpc \/ ReplayRecord
  BY <1>2, <1>7, ReplayTask
<1>8. CASE TakePending
  BY <1>1, <1>2, <1>8, ReplayTask, IdleFields DEF TakePending
<1>9. CASE Finish \/ TaskFails
  BY <1>1, <1>9, IdleFields DEF Finish, TaskFails
<1>10. ASSUME NEW d \in Digits, Import(d) \/ ImportFails(d) PROVE SegmentsFit'
  BY <1>1, <1>2, <1>10, ImportTask, IdleFields
<1> QED BY <1>3, <1>4, <1>5, <1>6, <1>7, <1>8, <1>9, <1>10, Changes DEF TaskStep

\* A keyword that was told apart stays so, until a reset.
LEMMA ApartGrows ==
    ASSUME [Next]_vars, ~Reset
    PROVE  apart \subseteq apart'
  BY DEF Next, ClientStep, Request, Route, Recheck, Buffer, BufferRefused, StoragerRpc, Record,
         Schedule, TaskStep, TaskStart, Prepare, Import, Confirm, ClearOverrides, TakePending,
         ReplayRoute, ReplayRpc, ReplayRecord, Finish, Failure, TaskFails, ResetFails,
         ImportFails, vars, ghosts

\* The start of a task tells apart whom its plan does.
LEMMA AlikeKept ==
    ASSUME TypeInv, AlikeFits, [Next]_vars
    PROVE  AlikeFits'
<1>1. CASE task'.pc = "idle"
  BY <1>1 DEF AlikeFits
<1>2. CASE task.pc # "idle" /\ task'.plan = task.plan /\ apart \subseteq apart'
  <2>1. \A kw \in Keywords \ apart' : Alike(task.plan, kw)
    BY <1>2 DEF AlikeFits
  <2> QED BY <1>2, <2>1 DEF AlikeFits, Alike, Moved, Segment
<1>3. CASE Reset
  BY <1>1, <1>3 DEF Reset, CanReset
<1>4. CASE TaskStart
  <2>1. PICK plan \in queue : task'.plan = plan /\ apart' = apart \cup ToldApart(plan)
    <3>1. PICK plan \in queue :
            /\ task' = [IdleTask EXCEPT !.pc = IF Moved(plan) = {} THEN "clear" ELSE "prepare",
                                        !.plan = plan]
            /\ apart' = apart \cup ToldApart(plan)
      BY <1>4 DEF TaskStart
    <3>2. IdleTask \in TaskType
      BY NoPlanTyped DEF TaskFits
    <3> QED BY <3>1, <3>2 DEF TaskType
  <2>2. \A kw \in Keywords \ apart' : Alike(plan, kw)
    BY <2>1 DEF Alike, ToldApart
  <2> QED BY <2>1, <2>2 DEF AlikeFits, Alike, Moved, Segment
<1>5. CASE ~Reset /\ ~TaskStart
  <2>1. apart \subseteq apart'
    BY <1>5, ApartGrows
  <2>2. task' = task => task.pc = "idle" \/ task'.plan = task.plan
    OBVIOUS
  <2>3. ASSUME Prepare \/ Confirm \/ ClearOverrides \/ TakePending \/ ReplayRoute
               \/ ReplayRpc \/ ReplayRecord
        PROVE  task'.pc = "idle" \/ (task.pc # "idle" /\ task'.plan = task.plan)
    BY <2>3, PrepareTask, ConfirmTask, ReplayTask, IdleFields DEF TakePending
  <2>4. ASSUME NEW d \in Digits, Import(d) \/ ImportFails(d)
        PROVE  task'.pc = "idle" \/ (task.pc # "idle" /\ task'.plan = task.plan)
    BY <2>4, ImportTask, IdleFields
  <2>5. Finish \/ TaskFails => task'.pc = "idle"
    BY IdleFields DEF Finish, TaskFails
  <2> QED BY <1>1, <1>2, <1>5, <2>1, <2>2, <2>3, <2>4, <2>5, Changes DEF TaskStep
<1> QED BY <1>3, <1>4, <1>5

OwnRpc(c, kw) == StoragerRpc(c) /\ client[c].op.kw = kw

OwnImport(kw) == Over(task.plan, kw) /\ Import(DigitOf(task.plan, kw))

OwnConfirm(kw) ==
    /\ Confirm /\ Over(task.plan, kw)
    /\ DigitOf(task.plan, kw) \in task'.confirmed \ task.confirmed

OwnReplay(kw) == ReplayRpc /\ Head(task.replay).kw = kw

\* An add or delete at a storager.
LEMMA AppliedAt ==
    ASSUME TypeInv, NEW op \in Ops, NEW node \in Nodes,
           store' = [store EXCEPT ![node] = Applied(@, op)], NEW kw
    PROVE  /\ \A n \in Nodes \ {node} : At(n, kw)' = At(n, kw)
           /\ op.kw # kw => SameAt(kw)
           /\ \A x : Held(x)' => Held(x) \/ Is(op, "add", x)
           /\ \A x : Held(x) => Held(x)' \/ Is(op, "delete", x)
           /\ op.kind = "add" => Held(Posting(op))'
           /\ (op.kind = "delete" /\ OnlyAt(node, op.kw)) => ~Held(Posting(op))'
<1>1. store \in [Nodes -> SUBSET Postings] /\ Posting(op)[1] = op.kw
  BY OpTyped DEF TypeInv
<1>2. /\ \A n \in Nodes \ {node} : store'[n] = store[n]
      /\ store'[node] = Applied(store[node], op)
  BY <1>1
<1>3. \A n \in Nodes \ {node} : At(n, kw)' = At(n, kw)
  BY <1>2 DEF At
<1>4. \A x : x # Posting(op) => (x \in Applied(store[node], op) <=> x \in store[node])
  BY DEF Applied
<1>5. op.kw # kw => At(node, kw)' = At(node, kw)
  BY <1>1, <1>2, <1>4 DEF At
<1>6. SameAt(kw) \/ op.kw = kw
  BY <1>3, <1>5 DEF SameAt
<1>7. \A n \in Nodes : \A x : x # Posting(op) => (x \in store'[n] <=> x \in store[n])
  BY <1>2, <1>4
<1>8. op.kind = "add" => Posting(op) \in store'[node]
  BY <1>2 DEF Applied
<1>9. op.kind = "delete" => Posting(op) \notin store'[node]
  BY <1>2 DEF Applied
<1>10. (op.kind = "delete" /\ OnlyAt(node, op.kw)) => ~Held(Posting(op))'
  <2>1. \A n \in Nodes \ {node} : OnlyAt(node, op.kw) => Posting(op) \notin store[n]
    BY <1>1 DEF OnlyAt, At
  <2> QED BY <1>2, <1>9, <2>1 DEF Held
<1>11. \A x : Held(x)' => Held(x) \/ Is(op, "add", x)
  <2>1. ASSUME NEW x, Held(x)', x = Posting(op), op.kind # "add" PROVE Held(x)
    <3>1. PICK n \in Nodes : x \in store'[n]
      BY <2>1 DEF Held
    <3>2. n # node
      BY <2>1, <3>1, <1>9, OpTyped
    <3> QED BY <1>2, <3>1, <3>2 DEF Held
  <2> QED BY <1>7, <2>1 DEF Held, Is
<1>12. \A x : Held(x) => Held(x)' \/ Is(op, "delete", x)
  <2>1. ASSUME NEW x, x = Posting(op), op.kind # "delete" PROVE Held(x)'
    BY <1>8, <2>1, OpTyped DEF Held
  <2> QED BY <1>7, <2>1 DEF Held, Is
<1> QED BY <1>3, <1>6, <1>8, <1>10, <1>11, <1>12 DEF Held

\* The import of a child, at its target.
LEMMA ImportAt ==
    ASSUME TypeInv, SegmentsFit, AlikeFits, NEW kw \in Keywords, kw \notin apart,
           NEW d \in Digits, Import(d), NEW target, target = task.plan.targets[d]
    PROVE  LET own == {x \in task.segments[d] : x[1] = kw} IN
           /\ target \in Nodes
           /\ \A n \in Nodes \ {target} : At(n, kw)' = At(n, kw)
           /\ own \subseteq At(target, kw)'
           /\ At(target, kw)' \subseteq At(target, kw) \cup own
           /\ ~IsPrefix(Segment(task.plan, d), RingHash[kw]) => SameAt(kw)
<1> DEFINE segment == task.segments[d]
           prefix == Segment(task.plan, d)
           new == AfterImport(store[target], prefix, segment)
           own == {x \in segment : x[1] = kw}
<1>1. /\ store \in [Nodes -> SUBSET Postings] /\ target \in Nodes /\ d \in DOMAIN task.segments
      /\ store' = [store EXCEPT ![target] = new]
  BY LoopTask DEF TypeInv, Import
<1>0. IsPrefix(prefix, AdsHash[kw]) <=> IsPrefix(prefix, RingHash[kw])
  BY ImportTask DEF AlikeFits, Alike
<1>2. \A x \in segment : x[1] = kw => IsPrefix(prefix, RingHash[kw])
  BY <1>0, <1>1 DEF SegmentsFit
<1>3. \A x \in Selected(store[target], prefix) : x[1] = kw => IsPrefix(prefix, RingHash[kw])
  BY <1>0 DEF Selected
<1>4. segment \subseteq new /\ new \subseteq store[target] \cup segment
  BY DEF AfterImport
<1>5. \A x \in store[target] : x[1] = kw /\ ~IsPrefix(prefix, RingHash[kw]) => x \in new
  BY <1>2, <1>3 DEF AfterImport
<1> HIDE DEF segment, prefix, new
<1>6. store'[target] = new /\ \A n \in Nodes \ {target} : store'[n] = store[n]
  BY <1>1
<1>7. \A n \in Nodes \ {target} : At(n, kw)' = At(n, kw)
  BY <1>6 DEF At
<1>8. At(target, kw) = {x \in store[target] : x[1] = kw}
  BY DEF At
<1>9. {x \in store'[target] : x[1] = kw} = {x \in new : x[1] = kw}
  BY <1>6
<1>10. own \subseteq {x \in new : x[1] = kw}
  BY <1>4
<1>11. {x \in new : x[1] = kw} \subseteq At(target, kw) \cup own
  BY <1>4, <1>8
<1>12. ~IsPrefix(prefix, RingHash[kw]) => {x \in new : x[1] = kw} = At(target, kw)
  BY <1>2, <1>4, <1>5, <1>8
<1>13. ~IsPrefix(prefix, RingHash[kw]) => SameAt(kw)
  BY <1>6, <1>7, <1>8, <1>12 DEF SameAt, At
<1>14. own \subseteq {x \in store'[target] : x[1] = kw}
  BY <1>9, <1>10
<1>15. {x \in store'[target] : x[1] = kw} \subseteq At(target, kw) \cup own
  BY <1>9, <1>11
<1> QED BY <1>1, <1>7, <1>13, <1>14, <1>15 DEF At, segment, prefix

\* The confirmation of a child, at its source.
LEMMA ConfirmAt ==
    ASSUME TypeInv, AlikeFits, NEW kw \in Keywords, kw \notin apart, Confirm,
           NEW source, source = task.plan.source,
           NEW d, d = Least(Moved(task.plan) \ task.confirmed)
    PROVE  /\ source \in Nodes
           /\ \A n \in Nodes \ {source} : At(n, kw)' = At(n, kw)
           /\ ~IsPrefix(Segment(task.plan, d), RingHash[kw]) => SameAt(kw)
           /\ IsPrefix(Segment(task.plan, d), RingHash[kw]) => At(source, kw)' = {}
<1> DEFINE prefix == Segment(task.plan, d)
           new == AfterConfirm(store[source], prefix)
<1>1. store \in [Nodes -> SUBSET Postings] /\ source \in Nodes
  BY LoopTask DEF TypeInv
<1>2. store' = [store EXCEPT ![source] = new]
  BY ConfirmTask
<1>0. IsPrefix(prefix, AdsHash[kw]) <=> IsPrefix(prefix, RingHash[kw])
  BY ConfirmTask DEF AlikeFits, Alike
<1>3. \A x \in store[source] : x[1] = kw => (x \in new <=> ~IsPrefix(prefix, RingHash[kw]))
  BY <1>0 DEF AfterConfirm, Selected
<1>4. new \subseteq store[source]
  BY DEF AfterConfirm
<1> HIDE DEF prefix, new
<1>5. store'[source] = new /\ \A n \in Nodes \ {source} : store'[n] = store[n]
  BY <1>1, <1>2
<1>6. \A n \in Nodes \ {source} : At(n, kw)' = At(n, kw)
  BY <1>5 DEF At
<1>7. ~IsPrefix(prefix, RingHash[kw]) => At(source, kw)' = At(source, kw)
  BY <1>3, <1>4, <1>5 DEF At
<1>8. IsPrefix(prefix, RingHash[kw]) => At(source, kw)' = {}
  BY <1>3, <1>4, <1>5 DEF At
<1> QED BY <1>1, <1>6, <1>7, <1>8 DEF SameAt, prefix

\* Who moves postings of a keyword.
LEMMA AtStays ==
    ASSUME TypeInv, SegmentsFit, AlikeFits, [Next]_vars, ~Reset,
           NEW kw \in Keywords, kw \notin raced', kw \notin apart
    PROVE  \/ SameAt(kw) \/ OwnImport(kw) \/ OwnConfirm(kw) \/ OwnReplay(kw)
           \/ \E c \in Clients : OwnRpc(c, kw)
<1>1. store' = store => SameAt(kw)
  BY DEF SameAt, At
<1>2. ASSUME NEW c \in Clients, StoragerRpc(c) PROVE SameAt(kw) \/ OwnRpc(c, kw)
  <2>1. client[c].op \in Ops /\ client[c].route.node \in Nodes
    BY <1>2, BusyTyped DEF StoragerRpc, Busy, RoutedStates, Routes
  <2>2. PICK op \in Ops, node \in Nodes : op = client[c].op /\ node = client[c].route.node
    BY <2>1
  <2>3. store' = [store EXCEPT ![node] = Applied(@, op)]
    BY <1>2, <2>2 DEF StoragerRpc
  <2>4. op.kw # kw => SameAt(kw)
    BY <2>3, AppliedAt
  <2> QED BY <1>2, <2>2, <2>4 DEF OwnRpc
<1>3. CASE ReplayRpc
  <2>1. PICK op \in Ops, node \in Nodes : op = Head(task.replay) /\ node = task.route.node
    BY <1>3, Replayed DEF ReplayRpc
  <2>2. store' = [store EXCEPT ![node] = Applied(@, op)]
    BY <1>3, <2>1 DEF ReplayRpc
  <2>3. op.kw # kw => SameAt(kw)
    BY <2>2, AppliedAt
  <2> QED BY <1>3, <2>1, <2>3 DEF OwnReplay
<1>4. ASSUME NEW d \in Digits, Import(d) PROVE SameAt(kw) \/ OwnImport(kw)
  <2>1. PICK target : target = task.plan.targets[d]
    OBVIOUS
  <2>2. ~IsPrefix(Segment(task.plan, d), RingHash[kw]) => SameAt(kw)
    BY <1>4, <2>1, ImportAt
  <2>3. Splittable(task.plan)
    BY <1>4, LoopTask DEF Import
  <2>4. PICK plan : plan = task.plan
    OBVIOUS
  <2>5. IsPrefix(Segment(plan, d), RingHash[kw]) => Over(plan, kw) /\ d = DigitOf(plan, kw)
    BY <2>3, <2>4, OwnSegment
  <2> QED BY <1>4, <2>2, <2>4, <2>5 DEF OwnImport
<1>5. CASE Confirm
  <2>1. PICK source, d : source = task.plan.source /\ d = Least(Moved(task.plan) \ task.confirmed)
    OBVIOUS
  <2>2. ~IsPrefix(Segment(task.plan, d), RingHash[kw]) => SameAt(kw)
    BY <1>5, <2>1, ConfirmAt
  <2>3. Splittable(task.plan)
    BY <1>5, LoopTask DEF Confirm
  <2>4. PICK plan : plan = task.plan
    OBVIOUS
  <2>5. d \in Digits /\ d \in task'.confirmed \ task.confirmed
    BY <1>5, <2>1, ConfirmTask
  <2>6. IsPrefix(Segment(plan, d), RingHash[kw]) => Over(plan, kw) /\ d = DigitOf(plan, kw)
    BY <2>3, <2>4, <2>5, OwnSegment
  <2> QED BY <1>5, <2>2, <2>4, <2>5, <2>6 DEF OwnConfirm
<1>6. CASE ResetFails
  <2>1. PICK S \in SUBSET Nodes : /\ store' = [n \in Nodes |-> IF n \in S THEN {} ELSE store[n]]
                                  /\ raced' = IF S = {} THEN raced ELSE Keywords
    BY <1>6 DEF ResetFails
  <2>2. S = {}
    BY <2>1
  <2>3. \A n \in Nodes : store'[n] = store[n]
    BY <2>1, <2>2
  <2> QED BY <2>3 DEF SameAt, At
<1>7. \/ store' = store \/ ReplayRpc \/ Confirm \/ ResetFails
      \/ (\E c \in Clients : StoragerRpc(c)) \/ \E d \in Digits : Import(d)
  BY PrepareTask
     DEF Next, ClientStep, TaskStep, Failure, vars, Request, Route, Recheck, Buffer, BufferRefused,
         Record, Schedule, TaskStart, ClearOverrides, TakePending, ReplayRoute,
         ReplayRecord, Finish, TaskFails, ImportFails
<1> QED BY <1>1, <1>2, <1>3, <1>4, <1>5, <1>6, <1>7

\* What the task moves is at its source and its target.
LEMMA MovingNodes ==
    ASSUME TypeInv, ParentsFit, NEW kw \in Keywords, PlansFit(kw), StoreFits(kw),
           task.pc # "idle", Over(task.plan, kw)
    PROVE  \E plan \in Plans, d \in Digits, source \in Nodes, target \in Nodes :
            /\ plan = task.plan /\ Splittable(plan) /\ Over(plan, kw)
            /\ d = DigitOf(plan, kw) /\ source = plan.source /\ target = plan.targets[d]
            /\ target = RingRoute(kw).node
            /\ d \notin Moved(plan) => target = source
            /\ MovesWith(kw, d, source, target)
            /\ \A n \in Nodes : At(n, kw) # {} => n = source \/ n = target
            /\ OverIn(Windows, kw) = {} /\ OverIn(queue, kw) = {}
<1>1. PICK plan : plan = task.plan
  OBVIOUS
<1>2. Splittable(plan) /\ plan \in Plans /\ Over(plan, kw)
  BY <1>1, LoopTask
<1>3. PICK d, source, target : d = DigitOf(plan, kw) /\ source = plan.source /\ target = plan.targets[d]
  OBVIOUS
<1>4. d \in Digits /\ source \in Nodes /\ target \in Nodes
  <2>1. 0 \in Digits
    BY RingShape DEF Digits
  <2> QED BY <1>2, <1>3, <2>1, OwnSegment
<1>5. /\ target = RingRoute(kw).node
      /\ plan.parent \in ActiveMigrations(kw) /\ migrations[plan.parent].source = source
      /\ OverIn(queue, kw) = {}
  BY <1>1, <1>2, <1>3 DEF PlansFit, PlanAttached, PlanRoutes, OverIn
<1>6. d \notin Moved(plan) => target = source
  BY <1>3, <1>4 DEF Moved
<1>7. OverIn(Windows, kw) = {}
  <2>1. ASSUME NEW c \in Clients, client[c].pc = "schedule", Over(client[c].plan, kw) PROVE FALSE
    BY <2>1, <1>5, WindowAlone
  <2> QED BY <2>1 DEF OverIn, Windows
<1>8. MovesWith(kw, d, source, target)
  BY <1>1, <1>2, <1>3 DEF StoreFits, TaskStore
<1>9. ASSUME NEW n \in Nodes, At(n, kw) # {} PROVE n = source \/ n = target
  <2>1. \A p \in ActiveMigrations(kw) : p = plan.parent
    BY <1>5, OneActive
  <2>2. \/ n = RingRoute(kw).node \/ \E p \in ActiveMigrations(kw) : n = migrations[p].source
    BY <1>7, <1>9 DEF StoreFits, Located, OverIn
  <2> QED BY <1>5, <2>1, <2>2
<1> QED BY <1>1, <1>2, <1>3, <1>4, <1>5, <1>6, <1>7, <1>8, <1>9

\* An RPC of a handler is not overtaken: nothing moves its keyword.
LEMMA OwnRpcAlone ==
    ASSUME TypeInv, NEW kw \in Keywords, kw \notin raced', PlansFit(kw),
           NEW c \in Clients, OwnRpc(c, kw)
    PROVE  /\ client[c].route = RingRoute(kw)
           /\ ActiveMigrations(kw) = {} /\ OverIn(Windows, kw) = {} /\ OverIn(queue, kw) = {}
           /\ task.pc # "idle" => ~Over(task.plan, kw)
           /\ task' = task
<1>1. ~Stale(client[c].op, client[c].route) /\ client[c].op.kw = kw /\ task' = task
  BY DEF OwnRpc, StoragerRpc
<1>2. ActiveMigrations(kw) = {} /\ client[c].route = RingRoute(kw)
  BY <1>1 DEF Stale
<1>3. OverIn(Windows, kw) = {}
  BY <1>1 DEF Stale, OverIn, Windows, Over
<1>4. \A plan : ~PlanAttached(plan, kw)
  BY <1>2 DEF PlanAttached
<1> QED BY <1>1, <1>2, <1>3, <1>4 DEF PlansFit, OverIn

\* An operation is replayed where the ring routes its keyword, which is moving.
LEMMA OwnReplayAlone ==
    ASSUME TypeInv, ListsFit, NEW kw \in Keywords, kw \notin raced, kw \notin raced', PlansFit(kw),
           OwnReplay(kw)
    PROVE  /\ task.route = RingRoute(kw) /\ task.route.node \in Nodes
           /\ task.pc = "replay_rpc" /\ Over(task.plan, kw)
           /\ task'.pc = "replay_record" /\ task'.plan = task.plan /\ task'.replay = task.replay
<1>1. /\ task.pc = "replay_rpc" /\ Head(task.replay).kw = kw
      /\ ~StaleReplay(Head(task.replay), task.route)
  BY DEF OwnReplay, ReplayRpc
<1>2. task.route.node \in Nodes /\ 1 \in DOMAIN task.replay /\ Head(task.replay) = task.replay[1]
  BY <1>1, Replayed
<1>3. Over(task.plan, kw)
  BY <1>1, <1>2, WaitsActive
<1> QED BY <1>1, <1>2, <1>3, ReplayTask DEF StaleReplay, OwnReplay

\* A posting gets only where the ring routes its keyword.
LEMMA AtGrows ==
    ASSUME TypeInv, ListsFit, ParentsFit, SegmentsFit, AlikeFits,
           [Next]_vars, ~Reset,
           NEW kw \in Keywords, kw \notin raced', kw \notin raced, kw \notin apart,
           PlansFit(kw), StoreFits(kw),
           NEW n \in Nodes, At(n, kw)' # {}
    PROVE  At(n, kw) # {} \/ n = RingRoute(kw).node
<1>1. CASE SameAt(kw)
  BY <1>1 DEF SameAt
<1>2. CASE OwnImport(kw)
  <2>1. task.pc # "idle" /\ Over(task.plan, kw)
    BY <1>2 DEF OwnImport, Import
  <2>2. PICK plan \in Plans, d \in Digits, target \in Nodes :
            /\ plan = task.plan /\ d = DigitOf(plan, kw) /\ target = plan.targets[d]
            /\ target = RingRoute(kw).node
    BY <2>1, MovingNodes
  <2>3. Import(d)
    BY <1>2, <2>2 DEF OwnImport, DigitOf
  <2>4. target = task.plan.targets[d]
    BY <2>2
  <2>5. n # target => At(n, kw)' = At(n, kw)
    BY <2>3, <2>4, ImportAt
  <2> QED BY <2>2, <2>5
<1>3. CASE OwnConfirm(kw)
  <2>1. PICK source, d : source = task.plan.source /\ d = Least(Moved(task.plan) \ task.confirmed)
    OBVIOUS
  <2>2. /\ n # source => At(n, kw)' = At(n, kw)
        /\ At(source, kw)' = {} \/ SameAt(kw)
    BY <1>3, <2>1, ConfirmAt DEF OwnConfirm
  <2> QED BY <2>2 DEF SameAt
<1>4. CASE OwnReplay(kw)
  <2>1. PICK op \in Ops, node \in Nodes : op = Head(task.replay) /\ node = task.route.node
    BY <1>4, Replayed DEF OwnReplay, ReplayRpc
  <2>2. store' = [store EXCEPT ![node] = Applied(@, op)]
    BY <1>4, <2>1 DEF OwnReplay, ReplayRpc
  <2>3. n # node => At(n, kw)' = At(n, kw)
    BY <2>2, AppliedAt
  <2> QED BY <1>4, <2>1, <2>3, OwnReplayAlone
<1>5. ASSUME NEW c \in Clients, OwnRpc(c, kw) PROVE At(n, kw) # {} \/ n = RingRoute(kw).node
  <2>1. client[c].op \in Ops /\ client[c].route.node \in Nodes
    BY <1>5, BusyTyped DEF OwnRpc, StoragerRpc, Busy, RoutedStates, Routes
  <2>2. PICK op \in Ops, node \in Nodes : op = client[c].op /\ node = client[c].route.node
    BY <2>1
  <2>3. store' = [store EXCEPT ![node] = Applied(@, op)]
    BY <1>5, <2>2 DEF OwnRpc, StoragerRpc
  <2>4. n # node => At(n, kw)' = At(n, kw)
    BY <2>3, AppliedAt
  <2> QED BY <1>5, <2>2, <2>4, OwnRpcAlone
<1> QED BY <1>1, <1>2, <1>3, <1>4, <1>5, AtStays

\* What one step of the task makes of where it has a keyword.
LEMMA TaskStoreKept ==
    ASSUME TypeInv, ListsFit, ParentsFit, SegmentsFit, AlikeFits,
           [Next]_vars, ~Reset,
           NEW kw \in Keywords, kw \notin raced', kw \notin raced, kw \notin apart,
           PlansFit(kw), StoreFits(kw),
           task.pc # "idle", task'.pc # "idle", task'.plan = task.plan, Over(task.plan, kw)
    PROVE  TaskStore(kw)'
<1>1. PICK plan \in Plans, d \in Digits, source \in Nodes, target \in Nodes :
            /\ plan = task.plan /\ Splittable(plan) /\ Over(plan, kw)
            /\ d = DigitOf(plan, kw) /\ source = plan.source /\ target = plan.targets[d]
            /\ target = RingRoute(kw).node
            /\ d \notin Moved(plan) => target = source
            /\ MovesWith(kw, d, source, target)
            /\ \A n \in Nodes : At(n, kw) # {} => n = source \/ n = target
            /\ OverIn(Windows, kw) = {} /\ OverIn(queue, kw) = {}
  BY MovingNodes
<1> SUFFICES MovesWith(kw, d, source, target)'
  <2>1. task'.plan = plan
    BY <1>1
  <2> QED BY <1>1, <2>1 DEF TaskStore, DigitOf
<1> DEFINE moved == Moved(plan)
<1>2. AfterStates = {"clear", "take", "finish", "replay", "replay_rpc", "replay_record"}
  BY DEF AfterStates, ReplayStates
<1>3. source = task.plan.source /\ target = task.plan.targets[d]
  BY <1>1
<1>4. d \in moved => source # target
  BY <1>1 DEF Moved
<1>5. SameAt(kw) => /\ At(source, kw)' = At(source, kw) /\ At(target, kw)' = At(target, kw)
                    /\ \A n : OnlyAt(n, kw) => OnlyAt(n, kw)'
  BY DEF SameAt, OnlyAt
<1>6. store' = store => SameAt(kw)
  BY DEF SameAt, At
<1>7. CASE SameAt(kw) /\ task' = task
  BY <1>5, <1>1, <1>7 DEF MovesWith
<1>8. CASE Prepare
  <2>1. PICK e : e = Least(Moved(task.plan) \ DOMAIN task.segments)
    OBVIOUS
  <2>2. /\ task.pc = "prepare" /\ task'.pc \in {"prepare", "import"}
        /\ task.imported = {} /\ task'.imported = {}
        /\ DOMAIN task'.segments = DOMAIN task.segments \cup {e}
        /\ e \in DOMAIN task'.segments => task'.segments[e] = Selected(store[source], Segment(plan, e))
        /\ \A k \in DOMAIN task.segments : k # e => task'.segments[k] = task.segments[k]
        /\ store' = store /\ e \in Digits
    BY <1>8, <1>1, <2>1, PrepareTask
  <2>3. OnlyAt(source, kw)'
    BY <1>1, <1>5, <1>6, <2>2 DEF MovesWith
  <2>4. d = e => {x \in task'.segments[d] : x[1] = kw} = At(source, kw)
    <3> SUFFICES ASSUME d = e PROVE {x \in task'.segments[d] : x[1] = kw} = At(source, kw)
      OBVIOUS
    <3>0. IsPrefix(Segment(plan, d), RingHash[kw]) /\ e \in Moved(task.plan)
      BY <1>1, <1>8, <2>1, OwnSegment, PrepareTask
    <3>1. IsPrefix(Segment(plan, d), AdsHash[kw])
      BY <1>1, <3>0 DEF AlikeFits, Alike
    <3>2. {x \in Selected(store[source], Segment(plan, d)) : x[1] = kw} = {x \in store[source] : x[1] = kw}
      BY <3>1 DEF Selected
    <3> QED BY <2>2, <3>2 DEF At
  <2>5. (d # e /\ d \in DOMAIN task'.segments) => {x \in task'.segments[d] : x[1] = kw} = At(source, kw)
    BY <1>1, <2>2 DEF MovesWith
  <2> QED BY <1>2, <1>5, <1>6, <2>2, <2>3, <2>4, <2>5 DEF MovesWith
<1>9. CASE ClearOverrides \/ TakePending \/ ReplayRoute \/ ReplayRecord
  <2>1. task.pc \in AfterStates /\ task'.pc \in AfterStates /\ store' = store
    BY <1>2, <1>9, ReplayTask, IdleFields
       DEF ClearOverrides, TakePending, ReplayRoute, ReplayRecord, ReplayOrFinish
  <2> QED BY <1>1, <1>2, <1>5, <1>6, <2>1 DEF MovesWith
<1>10. CASE Confirm
  <2>1. PICK e : e = Least(Moved(task.plan) \ task.confirmed)
    OBVIOUS
  <2>2. /\ task.pc = "confirm" /\ e \in moved \ task.confirmed /\ e \in Digits
        /\ task'.confirmed = task.confirmed \cup {e}
        /\ task'.pc = IF moved = task'.confirmed THEN "clear" ELSE "confirm"
    BY <1>1, <1>10, <2>1, ConfirmTask
  <2>3. /\ \A n \in Nodes \ {source} : At(n, kw)' = At(n, kw)
        /\ ~IsPrefix(Segment(task.plan, e), RingHash[kw]) => SameAt(kw)
        /\ IsPrefix(Segment(task.plan, e), RingHash[kw]) => At(source, kw)' = {}
    BY <1>3, <1>10, <2>1, ConfirmAt
  <2>4. IsPrefix(Segment(plan, e), RingHash[kw]) <=> e = d
    BY <1>1, <2>2, OwnSegment
  <2>5. CASE e = d
    <3>1. At(source, kw)' = {} /\ \A n \in Nodes \ {source} : At(n, kw)' = At(n, kw)
      BY <1>1, <2>3, <2>4, <2>5
    <3>2. OnlyAt(target, kw)'
      BY <1>1, <3>1 DEF OnlyAt
    <3> QED BY <1>2, <2>2, <3>1, <3>2 DEF MovesWith
  <2>6. CASE e # d
    <3>1. SameAt(kw)
      BY <1>1, <2>3, <2>4, <2>6
    <3>2. d \in task'.confirmed => OnlyAt(target, kw)
      BY <1>1, <2>2, <2>6 DEF MovesWith
    <3>3. d \notin moved => OnlyAt(target, kw)
      BY <1>1 DEF OnlyAt
    <3>4. At(source, kw) \subseteq At(target, kw)
      BY <1>1, <2>2 DEF MovesWith
    <3> QED BY <1>2, <1>5, <2>2, <3>1, <3>2, <3>3, <3>4 DEF MovesWith
  <2> QED BY <2>5, <2>6
<1>11. CASE ReplayRpc
  <2>1. /\ task.pc = "replay_rpc" /\ task'.pc = "replay_record"
    BY <1>11, ReplayTask
  <2>2. OnlyAt(target, kw)
    BY <1>1, <1>2, <2>1 DEF MovesWith
  <2>3. OnlyAt(target, kw)'
    BY <1>1, <2>2, AtGrows DEF OnlyAt
  <2> QED BY <1>2, <2>1, <2>3 DEF MovesWith
<1>12. ASSUME NEW e \in Digits, Import(e) \/ ImportFails(e) PROVE MovesWith(kw, d, source, target)'
  <2>1. /\ task.pc = "import" /\ e \in moved \ task.imported /\ DOMAIN task.segments = moved
        /\ task'.pc = IF task'.imported = moved THEN "confirm" ELSE "import"
        /\ task'.segments = task.segments
        /\ task'.imported = task.imported \cup {e} /\ task'.confirmed = {}
        /\ ImportFails(e) => task'.broken
        /\ ~task'.broken => ~task.broken
        /\ task'.pc = "confirm" => ~task'.broken
    BY <1>1, <1>12, ImportTask, IdleFields
  <2>2. CASE e = d /\ Import(e)
    <3> DEFINE own == {x \in task.segments[d] : x[1] = kw}
    <3>1. /\ \A n \in Nodes \ {target} : At(n, kw)' = At(n, kw)
          /\ own \subseteq At(target, kw)'
      BY <1>3, <2>2, ImportAt
    <3>2. own = At(source, kw) /\ source # target
      BY <1>1, <1>4, <2>1, <2>2 DEF MovesWith
    <3>3. At(source, kw)' = At(source, kw) /\ At(source, kw)' \subseteq At(target, kw)'
      BY <3>1, <3>2
    <3>4. {x \in task'.segments[d] : x[1] = kw} = own
      BY <2>1
    <3> HIDE DEF own
    <3> QED BY <1>2, <2>1, <2>2, <3>2, <3>3, <3>4 DEF MovesWith
  <2>3. CASE e # d \/ ImportFails(e)
    <3>1. SameAt(kw)
      <4>1. CASE ImportFails(e)
        BY <4>1, <1>6 DEF ImportFails
      <4>2. CASE Import(e) /\ e # d
        <5>1. ~IsPrefix(Segment(plan, e), RingHash[kw])
          BY <1>1, <4>2, OwnSegment
        <5>2. PICK there : there = task.plan.targets[e]
          OBVIOUS
        <5> QED BY <1>1, <4>2, <5>1, <5>2, ImportAt
      <4> QED BY <1>12, <2>3, <4>1, <4>2
    <3>2. (d \in task'.imported /\ ~task'.broken) => At(source, kw) \subseteq At(target, kw)
      BY <1>1, <2>1, <2>3 DEF MovesWith
    <3>3. d \notin moved => At(source, kw) \subseteq At(target, kw)
      BY <1>1
    <3>4. task'.segments[d] = task.segments[d]
      BY <2>1
    <3>5. d \in moved => {x \in task'.segments[d] : x[1] = kw} = At(source, kw)
      BY <1>1, <2>1, <3>4 DEF MovesWith
    <3>6. d \notin task.imported => OnlyAt(source, kw)
      BY <1>1, <2>1 DEF MovesWith
    <3> QED BY <1>2, <1>5, <2>1, <3>1, <3>2, <3>3, <3>5, <3>6 DEF MovesWith
  <2> QED BY <1>12, <2>2, <2>3
<1>13. CASE task' = task
  <2>1. \A c \in Clients : ~OwnRpc(c, kw)
    BY OwnRpcAlone
  <2>2. CASE OwnImport(kw)
    BY <1>1, <1>12, <2>2 DEF OwnImport, DigitOf
  <2>3. CASE OwnConfirm(kw)
    BY <1>10, <2>3 DEF OwnConfirm
  <2>4. CASE OwnReplay(kw)
    BY <1>11, <2>4 DEF OwnReplay
  <2> QED BY <1>7, <1>13, <2>1, <2>2, <2>3, <2>4, AtStays
<1>14. ~TaskStart /\ ~Finish /\ ~TaskFails
  BY IdleFields DEF TaskStart, Finish, TaskFails
<1> QED BY <1>8, <1>9, <1>10, <1>11, <1>12, <1>13, <1>14, Changes DEF TaskStep

\* The storagers of a keyword whose plans stay as they are.
LEMMA QuietStore ==
    ASSUME TypeInv, ListsFit, ParentsFit, SegmentsFit, AlikeFits,
           [Next]_vars, ~Reset,
           NEW kw \in Keywords, kw \notin raced', kw \notin raced, kw \notin apart,
           PlansFit(kw), StoreFits(kw),
           QuietPlans(kw)
    PROVE  StoreFits(kw)'
<1>1. \A n \in Nodes : At(n, kw)' # {} => At(n, kw) # {} \/ n = RingRoute(kw).node
  BY AtGrows
<1>2. /\ RingRoute(kw)' = RingRoute(kw) /\ ActiveMigrations(kw)' = ActiveMigrations(kw)
      /\ \A p \in ActiveMigrations(kw) : migrations'[p].source = migrations[p].source
      /\ OverIn(Windows, kw)' = OverIn(Windows, kw) /\ OverIn(queue, kw)' = OverIn(queue, kw)
  BY DEF QuietPlans
<1>3. /\ \A plan : plan \in OverIn(Windows, kw) <=> plan \in Windows /\ Over(plan, kw)
      /\ \A plan : plan \in OverIn(queue, kw) <=> plan \in queue /\ Over(plan, kw)
      /\ \A plan : plan \in OverIn(Windows, kw)' <=> plan \in Windows' /\ Over(plan, kw)
      /\ \A plan : plan \in OverIn(queue, kw)' <=> plan \in queue' /\ Over(plan, kw)
  BY DEF OverIn, Over
<1>4. Located(kw)'
  <2>1. ASSUME NEW n \in Nodes, At(n, kw)' # {}
        PROVE  \/ n = RingRoute(kw).node
               \/ \E plan \in OverIn(Windows, kw) : n = plan.source
               \/ \E p \in ActiveMigrations(kw) : n = migrations[p].source
    BY <1>1, <1>3, <2>1 DEF StoreFits, Located
  <2>2. ASSUME NEW n \in Nodes, At(n, kw)' # {}
        PROVE  \/ n = RingRoute(kw)'.node
               \/ \E plan \in OverIn(Windows, kw)' : n = plan.source
               \/ \E p \in ActiveMigrations(kw)' : n = migrations'[p].source
    BY <1>2, <2>1, <2>2
  <2> QED BY <1>3, <2>2 DEF Located, Over
<1>5. ASSUME NEW plan, plan \in OverIn(Windows, kw) \cup OverIn(queue, kw) PROVE OnlyAt(plan.source, kw)'
  <2>1. OnlyAt(plan.source, kw)
    BY <1>3, <1>5 DEF StoreFits
  <2>2. ~(task.pc # "idle" /\ Over(task.plan, kw))
    BY <1>5, MovingNodes
  <2>3. \A c \in Clients : ~OwnRpc(c, kw)
    BY <1>5, OwnRpcAlone
  <2>4. ~OwnImport(kw) /\ ~OwnConfirm(kw) /\ ~OwnReplay(kw)
    BY <2>2, OwnReplayAlone DEF OwnImport, Import, OwnConfirm, Confirm
  <2>5. SameAt(kw)
    BY <2>3, <2>4, AtStays
  <2> QED BY <2>1, <2>5 DEF SameAt, OnlyAt
<1>6. (task'.pc # "idle" /\ Over(task'.plan, kw)) => TaskStore(kw)'
  BY TaskStoreKept DEF QuietPlans
<1>7. \A plan \in Windows' : Over(plan, kw) => OnlyAt(plan.source, kw)'
  BY <1>2, <1>3, <1>5
<1>8. \A plan \in queue' : Over(plan, kw) => OnlyAt(plan.source, kw)'
  BY <1>2, <1>3, <1>5
<1> QED BY <1>4, <1>6, <1>7, <1>8 DEF StoreFits, Over

\* Through every step but the reset.
LEMMA StoreKept ==
    ASSUME TypeInv, ListsFit, RoutePrefixes, ParentsFit, SegmentsFit, AlikeFits,
           [Next]_vars, ~Reset,
           NEW kw \in Keywords, kw \notin raced', kw \notin raced, kw \notin apart,
           PlansFit(kw), StoreFits(kw)
    PROVE  StoreFits(kw)'
<1>1. CASE QuietPlans(kw)
  BY <1>1, QuietStore
<1>2. store' = store => \A n : At(n, kw)' = At(n, kw) /\ (OnlyAt(n, kw) <=> OnlyAt(n, kw)')
  BY DEF At, OnlyAt
<1>3. /\ \A plan : plan \in OverIn(Windows, kw) <=> plan \in Windows /\ Over(plan, kw)
      /\ \A plan : plan \in OverIn(queue, kw) <=> plan \in queue /\ Over(plan, kw)
      /\ \A plan : plan \in OverIn(Windows, kw)' <=> plan \in Windows' /\ Over(plan, kw)
      /\ \A plan : plan \in OverIn(queue, kw)' <=> plan \in queue' /\ Over(plan, kw)
  BY DEF OverIn, Over
<1>4. ASSUME NEW c \in Clients, RecordSplits(c, kw) PROVE StoreFits(kw)'
  <2>1. ActiveMigrations(kw) = {} /\ OverIn(Windows, kw) = {}
    BY <1>4, SplitOver
  <2>2. PICK plan : /\ Over(plan, kw) /\ RingRoute(kw).node = plan.source
                    /\ OverIn(Windows, kw)' = {plan}
    BY <1>4, SplitOver
  <2>3. store' = store /\ task' = task /\ queue' = queue
    BY <1>4 DEF RecordSplits, Record
  <2>4. \A pl : ~PlanAttached(pl, kw)
    BY <2>1 DEF PlanAttached
  <2>5. OverIn(queue, kw) = {} /\ ~(task.pc # "idle" /\ Over(task.plan, kw))
    BY <1>3, <2>4 DEF PlansFit
  <2>6. \A n \in Nodes : At(n, kw) # {} => n = plan.source
    BY <1>3, <2>1, <2>2 DEF StoreFits, Located
  <2>7. OnlyAt(plan.source, kw)'
    BY <1>2, <2>3, <2>6 DEF OnlyAt
  <2>8. Located(kw)'
    BY <1>2, <1>3, <2>2, <2>3, <2>6 DEF Located, Over
  <2>9. \A pl \in Windows' : Over(pl, kw) => OnlyAt(pl.source, kw)'
    BY <1>3, <2>2, <2>7
  <2>10. \A pl \in queue' : ~Over(pl, kw)
    BY <1>3, <2>3, <2>5
  <2> QED BY <2>3, <2>5, <2>8, <2>9, <2>10 DEF StoreFits, Over
<1>5. ASSUME NEW c \in Clients, ScheduleOver(c, kw) PROVE StoreFits(kw)'
  <2>1. PICK plan \in Windows :
            /\ Over(plan, kw)
            /\ task.pc # "idle" => ~Over(task.plan, kw)
            /\ ActiveMigrations(kw)' = {plan.parent}
            /\ migrations'[plan.parent].source = plan.source
            /\ OverIn(Windows, kw)' = {} /\ OverIn(queue, kw)' = {plan}
            /\ task' = task /\ store' = store
    BY <1>5, ScheduledOver
  <2>2. OnlyAt(plan.source, kw)
    BY <2>1 DEF StoreFits
  <2>3. \A n \in Nodes : At(n, kw)' # {} => n = migrations'[plan.parent].source
    BY <1>2, <2>1, <2>2 DEF OnlyAt
  <2>4. Located(kw)'
    BY <2>1, <2>3 DEF Located
  <2>5. \A pl \in queue' : Over(pl, kw) => OnlyAt(pl.source, kw)'
    BY <1>2, <1>3, <2>1, <2>2
  <2>6. \A pl \in Windows' : ~Over(pl, kw)
    BY <1>3, <2>1
  <2> QED BY <2>1, <2>4, <2>5, <2>6 DEF StoreFits, Over
<1>6. CASE StartOver(kw)
  <2>1. PICK plan \in queue :
            /\ Over(plan, kw) /\ task'.plan = plan /\ plan \in Plans
            /\ OverIn(queue, kw)' = {}
            /\ DOMAIN task'.segments = {} /\ task'.imported = {}
            /\ task'.pc = IF Moved(plan) = {} THEN "clear" ELSE "prepare"
            /\ UNCHANGED <<entries, migrations, client, store>>
    BY <1>6, StartedOver
  <2>2. PICK d, source, target : d = DigitOf(plan, kw) /\ source = plan.source /\ target = plan.targets[d]
    OBVIOUS
  <2>3. d \in Digits
    <3>1. 0 \in Digits /\ Splittable(plan)
      BY <2>1, RingShape DEF Digits, TypeInv
    <3> QED BY <2>2, <3>1, OwnSegment
  <2>4. OnlyAt(source, kw)'
    BY <1>2, <2>1, <2>2 DEF StoreFits
  <2>5. Moved(plan) = {} => target = source
    BY <2>2, <2>3 DEF Moved
  <2>6. Moved(plan) = {} => OnlyAt(target, kw)'
    BY <2>4, <2>5
  <2>7. MovesWith(kw, d, source, target)'
    BY <2>1, <2>4, <2>6 DEF MovesWith, AfterStates, ReplayStates
  <2>8. TaskStore(kw)'
    BY <2>1, <2>2, <2>7 DEF TaskStore, DigitOf
  <2>9. RingRoute(kw)' = RingRoute(kw) /\ ActiveMigrations(kw)' = ActiveMigrations(kw)
        /\ Windows' = Windows
    BY <2>1 DEF RingRoute, ActiveMigrations, Windows
  <2>10. Located(kw)'
    BY <1>2, <2>1, <2>9 DEF StoreFits, Located, Over
  <2>11. \A pl \in Windows' : Over(pl, kw) => OnlyAt(pl.source, kw)'
    BY <1>2, <2>1, <2>9 DEF StoreFits
  <2>12. \A pl \in queue' : ~Over(pl, kw)
    BY <1>3, <2>1
  <2> QED BY <2>8, <2>10, <2>11, <2>12 DEF StoreFits, Over
<1>7. CASE FinishOver(kw)
  <2>1. /\ task.pc = "finish" /\ Over(task.plan, kw) /\ OverIn(queue, kw) = {}
        /\ task'.pc = "idle" /\ UNCHANGED <<entries, client, queue, store>>
    BY <1>7, FinishedOver
  <2>2. PICK plan \in Plans, d \in Digits, source \in Nodes, target \in Nodes :
            /\ target = RingRoute(kw).node /\ MovesWith(kw, d, source, target)
            /\ OverIn(Windows, kw) = {}
    BY <2>1, MovingNodes
  <2>3. OnlyAt(target, kw)
    BY <2>1, <2>2 DEF MovesWith, AfterStates
  <2>4. RingRoute(kw)' = RingRoute(kw) /\ Windows' = Windows
    BY <2>1 DEF RingRoute, Windows
  <2>5. \A n \in Nodes : At(n, kw)' # {} => n = RingRoute(kw)'.node
    BY <1>2, <2>1, <2>2, <2>3, <2>4 DEF OnlyAt
  <2>6. Located(kw)'
    BY <2>5 DEF Located
  <2>7. (\A pl \in queue' : ~Over(pl, kw)) /\ (\A pl \in Windows' : ~Over(pl, kw))
    BY <1>3, <2>1, <2>2, <2>4
  <2> QED BY <2>1, <2>6, <2>7 DEF StoreFits, Over
<1> QED BY <1>1, <1>4, <1>5, <1>6, <1>7, QuietPlanSteps

(***************************************************************************)
(* What is held and what waits                                             *)
(***************************************************************************)

\* The step applies an operation on x at a storager.
Applies(kind, x) ==
    \/ \E c \in Clients : OwnRpc(c, x[1]) /\ Is(client[c].op, kind, x)
    \/ OwnReplay(x[1]) /\ Is(Head(task.replay), kind, x)

\* A move neither loses a posting nor brings one back.
LEMMA HeldChanges ==
    ASSUME TypeInv, ListsFit, ParentsFit, SegmentsFit, AlikeFits,
           [Next]_vars, ~Reset,
           NEW x \in Postings, x[1] \notin raced', x[1] \notin raced, x[1] \notin apart,
           PlansFit(x[1]), StoreFits(x[1])
    PROVE  /\ Held(x)' => Held(x) \/ Applies("add", x)
           /\ Held(x) => Held(x)' \/ Applies("delete", x)
<1>1. PICK kw \in Keywords : kw = x[1]
  BY DEF Postings
<1>2. Held(x) <=> \E n \in Nodes : x \in At(n, kw)
  BY <1>1 DEF Held, At
<1>3. Held(x)' <=> \E n \in Nodes : x \in At(n, kw)'
  BY <1>1 DEF Held, At
<1>4. CASE SameAt(kw)
  BY <1>2, <1>3, <1>4 DEF SameAt
<1>5. CASE OwnImport(kw)
  <2>1. task.pc # "idle" /\ Over(task.plan, kw)
    BY <1>5 DEF OwnImport, Import
  <2>2. PICK plan \in Plans, d \in Digits, source \in Nodes, target \in Nodes :
            /\ plan = task.plan /\ d = DigitOf(plan, kw)
            /\ source = plan.source /\ target = plan.targets[d]
            /\ MovesWith(kw, d, source, target)
    BY <1>1, <2>1, MovingNodes
  <2>3. Import(d) /\ target = task.plan.targets[d]
    BY <1>5, <2>2 DEF OwnImport, DigitOf
  <2>4. /\ task.pc = "import" /\ d \in Moved(task.plan) \ task.imported
        /\ DOMAIN task.segments = Moved(task.plan)
    BY <2>3, ImportTask
  <2> DEFINE own == {y \in task.segments[d] : y[1] = kw}
  <2>5. own = At(source, kw) /\ OnlyAt(source, kw)
    BY <2>2, <2>4 DEF MovesWith
  <2>6. /\ \A n \in Nodes \ {target} : At(n, kw)' = At(n, kw)
        /\ own \subseteq At(target, kw)'
        /\ At(target, kw)' \subseteq At(target, kw) \cup own
    BY <1>1, <2>3, ImportAt
  <2> HIDE DEF own
  <2>7. Held(x)' => Held(x)
    BY <1>2, <1>3, <2>5, <2>6
  <2>8. Held(x) => Held(x)'
    BY <1>2, <1>3, <2>5, <2>6 DEF OnlyAt
  <2> QED BY <2>7, <2>8
<1>6. CASE OwnConfirm(kw)
  <2>1. task.pc # "idle" /\ Over(task.plan, kw) /\ Confirm
        /\ DigitOf(task.plan, kw) \in task'.confirmed \ task.confirmed
    BY <1>6 DEF OwnConfirm, Confirm
  <2>2. PICK plan \in Plans, d \in Digits, source \in Nodes, target \in Nodes :
            /\ plan = task.plan /\ d = DigitOf(plan, kw)
            /\ source = plan.source /\ target = plan.targets[d]
            /\ MovesWith(kw, d, source, target)
            /\ \A n \in Nodes : At(n, kw) # {} => n = source \/ n = target
    BY <1>1, <2>1, MovingNodes
  <2>3. PICK e : e = Least(Moved(task.plan) \ task.confirmed)
    OBVIOUS
  <2>4. /\ task.pc = "confirm" /\ e \in Moved(plan) \ task.confirmed
        /\ task'.confirmed = task.confirmed \cup {e}
    BY <2>1, <2>2, <2>3, ConfirmTask
  <2>5. d \in task'.confirmed \ task.confirmed
    BY <2>1, <2>2 DEF DigitOf
  <2>6. d = e /\ source # target
    BY <2>2, <2>4, <2>5 DEF Moved
  <2>7. /\ \A n \in Nodes \ {source} : At(n, kw)' = At(n, kw)
        /\ At(source, kw)' = {} \/ SameAt(kw)
    BY <1>1, <2>1, <2>2, <2>3, ConfirmAt
  <2>8. At(source, kw) \subseteq At(target, kw)
    BY <2>2, <2>4 DEF MovesWith
  <2>9. Held(x)' => Held(x)
    BY <1>2, <1>3, <2>7 DEF SameAt
  <2>10. Held(x) => Held(x)'
    BY <1>2, <1>3, <2>2, <2>6, <2>7, <2>8
  <2> QED BY <2>9, <2>10
<1>7. CASE OwnReplay(kw)
  <2>1. PICK op \in Ops, node \in Nodes : op = Head(task.replay) /\ node = task.route.node
    BY <1>7, Replayed DEF OwnReplay, ReplayRpc
  <2>2. store' = [store EXCEPT ![node] = Applied(@, op)]
    BY <1>7, <2>1 DEF OwnReplay, ReplayRpc
  <2>3. /\ Held(x)' => Held(x) \/ Is(op, "add", x)
        /\ Held(x) => Held(x)' \/ Is(op, "delete", x)
    BY <2>2, AppliedAt
  <2> QED BY <1>1, <1>7, <2>1, <2>3 DEF Applies
<1>8. ASSUME NEW c \in Clients, OwnRpc(c, kw)
      PROVE  /\ Held(x)' => Held(x) \/ Applies("add", x)
             /\ Held(x) => Held(x)' \/ Applies("delete", x)
  <2>1. client[c].op \in Ops /\ client[c].route.node \in Nodes
    BY <1>8, BusyTyped DEF OwnRpc, StoragerRpc, Busy, RoutedStates, Routes
  <2>2. PICK op \in Ops, node \in Nodes : op = client[c].op /\ node = client[c].route.node
    BY <2>1
  <2>3. store' = [store EXCEPT ![node] = Applied(@, op)]
    BY <1>8, <2>2 DEF OwnRpc, StoragerRpc
  <2>4. /\ Held(x)' => Held(x) \/ Is(op, "add", x)
        /\ Held(x) => Held(x)' \/ Is(op, "delete", x)
    BY <2>3, AppliedAt
  <2> QED BY <1>1, <1>8, <2>2, <2>4 DEF Applies
<1> QED BY <1>1, <1>4, <1>5, <1>6, <1>7, <1>8, AtStays

\* What waits waits on until it is replayed.
LEMMA WaitsChanges ==
    ASSUME TypeInv, ListsFit, ParentsFit, [Next]_vars, ~Reset,
           NEW x \in Postings, x[1] \notin raced', NEW kind
    PROVE  /\ Waits(kind, x) => Waits(kind, x)' \/ (ReplayRecord /\ Is(Head(task.replay), kind, x))
           /\ \A c \in Clients : (Buffer(c) /\ Is(client[c].op, kind, x)) => Waits(kind, x)'
<1> DEFINE W(ops) == \E i \in DOMAIN ops : Is(ops[i], kind, x)
<1>1. Waits(kind, x) <=> W(task.replay) \/ \E p \in DOMAIN migrations : W(migrations[p].pending)
  BY DEF Waits
<1>2. Waits(kind, x)' <=> W(task'.replay) \/ \E p \in DOMAIN migrations' : W(migrations'[p].pending)
  BY DEF Waits, Is, Posting
<1>3. \A op : Is(op, kind, x) => op.kw = x[1]
  BY DEF Is, Posting
<1>4. ASSUME QuietLists PROVE Waits(kind, x) => Waits(kind, x)'
  <2>1. migrations' = migrations
    BY <1>4 DEF QuietLists
  <2>2. W(task.replay) => W(task'.replay)
    BY <1>3, <1>4 DEF QuietLists
  <2> HIDE DEF W
  <2>3. Waits(kind, x) => Waits(kind, x)'
    BY <1>1, <1>2, <2>1, <2>2
  <2> QED BY <2>3
<1>5. ASSUME NEW c \in Clients, Buffer(c)
      PROVE  /\ Waits(kind, x) => Waits(kind, x)'
             /\ Is(client[c].op, kind, x) => Waits(kind, x)'
  <2>1. PICK op : op = client[c].op
    OBVIOUS
  <2>2. PICK p \in ActiveMigrations(op.kw) :
            /\ p \in DOMAIN migrations /\ DOMAIN migrations' = DOMAIN migrations
            /\ migrations'[p].pending = Append(migrations[p].pending, op)
            /\ \A q \in DOMAIN migrations \ {p} : migrations'[q] = migrations[q]
    BY <1>5, <2>1, BufferEffect
  <2>3. migrations[p].pending \in Seq(Ops) /\ task' = task
    BY <1>5, <2>2, ListTyped DEF Buffer
  <2>4. PICK ops : ops = migrations[p].pending
    OBVIOUS
  <2>5. /\ Len(ops) + 1 \in DOMAIN Append(ops, op) /\ Append(ops, op)[Len(ops) + 1] = op
        /\ \A i \in DOMAIN ops : i \in DOMAIN Append(ops, op) /\ Append(ops, op)[i] = ops[i]
    BY <2>3, <2>4
  <2>6. /\ W(ops) => W(migrations'[p].pending)
        /\ Is(op, kind, x) => W(migrations'[p].pending)
    BY <2>2, <2>4, <2>5
  <2> HIDE DEF W
  <2> QED BY <1>1, <1>2, <2>1, <2>2, <2>3, <2>4, <2>6
<1>6. ASSUME NEW c \in Clients, Schedule(c) PROVE Waits(kind, x) => Waits(kind, x)'
  <2>1. client[c].plan.parent \notin DOMAIN migrations /\ task' = task
    BY <1>6 DEF ParentsFit, Schedule
  <2>2. \A q \in DOMAIN migrations : q \in DOMAIN migrations' /\ migrations'[q] = migrations[q]
    BY <1>6, <2>1, ScheduleEffect
  <2> HIDE DEF W
  <2> QED BY <1>1, <1>2, <2>1, <2>2
<1>7. ASSUME TakePending, task.plan.parent \in DOMAIN migrations PROVE Waits(kind, x) => Waits(kind, x)'
  <2>1. PICK p : p = task.plan.parent
    OBVIOUS
  <2>2. /\ task.replay = <<>> /\ task'.replay = migrations[p].pending
        /\ DOMAIN migrations' = DOMAIN migrations
        /\ \A q \in DOMAIN migrations \ {p} : migrations'[q] = migrations[q]
    BY <1>7, <2>1, TakeEffect, ReplayTask, LoopTask DEF ReplayStates
  <2>3. ~W(task.replay)
    BY <2>2
  <2> HIDE DEF W
  <2> QED BY <1>1, <1>2, <2>2, <2>3
<1>8. ASSUME ReplayRecord PROVE Waits(kind, x) => Waits(kind, x)' \/ Is(Head(task.replay), kind, x)
  <2>1. /\ task.pc = "replay_record" /\ task'.replay = Tail(task.replay) /\ migrations' = migrations
    BY <1>8, ReplayTask DEF ReplayRecord
  <2>2. PICK ops : ops = task.replay
    OBVIOUS
  <2>3. ops \in Seq(Ops) /\ ops # <<>>
    BY <2>1, <2>2, ListTyped, Replayed
  <2>4. /\ Head(ops) = ops[1]
        /\ \A i \in DOMAIN ops : i # 1 => i - 1 \in DOMAIN Tail(ops) /\ Tail(ops)[i - 1] = ops[i]
    BY <2>3, TailOf
  <2>5. W(ops) => W(Tail(ops)) \/ Is(Head(ops), kind, x)
    BY <2>4
  <2> HIDE DEF W
  <2> QED BY <1>1, <1>2, <1>8, <2>1, <2>2, <2>5
<1>9. ASSUME Finish PROVE Waits(kind, x) => Waits(kind, x)'
  <2>1. /\ task.replay = <<>> /\ DOMAIN migrations' = DOMAIN migrations
        /\ \A q \in DOMAIN migrations : migrations'[q].pending = migrations[q].pending
    BY <1>9, FinishEffect
  <2>2. ~W(task.replay)
    BY <2>1
  <2> HIDE DEF W
  <2> QED BY <1>1, <1>2, <2>1, <2>2
<1> QED BY <1>4, <1>5, <1>6, <1>7, <1>8, <1>9, QuietSteps

\* Nobody deletes x before it is asked for.
LEMMA HeldStays ==
    ASSUME TypeInv, KeptInv, [Next]_vars, ~Reset,
           NEW x \in Postings, x[1] \notin raced', x[1] \notin raced, x[1] \notin apart,
           ~Has(issued, "delete", x)
    PROVE  /\ Held(x) => Held(x)'
           /\ Held(x) \/ Waits("add", x) => (Held(x) \/ Waits("add", x))'
<1>1. PlansFit(x[1]) /\ StoreFits(x[1])
  BY DEF KeptInv, Postings
<1>2. ~Applies("delete", x)
  <2>1. ASSUME NEW c \in Clients, OwnRpc(c, x[1]), Is(client[c].op, "delete", x) PROVE FALSE
    BY <2>1 DEF OwnRpc, StoragerRpc, KeptInv, OpsFit, Busy, Has
  <2>2. ASSUME OwnReplay(x[1]), Is(Head(task.replay), "delete", x) PROVE FALSE
    <3>1. task.pc = "replay_rpc"
      BY <2>2 DEF OwnReplay, ReplayRpc
    <3>2. Head(task.replay) \in issued
      BY <3>1, Replayed DEF KeptInv, ListsFit, ListFits
    <3> QED BY <2>2, <3>2 DEF Has
  <2> QED BY <2>1, <2>2 DEF Applies
<1>3. Held(x) => Held(x)'
  BY <1>1, <1>2, HeldChanges DEF KeptInv
<1>4. (ReplayRecord /\ Is(Head(task.replay), "add", x)) => Held(x)
  <2>1. ASSUME ReplayRecord, Is(Head(task.replay), "add", x) PROVE Held(x)
    <3>1. task.pc = "replay_record" /\ Head(task.replay).kw = x[1]
      BY <2>1 DEF ReplayRecord, Is, Posting
    <3> QED BY <2>1, <3>1 DEF KeptInv, DoneFits, Is
  <2> QED BY <2>1
<1>5. Waits("add", x) => Waits("add", x)' \/ Held(x)
  BY <1>4, WaitsChanges DEF KeptInv
<1> QED BY <1>3, <1>5

\* A delete that was applied, or waits, is not overtaken by the add of the same posting.
LEMMA DeletedStays ==
    ASSUME TypeInv, KeptInv, [Next]_vars, ~Reset,
           NEW x \in Postings, x[1] \notin raced', x[1] \notin raced, x[1] \notin apart,
           Has(issued, "delete", x),
           \A c \in Clients : client[c].pc = "buffer" => ~Is(client[c].op, "delete", x),
           ~Held(x) \/ Waits("delete", x)
    PROVE  (~Held(x) \/ Waits("delete", x))'
<1>1. PlansFit(x[1]) /\ StoreFits(x[1])
  BY DEF KeptInv, Postings
<1>2. Applies("add", x) => Waits("delete", x)
  <2>1. ASSUME NEW c \in Clients, OwnRpc(c, x[1]), Is(client[c].op, "add", x) PROVE FALSE
    BY <2>1 DEF OwnRpc, StoragerRpc, KeptInv, OpsFit, Busy, Is
  <2>2. ASSUME OwnReplay(x[1]), Is(Head(task.replay), "add", x) PROVE Waits("delete", x)
    <3>1. task.pc = "replay_rpc"
      BY <2>2 DEF OwnReplay, ReplayRpc
    <3>2. 1 \in DOMAIN task.replay /\ Is(task.replay[1], "add", x)
      BY <2>2, <3>1, Replayed
    <3>3. Behind(task.replay, 1, x)
      BY <3>2 DEF KeptInv, OrderFits, Ordered
    <3> QED BY <3>3 DEF Behind, Waits
  <2> QED BY <2>1, <2>2 DEF Applies
<1>3. CASE ReplayRecord /\ Is(Head(task.replay), "delete", x)
  <2>1. task.pc = "replay_record" /\ Head(task.replay).kw = x[1] /\ store' = store
    BY <1>3 DEF ReplayRecord, Is, Posting
  <2>2. ~Held(x)
    BY <1>3, <2>1 DEF KeptInv, DoneFits, Is
  <2> QED BY <2>1, <2>2 DEF Held
<1>4. CASE ~(ReplayRecord /\ Is(Head(task.replay), "delete", x))
  <2>1. Waits("delete", x) => Waits("delete", x)'
    BY <1>4, WaitsChanges DEF KeptInv
  <2>2. Held(x)' => Held(x) \/ Applies("add", x)
    BY <1>1, HeldChanges DEF KeptInv
  <2> QED BY <1>2, <2>1, <2>2
<1> QED BY <1>3, <1>4

\* An operation that an RPC of a handler applied.
LEMMA RpcApplied ==
    ASSUME TypeInv, NEW c \in Clients, StoragerRpc(c),
           NEW op, op = client[c].op, op.kw \notin raced', PlansFit(op.kw), StoreFits(op.kw)
    PROVE  IF op.kind = "add" THEN Held(Posting(op))' ELSE ~Held(Posting(op))'
<1>1. op \in Ops /\ client[c].route.node \in Nodes /\ op.kw \in Keywords /\ OwnRpc(c, op.kw)
  BY BusyTyped DEF StoragerRpc, Busy, RoutedStates, Routes, OwnRpc
<1>2. PICK node \in Nodes : node = client[c].route.node
  BY <1>1
<1>3. store' = [store EXCEPT ![node] = Applied(@, op)]
  BY <1>2 DEF StoragerRpc
<1>4. /\ node = RingRoute(op.kw).node
      /\ ActiveMigrations(op.kw) = {} /\ OverIn(Windows, op.kw) = {}
  BY <1>1, <1>2, OwnRpcAlone
<1>5. OnlyAt(node, op.kw)
  BY <1>4 DEF StoreFits, Located, OnlyAt, OverIn
<1>6. /\ op.kind = "add" => Held(Posting(op))'
      /\ (op.kind = "delete" /\ OnlyAt(node, op.kw)) => ~Held(Posting(op))'
  BY <1>1, <1>3, AppliedAt
<1> QED BY <1>1, <1>5, <1>6, OpTyped

\* An operation that a replay applied.
LEMMA ReplayApplied ==
    ASSUME TypeInv, ListsFit, ParentsFit, ReplayRpc,
           NEW op, op = Head(task.replay), op.kw \notin raced, op.kw \notin raced',
           PlansFit(op.kw), StoreFits(op.kw)
    PROVE  IF op.kind = "add" THEN Held(Posting(op))' ELSE ~Held(Posting(op))'
<1>1. op \in Ops /\ op.kw \in Keywords /\ OwnReplay(op.kw) /\ task.route.node \in Nodes
  BY Replayed DEF ReplayRpc, OwnReplay
<1>2. PICK node \in Nodes : node = task.route.node
  BY <1>1
<1>3. store' = [store EXCEPT ![node] = Applied(@, op)]
  BY <1>2 DEF ReplayRpc
<1>4. node = RingRoute(op.kw).node /\ task.pc = "replay_rpc" /\ Over(task.plan, op.kw)
  BY <1>1, <1>2, OwnReplayAlone
<1>5. PICK plan \in Plans, d \in Digits, source \in Nodes, target \in Nodes :
            target = RingRoute(op.kw).node /\ MovesWith(op.kw, d, source, target)
  BY <1>1, <1>4, MovingNodes
<1>6. OnlyAt(node, op.kw)
  BY <1>4, <1>5 DEF MovesWith, AfterStates, ReplayStates
<1>7. /\ op.kind = "add" => Held(Posting(op))'
      /\ (op.kind = "delete" /\ OnlyAt(node, op.kw)) => ~Held(Posting(op))'
  BY <1>1, <1>3, AppliedAt
<1> QED BY <1>1, <1>6, <1>7, OpTyped

\* How a handler comes to have an operation done.
LEMMA Doing ==
    ASSUME TypeInv, [Next]_vars, NEW c \in Clients, client'[c].pc \in {"record", "schedule"}
    PROVE  /\ client'[c].op = client[c].op
           /\ \/ client[c].pc \in {"record", "schedule"}
              \/ StoragerRpc(c)
              \/ Buffer(c) /\ client[c].op.kind # "add"
<1>1. client \in [Clients -> ClientType]
  BY DEF TypeInv
<1>2. CASE client'[c] = client[c]
  BY <1>2
<1>3. ASSUME NEW b \in Clients, ClientStep(b), b # c PROVE client'[c] = client[c]
  <2>1. PICK x : Onward(b, x)
    BY <1>3, StepOnward
  <2> QED BY <1>1, <1>3, <2>1, OnwardClients
<1>4. ASSUME NEW b \in Clients, NEW o \in Ops, Request(b, o)
      PROVE  client'[c] = client[c]
  <2> DEFINE pc == IF ActiveMigrations(o.kw) # {} THEN "buffer" ELSE "route"
  <2>1. client' = [client EXCEPT ![b].pc = pc, ![b].op = o]
    BY <1>4 DEF Request
  <2>2. pc \notin {"record", "schedule"}
    OBVIOUS
  <2> HIDE DEF pc
  <2>3. b # c
    BY <1>1, <2>1, <2>2 DEF ClientType
  <2> QED BY <1>1, <2>1, <2>3
<1>5. CASE ClientStep(c)
  <2>1. PICK x : Onward(c, x)
    BY <1>5, StepOnward
  <2>2. client'[c] = x
    BY <1>1, <2>1, OnwardClients
  <2>3. client'[c].op = client[c].op
    BY <2>1, <2>2 DEF Onward
  <2>4. ASSUME Route(c) PROVE FALSE
    <3>1. PICK r : client' = [client EXCEPT ![c].pc = "recheck", ![c].route = r]
      BY <2>4 DEF Route
    <3> QED BY <1>1, <3>1 DEF ClientType
  <2>5. ASSUME Recheck(c) PROVE FALSE
    <3> DEFINE pc == IF ActiveMigrations(client[c].op.kw) # {} THEN "buffer" ELSE "rpc"
    <3>1. client' = [client EXCEPT ![c].pc = pc]
      BY <2>5 DEF Recheck
    <3>2. pc \notin {"record", "schedule"}
      OBVIOUS
    <3> HIDE DEF pc
    <3> QED BY <1>1, <3>1, <3>2 DEF ClientType
  <2>6. ASSUME BufferRefused(c) \/ Schedule(c) PROVE FALSE
    BY <1>1, <2>6 DEF BufferRefused, Schedule, IdleClient
  <2>7. Record(c) => client[c].pc = "record"
    BY DEF Record
  <2>8. ASSUME Buffer(c), client[c].op.kind = "add" PROVE FALSE
    BY <1>1, <2>8 DEF Buffer, IdleClient
  <2> QED BY <1>5, <2>3, <2>4, <2>5, <2>6, <2>7, <2>8 DEF ClientStep
<1> QED BY <1>2, <1>3, <1>4, <1>5, Changes

\* A handler that deletes x is the only one.
LEMMA DeletedOnce ==
    ASSUME TypeInv, OpsFit, NEW c \in Clients, client[c].pc \in {"record", "schedule"},
           NEW x, Is(client[c].op, "delete", x)
    PROVE  \A b \in Clients : client[b].pc = "buffer" => ~Is(client[b].op, "delete", x)
<1> SUFFICES ASSUME NEW b \in Clients, client[b].pc = "buffer", Is(client[b].op, "delete", x)
             PROVE  FALSE
  OBVIOUS
<1>1. Busy(b) /\ Busy(c) /\ b # c
  BY DEF Busy
<1>2. client[b].op = client[c].op
  BY <1>1, BusyTyped, SameOp DEF Is
<1> QED BY <1>1, <1>2 DEF OpsFit

\* What a handler or the task has done, it finds done until it has recorded it.
LEMMA DoneKept ==
    ASSUME TypeInv, KeptInv, [Next]_vars, ~Reset
    PROVE  DoneFits'
<1>1. raced \subseteq raced' /\ apart \subseteq apart'
  BY RacedGrows, ApartGrows
<1>2. ASSUME NEW c \in Clients, client'[c].pc \in {"record", "schedule"},
             client'[c].op.kw \notin raced' \cup apart'
      PROVE  \E op, x : /\ op = client'[c].op /\ x = Posting(op)
                        /\ IF op.kind = "add" THEN Held(x)' ELSE (~Held(x) \/ Waits("delete", x))'
  <2>1. PICK op, x : op = client[c].op /\ x = Posting(op)
    OBVIOUS
  <2>2. client'[c].op = op
    BY <1>2, <2>1, Doing
  <2>3. /\ Busy(c) /\ client[c].op \in Ops
        /\ \/ client[c].pc \in {"record", "schedule"}
           \/ StoragerRpc(c)
           \/ Buffer(c) /\ client[c].op.kind # "add"
    BY <1>2, Doing, BusyTyped DEF Busy, StoragerRpc, Buffer
  <2>4. /\ op \in Ops /\ op.kw \in Keywords \ (raced \cup apart) /\ op.kw \notin raced'
        /\ x \in Postings /\ x[1] = op.kw /\ Is(op, op.kind, x)
        /\ op.kind = "add" \/ op.kind = "delete"
    BY <1>1, <1>2, <2>1, <2>2, <2>3, OpTyped DEF Is
  <2> SUFFICES IF op.kind = "add" THEN Held(x)' ELSE (~Held(x) \/ Waits("delete", x))'
    BY <2>1, <2>2
  <2>5. CASE StoragerRpc(c)
    BY <2>1, <2>4, <2>5, RpcApplied DEF KeptInv
  <2>6. CASE Buffer(c) /\ op.kind # "add"
    BY <2>1, <2>4, <2>6, WaitsChanges DEF KeptInv
  <2>7. CASE client[c].pc \in {"record", "schedule"} /\ op.kind = "add"
    <3>1. Held(x)
      BY <2>1, <2>4, <2>7 DEF KeptInv, DoneFits
    <3>2. ~Has(issued, "delete", x)
      BY <2>1, <2>3, <2>7 DEF KeptInv, OpsFit
    <3> QED BY <2>4, <2>7, <3>1, <3>2, HeldStays
  <2>8. CASE client[c].pc \in {"record", "schedule"} /\ op.kind = "delete"
    <3>1. ~Held(x) \/ Waits("delete", x)
      BY <2>1, <2>4, <2>8 DEF KeptInv, DoneFits
    <3>2. Has(issued, "delete", x)
      BY <2>1, <2>3, <2>4, <2>8 DEF KeptInv, OpsFit, Has
    <3>3. \A b \in Clients : client[b].pc = "buffer" => ~Is(client[b].op, "delete", x)
      BY <2>1, <2>4, <2>8, DeletedOnce DEF KeptInv
    <3> QED BY <2>4, <2>8, <3>1, <3>2, <3>3, DeletedStays
  <2> QED BY <2>1, <2>3, <2>4, <2>5, <2>6, <2>7, <2>8
<1>3. ASSUME task'.pc = "replay_record", Head(task'.replay).kw \notin raced' \cup apart'
      PROVE  \E op, x : /\ op = Head(task'.replay) /\ x = Posting(op)
                        /\ IF op.kind = "add" THEN Held(x)' ELSE ~Held(x)'
  <2>1. \/ ReplayRpc
        \/ task' = task
    BY <1>3, Changes, StartTask, PrepareTask, ConfirmTask, ImportTask, ReplayTask, IdleFields
       DEF TaskStep, TakePending, Finish, TaskFails, ReplayOrFinish
  <2>2. PICK op, x : op = Head(task.replay) /\ x = Posting(op)
    OBVIOUS
  <2>3. Head(task'.replay) = op
    BY <2>1, <2>2, ReplayTask
  <2>4. task.pc \in {"replay_rpc", "replay_record"}
    BY <1>3, <2>1, ReplayTask
  <2>5. /\ op \in Ops /\ op.kw \in Keywords \ (raced \cup apart) /\ op.kw \notin raced'
        /\ x \in Postings /\ x[1] = op.kw /\ Is(op, op.kind, x)
        /\ op.kind = "add" \/ op.kind = "delete"
        /\ op = task.replay[1] /\ 1 \in DOMAIN task.replay
    BY <1>1, <1>3, <2>2, <2>3, <2>4, Replayed DEF Is
  <2>6. PlansFit(x[1]) /\ StoreFits(x[1])
    BY <2>5 DEF KeptInv
  <2> SUFFICES IF op.kind = "add" THEN Held(x)' ELSE ~Held(x)'
    BY <2>2, <2>3
  <2>7. CASE ReplayRpc
    BY <2>2, <2>5, <2>6, <2>7, ReplayApplied DEF KeptInv
  <2>8. CASE task' = task
    <3>1. task.pc = "replay_record"
      BY <1>3, <2>8
    <3>2. IF op.kind = "add" THEN Held(x) ELSE ~Held(x)
      BY <2>2, <2>5, <3>1 DEF KeptInv, DoneFits
    <3>3. ActiveMigrations(x[1]) # {}
      BY <2>5, <2>6, WaitsActive DEF KeptInv
    <3>4. \A c \in Clients : ~OwnRpc(c, x[1])
      BY <2>5, <2>6, <3>3, OwnRpcAlone
    <3>5. \A kind : ~Applies(kind, x)
      BY <3>1, <3>4 DEF Applies, OwnReplay, ReplayRpc
    <3>6. Held(x)' <=> Held(x)
      BY <2>5, <2>6, <3>5, HeldChanges DEF KeptInv
    <3> QED BY <3>2, <3>6
  <2> QED BY <2>1, <2>7, <2>8
<1>4. \A c \in Clients :
        (client'[c].pc \in {"record", "schedule"} /\ client'[c].op.kw \notin raced' \cup apart') =>
            IF client'[c].op.kind = "add" THEN Held(Posting(client[c].op))'
            ELSE ~Held(Posting(client[c].op))' \/ Waits("delete", Posting(client[c].op))'
  BY <1>2 DEF Held, Waits, Is, Posting
<1>5. (task'.pc = "replay_record" /\ Head(task'.replay).kw \notin raced' \cup apart') =>
        IF Head(task'.replay).kind = "add" THEN Held(Posting(Head(task.replay)))'
        ELSE ~Held(Posting(Head(task.replay)))'
  BY <1>3 DEF Held, Posting
<1> QED BY <1>4, <1>5 DEF DoneFits

\* Who answers a client.
LEMMA Answering ==
    ASSUME [Next]_vars, ~Reset
    PROVE  /\ \A x \in added' \ added : \E c \in Clients :
                /\ Is(client[c].op, "add", x)
                /\ Buffer(c) \/ BufferRefused(c) \/ Record(c) \/ Schedule(c)
           /\ \A x \in deleted' \ deleted : \E c \in Clients :
                /\ client[c].op.kind # "add" /\ x = Posting(client[c].op)
                /\ Record(c) \/ Schedule(c)
<1>1. ASSUME NEW op, Acknowledge(op)
      PROVE  /\ \A x \in added' \ added : Is(op, "add", x)
             /\ \A x \in deleted' \ deleted : op.kind # "add" /\ x = Posting(op)
  BY <1>1 DEF Acknowledge, Is
<1>2. ASSUME NEW c \in Clients, ClientStep(c)
      PROVE  \/ UNCHANGED <<added, deleted>>
             \/ /\ Acknowledge(client[c].op)
                /\ \/ Record(c) \/ Schedule(c)
                   \/ (Buffer(c) \/ BufferRefused(c)) /\ client[c].op.kind = "add"
  BY <1>2 DEF ClientStep, Route, Recheck, Buffer, BufferRefused, StoragerRpc, Record, Schedule, ghosts
<1>3. ASSUME NEW c \in Clients, NEW o \in Ops, Request(c, o)
      PROVE  added' \subseteq added /\ deleted' = deleted
  BY <1>3 DEF Request
<1>4. \/ UNCHANGED <<added, deleted>>
      \/ \E c \in Clients : ClientStep(c) \/ \E o \in Ops : Request(c, o)
  BY DEF Next, TaskStep, Failure, vars, ghosts, TaskStart, Prepare, Import, ImportFails, Confirm,
         ClearOverrides, TakePending, ReplayRoute, ReplayRpc, ReplayRecord, Finish, TaskFails, ResetFails
<1> QED BY <1>1, <1>2, <1>3, <1>4

\* What was acknowledged is in the storagers or waits.
LEMMA KeptKept ==
    ASSUME TypeInv, KeptInv, [Next]_vars, ~Reset
    PROVE  KeptFits'
<1>1. raced \subseteq raced' /\ apart \subseteq apart' /\ TypeInv'
  BY RacedGrows, ApartGrows, NextTypes
<1>2. ASSUME NEW x \in added', x[1] \notin raced' \cup apart' PROVE (Held(x) \/ Waits("add", x))'
  <2>1. x \in Postings /\ x[1] \notin raced \cup apart
    BY <1>1, <1>2 DEF TypeInv, GhostsFit
  <2>2. CASE x \in added
    <3>1. Held(x) \/ Waits("add", x)
      BY <2>1, <2>2 DEF KeptInv, KeptFits
    <3>2. ~Has(issued, "delete", x)
      BY <2>2 DEF KeptInv, OpsFit
    <3> QED BY <1>2, <2>1, <3>1, <3>2, HeldStays
  <2>3. CASE x \notin added
    <3>1. PICK c \in Clients :
                /\ Is(client[c].op, "add", x)
                /\ Buffer(c) \/ BufferRefused(c) \/ Record(c) \/ Schedule(c)
      BY <1>2, <2>3, Answering
    <3>2. client[c].op.kw = x[1] /\ Busy(c)
      BY <3>1 DEF Is, Posting, Busy, Buffer, BufferRefused, Record, Schedule
    <3>3. CASE Buffer(c)
      BY <1>2, <2>1, <3>1, <3>3, WaitsChanges DEF KeptInv
    <3>4. CASE BufferRefused(c)
      BY <1>2, <3>1, <3>2, <3>4 DEF BufferRefused, Is
    <3>5. CASE Record(c) \/ Schedule(c)
      <4>1. Held(x)
        BY <2>1, <3>1, <3>2, <3>5 DEF KeptInv, DoneFits, Is, Record, Schedule
      <4>2. store' = store
        BY <3>5 DEF Record, Schedule
      <4> QED BY <4>1, <4>2 DEF Held
    <3> QED BY <3>1, <3>3, <3>4, <3>5
  <2> QED BY <2>2, <2>3
<1>3. ASSUME NEW x \in deleted', x[1] \notin raced' \cup apart' PROVE (~Held(x) \/ Waits("delete", x))'
  <2>1. x \in Postings /\ x[1] \notin raced \cup apart
    BY <1>1, <1>3 DEF TypeInv, GhostsFit
  <2>2. CASE x \in deleted
    <3>1. ~Held(x) \/ Waits("delete", x)
      BY <2>1, <2>2 DEF KeptInv, KeptFits
    <3>2. Has(issued, "delete", x)
      BY <2>2 DEF KeptInv, OpsFit
    <3>3. \A b \in Clients : client[b].pc = "buffer" => ~Is(client[b].op, "delete", x)
      BY <2>2 DEF KeptInv, OpsFit, Is, Busy
    <3> QED BY <1>3, <2>1, <3>1, <3>2, <3>3, DeletedStays
  <2>3. CASE x \notin deleted
    <3>1. PICK c \in Clients :
                /\ client[c].op.kind # "add" /\ x = Posting(client[c].op)
                /\ Record(c) \/ Schedule(c)
      BY <1>3, <2>3, Answering
    <3>2. /\ client[c].op.kw = x[1] /\ Busy(c)
          /\ client[c].pc \in {"record", "schedule"}
      BY <3>1 DEF Posting, Busy, Record, Schedule
    <3>3. Is(client[c].op, "delete", x) /\ client[c].op \in issued
      BY <3>1, <3>2, BusyTyped DEF Is, KeptInv, OpsFit
    <3>4. ~Held(x) \/ Waits("delete", x)
      BY <2>1, <3>1, <3>2 DEF KeptInv, DoneFits
    <3>5. Has(issued, "delete", x)
      BY <3>3 DEF Has
    <3>6. \A b \in Clients : client[b].pc = "buffer" => ~Is(client[b].op, "delete", x)
      BY <3>2, <3>3, DeletedOnce DEF KeptInv
    <3> QED BY <1>3, <2>1, <3>4, <3>5, <3>6, DeletedStays
  <2> QED BY <2>2, <2>3
<1> QED BY <1>2, <1>3 DEF KeptFits

(***************************************************************************)
(* The invariant                                                           *)
(***************************************************************************)

\* A reset leaves nothing in the storagers and nothing answered for.
LEMMA ResetKept ==
    ASSUME TypeInv, Reset
    PROVE  /\ \A kw \in Keywords : StoreFits(kw)'
           /\ DoneFits' /\ KeptFits'
<1>1. /\ \A n \in Nodes : store'[n] = {}
      /\ added' = {} /\ deleted' = {}
      /\ client' = client /\ task' = task
      /\ task.pc = "idle" /\ \A c \in Clients : client[c].pc = "idle"
  BY DEF Reset, CanReset
<1>2. \A kw : \A n \in Nodes : At(n, kw)' = {}
  BY <1>1 DEF At
<1>3. \A kw, n : OnlyAt(n, kw)'
  BY <1>2 DEF OnlyAt
<1>4. \A kw \in Keywords : StoreFits(kw)'
  BY <1>1, <1>2, <1>3 DEF StoreFits, Located
<1> QED BY <1>1, <1>4 DEF DoneFits, KeptFits

LEMMA InitKept == Init => KeptInv
<1> SUFFICES ASSUME Init PROVE KeptInv
  OBVIOUS
<1>1. /\ migrations = << >> /\ queue = {} /\ issued = {} /\ added = {} /\ deleted = {}
      /\ store = [n \in Nodes |-> {}] /\ overrides = [kw \in Keywords |-> NoRoute]
  BY DEF Init
<1>2. /\ task.pc = "idle" /\ DOMAIN task.replay = {} /\ DOMAIN task.segments = {}
      /\ DOMAIN migrations = {}
      /\ \A c \in Clients : client[c].pc = "idle"
  BY <1>1 DEF Init, IdleTask, IdleClient
<1>3. OpsFit
  BY <1>1, <1>2 DEF OpsFit, Busy
<1>4. ListsFit /\ OrderFits
  BY <1>2 DEF ListsFit, ListFits, OrderFits, Ordered
<1>5. RoutePrefixes /\ ParentsFit /\ SegmentsFit /\ AlikeFits
  BY <1>1, <1>2 DEF RoutePrefixes, RoutedStates, ParentsFit, SegmentsFit, AlikeFits
<1>6. \A kw : \A n \in Nodes : At(n, kw) = {}
  BY <1>1 DEF At
<1>7. Windows = {} /\ \A kw : ActiveMigrations(kw) = {}
  BY <1>2 DEF Windows, ActiveMigrations
<1>8. \A kw \in Keywords : PlansFit(kw) /\ StoreFits(kw)
  BY <1>1, <1>2, <1>6, <1>7 DEF PlansFit, StoreFits, Located
<1>9. DoneFits /\ KeptFits
  BY <1>1, <1>2 DEF DoneFits, KeptFits
<1> QED BY <1>3, <1>4, <1>5, <1>8, <1>9 DEF KeptInv

LEMMA NextKept ==
    ASSUME TypeInv, KeptInv, [Next]_vars
    PROVE  KeptInv'
<1>1. OpsFit' /\ ListsFit' /\ RoutePrefixes' /\ ParentsFit' /\ SegmentsFit' /\ AlikeFits'
  BY OpsKept, ListsKept, RoutePrefixesKept, ParentsKept, SegmentsKept, AlikeKept DEF KeptInv
<1>2. /\ \A kw \in Keywords \ raced : PlansFit(kw)
      /\ \A kw \in Keywords \ (raced \cup apart) : StoreFits(kw)
  BY DEF KeptInv
<1>3. OrderFits'
  BY <1>2, OrderKept DEF KeptInv
<1>4. \A kw \in Keywords : kw \notin raced' => PlansFit(kw)'
  BY <1>2, PlansKept DEF KeptInv
<1>5. CASE Reset
  <2>1. (\A kw \in Keywords : StoreFits(kw)') /\ DoneFits' /\ KeptFits'
    BY <1>5, ResetKept
  <2> QED BY <1>1, <1>3, <1>4, <2>1, Zenon DEF KeptInv
<1>6. CASE ~Reset
  <2>1. raced \subseteq raced' /\ apart \subseteq apart'
    BY <1>6, RacedGrows, ApartGrows
  <2>2. \A kw \in Keywords : kw \notin raced' \cup apart' => StoreFits(kw)'
    BY <1>2, <1>6, <2>1, StoreKept DEF KeptInv
  <2>3. DoneFits' /\ KeptFits'
    BY <1>6, DoneKept, KeptKept
  <2> QED BY <1>1, <1>3, <1>4, <2>2, <2>3, Zenon DEF KeptInv
<1> QED BY <1>5, <1>6

\* Where the operations, plans and postings of a keyword are at every point of its
\* requests and of the split of its prefix, through failures and resets, as long as no
\* operation on it ran into one of the windows that the handlers leave open (add and
\* delete, run_split_migration, reset_system); where the postings are besides as long as
\* no migration told its two hashes apart (EPRing::keyword_to_hex, hashed_key_hex).
THEOREM KeptInvariance == Spec => [](TypeInv /\ KeptInv)
<1>1. Init => TypeInv /\ KeptInv
  BY InitTypes, InitKept
<1>2. TypeInv /\ KeptInv /\ [Next]_vars => TypeInv' /\ KeptInv'
  BY NextTypes, NextKept
<1> QED BY <1>1, <1>2, PTL DEF Spec

\* Only keywords with two different hashes are ever excepted as told apart: were xxh3 and
\* SHA-256 one function, none would be (run_split_migration).
THEOREM ApartDiffer == Spec => [](\A kw \in apart : RingHash[kw] # AdsHash[kw])
<1> DEFINE Differ == \A kw \in apart : RingHash[kw] # AdsHash[kw]
<1>1. Init => Differ
  BY DEF Init
<1>2. ASSUME Differ, [Next]_vars
      PROVE  Differ'
  <2>1. \A plan : \A kw \in ToldApart(plan) : RingHash[kw] # AdsHash[kw]
    BY DEF ToldApart
  <2>2. CASE TaskStart
    BY <1>2, <2>1, <2>2 DEF TaskStart
  <2>3. CASE Reset
    BY <2>3 DEF Reset
  <2>4. CASE ~TaskStart /\ ~Reset
    <3>1. apart' = apart
      BY <1>2, <2>4 DEF Next, ClientStep, Request, Route, Recheck, Buffer, BufferRefused,
         StoragerRpc, Record, Schedule, TaskStep, Prepare, Import, Confirm, ClearOverrides,
         TakePending, ReplayRoute, ReplayRpc, ReplayRecord, Finish, Failure, TaskFails,
         ResetFails, ImportFails, vars, ghosts
    <3> QED BY <1>2, <3>1
  <2> QED BY <2>2, <2>3, <2>4
<1> QED BY <1>1, <1>2, PTL DEF Spec

LEMMA WaitsIsPending ==
    ASSUME NEW kind, NEW x
    PROVE  Waits(kind, x) <=> ReplayPending(kind, x)
  BY DEF Waits, ReplayPending, Is

\* No add that was answered with success gets lost: `add` answers when the posting is in
\* a storager or buffered, and neither the export, import and confirmation of a child nor
\* the replay, in whatever order with the requests of others, takes it away before it is
\* there.  Excepted are keywords overtaken by a split and keywords told apart; the wrong
\* postings that a migration moves for the latter do not harm any other keyword.
THEOREM AddsKept == Spec => []AcknowledgedAddKept
<1>1. KeptInv => AcknowledgedAddKept
  BY WaitsIsPending DEF KeptInv, KeptFits, AcknowledgedAddKept
<1> QED BY <1>1, KeptInvariance, PTL

\* No delete that was answered with success is undone: the segment of a child holds what
\* its source holds until the import, and an add replayed for the same posting is followed
\* by its delete.  Excepted are the same keywords as for the adds.
THEOREM DeletesKept == Spec => []AcknowledgedDeleteKept
<1>1. KeptInv => AcknowledgedDeleteKept
  BY WaitsIsPending DEF KeptInv, KeptFits, AcknowledgedDeleteKept
<1> QED BY <1>1, KeptInvariance, PTL

(***************************************************************************)
(* Reads                                                                   *)
(***************************************************************************)
\* The route of an add is an entry's.  Only a buffered delete is recorded without one,
\* with an empty prefix.
LongRoutes ==
    /\ \A c \in Clients : (client[c].pc \in RoutedStates /\ client[c].op.kind = "add") =>
        RootLen =< Len(client[c].route.prefix)
    /\ \A kw \in Keywords : overrides[kw] # NoRoute => RootLen =< Len(overrides[kw].prefix)
    /\ task.pc \in {"replay_rpc", "replay_record"} => RootLen =< Len(task.route.prefix)

OverrideFits(kw) == overrides[kw] # NoRoute => overrides[kw].node = RingRoute(kw).node

\* The child of a moving keyword is emptied at its source from its confirmation on, and
\* from the clearing of the overrides on, none is behind the ring.
EmptiedFits(kw) ==
    LET d == DigitOf(task.plan, kw) IN
    /\ task.pc \in AfterStates \ {"clear"} => OverrideFits(kw)
    /\ (d \in Moved(task.plan) /\ task.pc = "confirm" /\ d \in task.confirmed) =>
        Segment(task.plan, d) \in emptied
    /\ (d \in Moved(task.plan) /\ task.pc \in AfterStates) => Segment(task.plan, d) \in emptied

\* An override is where the ring routes, or the keyword moves; until the child is emptied
\* its source has everything.
ReadsFit(kw) ==
    /\ OverrideFits(kw) \/ OverIn(Windows, kw) # {} \/ ActiveMigrations(kw) # {}
    /\ \A p \in ActiveMigrations(kw) : ChildPrefix(p, kw) \notin emptied =>
        \A n \in Nodes : At(n, kw) \subseteq At(migrations[p].source, kw)
    /\ (task.pc # "idle" /\ Over(task.plan, kw)) => EmptiedFits(kw)

ReadsInv == LongRoutes /\ \A kw \in Keywords \ (raced \cup apart) : ReadsFit(kw)

\* A ring without root digits is one storager's.
LEMMA OneNode ==
    ASSUME RootLen = 0, NEW m \in Nodes, NEW n \in Nodes
    PROVE  m = n
<1>1. \A p, q \in RootPrefixes : p = q
  BY DEF RootPrefixes
<1>2. RootCount \in Nat /\ RootCount >= NodeCount /\ NodeCount \in Nat
  BY MinimalRootLen, RootNumerals, RingShape DEF RootCount
<1>3. ASSUME RootCount > 1 PROVE FALSE
  <2>1. 0 \in 0 .. RootCount - 1 /\ 1 \in 0 .. RootCount - 1
    BY <1>2, <1>3
  <2>2. FormatPrefix(0) = FormatPrefix(1)
    BY <1>1, <2>1, RootNumerals
  <2>3. RootValue(FormatPrefix(0)) = 0 /\ RootValue(FormatPrefix(1)) = 1
    BY <2>1, RootNumerals
  <2> QED BY <2>2, <2>3
<1> QED BY <1>2, <1>3 DEF Nodes

LEMMA RoutesLong ==
    ASSUME TypeInv, LongRoutes, NEW kw \in Keywords
    PROVE  RootLen =< Len(RouteKeyword(kw).prefix)
<1>1. RingHash[kw] \in KeyHashes /\ RingInv(entries)
  BY HashesAssumption DEF TypeInv, RouterFits
<1>2. RouteKey(entries, RingHash[kw]) \in DOMAIN entries
  BY <1>1, RouteWalk DEF Leaves
<1>3. RootLen =< Len(RingRoute(kw).prefix)
  <2>1. Len(entries[RouteKey(entries, RingHash[kw])].prefix) >= RootLen
    BY <1>1, <1>2 DEF RingInv, Rooted
  <2>2. Len(entries[RouteKey(entries, RingHash[kw])].prefix) \in Nat /\ RootLen \in Nat
    BY <1>1, <1>2, EntryTyped, RingShape DEF RingInv, WellTyped
  <2> QED BY <2>1, <2>2 DEF RingRoute
<1> QED BY <1>3 DEF RouteKeyword, LongRoutes

\* Every step keeps the routes of adds long enough.
LEMMA LongRoutesKept ==
    ASSUME TypeInv, LongRoutes, [Next]_vars
    PROVE  LongRoutes'
<1>1. ASSUME NEW b \in Clients, client'[b].pc \in RoutedStates, client'[b].op.kind = "add"
      PROVE  RootLen =< Len(client'[b].route.prefix)
  <2>1. client[b].op \in Ops /\ client'[b].op = client[b].op /\ client[b].op.kw \in Keywords
    BY <1>1, ClientRoutes, OpTyped
  <2>2. RouteComes(b)
    BY <1>1, ClientRoutes
  <2> QED BY <1>1, <2>1, <2>2, RoutesLong DEF RouteComes, LongRoutes
<1>2. ASSUME NEW kw \in Keywords, overrides'[kw] # NoRoute
      PROVE  RootLen =< Len(overrides'[kw].prefix)
  <2>1. ASSUME NEW c \in Clients, Record(c), client[c].op.kind = "add",
               overrides'[kw] = client[c].route
        PROVE  RootLen =< Len(overrides'[kw].prefix)
    <3>1. client[c].pc \in RoutedStates
      BY <2>1 DEF Record, RoutedStates
    <3> QED BY <2>1, <3>1 DEF LongRoutes
  <2>2. ASSUME ReplayRecord, overrides'[kw] = task.route
        PROVE  RootLen =< Len(overrides'[kw].prefix)
    <3>1. task.pc = "replay_record"
      BY <2>2 DEF ReplayRecord
    <3> QED BY <2>2, <3>1 DEF LongRoutes
  <2>3. CASE overrides'[kw] = overrides[kw]
    BY <1>2, <2>3 DEF LongRoutes
  <2> QED BY <1>2, <2>1, <2>2, <2>3, OverrideComes
<1>3. ASSUME task'.pc \in {"replay_rpc", "replay_record"}
      PROVE  RootLen =< Len(task'.route.prefix)
  BY <1>3, ReplayRoutes, RoutesLong DEF LongRoutes
<1> QED BY <1>1, <1>2, <1>3, Zenon DEF LongRoutes

\* What is recorded as an override, nothing has overtaken: it is where the ring routes.
LEMMA OverridesChange ==
    ASSUME TypeInv, RoutePrefixes, LongRoutes, [Next]_vars, NEW kw \in Keywords, kw \notin raced'
    PROVE  \/ overrides'[kw] = NoRoute
           \/ overrides'[kw].node = RingRoute(kw).node
           \/ overrides'[kw] = overrides[kw] /\ (ClearOverrides => ~Over(task.plan, kw))
<1> SUFFICES ASSUME overrides'[kw] # NoRoute
             PROVE  \/ overrides'[kw].node = RingRoute(kw).node
                    \/ overrides'[kw] = overrides[kw] /\ (ClearOverrides => ~Over(task.plan, kw))
  OBVIOUS
<1>1. ASSUME NEW c \in Clients, Record(c), client[c].op.kw = kw, client[c].op.kind = "add",
             overrides'[kw] = client[c].route
      PROVE  overrides'[kw].node = RingRoute(kw).node
  <2>1. client[c].route \in Routes /\ RootLen =< Len(client[c].route.prefix)
        /\ IsPrefix(client[c].route.prefix, RingHash[kw])
    BY <1>1, BusyTyped DEF Record, Busy, RoutedStates, LongRoutes, RoutePrefixes
  <2>2. CASE client[c].route.prefix = <<>>
    <3>1. Len(client[c].route.prefix) = 0
      BY <2>2, EmptySeq
    <3>2. RootLen = 0
      BY <2>1, <3>1, RingShape
    <3>3. client[c].route.node \in Nodes /\ RingRoute(kw).node \in Nodes
      BY <2>1, RingRouteTyped DEF Routes, TypeInv, RouterFits
    <3> QED BY <1>1, <3>2, <3>3, OneNode
  <2>3. CASE client[c].route.prefix # <<>>
    <3>1. kw \notin Overtaken(client[c].op, client[c].route)
      BY <1>1, <2>3 DEF Record
    <3>2. ~Stale(client[c].op, client[c].route)
      BY <1>1, <2>1, <3>1 DEF Overtaken, KeywordsUnder
    <3> QED BY <1>1, <3>2 DEF Stale
  <2> QED BY <2>2, <2>3
<1>2. ASSUME ReplayRecord, Head(task.replay).kw = kw, overrides'[kw] = task.route
      PROVE  overrides'[kw].node = RingRoute(kw).node
  <2>1. ~StaleReplay(Head(task.replay), task.route)
    BY <1>2 DEF ReplayRecord
  <2> QED BY <1>2, <2>1 DEF StaleReplay
<1> QED BY <1>1, <1>2, OverrideComes

LEMMA OverrideStays ==
    ASSUME TypeInv, RoutePrefixes, LongRoutes, [Next]_vars, NEW kw \in Keywords, kw \notin raced',
           RingRoute(kw)' = RingRoute(kw), OverrideFits(kw)
    PROVE  OverrideFits(kw)'
  BY OverridesChange DEF OverrideFits

LEMMA EmptiedGrows ==
    ASSUME [Next]_vars, ~Reset
    PROVE  emptied \subseteq emptied'
  BY DEF Next, ClientStep, Request, Route, Recheck, Buffer, BufferRefused, StoragerRpc, Record,
         Schedule, TaskStep, TaskStart, Prepare, Import, Confirm, ClearOverrides, TakePending,
         ReplayRoute, ReplayRpc, ReplayRecord, Finish, Failure, TaskFails, ResetFails,
         ImportFails, vars, ghosts

\* What the task moves comes from one parent, and its child has one name.
LEMMA MovingFrom ==
    ASSUME TypeInv, NEW kw \in Keywords, PlansFit(kw), task.pc # "idle", Over(task.plan, kw)
    PROVE  \A p \in ActiveMigrations(kw) :
            /\ migrations[p].source = task.plan.source
            /\ ChildPrefix(p, kw) = Segment(task.plan, DigitOf(task.plan, kw))
<1>1. /\ task.plan.parent \in ActiveMigrations(kw)
      /\ migrations[task.plan.parent].source = task.plan.source
  BY DEF PlansFit, PlanAttached
<1>2. \A p \in ActiveMigrations(kw) : p = task.plan.parent
  BY <1>1, OneActive
<1> QED BY <1>1, <1>2 DEF ChildPrefix, Segment, DigitOf

\* A child is emptied before its task comes to the overrides, and these are cleared before
\* it comes to the replay.
LEMMA EmptiedKept ==
    ASSUME TypeInv, RoutePrefixes, LongRoutes, [Next]_vars, ~Reset,
           NEW kw \in Keywords, kw \notin raced', RingRoute(kw)' = RingRoute(kw),
           task.pc # "idle", task'.pc # "idle", task'.plan = task.plan, Over(task.plan, kw),
           EmptiedFits(kw)
    PROVE  EmptiedFits(kw)'
<1>1. PICK plan, d : plan = task.plan /\ d = DigitOf(plan, kw)
  OBVIOUS
<1>2. AfterStates = {"clear", "take", "finish", "replay", "replay_rpc", "replay_record"}
  BY DEF AfterStates, ReplayStates
<1>3. emptied \subseteq emptied' /\ (OverrideFits(kw) => OverrideFits(kw)')
  BY EmptiedGrows, OverrideStays
<1>4. /\ task.pc \in AfterStates \ {"clear"} => OverrideFits(kw)
      /\ (d \in Moved(plan) /\ task.pc = "confirm" /\ d \in task.confirmed) =>
            Segment(plan, d) \in emptied
      /\ (d \in Moved(plan) /\ task.pc \in AfterStates) => Segment(plan, d) \in emptied
  BY <1>1 DEF EmptiedFits
<1> SUFFICES /\ task'.pc \in AfterStates \ {"clear"} => OverrideFits(kw)'
             /\ (d \in Moved(plan) /\ task'.pc = "confirm" /\ d \in task'.confirmed) =>
                    Segment(plan, d) \in emptied'
             /\ (d \in Moved(plan) /\ task'.pc \in AfterStates) => Segment(plan, d) \in emptied'
  <2>1. task'.plan = plan /\ DigitOf(plan, kw)' = d /\ Segment(plan, d)' = Segment(plan, d)
        /\ Moved(plan)' = Moved(plan)
    BY <1>1 DEF DigitOf, Segment, Moved
  <2> QED BY <1>1, <2>1 DEF EmptiedFits, DigitOf
<1>5. CASE task' = task
  BY <1>3, <1>4, <1>5
<1>6. CASE Prepare
  BY <1>2, <1>6, PrepareTask
<1>7. CASE Confirm
  <2>1. PICK e : e = Least(Moved(plan) \ task.confirmed)
    OBVIOUS
  <2>2. /\ task.pc = "confirm" /\ task'.confirmed = task.confirmed \cup {e}
        /\ task'.pc = IF Moved(plan) = task'.confirmed THEN "clear" ELSE "confirm"
        /\ emptied' = emptied \cup {Segment(plan, e)}
    BY <1>1, <1>7, <2>1, ConfirmTask
  <2>3. (d \in Moved(plan) /\ d \in task'.confirmed) => Segment(plan, d) \in emptied'
    BY <1>4, <2>2
  <2> QED BY <1>2, <2>2, <2>3
<1>8. CASE ClearOverrides
  <2>1. task.pc = "clear" /\ task'.pc = "take"
    BY <1>8, ReplayTask
  <2>2. overrides'[kw] = NoRoute
    BY <1>8 DEF ClearOverrides, ClearedOverrides, Over
  <2> QED BY <1>2, <1>3, <1>4, <2>1, <2>2 DEF OverrideFits
<1>9. CASE TakePending \/ ReplayRoute \/ ReplayRpc \/ ReplayRecord
  <2>1. /\ task.pc \in AfterStates \ {"clear"}
        /\ task'.pc \in {"finish", "replay", "replay_rpc", "replay_record"}
    BY <1>2, <1>9, ReplayTask, IdleFields
       DEF TakePending, ReplayRoute, ReplayRpc, ReplayRecord, ReplayOrFinish
  <2> QED BY <1>2, <1>3, <1>4, <2>1
<1>10. ASSUME NEW e \in Digits, Import(e) \/ ImportFails(e)
       PROVE  task'.pc \in {"import", "confirm"} /\ task'.confirmed = {}
  BY <1>10, ImportTask, IdleFields
<1>11. ~TaskStart /\ ~Finish /\ ~TaskFails
  BY IdleFields DEF TaskStart, Finish, TaskFails
<1> QED BY <1>2, <1>5, <1>6, <1>7, <1>8, <1>9, <1>10, <1>11, Changes DEF TaskStep

\* Until the child is emptied its source has everything, through a step that leaves the
\* plans alone.
LEMMA SourceStays ==
    ASSUME TypeInv, ListsFit, ParentsFit, SegmentsFit, AlikeFits,
           [Next]_vars, ~Reset,
           NEW kw \in Keywords, kw \notin raced', kw \notin raced, kw \notin apart,
           PlansFit(kw), StoreFits(kw),
           ReadsFit(kw), NEW p \in ActiveMigrations(kw), ChildPrefix(p, kw) \notin emptied',
           NEW s, s = migrations[p].source, NEW n \in Nodes
    PROVE  At(n, kw)' \subseteq At(s, kw)'
<1>1. emptied \subseteq emptied' /\ s \in Nodes
  BY EmptiedGrows DEF ActiveMigrations, TypeInv, MigrationsFit, MigrationFits
<1>2. \A m \in Nodes : At(m, kw) \subseteq At(s, kw)
  BY <1>1 DEF ReadsFit
<1>3. CASE SameAt(kw)
  BY <1>1, <1>2, <1>3 DEF SameAt
<1>4. ASSUME NEW c \in Clients, OwnRpc(c, kw) PROVE FALSE
  BY <1>4, OwnRpcAlone
<1>5. CASE OwnConfirm(kw)
  <2>1. PICK plan, d, e : /\ plan = task.plan /\ d = DigitOf(plan, kw)
                          /\ e = Least(Moved(plan) \ task.confirmed)
    OBVIOUS
  <2>2. /\ task.pc = "confirm" /\ task'.confirmed = task.confirmed \cup {e}
        /\ emptied' = emptied \cup {Segment(plan, e)}
    BY <1>5, <2>1, ConfirmTask DEF OwnConfirm
  <2>3. d = e /\ Over(task.plan, kw)
    BY <1>5, <2>1, <2>2 DEF OwnConfirm
  <2>4. ChildPrefix(p, kw) = Segment(plan, d)
    BY <2>1, <2>2, <2>3, MovingFrom
  <2> QED BY <2>2, <2>3, <2>4
<1>6. ASSUME task.pc # "idle", Over(task.plan, kw)
      PROVE  \E plan \in Plans, d \in Digits, target \in Nodes :
                /\ plan = task.plan /\ d = DigitOf(plan, kw)
                /\ s = plan.source /\ target = plan.targets[d]
                /\ target = RingRoute(kw).node
                /\ d \notin Moved(plan) => target = s
                /\ MovesWith(kw, d, s, target)
                /\ Segment(plan, d) \notin emptied'
  BY <1>6, MovingNodes, MovingFrom
<1>7. CASE OwnImport(kw)
  <2>1. task.pc = "import" /\ Over(task.plan, kw)
    BY <1>7 DEF OwnImport, Import
  <2>2. PICK plan \in Plans, d \in Digits, target \in Nodes :
            /\ plan = task.plan /\ d = DigitOf(plan, kw)
            /\ s = plan.source /\ target = plan.targets[d] /\ MovesWith(kw, d, s, target)
    BY <1>6, <2>1
  <2>3. Import(d) /\ target = task.plan.targets[d]
    BY <1>7, <2>2 DEF OwnImport, DigitOf
  <2> DEFINE own == {x \in task.segments[d] : x[1] = kw}
  <2>4. /\ \A m \in Nodes \ {target} : At(m, kw)' = At(m, kw)
        /\ At(target, kw)' \subseteq At(target, kw) \cup own
    BY <2>3, ImportAt
  <2>5. d \in Moved(plan) /\ d \in DOMAIN task.segments
    BY <2>2, <2>3, ImportTask
  <2>6. own = At(s, kw) /\ s # target
    BY <2>1, <2>2, <2>5 DEF MovesWith, Moved
  <2> HIDE DEF own
  <2>7. At(s, kw)' = At(s, kw)
    BY <1>1, <2>4, <2>6
  <2> QED BY <1>2, <2>4, <2>6, <2>7
<1>8. CASE OwnReplay(kw)
  <2>1. task.pc = "replay_rpc" /\ Over(task.plan, kw)
    BY <1>8, OwnReplayAlone
  <2>2. PICK plan \in Plans, d \in Digits, target \in Nodes :
            /\ plan = task.plan /\ d = DigitOf(plan, kw) /\ target = RingRoute(kw).node
            /\ d \notin Moved(plan) => target = s
            /\ MovesWith(kw, d, s, target) /\ Segment(plan, d) \notin emptied'
    BY <1>6, <2>1
  <2>3. task.pc \in AfterStates
    BY <2>1 DEF AfterStates, ReplayStates
  <2>4. target = s /\ OnlyAt(s, kw)
    BY <1>1, <2>1, <2>2, <2>3 DEF ReadsFit, EmptiedFits, MovesWith
  <2>5. At(n, kw)' # {} => n = s
    BY <2>2, <2>4, AtGrows DEF OnlyAt
  <2> QED BY <2>5
<1> QED BY <1>3, <1>4, <1>5, <1>7, <1>8, AtStays

\* Every step keeps what the reads rest on, but for a keyword it taints.
LEMMA ReadsKept ==
    ASSUME TypeInv, KeptInv, ReadsInv, [Next]_vars, ~Reset,
           NEW kw \in Keywords, kw \notin raced' \cup apart'
    PROVE  ReadsFit(kw)'
<1>1. kw \notin raced' /\ kw \notin raced /\ kw \notin apart
      /\ PlansFit(kw) /\ StoreFits(kw) /\ ReadsFit(kw)
      /\ ListsFit /\ RoutePrefixes /\ ParentsFit /\ SegmentsFit /\ AlikeFits /\ LongRoutes
  BY RacedGrows, ApartGrows DEF KeptInv, ReadsInv
<1>2. RingRoute(kw)' = RingRoute(kw) /\ OverrideFits(kw) => OverrideFits(kw)'
  BY <1>1, OverrideStays
<1>3. \A plan : Over(plan, kw)' <=> Over(plan, kw)
  BY DEF Over
<1>4. CASE QuietPlans(kw)
  <2>1. /\ RingRoute(kw)' = RingRoute(kw) /\ ActiveMigrations(kw)' = ActiveMigrations(kw)
        /\ \A p \in ActiveMigrations(kw) : migrations'[p].source = migrations[p].source
        /\ OverIn(Windows, kw)' = OverIn(Windows, kw)
        /\ \/ task'.pc = "idle" \/ ~Over(task'.plan, kw)
           \/ task.pc # "idle" /\ task'.plan = task.plan
    BY <1>4 DEF QuietPlans, Over
  <2>2. (OverrideFits(kw) \/ OverIn(Windows, kw) # {} \/ ActiveMigrations(kw) # {})'
    BY <1>1, <1>2, <2>1 DEF ReadsFit
  <2>3. ASSUME NEW p \in ActiveMigrations(kw), ChildPrefix(p, kw) \notin emptied', NEW n \in Nodes
        PROVE  \A s : s = migrations[p].source => At(n, kw)' \subseteq At(s, kw)'
    BY <1>1, <2>3, SourceStays
  <2>4. \A p \in ActiveMigrations(kw)' : ChildPrefix(p, kw) \notin emptied' =>
            \A n \in Nodes : \A s : s = migrations'[p].source => At(n, kw)' \subseteq At(s, kw)'
    BY <2>1, <2>3
  <2>5. (task'.pc # "idle" /\ Over(task'.plan, kw)) => EmptiedFits(kw)'
    BY <1>1, <2>1, EmptiedKept DEF ReadsFit, Over
  <2> QED BY <1>3, <2>2, <2>4, <2>5 DEF ReadsFit, ChildPrefix, At
<1>5. ASSUME NEW c \in Clients, RecordSplits(c, kw) PROVE ReadsFit(kw)'
  <2>1. ActiveMigrations(kw) = {}
    BY <1>1, <1>5, SplitOver
  <2>2. OverIn(Windows, kw)' # {}
    BY <1>1, <1>5, SplitOver
  <2>3. migrations' = migrations /\ task' = task
    BY <1>5 DEF RecordSplits, Record
  <2>4. ActiveMigrations(kw)' = {}
    BY <2>1, <2>3 DEF ActiveMigrations
  <2>5. task.pc = "idle" \/ ~Over(task.plan, kw)
    BY <1>1, <2>1 DEF PlansFit, PlanAttached
  <2> QED BY <1>3, <2>2, <2>3, <2>4, <2>5 DEF ReadsFit, Over
<1>6. ASSUME NEW c \in Clients, ScheduleOver(c, kw) PROVE ReadsFit(kw)'
  <2>1. PICK plan \in Windows :
            /\ Over(plan, kw)
            /\ task.pc # "idle" => ~Over(task.plan, kw)
            /\ ActiveMigrations(kw)' = {plan.parent}
            /\ migrations'[plan.parent].source = plan.source
            /\ task' = task /\ store' = store
    BY <1>1, <1>6, ScheduledOver
  <2>2. PICK s : s = plan.source
    OBVIOUS
  <2>3. OnlyAt(s, kw)
    BY <1>1, <2>1, <2>2 DEF StoreFits
  <2>4. \A n \in Nodes : At(n, kw)' \subseteq At(s, kw)'
    BY <2>1, <2>3 DEF OnlyAt, At
  <2>5. \A p \in ActiveMigrations(kw)' :
            \A n \in Nodes : At(n, kw)' \subseteq {x \in store'[migrations'[p].source] : x[1] = kw}
    BY <2>1, <2>2, <2>4 DEF At
  <2> QED BY <1>3, <2>1, <2>5 DEF ReadsFit, At, Over
<1>7. CASE StartOver(kw)
  <2>1. PICK plan \in queue :
            /\ Over(plan, kw) /\ PlanAttached(plan, kw) /\ task'.plan = plan
            /\ task'.pc = IF Moved(plan) = {} THEN "clear" ELSE "prepare"
            /\ UNCHANGED <<entries, migrations, store>>
    BY <1>1, <1>7, StartedOver
  <2>2. emptied' = emptied
    BY <1>7 DEF StartOver, TaskStart
  <2>3. ActiveMigrations(kw)' = ActiveMigrations(kw) /\ ActiveMigrations(kw) # {}
    BY <2>1 DEF ActiveMigrations, PlanAttached
  <2>4. EmptiedFits(kw)'
    BY <2>1 DEF EmptiedFits, AfterStates, ReplayStates
  <2>5. \A p \in ActiveMigrations(kw)' : ChildPrefix(p, kw) \notin emptied' =>
            \A n \in Nodes : At(n, kw)' \subseteq {x \in store'[migrations'[p].source] : x[1] = kw}
    BY <1>1, <2>1, <2>2, <2>3 DEF ReadsFit, At
  <2> QED BY <2>3, <2>4, <2>5 DEF ReadsFit, ChildPrefix, At
<1>8. CASE FinishOver(kw)
  <2>1. /\ task.pc = "finish" /\ Over(task.plan, kw)
        /\ ActiveMigrations(kw)' = {} /\ task'.pc = "idle" /\ entries' = entries
    BY <1>1, <1>8, FinishedOver
  <2>2. OverrideFits(kw)
    BY <1>1, <2>1 DEF ReadsFit, EmptiedFits, AfterStates
  <2>3. RingRoute(kw)' = RingRoute(kw)
    BY <2>1 DEF RingRoute
  <2> QED BY <1>2, <2>1, <2>2, <2>3 DEF ReadsFit
<1> QED BY <1>1, <1>4, <1>5, <1>6, <1>7, <1>8, QuietPlanSteps

LEMMA ResetReads ==
    ASSUME Reset, NEW kw \in Keywords
    PROVE  ReadsFit(kw)'
<1>1. /\ overrides' = [k \in Keywords |-> NoRoute] /\ migrations' = << >>
      /\ task' = task /\ task.pc = "idle"
  BY DEF Reset, CanReset
<1>2. DOMAIN migrations' = {}
  BY <1>1
<1>3. ActiveMigrations(kw)' = {}
  BY <1>2 DEF ActiveMigrations
<1>4. OverrideFits(kw)'
  BY <1>1 DEF OverrideFits
<1> QED BY <1>1, <1>3, <1>4 DEF ReadsFit

LEMMA InitReads == Init => ReadsInv
<1> SUFFICES ASSUME Init PROVE ReadsInv
  OBVIOUS
<1>1. /\ overrides = [kw \in Keywords |-> NoRoute] /\ task.pc = "idle" /\ DOMAIN migrations = {}
      /\ \A c \in Clients : client[c].pc = "idle"
  BY DEF Init, IdleTask, IdleClient
<1>2. LongRoutes
  BY <1>1 DEF LongRoutes, RoutedStates
<1>3. \A kw \in Keywords : ReadsFit(kw)
  BY <1>1 DEF ReadsFit, OverrideFits, ActiveMigrations
<1> QED BY <1>2, <1>3 DEF ReadsInv

LEMMA NextReads ==
    ASSUME TypeInv, KeptInv, ReadsInv, [Next]_vars
    PROVE  ReadsInv'
<1>1. LongRoutes'
  BY LongRoutesKept DEF ReadsInv
<1>2. ASSUME NEW kw \in Keywords, kw \notin raced' \cup apart' PROVE ReadsFit(kw)'
  BY <1>2, ReadsKept, ResetReads
<1> QED BY <1>1, <1>2 DEF ReadsInv

\* What was acknowledged and does not wait is where a query is sent.
LEMMA ReadsFind ==
    ASSUME TypeInv, KeptInv, ReadsInv
    PROVE  ReadYourWrites
<1> SUFFICES ASSUME NEW x \in added, x[1] \notin raced \cup apart, ~Waits("add", x),
                    ~InConfirmWindow(x[1]), ~InScheduleWindow(x[1])
             PROVE  Queryable(x)
  BY WaitsIsPending DEF ReadYourWrites, Readable
<1>1. PICK kw : kw = x[1]
  OBVIOUS
<1>2. kw \in Keywords /\ Located(kw) /\ ReadsFit(kw)
  BY <1>1 DEF TypeInv, GhostsFit, Postings, KeptInv, StoreFits, ReadsInv
<1>3. PICK n \in Nodes : x \in store[n]
  BY DEF KeptInv, KeptFits, Held
<1>4. x \in At(n, kw)
  BY <1>1, <1>3 DEF At
<1>5. \A plan \in Windows : ~Over(plan, kw)
  BY <1>1 DEF InScheduleWindow, Windows, Over
<1>6. CASE ActiveMigrations(kw) = {}
  <2>1. n = RingRoute(kw).node
    BY <1>2, <1>4, <1>5, <1>6 DEF Located
  <2>2. OverrideFits(kw)
    BY <1>2, <1>5, <1>6 DEF ReadsFit, OverIn
  <2>3. RouteKeyword(kw).node = n
    BY <2>1, <2>2 DEF OverrideFits, RouteKeyword
  <2> QED BY <1>1, <1>3, <1>6, <2>3 DEF Queryable, QueryRoutes
<1>7. CASE ActiveMigrations(kw) # {}
  <2>1. ASSUME NEW p \in ActiveMigrations(kw) PROVE x \in store[migrations[p].source]
    <3>1. ChildPrefix(p, kw) \notin emptied
      BY <1>1 DEF InConfirmWindow
    <3> QED BY <1>2, <1>4, <3>1 DEF ReadsFit, At
  <2>2. \A route \in QueryRoutes(kw) : \E p \in ActiveMigrations(kw) : route.node = migrations[p].source
    BY <1>7 DEF QueryRoutes
  <2> QED BY <1>1, <2>1, <2>2 DEF Queryable
<1> QED BY <1>6, <1>7

\* A query finds every add that was answered with success: query_route_keyword sends it to
\* the source until the migration is confirmed and then where the ring routes, and the
\* source keeps the posting until its child is confirmed, the target has it from the
\* import on, and the overrides are cleared and recorded again on current routes only.
\* Excepted are the two windows of the handlers, what they overtook, and the keywords that
\* a migration told apart.
THEOREM WritesRead == Spec => []ReadYourWrites
<1>1. Init => ReadsInv
  BY InitReads
<1>2. TypeInv /\ KeptInv /\ ReadsInv /\ [Next]_vars => ReadsInv'
  BY NextReads
<1>3. TypeInv /\ KeptInv /\ ReadsInv => ReadYourWrites
  BY ReadsFind
<1> QED BY <1>1, <1>2, <1>3, KeptInvariance, PTL DEF Spec
=============================================================================
