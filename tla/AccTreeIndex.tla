--------------------------- MODULE AccTreeIndex ---------------------------
(***************************************************************************)
(* The AccTree index of a storager (storager/src/ads/acctree_ads.rs over   *)
(* ads_lib/src/acctree): a forest of lanes, lane i holding the i-th file   *)
(* of every keyword that has so many, each lane a balanced Merkle tree     *)
(* whose nodes carry the set of keywords below them.  A request rebuilds   *)
(* the lanes it changes; the nodes of dirty lanes go to LevelDB under      *)
(* their hash, then a manifest with the roots.  After a restart queries    *)
(* read the persisted nodes until the first change brings the forest back. *)
(*                                                                         *)
(* Hashes are free of collisions: a node stands for its hash.              *)
(***************************************************************************)
EXTENDS Naturals, Sequences, SequencesExt, FiniteSets, FiniteSetsExt

CONSTANTS
    Keys, KeyOrder,    \* keywords, and the sequence of them sorted
    Files, FileOrder,
    MigratedPrefixes,  \* the hex prefixes that migrate: sets of keywords
    Batches, Segments, \* the batches added and the records imported: bounds
    Explored,          \* the requests served, <<phase, kind>>: a bound
    MaxRequests        \* their number: a bound

ASSUME OrderAssumption ==
    /\ KeyOrder \in Seq(Keys) /\ ToSet(KeyOrder) = Keys /\ IsInjective(KeyOrder)
    /\ FileOrder \in Seq(Files) /\ ToSet(FileOrder) = Files /\ IsInjective(FileOrder)

ASSUME InputAssumption ==
    /\ Batches \subseteq SUBSET (Keys \X Files) /\ Segments \subseteq SUBSET (Keys \X Files)
    /\ MigratedPrefixes \subseteq SUBSET Keys

VARIABLES
    records,    \* record_index: keyword -> its files, sorted; nothing before hydration
    roots,      \* the lanes in memory
    dirty,      \* dirty_root_indices
    nodes,      \* LevelDB: the nodes written
    manifest,   \* ... and the root hashes of its manifest, persisted_root_hashes
    retained,   \* retained_prefixes
    confirmed,  \* confirmed_prefixes
    index,      \* history: the files a query of each keyword answers with
    op,         \* history: the request served last
    served      \* history: the number of requests

vars == <<records, roots, dirty, nodes, manifest, retained, confirmed, index, op, served>>

-----------------------------------------------------------------------------
(* Lanes.                                                                  *)

LeafNode(k, f) == [keys |-> {k}, file |-> f]
Merge(l, r) == [keys |-> l.keys \cup r.keys, left |-> l, right |-> r]
IsLeaf(n) == "file" \in DOMAIN n

\* One level of build_lane_tree: neighbours are merged, an odd one is kept.
Paired(level) ==
    [i \in 1 .. (Len(level) + 1) \div 2 |->
        IF 2 * i <= Len(level) THEN Merge(level[2 * i - 1], level[2 * i]) ELSE level[2 * i - 1]]

\* build_lane_tree: its levels from the leaves up, of which there are never
\* more than leaves.
Levels(leaves) ==
    LET up[h \in 0 .. Len(leaves)] == IF h = 0 THEN leaves ELSE Paired(up[h - 1]) IN up
LaneTree(leaves) == Levels(leaves)[Len(leaves)][1]

\* The nodes of each depth below n.
MaxDepth == Len(KeyOrder)
Children(S) == UNION {{n.left, n.right} : n \in {m \in S : ~IsLeaf(m)}}
Under(n) == LET at[d \in 0 .. MaxDepth] == IF d = 0 THEN {n} ELSE Children(at[d - 1]) IN at
Below(n) == UNION {Under(n)[d] : d \in 0 .. MaxDepth}

\* The members of S among the first i of an order, and all of them.
UpTo(order, S) ==
    LET upTo[i \in 0 .. Len(order)] ==
            IF i = 0 THEN <<>>
            ELSE IF order[i] \in S THEN Append(upTo[i - 1], order[i]) ELSE upTo[i - 1]
    IN  upTo
InOrder(order, S) == UpTo(order, S)[Len(order)]
Sorted(fids) == InOrder(FileOrder, fids)
LaneCount(recs) == Max({0} \cup {Len(recs[k]) : k \in Keys})

\* build_lane_from_index.
Lane(recs, i) ==
    LET held == InOrder(KeyOrder, {k \in Keys : Len(recs[k]) >= i})
    IN  LaneTree([j \in DOMAIN held |-> LeafNode(held[j], recs[held[j]][i])])

\* build_forest_from_index.
Forest(recs) == [i \in 1 .. LaneCount(recs) |-> Lane(recs, i)]

\* rebuild_lanes_from_index, and the same in insert: the lanes from `start`
\* on, those that are no longer needed being dropped.
\* A wrong variant: only the lane of the file that came or went.
RebuiltOne(old, recs, start) ==
    [i \in 1 .. LaneCount(recs) |->
        IF i = start \/ i \notin DOMAIN old THEN Lane(recs, i) ELSE old[i]]
Rebuilt(old, recs, start) ==
    [i \in 1 .. LaneCount(recs) |-> IF i >= start THEN Lane(recs, i) ELSE old[i]]

-----------------------------------------------------------------------------
(* Reading.                                                                *)

NoRecords == [k \in Keys |-> <<>>]

\* What is reached from root r; a node that is not in LevelDB is passed over
\* with all below it.
ReachedAt(r, store) ==
    LET at[d \in 0 .. MaxDepth] ==
            IF d = 0 THEN {r} \cap store ELSE Children(at[d - 1]) \cap store
    IN  at
Reached(r, store) == UNION {ReachedAt(r, store)[d] : d \in 0 .. MaxDepth}

\* collect_persisted_records: the keyword and the file of every leaf.
Stored(r) ==
    {<<CHOOSE k \in n.keys : TRUE, n.file>> : n \in {m \in Reached(r, nodes) : IsLeaf(m)}}
StoredRecords == UNION {Stored(r) : r \in ToSet(manifest)}

\* all_records: the index, else the persisted nodes.
AllRecords ==
    IF roots = <<>> THEN StoredRecords
    ELSE UNION {{<<k, f>> : f \in ToSet(records[k])} : k \in Keys}

\* build_record_index over a set of pairs.
IndexOf(pairs) == [k \in Keys |-> Sorted({f \in Files : <<k, f>> \in pairs})]

\* The record index once hydrated, and the lanes with it.
Hydrated == IF roots = <<>> THEN IndexOf(StoredRecords) ELSE records
HydratedRoots == IF roots = <<>> THEN Forest(Hydrated) ELSE roots

\* select_all_with_proof in one lane, whose nodes are found in `store`: the
\* match of a keyword with its siblings from the leaf up.  A node without one
\* of its children is passed over.
\* A wrong variant: the sides are swapped.
BesideSwapped(n, onLeft) ==
    <<[node |-> IF onLeft THEN n.left ELSE n.right, onLeft |-> ~onLeft, parent |-> n.keys]>>
Beside(n, onLeft) ==
    <<[node |-> IF onLeft THEN n.left ELSE n.right, onLeft |-> onLeft, parent |-> n.keys]>>
Lower(e, store) ==
    IF {e.node.left, e.node.right} \subseteq store
    THEN {[node |-> e.node.left, path |-> Beside(e.node, FALSE) \o e.path],
          [node |-> e.node.right, path |-> Beside(e.node, TRUE) \o e.path]}
    ELSE {}
Lowered(E, store) == UNION {Lower(e, store) : e \in {v \in E : ~IsLeaf(v.node)}}
WithKey(E, k, store) == {e \in E : e.node \in store /\ k \in e.node.keys}
VisitedAt(r, k, store) ==
    LET at[d \in 0 .. MaxDepth] ==
            IF d = 0 THEN WithKey({[node |-> r, path |-> <<>>]}, k, store)
            ELSE WithKey(Lowered(at[d - 1], store), k, store)
    IN  at
Visited(r, k, store) == UNION {VisitedAt(r, k, store)[d] : d \in 0 .. MaxDepth}
Matches(r, k, store) ==
    {[file |-> e.node.file, path |-> e.path] : e \in {v \in Visited(r, k, store) : IsLeaf(v.node)}}
Found(lanes, k, store) == UNION {Matches(l, k, store) : l \in ToSet(lanes)}

\* MerkleProof::verify: the root the path leads to.
Parent(n, e) ==
    [keys |-> e.parent,
     left |-> IF e.onLeft THEN e.node ELSE n, right |-> IF e.onLeft THEN n ELSE e.node]
Upwards(leaf, path) ==
    LET up[i \in 0 .. Len(path)] == IF i = 0 THEN leaf ELSE Parent(up[i - 1], path[i]) IN up
PathRoot(leaf, path) == Upwards(leaf, path)[Len(path)]

-----------------------------------------------------------------------------
(* Requests.                                                               *)

Init ==
    /\ records = NoRecords /\ roots = <<>> /\ dirty = {}
    /\ nodes = {} /\ manifest = <<>>
    /\ retained = {} /\ confirmed = {}
    /\ index = [k \in Keys |-> {}]
    /\ op = [kind |-> "none"] /\ served = 0

Phase == IF dirty = {} THEN "synced" ELSE "unsynced"
Serving(kind) == served < MaxRequests /\ <<Phase, kind>> \in Explored

Served(r) ==
    /\ Serving(r.kind)
    /\ served' = served + 1
    /\ op' = r

\* What a query of each keyword will answer.
Answering(lanes, store) ==
    index' = [k \in Keys |-> {m.file : m \in Found(lanes, k, store)}]

InMemory(recs, lanes, touched) ==
    /\ records' = recs /\ roots' = lanes /\ dirty' = touched
    /\ Answering(lanes, UNION {Below(l) : l \in ToSet(lanes)})

\* sync_persistence: the nodes of the dirty lanes, then the manifest.
\* A wrong variant: of a dirty lane only the root is written.
SyncedRoots(recs, lanes, touched) ==
    /\ InMemory(recs, lanes, {})
    /\ nodes' = nodes \cup {lanes[i] : i \in touched \cap DOMAIN lanes}
    /\ manifest' = lanes
Synced(recs, lanes, touched) ==
    /\ InMemory(recs, lanes, {})
    /\ nodes' = nodes \cup UNION {Below(lanes[i]) : i \in touched \cap DOMAIN lanes}
    /\ manifest' = lanes

\* rebuild_from_records: the whole forest anew.
RebuiltFrom(pairs) ==
    LET recs == IndexOf(pairs) IN Synced(recs, Forest(recs), DOMAIN Forest(recs))

\* The lane binary_search finds for a file.
Place(fids, f) ==
    LET all == Sorted(ToSet(fids) \cup {f}) IN CHOOSE i \in DOMAIN all : all[i] = f

\* add: insert_with_proof.  The lanes from the file's place on are rebuilt,
\* and nothing is written.
Add(k, f) ==
    LET base  == Hydrated
        recs  == [base EXCEPT ![k] = Sorted(ToSet(@) \cup {f})]
        start == Place(base[k], f)
    IN  /\ Served([kind |-> "add", keyword |-> k, fid |-> f])
        /\ IF f \in ToSet(base[k])
           THEN InMemory(base, HydratedRoots, dirty)
           ELSE InMemory(recs, Rebuilt(HydratedRoots, recs, start),
                         dirty \cup start .. LaneCount(recs))
        /\ UNCHANGED <<nodes, manifest, retained, confirmed>>

\* delete: delete_with_proof.  A file that is not there changes nothing, and
\* an index that becomes empty has no dirty lane left.
Delete(k, f) ==
    LET base  == Hydrated
        recs  == [base EXCEPT ![k] = Sorted(ToSet(@) \ {f})]
        start == Place(base[k], f)
    IN  /\ Served([kind |-> "delete", keyword |-> k, fid |-> f])
        /\ IF f \in ToSet(base[k])
           THEN Synced(recs, Rebuilt(HydratedRoots, recs, start),
                       dirty \cup start .. LaneCount(recs))
           ELSE /\ InMemory(base, HydratedRoots, dirty)
                /\ UNCHANGED <<nodes, manifest>>
        /\ UNCHANGED <<retained, confirmed>>

\* add_batch.
AddBatch(pairs) ==
    /\ Served([kind |-> "add_batch", pairs |-> pairs])
    /\ RebuiltFrom(AllRecords \cup pairs)
    /\ UNCHANGED <<retained, confirmed>>

Outside(p) == {r \in AllRecords : r[1] \notin p}

\* import_prefix_segment: the segment takes the place of all there was under
\* the prefix, which is part of it when a segment is sent again.
Import(p, pairs) ==
    /\ AllRecords \ Outside(p) \subseteq pairs
    /\ Served([kind |-> "import",
               records |-> [k \in Keys |-> {f \in Files : <<k, f>> \in pairs}]])
    /\ RebuiltFrom(Outside(p) \cup pairs)
    /\ UNCHANGED <<retained, confirmed>>

\* drain_prefix_segment.
Drain(p) ==
    /\ Served([kind |-> "drain", segment |-> p])
    /\ RebuiltFrom(Outside(p))
    /\ UNCHANGED <<retained, confirmed>>

\* prepare_retain_prefix_segment: the prefixes confirmed before are forgotten.
Prepare(p) ==
    /\ Served([kind |-> "prepare", segment |-> p])
    /\ retained' = retained \cup {p}
    /\ confirmed' = {}
    /\ UNCHANGED <<records, roots, dirty, nodes, manifest, index>>

\* confirm_prefix_migration: refused unless retained; nothing is removed
\* while another prefix is retained, then all that was confirmed.
ConfirmRefused(p) ==
    /\ p \notin retained
    /\ Served([kind |-> "refused"])
    /\ UNCHANGED <<records, roots, dirty, nodes, manifest, retained, confirmed, index>>
ConfirmDeferred(p) ==
    /\ p \in retained /\ retained # {p}
    /\ Served([kind |-> "deferred"])
    /\ retained' = retained \ {p}
    /\ confirmed' = confirmed \cup {p}
    /\ UNCHANGED <<records, roots, dirty, nodes, manifest, index>>
\* A wrong variant: what was confirmed before stays.
ConfirmLastOnly(p) ==
    /\ retained = {p}
    /\ Served([kind |-> "confirm", segment |-> UNION (confirmed \cup {p})])
    /\ RebuiltFrom(Outside(p))
    /\ retained' = {}
    /\ confirmed' = {}
ConfirmLast(p) ==
    LET gone == UNION (confirmed \cup {p})
    IN  /\ retained = {p}
        /\ Served([kind |-> "confirm", segment |-> gone])
        /\ RebuiltFrom(Outside(gone))
        /\ retained' = {}
        /\ confirmed' = {}

\* reset: an empty LevelDB.
Reset ==
    /\ Served([kind |-> "reset"])
    /\ InMemory(NoRecords, <<>>, {})
    /\ nodes' = {} /\ manifest' = <<>>
    /\ retained' = {} /\ confirmed' = {}

\* The process ends and starts again, maybe while a change is written: then
\* some of its nodes are there and its manifest is not.
Restart ==
    /\ Served([kind |-> "restart"])
    /\ \E started \in {<<>>} \cup {Forest(IndexOf(AllRecords \cup b)) : b \in Batches} :
          \E half \in {{}} \cup {{n} : n \in UNION {Below(l) : l \in ToSet(started)}} :
              nodes' = nodes \cup half
    /\ records' = NoRecords /\ roots' = <<>> /\ dirty' = {}
    /\ Answering(manifest, nodes)
    /\ retained' = {} /\ confirmed' = {}
    /\ UNCHANGED manifest

Next ==
    \/ \E k \in Keys, f \in Files : Add(k, f) \/ Delete(k, f)
    \/ \E b \in Batches : AddBatch(b)
    \/ \E p \in MigratedPrefixes :
          \/ \E s \in Segments : Import(p, {r \in s : r[1] \in p})
          \/ Drain(p) \/ Prepare(p)
          \/ ConfirmRefused(p) \/ ConfirmDeferred(p) \/ ConfirmLast(p)
    \/ Reset
    \/ Restart

Spec == Init /\ [][Next]_vars

-----------------------------------------------------------------------------
\* The lanes rebuilt one by one, by the requests that changed them, are the
\* forest the record index would give: an insertion or a removal in the
\* middle of a keyword's files moves the files behind it to other lanes.
LanesFollowRecords == roots # <<>> => roots = Forest(records)

\* What a restart reads back: every node below a root of the manifest is in
\* LevelDB, and a lane that is not dirty is the manifest's lane of its number.
CleanLanesStored ==
    /\ \A l \in ToSet(manifest) : Below(l) \subseteq nodes
    /\ \A i \in DOMAIN roots \ dirty : i \in DOMAIN manifest /\ manifest[i] = roots[i]

\* SelectResult::verify of every answer, from memory and from LevelDB: the
\* path of a match leads to the root of its lane, and no sibling on it has
\* the keyword.
MatchesProve ==
    \A r \in ToSet(IF roots = <<>> THEN manifest ELSE roots), k \in Keys :
        \A m \in Matches(r, k, Below(r)) :
            /\ PathRoot(LeafNode(k, m.file), m.path) = r
            /\ \A i \in DOMAIN m.path : k \notin m.path[i].node.keys

\* storager/src/ads/acctree_ads.rs:384, test_acctree_ads_persistence_restores_records:
\* what was added is there after a restart.
RestoreKeepsRecords == [][op'.kind = "restart" => index' = index]_vars
=============================================================================
