----------------------------- MODULE MestIndex -----------------------------
(***************************************************************************)
(* The MEST index of a storager (storager/src/ads/mest_ads.rs over         *)
(* ads_lib/src/mest): an extendible hash table whose buckets keep their    *)
(* keywords in segments, a Merkle tree over the values of every segment,   *)
(* and a Merkle group tree over the buckets.  A value is the list of a     *)
(* keyword's files, joined by commas.  Every change is followed by a       *)
(* rewrite of the file that holds all records.                             *)
(*                                                                         *)
(* SHA-256 is free of collisions: a hash is the sequence of what is hashed.*)
(***************************************************************************)
EXTENDS Naturals, Sequences, SequencesExt, FiniteSets, FiniteSetsExt, TLC

CONSTANTS
    Keys, Files,
    Radix, Capacity,     \* rdx and bucket_capacity
    DigitsOf,            \* keyword -> its routing digits, digits_prefix_mixed
    SegOf, SegOrder,     \* keyword -> its segment; the segments sorted
    ZeroHash, Garbled,   \* [0; 32]; a file that does not parse
    MigratedPrefixes,    \* the hex prefixes that migrate: sets of keywords
    Batches, Segments,   \* the batches added and the records imported: bounds
    Explored,            \* the requests served, <<case, kind>>: a bound
    MaxRequests          \* their number: a bound

VARIABLES
    ht,        \* SEH.ht: directory prefix, root first -> bucket
    mgtRoot,   \* mgt_root_hash
    retained,  \* retained_prefixes
    file,      \* mest-state.bin: the buckets whose records it lists
    index,     \* history: the files a query of each keyword answers with
    op,        \* history: the request served last
    served     \* history: the number of requests

vars == <<ht, mgtRoot, retained, file, index, op, served>>

-----------------------------------------------------------------------------
(* Buckets.  A bucket is a function on the segments it has; a segment has  *)
(* its pairs in order, the position of every keyword in them, and the      *)
(* leaves of its Merkle tree.                                              *)

NewSegment(k, v) == [pairs |-> <<[key |-> k, value |-> v]>>, at |-> k :> 1, tree |-> <<v>>]

\* The old value and the new: joined, unless the new one is a single file
\* that is there.
Joined(old, v) == IF Len(v) = 1 /\ v[1] \in ToSet(old) THEN old ELSE old \o v

InSegment(seg, k, v) ==
    IF k \in DOMAIN seg.at
    THEN LET i == seg.at[k]
             w == Joined(seg.pairs[i].value, v)
         IN  [seg EXCEPT !.pairs[i].value = w, !.tree[i] = w]
    ELSE [pairs |-> Append(seg.pairs, [key |-> k, value |-> v]),
          at |-> (k :> Len(seg.pairs) + 1) @@ seg.at,
          tree |-> Append(seg.tree, v)]

\* Bucket::insert.
InBucket(b, k, v) ==
    IF SegOf[k] \in DOMAIN b
    THEN [b EXCEPT ![SegOf[k]] = InSegment(@, k, v)]
    ELSE (SegOf[k] :> NewSegment(k, v)) @@ b

\* The keyword leaves its segment: those behind it move up, and the tree is
\* built anew.
\* A wrong variant: the tree keeps its leaves.
WithoutPairInTree(seg, k) ==
    LET i == seg.at[k]
    IN  [pairs |-> RemoveAt(seg.pairs, i),
         at |-> [q \in DOMAIN seg.at \ {k} |-> IF seg.at[q] > i THEN seg.at[q] - 1 ELSE seg.at[q]],
         tree |-> seg.tree]
WithoutPair(seg, k) ==
    LET i     == seg.at[k]
        pairs == RemoveAt(seg.pairs, i)
    IN  [pairs |-> pairs,
         at |-> [q \in DOMAIN seg.at \ {k} |-> IF seg.at[q] > i THEN seg.at[q] - 1 ELSE seg.at[q]],
         tree |-> [j \in DOMAIN pairs |-> pairs[j].value]]

Held(b, k) == SegOf[k] \in DOMAIN b /\ k \in DOMAIN b[SegOf[k]].at
ValueIn(b, k) == b[SegOf[k]].pairs[b[SegOf[k]].at[k]].value

\* Bucket::delete_value.  The value to remove is compared with each file of
\* the list, so that a list of several files is never found in it.
FromBucket(b, k, v) ==
    LET s    == SegOf[k]
        left == SelectSeq(ValueIn(b, k), LAMBDA f : <<f>> # v)
    IN  CASE ~Held(b, k) -> b
          [] Held(b, k) /\ left = <<>> -> [b EXCEPT ![s] = WithoutPair(@, k)]
          [] OTHER -> [b EXCEPT ![s].pairs[b[s].at[k]].value = left,
                                ![s].tree[b[s].at[k]] = left]

Size(b) == MapThenSumSet(LAMBDA s : Len(b[s].pairs), DOMAIN b)

\* Bucket::split_bucket: child d takes the keywords whose next digit is d.
NoBucket == [s \in {} |-> 0]
AllPairs(b) ==
    FlattenSeq([i \in DOMAIN SegOrder |->
                   IF SegOrder[i] \in DOMAIN b THEN b[SegOrder[i]].pairs ELSE <<>>])
InsertAll(b, pairs) == FoldLeft(LAMBDA acc, r : InBucket(acc, r.key, r.value), b, pairs)
ChildBucket(b, depth, d) ==
    InsertAll(NoBucket, SelectSeq(AllPairs(b), LAMBDA r : DigitsOf[r.key][depth + 1] = d))

-----------------------------------------------------------------------------
(* The directory, SEH.                                                     *)

NoTable == [p \in {} |-> 0]

\* get_bucket_by_key: the longest prefix of the keyword's digits that is in
\* the directory.
Route(t, k) ==
    CHOOSE p \in DOMAIN t :
        /\ IsPrefix(p, DigitsOf[k])
        /\ \A q \in DOMAIN t : IsPrefix(q, DigitsOf[k]) => Len(q) <= Len(p)

\* A bucket splits: its entry goes, those of all its children come.
SplitAt(t, p) ==
    [q \in {Append(p, d) : d \in 0 .. Radix - 1} |-> ChildBucket(t[p], Len(p), q[Len(q)])]
        @@ [q \in DOMAIN t \ {p} |-> t[q]]

\* Buckets split as long as the one the keyword is in is too large.
RECURSIVE Settled(_, _)
\* A wrong variant: one split, however the keywords are spread.
SettledOnce(t, k) ==
    IF Size(t[Route(t, k)]) <= Capacity THEN t ELSE SplitAt(t, Route(t, k))
Settled(t, k) ==
    IF Size(t[Route(t, k)]) <= Capacity THEN t ELSE Settled(SplitAt(t, Route(t, k)), k)

\* SEH::insert_kvpair.
TableInsert(t, k, v) ==
    LET opened == IF t = NoTable THEN <<>> :> NoBucket ELSE t
    IN  Settled([opened EXCEPT ![Route(opened, k)] = InBucket(@, k, v)], k)
TableInsertAll(t, pairs) == FoldLeft(LAMBDA acc, r : TableInsert(acc, r.key, r.value), t, pairs)

\* SEH::delete_kvpair_value: no bucket is merged with another.
TableDelete(t, k, v) ==
    IF t = NoTable THEN t ELSE [t EXCEPT ![Route(t, k)] = FromBucket(@, k, v)]

Holds(t, k) == t # NoTable /\ Held(t[Route(t, k)], k)
ValueOf(t, k) == IF Holds(t, k) THEN ValueIn(t[Route(t, k)], k) ELSE <<>>

-----------------------------------------------------------------------------
(* Hashes and proofs.                                                      *)

\* MerkleTree::recompute over the values of a segment, and the way up from
\* leaf i with the siblings met, get_proof_for_index.
Halved(level) ==
    [i \in 1 .. (Len(level) + 1) \div 2 |->
        IF 2 * i <= Len(level) THEN <<level[2 * i - 1], level[2 * i]>> ELSE level[2 * i - 1]]
RECURSIVE MerkleRoot(_)
MerkleRoot(level) == IF Len(level) = 1 THEN level[1] ELSE MerkleRoot(Halved(level))
RECURSIVE MerklePath(_, _)
MerklePath(level, i) ==
    LET sibling == IF i % 2 = 1 THEN i + 1 ELSE i - 1
        here    == IF sibling > Len(level) THEN <<>>
                   ELSE <<[hash |-> level[sibling], onLeft |-> sibling < i]>>
    IN  IF Len(level) = 1 THEN <<>> ELSE here \o MerklePath(Halved(level), (i + 1) \div 2)

SegRoot(seg) == MerkleRoot(seg.tree)

\* get_segment_roots_sorted: an empty segment has no root.
SegmentRoots(b) ==
    LET filled == SelectSeq(SegOrder, LAMBDA s : s \in DOMAIN b /\ b[s].tree # <<>>)
    IN  [i \in DOMAIN filled |-> SegRoot(b[filled[i]])]

\* The children a node of the group tree has after mgt_update over all
\* buckets, and recompute_node_hash.
NodeChildren(t, q) ==
    SelectSeq([d \in 1 .. Radix |-> Append(q, d - 1)],
              LAMBDA c : \E p \in DOMAIN t : IsPrefix(c, p))
RECURSIVE NodeHash(_, _)
NodeHash(t, q) ==
    IF q \in DOMAIN t THEN SegmentRoots(t[q])
    ELSE [i \in DOMAIN NodeChildren(t, q) |-> NodeHash(t, NodeChildren(t, q)[i])]

\* sync_mgt_from_seh.
GroupRoot(t) == IF t = NoTable THEN ZeroHash ELSE NodeHash(t, <<>>)

\* verify_mest_proof of the answer for a keyword, the siblings in the group
\* tree being those of the nodes from its bucket up.
BucketVerifies(b, k) ==
    LET seg  == b[SegOf[k]]
        path == MerklePath(seg.tree, seg.at[k])
    IN  /\ SegRoot(seg) = FoldLeft(LAMBDA h, e : IF e.onLeft THEN <<e.hash, h>> ELSE <<h, e.hash>>,
                                   ValueIn(b, k), path)
        /\ SegRoot(seg) \in ToSet(SegmentRoots(b))
GroupVerifies(t, p) ==
    LET Up(h, n) ==
            LET q == SubSeq(p, 1, n - 1)
            IN  [i \in DOMAIN NodeChildren(t, q) |->
                    IF NodeChildren(t, q)[i] = SubSeq(p, 1, n) THEN h
                    ELSE NodeHash(t, NodeChildren(t, q)[i])]
    IN  mgtRoot = FoldLeft(Up, SegmentRoots(t[p]), Reverse([n \in 1 .. Len(p) |-> n]))

-----------------------------------------------------------------------------
(* Requests.                                                               *)

Init ==
    /\ ht = NoTable /\ mgtRoot = ZeroHash
    /\ retained = {} /\ file = NoTable
    /\ index = [k \in Keys |-> {}]
    /\ op = [kind |-> "none"] /\ served = 0

Served(r, situation) ==
    /\ served < MaxRequests
    /\ <<situation, r.kind>> \in Explored
    /\ served' = served + 1
    /\ op' = r

\* The new table, its group tree, and the file rewritten: persist_state_if_needed.
InMemory(t) ==
    /\ ht' = t
    /\ mgtRoot' = GroupRoot(t)
    /\ index' = [k \in Keys |-> ToSet(ValueOf(t, k))]
Persisted(t) == InMemory(t) /\ file' = t

Add(k, f) ==
    /\ Served([kind |-> "add", keyword |-> k, fid |-> f], "plain")
    /\ Persisted(TableInsert(ht, k, <<f>>))
    /\ UNCHANGED retained

Delete(k, f) ==
    /\ Served([kind |-> "delete", keyword |-> k, fid |-> f], "plain")
    /\ Persisted(TableDelete(ht, k, <<f>>))
    /\ UNCHANGED retained

\* add_batch: a sequence of insertions, each of which is persisted.
AddBatch(pairs) ==
    /\ Served([kind |-> "add_batch", pairs |-> {<<r.key, r.value[1]>> : r \in ToSet(pairs)}], "plain")
    /\ Persisted(TableInsertAll(ht, pairs))
    /\ UNCHANGED retained

\* import_prefix_segment: every record of the prefix is inserted as one
\* value, which is compared with the files there as a whole.
Import(p, records) ==
    LET chosen == SelectSeq(records, LAMBDA r : r.key \in p)
    IN  /\ Served([kind |-> "import",
                   records |-> [k \in Keys |->
                      UNION {ToSet(r.value) : r \in {s \in ToSet(chosen) : s.key = k}}]],
                  IF \E r \in ToSet(chosen) : Holds(ht, r.key) THEN "again" ELSE "plain")
        /\ Persisted(TableInsertAll(ht, chosen))
        /\ UNCHANGED retained

\* remove_records_for_prefix: every record is deleted with its whole value.
Purged(p) ==
    FoldSet(LAMBDA k, t : IF Holds(ht, k) THEN TableDelete(t, k, ValueOf(ht, k)) ELSE t, ht, p)
Situation(p) == IF \E k \in p : Len(ValueOf(ht, k)) > 1 THEN "joined" ELSE "plain"

Drain(p) ==
    /\ Served([kind |-> "drain", segment |-> p], Situation(p))
    /\ Persisted(Purged(p))
    /\ UNCHANGED retained

Prepare(p) ==
    /\ Served([kind |-> "prepare", segment |-> p], "plain")
    /\ retained' = retained \cup {p}
    /\ UNCHANGED <<ht, mgtRoot, file, index>>

ConfirmRefused(p) ==
    /\ p \notin retained
    /\ Served([kind |-> "refused"], "plain")
    /\ UNCHANGED <<ht, mgtRoot, retained, file, index>>
Confirm(p) ==
    /\ p \in retained
    /\ Served([kind |-> "confirm", segment |-> p], Situation(p))
    /\ retained' = retained \ {p}
    /\ Persisted(Purged(p))

Reset ==
    /\ Served([kind |-> "reset"], "plain")
    /\ Persisted(NoTable)
    /\ retained' = {}

\* restore_from_persistence: the records of the file are inserted into an
\* empty table, bucket by bucket in the order the file has them, which is
\* that of a HashMap.  The process may have died while it wrote the file.
Restart ==
    \E left \in {file, Garbled} :
        \E order \in IF left = Garbled THEN {<<>>} ELSE SetToSeqs(DOMAIN left) :
            /\ Served([kind |-> "restart"], IF left = Garbled THEN "torn" ELSE "plain")
            /\ InMemory(TableInsertAll(NoTable,
                            FlattenSeq([i \in DOMAIN order |-> AllPairs(left[order[i]])])))
            /\ file' = left
            /\ retained' = {}

Next ==
    \/ \E k \in Keys, f \in Files : Add(k, f) \/ Delete(k, f)
    \/ \E b \in Batches : AddBatch(b)
    \/ \E p \in MigratedPrefixes :
          (\E s \in Segments : Import(p, s)) \/ Drain(p) \/ Prepare(p) \/ ConfirmRefused(p) \/ Confirm(p)
    \/ Reset
    \/ Restart

Spec == Init /\ [][Next]_vars

-----------------------------------------------------------------------------
\* Splits leave every keyword where the directory looks for it, exactly one
\* bucket responsible for every keyword, and no bucket above its capacity
\* (seh.rs:337, test_seh_deep_splits_distribution_rdx16).
DirectoryRoutes ==
    /\ \A p \in DOMAIN ht : Size(ht[p]) <= Capacity
    /\ \A p \in DOMAIN ht, k \in Keys : Held(ht[p], k) => p = Route(ht, k)
    /\ ht # NoTable =>
         \A k \in Keys : \E p \in DOMAIN ht :
             {q \in DOMAIN ht : IsPrefix(q, DigitsOf[k])} = {p}

\* The proof of every keyword that is stored leads from its files to the root
\* hash the storager publishes: the position map and the tree of a segment
\* follow its pairs through removals in the middle, the group tree follows
\* the directory through splits.
StoredKeysProve ==
    \A k \in Keys : Holds(ht, k) =>
        BucketVerifies(ht[Route(ht, k)], k) /\ GroupVerifies(ht, Route(ht, k))
=============================================================================
