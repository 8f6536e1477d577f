----------------------------- MODULE MptIndex -----------------------------
(***************************************************************************)
(* The MPT index of a storager (storager/src/ads/mpt.rs): a Patricia trie  *)
(* from keywords to lists of files behind the AdsOperations trait, its     *)
(* dirty nodes and its root hash written to LevelDB after every change and *)
(* its nodes read back one by one after a restart.  All of it runs under   *)
(* one mutex, so that a request is one step.                               *)
(***************************************************************************)
EXTENDS MptTrie

CONSTANTS
    Keys,        \* keywords
    KeyOrder,    \* ... sorted, a sequence
    PathOf,      \* keyword -> its path, two nibbles for every byte
    Files,
    MigratedPrefixes, \* the hex prefixes that migrate: sets of keywords
    Batches, Segments, \* the pairs added and the records imported, [Keys -> lists]: bounds
    Explored,    \* the requests served, <<phase, kind>>: a bound
    MaxRequests  \* the number of requests served: a bound

VARIABLES
    root,      \* the FullNode at the root, Nil when there is none or none was read
    rootHash,
    db,        \* LevelDB: hash -> node
    dbRoot,    \* ... and its mpt_root_hash entry
    retained,  \* retained_prefixes
    index,     \* history: the files a query of each keyword answers with
    op,        \* history: the request served last
    phase,     \* history: "fresh", "removed" once keywords went, "cold" after a restart
    served     \* history: the number of requests

vars == <<root, rootHash, db, dbRoot, retained, index, op, phase, served>>

\* The trie in memory with its database; ok is FALSE once an insertion failed.
Trie == [root |-> root, hash |-> rootHash, db |-> db, ok |-> TRUE]

\* get_root: the root, read from LevelDB when it was not yet.
GetRoot(t) ==
    IF t.root # Nil \/ t.hash = ZeroHash THEN t.root ELSE FetchFull(t.db, t.hash)

\* query_by_key: the value of a keyword, its proof, and the nodes it loads.
Loaded(t, k) ==
    LET full == GetRoot(t)
    IN  IF full = Nil THEN t ELSE [t EXCEPT !.root = LoadFull(full, PathOf[k], t.db)]
Query(t, k) ==
    LET full == Loaded(t, k).root
    IN  IF full = Nil THEN [value |-> Nil, proof |-> <<Full(Nil)>>]
        ELSE Search(full, PathOf[k])
FidsOf(t, k) == OrEmpty(Query(t, k).value)

\* MPT::insert: a root is made when there is none in memory; an error leaves
\* the root hash as it was.
Inserted(t, k, value) ==
    LET full  == IF t.root = Nil THEN Full(Nil) ELSE t.root
        done  == InsertFull(full, PathOf[k], value, t.db)
    IN  [root |-> done.node, hash |-> IF done.ok THEN done.node.hash ELSE t.hash,
         db |-> done.db, ok |-> t.ok /\ done.ok]

\* MPT::delete with cleanup_root_if_needed: without a root in memory nothing
\* happens, a root with nothing left in memory is dropped.
Deleted(t, k) ==
    LET done == DeleteFull(t.root, PathOf[k])
    IN  CASE t.root = Nil \/ ~done.found -> t
          [] Hollow(done.node) -> [t EXCEPT !.root = Nil, !.hash = ZeroHash]
          [] OTHER -> [t EXCEPT !.root = done.node, !.hash = done.node.hash]

\* The state after a request: what it left in memory and in LevelDB.
Answers(t) == [k \in Keys |-> ToSet(FidsOf(t, k))]
Left(t) == root' = t.root /\ rootHash' = t.hash /\ db' = t.db /\ index' = Answers(t)

\* persist_state: the dirty nodes, then the root hash.
Persisted(t) ==
    LET saved == SaveFull(t.root, t.db)
    IN  /\ Left(IF t.root = Nil THEN t ELSE [t EXCEPT !.root = saved.node, !.db = saved.db])
        /\ dbRoot' = t.hash

\* collect_all_records: every keyword found in memory with its files.
Records(t) ==
    LET full  == GetRoot(t)
        found == Collect(full, <<>>, t.db)
        value(k) == {r[2] : r \in {s \in found.records : s[1] = PathOf[k]}} \ {Nil}
    IN  IF full = Nil THEN [ok |-> TRUE, fids |-> [k \in Keys |-> <<>>]]
        ELSE [ok |-> found.ok,
              fids |-> [k \in Keys |->
                          IF found.ok /\ value(k) # {} THEN CHOOSE v \in value(k) : TRUE ELSE <<>>]]
CollectLoads(t) == [t EXCEPT !.root = GetRoot(t)]

-----------------------------------------------------------------------------
Init ==
    /\ root = Nil /\ rootHash = ZeroHash
    /\ db = <<>> /\ dbRoot = ZeroHash
    /\ retained = {}
    /\ index = [k \in Keys |-> {}]
    /\ op = [kind |-> "none"] /\ phase = "fresh" /\ served = 0

\* The request is served, r, after which the index is in phase p.
Served(r, p) ==
    /\ <<phase, r.kind>> \in Explored
    /\ served' = served + 1
    /\ op' = r
    /\ phase' = IF phase = "fresh" \/ p # "removed" THEN p ELSE phase

\* add: the file is appended to the keyword's list unless it is there.
Add(k, f) ==
    LET t     == Loaded(Trie, k)
        fids  == FidsOf(t, k)
        value == IF f \in ToSet(fids) THEN fids ELSE Append(fids, f)
    IN  /\ Persisted(Inserted(t, k, value))
        /\ Served([kind |-> "add", keyword |-> k, fid |-> f], phase)
        /\ UNCHANGED retained

\* add_batch: the lists in memory, then every keyword in any order, the
\* insertions that fail being ignored.
AddBatch(pairs) ==
    LET t      == CollectLoads(Trie)
        known  == Records(t).fids
        keys   == {p[1] : p \in pairs}
    IN  /\ \E order \in SetToSeqs(keys), fidOrder \in SetToSeqs({p[2] : p \in pairs}) :
              LET Value(k) == known[k] \o SelectSeq(fidOrder, LAMBDA f :
                                            <<k, f>> \in pairs /\ f \notin ToSet(known[k]))
              IN  Persisted(FoldLeft(LAMBDA acc, k : Inserted(acc, k, Value(k)), t, order))
        /\ Served([kind |-> "add_batch", pairs |-> pairs], phase)
        /\ UNCHANGED retained

\* delete: nothing for a keyword without files; a list that becomes empty
\* removes the keyword.
Delete(k, f) ==
    LET t    == Loaded(Trie, k)
        fids == FidsOf(t, k)
        left == SelectSeq(fids, LAMBDA g : g # f)
    IN  /\ IF fids = <<>>
           THEN Left(t) /\ UNCHANGED dbRoot
           ELSE Persisted(IF left = <<>> THEN Deleted(t, k) ELSE Inserted(t, k, left))
        /\ Served([kind |-> "delete", keyword |-> k, fid |-> f],
                  IF fids # <<>> /\ left = <<>> THEN "removed" ELSE phase)
        /\ UNCHANGED retained

\* import_prefix_segment: the records of a segment, in their order, take the
\* place of what their keywords had, which is part of what comes when a
\* segment is sent again.  An insertion that fails ends the import, with what
\* came before it in memory only.
Import(records) ==
    LET keys == SelectSeq(KeyOrder, LAMBDA k : records[k] # <<>>)
        end  == FoldLeft(LAMBDA acc, k : IF acc.ok THEN Inserted(acc, k, records[k]) ELSE acc,
                         Trie, keys)
    IN  /\ \A k \in Keys : records[k] = <<>> \/ ToSet(FidsOf(Trie, k)) \subseteq ToSet(records[k])
        /\ \/ /\ end.ok
              /\ Persisted(end)
              /\ Served([kind |-> "import", records |-> [k \in Keys |-> ToSet(records[k])]], phase)
           \/ /\ ~end.ok
              /\ Left(end)
              /\ Served([kind |-> "refused"], phase)
              /\ UNCHANGED dbRoot
        /\ UNCHANGED retained

\* remove_prefix_records: every record of the prefix that is in memory, in
\* key order.
WithoutPrefix(t, p) ==
    LET known == Records(t).fids
        keys  == SelectSeq(KeyOrder, LAMBDA k : k \in p /\ known[k] # <<>>)
    IN  FoldLeft(Deleted, CollectLoads(t), keys)

\* drain_prefix_segment: exported, then removed.
Drain(p) ==
    /\ Records(Trie).ok
    /\ Persisted(WithoutPrefix(Trie, p))
    /\ Served([kind |-> "drain", segment |-> p], "removed")
    /\ UNCHANGED retained

\* prepare_retain_prefix_segment.
Prepare(p) ==
    /\ Records(Trie).ok
    /\ retained' = retained \cup {p}
    /\ Left(CollectLoads(Trie))
    /\ Served([kind |-> "prepare", segment |-> p], phase)
    /\ UNCHANGED dbRoot

\* confirm_prefix_migration: only of a prefix that was retained.
Confirm(p) ==
    /\ p \in retained
    /\ retained' = retained \ {p}
    /\ Persisted(WithoutPrefix(Trie, p))
    /\ Served([kind |-> "confirm", segment |-> p], "removed")
ConfirmRefused(p) ==
    /\ p \notin retained
    /\ Served([kind |-> "refused"], phase)
    /\ UNCHANGED <<root, rootHash, db, dbRoot, retained, index>>

\* reset: an empty LevelDB; the retained prefixes stay.
Reset ==
    /\ Left([root |-> Nil, hash |-> ZeroHash, db |-> <<>>, ok |-> TRUE])
    /\ dbRoot' = ZeroHash
    /\ Served([kind |-> "reset"], "fresh")
    /\ UNCHANGED retained

\* The process ends and starts again: restore_from_db.
Restart ==
    /\ Left([root |-> IF dbRoot = ZeroHash THEN Nil ELSE FetchFull(db, dbRoot),
             hash |-> dbRoot, db |-> db, ok |-> TRUE])
    /\ retained' = {}
    /\ Served([kind |-> "restart"], "cold")
    /\ UNCHANGED dbRoot

-----------------------------------------------------------------------------
\* A request while the storager still serves some: the bound.
Serving(kinds) == served < MaxRequests /\ \E kind \in kinds : <<phase, kind>> \in Explored

Next ==
    \/ Serving({"add"}) /\ \E k \in Keys, f \in Files : Add(k, f)
    \/ Serving({"delete"}) /\ \E k \in Keys, f \in Files : Delete(k, f)
    \/ Serving({"add_batch"}) /\ \E b \in Batches : AddBatch(b)
    \/ Serving({"import", "refused"}) /\ \E s \in Segments : Import(s)
    \/ Serving({"drain"}) /\ \E p \in MigratedPrefixes : Drain(p)
    \/ Serving({"prepare"}) /\ \E p \in MigratedPrefixes : Prepare(p)
    \/ Serving({"confirm", "refused"}) /\
         \E p \in MigratedPrefixes : Confirm(p) \/ ConfirmRefused(p)
    \/ Serving({"reset"}) /\ Reset
    \/ Serving({"restart"}) /\ Restart

Spec == Init /\ [][Next]_vars

-----------------------------------------------------------------------------
(* The manager's check of a query.                                         *)

\* verify_full_mpt_proof knows the proof and the root only.  The value is that
\* of the leaf, or else the first one in the proof; the node of an empty trie
\* is accepted for the root hash of one.
Claimed(q) ==
    LET leaves == SelectSeq(q.proof, LAMBDA e : e.type = "leaf")
        valued == SelectSeq(q.proof, LAMBDA e : e.type # "ext" /\ OrEmpty(e.value) # <<>>)
    IN  IF q.value = Nil \/ valued = <<>> THEN Nil
        ELSE IF leaves # <<>> /\ OrEmpty(leaves[1].value) # <<>> THEN leaves[1].value
        ELSE valued[1].value
Accepted(q, published) ==
    LET computed == ComputeRoot(Claimed(q), q.proof)
    IN  computed = published \/ (published = ZeroHash /\ computed = FullHash(Full(Nil)))

\* A query's proof gives the root hash the storager publishes, whether the
\* keyword has files or not, both as verify_query_result recomputes it with the
\* files and as the manager does without them: the hashes that insertions and
\* removals renew on their way up are those of the nodes the search goes through.
ProofsVerify ==
    \A k \in Keys :
        LET q == Query(Trie, k)
        IN  /\ rootHash # ZeroHash => ComputeRoot(q.value, q.proof) = rootHash
            /\ Accepted(q, rootHash)
=============================================================================
