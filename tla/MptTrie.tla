------------------------------ MODULE MptTrie ------------------------------
(***************************************************************************)
(* The Merkle Patricia trie of storager/ads_lib/src/mpt: its nodes, the    *)
(* recursive insertion, search and deletion, the hashes every node carries *)
(* for its children, the nodes written to LevelDB under their hash, and    *)
(* the proofs a query returns.                                             *)
(*                                                                         *)
(* A node is a record that holds its subtree; a child that has a hash and  *)
(* no node is one that was not loaded after a restart.  SHA-256 is free of *)
(* collisions, so that a hash is what was hashed: the sequence of what the *)
(* code feeds to the digest, the nibbles and the file names in it written  *)
(* out, a hash in it as one element.                                       *)
(***************************************************************************)
EXTENDS Naturals, Sequences, SequencesExt, FiniteSets, TLC

CONSTANTS
    NibbleOrder,  \* the nibbles in order, a sequence of model values
    Nil,          \* no node, no value, no hash of a child
    ZeroHash      \* [0; 32]

Nibbles == ToSet(NibbleOrder)

OrEmpty(v) == IF v = Nil THEN <<>> ELSE v

LeafHash(n) == n.prefix \o n.suffix \o OrEmpty(n.value)
ExtHash(n)  == n.suffix \o <<n.nextHash>>
FullHash(n) ==
    LET present == SelectSeq(NibbleOrder, LAMBDA d : n.kidsHash[d] # Nil)
    IN  [i \in DOMAIN present |-> n.kidsHash[present[i]]] \o OrEmpty(n.value)

\* update_hash, the node being marked dirty by its caller.
Rehash(n) ==
    [n EXCEPT !.hash = CASE n.type = "leaf" -> LeafHash(n)
                         [] n.type = "ext"  -> ExtHash(n)
                         [] n.type = "full" -> FullHash(n)]
Touched(n) == [Rehash(n) EXCEPT !.dirty = TRUE]

Leaf(prefix, suffix, value) ==
    Touched([type |-> "leaf", prefix |-> prefix, suffix |-> suffix, value |-> value,
             hash |-> ZeroHash, dirty |-> TRUE])
Ext(suffix, next) ==
    Touched([type |-> "ext", suffix |-> suffix, next |-> next, nextHash |-> next.hash,
             hash |-> ZeroHash, dirty |-> TRUE])
Full(value) ==
    Touched([type |-> "full", kids |-> [d \in Nibbles |-> Nil],
             kidsHash |-> [d \in Nibbles |-> Nil], value |-> value,
             hash |-> ZeroHash, dirty |-> TRUE])

\* A FullNode with child n at nibble d, its hash taken and its own renewed.
WithKid(full, d, n) ==
    Touched([full EXCEPT !.kids[d] = n, !.kidsHash[d] = n.hash])

(***************************************************************************)
(* LevelDB: hash -> the node written under it, without its subtree.  A     *)
(* FullNode read as a ShortNode, or the reverse, does not parse.           *)
(***************************************************************************)
Bare(n) ==
    CASE n.type = "leaf" -> [n EXCEPT !.dirty = FALSE]
      [] n.type = "ext"  -> [n EXCEPT !.dirty = FALSE, !.next = Nil]
      [] n.type = "full" -> [n EXCEPT !.dirty = FALSE, !.kids = [d \in Nibbles |-> Nil]]

Put(db, n) == (n.hash :> Bare(n)) @@ db
PutAll(db, nodes) == FoldLeft(Put, db, nodes)

\* What reading hash h as one of `types` gives, Nil when it is not there or
\* does not parse.
Fetch(db, h, types) ==
    IF h \in DOMAIN db /\ db[h].type \in types THEN db[h] ELSE Nil
FetchShort(db, h) == Fetch(db, h, {"leaf", "ext"})
FetchFull(db, h)  == Fetch(db, h, {"full"})

(***************************************************************************)
(* Insertion.  Each operator returns the node that takes the place of its  *)
(* argument, the database and whether an error was returned; `path` is the *)
(* rest of the key's path from the node on.                                *)
(***************************************************************************)
Result(n, db) == [node |-> n, db |-> db, ok |-> TRUE]
Failed(n, db) == [node |-> n, db |-> db, ok |-> FALSE]

\* The rest of a key below a new branch: its value on the branch, or a leaf.
OnBranch(branch, rest, value) ==
    IF rest = <<>> THEN [branch EXCEPT !.value = value]
    ELSE WithKid(branch, Head(rest), Leaf(<<>>, Tail(rest), value))
LeavesOf(rest, value) ==
    IF rest = <<>> THEN <<>> ELSE <<Leaf(<<>>, Tail(rest), value)>>

\* A leaf whose suffix is not the key's: a branch where the two part, under
\* an extension with what they share.
SplitLeaf(leaf, path, value, db) ==
    LET shared  == LongestCommonPrefix({leaf.suffix, path})
        oldRest == SubSeq(leaf.suffix, Len(shared) + 1, Len(leaf.suffix))
        newRest == SubSeq(path, Len(shared) + 1, Len(path))
        branch  == Touched(OnBranch(OnBranch(Full(Nil), oldRest, leaf.value), newRest, value))
        ext     == Ext(shared, branch)
    IN  Result(ext, PutAll(db, <<Full(Nil)>> \o LeavesOf(oldRest, leaf.value)
                                 \o LeavesOf(newRest, value) \o <<ext>>))

\* An extension whose suffix and the key part at `shared`: the extension
\* loses what is shared and one nibble more, and moves under a branch.
\* A wrong variant: the shortened extension keeps its hash.
ShortenedUnhashed(ext, shared) ==
    [ext EXCEPT !.suffix = SubSeq(@, Len(shared) + 2, Len(@))]
Shortened(ext, shared) ==
    Touched([ext EXCEPT !.suffix = SubSeq(@, Len(shared) + 2, Len(@))])

\* The key ends inside the suffix: the branch takes the value.
BranchAtEnd(ext, shared, value) ==
    WithKid(Full(value), ext.suffix[Len(shared) + 1], Shortened(ext, shared))

\* The key leaves the suffix: the branch takes the extension and a leaf.
BranchApart(ext, shared, path, value) ==
    WithKid(WithKid(Full(Nil), ext.suffix[Len(shared) + 1], Shortened(ext, shared)),
            path[Len(shared) + 1],
            Leaf(<<>>, SubSeq(path, Len(shared) + 2, Len(path)), value))

RECURSIVE InsertFull(_, _, _, _)

\* The child at `d` of a FullNode is an extension.
InsertExt(full, d, path, value, db) ==
    LET ext    == full.kids[d]
        shared == LongestCommonPrefix({ext.suffix, path})
        below  == InsertFull(ext.next, SubSeq(path, Len(shared) + 1, Len(path)), value, db)
        moved  == [ext EXCEPT !.next = below.node]
    IN  CASE ext.next = Nil -> Failed(full, db)
          [] ext.next # Nil /\ shared = ext.suffix /\ ~below.ok -> Failed(full, below.db)
          [] ext.next # Nil /\ shared = ext.suffix /\ below.ok ->
               IF below.node.hash = ext.nextHash
               THEN Result([full EXCEPT !.kids[d] = moved], below.db)
               ELSE Result(WithKid(full, d, Touched([moved EXCEPT !.nextHash = below.node.hash])),
                           below.db)
          [] ext.next # Nil /\ shared # ext.suffix /\ shared = path ->
               LET branch == BranchAtEnd(ext, shared, value)
                   top    == Ext(shared, branch)
               IN  IF shared # <<>>
                   THEN Result(WithKid(full, d, top), PutAll(db, <<Full(value), top>>))
                   \* Nothing shared: the parent takes the branch's hash, and
                   \* keeps the shortened extension as its child.
                   ELSE Result(Touched([full EXCEPT !.kids[d] = Shortened(ext, shared),
                                                    !.kidsHash[d] = branch.hash]),
                               Put(db, Full(value)))
          [] OTHER ->
               LET branch == BranchApart(ext, shared, path, value)
                   top    == Ext(shared, branch)
               IN  Result(WithKid(full, d, top),
                          PutAll(db, <<branch.kids[path[Len(shared) + 1]], Full(Nil), top>>))

\* The child at `d` of a FullNode is a leaf; `path` goes on below `d`.
InsertLeaf(full, d, path, value, db) ==
    LET leaf  == full.kids[d]
        split == SplitLeaf(leaf, path, value, db)
    IN  IF leaf.suffix = path
        THEN Result(WithKid(full, d, Touched([leaf EXCEPT !.value = value])), db)
        ELSE Result(WithKid(full, d, split.node), split.db)

InsertFull(full, path, value, db) ==
    LET d   == Head(path)
        new == Leaf(<<d>>, Tail(path), value)
    IN  CASE path = <<>> -> Result(Touched([full EXCEPT !.value = value]), db)
          [] path # <<>> /\ full.kids[d] = Nil ->
               Result(WithKid(full, d, new), Put(db, new))
          [] path # <<>> /\ full.kids[d] # Nil /\ full.kids[d].type = "leaf" ->
               InsertLeaf(full, d, Tail(path), value, db)
          [] OTHER -> InsertExt(full, d, Tail(path), value, db)

(***************************************************************************)
(* Search.  A query loads the nodes on its way that a restart left out;    *)
(* the search proper then needs no database.                               *)
(***************************************************************************)
Rest(path, n) == SubSeq(path, n + 1, Len(path))

KidAt(full, d, db) ==
    IF full.kids[d] # Nil THEN full.kids[d]
    ELSE IF full.kidsHash[d] # Nil THEN FetchShort(db, full.kidsHash[d]) ELSE Nil
NextOf(ext, db) == IF ext.next # Nil THEN ext.next ELSE FetchFull(db, ext.nextHash)

RECURSIVE LoadFull(_, _, _)
LoadShort(n, path, db) ==
    LET next == NextOf(n, db)
    IN  IF n.type = "leaf" \/ next = Nil THEN n
        ELSE [n EXCEPT !.next = IF IsPrefix(n.suffix, path)
                                THEN LoadFull(next, Rest(path, Len(n.suffix)), db)
                                ELSE next]
LoadFull(full, path, db) ==
    IF path = <<>> \/ KidAt(full, Head(path), db) = Nil THEN full
    ELSE [full EXCEPT !.kids[Head(path)] =
              LoadShort(KidAt(full, Head(path), db), Tail(path), db)]

\* The value of a key, Nil when there is none, and the nodes the search went
\* through from the last one up to `full`: the elements of the proof.
RECURSIVE Search(_, _)
SearchShort(n, path) ==
    LET below == Search(n.next, Rest(path, Len(n.suffix)))
    IN  CASE n.type = "leaf" ->
               [value |-> IF n.suffix = path THEN n.value ELSE Nil, proof |-> <<n>>]
          [] n.type = "ext" /\ n.next # Nil /\ IsPrefix(n.suffix, path) ->
               [below EXCEPT !.proof = Append(@, n)]
          [] OTHER -> [value |-> Nil, proof |-> <<>>]
Search(full, path) ==
    IF path = <<>> THEN [value |-> full.value, proof |-> <<full>>]
    ELSE IF full.kids[Head(path)] = Nil THEN [value |-> Nil, proof |-> <<full>>]
    ELSE LET below == SearchShort(full.kids[Head(path)], Tail(path))
         IN  [below EXCEPT !.proof = Append(@, full)]

\* compute_mpt_root over the elements: each must know the hash of the one
\* before it, the first excepted; the value of a leaf is the one claimed
\* when the key is said to exist.
ProofStep(claimed, acc, e) ==
    CASE e.type = "leaf" ->
           [acc EXCEPT !.hash = LeafHash(IF claimed # Nil THEN [e EXCEPT !.value = claimed] ELSE e)]
      [] e.type = "ext" ->
           [ok |-> acc.ok /\ acc.hash \in {Nil, e.nextHash}, hash |-> ExtHash(e)]
      [] e.type = "full" ->
           [ok |-> acc.ok /\ (acc.hash = Nil \/ \E d \in Nibbles : e.kidsHash[d] = acc.hash),
            hash |-> FullHash(e)]
ComputeRoot(claimed, elements) ==
    LET end == FoldLeft(LAMBDA acc, e : ProofStep(claimed, acc, e),
                        [ok |-> TRUE, hash |-> Nil], elements)
    IN  IF end.ok THEN end.hash ELSE ZeroHash

(***************************************************************************)
(* Deletion, on the loaded nodes alone.  `found` tells whether a value was *)
(* removed.  A node whose value goes or whose child is cut off is hashed   *)
(* again and not marked dirty; one whose child's hash changed is.          *)
(***************************************************************************)
Removed(n)   == [node |-> n, found |-> TRUE]
Untouched(n) == [node |-> n, found |-> FALSE]

\* Nothing left in it, as far as the memory knows.
Hollow(full) == full.value = Nil /\ \A d \in Nibbles : full.kids[d] = Nil

RECURSIVE DeleteFull(_, _)
DeleteExt(ext, path) ==
    LET below == DeleteFull(ext.next, Rest(path, Len(ext.suffix)))
        moved == [ext EXCEPT !.next = below.node]
    IN  CASE ext.next = Nil \/ ~IsPrefix(ext.suffix, path) \/ ~below.found -> Untouched(ext)
          [] Hollow(below.node) ->
               Removed(Rehash([ext EXCEPT !.next = Nil, !.nextHash = ZeroHash]))
          [] below.node.hash = ext.nextHash -> Removed(moved)
          [] OTHER -> Removed(Touched([moved EXCEPT !.nextHash = below.node.hash]))

DeleteLeaf(leaf, path) ==
    IF leaf.suffix = path /\ leaf.value # Nil
    THEN Removed(Rehash([leaf EXCEPT !.value = Nil]))
    ELSE Untouched(leaf)

DeleteShort(n, path) ==
    IF n.type = "leaf" THEN DeleteLeaf(n, path) ELSE DeleteExt(n, path)
Emptied(n) == IF n.type = "leaf" THEN n.value = Nil ELSE n.next = Nil

DeleteFull(full, path) ==
    LET d     == Head(path)
        below == DeleteShort(full.kids[d], Tail(path))
        moved == [full EXCEPT !.kids[d] = below.node]
    IN  CASE path = <<>> /\ full.value = Nil -> Untouched(full)
          [] path = <<>> /\ full.value # Nil -> Removed(Rehash([full EXCEPT !.value = Nil]))
          [] path # <<>> /\ full.kids[d] = Nil -> Untouched(full)
          [] OTHER ->
               CASE ~below.found -> Untouched(full)
                 [] Emptied(below.node) ->
                      Removed(Rehash([full EXCEPT !.kids[d] = Nil, !.kidsHash[d] = Nil]))
                 [] full.kidsHash[d] \in {Nil, below.node.hash} -> Removed(moved)
                 [] OTHER -> Removed(Touched([moved EXCEPT !.kidsHash[d] = below.node.hash]))

(***************************************************************************)
(* save_dirty_tree_to_db: the dirty nodes that are reached through dirty   *)
(* nodes are written and are dirty no more.                                *)
(***************************************************************************)
RECURSIVE SaveFull(_, _)
SaveShort(n, db) ==
    LET below == SaveFull(n.next, Put(db, n))
    IN  CASE ~n.dirty -> [node |-> n, db |-> db]
          [] n.type = "leaf" \/ n.next = Nil ->
               [node |-> [n EXCEPT !.dirty = FALSE], db |-> Put(db, n)]
          [] OTHER -> [node |-> [n EXCEPT !.dirty = FALSE, !.next = below.node], db |-> below.db]
SaveFull(full, db) ==
    LET Kid(acc, d) ==
            IF acc.node.kids[d] = Nil THEN acc
            ELSE LET saved == SaveShort(acc.node.kids[d], acc.db)
                 IN  [node |-> [acc.node EXCEPT !.kids[d] = saved.node], db |-> saved.db]
    IN  IF full.dirty
        THEN FoldLeft(Kid, [node |-> [full EXCEPT !.dirty = FALSE], db |-> Put(db, full)],
                      NibbleOrder)
        ELSE [node |-> full, db |-> db]

(***************************************************************************)
(* collect_full_node_records: the paths in the tree with their values, the *)
(* children of a FullNode only where they are loaded, the next node of an  *)
(* extension read from the database when it is not.                        *)
(***************************************************************************)
RECURSIVE Collect(_, _, _)
CollectShort(n, at, db) ==
    LET path == at \o n.suffix
    IN  CASE n.type = "leaf" -> [ok |-> TRUE, records |-> {<<path, n.value>>}]
          [] n.type = "ext" /\ NextOf(n, db) # Nil -> Collect(NextOf(n, db), path, db)
          [] OTHER -> [ok |-> n.nextHash = ZeroHash, records |-> {}]
Collect(full, at, db) ==
    LET loaded == {d \in Nibbles : full.kids[d] # Nil}
        below  == {CollectShort(full.kids[d], Append(at, d), db) : d \in loaded}
        own    == IF full.value = Nil THEN {} ELSE {<<at, full.value>>}
    IN  [ok |-> \A part \in below : part.ok,
         records |-> own \cup UNION {part.records : part \in below}]

=============================================================================
