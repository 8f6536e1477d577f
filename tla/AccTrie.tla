------------------------------ MODULE AccTrie ------------------------------
(***************************************************************************)
(* The AccTrie (storager/ads_lib/src/acctrie): the keywords in the order   *)
(* of their digests, for each a leaf with its files and an accumulator     *)
(* over the files, their number, the keyword and the keyword before it;    *)
(* for each first hex digit an entry with an accumulator over the leaves'  *)
(* accumulators; and one over all leaves.  Accumulators are kept up by     *)
(* adding and removing single elements.                                    *)
(*                                                                         *)
(* An accumulator is a bag: it has no collisions, and the group lets an    *)
(* element be removed that is not in it (dynamic_accumulator/acc_mod.rs),  *)
(* so that a count may be negative.  The extension and branch nodes below  *)
(* an entry and the links between leaves are left out: nothing is read     *)
(* from them.                                                              *)
(***************************************************************************)
EXTENDS Integers, Sequences, SequencesExt, FiniteSets, FiniteSetsExt, Functions, TLC

CONSTANTS
    Keys, KeyOrder,  \* keywords, and the sequence of them by digest
    DigitOf,         \* keyword -> the first hex digit of its digest, root_prefix
    Files, NoKey     \* files; no neighbour

-----------------------------------------------------------------------------
(* Accumulators.                                                           *)

NoElements == <<>>
Copies(acc, e) == IF e \in DOMAIN acc THEN acc[e] ELSE 0
Counted(acc, e, n) ==
    IF Copies(acc, e) + n = 0 THEN Restrict(acc, DOMAIN acc \ {e})
    ELSE (e :> Copies(acc, e) + n) @@ acc

Adding(acc, e) == Counted(acc, e, 1)
Removing(acc, e) == Counted(acc, e, -1)
Replacing(acc, old, new) == Adding(Removing(acc, old), new)

ValueElement(f) == <<"value", f>>
CountElement(n) == <<"count", n>>
KeyElement(k) == <<"key", k>>

\* No neighbour, no element.
AddingKey(acc, k) == IF k = NoKey THEN acc ELSE Adding(acc, KeyElement(k))
RemovingKey(acc, k) == IF k = NoKey THEN acc ELSE Removing(acc, KeyElement(k))

\* leaf_accumulator.
\* A wrong variant: the keyword before is left out.
LeafAccAlone(k, values, prev) ==
    AddingKey(Adding(FoldLeft(LAMBDA acc, f : Adding(acc, ValueElement(f)), NoElements, values),
                     CountElement(Len(values))), k)
LeafAcc(k, values, prev) ==
    AddingKey(AddingKey(Adding(
        FoldLeft(LAMBDA acc, f : Adding(acc, ValueElement(f)), NoElements, values),
        CountElement(Len(values))), k), prev)

\* new_leaf_node, replace_leaf_values.
LeafNode(k, values, prev) == [values |-> values, acc |-> LeafAcc(k, values, prev)]

-----------------------------------------------------------------------------
(* A trie has the fields map, sorted (sorted_keys), leaf (key_to_leaf),    *)
(* entries and root (the accumulators of the root's entries and its own).  *)

EmptyTrie ==
    [map |-> <<>>, sorted |-> <<>>, leaf |-> <<>>, entries |-> <<>>, root |-> NoElements]

Rank(k) == CHOOSE i \in DOMAIN KeyOrder : KeyOrder[i] = k
Less(j, k) == Rank(j) < Rank(k)

\* Where a keyword is in sorted_keys, or else the place to put it.  Which of
\* several equal ones binary_search finds is not specified: the last or the first.
Places(t, k) == {i \in DOMAIN t.sorted : t.sorted[i] = k}
Place(t, k, last) ==
    CASE Places(t, k) = {} -> Cardinality({i \in DOMAIN t.sorted : Less(t.sorted[i], k)}) + 1
      [] last -> Max(Places(t, k))
      [] OTHER -> Min(Places(t, k))

KeyAt(t, i) == IF i \in DOMAIN t.sorted THEN t.sorted[i] ELSE NoKey

\* neighbors_around.
Before(t, k, last) == KeyAt(t, Place(t, k, last) - 1)
After(t, k, last) ==
    KeyAt(t, IF Places(t, k) = {} THEN Place(t, k, last) ELSE Place(t, k, last) + 1)

ValuesOf(t, k) == IF k \in DOMAIN t.map THEN t.map[k] ELSE <<>>
RecordAt(t, k) == [key |-> k, values |-> ValuesOf(t, k)]

\* records_for_root_prefix.
RecordsOf(t, d) ==
    LET keys == SelectSeq(t.sorted, LAMBDA k : DigitOf[k] = d /\ k \in DOMAIN t.map)
    IN  [i \in DOMAIN keys |-> RecordAt(t, keys[i])]

-----------------------------------------------------------------------------
(* Upkeep of the accumulators above the leaves.                            *)

\* replace_root_entry_leaf_acc and replace_root_leaf_acc.
Renewed(t, k, old, new) ==
    [t EXCEPT !.entries = [d \in DOMAIN @ |->
                              IF d = DigitOf[k] THEN Replacing(@[d], old, new) ELSE @[d]],
              !.root = Replacing(@, old, new)]

\* The leaf of k becomes `node`, and so do the accumulators above it.
WithLeaf(t, k, node) ==
    Renewed([t EXCEPT !.leaf[k] = node], k, t.leaf[k].acc, node.acc)

\* update_leaf_prev_key of the leaf of `next`, when it has one.
\* A wrong variant: the neighbour before is not taken out.
RelinkedTwice(t, next, old, new) ==
    IF next \notin DOMAIN t.leaf THEN t
    ELSE WithLeaf(t, next, [t.leaf[next] EXCEPT !.acc = AddingKey(@, new)])
Relinked(t, next, old, new) ==
    IF next \notin DOMAIN t.leaf THEN t
    ELSE WithLeaf(t, next, [t.leaf[next] EXCEPT !.acc = AddingKey(RemovingKey(@, old), new)])

\* sync_root_entry: an entry over the leaves of the digit's keywords, none
\* when there are none.  The callers that first add a leaf to the entry or
\* remove one from it have their work redone here.
SyncedEntry(t, d) ==
    LET keyed == SelectSeq(t.sorted, LAMBDA k : DigitOf[k] = d /\ k \in DOMAIN t.leaf)
        acc   == FoldLeft(LAMBDA a, k : Adding(a, t.leaf[k].acc), NoElements, keyed)
    IN  [t EXCEPT !.entries = IF keyed = <<>> THEN Restrict(@, DOMAIN @ \ {d})
                              ELSE (d :> acc) @@ @]

-----------------------------------------------------------------------------
(* Operations.  Each gives the trie it leaves, also when it fails half way. *)

\* The part of insert and insert_values_unique for a keyword that is not in
\* sorted_keys: a leaf between its neighbours.
NewKey(t, k, values) ==
    LET i    == Place(t, k, TRUE)
        prev == Before(t, k, TRUE)
        next == After(t, k, TRUE)
        made == [t EXCEPT !.map = (k :> values) @@ @]
        node == LeafNode(k, values, prev)
        full == [Relinked(made, next, prev, k) EXCEPT
                    !.sorted = InsertAt(@, i, k),
                    !.leaf = (k :> node) @@ @,
                    !.root = Adding(@, node.acc)]
    IN  IF next \in DOMAIN t.leaf /\ next \notin DOMAIN t.map THEN made
        ELSE SyncedEntry(full, DigitOf[k])

\* insert: the file is added, also when it is there.
Insert(t, k, f) ==
    LET values == Append(ValuesOf(t, k), f)
        pushed == [t EXCEPT !.map = (k :> values) @@ @]
        leaf   == t.leaf[k]
        n      == Len(leaf.values)
        grown  == [values |-> Append(leaf.values, f),
                   acc |-> Replacing(Adding(leaf.acc, ValueElement(f)),
                                     CountElement(n), CountElement(n + 1))]
    IN  CASE Places(t, k) = {} -> NewKey(t, k, values)
          [] Places(t, k) # {} /\ k \notin DOMAIN t.leaf -> pushed
          [] OTHER -> WithLeaf(pushed, k, grown)

\* insert_values_unique: only the files that are not there.
InsertUnique(t, k, fids, last) ==
    LET old    == ValuesOf(t, k)
        values == old \o SelectSeq(fids, LAMBDA f : f \notin ToSet(old))
        pushed == [t EXCEPT !.map = (k :> values) @@ @]
    IN  CASE fids = <<>> -> t
          [] fids # <<>> /\ Places(t, k) = {} -> NewKey(t, k, fids)
          [] Places(t, k) # {} /\ k \in DOMAIN t.map /\ values = old -> t
          [] Places(t, k) # {} /\ k \notin DOMAIN t.leaf -> pushed
          [] OTHER -> WithLeaf(pushed, k, LeafNode(k, values, Before(t, k, last)))

\* delete of the whole keyword, from a map that has lost it.
DeleteLeaf(t, k, last) ==
    LET next == After(t, k, last)
        left == Relinked(t, next, k, Before(t, k, last))
    IN  IF next \in DOMAIN t.leaf /\ next \notin DOMAIN t.map THEN t
        ELSE SyncedEntry([left EXCEPT !.leaf = Restrict(@, DOMAIN @ \ {k}),
                                      !.sorted = RemoveAt(@, Place(t, k, last)),
                                      !.root = Removing(@, t.leaf[k].acc)],
                         DigitOf[k])

\* delete: of one file, or of the keyword with all it has.
Deletable(t, k) == ValuesOf(t, k) # <<>> /\ Places(t, k) # {} /\ k \in DOMAIN t.leaf
DeleteKey(t, k, last) ==
    IF Deletable(t, k)
    THEN DeleteLeaf([t EXCEPT !.map = Restrict(@, DOMAIN @ \ {k})], k, last)
    ELSE t
DeleteValue(t, k, f, last) ==
    LET Others(values) == SelectSeq(values, LAMBDA g : g # f)
        values == Others(t.map[k])
        leaf   == t.leaf[k]
        kept   == Others(leaf.values)
        shrunk == [values |-> kept,
                   acc |-> Replacing(Counted(leaf.acc, ValueElement(f), Len(kept) - Len(leaf.values)),
                                     CountElement(Len(leaf.values)), CountElement(Len(kept)))]
    IN  CASE ~Deletable(t, k) \/ f \notin ToSet(ValuesOf(t, k)) -> t
          [] Deletable(t, k) /\ f \in ToSet(ValuesOf(t, k)) /\ values = <<>> -> DeleteKey(t, k, last)
          [] OTHER -> WithLeaf([t EXCEPT !.map[k] = values], k, shrunk)

ByDigest(records) == SortSeq(records, LAMBDA r, s : Less(r.key, s.key))
Kept(records) == SelectSeq(records, LAMBDA r : r.values # <<>>)

\* One leaf more, after all others of the trie: in restore_from_records and
\* in replace_root_prefix_records, where `before` precedes the first.
WithRecord(t, r, prev) ==
    LET node == LeafNode(r.key, r.values, prev)
    IN  [t EXCEPT !.map = (r.key :> r.values) @@ @,
                  !.leaf = (r.key :> node) @@ @,
                  !.root = Adding(@, node.acc)]
WithRecords(t, records, before) ==
    FoldLeft(LAMBDA u, i : WithRecord(u, records[i],
                                      IF i = 1 THEN before ELSE records[i - 1].key),
             t, [i \in DOMAIN records |-> i])

\* restore_from_records.  The entries are over every leaf made, also over
\* those a second record of the keyword has taken the place of.
Restored(records) ==
    LET list    == ByDigest(Kept(records))
        accs    == [i \in DOMAIN list |->
                      LeafAcc(list[i].key, list[i].values, IF i = 1 THEN NoKey ELSE list[i - 1].key)]
        Entry(d) == FoldLeft(LAMBDA a, i : IF DigitOf[list[i].key] = d THEN Adding(a, accs[i]) ELSE a,
                             NoElements, [i \in DOMAIN list |-> i])
    IN  [WithRecords(EmptyTrie, list, NoKey) EXCEPT
            !.sorted = [i \in DOMAIN list |-> list[i].key],
            !.entries = [d \in {DigitOf[r.key] : r \in ToSet(list)} |-> Entry(d)]]

\* replace_root_prefix_records: the records take the place of all there was
\* under the digit.
ReplacePrefix(t, d, given) ==
    LET records == ByDigest(Kept(given))
        old     == SelectSeq(t.sorted, LAMBDA k : DigitOf[k] = d)
        start   == IF old # <<>> THEN Min(Places(t, old[1])) ELSE Place(t, records[1].key, TRUE)
        before  == KeyAt(t, start - 1)
        after   == KeyAt(t, start + Len(old))
        lastOld == IF old = <<>> THEN before ELSE Last(old)
        lastNew == IF records = <<>> THEN before ELSE Last(records).key
        freed   == [t EXCEPT
                      !.map = Restrict(@, DOMAIN @ \ ToSet(old)),
                      !.leaf = Restrict(@, DOMAIN @ \ ToSet(old)),
                      !.root = FoldLeft(LAMBDA a, k : Removing(a, t.leaf[k].acc), @,
                                        SelectSeq(old, LAMBDA k : k \in DOMAIN t.leaf))]
        filled  == Relinked(WithRecords(freed, records, before), after, lastOld, lastNew)
    IN  IF old = <<>> /\ records = <<>> THEN t
        ELSE SyncedEntry([filled EXCEPT
                !.sorted = SubSeq(t.sorted, 1, start - 1) \o [i \in DOMAIN records |-> records[i].key]
                             \o SubSeq(t.sorted, start + Len(old), Len(t.sorted))], d)

-----------------------------------------------------------------------------
(* Proofs.  A membership witness is the accumulator with the element taken *)
(* away, whether it is in it or not, and then always verifies: what a      *)
(* proof claims has to be true by itself.                                  *)

In(e, acc) == Copies(acc, e) > 0
LeafInEntry(t, k) == DigitOf[k] \in DOMAIN t.entries /\ In(t.leaf[k].acc, t.entries[DigitOf[k]])

\* query and QueryExistsProof::verify: a file, and their number, are in the
\* keyword's leaf, and the leaf is in its entry.
ExistsTrue(t, k) ==
    /\ k \in DOMAIN t.leaf
    /\ In(ValueElement(Head(t.map[k])), t.leaf[k].acc)
    /\ In(CountElement(Len(t.map[k])), t.leaf[k].acc)
    /\ LeafInEntry(t, k)

\* build_non_membership_proof and QueryNotExistsProof::verify: the keyword
\* belongs between two neighbours, and the leaf of the next names both.
NotExistsTrue(t, k, last) ==
    LET prev == Before(t, k, last)
        next == After(t, k, last)
    IN  /\ prev # NoKey => Less(prev, k)
        /\ next # NoKey =>
             /\ Less(k, next)
             /\ next \in DOMAIN t.leaf
             /\ In(KeyElement(next), t.leaf[next].acc)
             /\ prev # NoKey => In(KeyElement(prev), t.leaf[next].acc)
             /\ LeafInEntry(t, next)
=============================================================================
