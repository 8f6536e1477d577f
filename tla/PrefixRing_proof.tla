-------------------------- MODULE PrefixRing_proof --------------------------
(***************************************************************************)
(* What holds of the ring as a value, for every number of nodes, fanout,   *)
(* threshold and prefix length: the invariant that its calls keep, and     *)
(* where its two walks end in a ring that has it.                          *)
(*                                                                         *)
(* That the leaves tile the key space is not inductive: a split adds the   *)
(* children of one entry, and nothing in the tiling says that no other     *)
(* entry lies below it already.  AncestorsSplit says it: an entry whose    *)
(* prefix begins another's is split, so an unsplit entry has nothing below *)
(* it, and its children are new.  That a prefix is the prefix of one entry *)
(* is what makes a reported change the change of that entry alone.  The    *)
(* walks need the links (Linked) and the root entries in their places      *)
(* (Rooted) besides.                                                       *)
(***************************************************************************)
EXTENDS PrefixRing, SequenceTheorems, WellFoundedInduction, TLAPS

WellTyped(es) ==
    /\ es \in Seq(EntryType)
    /\ \A i \in Leaves(es) : es[i].owner_ref \in Nodes

\* Entries that lie on one path from a root are split, the last one excepted.
AncestorsSplit(es) ==
    \A i, j \in DOMAIN es :
        (i # j /\ IsPrefix(es[i].prefix, es[j].prefix)) => EntryIsSplit(es, i)

\* No key hash is without a leaf.
Covered(es) ==
    \A hash \in KeyHashes : \E i \in Leaves(es) : IsPrefix(es[i].prefix, hash)

\* No two entries have the same prefix.
PrefixesUnique(es) ==
    \A i, j \in DOMAIN es : es[i].prefix = es[j].prefix => i = j

\* The first child of a split entry is where the entry points, the others follow.
Linked(es) ==
    \A i \in DOMAIN es : EntryIsSplit(es, i) =>
        /\ Len(es[i].prefix) < MaxPrefixLen
        /\ \A d \in Digits :
            Child(es, i, d) \in DOMAIN es /\ es[Child(es, i, d)].prefix = Append(es[i].prefix, d)

\* The array begins with the root entries, and no entry is above them.
Rooted(es) ==
    /\ \A v \in 1 .. RootCount : v \in DOMAIN es /\ es[v].prefix = FormatPrefix(v - 1)
    /\ \A i \in DOMAIN es : Len(es[i].prefix) >= RootLen

RingInv(es) ==
    /\ WellTyped(es) /\ AncestorsSplit(es) /\ Covered(es) /\ PrefixesUnique(es)
    /\ Linked(es) /\ Rooted(es)

(***************************************************************************)
(* Prefixes                                                                *)
(***************************************************************************)

\* A prefix is a sequence of at most MaxPrefixLen digits.
LEMMA PrefixIsSeq ==
    ASSUME NEW p
    PROVE  p \in Prefixes <=> (p \in Seq(Digits) /\ Len(p) =< MaxPrefixLen)
<1> USE RingShape
<1>1. ASSUME p \in Prefixes PROVE p \in Seq(Digits) /\ Len(p) =< MaxPrefixLen
  <2>1. PICK l \in 0 .. MaxPrefixLen : p \in [1 .. l -> Digits]
    BY <1>1 DEF Prefixes
  <2> QED BY <2>1
<1>2. ASSUME p \in Seq(Digits), Len(p) =< MaxPrefixLen PROVE p \in Prefixes
  <2>1. Len(p) \in 0 .. MaxPrefixLen /\ p \in [1 .. Len(p) -> Digits]
    BY <1>2, LenProperties
  <2> QED BY <2>1 DEF Prefixes
<1> QED BY <1>1, <1>2

\* The prefix of a child: one digit more (split_entry's push of the hex digit).
LEMMA ChildOf ==
    ASSUME NEW p \in Prefixes, Len(p) < MaxPrefixLen, NEW d \in Digits
    PROVE  /\ Append(p, d) \in Prefixes
           /\ Len(Append(p, d)) = Len(p) + 1
           /\ \A k \in 1 .. Len(p) : Append(p, d)[k] = p[k]
           /\ Append(p, d)[Len(p) + 1] = d
<1>1. p \in Seq(Digits) /\ Len(p) \in Nat
  BY PrefixIsSeq, LenProperties
<1>2. Append(p, d) \in Seq(Digits)
  BY <1>1, AppendProperties
<1>3. Len(Append(p, d)) = Len(p) + 1 /\ Append(p, d)[Len(p) + 1] = d
      /\ \A k \in 1 .. Len(p) : Append(p, d)[k] = p[k]
  BY <1>1, AppendProperties
<1>4. Len(Append(p, d)) =< MaxPrefixLen
  BY <1>1, <1>3, RingShape
<1>5. Append(p, d) \in Prefixes
  BY <1>2, <1>4, PrefixIsSeq
<1> QED BY <1>3, <1>5

\* Every entry of a ring is an entry.
LEMMA EntryTyped ==
    ASSUME NEW es \in Seq(EntryType), NEW i \in DOMAIN es
    PROVE  /\ es[i] \in EntryType
           /\ es[i].prefix \in Prefixes
           /\ es[i].prefix \in Seq(Digits)
           /\ Len(es[i].prefix) \in Nat
<1>1. es[i] \in EntryType
  BY ElementOfSeq, LenProperties
<1>2. es[i].prefix \in Prefixes
  BY <1>1 DEF EntryType
<1> QED BY <1>1, <1>2, PrefixIsSeq, LenProperties

\* Of two prefixes of one hash the shorter begins the other.
LEMMA PrefixesOfOneHash ==
    ASSUME NEW p \in Prefixes, NEW q \in Prefixes, NEW hash,
           IsPrefix(p, hash), IsPrefix(q, hash)
    PROVE  IsPrefix(p, q) \/ IsPrefix(q, p)
<1>1. Len(p) \in Nat /\ Len(q) \in Nat
  BY PrefixIsSeq, LenProperties
<1> QED BY <1>1 DEF IsPrefix

(***************************************************************************)
(* A new ring                                                              *)
(***************************************************************************)

\* The root entries of EPRing::new are one for each root prefix.
LEMMA NewRingShape ==
    /\ NewRing \in Seq(EntryType)
    /\ DOMAIN NewRing = 1 .. RootCount
    /\ \A i \in 1 .. RootCount :
        /\ NewRing[i] = Entry(FormatPrefix(i - 1), (i - 1) % NodeCount)
        /\ i - 1 \in 0 .. RootCount - 1
        /\ FormatPrefix(i - 1) \in RootPrefixes
        /\ (i - 1) % NodeCount \in Nodes
        /\ ~EntryIsSplit(NewRing, i)
<1>1. RootCount \in Nat
  BY RootNumerals
<1>2. ASSUME NEW i \in 1 .. RootCount
      PROVE  /\ i - 1 \in 0 .. RootCount - 1
             /\ FormatPrefix(i - 1) \in RootPrefixes
             /\ (i - 1) % NodeCount \in Nodes
  BY <1>1, RootNumerals, RingShape DEF Nodes
<1>3. RootPrefixes \subseteq Prefixes
  BY RingShape DEF RootPrefixes, Prefixes
<1>4. ASSUME NEW i \in 1 .. RootCount
      PROVE  Entry(FormatPrefix(i - 1), (i - 1) % NodeCount) \in EntryType
  <2>1. (i - 1) % NodeCount \in Nat
    BY <1>2, RingShape DEF Nodes
  <2>2. FormatPrefix(i - 1) \in Prefixes
    BY <1>2, <1>3
  <2> QED BY <2>1, <2>2 DEF Entry, EntryType, NoEntry
<1>5. NewRing \in [1 .. RootCount -> EntryType]
  BY <1>4 DEF NewRing
<1>6. NewRing \in Seq(EntryType)
  BY <1>1, <1>5
<1>7. DOMAIN NewRing = 1 .. RootCount
  BY <1>5
<1>8. ASSUME NEW i \in 1 .. RootCount
      PROVE  /\ NewRing[i] = Entry(FormatPrefix(i - 1), (i - 1) % NodeCount)
             /\ ~EntryIsSplit(NewRing, i)
  BY DEF NewRing, Entry, EntryIsSplit
<1> QED BY <1>2, <1>6, <1>7, <1>8

\* Root prefixes have one length: none begins another.
LEMMA RootPrefixesApart ==
    ASSUME NEW p \in RootPrefixes, NEW q \in RootPrefixes, IsPrefix(p, q)
    PROVE  p = q
<1>1. Len(p) = RootLen /\ Len(q) = RootLen
  BY RingShape DEF RootPrefixes
<1> QED BY <1>1 DEF IsPrefix, RootPrefixes

\* A hash lies under the root prefix that its first digits spell.
LEMMA RootPrefixOf ==
    ASSUME NEW hash \in KeyHashes
    PROVE  \E p \in RootPrefixes : IsPrefix(p, hash)
<1> DEFINE p == [k \in 1 .. RootLen |-> hash[k]]
<1>1. p \in RootPrefixes /\ Len(p) = RootLen
  BY RingShape DEF RootPrefixes, KeyHashes
<1>2. Len(hash) = MaxPrefixLen
  BY RingShape DEF KeyHashes
<1>3. IsPrefix(p, hash)
  BY <1>1, <1>2, RingShape DEF IsPrefix
<1> QED BY <1>1, <1>3

\* A new ring has no split entry, and its root prefixes are apart and cover the hashes.
LEMMA NewRingInv == RingInv(NewRing)
<1>1. \A i \in DOMAIN NewRing :
        /\ NewRing[i].prefix = FormatPrefix(i - 1)
        /\ NewRing[i].prefix \in RootPrefixes
        /\ NewRing[i].owner_ref \in Nodes
        /\ NewRing[i].root_summary = EmptySummary
  BY NewRingShape DEF Entry
<1>2. Leaves(NewRing) = 1 .. RootCount
  BY NewRingShape DEF Leaves
<1>3. WellTyped(NewRing)
  BY <1>1, <1>2, NewRingShape DEF WellTyped
<1>4. AncestorsSplit(NewRing)
  <2> SUFFICES ASSUME NEW i \in DOMAIN NewRing, NEW j \in DOMAIN NewRing,
                      IsPrefix(NewRing[i].prefix, NewRing[j].prefix)
               PROVE  i = j
    BY DEF AncestorsSplit
  <2>1. FormatPrefix(i - 1) = FormatPrefix(j - 1)
    BY <1>1, RootPrefixesApart
  <2>2. i - 1 = j - 1
    BY <2>1, NewRingShape, RootNumerals
  <2> QED BY <2>2, NewRingShape, RootNumerals
<1>5. Covered(NewRing)
  <2> SUFFICES ASSUME NEW hash \in KeyHashes
               PROVE  \E i \in Leaves(NewRing) : IsPrefix(NewRing[i].prefix, hash)
    BY DEF Covered
  <2>1. PICK p \in RootPrefixes : IsPrefix(p, hash)
    BY RootPrefixOf
  <2>2. PICK v \in 0 .. RootCount - 1 : FormatPrefix(v) = p
    BY RootNumerals
  <2>3. v + 1 \in 1 .. RootCount /\ (v + 1) - 1 = v
    BY RootNumerals
  <2>4. NewRing[v + 1].prefix = p
    BY <2>2, <2>3, <1>1, NewRingShape
  <2> QED BY <2>1, <2>3, <2>4, <1>2
<1>6. PrefixesUnique(NewRing)
  <2> SUFFICES ASSUME NEW i \in DOMAIN NewRing, NEW j \in DOMAIN NewRing,
                      NewRing[i].prefix = NewRing[j].prefix
               PROVE  i = j
    BY DEF PrefixesUnique
  <2>1. FormatPrefix(i - 1) = FormatPrefix(j - 1)
    BY <1>1
  <2>2. i - 1 = j - 1
    BY <2>1, NewRingShape, RootNumerals
  <2> QED BY <2>2, NewRingShape, RootNumerals
<1>7. Linked(NewRing)
  BY NewRingShape DEF Linked
<1>8. Rooted(NewRing)
  <2>1. ASSUME NEW i \in DOMAIN NewRing PROVE Len(NewRing[i].prefix) >= RootLen
    <3>1. Len(NewRing[i].prefix) = RootLen
      BY <1>1, RingShape DEF RootPrefixes
    <3> QED BY <3>1, RingShape
  <2> QED BY <1>1, <2>1, NewRingShape DEF Rooted
<1> QED BY <1>3, <1>4, <1>5, <1>6, <1>7, <1>8 DEF RingInv


(***************************************************************************)
(* Calls that change a counter and a summary                               *)
(***************************************************************************)
SameShape(es, new) ==
    /\ DOMAIN new = DOMAIN es
    /\ \A j \in DOMAIN es :
        /\ new[j].prefix = es[j].prefix
        /\ new[j].owner_ref = es[j].owner_ref
        /\ new[j].split_child_start = es[j].split_child_start

\* Only prefixes, owners and links matter to the shape of a ring.
LEMMA SameShapeInv ==
    ASSUME NEW es, NEW new \in Seq(EntryType), RingInv(es), SameShape(es, new)
    PROVE  RingInv(new)
<1>1. \A j \in DOMAIN es : EntryIsSplit(new, j) <=> EntryIsSplit(es, j)
  BY DEF SameShape, EntryIsSplit
<1>2. Leaves(new) = Leaves(es)
  BY <1>1 DEF Leaves, SameShape
<1>3. WellTyped(new)
  BY <1>2 DEF RingInv, WellTyped, SameShape, Leaves
<1>4. AncestorsSplit(new)
  BY <1>1 DEF RingInv, AncestorsSplit, SameShape
<1>5. Covered(new)
  BY <1>2 DEF RingInv, Covered, SameShape, Leaves
<1>6. PrefixesUnique(new)
  BY DEF RingInv, PrefixesUnique, SameShape
<1>7. Linked(new)
  <2>1. \A j \in DOMAIN es, d \in Digits : Child(new, j, d) = Child(es, j, d)
    BY DEF Child, SameShape
  <2>2. \A j \in DOMAIN es : new[j].prefix = es[j].prefix
    BY DEF SameShape
  <2> QED BY <1>1, <2>1, <2>2 DEF RingInv, Linked, SameShape
<1>8. Rooted(new)
  BY DEF RingInv, Rooted, SameShape
<1> QED BY <1>3, <1>4, <1>5, <1>6, <1>7, <1>8 DEF RingInv

\* Replacing the counter and the summary of an entry keeps type and shape.
LEMMA EntryChanged ==
    ASSUME NEW es \in Seq(EntryType), NEW i \in DOMAIN es,
           NEW e \in EntryType,
           e.prefix = es[i].prefix, e.owner_ref = es[i].owner_ref,
           e.split_child_start = es[i].split_child_start
    PROVE  /\ [es EXCEPT ![i] = e] \in Seq(EntryType)
           /\ SameShape(es, [es EXCEPT ![i] = e])
           /\ [es EXCEPT ![i] = e][i] = e
           /\ \A j \in DOMAIN es \ {i} : [es EXCEPT ![i] = e][j] = es[j]
<1>1. i \in 1 .. Len(es)
  BY LenProperties
<1>2. [es EXCEPT ![i] = e] \in Seq(EntryType)
  BY <1>1, ExceptSeq
<1>3. SameShape(es, [es EXCEPT ![i] = e])
  BY DEF SameShape
<1> QED BY <1>2, <1>3

\* What the calls without a split have in common.
Touched(es, i, new, summary) ==
    /\ new \in Seq(EntryType)
    /\ SameShape(es, new)
    /\ new[i].root_summary = summary
    /\ \A j \in DOMAIN es \ {i} : new[j] = es[j]

\* A field of an entry set to a value of its type.
LEMMA SetCounter ==
    ASSUME NEW e \in EntryType, NEW count \in Nat
    PROVE  /\ [e EXCEPT !.counter = count] \in EntryType
           /\ [e EXCEPT !.counter = count].prefix = e.prefix
           /\ [e EXCEPT !.counter = count].owner_ref = e.owner_ref
           /\ [e EXCEPT !.counter = count].split_child_start = e.split_child_start
  BY DEF EntryType

\* A summary set to one a storager may answer with.
LEMMA SetSummary ==
    ASSUME NEW e \in EntryType, NEW summary \in Summaries \cup {EmptySummary}
    PROVE  /\ [e EXCEPT !.root_summary = summary] \in EntryType
           /\ [e EXCEPT !.root_summary = summary].prefix = e.prefix
           /\ [e EXCEPT !.root_summary = summary].owner_ref = e.owner_ref
           /\ [e EXCEPT !.root_summary = summary].split_child_start = e.split_child_start
           /\ [e EXCEPT !.root_summary = summary].root_summary = summary
  BY DEF EntryType

\* Setting counter and summary of one entry touches nothing else.
LEMMA RecordedTouches ==
    ASSUME NEW es \in Seq(EntryType), NEW i \in DOMAIN es,
           NEW count \in Nat, NEW summary \in Summaries \cup {EmptySummary}
    PROVE  Touched(es, i,
               [es EXCEPT ![i] = [[es[i] EXCEPT !.counter = count] EXCEPT !.root_summary = summary]],
               summary)
<1> DEFINE c == [es[i] EXCEPT !.counter = count]
           e == [c EXCEPT !.root_summary = summary]
<1>1. es[i] \in EntryType
  BY EntryTyped
<1>2. c \in EntryType /\ c.prefix = es[i].prefix /\ c.owner_ref = es[i].owner_ref
      /\ c.split_child_start = es[i].split_child_start
  BY <1>1, SetCounter
<1> HIDE DEF c
<1>3. e \in EntryType /\ e.prefix = es[i].prefix /\ e.owner_ref = es[i].owner_ref
      /\ e.split_child_start = es[i].split_child_start /\ e.root_summary = summary
  BY <1>2, SetSummary
<1> HIDE DEF e
<1>4. /\ [es EXCEPT ![i] = e] \in Seq(EntryType)
      /\ SameShape(es, [es EXCEPT ![i] = e])
      /\ [es EXCEPT ![i] = e][i] = e
      /\ \A j \in DOMAIN es \ {i} : [es EXCEPT ![i] = e][j] = es[j]
  BY <1>3, EntryChanged
<1>5. Touched(es, i, [es EXCEPT ![i] = e], summary)
  BY <1>3, <1>4 DEF Touched
<1> QED BY <1>5 DEF e, c

\* record_insert without the split.
LEMMA CountedTouches ==
    ASSUME NEW es \in Seq(EntryType), NEW i \in DOMAIN es, NEW summary \in Summaries \cup {EmptySummary}
    PROVE  Touched(es, i, Counted(es, i, summary), summary)
<1> DEFINE count == es[i].counter + 1
           e == [[es[i] EXCEPT !.counter = count] EXCEPT !.root_summary = summary]
<1>1. es[i] \in EntryType
  BY EntryTyped
<1>2. count \in Nat
  BY <1>1 DEF EntryType
<1>3. Counted(es, i, summary) = [es EXCEPT ![i] = e]
  BY DEF Counted
<1> HIDE DEF count
<1>4. Touched(es, i, [es EXCEPT ![i] = e], summary)
  BY <1>2, RecordedTouches
<1> HIDE DEF e
<1> QED BY <1>3, <1>4

\* record_delete.
LEMMA DeletedTouches ==
    ASSUME NEW es \in Seq(EntryType), NEW i \in DOMAIN es, NEW summary \in Summaries \cup {EmptySummary}
    PROVE  Touched(es, i, Deleted(es, i, summary), summary)
<1> DEFINE count == IF es[i].counter = 0 THEN 0 ELSE es[i].counter - 1
           e == [[es[i] EXCEPT !.counter = count] EXCEPT !.root_summary = summary]
<1>1. es[i] \in EntryType
  BY EntryTyped
<1>2. count \in Nat
  BY <1>1 DEF EntryType
<1>3. Deleted(es, i, summary) = [es EXCEPT ![i] = e]
  BY DEF Deleted
<1> HIDE DEF count
<1>4. Touched(es, i, [es EXCEPT ![i] = e], summary)
  BY <1>2, RecordedTouches
<1> HIDE DEF e
<1> QED BY <1>3, <1>4

\* update_root_summary.
LEMMA SummarisedTouches ==
    ASSUME NEW es \in Seq(EntryType), NEW i \in DOMAIN es, NEW summary \in Summaries \cup {EmptySummary}
    PROVE  Touched(es, i, Summarised(es, i, summary), summary)
<1> DEFINE e == [es[i] EXCEPT !.root_summary = summary]
<1>1. es[i] \in EntryType
  BY EntryTyped
<1>2. e \in EntryType /\ e.prefix = es[i].prefix /\ e.owner_ref = es[i].owner_ref
      /\ e.split_child_start = es[i].split_child_start /\ e.root_summary = summary
  BY <1>1, SetSummary
<1>3. Summarised(es, i, summary) = [es EXCEPT ![i] = e]
  BY DEF Summarised
<1> HIDE DEF e
<1>4. /\ [es EXCEPT ![i] = e] \in Seq(EntryType)
      /\ SameShape(es, [es EXCEPT ![i] = e])
      /\ [es EXCEPT ![i] = e][i] = e
      /\ \A j \in DOMAIN es \ {i} : [es EXCEPT ![i] = e][j] = es[j]
  BY <1>2, EntryChanged
<1>5. Touched(es, i, [es EXCEPT ![i] = e], summary)
  BY <1>2, <1>4 DEF Touched
<1> QED BY <1>3, <1>5

(***************************************************************************)
(* A split                                                                 *)
(***************************************************************************)

\* The parent of a split, linked to its first child.
LEMMA LinkedEntry ==
    ASSUME NEW e \in EntryType, NEW m \in Nat
    PROVE  LET linked == [e EXCEPT !.owner_ref = m + 1, !.split_child_start = m + 1]
           IN  /\ linked \in EntryType
               /\ linked.prefix = e.prefix
               /\ linked.root_summary = e.root_summary
               /\ linked.split_child_start = m + 1
<1> DEFINE owned == [e EXCEPT !.owner_ref = m + 1]
<1>1. owned \in EntryType /\ owned.prefix = e.prefix /\ owned.root_summary = e.root_summary
  BY DEF EntryType
<1> HIDE DEF owned
<1>2. /\ [owned EXCEPT !.split_child_start = m + 1] \in EntryType
      /\ [owned EXCEPT !.split_child_start = m + 1].prefix = e.prefix
      /\ [owned EXCEPT !.split_child_start = m + 1].root_summary = e.root_summary
      /\ [owned EXCEPT !.split_child_start = m + 1].split_child_start = m + 1
  BY <1>1 DEF EntryType
<1> QED BY <1>2 DEF owned

\* The array after a split: the old entries, the parent linked, then the children.
IsSplit(es, i, new) ==
    LET n == Len(es) IN
    /\ new \in Seq(EntryType)
    /\ n \in Nat /\ DOMAIN es = 1 .. n /\ DOMAIN new = 1 .. n + Fanout
    /\ \A j \in DOMAIN es \ {i} : new[j] = es[j]
    /\ new[i].prefix = es[i].prefix
    /\ new[i].root_summary = es[i].root_summary
    /\ new[i].split_child_start = n + 1
    /\ \A c \in 1 .. Fanout :
        /\ new[n + c] = Entry(Append(es[i].prefix, c - 1),
                              (es[i].owner_ref + (c - 1)) % NodeCount)
        /\ (es[i].owner_ref + (c - 1)) % NodeCount \in Nodes
        /\ c - 1 \in Digits

\* split_entry makes that array.
LEMMA SplitShape ==
    ASSUME NEW es \in Seq(EntryType), NEW i \in DOMAIN es, CanSplit(es, i),
           es[i].owner_ref \in Nodes
    PROVE  IsSplit(es, i, SplitEntry(es, i))
<1> DEFINE n == Len(es)
           new == SplitEntry(es, i)
           deal == [c \in 1 .. Fanout |-> (es[i].owner_ref + (c - 1)) % NodeCount]
           parent == [es[i] EXCEPT !.owner_ref = n + 1, !.split_child_start = n + 1]
           child(c) == Entry(Append(es[i].prefix, c - 1), (es[i].owner_ref + (c - 1)) % NodeCount)
           children == [c \in 1 .. Fanout |-> child(c)]
           base == [es EXCEPT ![i] = parent]
<1>1. n \in Nat /\ DOMAIN es = 1 .. n
  BY LenProperties
<1>2. es[i] \in EntryType /\ es[i].prefix \in Prefixes
  BY EntryTyped
<1>3. ASSUME NEW c \in 1 .. Fanout
      PROVE  /\ c - 1 \in Digits
             /\ (es[i].owner_ref + (c - 1)) % NodeCount \in Nodes
             /\ child(c) \in EntryType
  <2>1. c - 1 \in Digits
    BY RingShape DEF Digits
  <2>2. es[i].owner_ref + (c - 1) \in Nat
    BY <2>1, RingShape DEF Nodes, Digits
  <2>3. (es[i].owner_ref + (c - 1)) % NodeCount \in Nodes
    BY <2>2, RingShape DEF Nodes
  <2>4. (es[i].owner_ref + (c - 1)) % NodeCount \in Nat
    BY <2>3, RingShape DEF Nodes
  <2>5. Append(es[i].prefix, c - 1) \in Prefixes
    BY <1>2, <2>1, ChildOf DEF CanSplit
  <2>6. child(c) \in EntryType
    BY <2>4, <2>5 DEF Entry, EntryType, NoEntry
  <2> QED BY <2>1, <2>3, <2>6
<1>4. SplitEntry(es, i) = base \o children
  <2>1. DOMAIN deal = 1 .. Fanout /\ Len(deal) = Fanout
    BY RingShape
  <2>2. \A c \in 1 .. Fanout : deal[c] = (es[i].owner_ref + (c - 1)) % NodeCount
    OBVIOUS
  <2>3. [c \in 1 .. Len(deal) |-> Entry(Append(es[i].prefix, c - 1), deal[c])] = children
    BY <2>1, <2>2
  <2> QED BY <2>3 DEF SplitEntry, SplitDealt
<1>5. parent \in EntryType /\ parent.prefix = es[i].prefix
      /\ parent.root_summary = es[i].root_summary /\ parent.split_child_start = n + 1
  BY <1>1, <1>2, LinkedEntry
<1> HIDE DEF parent
<1>6. base \in Seq(EntryType) /\ Len(base) = n
      /\ \A j \in 1 .. n : base[j] = IF j = i THEN parent ELSE es[j]
  BY <1>1, <1>5, ExceptSeq
<1> HIDE DEF base, child
<1>7. children \in Seq(EntryType) /\ Len(children) = Fanout
      /\ \A c \in 1 .. Fanout : children[c] = child(c)
  BY <1>3, RingShape
<1> HIDE DEF children
<1>8. /\ new \in Seq(EntryType)
      /\ Len(new) = n + Fanout
      /\ \A j \in 1 .. n + Fanout : new[j] = IF j <= n THEN base[j] ELSE children[j - n]
  <2>1. /\ base \o children \in Seq(EntryType)
        /\ Len(base \o children) = Len(base) + Len(children)
        /\ \A j \in 1 .. Len(base) + Len(children) : (base \o children)[j] =
                IF j <= Len(base) THEN base[j] ELSE children[j - Len(base)]
    BY <1>6, <1>7, ConcatProperties
  <2>2. new = base \o children
    BY <1>4
  <2> HIDE DEF new
  <2> QED BY <2>1, <2>2, <1>6, <1>7
<1> HIDE DEF new
<1>9. DOMAIN new = 1 .. n + Fanout
  BY <1>8, LenProperties
<1>10. \A j \in 1 .. n : new[j] = IF j = i THEN parent ELSE es[j]
  BY <1>1, <1>6, <1>8, RingShape
<1>11. \A c \in 1 .. Fanout : new[n + c] = child(c)
  <2> TAKE c \in 1 .. Fanout
  <2>1. n + c \in 1 .. n + Fanout /\ ~(n + c <= n) /\ (n + c) - n = c
    BY <1>1, RingShape
  <2> QED BY <2>1, <1>7, <1>8
<1>12. \A j \in DOMAIN es \ {i} : new[j] = es[j]
  BY <1>1, <1>10
<1>13. new[i] = parent
  BY <1>1, <1>10
<1> QED BY <1>1, <1>3, <1>5, <1>8, <1>9, <1>11, <1>12, <1>13 DEF IsSplit, new, child

\* Nothing lies below an entry that is not split: its children are new prefixes.
LEMMA ChildrenAreNew ==
    ASSUME NEW es, RingInv(es), NEW i \in DOMAIN es, CanSplit(es, i),
           NEW d \in Digits, NEW j \in DOMAIN es
    PROVE  ~IsPrefix(Append(es[i].prefix, d), es[j].prefix)
<1> DEFINE p == es[i].prefix
           q == es[j].prefix
<1>1. p \in Prefixes /\ q \in Prefixes /\ Len(p) \in Nat /\ Len(q) \in Nat
  BY EntryTyped DEF RingInv, WellTyped
<1>2. SUFFICES ASSUME IsPrefix(Append(p, d), q) PROVE FALSE
  OBVIOUS
<1>3. Len(Append(p, d)) = Len(p) + 1 /\ \A k \in 1 .. Len(p) : Append(p, d)[k] = p[k]
  BY <1>1, ChildOf DEF CanSplit
<1>4. Len(p) < Len(q) /\ IsPrefix(p, q)
  BY <1>1, <1>2, <1>3 DEF IsPrefix
<1>5. i # j
  BY <1>1, <1>4
<1> QED BY <1>4, <1>5 DEF RingInv, AncestorsSplit, CanSplit

\* An entry that begins a child's prefix begins the parent's, or is that child.
LEMMA BelowChild ==
    ASSUME NEW p \in Prefixes, Len(p) < MaxPrefixLen, NEW d \in Digits,
           NEW q \in Prefixes, IsPrefix(q, Append(p, d))
    PROVE  IsPrefix(q, p) \/ IsPrefix(Append(p, d), q)
<1>1. Len(p) \in Nat /\ Len(q) \in Nat
  BY PrefixIsSeq, LenProperties
<1>2. Len(Append(p, d)) = Len(p) + 1 /\ \A k \in 1 .. Len(p) : Append(p, d)[k] = p[k]
  BY ChildOf
<1>3. CASE Len(q) =< Len(p)
  BY <1>1, <1>2, <1>3 DEF IsPrefix
<1>4. CASE Len(q) > Len(p)
  BY <1>1, <1>2, <1>4 DEF IsPrefix
<1> QED BY <1>1, <1>3, <1>4

\* Two children of one parent are apart.
LEMMA ChildrenApart ==
    ASSUME NEW p \in Prefixes, Len(p) < MaxPrefixLen, NEW d \in Digits, NEW e \in Digits,
           IsPrefix(Append(p, d), Append(p, e))
    PROVE  d = e
<1>1. Len(p) \in Nat
  BY PrefixIsSeq, LenProperties
<1>2. Len(Append(p, d)) = Len(p) + 1 /\ Append(p, d)[Len(p) + 1] = d
      /\ Append(p, e)[Len(p) + 1] = e
  BY ChildOf
<1> QED BY <1>1, <1>2 DEF IsPrefix

\* A split keeps the invariant.
LEMMA SplitKeepsInv ==
    ASSUME NEW es, RingInv(es), NEW i \in DOMAIN es, NEW new, CanSplit(es, i),
           IsSplit(es, i, new)
    PROVE  RingInv(new)
<1> DEFINE n == Len(es)
           p == es[i].prefix
<1>1. /\ new \in Seq(EntryType) /\ n \in Nat /\ DOMAIN es = 1 .. n
      /\ DOMAIN new = 1 .. n + Fanout
      /\ \A j \in 1 .. n : new[j].prefix = es[j].prefix
      /\ \A j \in 1 .. n : j # i => new[j] = es[j]
      /\ EntryIsSplit(new, i)
  BY DEF IsSplit, EntryIsSplit, NoEntry
<1>2. ASSUME NEW c \in 1 .. Fanout
      PROVE  /\ n + c \in DOMAIN new
             /\ new[n + c].prefix = Append(p, c - 1) /\ c - 1 \in Digits
             /\ new[n + c].owner_ref \in Nodes
             /\ ~EntryIsSplit(new, n + c)
  <2>1. n + c \in DOMAIN new
    BY <1>1, RingShape
  <2>2. /\ new[n + c] = Entry(Append(p, c - 1), (es[i].owner_ref + (c - 1)) % NodeCount)
        /\ (es[i].owner_ref + (c - 1)) % NodeCount \in Nodes
        /\ c - 1 \in Digits
    BY DEF IsSplit
  <2>3. /\ new[n + c].prefix = Append(p, c - 1)
        /\ new[n + c].owner_ref = (es[i].owner_ref + (c - 1)) % NodeCount
        /\ new[n + c].split_child_start = NoEntry
    BY <2>2 DEF Entry
  <2> QED BY <2>1, <2>2, <2>3 DEF EntryIsSplit
<1>3. ASSUME NEW j \in DOMAIN new
      PROVE  j \in 1 .. n \/ (j - n \in 1 .. Fanout /\ n + (j - n) = j)
  BY <1>1, RingShape
<1>4. p \in Prefixes /\ Len(p) \in Nat /\ Len(p) < MaxPrefixLen
  BY EntryTyped DEF RingInv, WellTyped, CanSplit
<1>5. \A j \in 1 .. n : EntryIsSplit(es, j) => EntryIsSplit(new, j)
  BY <1>1 DEF EntryIsSplit
<1>6. WellTyped(new)
  <2>1. ASSUME NEW j \in Leaves(new)
        PROVE  new[j].owner_ref \in Nodes
    <3>1. j \in DOMAIN new /\ ~EntryIsSplit(new, j)
      BY DEF Leaves
    <3>2. CASE j \in 1 .. n
      <4>1. j # i /\ new[j] = es[j]
        BY <1>1, <3>1, <3>2
      <4>2. j \in Leaves(es)
        BY <1>1, <3>1, <3>2, <4>1 DEF Leaves, EntryIsSplit
      <4> QED BY <4>1, <4>2 DEF RingInv, WellTyped
    <3>3. CASE j - n \in 1 .. Fanout /\ n + (j - n) = j
      BY <1>2, <3>3
    <3> QED BY <1>3, <3>1, <3>2, <3>3
  <2> QED BY <1>1, <2>1 DEF WellTyped
<1>7. AncestorsSplit(new)
  <2> SUFFICES ASSUME NEW j \in DOMAIN new, NEW k \in DOMAIN new, j # k,
                      IsPrefix(new[j].prefix, new[k].prefix)
               PROVE  EntryIsSplit(new, j)
    BY DEF AncestorsSplit
  <2>1. CASE j \in 1 .. n /\ k \in 1 .. n
    BY <1>1, <1>5, <2>1 DEF RingInv, AncestorsSplit
  <2>2. CASE j \in 1 .. n /\ k - n \in 1 .. Fanout /\ n + (k - n) = k
    <3>1. new[k].prefix = Append(p, (k - n) - 1) /\ (k - n) - 1 \in Digits
      BY <1>2, <2>2
    <3>2. new[j].prefix = es[j].prefix /\ es[j].prefix \in Prefixes
      BY <1>1, <2>2, EntryTyped DEF RingInv, WellTyped
    <3>3. ~IsPrefix(Append(p, (k - n) - 1), es[j].prefix)
      BY <1>1, <2>2, <3>1, ChildrenAreNew
    <3>4. IsPrefix(es[j].prefix, p)
      BY <1>4, <3>1, <3>2, <3>3, BelowChild
    <3>5. CASE j = i
      BY <1>1, <3>5
    <3>6. CASE j # i
      BY <1>1, <1>5, <2>2, <3>4, <3>6 DEF RingInv, AncestorsSplit
    <3> QED BY <3>5, <3>6
  <2>3. CASE j - n \in 1 .. Fanout /\ n + (j - n) = j /\ k \in 1 .. n
    <3>1. new[j].prefix = Append(p, (j - n) - 1) /\ (j - n) - 1 \in Digits
      BY <1>2, <2>3
    <3> QED BY <1>1, <2>3, <3>1, ChildrenAreNew
  <2>4. CASE /\ j - n \in 1 .. Fanout /\ n + (j - n) = j
             /\ k - n \in 1 .. Fanout /\ n + (k - n) = k
    <3>1. /\ new[j].prefix = Append(p, (j - n) - 1) /\ (j - n) - 1 \in Digits
          /\ new[k].prefix = Append(p, (k - n) - 1) /\ (k - n) - 1 \in Digits
      BY <1>2, <2>4
    <3>2. (j - n) - 1 = (k - n) - 1
      BY <1>4, <3>1, ChildrenApart
    <3> QED BY <1>1, <2>4, <3>2, RingShape
  <2> QED BY <1>3, <2>1, <2>2, <2>3, <2>4
<1>8. Covered(new)
  <2> SUFFICES ASSUME NEW hash \in KeyHashes
               PROVE  \E j \in Leaves(new) : IsPrefix(new[j].prefix, hash)
    BY DEF Covered
  <2>1. PICK j \in Leaves(es) : IsPrefix(es[j].prefix, hash)
    BY DEF RingInv, Covered
  <2>2. j \in 1 .. n /\ j \in DOMAIN new
    BY <1>1, RingShape DEF Leaves
  <2>3. CASE j # i
    <3>1. new[j] = es[j]
      BY <1>1, <2>2, <2>3
    <3>2. j \in Leaves(new)
      BY <2>2, <3>1 DEF Leaves, EntryIsSplit
    <3> QED BY <2>1, <3>1, <3>2
  <2>4. CASE j = i
    <3> DEFINE d == hash[Len(p) + 1]
    <3>1. Len(hash) = MaxPrefixLen /\ Len(p) + 1 \in 1 .. MaxPrefixLen /\ d \in Digits
      BY <1>4, RingShape DEF KeyHashes
    <3>2. d + 1 \in 1 .. Fanout /\ (d + 1) - 1 = d
      BY <3>1, RingShape DEF Digits
    <3>3. new[n + (d + 1)].prefix = Append(p, d) /\ n + (d + 1) \in Leaves(new)
      BY <1>2, <3>2 DEF Leaves
    <3>4. IsPrefix(Append(p, d), hash)
      <4>1. /\ Len(Append(p, d)) = Len(p) + 1 /\ Append(p, d)[Len(p) + 1] = d
            /\ \A k \in 1 .. Len(p) : Append(p, d)[k] = p[k]
        BY <1>4, <3>1, ChildOf
      <4>2. IsPrefix(p, hash)
        BY <2>1, <2>4
      <4> QED BY <1>4, <3>1, <4>1, <4>2, RingShape DEF IsPrefix
    <3> QED BY <3>3, <3>4
  <2> QED BY <2>3, <2>4
<1>9. PrefixesUnique(new)
  <2>1. ASSUME NEW j \in 1 .. n, NEW c \in 1 .. Fanout,
               new[j].prefix = new[n + c].prefix
        PROVE  FALSE
    <3>1. es[j].prefix = Append(p, c - 1) /\ c - 1 \in Digits /\ j \in DOMAIN es
      BY <1>1, <1>2, <2>1
    <3>2. ~IsPrefix(Append(p, c - 1), es[j].prefix)
      BY <3>1, ChildrenAreNew
    <3>3. Len(es[j].prefix) \in Nat
      BY <3>1, EntryTyped DEF RingInv, WellTyped
    <3> QED BY <3>1, <3>2, <3>3 DEF IsPrefix
  <2>2. ASSUME NEW c \in 1 .. Fanout, NEW b \in 1 .. Fanout,
               new[n + c].prefix = new[n + b].prefix
        PROVE  n + c = n + b
    <3>1. Append(p, c - 1) = Append(p, b - 1) /\ c - 1 \in Digits /\ b - 1 \in Digits
      BY <1>2, <2>2
    <3>2. c - 1 = b - 1
      BY <1>4, <3>1, ChildOf
    <3> QED BY <3>2, RingShape
  <2> SUFFICES ASSUME NEW j \in DOMAIN new, NEW k \in DOMAIN new,
                      new[j].prefix = new[k].prefix
               PROVE  j = k
    BY DEF PrefixesUnique
  <2>3. CASE j \in 1 .. n /\ k \in 1 .. n
    BY <1>1, <2>3 DEF RingInv, PrefixesUnique
  <2>4. CASE j \in 1 .. n /\ k - n \in 1 .. Fanout /\ n + (k - n) = k
    BY <2>1, <2>4
  <2>5. CASE j - n \in 1 .. Fanout /\ n + (j - n) = j /\ k \in 1 .. n
    BY <2>1, <2>5
  <2>6. CASE /\ j - n \in 1 .. Fanout /\ n + (j - n) = j
             /\ k - n \in 1 .. Fanout /\ n + (k - n) = k
    BY <2>2, <2>6
  <2> QED BY <1>3, <2>3, <2>4, <2>5, <2>6
<1>10. Linked(new)
  <2> SUFFICES ASSUME NEW j \in DOMAIN new, EntryIsSplit(new, j)
               PROVE  /\ Len(new[j].prefix) < MaxPrefixLen
                      /\ \A d \in Digits :
                            /\ Child(new, j, d) \in DOMAIN new
                            /\ new[Child(new, j, d)].prefix = Append(new[j].prefix, d)
    BY DEF Linked
  <2>1. j \in 1 .. n
    BY <1>2, <1>3
  <2>2. CASE j = i
    <3>1. new[j].prefix = p
      BY <1>1, <2>1, <2>2
    <3>2. ASSUME NEW d \in Digits
          PROVE  /\ Child(new, j, d) \in DOMAIN new
                 /\ new[Child(new, j, d)].prefix = Append(p, d)
      <4>1. d + 1 \in 1 .. Fanout /\ (d + 1) - 1 = d
        BY RingShape DEF Digits
      <4>2. Child(new, j, d) = (n + 1) + d
        BY <2>2 DEF Child, IsSplit
      <4>3. Child(new, j, d) = n + (d + 1)
        BY <1>1, <4>1, <4>2, RingShape DEF Digits
      <4>4. n + (d + 1) \in DOMAIN new /\ new[n + (d + 1)].prefix = Append(p, d)
        BY <1>2, <4>1
      <4> QED BY <4>3, <4>4
    <3> QED BY <1>4, <3>1, <3>2
  <2>3. CASE j # i
    <3>1. new[j] = es[j] /\ EntryIsSplit(es, j)
      BY <1>1, <2>1, <2>3 DEF EntryIsSplit
    <3>2. /\ Len(es[j].prefix) < MaxPrefixLen
          /\ \A d \in Digits :
                /\ Child(es, j, d) \in 1 .. n
                /\ es[Child(es, j, d)].prefix = Append(es[j].prefix, d)
      BY <1>1, <2>1, <3>1 DEF RingInv, Linked
    <3>3. \A d \in Digits : Child(new, j, d) = Child(es, j, d)
      BY <3>1 DEF Child
    <3>4. 1 .. n \subseteq DOMAIN new
      BY <1>1, RingShape
    <3> QED BY <1>1, <3>1, <3>2, <3>3, <3>4
  <2> QED BY <2>2, <2>3
<1>11. Rooted(new)
  <2>1. ASSUME NEW v \in 1 .. RootCount
        PROVE  v \in DOMAIN new /\ new[v].prefix = FormatPrefix(v - 1)
    <3>1. v \in 1 .. n /\ es[v].prefix = FormatPrefix(v - 1)
      BY <1>1 DEF RingInv, Rooted
    <3> QED BY <1>1, <3>1, RingShape
  <2>2. ASSUME NEW j \in DOMAIN new
        PROVE  Len(new[j].prefix) >= RootLen
    <3>1. CASE j \in 1 .. n
      BY <1>1, <3>1 DEF RingInv, Rooted
    <3>2. CASE j - n \in 1 .. Fanout /\ n + (j - n) = j
      <4>1. Len(p) >= RootLen
        BY DEF RingInv, Rooted
      <4>2. Len(new[j].prefix) = Len(p) + 1
        BY <1>2, <1>4, <3>2, ChildOf
      <4> QED BY <1>4, <4>1, <4>2, RingShape
    <3> QED BY <1>3, <3>1, <3>2
  <2> QED BY <2>1, <2>2 DEF Rooted
<1> QED BY <1>6, <1>7, <1>8, <1>9, <1>10, <1>11 DEF RingInv
(***************************************************************************)
(* Recursion along an interval                                             *)
(***************************************************************************)

\* Induction on an interval of integers, for sets.
LEMMA IntervalInduction ==
    ASSUME NEW a \in Int, NEW b \in Int, NEW T,
           a \in T, \A k \in a + 1 .. b : k - 1 \in T => k \in T
    PROVE  a .. b \subseteq T
<1> DEFINE R == {ss \in Nat \X Nat : ss[1] < ss[2]}
           Missed == {n \in Nat : a + n \in a .. b /\ a + n \notin T}
<1>1. IsWellFoundedOn(R, Nat)
  BY NatLessThanWellFounded DEF OpToRel
<1> HIDE DEF R
<1>2. CASE Missed = {}
  <2> SUFFICES ASSUME NEW k \in a .. b PROVE k \in T
    OBVIOUS
  <2>1. k - a \in Nat /\ a + (k - a) = k
    OBVIOUS
  <2>2. k - a \notin Missed
    BY <1>2
  <2> QED BY <2>1, <2>2
<1>3. CASE Missed # {}
  <2>1. PICK n \in Missed : \A m \in Missed : ~(<<m, n>> \in R)
    <3>1. Missed \subseteq Nat
      OBVIOUS
    <3> HIDE DEF Missed
    <3> QED BY <1>1, <1>3, <3>1, WFMin
  <2>2. n \in Nat /\ a + n \in a .. b /\ a + n \notin T
    OBVIOUS
  <2>3. n # 0
    BY <2>2
  <2>4. n - 1 \in Nat /\ n - 1 \notin Missed
    <3>1. n - 1 \in Nat /\ n - 1 < n
      BY <2>2, <2>3
    <3>2. <<n - 1, n>> \in R
      BY <2>2, <3>1 DEF R
    <3> HIDE DEF Missed
    <3> QED BY <2>1, <3>1, <3>2
  <2>5. a + (n - 1) = (a + n) - 1 /\ a + n \in a + 1 .. b
    BY <2>2, <2>3
  <2>6. (a + n) - 1 \in T
    BY <2>2, <2>3, <2>4, <2>5
  <2> QED BY <2>2, <2>5, <2>6
<1> QED BY <1>2, <1>3

\* A walk in S along a .. b: it starts at x, and step k takes s to g[k][s].
Walks(f, a, b, S, x, g) ==
    /\ f \in [a .. b -> S]
    /\ f[a] = x
    /\ \A k \in a + 1 .. b : f[k] = g[k][f[k - 1]]

\* A walk whose steps stay in S exists.
LEMMA WalkExists ==
    ASSUME NEW a \in Int, NEW b \in Int, a =< b, NEW S, NEW x \in S,
           NEW g \in [a + 1 .. b -> [S -> S]]
    PROVE  \E f : Walks(f, a, b, S, x, g)
<1> DEFINE IsWalk(f, n) ==
                f[a] = x /\ \A k \in a + 1 .. n : f[k] = g[k][f[k - 1]]
           T == {n \in a .. b : \E f \in [a .. n -> S] : IsWalk(f, n)}
<1>1. a \in T
  <2> DEFINE h == [k \in a .. a |-> x]
  <2>1. h \in [a .. a -> S] /\ h[a] = x /\ a + 1 .. a = {} /\ a \in a .. b
    OBVIOUS
  <2> HIDE DEF h
  <2>2. IsWalk(h, a)
    BY <2>1
  <2> QED BY <2>1, <2>2
<1>2. ASSUME NEW n \in a + 1 .. b, n - 1 \in T
      PROVE  n \in T
  <2>1. PICK f \in [a .. n - 1 -> S] : IsWalk(f, n - 1)
    BY <1>2
  <2> DEFINE h == [k \in a .. n |-> IF k = n THEN g[n][f[n - 1]] ELSE f[k]]
  <2>2. f[n - 1] \in S /\ g[n][f[n - 1]] \in S
    <3>1. f[n - 1] \in S
      OBVIOUS
    <3>2. g[n] \in [S -> S]
      OBVIOUS
    <3> QED BY <3>1, <3>2
  <2>3. h \in [a .. n -> S]
    BY <2>2
  <2>4. h[a] = x
    BY <2>1
  <2>5. ASSUME NEW k \in a + 1 .. n
        PROVE  h[k] = g[k][h[k - 1]]
    <3>1. k - 1 \in a .. n /\ k - 1 # n /\ h[k - 1] = f[k - 1]
      OBVIOUS
    <3>2. CASE k = n
      <4>1. h[k] = g[n][f[n - 1]]
        BY <3>2
      <4> HIDE DEF h
      <4> QED BY <3>1, <3>2, <4>1
    <3>3. CASE k # n
      <4>1. k \in a + 1 .. n - 1 /\ h[k] = f[k]
        BY <3>3
      <4>2. f[k] = g[k][f[k - 1]]
        BY <2>1, <4>1
      <4> HIDE DEF h
      <4> QED BY <3>1, <4>1, <4>2
    <3> QED BY <3>2, <3>3
  <2>6. n \in a .. b
    OBVIOUS
  <2> HIDE DEF h
  <2> QED BY <2>3, <2>4, <2>5, <2>6
<1>3. a .. b \subseteq T
  <2> HIDE DEF T
  <2> QED BY <1>1, <1>2, IntervalInduction
<1>4. b \in T
  <2> HIDE DEF T
  <2> QED BY <1>3
<1> QED BY <1>4 DEF Walks

(***************************************************************************)
(* Where the walks end                                                     *)
(***************************************************************************)

\* A hash is a prefix of full length.
LEMMA HashIsPrefix ==
    ASSUME NEW hash \in KeyHashes
    PROVE  hash \in Prefixes /\ Len(hash) = MaxPrefixLen
<1>1. Len(hash) = MaxPrefixLen
  BY RingShape DEF KeyHashes
<1> QED BY <1>1, RingShape DEF KeyHashes, Prefixes

\* Prefixes of one length that begin one another are equal.
LEMMA SamePrefix ==
    ASSUME NEW p \in Prefixes, NEW q \in Prefixes, Len(p) = Len(q), IsPrefix(p, q)
    PROVE  p = q
<1>1. p \in Seq(Digits) /\ q \in Seq(Digits)
  BY PrefixIsSeq
<1> QED BY <1>1, SeqEqual, LenProperties DEF IsPrefix

\* The walk begins at the root entry that begins the prefix.
LEMMA RootStep ==
    ASSUME NEW es, RingInv(es), NEW p \in Prefixes, RootLen =< Len(p)
    PROVE  /\ RootEntry(p) \in DOMAIN es
           /\ Len(es[RootEntry(p)].prefix) = RootLen
           /\ IsPrefix(es[RootEntry(p)].prefix, p)
<1> DEFINE root == SubSeq(p, 1, RootLen)
<1>1. p \in Seq(Digits) /\ Len(p) \in Nat
  BY PrefixIsSeq, LenProperties
<1>2. /\ root \in Seq(Digits) /\ Len(root) = RootLen
      /\ \A k \in 1 .. RootLen : root[k] = p[k]
  BY <1>1, SubSeqProperties, RingShape
<1>3. root \in RootPrefixes
  BY <1>2, LenProperties DEF RootPrefixes
<1> HIDE DEF root
<1>4. RootValue(root) \in 0 .. RootCount - 1 /\ FormatPrefix(RootValue(root)) = root
  BY <1>3, RootNumerals
<1>5. RootEntry(p) = RootValue(root) + 1
  BY DEF RootEntry, root
<1>6. RootEntry(p) \in 1 .. RootCount /\ RootEntry(p) - 1 = RootValue(root)
  BY <1>4, <1>5, RootNumerals
<1>7. RootEntry(p) \in DOMAIN es /\ es[RootEntry(p)].prefix = root
  BY <1>4, <1>6 DEF RingInv, Rooted
<1> QED BY <1>1, <1>2, <1>7, RingShape DEF IsPrefix

\* From a split entry that begins the prefix it goes on to the child that does.
LEMMA ChildStep ==
    ASSUME NEW es, RingInv(es), NEW j \in DOMAIN es, EntryIsSplit(es, j),
           NEW p \in Prefixes, IsPrefix(es[j].prefix, p),
           NEW k \in Nat, k = Len(es[j].prefix) + 1, k =< Len(p)
    PROVE  /\ Child(es, j, p[k]) \in DOMAIN es
           /\ Len(es[Child(es, j, p[k])].prefix) = k
           /\ IsPrefix(es[Child(es, j, p[k])].prefix, p)
<1> DEFINE q == es[j].prefix
           d == p[k]
<1>1. q \in Prefixes /\ Len(q) \in Nat
  BY EntryTyped DEF RingInv, WellTyped
<1>2. p \in Seq(Digits) /\ Len(p) \in Nat
  BY PrefixIsSeq, LenProperties
<1>3. d \in Digits
  <2>1. k \in 1 .. Len(p)
    BY <1>1, <1>2
  <2> QED BY <1>2, <2>1, ElementOfSeq
<1>4. /\ Len(q) < MaxPrefixLen
      /\ Child(es, j, d) \in DOMAIN es
      /\ es[Child(es, j, d)].prefix = Append(q, d)
  BY <1>3 DEF RingInv, Linked
<1>5. /\ Len(Append(q, d)) = Len(q) + 1
      /\ \A i \in 1 .. Len(q) : Append(q, d)[i] = q[i]
      /\ Append(q, d)[Len(q) + 1] = d
  BY <1>1, <1>3, <1>4, ChildOf
<1>6. IsPrefix(Append(q, d), p)
  <2>1. ASSUME NEW i \in 1 .. Len(Append(q, d)) PROVE Append(q, d)[i] = p[i]
    <3>1. i \in 1 .. Len(q) \/ i = Len(q) + 1
      BY <1>1, <1>5
    <3> QED BY <1>5, <3>1 DEF IsPrefix
  <2> QED BY <1>5, <2>1 DEF IsPrefix
<1> QED BY <1>4, <1>5, <1>6

\* route_key_hex satisfies its own equation, and every place of its walk is an entry
\* that begins the hash, of length k after k digits or a leaf before.
LEMMA RouteWalk ==
    ASSUME NEW es, RingInv(es), NEW hash \in KeyHashes
    PROVE  RouteKey(es, hash) \in Leaves(es) /\ IsPrefix(es[RouteKey(es, hash)].prefix, hash)
<1> DEFINE Onward(i) == IF EntryIsSplit(es, i)
                        THEN Child(es, i, hash[Len(es[i].prefix) + 1])
                        ELSE i
           g == [k \in RootLen + 1 .. MaxPrefixLen |-> [i \in DOMAIN es |-> Onward(i)]]
<1>1. hash \in Prefixes /\ Len(hash) = MaxPrefixLen
  BY HashIsPrefix
<1>2. RootLen \in Nat /\ MaxPrefixLen \in Nat /\ RootLen =< MaxPrefixLen
  BY RingShape
<1>3. /\ RootEntry(hash) \in DOMAIN es
      /\ Len(es[RootEntry(hash)].prefix) = RootLen
      /\ IsPrefix(es[RootEntry(hash)].prefix, hash)
  BY <1>1, <1>2, RootStep
<1>4. ASSUME NEW i \in DOMAIN es
      PROVE  Onward(i) \in DOMAIN es
  <2>1. CASE EntryIsSplit(es, i)
    <3>1. /\ Len(es[i].prefix) \in Nat /\ Len(es[i].prefix) < MaxPrefixLen
          /\ \A d \in Digits : Child(es, i, d) \in DOMAIN es
      BY <2>1, EntryTyped DEF RingInv, WellTyped, Linked
    <3>2. hash[Len(es[i].prefix) + 1] \in Digits
      BY <1>2, <3>1 DEF KeyHashes
    <3> QED BY <2>1, <3>1, <3>2
  <2>2. CASE ~EntryIsSplit(es, i)
    BY <2>2
  <2> QED BY <2>1, <2>2
<1>5. \E f : f = [k \in RootLen .. MaxPrefixLen |->
                    IF k = RootLen THEN RootEntry(hash)
                    ELSE LET i == f[k - 1]
                         IN  IF EntryIsSplit(es, i)
                             THEN Child(es, i, hash[Len(es[i].prefix) + 1])
                             ELSE i]
  <2>1. g \in [RootLen + 1 .. MaxPrefixLen -> [DOMAIN es -> DOMAIN es]]
    <3> HIDE DEF Onward
    <3> QED BY <1>4
  <2>0. \A k \in RootLen + 1 .. MaxPrefixLen, i \in DOMAIN es : g[k][i] = Onward(i)
    <3> HIDE DEF Onward
    <3> QED OBVIOUS
  <2> HIDE DEF g
  <2>2. PICK f : Walks(f, RootLen, MaxPrefixLen, DOMAIN es, RootEntry(hash), g)
    <3>1. RootLen \in Int /\ MaxPrefixLen \in Int
      BY <1>2
    <3> QED BY <1>2, <1>3, <2>1, <3>1, WalkExists, Zenon
  <2>3. ASSUME NEW k \in RootLen .. MaxPrefixLen, k # RootLen
        PROVE  f[k] = Onward(f[k - 1])
    <3>1. k \in RootLen + 1 .. MaxPrefixLen /\ k - 1 \in RootLen .. MaxPrefixLen
      BY <1>2, <2>3
    <3>2. f[k - 1] \in DOMAIN es
      BY <2>2, <3>1 DEF Walks
    <3> HIDE DEF Onward
    <3> QED BY <2>0, <2>2, <3>1, <3>2 DEF Walks
  <2>4. f = [k \in RootLen .. MaxPrefixLen |->
                IF k = RootLen THEN RootEntry(hash) ELSE Onward(f[k - 1])]
    <3>1. f \in [RootLen .. MaxPrefixLen -> DOMAIN es] /\ f[RootLen] = RootEntry(hash)
      BY <2>2 DEF Walks
    <3> HIDE DEF Onward
    <3> QED BY <2>3, <3>1
  <2> QED BY <2>4
<1> DEFINE at[k \in RootLen .. MaxPrefixLen] ==
                IF k = RootLen THEN RootEntry(hash)
                ELSE LET i == at[k - 1]
                     IN  IF EntryIsSplit(es, i)
                         THEN Child(es, i, hash[Len(es[i].prefix) + 1])
                         ELSE i
<1>6. at = [k \in RootLen .. MaxPrefixLen |->
                IF k = RootLen THEN RootEntry(hash)
                ELSE LET i == at[k - 1]
                     IN  IF EntryIsSplit(es, i)
                         THEN Child(es, i, hash[Len(es[i].prefix) + 1])
                         ELSE i]
  BY <1>5, Zenon
<1>7. RouteKey(es, hash) = at[MaxPrefixLen]
  BY DEF RouteKey
<1> HIDE DEF at
<1>8. /\ at[RootLen] = RootEntry(hash)
      /\ \A k \in RootLen + 1 .. MaxPrefixLen : at[k] = Onward(at[k - 1])
  <2>1. at = [k \in RootLen .. MaxPrefixLen |->
                IF k = RootLen THEN RootEntry(hash) ELSE Onward(at[k - 1])]
    BY <1>6
  <2> HIDE DEF Onward
  <2>2. ASSUME NEW k \in RootLen + 1 .. MaxPrefixLen
        PROVE  k \in RootLen .. MaxPrefixLen /\ k # RootLen
    BY <1>2
  <2> QED BY <1>2, <2>1, <2>2
<1> DEFINE Reached(i, k) ==
                /\ i \in DOMAIN es
                /\ IsPrefix(es[i].prefix, hash)
                /\ Len(es[i].prefix) = k \/ ~EntryIsSplit(es, i)
           T == {k \in RootLen .. MaxPrefixLen : Reached(at[k], k)}
<1>9. RootLen \in T
  BY <1>2, <1>3, <1>8
<1>10. ASSUME NEW k \in RootLen + 1 .. MaxPrefixLen, k - 1 \in T
       PROVE  k \in T
  <2>1. Reached(at[k - 1], k - 1) /\ at[k] = Onward(at[k - 1]) /\ k \in RootLen .. MaxPrefixLen
    BY <1>2, <1>8, <1>10
  <2> DEFINE i == at[k - 1]
  <2> HIDE DEF i
  <2>2. CASE ~EntryIsSplit(es, i)
    <3>1. at[k] = i /\ Reached(i, k)
      BY <2>1, <2>2 DEF i
    <3> QED BY <2>1, <3>1
  <2>3. CASE EntryIsSplit(es, i)
    <3>1. i \in DOMAIN es /\ IsPrefix(es[i].prefix, hash) /\ Len(es[i].prefix) = k - 1
      BY <2>1, <2>3 DEF i
    <3>2. k \in Nat /\ k = Len(es[i].prefix) + 1 /\ k =< Len(hash)
      BY <1>1, <1>2, <3>1
    <3>3. at[k] = Child(es, i, hash[k])
      BY <2>1, <2>3, <3>2 DEF i
    <3>4. Reached(at[k], k)
      BY <1>1, <2>3, <3>1, <3>2, <3>3, ChildStep
    <3> QED BY <2>1, <3>4
  <2> QED BY <2>2, <2>3
<1>11. MaxPrefixLen \in T
  <2> HIDE DEF T
  <2>1. RootLen .. MaxPrefixLen \subseteq T
    BY <1>2, <1>9, <1>10, IntervalInduction
  <2> QED BY <1>2, <2>1
<1>12. Reached(at[MaxPrefixLen], MaxPrefixLen)
  BY <1>11
<1>13. ~EntryIsSplit(es, at[MaxPrefixLen])
  BY <1>2, <1>12 DEF RingInv, Linked
<1> QED BY <1>7, <1>12, <1>13 DEF Leaves

\* find_entry_index: its walk from the root entry, NoEntry from where the links end.
LEMMA FindWalk ==
    ASSUME NEW es, RingInv(es), NEW p \in Prefixes, RootLen =< Len(p)
    PROVE  \E f :
            /\ f[RootLen] = RootEntry(p)
            /\ \A k \in RootLen + 1 .. Len(p) :
                f[k] = IF f[k - 1] # NoEntry /\ EntryIsSplit(es, f[k - 1])
                       THEN Child(es, f[k - 1], p[k])
                       ELSE NoEntry
            /\ FindEntry(es, p) = f[Len(p)]
<1> DEFINE D == DOMAIN es \cup {NoEntry}
           Onward(i, k) == IF i # NoEntry /\ EntryIsSplit(es, i) THEN Child(es, i, p[k]) ELSE NoEntry
           g == [k \in RootLen + 1 .. Len(p) |-> [i \in D |-> Onward(i, k)]]
<1>1. p \in Seq(Digits) /\ Len(p) \in Nat
  BY PrefixIsSeq, LenProperties
<1>2. RootLen \in Nat
  BY RingShape
<1>3. RootEntry(p) \in D
  BY RootStep
<1>4. ASSUME NEW k \in RootLen + 1 .. Len(p), NEW i \in D
      PROVE  Onward(i, k) \in D
  <2>1. CASE i # NoEntry /\ EntryIsSplit(es, i)
    <3>1. \A d \in Digits : Child(es, i, d) \in DOMAIN es
      BY <2>1 DEF RingInv, Linked
    <3>2. k \in 1 .. Len(p)
      BY <1>1, <1>2
    <3>3. p[k] \in Digits
      BY <1>1, <3>2, ElementOfSeq
    <3> QED BY <2>1, <3>1, <3>3
  <2>2. CASE ~(i # NoEntry /\ EntryIsSplit(es, i))
    BY <2>2
  <2> QED BY <2>1, <2>2
<1>5. \E f : f = [k \in RootLen .. Len(p) |->
                    IF k = RootLen THEN RootEntry(p)
                    ELSE LET i == f[k - 1]
                         IN  IF i # NoEntry /\ EntryIsSplit(es, i)
                             THEN Child(es, i, p[k]) ELSE NoEntry]
  <2>1. g \in [RootLen + 1 .. Len(p) -> [D -> D]]
    <3> HIDE DEF Onward, D
    <3> QED BY <1>4
  <2>2. \A k \in RootLen + 1 .. Len(p), i \in D : g[k][i] = Onward(i, k)
    <3> HIDE DEF Onward, D
    <3> QED OBVIOUS
  <2> HIDE DEF g
  <2>3. PICK f : Walks(f, RootLen, Len(p), D, RootEntry(p), g)
    <3> DEFINE n == Len(p)
    <3>1. RootLen \in Int /\ n \in Int /\ RootLen =< n
      BY <1>1, <1>2
    <3>2. g \in [RootLen + 1 .. n -> [D -> D]]
      BY <2>1
    <3> HIDE DEF D, n
    <3>3. \E f : Walks(f, RootLen, n, D, RootEntry(p), g)
      BY <1>3, <3>1, <3>2, WalkExists
    <3> QED BY <3>3 DEF n
  <2>4. ASSUME NEW k \in RootLen .. Len(p), k # RootLen
        PROVE  f[k] = Onward(f[k - 1], k)
    <3>1. k \in RootLen + 1 .. Len(p) /\ k - 1 \in RootLen .. Len(p)
      BY <1>1, <1>2, <2>4
    <3> HIDE DEF Onward, D
    <3>2. f[k - 1] \in D
      BY <2>3, <3>1 DEF Walks
    <3> QED BY <2>2, <2>3, <3>1, <3>2 DEF Walks
  <2>5. f = [k \in RootLen .. Len(p) |->
                IF k = RootLen THEN RootEntry(p) ELSE Onward(f[k - 1], k)]
    <3>1. f \in [RootLen .. Len(p) -> D] /\ f[RootLen] = RootEntry(p)
      BY <2>3 DEF Walks
    <3> HIDE DEF Onward, D
    <3> QED BY <2>4, <3>1
  <2> QED BY <2>5
<1> DEFINE at[k \in RootLen .. Len(p)] ==
                IF k = RootLen THEN RootEntry(p)
                ELSE LET i == at[k - 1]
                     IN  IF i # NoEntry /\ EntryIsSplit(es, i) THEN Child(es, i, p[k]) ELSE NoEntry
<1>6. at = [k \in RootLen .. Len(p) |->
                IF k = RootLen THEN RootEntry(p)
                ELSE LET i == at[k - 1]
                     IN  IF i # NoEntry /\ EntryIsSplit(es, i)
                         THEN Child(es, i, p[k]) ELSE NoEntry]
  BY <1>5, Zenon
<1>7. FindEntry(es, p) = at[Len(p)]
  <2>1. ~(Len(p) < RootLen)
    BY <1>1, <1>2
  <2> QED BY <2>1 DEF FindEntry
<1> HIDE DEF at
<1>8. at[RootLen] = RootEntry(p) /\ \A k \in RootLen + 1 .. Len(p) : at[k] = Onward(at[k - 1], k)
  <2>1. at = [k \in RootLen .. Len(p) |->
                IF k = RootLen THEN RootEntry(p) ELSE Onward(at[k - 1], k)]
    BY <1>6
  <2> HIDE DEF Onward
  <2>2. ASSUME NEW k \in RootLen + 1 .. Len(p)
        PROVE  k \in RootLen .. Len(p) /\ k # RootLen
    BY <1>1, <1>2
  <2> QED BY <1>1, <1>2, <2>1, <2>2
<1> QED BY <1>7, <1>8

\* It ends at an entry of exactly this prefix, or nowhere.
LEMMA FindTyped ==
    ASSUME NEW es, RingInv(es), NEW p \in Prefixes, FindEntry(es, p) # NoEntry
    PROVE  FindEntry(es, p) \in DOMAIN es /\ es[FindEntry(es, p)].prefix = p
<1>1. Len(p) \in Nat /\ RootLen \in Nat
  BY PrefixIsSeq, LenProperties, RingShape
<1>2. RootLen =< Len(p)
  BY <1>1 DEF FindEntry
<1>3. PICK at :
        /\ at[RootLen] = RootEntry(p)
        /\ \A k \in RootLen + 1 .. Len(p) :
            at[k] = IF at[k - 1] # NoEntry /\ EntryIsSplit(es, at[k - 1])
                    THEN Child(es, at[k - 1], p[k])
                    ELSE NoEntry
        /\ FindEntry(es, p) = at[Len(p)]
  BY <1>2, FindWalk
<1> DEFINE Reached(i, k) == i # NoEntry =>
                /\ i \in DOMAIN es
                /\ IsPrefix(es[i].prefix, p)
                /\ Len(es[i].prefix) = k
           T == {k \in RootLen .. Len(p) : Reached(at[k], k)}
<1>4. RootLen \in T
  BY <1>1, <1>2, <1>3, RootStep
<1>5. ASSUME NEW k \in RootLen + 1 .. Len(p), k - 1 \in T
      PROVE  k \in T
  <2> DEFINE i == at[k - 1]
  <2>1. /\ Reached(i, k - 1) /\ k \in RootLen .. Len(p)
        /\ at[k] = IF i # NoEntry /\ EntryIsSplit(es, i) THEN Child(es, i, p[k]) ELSE NoEntry
    BY <1>1, <1>3, <1>5
  <2> HIDE DEF i
  <2>2. CASE i # NoEntry /\ EntryIsSplit(es, i)
    <3>1. /\ i \in DOMAIN es /\ IsPrefix(es[i].prefix, p) /\ Len(es[i].prefix) = k - 1
          /\ at[k] = Child(es, i, p[k])
      BY <2>1, <2>2
    <3>2. k \in Nat /\ k = Len(es[i].prefix) + 1 /\ k =< Len(p)
      BY <1>1, <3>1
    <3>3. Reached(at[k], k)
      BY <2>2, <3>1, <3>2, ChildStep
    <3> QED BY <2>1, <3>3
  <2>3. CASE ~(i # NoEntry /\ EntryIsSplit(es, i))
    BY <2>1, <2>3
  <2> QED BY <2>2, <2>3
<1>6. RootLen .. Len(p) \subseteq T
  <2> DEFINE n == Len(p)
  <2>1. RootLen \in Int /\ n \in Int
    BY <1>1
  <2>2. \A k \in RootLen + 1 .. n : k - 1 \in T => k \in T
    BY <1>5
  <2> HIDE DEF T, n
  <2>3. RootLen .. n \subseteq T
    BY <1>4, <2>1, <2>2, IntervalInduction
  <2> QED BY <2>3 DEF n
<1>7. Reached(at[Len(p)], Len(p))
  BY <1>1, <1>2, <1>6
<1> DEFINE e == at[Len(p)]
<1> HIDE DEF e
<1>8. e \in DOMAIN es /\ IsPrefix(es[e].prefix, p) /\ Len(es[e].prefix) = Len(p)
  BY <1>3, <1>7 DEF e
<1>9. es[e].prefix \in Prefixes
  BY <1>8, EntryTyped DEF RingInv, WellTyped
<1>10. es[e].prefix = p
  BY <1>8, <1>9, SamePrefix
<1> QED BY <1>3, <1>8, <1>10 DEF e

\* It finds every entry by the entry's own prefix.
LEMMA FindReaches ==
    ASSUME NEW es, RingInv(es), NEW i \in DOMAIN es
    PROVE  FindEntry(es, es[i].prefix) = i
<1> DEFINE p == es[i].prefix
<1>1. p \in Prefixes /\ Len(p) \in Nat /\ RootLen \in Nat
  BY EntryTyped, RingShape DEF RingInv, WellTyped
<1>2. RootLen =< Len(p)
  BY <1>1 DEF RingInv, Rooted
<1>3. PICK at :
        /\ at[RootLen] = RootEntry(p)
        /\ \A k \in RootLen + 1 .. Len(p) :
            at[k] = IF at[k - 1] # NoEntry /\ EntryIsSplit(es, at[k - 1])
                    THEN Child(es, at[k - 1], p[k])
                    ELSE NoEntry
        /\ FindEntry(es, p) = at[Len(p)]
  BY <1>1, <1>2, FindWalk
<1> DEFINE Reached(j, k) ==
                /\ j \in DOMAIN es
                /\ IsPrefix(es[j].prefix, p)
                /\ Len(es[j].prefix) = k
           T == {k \in RootLen .. Len(p) : Reached(at[k], k)}
<1>4. RootLen \in T
  BY <1>1, <1>2, <1>3, RootStep
<1>5. ASSUME NEW k \in RootLen + 1 .. Len(p), k - 1 \in T
      PROVE  k \in T
  <2> DEFINE j == at[k - 1]
  <2>1. /\ Reached(j, k - 1) /\ k \in RootLen .. Len(p)
        /\ at[k] = IF j # NoEntry /\ EntryIsSplit(es, j) THEN Child(es, j, p[k]) ELSE NoEntry
    BY <1>1, <1>3, <1>5
  <2> HIDE DEF j
  <2>2. j # i
    BY <1>1, <2>1
  <2>3. EntryIsSplit(es, j)
    BY <2>1, <2>2 DEF RingInv, AncestorsSplit
  <2>4. j # NoEntry
    <3>1. DOMAIN es = 1 .. Len(es) /\ Len(es) \in Nat
      BY LenProperties DEF RingInv, WellTyped
    <3> QED BY <2>1, <3>1 DEF NoEntry
  <2>5. k \in Nat /\ k = Len(es[j].prefix) + 1 /\ k =< Len(p)
    BY <1>1, <2>1
  <2>6. at[k] = Child(es, j, p[k])
    BY <2>1, <2>3, <2>4
  <2>7. Reached(at[k], k)
    BY <1>1, <2>1, <2>3, <2>5, <2>6, ChildStep
  <2> QED BY <2>1, <2>7
<1>6. RootLen .. Len(p) \subseteq T
  <2> DEFINE n == Len(p)
  <2>1. RootLen \in Int /\ n \in Int
    BY <1>1
  <2>2. \A k \in RootLen + 1 .. n : k - 1 \in T => k \in T
    BY <1>5
  <2> HIDE DEF T, n
  <2>3. RootLen .. n \subseteq T
    BY <1>4, <2>1, <2>2, IntervalInduction
  <2> QED BY <2>3 DEF n
<1>7. Reached(at[Len(p)], Len(p))
  BY <1>1, <1>2, <1>6
<1> DEFINE e == at[Len(p)]
<1> HIDE DEF e
<1>8. e \in DOMAIN es /\ IsPrefix(es[e].prefix, p) /\ Len(es[e].prefix) = Len(p)
  BY <1>7 DEF e
<1>9. es[e].prefix = p
  BY <1>1, <1>8, EntryTyped, SamePrefix DEF RingInv, WellTyped
<1>10. e = i
  BY <1>8, <1>9 DEF RingInv, PrefixesUnique
<1> QED BY <1>3, <1>10 DEF e

(***************************************************************************)
(* What a change of the array does to the routes                           *)
(***************************************************************************)

\* Where a hash is routed: the leaf over it.
LeafOf(es, hash) == es[RouteKey(es, hash)]

\* Every prefix that has an entry still has one, and a split one stays split.
Grown(es, new) ==
    \A i \in DOMAIN es :
        /\ i \in DOMAIN new /\ new[i].prefix = es[i].prefix
        /\ EntryIsSplit(es, i) => EntryIsSplit(new, i)

SameRoutes(es, new) ==
    \A hash \in KeyHashes :
        /\ LeafOf(new, hash).prefix = LeafOf(es, hash).prefix
        /\ LeafOf(new, hash).owner_ref = LeafOf(es, hash).owner_ref

\* The routes after the split of the leaf p: its hashes go one digit further.
SplitRoutes(es, new, p) ==
    \A hash \in KeyHashes :
        IF LeafOf(es, hash).prefix = p
        THEN LET d == hash[Len(p) + 1] IN
             /\ d \in Digits
             /\ LeafOf(new, hash).prefix = Append(p, d)
             /\ LeafOf(new, hash).owner_ref = (LeafOf(es, hash).owner_ref + d) % NodeCount
        ELSE /\ LeafOf(new, hash).prefix = LeafOf(es, hash).prefix
             /\ LeafOf(new, hash).owner_ref = LeafOf(es, hash).owner_ref

\* There is one leaf over a hash, and the walk ends there.
LEMMA LeafOver ==
    ASSUME NEW es, RingInv(es), NEW hash \in KeyHashes,
           NEW j \in Leaves(es), IsPrefix(es[j].prefix, hash)
    PROVE  RouteKey(es, hash) = j
<1> DEFINE i == RouteKey(es, hash)
<1>1. i \in Leaves(es) /\ IsPrefix(es[i].prefix, hash)
  BY RouteWalk
<1> HIDE DEF i
<1>2. i \in DOMAIN es /\ j \in DOMAIN es /\ ~EntryIsSplit(es, i) /\ ~EntryIsSplit(es, j)
  BY <1>1 DEF Leaves
<1>3. es[i].prefix \in Prefixes /\ es[j].prefix \in Prefixes
  BY <1>2, EntryTyped DEF RingInv, WellTyped
<1>4. IsPrefix(es[i].prefix, es[j].prefix) \/ IsPrefix(es[j].prefix, es[i].prefix)
  BY <1>1, <1>3, PrefixesOfOneHash
<1>5. i = j
  BY <1>2, <1>4 DEF RingInv, AncestorsSplit
<1> QED BY <1>5 DEF i

\* A route is a prefix and one of the nodes.
LEMMA RouteTyped ==
    ASSUME NEW es, RingInv(es), NEW hash \in KeyHashes
    PROVE  /\ LeafOf(es, hash).prefix \in Prefixes
           /\ LeafOf(es, hash).owner_ref \in Nodes
           /\ IsPrefix(LeafOf(es, hash).prefix, hash)
<1>1. RouteKey(es, hash) \in Leaves(es) /\ IsPrefix(es[RouteKey(es, hash)].prefix, hash)
  BY RouteWalk
<1>2. RouteKey(es, hash) \in DOMAIN es
  BY <1>1 DEF Leaves
<1>3. es[RouteKey(es, hash)].prefix \in Prefixes
  BY <1>2, EntryTyped DEF RingInv, WellTyped
<1>4. es[RouteKey(es, hash)].owner_ref \in Nodes
  BY <1>1 DEF RingInv, WellTyped
<1> QED BY <1>1, <1>3, <1>4 DEF LeafOf

\* Counters and summaries do not matter to the routes.
LEMMA SameShapeRoutes ==
    ASSUME NEW es, RingInv(es), NEW new, RingInv(new), SameShape(es, new)
    PROVE  SameRoutes(es, new) /\ Grown(es, new)
<1>1. ASSUME NEW hash \in KeyHashes
      PROVE  /\ LeafOf(new, hash).prefix = LeafOf(es, hash).prefix
             /\ LeafOf(new, hash).owner_ref = LeafOf(es, hash).owner_ref
  <2> DEFINE j == RouteKey(es, hash)
  <2>1. j \in Leaves(es) /\ IsPrefix(es[j].prefix, hash)
    BY RouteWalk
  <2> HIDE DEF j
  <2>2. j \in DOMAIN es /\ j \in Leaves(new) /\ IsPrefix(new[j].prefix, hash)
    BY <2>1 DEF SameShape, Leaves, EntryIsSplit
  <2>3. RouteKey(new, hash) = j
    BY <2>2, LeafOver
  <2> QED BY <2>2, <2>3 DEF LeafOf, SameShape, j
<1>2. Grown(es, new)
  BY DEF Grown, SameShape, EntryIsSplit
<1> QED BY <1>1, <1>2 DEF SameRoutes

\* The split of a leaf moves its own hashes to its children, and no other hash.
LEMMA SplitMovesRoutes ==
    ASSUME NEW es, RingInv(es), NEW i \in DOMAIN es, CanSplit(es, i),
           NEW new, IsSplit(es, i, new), RingInv(new)
    PROVE  SplitRoutes(es, new, es[i].prefix) /\ Grown(es, new)
<1> DEFINE n == Len(es)
           p == es[i].prefix
<1>1. /\ n \in Nat /\ DOMAIN es = 1 .. n /\ DOMAIN new = 1 .. n + Fanout
      /\ \A j \in 1 .. n : new[j].prefix = es[j].prefix
      /\ \A j \in 1 .. n : j # i => new[j] = es[j]
      /\ EntryIsSplit(new, i)
  <2>1. new[i].split_child_start = n + 1 /\ n \in Nat
    BY DEF IsSplit
  <2>2. EntryIsSplit(new, i)
    BY <2>1 DEF EntryIsSplit, NoEntry
  <2> QED BY <2>2 DEF IsSplit
<1>2. 1 .. n \subseteq 1 .. n + Fanout
  BY <1>1, RingShape
<1>3. Grown(es, new)
  BY <1>1, <1>2 DEF Grown, EntryIsSplit
<1>4. p \in Prefixes /\ Len(p) \in Nat /\ Len(p) < MaxPrefixLen
  BY EntryTyped DEF RingInv, WellTyped, CanSplit
<1>5. ASSUME NEW hash \in KeyHashes, LeafOf(es, hash).prefix # p
      PROVE  /\ LeafOf(new, hash).prefix = LeafOf(es, hash).prefix
             /\ LeafOf(new, hash).owner_ref = LeafOf(es, hash).owner_ref
  <2> DEFINE j == RouteKey(es, hash)
  <2>1. j \in Leaves(es) /\ IsPrefix(es[j].prefix, hash) /\ es[j].prefix # p
    BY <1>5, RouteWalk DEF LeafOf
  <2> HIDE DEF j
  <2>2. j \in 1 .. n /\ j # i /\ j \in DOMAIN new /\ new[j] = es[j] /\ ~EntryIsSplit(es, j)
    BY <1>1, <1>2, <2>1 DEF Leaves
  <2>3. j \in Leaves(new) /\ IsPrefix(new[j].prefix, hash)
    BY <2>1, <2>2 DEF Leaves, EntryIsSplit
  <2>4. RouteKey(new, hash) = j
    BY <2>3, LeafOver
  <2> QED BY <2>2, <2>4 DEF LeafOf, j
<1>6. ASSUME NEW hash \in KeyHashes, LeafOf(es, hash).prefix = p
      PROVE  LET d == hash[Len(p) + 1] IN
             /\ d \in Digits
             /\ LeafOf(new, hash).prefix = Append(p, d)
             /\ LeafOf(new, hash).owner_ref = (LeafOf(es, hash).owner_ref + d) % NodeCount
  <2> DEFINE j == RouteKey(es, hash)
             d == hash[Len(p) + 1]
             c == d + 1
  <2>1. j \in Leaves(es) /\ IsPrefix(es[j].prefix, hash) /\ es[j].prefix = p
    BY <1>6, RouteWalk DEF LeafOf
  <2>2. j = i
    BY <2>1 DEF Leaves, RingInv, PrefixesUnique
  <2>3. d \in Digits
    BY <1>4, RingShape DEF KeyHashes
  <2>4. c \in 1 .. Fanout /\ c - 1 = d
    BY <2>3, RingShape DEF Digits
  <2>5. new[n + c] = Entry(Append(p, d), (es[i].owner_ref + d) % NodeCount)
    BY <2>4 DEF IsSplit
  <2>6. n + c \in DOMAIN new
    BY <1>1, <2>4, RingShape
  <2>7. /\ Len(Append(p, d)) = Len(p) + 1
        /\ \A k \in 1 .. Len(p) : Append(p, d)[k] = p[k]
        /\ Append(p, d)[Len(p) + 1] = d
    BY <1>4, <2>3, ChildOf
  <2>8. IsPrefix(Append(p, d), hash)
    <3>1. IsPrefix(p, hash) /\ Len(hash) = MaxPrefixLen
      BY <2>1, HashIsPrefix
    <3>2. Len(p) + 1 =< MaxPrefixLen
      BY <1>4, RingShape
    <3> QED BY <1>4, <2>7, <3>1, <3>2 DEF IsPrefix
  <2>9. /\ new[n + c].prefix = Append(p, d)
        /\ new[n + c].owner_ref = (es[i].owner_ref + d) % NodeCount
        /\ new[n + c].split_child_start = NoEntry
    BY <2>5 DEF Entry
  <2> HIDE DEF c
  <2>10. n + c \in Leaves(new) /\ IsPrefix(new[n + c].prefix, hash)
    BY <2>6, <2>8, <2>9 DEF Leaves, EntryIsSplit
  <2>11. RouteKey(new, hash) = n + c
    BY <2>10, LeafOver
  <2> QED BY <2>2, <2>3, <2>9, <2>11 DEF LeafOf, j
<1> QED BY <1>3, <1>5, <1>6 DEF SplitRoutes

\* record_insert: the counter, and the split of a leaf when the threshold is passed.
LEMMA InsertedRing ==
    ASSUME NEW es, RingInv(es), NEW i \in DOMAIN es, NEW summary \in Summaries \cup {EmptySummary}
    PROVE  LET new == Inserted(es, i, summary) IN
           /\ RingInv(new) /\ Grown(es, new)
           /\ ~SplitsOnInsert(es, i) => SameRoutes(es, new)
           /\ SplitsOnInsert(es, i) =>
                /\ i \in Leaves(es) /\ Len(es[i].prefix) < MaxPrefixLen
                /\ EntryIsSplit(new, i)
                /\ SplitRoutes(es, new, es[i].prefix)
<1> DEFINE counted == Counted(es, i, summary)
           new == Inserted(es, i, summary)
<1>1. Touched(es, i, counted, summary)
  BY CountedTouches DEF RingInv, WellTyped
<1> HIDE DEF counted
<1>2. RingInv(counted) /\ i \in DOMAIN counted /\ SameShape(es, counted)
  BY <1>1, SameShapeInv DEF Touched, SameShape
<1>3. SameRoutes(es, counted) /\ Grown(es, counted)
  BY <1>2, SameShapeRoutes
<1>4. CASE ~SplitsOnInsert(es, i)
  <2>1. new = counted
    BY <1>4 DEF Inserted, counted
  <2> QED BY <1>2, <1>3, <1>4, <2>1
<1>5. CASE SplitsOnInsert(es, i)
  <2>1. new = SplitEntry(counted, i)
    BY <1>5 DEF Inserted, counted
  <2> HIDE DEF new
  <2>2. CanSplit(counted, i) /\ counted[i].prefix = es[i].prefix
        /\ i \in Leaves(es) /\ Len(es[i].prefix) < MaxPrefixLen
    BY <1>2, <1>5 DEF SplitsOnInsert, CanSplit, EntryIsSplit, SameShape, Leaves
  <2>3. counted \in Seq(EntryType) /\ counted[i].owner_ref \in Nodes
    BY <1>2, <2>2 DEF RingInv, WellTyped, Leaves, CanSplit
  <2>4. IsSplit(counted, i, new)
    BY <1>2, <2>1, <2>2, <2>3, SplitShape
  <2>5. RingInv(new)
    BY <1>2, <2>2, <2>4, SplitKeepsInv
  <2>6. SplitRoutes(counted, new, es[i].prefix) /\ Grown(counted, new)
    BY <1>2, <2>2, <2>4, <2>5, SplitMovesRoutes
  <2>7. Grown(es, new)
    BY <1>3, <2>6 DEF Grown
  <2>8. EntryIsSplit(new, i)
    <3>1. new[i].split_child_start = Len(counted) + 1 /\ Len(counted) \in Nat
      BY <2>4 DEF IsSplit
    <3> QED BY <3>1 DEF EntryIsSplit, NoEntry
  <2>9. SplitRoutes(es, new, es[i].prefix)
    BY <1>3, <2>6 DEF SplitRoutes, SameRoutes
  <2> QED BY <1>5, <2>2, <2>5, <2>7, <2>8, <2>9 DEF new
<1> QED BY <1>4, <1>5

\* record_delete: the counter only.
LEMMA DeletedRing ==
    ASSUME NEW es, RingInv(es), NEW i \in DOMAIN es, NEW summary \in Summaries \cup {EmptySummary}
    PROVE  LET new == Deleted(es, i, summary) IN
           RingInv(new) /\ Grown(es, new) /\ SameRoutes(es, new)
<1>1. Touched(es, i, Deleted(es, i, summary), summary)
  BY DeletedTouches DEF RingInv, WellTyped
<1> QED BY <1>1, SameShapeInv, SameShapeRoutes DEF Touched
=============================================================================
