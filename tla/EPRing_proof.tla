---------------------------- MODULE EPRing_proof ----------------------------
(***************************************************************************)
(* Theorems about EPRing: its ring keeps the invariant of PrefixRing_proof *)
(* what was reported of it fits, and its leaves are a PrefixDirectory.     *)
(***************************************************************************)
EXTENDS EPRing, PrefixRing_proof

\* What is reported belongs to entries of the ring and is their summary.
RegistryFits(es, reg) ==
    /\ DOMAIN reg \subseteq {es[j].prefix : j \in DOMAIN es}
    /\ \A p \in DOMAIN reg : reg[p] \in Summaries
    /\ \A j \in DOMAIN es :
        es[j].root_summary = IF es[j].prefix \in DOMAIN reg THEN reg[es[j].prefix]
                             ELSE EmptySummary

IInv == RingInv(entries) /\ RegistryFits(entries, registry)

(***************************************************************************)
(* The tiling follows from the inductive invariant                         *)
(***************************************************************************)

\* A ring with the invariant tiles the key space.
LEMMA TilingOf ==
    ASSUME IInv
    PROVE  LeavesTileKeySpace
<1> SUFFICES ASSUME NEW hash \in KeyHashes
             PROVE  \E i \in Leaves(entries) :
                        /\ IsPrefix(entries[i].prefix, hash)
                        /\ \A j \in Leaves(entries) \ {i} : ~IsPrefix(entries[j].prefix, hash)
  BY DEF LeavesTileKeySpace
<1>1. PICK i \in Leaves(entries) : IsPrefix(entries[i].prefix, hash)
  BY DEF IInv, RingInv, Covered
<1>2. ASSUME NEW j \in Leaves(entries) \ {i}, IsPrefix(entries[j].prefix, hash)
      PROVE  FALSE
  <2>1. i \in DOMAIN entries /\ j \in DOMAIN entries
        /\ ~EntryIsSplit(entries, i) /\ ~EntryIsSplit(entries, j)
    BY DEF Leaves
  <2>2. entries[i].prefix \in Prefixes /\ entries[j].prefix \in Prefixes
    BY <2>1, EntryTyped DEF IInv, RingInv, WellTyped
  <2>3. IsPrefix(entries[i].prefix, entries[j].prefix)
        \/ IsPrefix(entries[j].prefix, entries[i].prefix)
    BY <1>1, <1>2, <2>2, PrefixesOfOneHash
  <2> QED BY <2>1, <2>3 DEF IInv, RingInv, AncestorsSplit
<1> QED BY <1>1, <1>2

(***************************************************************************)
(* The registry                                                            *)
(***************************************************************************)

\* A reported change keeps the registry in step with the entry it is about.
LEMMA ReportKeepsFit ==
    ASSUME RingInv(entries), RegistryFits(entries, registry),
           NEW i \in DOMAIN entries, NEW summary \in Summaries, NEW new,
           Touched(entries, i, new, summary), Report(i, summary)
    PROVE  RegistryFits(new, registry')
<1> DEFINE p == entries[i].prefix
<1>1. /\ DOMAIN new = DOMAIN entries
      /\ \A j \in DOMAIN entries : new[j].prefix = entries[j].prefix
      /\ new[i].root_summary = summary
      /\ \A j \in DOMAIN entries \ {i} : new[j] = entries[j]
  BY DEF Touched, SameShape
<1>2. CASE entries[i].root_summary = summary
  <2>1. registry' = registry
    BY <1>2 DEF Report
  <2>2. \A j \in DOMAIN entries : new[j].root_summary = entries[j].root_summary
    BY <1>1, <1>2
  <2> QED BY <1>1, <2>1, <2>2 DEF RegistryFits
<1>3. CASE entries[i].root_summary # summary
  <2>1. registry' = [q \in DOMAIN registry \cup {p} |-> IF q = p THEN summary ELSE registry[q]]
    BY <1>3 DEF Report
  <2>2. DOMAIN registry' \subseteq {new[j].prefix : j \in DOMAIN new}
    BY <1>1, <2>1 DEF RegistryFits
  <2>3. \A q \in DOMAIN registry' : registry'[q] \in Summaries
    BY <2>1 DEF RegistryFits
  <2>4. ASSUME NEW j \in DOMAIN new
        PROVE  new[j].root_summary =
                   IF new[j].prefix \in DOMAIN registry' THEN registry'[new[j].prefix]
                   ELSE EmptySummary
    <3>1. CASE j = i
      BY <1>1, <2>1, <3>1
    <3>2. CASE j # i
      <4>1. new[j] = entries[j] /\ j \in DOMAIN entries /\ entries[j].prefix # p
        BY <1>1, <3>2 DEF RingInv, PrefixesUnique
      <4> QED BY <2>1, <4>1 DEF RegistryFits
    <3> QED BY <3>1, <3>2
  <2> QED BY <2>2, <2>3, <2>4 DEF RegistryFits
<1> QED BY <1>2, <1>3

\* A split reports nothing: its children are new and empty.
LEMMA SplitKeepsFit ==
    ASSUME NEW es, RingInv(es), NEW i \in DOMAIN es, CanSplit(es, i), NEW new,
           IsSplit(es, i, new), NEW reg, RegistryFits(es, reg)
    PROVE  RegistryFits(new, reg)
<1> DEFINE n == Len(es)
           p == es[i].prefix
<1>1. /\ n \in Nat /\ DOMAIN es = 1 .. n /\ DOMAIN new = 1 .. n + Fanout
      /\ \A j \in 1 .. n : new[j].prefix = es[j].prefix
      /\ \A j \in 1 .. n : new[j].root_summary = es[j].root_summary
  BY DEF IsSplit
<1>2. 1 .. n \subseteq 1 .. n + Fanout
  BY <1>1, RingShape
<1>3. DOMAIN reg \subseteq {new[j].prefix : j \in DOMAIN new}
  <2> SUFFICES ASSUME NEW q \in DOMAIN reg
               PROVE  \E j \in DOMAIN new : new[j].prefix = q
    OBVIOUS
  <2>1. PICK j \in DOMAIN es : es[j].prefix = q
    BY DEF RegistryFits
  <2> QED BY <1>1, <1>2, <2>1
<1>4. ASSUME NEW c \in 1 .. Fanout
      PROVE  new[n + c].root_summary = EmptySummary /\ new[n + c].prefix \notin DOMAIN reg
  <2>1. new[n + c] = Entry(Append(p, c - 1), (es[i].owner_ref + (c - 1)) % NodeCount)
        /\ c - 1 \in Digits
    BY DEF IsSplit
  <2>2. new[n + c].root_summary = EmptySummary /\ new[n + c].prefix = Append(p, c - 1)
    BY <2>1 DEF Entry
  <2>3. ASSUME NEW j \in DOMAIN es, es[j].prefix = Append(p, c - 1)
        PROVE  FALSE
    <3>1. ~IsPrefix(Append(p, c - 1), es[j].prefix)
      BY <2>1, ChildrenAreNew
    <3>2. Len(es[j].prefix) \in Nat
      BY EntryTyped DEF RingInv, WellTyped
    <3> QED BY <2>3, <3>1, <3>2 DEF IsPrefix
  <2> QED BY <2>2, <2>3 DEF RegistryFits
<1>5. ASSUME NEW j \in DOMAIN new
      PROVE  new[j].root_summary =
                 IF new[j].prefix \in DOMAIN reg THEN reg[new[j].prefix] ELSE EmptySummary
  <2>1. CASE j \in 1 .. n
    BY <1>1, <2>1 DEF RegistryFits
  <2>2. CASE j - n \in 1 .. Fanout /\ n + (j - n) = j
    BY <1>4, <2>2
  <2>3. j \in 1 .. n \/ (j - n \in 1 .. Fanout /\ n + (j - n) = j)
    BY <1>1, RingShape
  <2> QED BY <2>1, <2>2, <2>3
<1> QED BY <1>3, <1>5 DEF RegistryFits

(***************************************************************************)
(* The theorems                                                            *)
(***************************************************************************)

\* EPRing::new satisfies the invariant.
LEMMA InitInv == Init => IInv
<1> SUFFICES ASSUME Init PROVE IInv
  OBVIOUS
<1>1. RingInv(entries)
  BY NewRingInv DEF Init
<1>2. \A j \in DOMAIN NewRing : NewRing[j].root_summary = EmptySummary
  BY NewRingShape DEF Entry
<1>3. RegistryFits(entries, registry)
  BY <1>2 DEF Init, RegistryFits
<1> QED BY <1>1, <1>3 DEF IInv

\* An entry that may split is a leaf: its owner is a node.
LEMMA LeafOwned ==
    ASSUME NEW es, RingInv(es), NEW i \in DOMAIN es, CanSplit(es, i)
    PROVE  es \in Seq(EntryType) /\ es[i].owner_ref \in Nodes
  BY DEF RingInv, WellTyped, Leaves, CanSplit

\* Every call of the ring keeps the invariant.
LEMMA NextInv == IInv /\ [Next]_vars => IInv'
<1> SUFFICES ASSUME IInv, [Next]_vars PROVE IInv'
  OBVIOUS
<1> USE DEF IInv
<1>0. entries \in Seq(EntryType)
  BY DEF RingInv, WellTyped
<1>1. ASSUME NEW p \in Prefixes, NEW summary \in Summaries, RecordInsert(p, summary)
      PROVE  IInv'
  <2>1. PICK i \in DOMAIN entries :
            entries' = Inserted(entries, i, summary) /\ Report(i, summary)
    BY <1>1 DEF RecordInsert
  <2> DEFINE counted == Counted(entries, i, summary)
  <2>2. Touched(entries, i, counted, summary)
    BY <1>0, CountedTouches
  <2> HIDE DEF counted
  <2>3. RingInv(counted) /\ i \in DOMAIN counted
    BY <2>2, SameShapeInv DEF Touched, SameShape
  <2>4. RegistryFits(counted, registry')
    BY <2>1, <2>2, ReportKeepsFit
  <2>5. CASE ~SplitsOnInsert(entries, i)
    <3>1. entries' = counted
      BY <2>1, <2>5 DEF Inserted, counted
    <3> QED BY <2>3, <2>4, <3>1
  <2>6. CASE SplitsOnInsert(entries, i)
    <3>1. entries' = SplitEntry(counted, i)
      BY <2>1, <2>6 DEF Inserted, counted
    <3>2. CanSplit(counted, i)
      BY <2>2, <2>6 DEF SplitsOnInsert, CanSplit, EntryIsSplit, Touched, SameShape
    <3>3. IsSplit(counted, i, entries')
      BY <2>3, <3>1, <3>2, LeafOwned, SplitShape
    <3> QED BY <2>3, <2>4, <3>2, <3>3, SplitKeepsInv, SplitKeepsFit
  <2> QED BY <2>5, <2>6
<1>2. ASSUME NEW p \in Prefixes, NEW summary \in Summaries,
             RecordInsertWithoutSplit(p, summary)
      PROVE  IInv'
  <2>1. PICK i \in DOMAIN entries :
            entries' = Counted(entries, i, summary) /\ Report(i, summary)
    BY <1>2 DEF RecordInsertWithoutSplit
  <2>2. Touched(entries, i, entries', summary)
    BY <1>0, <2>1, CountedTouches
  <2> QED BY <2>1, <2>2, SameShapeInv, ReportKeepsFit DEF Touched
<1>3. ASSUME NEW p \in Prefixes, NEW summary \in Summaries, RecordDelete(p, summary)
      PROVE  IInv'
  <2>1. PICK i \in DOMAIN entries :
            entries' = Deleted(entries, i, summary) /\ Report(i, summary)
    BY <1>3 DEF RecordDelete
  <2>2. Touched(entries, i, entries', summary)
    BY <1>0, <2>1, DeletedTouches
  <2> QED BY <2>1, <2>2, SameShapeInv, ReportKeepsFit DEF Touched
<1>4. ASSUME NEW p \in Prefixes, NEW summary \in Summaries, UpdateRootSummary(p, summary)
      PROVE  IInv'
  <2>1. PICK i \in DOMAIN entries :
            entries' = Summarised(entries, i, summary) /\ Report(i, summary)
    BY <1>4 DEF UpdateRootSummary
  <2>2. Touched(entries, i, entries', summary)
    BY <1>0, <2>1, SummarisedTouches
  <2> QED BY <2>1, <2>2, SameShapeInv, ReportKeepsFit DEF Touched
<1>5. ASSUME NEW p \in Prefixes, NEW incoming \in 1 .. MaxIncoming,
             MaybePresplitEmptyPrefix(p, incoming)
      PROVE  IInv'
  <2>1. PICK i \in DOMAIN entries :
            CanSplit(entries, i) /\ entries' = SplitEntry(entries, i) /\ registry' = registry
    BY <1>5 DEF MaybePresplitEmptyPrefix, Presplits
  <2>2. IsSplit(entries, i, entries')
    BY <2>1, LeafOwned, SplitShape
  <2> QED BY <2>1, <2>2, SplitKeepsInv, SplitKeepsFit
<1>6. CASE Reset
  <2>1. RingInv(entries')
    BY <1>6, NewRingInv DEF Reset
  <2>2. \A j \in DOMAIN NewRing : NewRing[j].root_summary = EmptySummary
    BY NewRingShape DEF Entry
  <2>3. RegistryFits(entries', registry')
    BY <1>6, <2>2 DEF Reset, RegistryFits
  <2> QED BY <2>1, <2>3
<1>7. CASE UNCHANGED vars
  BY <1>7 DEF vars, RingInv, WellTyped, AncestorsSplit, Covered, PrefixesUnique,
              RegistryFits, Leaves, EntryIsSplit
<1> QED BY <1>1, <1>2, <1>3, <1>4, <1>5, <1>6, <1>7 DEF Next

\* The ring keeps its inductive invariant, whatever calls are made in whatever order.
THEOREM Invariance == Spec => []IInv
<1> QED BY InitInv, NextInv, PTL DEF Spec

\* The invariant contains the type invariant.
LEMMA TypeOKOf == IInv => TypeOK
<1> SUFFICES ASSUME IInv PROVE TypeOK
  OBVIOUS
<1>1. entries \in Seq(EntryType) /\ \A i \in Leaves(entries) : entries[i].owner_ref \in Nodes
  BY DEF IInv, RingInv, WellTyped
<1>2. \A i \in DOMAIN entries : entries[i].prefix \in Prefixes
  BY <1>1, EntryTyped
<1>3. DOMAIN registry \subseteq Prefixes /\ \A p \in DOMAIN registry : registry[p] \in Summaries
  BY <1>2 DEF IInv, RegistryFits
<1> QED BY <1>1, <1>3 DEF TypeOK

\* The type invariant: in particular every unsplit entry is owned by a storager the
\* ring has (the wrap-round of split_entry's node index).
THEOREM TypeCorrect == Spec => []TypeOK
<1> QED BY Invariance, TypeOKOf, PTL

\* Every key hash lies under exactly one unsplit entry, for every number of nodes
\* and every order of inserts, presplits and resets.
THEOREM TilingInvariant == Spec => []LeavesTileKeySpace
<1>1. IInv => LeavesTileKeySpace
  BY TilingOf
<1> QED BY <1>1, Invariance, PTL

\* The summaries reported so far rebuild the ring's: the contract, told only of the
\* changes, misses nothing.
THEOREM RegistryInvariant == Spec => []RegistryMatchesRing
<1>1. IInv => RegistryMatchesRing
  BY DEF IInv, RegistryFits, RegistryMatchesRing
<1> QED BY <1>1, Invariance, PTL

\* Both walks agree with the array: an entry is found by its own prefix, and a hash is
\* routed to the leaf that covers it, whatever splits came between.
THEOREM LookupsInvariant == Spec => []LookupsAgree
<1>1. IInv => LookupsAgree
  BY RouteWalk, FindReaches DEF IInv, LookupsAgree
<1> QED BY <1>1, Invariance, PTL

(***************************************************************************)
(* EPRing implements PrefixDirectory: a new ring is a fresh directory, a   *)
(* split of an entry is a split of its prefix, and every other call leaves *)
(* the directory alone.                                                    *)
(***************************************************************************)

\* LeafOwner as a function of the ring.
LeafPrefixes(es) == {es[i].prefix : i \in Leaves(es)}

OwnerOf(es) ==
    [p \in LeafPrefixes(es) |->
        es[CHOOSE i \in Leaves(es) : es[i].prefix = p].owner_ref]

\* The refinement mapping, as a function of the array before and after a step.
LEMMA LeafOwnerIs == LeafOwner = OwnerOf(entries) /\ LeafOwner' = OwnerOf(entries')
  BY DEF LeafOwner, OwnerOf, LeafPrefixes

\* A prefix has one leaf, so its owner is that leaf's.
LEMMA OwnerOfLeaf ==
    ASSUME NEW es, RingInv(es), NEW i \in Leaves(es)
    PROVE  es[i].prefix \in LeafPrefixes(es) /\ OwnerOf(es)[es[i].prefix] = es[i].owner_ref
<1> DEFINE j == CHOOSE k \in Leaves(es) : es[k].prefix = es[i].prefix
<1>1. j \in Leaves(es) /\ es[j].prefix = es[i].prefix
  OBVIOUS
<1>2. j = i
  BY <1>1 DEF RingInv, PrefixesUnique, Leaves
<1> QED BY <1>2 DEF OwnerOf, LeafPrefixes

\* Two rings with the same leaves, prefix and owner, are the same directory.
LEMMA SameOwners ==
    ASSUME NEW es, NEW new \in Seq(EntryType), RingInv(es), SameShape(es, new)
    PROVE  OwnerOf(new) = OwnerOf(es)
<1>1. Leaves(new) = Leaves(es)
  BY DEF Leaves, SameShape, EntryIsSplit
<1>2. \A i \in Leaves(es) : new[i].prefix = es[i].prefix /\ new[i].owner_ref = es[i].owner_ref
  BY DEF Leaves, SameShape
<1>3. LeafPrefixes(new) = LeafPrefixes(es)
  BY <1>1, <1>2 DEF LeafPrefixes
<1>4. RingInv(new)
  BY SameShapeInv
<1>5. ASSUME NEW p \in LeafPrefixes(es)
      PROVE  OwnerOf(new)[p] = OwnerOf(es)[p]
  <2>1. PICK i \in Leaves(es) : es[i].prefix = p
    BY DEF LeafPrefixes
  <2>2. OwnerOf(es)[p] = es[i].owner_ref
    BY <2>1, OwnerOfLeaf
  <2>3. OwnerOf(new)[p] = new[i].owner_ref
    BY <1>1, <1>2, <1>4, <2>1, OwnerOfLeaf
  <2> QED BY <1>2, <2>2, <2>3
<1> QED BY <1>3, <1>5 DEF OwnerOf

\* A new ring deals the root prefixes out to all nodes.
LEMMA NewRingFresh == Directory!Fresh(OwnerOf(NewRing))
<1> DEFINE o == OwnerOf(NewRing)
<1>1. Leaves(NewRing) = 1 .. RootCount /\ RingInv(NewRing)
  BY NewRingShape, NewRingInv DEF Leaves
<1>2. \A i \in 1 .. RootCount :
        /\ NewRing[i].prefix = FormatPrefix(i - 1)
        /\ NewRing[i].prefix \in RootPrefixes
        /\ NewRing[i].owner_ref = (i - 1) % NodeCount
        /\ NewRing[i].owner_ref \in Nodes
  BY NewRingShape DEF Entry
<1>3. LeafPrefixes(NewRing) = RootPrefixes
  <2>1. LeafPrefixes(NewRing) \subseteq RootPrefixes
    BY <1>1, <1>2 DEF LeafPrefixes
  <2>2. ASSUME NEW p \in RootPrefixes
        PROVE  p \in LeafPrefixes(NewRing)
    <3>1. PICK v \in 0 .. RootCount - 1 : FormatPrefix(v) = p
      BY RootNumerals
    <3>2. v + 1 \in 1 .. RootCount /\ (v + 1) - 1 = v
      BY RootNumerals
    <3> QED BY <1>1, <1>2, <3>1, <3>2 DEF LeafPrefixes
  <2> QED BY <2>1, <2>2
<1>4. \A i \in 1 .. RootCount : o[NewRing[i].prefix] = NewRing[i].owner_ref
  BY <1>1, OwnerOfLeaf
<1>5. o \in [RootPrefixes -> Nodes]
  <2>1. ASSUME NEW p \in RootPrefixes
        PROVE  o[p] \in Nodes
    <3>1. PICK i \in 1 .. RootCount : NewRing[i].prefix = p
      BY <1>1, <1>3 DEF LeafPrefixes
    <3> QED BY <1>2, <1>4, <3>1
  <2> QED BY <1>3, <2>1 DEF OwnerOf
<1>6. ASSUME NEW m \in Nodes
      PROVE  \E p \in DOMAIN o : o[p] = m
  <2>1. m + 1 \in 1 .. RootCount /\ (m + 1) - 1 = m
    BY MinimalRootLen, RingShape, RootNumerals DEF Nodes, RootCount
  <2>2. m % NodeCount = m
    BY RingShape DEF Nodes
  <2>3. NewRing[m + 1].owner_ref = m
    BY <1>2, <2>1, <2>2
  <2>4. o[NewRing[m + 1].prefix] = m /\ NewRing[m + 1].prefix \in DOMAIN o
    BY <1>2, <1>4, <1>5, <2>1, <2>3
  <2> QED BY <2>4
<1> QED BY <1>5, <1>6 DEF Directory!Fresh, Directory!Nodes, Directory!Digits,
                          RootPrefixes, Nodes, Digits

\* A split of an entry splits its prefix in the directory.
LEMMA SplitIsSplit ==
    ASSUME NEW es, RingInv(es), NEW i \in DOMAIN es, CanSplit(es, i), NEW new,
           IsSplit(es, i, new)
    PROVE  LET p == es[i].prefix
               children == {Append(p, d) : d \in Digits}
           IN  /\ p \in DOMAIN OwnerOf(es)
               /\ Len(p) < MaxPrefixLen
               /\ OwnerOf(new) =
                    [q \in (DOMAIN OwnerOf(es) \ {p}) \cup children |->
                        IF q \in children
                        THEN (OwnerOf(es)[p] + q[Len(q)]) % NodeCount
                        ELSE OwnerOf(es)[q]]
<1> DEFINE n == Len(es)
           p == es[i].prefix
           children == {Append(p, d) : d \in Digits}
<1>1. /\ n \in Nat /\ DOMAIN es = 1 .. n /\ DOMAIN new = 1 .. n + Fanout
      /\ \A j \in DOMAIN es \ {i} : new[j] = es[j]
      /\ EntryIsSplit(new, i)
  BY DEF IsSplit, EntryIsSplit, NoEntry
<1>2. ASSUME NEW c \in 1 .. Fanout
      PROVE  /\ n + c \in Leaves(new)
             /\ new[n + c].prefix = Append(p, c - 1) /\ c - 1 \in Digits
             /\ new[n + c].owner_ref = (es[i].owner_ref + (c - 1)) % NodeCount
  <2>1. n + c \in DOMAIN new
    BY <1>1, RingShape
  <2>2. /\ new[n + c] = Entry(Append(p, c - 1), (es[i].owner_ref + (c - 1)) % NodeCount)
        /\ c - 1 \in Digits
    BY DEF IsSplit
  <2>3. /\ new[n + c].prefix = Append(p, c - 1)
        /\ new[n + c].owner_ref = (es[i].owner_ref + (c - 1)) % NodeCount
        /\ new[n + c].split_child_start = NoEntry
    BY <2>2 DEF Entry
  <2> QED BY <2>1, <2>2, <2>3 DEF Leaves, EntryIsSplit
<1>3. RingInv(new)
  BY SplitKeepsInv
<1>4. i \in Leaves(es) /\ p \in DOMAIN OwnerOf(es) /\ OwnerOf(es)[p] = es[i].owner_ref
  <2>1. i \in Leaves(es)
    BY DEF Leaves, CanSplit
  <2> QED BY <2>1, OwnerOfLeaf DEF OwnerOf
<1>5. Len(p) < MaxPrefixLen /\ p \in Prefixes
  BY EntryTyped DEF CanSplit, RingInv, WellTyped
<1>6. \A j \in Leaves(es) \ {i} : j \in Leaves(new) /\ new[j] = es[j]
  BY <1>1, RingShape DEF Leaves, EntryIsSplit
<1>7. ASSUME NEW j \in Leaves(new)
      PROVE  j \in Leaves(es) \ {i} \/ (j - n \in 1 .. Fanout /\ n + (j - n) = j)
  BY <1>1, RingShape DEF Leaves, EntryIsSplit
<1>8. \A d \in Digits : d + 1 \in 1 .. Fanout /\ (d + 1) - 1 = d
  BY RingShape DEF Digits
<1>9. LeafPrefixes(new) = (LeafPrefixes(es) \ {p}) \cup children
  <2>1. ASSUME NEW q \in LeafPrefixes(new)
        PROVE  q \in (LeafPrefixes(es) \ {p}) \cup children
    <3>1. PICK j \in Leaves(new) : new[j].prefix = q
      BY DEF LeafPrefixes
    <3>2. CASE j \in Leaves(es) \ {i}
      <4>1. es[j].prefix = q /\ q \in LeafPrefixes(es)
        BY <1>6, <3>1, <3>2 DEF LeafPrefixes
      <4>2. q # p
        BY <3>2, <4>1 DEF RingInv, PrefixesUnique, Leaves
      <4> QED BY <4>1, <4>2
    <3>3. CASE j - n \in 1 .. Fanout /\ n + (j - n) = j
      BY <1>2, <3>1, <3>3
    <3> QED BY <1>7, <3>2, <3>3
  <2>2. ASSUME NEW q \in LeafPrefixes(es) \ {p}
        PROVE  q \in LeafPrefixes(new)
    BY <1>6 DEF LeafPrefixes
  <2>3. ASSUME NEW d \in Digits
        PROVE  Append(p, d) \in LeafPrefixes(new)
    BY <1>2, <1>8 DEF LeafPrefixes
  <2> QED BY <2>1, <2>2, <2>3
<1>10. ASSUME NEW d \in Digits
       PROVE  /\ OwnerOf(new)[Append(p, d)] = (es[i].owner_ref + d) % NodeCount
              /\ Append(p, d)[Len(Append(p, d))] = d
  <2>1. /\ n + (d + 1) \in Leaves(new) /\ new[n + (d + 1)].prefix = Append(p, d)
        /\ new[n + (d + 1)].owner_ref = (es[i].owner_ref + d) % NodeCount
    BY <1>2, <1>8
  <2>2. OwnerOf(new)[Append(p, d)] = (es[i].owner_ref + d) % NodeCount
    BY <1>3, <2>1, OwnerOfLeaf
  <2> QED BY <1>5, <2>2, ChildOf
<1>11. ASSUME NEW q \in LeafPrefixes(es) \ {p}
       PROVE  q \notin children /\ OwnerOf(new)[q] = OwnerOf(es)[q]
  <2>1. PICK j \in Leaves(es) : es[j].prefix = q
    BY DEF LeafPrefixes
  <2>2. j # i /\ j \in DOMAIN es
    BY <2>1 DEF Leaves
  <2>3. OwnerOf(new)[q] = OwnerOf(es)[q]
    BY <1>3, <1>6, <2>1, <2>2, OwnerOfLeaf
  <2>4. ASSUME NEW d \in Digits, q = Append(p, d)
        PROVE  FALSE
    <3>1. ~IsPrefix(Append(p, d), es[j].prefix)
      BY <2>2, ChildrenAreNew
    <3>2. Len(es[j].prefix) \in Nat
      BY <2>2, EntryTyped DEF RingInv, WellTyped
    <3> QED BY <2>1, <2>4, <3>1, <3>2 DEF IsPrefix
  <2> QED BY <2>3, <2>4
<1> DEFINE after == [q \in (LeafPrefixes(es) \ {p}) \cup children |->
                        IF q \in children
                        THEN (OwnerOf(es)[p] + q[Len(q)]) % NodeCount
                        ELSE OwnerOf(es)[q]]
<1>12. \A q \in (LeafPrefixes(es) \ {p}) \cup children : OwnerOf(new)[q] = after[q]
  <2>1. ASSUME NEW d \in Digits
        PROVE  OwnerOf(new)[Append(p, d)] = after[Append(p, d)]
    <3>1. after[Append(p, d)] =
              (OwnerOf(es)[p] + Append(p, d)[Len(Append(p, d))]) % NodeCount
      OBVIOUS
    <3> QED BY <1>4, <1>10, <3>1
  <2>2. ASSUME NEW q \in LeafPrefixes(es) \ {p}
        PROVE  OwnerOf(new)[q] = after[q]
    BY <1>11
  <2> HIDE DEF after
  <2> QED BY <2>1, <2>2
<1>13. OwnerOf(new) = after
  BY <1>9, <1>12 DEF OwnerOf
<1>14. DOMAIN OwnerOf(es) = LeafPrefixes(es)
  BY DEF OwnerOf
<1> QED BY <1>4, <1>5, <1>13, <1>14

\* The directory's own split, in the words of the lemma above.
LEMMA DirectorySplit ==
    ASSUME IInv, NEW es, RingInv(es), NEW i \in DOMAIN es, CanSplit(es, i),
           IsSplit(es, i, entries'), OwnerOf(es) = OwnerOf(entries)
    PROVE  \E p \in DOMAIN LeafOwner : Directory!Split(p)
<1> DEFINE p == es[i].prefix
           children == {Append(p, d) : d \in Digits}
<1>0. /\ p \in DOMAIN OwnerOf(es)
      /\ Len(p) < MaxPrefixLen
      /\ OwnerOf(entries') =
            [q \in (DOMAIN OwnerOf(es) \ {p}) \cup children |->
                IF q \in children
                THEN (OwnerOf(es)[p] + q[Len(q)]) % NodeCount
                ELSE OwnerOf(es)[q]]
  BY SplitIsSplit
<1>1. es[i].prefix \in DOMAIN LeafOwner
  BY <1>0, LeafOwnerIs
<1>2. Directory!Split(es[i].prefix)
  BY <1>0, LeafOwnerIs
     DEF Directory!Split, Directory!Children, Directory!Digits, Digits
<1> QED BY <1>1, <1>2

\* Every step of the ring is a step of the directory or leaves it alone.
LEMMA StepSimulates == IInv /\ [Next]_vars => [Directory!Next]_LeafOwner
<1> SUFFICES ASSUME IInv, [Next]_vars PROVE Directory!Next \/ UNCHANGED LeafOwner
  OBVIOUS
<1>0. entries \in Seq(EntryType) /\ RingInv(entries)
  BY DEF IInv, RingInv, WellTyped
<1>1. ASSUME NEW i \in DOMAIN entries, NEW summary \in Summaries,
             Touched(entries, i, entries', summary)
      PROVE  UNCHANGED LeafOwner
  BY <1>0, <1>1, SameOwners, LeafOwnerIs DEF Touched
<1>2. ASSUME NEW p \in Prefixes, NEW summary \in Summaries, RecordInsert(p, summary)
      PROVE  Directory!Next \/ UNCHANGED LeafOwner
  <2>1. PICK i \in DOMAIN entries : entries' = Inserted(entries, i, summary)
    BY <1>2 DEF RecordInsert
  <2> DEFINE counted == Counted(entries, i, summary)
  <2>2. Touched(entries, i, counted, summary)
    BY <1>0, CountedTouches
  <2> HIDE DEF counted
  <2>3. CASE ~SplitsOnInsert(entries, i)
    <3>1. entries' = counted
      BY <2>1, <2>3 DEF Inserted, counted
    <3> QED BY <1>1, <2>2, <3>1
  <2>4. CASE SplitsOnInsert(entries, i)
    <3>1. entries' = SplitEntry(counted, i)
      BY <2>1, <2>4 DEF Inserted, counted
    <3>2. RingInv(counted) /\ i \in DOMAIN counted /\ OwnerOf(counted) = OwnerOf(entries)
      BY <1>0, <2>2, SameShapeInv, SameOwners DEF Touched, SameShape
    <3>3. CanSplit(counted, i)
      BY <2>2, <2>4 DEF SplitsOnInsert, CanSplit, EntryIsSplit, Touched, SameShape
    <3>4. IsSplit(counted, i, entries')
      BY <3>1, <3>2, <3>3, LeafOwned, SplitShape
    <3>5. \E p_1 \in DOMAIN LeafOwner : Directory!Split(p_1)
      BY <3>2, <3>3, <3>4, DirectorySplit
    <3> QED BY <3>5 DEF Directory!Next
  <2> QED BY <2>3, <2>4
<1>3. ASSUME NEW p \in Prefixes, NEW summary \in Summaries,
             RecordInsertWithoutSplit(p, summary)
      PROVE  UNCHANGED LeafOwner
  BY <1>0, <1>1, <1>3, CountedTouches DEF RecordInsertWithoutSplit
<1>4. ASSUME NEW p \in Prefixes, NEW summary \in Summaries, RecordDelete(p, summary)
      PROVE  UNCHANGED LeafOwner
  BY <1>0, <1>1, <1>4, DeletedTouches DEF RecordDelete
<1>5. ASSUME NEW p \in Prefixes, NEW summary \in Summaries, UpdateRootSummary(p, summary)
      PROVE  UNCHANGED LeafOwner
  BY <1>0, <1>1, <1>5, SummarisedTouches DEF UpdateRootSummary
<1>6. ASSUME NEW p \in Prefixes, NEW incoming \in 1 .. MaxIncoming,
             MaybePresplitEmptyPrefix(p, incoming)
      PROVE  Directory!Next
  <2>1. PICK i \in DOMAIN entries :
            CanSplit(entries, i) /\ entries' = SplitEntry(entries, i)
    BY <1>6 DEF MaybePresplitEmptyPrefix, Presplits
  <2>2. IsSplit(entries, i, entries')
    BY <1>0, <2>1, LeafOwned, SplitShape
  <2>3. \E p_1 \in DOMAIN LeafOwner : Directory!Split(p_1)
    BY <1>0, <2>1, <2>2, DirectorySplit
  <2> QED BY <2>3 DEF Directory!Next
<1>7. CASE Reset
  <2>1. LeafOwner' = OwnerOf(NewRing)
    BY <1>7, LeafOwnerIs DEF Reset
  <2> QED BY <2>1, NewRingFresh DEF Directory!Next, Directory!Reset
<1>8. CASE UNCHANGED vars
  BY <1>8, LeafOwnerIs DEF vars
<1> QED BY <1>2, <1>3, <1>4, <1>5, <1>6, <1>7, <1>8 DEF Next

\* The ring implements the directory, for every ring: keys change storager only when
\* their own leaf splits, child 0 stays, and a reset starts over.
THEOREM Refinement == Spec => ImplementsDirectory
<1>1. Init => Directory!Init
  BY NewRingFresh, LeafOwnerIs DEF Init, Directory!Init
<1>2. IInv /\ [Next]_vars => [Directory!Next]_LeafOwner
  BY StepSimulates
<1> QED BY <1>1, <1>2, Invariance, PTL DEF Spec, ImplementsDirectory, Directory!Spec
=============================================================================
