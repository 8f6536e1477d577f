----------------------------- MODULE PrefixRing -----------------------------
(***************************************************************************)
(* The expandable prefix ring as a value: the array of entries of EPRing,  *)
(* the walk that finds an entry or routes a key hash, and what an insert,  *)
(* a delete and a split make of the array.  Every operator here is a       *)
(* function of a ring `es`; EPRing and SplitMigration keep such a ring in  *)
(* a variable.                                                             *)
(*                                                                         *)
(* A prefix is a tuple of digits 0 .. Fanout-1 (hex digits in the code,    *)
(* Fanout = 16).  Arrays start at 1, so index 0 stands for the code's None.*)
(***************************************************************************)
EXTENDS Integers, Sequences

CONSTANTS
    NodeCount,       \* number of storagers in the ring
    Fanout,          \* children of a split entry
    RootLen,         \* length of the root prefixes
    MaxPrefixLen,    \* prefixes are never longer than this
    SplitThreshold,  \* an entry with more inserts than this splits
    EmptySummary,    \* the root summary of an entry nothing was recorded for
    Summaries        \* the root summaries storagers answer with

ASSUME RingShape ==
    /\ NodeCount \in Nat \ {0}
    /\ Fanout \in Nat \ {0, 1}
    /\ MaxPrefixLen \in Nat
    /\ RootLen \in 0 .. MaxPrefixLen
    /\ SplitThreshold \in Nat

\* `new` picks the least root length that offers every node a root entry.
ASSUME MinimalRootLen ==
    /\ Fanout ^ RootLen >= NodeCount
    /\ \A l \in 0 .. RootLen - 1 : Fanout ^ l < NodeCount

NoEntry == 0
Nodes   == 0 .. NodeCount - 1
Digits  == 0 .. Fanout - 1

\* The prefixes callers hold: routes taken before or after a split, or "".
Prefixes == UNION {[1 .. l -> Digits] : l \in 0 .. MaxPrefixLen}

\* Key hashes and root prefixes are tuples of a fixed length.
KeyHashes    == [1 .. MaxPrefixLen -> Digits]
RootPrefixes == [1 .. RootLen -> Digits]

RootCount == Fanout ^ RootLen

(***************************************************************************)
(* The root entries                                                        *)
(***************************************************************************)

\* format_prefix: the value, in base Fanout, padded with zeros to RootLen digits.
FormatPrefix(value) ==
    [k \in 1 .. RootLen |-> (value \div Fanout ^ (RootLen - k)) % Fanout]

\* The value of the numeral, digit by digit.
RootValue(p) ==
    LET value[k \in 0 .. RootLen] == IF k = 0 THEN 0 ELSE value[k - 1] * Fanout + p[k]
    IN  value[RootLen]

\* Numerals of a fixed length: writing and reading them are inverse to each other.
ASSUME RootNumerals ==
    /\ RootCount \in Nat
    /\ \A v \in 0 .. RootCount - 1 :
        FormatPrefix(v) \in RootPrefixes /\ RootValue(FormatPrefix(v)) = v
    /\ \A p \in RootPrefixes :
        RootValue(p) \in 0 .. RootCount - 1 /\ FormatPrefix(RootValue(p)) = p

EntryType ==
    [prefix : Prefixes, counter : Nat, owner_ref : Nat,
     split_child_start : Nat, root_summary : Summaries \cup {EmptySummary}]

Entry(prefix, owner) ==
    [prefix |-> prefix, counter |-> 0, owner_ref |-> owner,
     split_child_start |-> NoEntry, root_summary |-> EmptySummary]

\* EPRing::new: one entry per root prefix, dealt to the nodes in turn.
NewRing == [i \in 1 .. RootCount |-> Entry(FormatPrefix(i - 1), (i - 1) % NodeCount)]

\* root_entry_index_from_prefix reads the first RootLen digits as a numeral.
RootEntry(p) == RootValue(SubSeq(p, 1, RootLen)) + 1

(***************************************************************************)
(* Lookup                                                                  *)
(***************************************************************************)
EntryIsSplit(es, i) == es[i].split_child_start # NoEntry
Leaves(es)          == {i \in DOMAIN es : ~EntryIsSplit(es, i)}
Child(es, i, digit) == es[i].split_child_start + digit

IsPrefix(p, q) == Len(p) =< Len(q) /\ \A k \in 1 .. Len(p) : p[k] = q[k]

\* route_key_hex: from the root entry of the hash down to an unsplit entry.
RouteKey(es, hash) ==
    LET at[k \in RootLen .. MaxPrefixLen] ==
            IF k = RootLen THEN RootEntry(hash)
            ELSE LET i == at[k - 1]
                 IN  IF EntryIsSplit(es, i)
                     THEN Child(es, i, hash[Len(es[i].prefix) + 1])
                     ELSE i
    IN  at[MaxPrefixLen]

RouteNode(es, hash) == es[RouteKey(es, hash)].owner_ref

\* find_entry_index: the entry of exactly this prefix, NoEntry when the walk
\* meets an unsplit entry before the prefix ends or the prefix is too short.
FindEntry(es, p) ==
    LET at[k \in RootLen .. Len(p)] ==
            IF k = RootLen THEN RootEntry(p)
            ELSE LET i == at[k - 1]
                 IN  IF i # NoEntry /\ EntryIsSplit(es, i) THEN Child(es, i, p[k]) ELSE NoEntry
    IN  IF Len(p) < RootLen THEN NoEntry ELSE at[Len(p)]

(***************************************************************************)
(* Changes                                                                 *)
(***************************************************************************)
\* A split that does not look whether a stale caller names an entry already split.
CanSplitAgain(es, i) == Len(es[i].prefix) < MaxPrefixLen

CanSplit(es, i) == ~EntryIsSplit(es, i) /\ Len(es[i].prefix) < MaxPrefixLen

\* The array split_entry makes when it gives digit d of entry i to the node deal[d]
\* and appends one child for each digit of deal.
SplitDealt(es, i, deal) ==
    LET n == Len(es)
        parent == [es[i] EXCEPT !.owner_ref = n + 1, !.split_child_start = n + 1]
        children == [c \in 1 .. Len(deal) |-> Entry(Append(es[i].prefix, c - 1), deal[c])]
    IN  [es EXCEPT ![i] = parent] \o children

\* Faulty splits: an owner not wrapped round the ring, one child too few, children
\* dealt from storager 0 instead of the parent's, children with the parent's summary.
SplitEntryUnwrapped(es, i) ==
    SplitDealt(es, i, [c \in 1 .. Fanout |-> es[i].owner_ref + (c - 1)])
SplitEntryShort(es, i) ==
    SplitDealt(es, i, [c \in 1 .. Fanout - 1 |-> (es[i].owner_ref + (c - 1)) % NodeCount])
SplitEntryFromZero(es, i) ==
    SplitDealt(es, i, [c \in 1 .. Fanout |-> (c - 1) % NodeCount])

SplitEntryInherits(es, i) ==
    LET dealt == SplitDealt(es, i, [c \in 1 .. Fanout |-> (es[i].owner_ref + (c - 1)) % NodeCount])
    IN  [j \in DOMAIN dealt |-> IF j \in DOMAIN es THEN dealt[j]
                                ELSE [dealt[j] EXCEPT !.root_summary = es[i].root_summary]]

\* split_entry: the parent points at its children, appended to the array; digit
\* d goes d nodes further round the ring than the parent, so digit 0 stays.
SplitEntry(es, i) ==
    SplitDealt(es, i, [c \in 1 .. Fanout |-> (es[i].owner_ref + (c - 1)) % NodeCount])

\* record_insert_without_split: the counter and the summary only.
Counted(es, i, summary) ==
    [es EXCEPT ![i].counter = @ + 1, ![i].root_summary = summary]

\* record_insert splits the entry it counted once the counter passes the threshold.
SplitsOnInsert(es, i) == es[i].counter + 1 > SplitThreshold /\ CanSplit(es, i)

Inserted(es, i, summary) ==
    IF SplitsOnInsert(es, i)
    THEN SplitEntry(Counted(es, i, summary), i)
    ELSE Counted(es, i, summary)

\* A counter that is not saturated.
DeletedUnsaturated(es, i, summary) ==
    [es EXCEPT ![i].counter = @ - 1, ![i].root_summary = summary]

\* record_delete: saturating at zero; a split is never undone.
Deleted(es, i, summary) ==
    [es EXCEPT ![i].counter = IF @ = 0 THEN 0 ELSE @ - 1, ![i].root_summary = summary]

Summarised(es, i, summary) == [es EXCEPT ![i].root_summary = summary]

\* maybe_presplit_empty_prefix: a batch too large for a prefix nothing was counted in.
Presplits(es, i, incoming) ==
    /\ es[i].counter = 0
    /\ incoming > SplitThreshold
    /\ CanSplit(es, i)
=============================================================================
