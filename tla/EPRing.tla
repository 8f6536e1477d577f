------------------------------- MODULE EPRing -------------------------------
(***************************************************************************)
(* The manager's expandable prefix ring (manager/src/core/epring.rs) as a  *)
(* state machine: the entry array, changed by the calls Router makes under *)
(* the ring's write lock, so one action is one call.                       *)
(*                                                                         *)
(* `registry` is what a consumer of the returned RootSummaryChange records *)
(* knows: the last summary reported for each prefix.  Manager enqueues     *)
(* exactly those records for the EPRootProofRegistry contract.             *)
(***************************************************************************)
EXTENDS PrefixRing

CONSTANTS
    MaxCounter,   \* bound: inserts counted per entry
    MaxEntries,   \* bound: length of the array
    MaxIncoming   \* bound: size of a batch offered to the presplit

VARIABLES
    entries,    \* EPRing.entries
    registry    \* [prefix |-> last reported summary], one field per reported prefix

vars == <<entries, registry>>

TypeOK ==
    /\ entries \in Seq(EntryType)
    /\ \A i \in Leaves(entries) : entries[i].owner_ref \in Nodes
    /\ DOMAIN registry \subseteq Prefixes
    /\ \A p \in DOMAIN registry : registry[p] \in Summaries

Init ==
    /\ entries = NewRing
    /\ registry = [p \in {} |-> EmptySummary]

(***************************************************************************)
(* The calls                                                               *)
(***************************************************************************)

\* update_entry_summary: a RootSummaryChange only when the summary is new.
Report(i, summary) ==
    registry' = IF entries[i].root_summary = summary
                THEN registry
                ELSE [p \in DOMAIN registry \cup {entries[i].prefix} |->
                        IF p = entries[i].prefix THEN summary ELSE registry[p]]

\* The bounds: no entry is counted past MaxCounter, no split passes MaxEntries.
WithinBounds(es) ==
    /\ Len(es) =< MaxEntries
    /\ \A i \in DOMAIN es : es[i].counter =< MaxCounter

\* A call whose prefix has no entry returns None and changes nothing.
RecordInsert(p, summary) ==
    \E i \in DOMAIN entries :
        /\ i = FindEntry(entries, p)
        /\ entries' = Inserted(entries, i, summary)
        /\ WithinBounds(entries')
        /\ Report(i, summary)

RecordInsertWithoutSplit(p, summary) ==
    \E i \in DOMAIN entries :
        /\ i = FindEntry(entries, p)
        /\ entries' = Counted(entries, i, summary)
        /\ WithinBounds(entries')
        /\ Report(i, summary)

RecordDelete(p, summary) ==
    \E i \in DOMAIN entries :
        /\ i = FindEntry(entries, p)
        /\ entries' = Deleted(entries, i, summary)
        /\ Report(i, summary)

UpdateRootSummary(p, summary) ==
    \E i \in DOMAIN entries :
        /\ i = FindEntry(entries, p)
        /\ entries' = Summarised(entries, i, summary)
        /\ Report(i, summary)

MaybePresplitEmptyPrefix(p, incoming) ==
    \E i \in DOMAIN entries :
        /\ i = FindEntry(entries, p)
        /\ Presplits(entries, i, incoming)
        /\ entries' = SplitEntry(entries, i)
        /\ WithinBounds(entries')
        /\ UNCHANGED registry

\* Router::reset builds a new ring; reset_blockchain clears what was reported.
Reset ==
    /\ entries' = NewRing
    /\ registry' = [p \in {} |-> EmptySummary]

Next ==
    \/ \E p \in Prefixes, summary \in Summaries :
        \/ RecordInsert(p, summary)
        \/ RecordInsertWithoutSplit(p, summary)
        \/ RecordDelete(p, summary)
        \/ UpdateRootSummary(p, summary)
    \/ \E p \in Prefixes, incoming \in 1 .. MaxIncoming :
        MaybePresplitEmptyPrefix(p, incoming)
    \/ Reset

Spec == Init /\ [][Next]_vars

(***************************************************************************)
(* Properties                                                              *)
(***************************************************************************)

\* Every key hash lies under exactly one unsplit entry: no split, in any order,
\* leaves a key without a storager or with two (split_entry, route_key_hex).
LeavesTileKeySpace ==
    \A hash \in KeyHashes :
        \E i \in Leaves(entries) :
            /\ IsPrefix(entries[i].prefix, hash)
            /\ \A j \in Leaves(entries) \ {i} : ~IsPrefix(entries[j].prefix, hash)

\* The two walks agree with the array: find_entry_index reaches every entry by
\* its own prefix, so the counter a caller's route names is the one its insert
\* counts, and route_key_hex ends at the leaf that covers the hash.
LookupsAgree ==
    /\ \A i \in DOMAIN entries : FindEntry(entries, entries[i].prefix) = i
    /\ \A hash \in KeyHashes :
        /\ RouteKey(entries, hash) \in Leaves(entries)
        /\ IsPrefix(entries[RouteKey(entries, hash)].prefix, hash)

\* Replaying the reported changes rebuilds the ring's summaries: a consumer that
\* sees only RootSummaryChange records (the contract) is never behind the ring
\* (update_entry_summary and its callers, epring.rs test
\* reports_only_real_root_summary_changes).
RegistryMatchesRing ==
    \A i \in DOMAIN entries :
        entries[i].root_summary =
            IF entries[i].prefix \in DOMAIN registry
            THEN registry[entries[i].prefix]
            ELSE EmptySummary

LeafOwner ==
    [p \in {entries[i].prefix : i \in Leaves(entries)} |->
        entries[CHOOSE i \in Leaves(entries) : entries[i].prefix = p].owner_ref]

Directory == INSTANCE PrefixDirectory WITH owner <- LeafOwner

\* The ring is a prefix directory: keys change storager only by a split of their
\* own leaf, child 0 staying where it was (split_entry 184-206, and the test
\* split_keeps_pre0_on_original_owner_and_rotates_rest).
ImplementsDirectory == Directory!Spec
=============================================================================
