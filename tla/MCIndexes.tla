----------------------------- MODULE MCIndexes -----------------------------
(***************************************************************************)
(* The four indexes a storager can have, one of them chosen at the start,  *)
(* each against the abstract index of KeywordIndex.  The module extends    *)
(* that of the AccTree, so its constants are those of AccTreeIndex.        *)
(***************************************************************************)
EXTENDS AccTreeIndex, TLC

CONSTANTS k1, k2, k3, f1, f2, n0, n1, n2, s1, s2, Nil, NoKey, ZeroHash, Garbled,
          Indexes,      \* the indexes the run explores
          TrieModes,    \* the persistence modes of the AccTrie
          Situations,   \* what is explored, beyond what the indexes promise:
                        \* sets of <<index, situation, kind>>
          Budget        \* index -> the number of requests

VARIABLES ads,
          root, rootHash, db, dbRoot, phase,
          ht, mgtRoot, file,
          mode, trie, cache, disk, puts, runtime

MptVars == <<root, rootHash, db, dbRoot, phase>>
TreeVars == <<records, roots, dirty, nodes, manifest, confirmed>>
MestVars == <<ht, mgtRoot, file>>
TrieVars == <<mode, trie, cache, disk, puts, runtime>>

MCKeys == {k1, k2, k3}
MCFiles == {f1, f2}
MCOrder == <<k1, k2, k3>>
MCPrefixes == {{k1, k3}, {k2}}
Kinds == {"add", "delete", "add_batch", "query", "import", "drain", "prepare", "confirm",
          "refused", "deferred", "reset"}
MCPairs == {<< <<k1, f1>>, <<k2, f1>> >>, << <<k1, f1>>, <<k1, f2>> >>, << <<k3, f1>>, <<k1, f2>> >>}
MCPairSets == {{b[i] : i \in DOMAIN b} : b \in MCPairs}
Extra(name) == {<<s[2], s[3]>> : s \in {t \in Situations : t[1] = name}}

-----------------------------------------------------------------------------
\* Two keywords share a nibble, and one of them is the beginning of another.
MptPaths == (k1 :> <<n0, n0>>) @@ (k2 :> <<n0, n0, n0, n1>>) @@ (k3 :> <<n0, n1>>)
MptSegments == {(k1 :> a) @@ (k2 :> <<>>) @@ (k3 :> b) : a \in {<<f1>>, <<f1, f2>>}, b \in {<<>>, <<f2>>}}
MptExplored ==
    ({"fresh"} \X (Kinds \cup {"restart"})) \cup ({"removed"} \X Kinds)
        \cup ({"cold"} \X {"add", "prepare", "refused", "reset", "restart"}) \cup Extra("mpt")
Mpt == INSTANCE MptIndex WITH
    NibbleOrder <- <<n0, n1, n2>>, Keys <- MCKeys, KeyOrder <- MCOrder, PathOf <- MptPaths,
    Files <- MCFiles, MigratedPrefixes <- {{k1, k3}}, Batches <- MCPairSets, Segments <- MptSegments,
    Explored <- MptExplored, MaxRequests <- Budget["mpt"]

TreeSegments == {{<<k1, f1>>, <<k2, f1>>}, {<<k3, f2>>, <<k1, f2>>, <<k1, f1>>}}
TreeExplored ==
    ({"synced"} \X (Kinds \cup {"restart"})) \cup ({"unsynced"} \X Kinds) \cup Extra("acctree")
TreeFiles == <<f1, f2>>
TreeRequests == Budget["acctree"]

\* Two of the keywords part only at the last digit, and two are in a segment.
MestDigits == (k1 :> <<0, 1, 0>>) @@ (k2 :> <<0, 1, 1>>) @@ (k3 :> <<0, 0, 0>>)
Held(k, files) == [key |-> k, value |-> files]
MestBatches == {[i \in DOMAIN b |-> Held(b[i][1], <<b[i][2]>>)] : b \in MCPairs}
MestSegments == {<<Held(k1, <<f1>>), Held(k2, <<f1>>)>>, <<Held(k3, <<f2>>), Held(k1, <<f2, f1>>)>>}
MestExplored == ({"plain"} \X (Kinds \cup {"restart"})) \cup Extra("mest")
Mest == INSTANCE MestIndex WITH
    Keys <- MCKeys, Files <- MCFiles, Radix <- 2, Capacity <- 2, DigitsOf <- MestDigits,
    SegOf <- (k1 :> s1) @@ (k2 :> s1) @@ (k3 :> s2), SegOrder <- <<s1, s2>>,
    MigratedPrefixes <- MCPrefixes, Batches <- MestBatches, Segments <- MestSegments,
    Explored <- MestExplored, MaxRequests <- Budget["mest"]

\* Two keywords share the first hex digit, and one of them migrates.  A page
\* has one record, and the cache one page.
TriePrefixes == {[digit |-> 0, keys |-> {k1}], [digit |-> 1, keys |-> {k3}]}
Kept(k, files) == [key |-> k, values |-> files]
TrieSegments == {<<Kept(k1, <<f1>>)>>, <<Kept(k1, <<f2, f1>>), Kept(k3, <<f2>>)>>}
TrieExplored ==
    {<<"kvdb", "any", kind>> : kind \in Kinds \cup {"restart", "crash"}}
        \cup {<<"page", "any", kind>> : kind \in Kinds \ {"query"}}
        \cup {<<m, e[1], e[2]>> : m \in TrieModes, e \in Extra("acctrie")}
Trie == INSTANCE AccTrieIndex WITH
    Keys <- MCKeys, KeyOrder <- MCOrder, DigitOf <- (k1 :> 0) @@ (k2 :> 0) @@ (k3 :> 1),
    Files <- MCFiles, Modes <- TrieModes, PageLimit <- 1, MaxPages <- 1, Interval <- 2,
    MigratedPrefixes <- TriePrefixes, Batches <- MCPairs, Segments <- TrieSegments,
    Explored <- TrieExplored, MaxRequests <- Budget["acctrie"]

-----------------------------------------------------------------------------
MCBudget == [mpt |-> 4, acctree |-> 5, mest |-> 5, acctrie |-> 4]
FewBudget == [mpt |-> 3, acctree |-> 3, mest |-> 3, acctrie |-> 3]
Promised == {}
\* Restarts the indexes promise nothing about, or promise and do not keep.
UnsyncedRestart == {<<"acctree", "unsynced", "restart">>}
PageRestart == {<<"acctrie", "any", "restart">>}

MCInit ==
    /\ ads \in Indexes
    /\ Mpt!Init /\ Init /\ Mest!Init /\ Trie!Init
    /\ ads # "acctrie" => mode = "kvdb"

MCNext ==
    /\ UNCHANGED ads
    /\ \/ ads = "mpt" /\ Mpt!Next /\ UNCHANGED <<TreeVars, MestVars, TrieVars>>
       \/ ads = "acctree" /\ Next /\ UNCHANGED <<MptVars, MestVars, TrieVars>>
       \/ ads = "mest" /\ Mest!Next /\ UNCHANGED <<MptVars, TreeVars, TrieVars>>
       \/ ads = "acctrie" /\ Trie!Next /\ UNCHANGED <<MptVars, TreeVars, MestVars>>

MCSpec == MCInit /\ [][MCNext]_<<ads, retained, index, op, served, MptVars, TreeVars, MestVars, TrieVars>>

-----------------------------------------------------------------------------
\* What an index answers to queries follows the requests it served, and
\* nothing else changes it, a restart included: of the AdsOperations of the
\* four structures (storager/src/ads/mod.rs).
SegmentsOf == {UNION p : p \in SUBSET MCPrefixes} \cup {{k1}, {k3}}
K == INSTANCE KeywordIndex WITH Keywords <- MCKeys, Fids <- MCFiles, Segments <- SegmentsOf
Implements == K!Spec

\* MPT: the proof of every query leads to the root hash that is published
\* (mpt/proof.rs, verify_query_result over the hashes insert and delete renew).
MptProofsVerify == ads = "mpt" => Mpt!ProofsVerify

\* MEST: the directory leads to the one bucket that may hold a keyword,
\* through repeated splits (mest/seh.rs, insert_kvpair).
MestDirectoryRoutes == ads = "mest" => Mest!DirectoryRoutes

\* MEST: what is stored is proved against the published root, after removals
\* in the middle of a segment too (mest/bucket.rs, delete_value).
MestStoredKeysProve == ads = "mest" => Mest!StoredKeysProve

\* AccTrie: accumulators kept up by single additions and removals are those
\* of a rebuild (acctrie/mod.rs, update_leaf_prev_key and the rest).
TrieUpkeepIsRebuild == ads = "acctrie" => Trie!UpkeepIsRebuild

\* AccTrie: the memberships and neighbours a proof claims are true ones
\* (acctrie/mod.rs, query and build_non_membership_proof).
TrieProofsAreTrue == ads = "acctrie" => Trie!ProofsAreTrue

\* AccTrie: shards, or pages with their manifests, follow the records
\* (acctrie_ads.rs, persist_root_prefix and the page cache).
TrieStoreFollows == ads = "acctrie" => Trie!StoreFollowsTrie

\* AccTrie: acctrie/mod.rs:987, expect("next leaf accumulator must exist").
TrieNextLeafExists == ads = "acctrie" => Trie!NextLeafExists

\* AccTrie: a kill that breaks LevelDB's log off anywhere costs a keyword of
\* a digit that the manifest lists nothing of what it had when that manifest
\* was written (acctrie_ads.rs, persist_root_prefix).
TrieKillKeepsListed == ads = "acctrie" => Trie!KillKeepsListed
=============================================================================
