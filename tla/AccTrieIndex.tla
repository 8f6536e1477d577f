--------------------------- MODULE AccTrieIndex ---------------------------
(***************************************************************************)
(* The AccTrie index of a storager (storager/src/ads/acctrie_ads.rs): the  *)
(* trie in memory, and its records persisted by the first hex digit of     *)
(* their keywords' digests.  In mode "kvdb" a digit's records are one      *)
(* shard, written at every change, and a manifest that is written now and  *)
(* then lists the shards.  In mode "page" they are cut into pages that     *)
(* stay in a cache until they are evicted, or flushed for an export or at  *)
(* the end, with one manifest per digit.  A request holds the trie's lock. *)
(*                                                                         *)
(* LevelDB buffers the log of its puts and the code never flushes it, so   *)
(* that a process that is killed leaves the contents after any of its puts *)
(* since LevelDB was opened: `puts` has them all.  A page is a file by     *)
(* itself, and what a kill leaves of those is not modelled.                *)
(***************************************************************************)
EXTENDS AccTrie

CONSTANTS
    Modes,             \* the persistence modes started with
    PageLimit,         \* page_record_limit
    MaxPages,          \* max_cached_pages
    Interval,          \* manifest_persist_interval
    MigratedPrefixes,  \* the hex prefixes that migrate: [digit, keys]
    Batches, Segments, \* the batches added, the records imported: bounds
    Explored,          \* the requests served, <<mode, situation, kind>>: a bound
    MaxRequests        \* their number: a bound

VARIABLES
    mode,      \* which PersistenceBackend
    trie,
    cache,     \* page_cache: pages, the oldest first, manifest, and dirty, the
               \* digits of dirty_page_manifests
    disk,      \* files and LevelDB: page, pageCount, shard, and listed, the
               \* shard_prefixes of the manifest
    puts,      \* LevelDB when it was opened and after each put since: shard,
               \* listed, whether the put is of the manifest, and, history,
               \* the index after the request
    runtime,   \* fully_loaded as loaded, manifest_dirty as dirty, mutations
    retained,  \* retained_prefixes
    index,     \* history: the files a query of each keyword answers with
    op,        \* history: the request served last
    served     \* history: the number of requests

vars == <<mode, trie, cache, disk, puts, runtime, retained, index, op, served>>

Digits == {DigitOf[k] : k \in Keys}
DigitSeq == SetToSeq(Digits)
CountOf(counts, d) == IF d \in DOMAIN counts THEN counts[d] ELSE 0
Without(f, S) == Restrict(f, DOMAIN f \ S)
Flattened(seqs) == FoldLeft(LAMBDA a, s : a \o s, <<>>, seqs)

\* What a request works on: the trie, the cache, the disk and the runtime.
Store == [trie |-> trie, cache |-> cache, disk |-> disk, puts |-> puts, runtime |-> runtime]

-----------------------------------------------------------------------------
(* Pages.                                                                  *)

EmptyCache == [pages |-> <<>>, manifest |-> <<>>, dirty |-> {}]
EmptyDisk == [page |-> <<>>, pageCount |-> <<>>, shard |-> <<>>, listed |-> {}]

Min2(a, b) == IF a < b THEN a ELSE b
PageCount(records) == (Len(records) + PageLimit - 1) \div PageLimit
PageOf(d, records, i, dirty) ==
    [digit |-> d, number |-> i, dirty |-> dirty,
     records |-> SubSeq(records, (i - 1) * PageLimit + 1, Min2(i * PageLimit, Len(records)))]

Written(files, pages) == [p \in {<<q.digit, q.number>> : q \in ToSet(pages)} |->
    (CHOOSE q \in ToSet(pages) : <<q.digit, q.number>> = p).records] @@ files

\* enforce_page_cache_limit: the pages used longest ago leave, the dirty
\* ones for the disk.
Evicted(s) ==
    LET n   == Max({0, Len(s.cache.pages) - MaxPages})
        out == SelectSeq(SubSeq(s.cache.pages, 1, n), LAMBDA p : p.dirty)
    IN  [s EXCEPT !.cache.pages = SubSeq(@, n + 1, Len(@)), !.disk.page = Written(@, out)]

\* cache_root_prefix_records: the pages of a digit are replaced by those of
\* the records given, the file of a page no longer needed staying.
Cached(s, d, records, dirty) ==
    LET count == PageCount(records)
    IN  Evicted([s EXCEPT
            !.cache.pages = SelectSeq(@, LAMBDA p : p.digit # d)
                              \o [i \in 1 .. count |-> PageOf(d, records, i, dirty)],
            !.cache.dirty = IF dirty /\ ~(d \in DOMAIN s.cache.manifest /\ s.cache.manifest[d] = count)
                            THEN @ \cup {d} ELSE @,
            !.cache.manifest = (d :> count) @@ @])

\* flush_root_prefix_pages: the digit's manifest, then its dirty pages.
FlushedCount(s, d) ==
    IF d \notin s.cache.dirty THEN s
    ELSE [s EXCEPT !.cache.dirty = @ \ {d},
                   !.disk.pageCount = IF CountOf(s.cache.manifest, d) = 0 THEN Without(@, {d})
                                      ELSE (d :> s.cache.manifest[d]) @@ @]
Flushed(s, d) ==
    LET out == SelectSeq(s.cache.pages, LAMBDA p : p.digit = d /\ p.dirty)
    IN  [FlushedCount(s, d) EXCEPT
            !.cache.pages = [i \in DOMAIN @ |-> IF @[i].digit = d THEN [@[i] EXCEPT !.dirty = FALSE] ELSE @[i]],
            !.disk.page = Written(@, out)]

\* The records of a digit on disk: nothing when the file of a page is not there.
DiskPages(files, d) == {<<d, i>> : i \in 1 .. CountOf(files.pageCount, d)}
OnDisk(files, d) ==
    IF DiskPages(files, d) \subseteq DOMAIN files.page
    THEN Flattened([i \in 1 .. CountOf(files.pageCount, d) |-> files.page[<<d, i>>]])
    ELSE <<>>

\* load_cached_root_prefix_records: all pages or none; the pages found
\* become the ones used last.
CachedOf(s, d) == SelectSeq(s.cache.pages, LAMBDA p : p.digit = d)
CacheHit(s, d) ==
    d \in DOMAIN s.cache.manifest /\ Len(CachedOf(s, d)) = s.cache.manifest[d]
\* ... up to the first that is missing.
Touched(s, d) ==
    LET own  == CachedOf(s, d)
        used == {n \in {p.number : p \in ToSet(own)} :
                    1 .. n \subseteq {p.number : p \in ToSet(own)}}
        IsUsed(p) == p.digit = d /\ p.number \in used
    IN  [s EXCEPT !.cache.pages = SelectSeq(@, LAMBDA p : ~IsUsed(p)) \o
                                    SortSeq(SelectSeq(@, IsUsed), LAMBDA p, q : p.number < q.number)]

\* load_shard_records: the records of a digit, and what loading them does to
\* the cache: pages read from disk replace all there are.
Loading(s, d) ==
    CASE mode = "kvdb" ->
           [store |-> s,
            records |-> IF d \in DOMAIN s.disk.shard THEN s.disk.shard[d] ELSE RecordsOf(s.trie, d)]
      [] mode = "page" /\ CacheHit(s, d) ->
           [store |-> Touched(s, d),
            records |-> Flattened([i \in DOMAIN CachedOf(s, d) |->
                (CHOOSE p \in ToSet(CachedOf(s, d)) : p.number = i).records])]
      [] mode = "page" /\ ~CacheHit(s, d) /\ d \in DOMAIN s.disk.pageCount ->
           LET records == OnDisk(s.disk, d)
           IN  [store |-> Cached(Touched(s, d), d, records, FALSE), records |-> records]
      [] OTHER -> [store |-> Touched(s, d), records |-> RecordsOf(s.trie, d)]

-----------------------------------------------------------------------------
(* Persisting a change.                                                    *)

\* LevelDB is given disk d: a put, or what there is when it is opened.
Contents(d, manifest) ==
    IF mode = "kvdb" THEN <<[shard |-> d.shard, listed |-> d.listed, manifest |-> manifest]>> ELSE <<>>
Put(s, manifest) == [s EXCEPT !.puts = @ \o Contents(s.disk, manifest)]

\* maybe_persist_manifest_for.
Listed(s, force) ==
    IF s.runtime.dirty /\ (force \/ s.runtime.mutations % Interval = 0)
    THEN Put([s EXCEPT !.disk.listed = DOMAIN s.trie.entries, !.runtime.dirty = FALSE], TRUE)
    ELSE s

\* mark_manifest_dirty; the number of mutations matters by its remainder.
Marked(s) == [s EXCEPT !.runtime.dirty = TRUE, !.runtime.mutations = (@ + 1) % Interval]

\* persist_root_prefix_records.
\* Wrong variant: the shard of a digit without records stays.
SavedDigitKept(s, d) ==
    LET records == RecordsOf(s.trie, d)
    IN  CASE mode = "page" -> Cached(s, d, records, TRUE)
          [] mode = "kvdb" /\ records = <<>> -> s
          [] OTHER -> Put([s EXCEPT !.disk.shard = (d :> records) @@ @], FALSE)
SavedDigit(s, d) ==
    LET records == RecordsOf(s.trie, d)
    IN  CASE mode = "page" -> Cached(s, d, records, TRUE)
          [] mode = "kvdb" /\ records = <<>> -> Put([s EXCEPT !.disk.shard = Without(@, {d})], FALSE)
          [] OTHER -> Put([s EXCEPT !.disk.shard = (d :> records) @@ @], FALSE)

\* persist_root_prefix.
\* Wrong variant: the manifest is written before the shard.
SavedListedFirst(s, d) == SavedDigit(Listed(Marked(s), FALSE), d)
Saved(s, d) == Listed(Marked(SavedDigit(s, d)), FALSE)

-----------------------------------------------------------------------------
(* Requests.                                                               *)

\* query: the map, or after a reset the digit's records, for a keyword that
\* is not in it.
FromMap(s, k) == s.runtime.loaded \/ k \in DOMAIN s.trie.map
Answer(s, k) ==
    IF FromMap(s, k) THEN ToSet(ValuesOf(s.trie, k))
    ELSE UNION {ToSet(r.values) : r \in {q \in ToSet(Loading(s, DigitOf[k]).records) : q.key = k}}

Left(s) ==
    /\ trie' = s.trie /\ cache' = s.cache /\ disk' = s.disk /\ runtime' = s.runtime
    /\ index' = [k \in Keys |-> Answer(s, k)]
    /\ puts' = [i \in DOMAIN s.puts |-> s.puts[i] @@ [index |-> index']]
    /\ UNCHANGED mode

\* The situations the bound tells apart: how the index was started last, what
\* a delete finds, and what an import meets.
Serving(situation, kind) ==
    served < MaxRequests /\ <<mode, situation, kind>> \in Explored
Served(situation, r) ==
    /\ Serving(situation, r.kind)
    /\ served' = served + 1
    /\ op' = r

Init ==
    /\ mode \in Modes
    /\ trie = EmptyTrie /\ cache = EmptyCache /\ disk = EmptyDisk
    /\ runtime = [loaded |-> TRUE, dirty |-> FALSE, mutations |-> 0]
    /\ retained = {}
    /\ index = [k \in Keys |-> {}]
    /\ puts = [i \in DOMAIN Contents(disk, TRUE) |-> Contents(disk, TRUE)[i] @@ [index |-> index]]
    /\ op = [kind |-> "none"] /\ served = 0

\* add: the file is appended to the keyword's list even when it is there.
Add(k, f) ==
    /\ Served("any", [kind |-> "add", keyword |-> k, fid |-> f])
    /\ Left(Saved([Store EXCEPT !.trie = Insert(@, k, f)], DigitOf[k]))
    /\ UNCHANGED retained

\* add_batch: keyword by keyword in the order of their digests, then every
\* digit is persisted.
AddBatch(pairs, last) ==
    LET keys   == SelectSeq(KeyOrder, LAMBDA k : \E f \in Files : <<k, f>> \in ToSet(pairs))
        Fids(k) == [i \in DOMAIN SelectSeq(pairs, LAMBDA p : p[1] = k) |->
                      SelectSeq(pairs, LAMBDA p : p[1] = k)[i][2]]
        grown  == FoldLeft(LAMBDA t, k : InsertUnique(t, k, Fids(k), last), trie, keys)
        digits == FoldLeft(LAMBDA a, k : IF DigitOf[k] \in ToSet(a) THEN a ELSE Append(a, DigitOf[k]),
                           <<>>, keys)
        saved  == FoldLeft(SavedDigit, [Store EXCEPT !.trie = grown], digits)
    IN  /\ Served("any", [kind |-> "add_batch", pairs |-> ToSet(pairs)])
        /\ Left(Listed(Marked(saved), FALSE))
        /\ UNCHANGED retained

\* delete: a keyword with one file goes whatever the file asked for.
Delete(k, f, last) ==
    LET alone == Len(ValuesOf(trie, k)) = 1 \/ k \notin DOMAIN trie.map
        after == IF alone THEN DeleteKey(trie, k, last) ELSE DeleteValue(trie, k, f, last)
    IN  /\ Served(IF alone /\ k \in DOMAIN trie.map /\ f \notin ToSet(trie.map[k]) THEN "stray" ELSE "any",
                  [kind |-> "delete", keyword |-> k, fid |-> f])
        /\ Left(Saved([Store EXCEPT !.trie = after], DigitOf[k]))
        /\ UNCHANGED retained

\* query, where it loads what is on disk.
QueryLoads(k) ==
    /\ ~FromMap(Store, k)
    /\ Served("any", [kind |-> "query"])
    /\ Left(Loading(Store, DigitOf[k]).store)
    /\ UNCHANGED retained

\* What an import or the end of a migration leaves of a digit's records.
Outside(records, p) == SelectSeq(records, LAMBDA r : r.key \notin p.keys)

KeysOf(records) == {r.key : r \in ToSet(records)}
FidsIn(records) ==
    [k \in Keys |-> UNION {ToSet(r.values) : r \in {q \in ToSet(records) : q.key = k}}]

\* import_prefix_segment in mode kvdb: the records take the place of those of
\* the prefix, which are part of them when a segment is sent again.
ImportRecords(p, records) ==
    LET found == Loading(Store, p.digit)
        rest  == Outside(found.records, p)
    IN  /\ mode = "kvdb"
        /\ \A k \in p.keys : index[k] \subseteq FidsIn(records)[k]
        /\ Served(IF KeysOf(rest) \subseteq DOMAIN trie.map THEN "any" ELSE "shared",
                  [kind |-> "import", records |-> FidsIn(records)])
        /\ Left(Saved([found.store EXCEPT !.trie = ReplacePrefix(@, p.digit, rest \o records)], p.digit))
        /\ UNCHANGED retained

\* import_page_segment: the pages are those of the whole digit.  They take
\* the place of the pages there are, and what is of another prefix of the
\* digit comes twice.
ImportPages(p, records) ==
    LET count == PageCount(records)
        files == [i \in 1 .. count |-> PageOf(p.digit, records, i, FALSE)]
        s     == Cached([Store EXCEPT !.disk.page = Written(@, files),
                                      !.disk.pageCount = (p.digit :> count) @@ @],
                        p.digit, records, FALSE)
        found == Loading(s, p.digit)
        all   == Outside(found.records, p) \o records
        own   == KeysOf(RecordsOf(trie, p.digit))
    IN  /\ mode = "page"
        /\ Served(IF own = {} /\ KeysOf(records) \subseteq p.keys THEN "any" ELSE "shared",
                  [kind |-> "import", records |-> FidsIn(records)])
        /\ Left(Listed(Marked([found.store EXCEPT !.trie = ReplacePrefix(@, p.digit, all)]), TRUE))
        /\ UNCHANGED retained

\* export_prefix_segment, which flushes the digit's pages.
Exported(s, p) == IF mode = "page" THEN Flushed(s, p.digit) ELSE s

\* The pages of a digit are removed, from disk as many as its manifest says,
\* and its records of the prefix.
Dropped(s, p) ==
    LET d    == p.digit
        bare == [s EXCEPT
                   !.disk.page = IF mode = "page" THEN Without(@, DiskPages(s.disk, d)) ELSE @,
                   !.disk.pageCount = IF mode = "page" THEN Without(@, {d}) ELSE @,
                   !.cache = IF mode = "page"
                             THEN [pages |-> SelectSeq(@.pages, LAMBDA q : q.digit # d),
                                   manifest |-> Without(@.manifest, {d}), dirty |-> @.dirty \ {d}]
                             ELSE @,
                   !.trie = ReplacePrefix(@, d, Outside(RecordsOf(@, d), p))]
    IN  Listed(Saved(bare, d), TRUE)

\* drain_prefix_segment, prepare_retain_prefix_segment, confirm_prefix_migration.
Drain(p) ==
    /\ Served("any", [kind |-> "drain", segment |-> p.keys])
    /\ Left(Dropped(Exported(Store, p), p))
    /\ UNCHANGED retained
Prepare(p) ==
    /\ Served("any", [kind |-> "prepare", segment |-> p.keys])
    /\ Left(Exported(Store, p))
    /\ retained' = retained \cup {p}
Confirm(p) ==
    /\ p \in retained
    /\ Served("any", [kind |-> "confirm", segment |-> p.keys])
    /\ Left(Dropped(Store, p))
    /\ retained' = retained \ {p}
ConfirmRefused(p) ==
    /\ p \notin retained
    /\ Served("any", [kind |-> "refused"])
    /\ UNCHANGED <<mode, trie, cache, disk, puts, runtime, retained, index>>

\* reset: nothing counts as loaded afterwards.
Reset ==
    /\ Served("any", [kind |-> "reset"])
    /\ Left([trie |-> EmptyTrie, cache |-> EmptyCache, disk |-> EmptyDisk,
             puts |-> Contents(EmptyDisk, TRUE),
             runtime |-> [loaded |-> FALSE, dirty |-> FALSE, mutations |-> 0]])
    /\ retained' = {}

\* load_into: the shards listed; or the pages of every digit with a manifest,
\* once for the manifest and once more for every page file of the digit, as
\* any .bin file is taken for a manifest.  A page that is not there fails all.
Reading(s, d) ==
    IF mode = "kvdb"
    THEN IF d \in s.disk.listed \cap DOMAIN s.disk.shard THEN s.disk.shard[d] ELSE <<>>
    ELSE LET files == Cardinality({q \in DOMAIN s.disk.page : q[1] = d})
         IN  Flattened([i \in 1 .. files + 1 |-> OnDisk(s.disk, d)])
Loadable(s) == mode = "page" => \A d \in DOMAIN s.disk.pageCount : DiskPages(s.disk, d) \subseteq DOMAIN s.disk.page
Loaded(s) ==
    [trie |-> IF Loadable(s)
              THEN Restored(Flattened([i \in DOMAIN DigitSeq |-> Reading(s, DigitSeq[i])]))
              ELSE EmptyTrie,
     cache |-> EmptyCache, disk |-> s.disk, puts |-> Contents(s.disk, TRUE),
     runtime |-> [loaded |-> TRUE, dirty |-> FALSE, mutations |-> 0]]

\* The index is dropped, which flushes all, and opened again; or the process
\* is killed and LevelDB has lost the end of its log.
Restart ==
    LET flushed == IF mode = "page" THEN FoldSet(LAMBDA d, s : Flushed(s, d), Store, DOMAIN cache.manifest) ELSE Store
    IN  /\ Served("any", [kind |-> "restart"])
        /\ Left(Loaded(Listed(flushed, TRUE)))
        /\ retained' = {}
AsPut(n) == [Store EXCEPT !.disk.shard = puts[n].shard, !.disk.listed = puts[n].listed]
Crash ==
    /\ Served("any", [kind |-> "crash"])
    /\ mode = "kvdb"
    /\ \E n \in DOMAIN puts : Left(Loaded(AsPut(n)))
    /\ retained' = {}

Next ==
    \/ \E k \in Keys, f \in Files : Add(k, f) \/ \E last \in BOOLEAN : Delete(k, f, last)
    \/ \E b \in Batches, last \in BOOLEAN : AddBatch(b, last)
    \/ \E k \in Keys : QueryLoads(k)
    \/ \E p \in MigratedPrefixes :
          \/ \E s \in Segments :
                \/ ImportRecords(p, SelectSeq(s, LAMBDA r : r.key \in p.keys))
                \/ ImportPages(p, SelectSeq(s, LAMBDA r : DigitOf[r.key] = p.digit))
          \/ Drain(p) \/ Prepare(p) \/ Confirm(p) \/ ConfirmRefused(p)
    \/ Reset
    \/ Restart
    \/ Crash

Spec == Init /\ [][Next]_vars

-----------------------------------------------------------------------------
\* The accumulators kept up by adding and removing single elements are those
\* that a rebuild from the records would give: of every leaf, of every entry
\* of the root, and of the root, which the chain's registry is sent.
UpkeepIsRebuild ==
    trie = Restored(Flattened([i \in DOMAIN DigitSeq |-> RecordsOf(trie, DigitSeq[i])]))

\* Every membership that the proof of a query claims is a true one, and the
\* neighbours it names enclose a keyword that is not there.  The witnesses
\* verify either way, so that nothing else would tell.
ProofsAreTrue ==
    \A k \in Keys :
        IF ValuesOf(trie, k) # <<>> THEN ExistsTrue(trie, k)
        ELSE \A last \in BOOLEAN : NotExistsTrue(trie, k, last)

\* What is persisted is what the trie has: the shards, where a shard that no
\* restart would read does not count; or the pages, once those that are still
\* in the cache are written.
Persisted(d) ==
    IF mode = "page" THEN OnDisk(Flushed(Store, d).disk, d)
    ELSE IF d \in DOMAIN disk.shard \cap (DOMAIN trie.entries \cup disk.listed)
         THEN disk.shard[d] ELSE <<>>
StoreFollowsTrie == \A d \in Digits : Persisted(d) = RecordsOf(trie, d)

\* Wherever a kill breaks the log off, a keyword of a digit that the manifest
\* lists is read back with the files it had after some request no earlier
\* than the last writing of that manifest.
ManifestPut(n) == Max({i \in 1 .. n : puts[i].manifest})
KillKeepsListed ==
    \A n \in DOMAIN puts : \A k \in {j \in Keys : DigitOf[j] \in puts[n].listed} :
        FidsIn(Reading(AsPut(n), DigitOf[k]))[k] \in {puts[i].index[k] : i \in ManifestPut(n) .. n}

\* ads_lib/src/acctrie/mod.rs:987, expect("next leaf accumulator must exist"):
\* the keyword after one that is asked for and not there has a leaf.
NextLeafExists ==
    \A k \in Keys \ DOMAIN trie.map, last \in BOOLEAN :
        After(trie, k, last) # NoKey => After(trie, k, last) \in DOMAIN trie.leaf
=============================================================================
