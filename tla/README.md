# TrustMeta: specifications, model checking and proofs

TrustMeta is a keyword index spread over storagers. A manager routes every
keyword to a storager by a prefix of its hash, splits a prefix that grew too
large and moves part of its keys in the background, and commits the root
summaries of all prefixes to an Ethereum contract. This directory specifies the
parts of it where order, concurrency and failure matter, checks them with TLC
and proves what can be proved for every size of the system with TLAPS.

## 1. Inventory

| Component | State | Operations | Hard because |
|---|---|---|---|
| `EPRing` (manager/src/core/epring.rs) | array of entries: prefix, counter, owner or first child, summary | record insert / delete, insert without split, update summary, presplit, route, find | splits are never undone; callers hold old prefixes |
| `Router` (core/routing.rs) | ring, keyword overrides, route cache with an epoch | route, record, clear overrides, reset | locks are taken one after the other; the cache is read without them |
| Manager handlers (api/service.rs, core/manager.rs) | migration states with their buffers, gate of the reset, permits, roots and accumulators on record | add, batch_add, delete, update, query, reset | every RPC is an await between a check and its use |
| Split migration (api/service.rs 1284-1952) | queue on `migration_lock`, the plan, the segments | prepare, import, confirm, clear overrides, replay, confirm the state | runs beside all handlers; every RPC may fail |
| Chain worker (manager/src/blockchain.rs) | channel, pending queue, outbox file, retry delay | append, flush, rewrite, reset, load | crashes, torn files, timeouts, retries |
| `EPRootProofRegistry` and scripts | latest digest of each prefix | commitBatch; the chain recreated | late and repeated transactions |
| Storager service (storager/src) | index, counters of running mutations and queries | add, delete, query, export / prepare / import / confirm a prefix, reset | waits for guards to drain |
| Index adapters and structures (storager/src/ads, ads_lib) | MPT, MEST, AccTrie, AccTree; what LevelDB and the page files hold; retained prefixes | add, batch, delete, query with proof, export, import, prepare, confirm, drain, reset, restart | hashes and accumulators kept up node by node; several formats on disk, written at different times |
| Common (boolean_expr, verification, set proofs) | none | parse, print, evaluate, prove, verify | pure, but the client, the manager and the storagers have to agree |
| Client | public keys, mode of the proofs | requests, verification of the answers | it prints what the manager parses again |
| Launcher, benchmark | none of its own | processes, requests | - |

A handler asks the router for a route (a call under the router's locks), sends
an RPC to the storager, records the answer in the router, which may split the
ring and returns the summary changes, and hands those to the chain worker
through a channel. A split is scheduled as a task that calls the storagers and
changes the router and the buffers the handlers write to. A reset waits for
the handlers by a write gate and for the running task by `migration_lock`.

What makes each part correct:

- the ring: every hash has exactly one unsplit entry, lookups find it, owners
  change only by a split, reported summaries are the ring's summaries;
- requests and splits: nothing acknowledged is lost, nothing deleted comes
  back, a query finds what was acknowledged, migrations end and what they
  buffered is applied;
- an index: it answers as a map from keywords to sets of files would, its
  proofs lead to the root it publishes and claim only what is so, and a restart
  brings back what was persisted;
- a storager's calls: what must not meet is kept apart by a lock and by waits,
  and the waits end;
- the route cache: a keyword is sent where the ring or its override says, with
  no lock for the readers;
- a request of the manager: what is acknowledged is done on every storager it
  concerns, what failed half way is taken back, the roots on record are those
  of the storagers, and the permits always come back;
- a boolean query: the manager answers the expression the user meant, and the
  client accepts exactly the right files;
- the chain worker: the outbox file is the queue, the registry ends at the
  ring's summaries, never goes back, and never holds anything from before a
  reset.

## 2. Modules

| Module | What it is |
|---|---|
| `PrefixRing` | the ring as a value: constants and their assumptions, lookups, and what each call makes of the array |
| `EPRing` | the ring as a state machine, one action per call of the router; the `registry` of reported summaries |
| `PrefixDirectory` | what the ring promises: an owner for each prefix of a tiling, changed only by splits and resets |
| `PrefixRing_proof` | lemmas on the ring as a value: what each change keeps, where the two lookups end |
| `EPRing_proof` | the theorems about `EPRing` |
| `ChainOutbox_proof` | the theorems about `ChainOutbox` |
| `SplitMigration_proof` | the theorems about `SplitMigration`: its types, what is kept and what queries find |
| `SplitMigration` | handlers, buffer, migration task, storagers and reset over a `PrefixRing` |
| `ChainOutbox` | handlers' changes, channel, worker, outbox file, submissions, chain, crash and restart |
| `KeywordIndex` | what an index promises: a set of files for every keyword, changed by the request served and by nothing else |
| `MptTrie`, `MptIndex` | the Patricia trie of ads_lib/src/mpt as operators; the MPT index with its LevelDB |
| `AccTreeIndex` | the forest of lanes of ads_lib/src/acctree and its index |
| `AccTreeIndex_proof` | the theorems about `AccTreeIndex` |
| `MestIndex` | the extendible hash table, segments and group tree of ads_lib/src/mest and its index |
| `AccTrie`, `AccTrieIndex` | the AccTrie as operators; its index with the shards, the page cache and the manifests |
| `MCIndexes` | one of the four indexes, chosen at the start, against `KeywordIndex`; it extends `AccTreeIndex`, whose variables `index`, `op`, `retained` and `served` the four share |
| `StoragerGate` | the calls a storager serves at once: lock, counts, notifier |
| `RouteCache` | the cache of routes with its epoch, readers and changes |
| `GateAndCache_proof` | the theorems about `StoragerGate` and `RouteCache` |
| `ManagerRequests` | the manager's handlers as subrequests: permits, errors, retries, rollback, recorded roots |
| `ManagerRequests_proof` | the theorems about `ManagerRequests` |
| `BooleanExpr` | the language of boolean queries as operators: reading, printing, evaluating |
| `SetAlgebra` | one node of the proof of a boolean answer: what is built and what is checked |
| `SetAlgebra_proof` | the theorems about such nodes and trees of them |
| `SetProofs` | the proof trees over the answers and the checks of the client, in both modes |
| `BooleanQuery` | one boolean query from the user's text to the accepted answer |
| `MCRequests` | one of gate, cache, query and handlers, chosen at the start |
| `MCEPRing`, `MCSplitMigration`, `MCChainOutbox` | the instances TLC checks |

`PrefixRing` is used by `EPRing` and by `SplitMigration`, so what is proved of
the array operators holds of the ring in the composition. Operators named after
a fault (`SplitEntryShort`, `AfterPrepareDropped`, `LoadedTorn`, ...) belong to
no specification: each is a plausible mistake in the definition that follows it,
and replacing the definition by it breaks a property.

### EPRing

`entries` is `EPRing.entries`; arrays start at 1, so `NoEntry = 0` is `None`.
Hex digits are `0 .. Fanout-1`, a prefix is a tuple of digits and a key hash a
tuple of `MaxPrefixLen` of them (32 hex digits of xxh3 in the code). One action
is one call, since the router holds the ring's write lock during it. The
prefixes passed in are all prefixes up to full length, because callers use
routes they computed before other splits, and `""` for a buffered delete.
`registry` accumulates the returned `RootSummaryChange` records.

### SplitMigration

A step is what a handler runs between two awaits or two lock acquisitions.

| Variable | Code |
|---|---|
| `entries`, `overrides` | ring and `keyword_overrides` of `Router` |
| `migrations` | `Manager.prefix_migrations` with `confirmed` and `pending_operations` |
| `store` | what each storager's index holds, as a set of (keyword, file) |
| `client` | the program counter of each request: check, route, second check, RPC, record, schedule |
| `queue`, `task` | spawned tasks waiting for `migration_lock`, and the one that has it |
| `issued`, `added`, `deleted`, `emptied`, `raced`, `apart` | memory of the properties only |

`RingHash` is `EPRing::keyword_to_hex` (xxh3) and `AdsHash` the hash a storager
selects a prefix by. All four indexes select by SHA-256 (acctrie/mod.rs:233-284,
mpt.rs:317, acctree_ads.rs:93, mest_ads.rs:200). So a migration may select other
postings than those the ring sends elsewhere. `apart` collects the keywords that
one hash puts under a moved child and the other does not, when the task of the
plan starts; the properties exempt them until a reset. In `migration` and
`migration_live` the two hashes agree on the digits that matter; in
`migration_deep` one keyword has different hashes, so the others are checked next
to a migration that moves the wrong postings. The run `two_hashes` states reads
without the exemption (`SegmentsAreTheRings`) and refutes it (see findings): there
the migration is wrong before any race. With two independent hash functions most
keywords of a moved child are told apart, so what the properties promise of a
split is a promise about the protocol around it; keywords of prefixes that do
not move, and those on which the hashes agree, have it from the code as it is.
`ImportMode` is what an import does to postings the target holds:
`"replace_prefix"` for AccTrie and AccTree, `"replace_keyword"` for MPT.

A request of a client has one keyword: the handlers run the same steps for one
keyword after the other (`delete` for several at once, each as a request of its
own). An RPC of a request that fails ends the request with an error and leaves
nothing behind, so only the RPCs of migrations and of resets fail in the model.

`raced` is the set of keywords that had an operation in one of the windows the
handlers leave open. The properties exempt them, and the exemptions say
precisely where those windows are: an RPC or a record whose route a split has
overtaken; an operation buffered after the pending list was taken; an add the
buffer refused; operations taken for replay when the replay failed; a split
caused by a replay; a plan that outlived a reset; a reset that failed half way.
Everything outside the windows is covered, and each window is a hazard in
`PROJECT.json`. For such a hazard the property named beside it does not show that
the code is safe: it exempts the fault and says that nothing else goes wrong
besides, so it draws the line round it. So it is with the late RPCs
and records of adds and deletes, nested plans, the plan that outlives a reset, the
half reset, and the refused buffer; in the outbox with torn files, an uncleared
file and overtaken prefixes, and in the handlers with roots recorded out of order
(`unsure`).

### ChainOutbox

Summaries are numbered in the order the ring reports them, so a digest is a
number and "older" means smaller.

| Action | Code |
|---|---|
| `RingChange`, `Enqueue` | a router call returns changes; `Blockchain::enqueue` sends them later, under no lock |
| `ReceiveCommit`, `AppendFails` | the `Commit` arm of `run_worker` |
| `ReceiveReset`, `ResetFails` | its `Reset` arm with the script that recreates the chain |
| `Tick`, `TickRewriteFails`, `RetryDue` | its tick arm and the retry delay |
| `SendTransaction`, `SubmitFails`, `OrphanSends` | `submit_once` and `chain_submit.sh` |
| `SubmitConfirmed`, `ConfirmedRewriteFails` | the receipt and the rest of `flush_pending` |
| `Mine` | `commitBatch` |
| `Crash`, `Restart` | the process dies; `load_outbox` |

The select is biased, so the tick runs only when the channel is empty. The
retry delay is a flag that may fall at any time: how long it is does not matter
to any property. A failed append or a crash in the middle of one leaves any
number of the lines and possibly a torn one. Transactions are of one account
and are mined in nonce order. A submitter that is killed may leave the `geth`
it started, which sends the transaction later (`orphan`). The worker's receipt
waits for an empty mempool, which is a little stronger than waiting for its own
transaction: an orphan's transaction sent after it must be mined as well.

### The indexes

A storager serves a request under its index's lock, so a request is one step of
an index module; what interleaves is the order of the requests, and restarts
between them (for the AccTree, and for an AccTrie that is killed, within one).
`index` is what a query of each keyword would answer, computed by the module's
query, and `op` the request served last; `KeywordIndex` constrains nothing but
those two, and nothing of what a kill leaves.

LevelDB is an external library, and the code never flushes it: a put is appended
to a log that the library buffers in the process (`put` of rusty-leveldb is not
synchronous). The assumption the models make of it is the usual one of a log. A
process that closes the database keeps every put; one that is killed leaves the
contents after some prefix of its puts, any prefix back to the opening of the
database, the puts of one request being cut apart too. `AccTrieIndex` keeps those
contents in `puts`, and its `Crash` opens one of them; `TrieKillKeepsListed` says
what every one of them still has. Of an AccTree, `Restart` has the one kill in the
middle of a batch's writing after which the log has every put before: an older
manifest, which another kill may leave, is not modelled. Nor are kills of an MPT, of
MEST's state file and of an AccTrie in page mode.

| Structure | Module state | Code |
|---|---|---|
| MPT | `root` (nodes hold their subtree, an unloaded child is a hash without a node), `rootHash`; `db`, `dbRoot` | `MPT`, LevelDB |
| AccTree | `records`, `roots`, `dirty`; `nodes`, `manifest`; `confirmed` | `record_index`, `roots`, `dirty_root_indices`; LevelDB; `confirmed_prefixes` |
| MEST | `ht`, `mgtRoot`; `file` | `SEH.ht`, `mgt_root_hash`; mest-state.bin |
| AccTrie | `trie` (map, sorted keys, leaves, entries, root); `cache`; `disk`; `puts`; `runtime` | `AccTrie`; `PageCacheState`; shards, pages, manifests; LevelDB's log; `RuntimeState` |

SHA-256 has no collisions, so that a hash is what was hashed (`MptTrie`,
`MestIndex`) or the node itself (`AccTreeIndex`). An accumulator is a bag of
elements; the group lets an element be removed that is not in it and a witness
be made for it, so counts may be negative and the properties ask whether a
claimed membership is true, which the verifier cannot tell. Which of several
equal keys `binary_search` finds, the order of a `HashMap` and the iteration of
a `HashSet` are left open.

Each module has an input `Explored`, the kinds of requests served in each
situation: after a restart without the nodes loaded (`cold`), after a keyword
was removed, with lanes that are not written (`unsynced`), with a value of
several files (`joined`). The passing run explores every request in the
ordinary situation, and in the others those after which the index keeps its
promise. What is not explored breaks `Implements` and is listed under section
6; two such cases have runs of their own.

For the MPT the checks of proofs include the one of the manager
(`Accepted`, from verification.rs), which takes the proof of an empty trie as
well: an honest index is never refused.

### What a request meets

`StoragerGate` has one action per step of an RPC of the storager between two
awaits.

| Variable | Code |
|---|---|
| `active`, `queried` | `active_mutations`, `active_prefix_queries`, counted by the two guards |
| `readers`, `writer` | the `RwLock` on the index |
| `asleep` | calls that wait on `retained_prefix_notifier` |
| `applied`, `seen` | the index, as the set of calls that changed it, and what each call read of it |

The kinds are `mutation` (add, batch_add, delete: counted, then under the shared
lock), `query` and `export` (shared), `exclusive` (import, drain), `retain`
(prepare, reset: they wait for the mutations) and `confirm` (it waits for the
queries of the prefix). The wait reads a count and subscribes later, so a
notification between the two is missed (`missed`). Confirm finds the queries of
its prefix by comparing the text of the keyword with a hex prefix; `Matching`
is the set of queries for which that comparison happens to be true, and the
properties do not depend on it: the lock alone keeps a query whole.

`RouteCache` follows `route_keyword` (the epoch, the cache, the override, the
ring, the epoch again, the store, the epoch a third time) and the changes behind
a `RouteCacheMutationGuard`, which raises the epoch when it begins and when it
ends. Two guards at once make it even while both run; readers of such a moment
are in `crossed`.

`ManagerRequests` has one action per step of a subrequest (the two permits, the
RPC at the storager, the verification, an error) and one per point where a
handler goes through its results. `summary` and `roots` are what the handler
records, in the order it records it.

| Phase | Handler |
|---|---|
| `adding`, `batch` | `add`, one at a time; `batch_add`, one group at a time or all at once |
| `deleting` | `delete`, `buffer_unordered` |
| `taking`, `giving`, `undoing` | the two phases of `update` and `rollback_update` |
| `asking`, `asking all` | `query_single_keyword`, `query_boolean_function` |

What the code does there, and the properties therefore allow:

- an error in the first phase of an update ends it, and what it had deleted
  stays deleted; only an error among the additions starts the rollback;
- the rollback undoes the additions that came before the first error in the
  order of the results; those that came after it stay;
- the rollback adds the file to every keyword of the first phase, whether it
  had it or not, and deletes the added keywords last: a keyword in both lists
  ends without the file;
- a batch that failed leaves the groups already served where they are, and
  records their roots up to the first failed one in the order of a `HashMap`.

`unsure` holds the storagers and prefixes for which an answer was lost, dropped
by an early return, or recorded while another one about them was outstanding:
of these the record may be old until the next answer. `others` are the keywords
another request served meanwhile.

`BooleanExpr` reads and prints over tokens. The rules are the code's: a
parenthesis is a group only if an operator stands before the one that closes
it, and otherwise part of a keyword (`Query(Linq)`). In `SetProofs` a
polynomial is the number of times each file is a factor of it; commitments and
accumulators tell such products apart, and Bezout coefficients exist when two
of them have no factor in common. `BooleanQuery` puts the client, the manager
and the client's verification behind each other.

## 3. Runs

| Run | Instance | Shows |
|---|---|---|
| `epring` | 2 storagers, fanout 2, root length 1, depth 3, threshold 1, at most 6 entries, counters up to 2 | tiling, agreement of the lookups, reported summaries, refinement of `PrefixDirectory` |
| `migration` | 2 clients, 2 keywords (one stays, one moves), 2 files, 5 requests, 1 failure, 1 reset | adds kept, deletes kept, reads find writes |
| `migration_deep` | 3 keywords, one of them with two different hashes, depth 3, so that a child of a moving prefix splits as well; no failure | the same with two overlapping migrations, import mode of MPT |
| `migration_live` | threshold 0, a moving keyword under each root prefix: two tasks queue; 1 failure, 1 reset | migrations end, buffered operations are applied |
| `outbox` | 2 prefixes, calls that change one, both or one twice, batches of 2, 3 changes, 3 faults, 1 reset | outbox, reset, registry and liveness properties |
| `indexes` | each index with 3 keywords (two share the first digits, and for MPT one begins another), 2 files, batches of 2, 2 segments, 4 requests (5 for AccTree and MEST); bucket capacity 2, one record a page, one page cached, a manifest every 2 mutations | refinement of `KeywordIndex`, proofs, lanes, directory, accumulators, what is on disk |
| `requests` | gate: 4 calls in 4 workloads, so that each kind waits for, or is held up by, each other; cache: 2 readers, 2 changes in 4 plans; query: every text of up to 4 tokens over two words, three operators and the parentheses, and longer ones in which they meet, answers of none, one, two files and one file twice, both modes; handlers: 2 requests in 7 pairs, 4 keywords in 3 prefixes of 2 storagers, 2 permits and 1 a storager, 2 attempts of a deletion (3 in the code), 2 failures | mutations seen by what waits for them, queries whole, waits end; cached routes current; expressions survive; honest proofs verify and say what is so; success means done, the rollback, the roots, quiet queries, every request ends |
| `confirm_window`, `stranded`, `two_hashes` | as above, smaller | counterexamples, see section 5 |
| `acctree_restart`, `acctrie_ghost` | one index, 3 requests, and the restart that `indexes` leaves out | counterexamples, see section 5 |

Why the bounds are enough. A split needs two entries' worth of hash digits and
one counter to pass the threshold; depth 3 gives a split of a root entry, a
split of its child and a leaf at full depth that refuses to split; 6 entries are
both splits. Five requests are enough to fill a prefix (two adds), to have one
request in each window of the migration and to delete; two clients are enough
for every race between a request and the task with a second request in the
buffer. In the outbox three changes with batches of two give a full batch, a
rest, and two changes of one prefix in one batch; three faults allow a failed
append, a timed-out submission and a crash in one history. The bounds are
`MaxCounter`, `MaxEntries`, `MaxIncoming`, `MaxRequests`, `MaxFailures`,
`MaxResets`, `MaxChanges` and `MaxFaults`, and for the indexes `Explored`, `Batches`,
`Segments` and `Budget`; they appear only in guards and as inputs. Three keywords and two files
are enough for a split of a node or a bucket, then of its child, a keyword with
a neighbour on both sides, a second lane and an evicted page; four or five
requests for a change, a prepare, a deferred and a last confirmation, or a change before and
after a restart. In `requests` a call waits for another only through the lock, a
count or a permit, so a waiter, its cause, one more holder and one more waiter
show every order; of the cache's keyword, readers do not meet each other except
through the cache, so two are enough for one to use what the other stored; the
pairs of requests have two of every handler that meet in a keyword, in a prefix
or in a storager only; with one permit per storager and two in all a request
waits for each kind, and two failures fail an addition and then its rollback.
The bounds there are `Workloads`, `Plans`, `Texts`, `Answers`, `Jobs`,
`DeleteRetries` and `MaxFaults`; `MaxInflight` and `MaxPerStorager` are the
code's own. Runs of
`SplitMigration`, `ChainOutbox`, the indexes and `requests` set `CHECK_DEADLOCK FALSE`: with all bounded
requests answered the system is at rest.

Symmetry in clients and files is used in the safety runs of `SplitMigration`;
neither is compared or ordered anywhere.

Fairness. `SplitMigration!FairSpec` has weak fairness of each handler and of the
migration task: tokio runs every ready task, and its mutex hands `migration_lock`
on in order of arrival, so a queued task gets it. RPCs answer or fail; there is
no fairness for failures, requests or resets. `ChainOutbox!FairSpec` has weak
fairness of the worker (with the restart), of the send and of mining: the
worker is a loop over a channel and an interval, a supervisor restarts the
manager, and the development chain mines what it has. Faults are bounded by
`MaxFaults`, so they end without being assumed away. `requests` has weak fairness
of a storager as a whole and of the manager as a whole: tokio does not leave
every ready task alone for ever. As a call takes finitely many steps, nothing
is needed about which of them goes on.

## 4. Proofs

Assumptions about the ring: `RingShape` (numbers of nodes, digits and levels), `MinimalRootLen`
(the root length is what `minimal_prefix_len` computes) and `RootNumerals`
(writing a number below `RootCount` in `RootLen` digits and reading it back are
inverse to each other). TLC evaluates all
three in the runs, and `OutboxAssumption`. The theorems on `SplitMigration` assume
`HashesAssumption` (a keyword has a hash of full length for the ring and one for
the storagers) and `BoundsAssumption` besides, which the runs evaluate too. They
assume nothing of how the two hashes relate: what is kept and read is proved of
every keyword that is neither in `raced` nor in `apart`, and `ApartDiffer` says that
only a keyword with two different hashes gets into `apart`. The theorems
on `StoragerGate` and `RouteCache` assume
`GateAssumption` (finitely many calls, each of one kind) and `CacheAssumption`
(finitely many changes), those on `ManagerRequests` `RequestAssumption` (every
keyword has a prefix on a storager and a place in the order, a job has the
keywords its kind has); TLC evaluates all three in `requests`. Those on
`AccTreeIndex` assume `OrderAssumption` (the keywords and the files are finite and
have an order) and `InputAssumption` (batches and segments are of these keywords
and files), which TLC evaluates in `indexes`; they have no bound on keywords,
files, lanes or requests.

| Theorem | Module | Statement |
|---|---|---|
| `TypeCorrect` | `EPRing_proof` | `Spec => []TypeOK` |
| `TilingInvariant` | `EPRing_proof` | `Spec => []LeavesTileKeySpace` |
| `RegistryInvariant` | `EPRing_proof` | `Spec => []RegistryMatchesRing` |
| `LookupsInvariant` | `EPRing_proof` | `Spec => []LookupsAgree` |
| `Refinement` | `EPRing_proof` | `Spec => ImplementsDirectory` |
| `TypeCorrect` | `ChainOutbox_proof` | `Spec => []TypeOK` |
| `ResetInvariant` | `ChainOutbox_proof` | `Spec => []NothingCrossesReset` |
| `OutboxInvariant` | `ChainOutbox_proof` | `Spec => []OutboxIsQueue` |
| `OrderInvariant` | `ChainOutbox_proof` | `Spec => [](OutboxIsQueue /\ OrderInv)` |
| `NeverRegresses` | `ChainOutbox_proof` | `Spec => LatestNeverRegresses` |
| `RegistryInvariant` | `ChainOutbox_proof` | `Spec => []RegistryCaughtUp` |
| `TypeCorrect` | `SplitMigration_proof` | `Spec => []TypeOK` |
| `KeptInvariance` | `SplitMigration_proof` | `Spec => [](TypeInv /\ KeptInv)` |
| `AddsKept` | `SplitMigration_proof` | `Spec => []AcknowledgedAddKept` |
| `DeletesKept` | `SplitMigration_proof` | `Spec => []AcknowledgedDeleteKept` |
| `ApartDiffer` | `SplitMigration_proof` | `Spec => [](\A kw \in apart : RingHash[kw] # AdsHash[kw])` |
| `WritesRead` | `SplitMigration_proof` | `Spec => []ReadYourWrites` |
| `KeptApart` | `GateAndCache_proof` | `GateSpec => []CallsKeptApart` |
| `CurrentRoutes` | `GateAndCache_proof` | `CacheSpec => []RoutesAreCurrent` |
| `Acknowledged` | `ManagerRequests_proof` | `RequestSpec => []AcknowledgedIsDone` |
| `RolledBack` | `ManagerRequests_proof` | `RequestSpec => []FailedUpdateUndone` |
| `QuietAnswered` | `ManagerRequests_proof` | `RequestSpec => []QuietQueriesAnswered` |
| `RootsRecorded` | `ManagerRequests_proof` | `RequestSpec => []RootsFollow` |
| `Invariance` | `AccTreeIndex_proof` | `Spec => []IInv` |
| `LanesFollow` | `AccTreeIndex_proof` | `Spec => []LanesFollowRecords` |
| `CleanLanes` | `AccTreeIndex_proof` | `Spec => []CleanLanesStored` |
| `MatchesAreProved` | `AccTreeIndex_proof` | `Spec => []MatchesProve` |
| `TreeImplements` | `AccTreeIndex_proof` | `<<"unsynced", "restart">> \notin Explored => (Spec => K!Spec)`, `K` being `KeywordIndex` |
| `AcceptedIsAnswer` | `SetAlgebra_proof` | a tree whose nodes' claims hold is of the files its leaves and operators give |
| `HonestPolynomials` | `SetAlgebra_proof` | the nodes the manager makes exist, their claims hold, the result is accepted |
| `PairingsAreExact` | `SetAlgebra_proof` | the pairings of a node hold only of what its operator gives |
| `HonestAccumulators` | `SetAlgebra_proof` | the accumulator nodes exist and their pairings hold |

The ring. None of the properties is inductive. That leaves tile the hash space
after a split depends on the children being new to the array, and nothing in the
tiling says so. `RingInv` of `PrefixRing_proof` is a statement about the array
alone, so `EPRing` and `SplitMigration` share it; it has these parts: entries are well
typed and leaves owned by existing nodes (`WellTyped`); an entry whose prefix
begins another's is split (`AncestorsSplit`); every hash is under a leaf
(`Covered`); no two entries have one prefix (`PrefixesUnique`); the child of a split entry
is where the entry points, and a root entry where its numeral says (`Linked`,
`Rooted`). `IInv` of `EPRing_proof` adds that what is reported
belongs to an entry and is its summary (`RegistryFits`). `SplitKeepsInv` is the
heart: an unsplit entry has nothing below it, so its children are new, and they
divide its hashes. Calls that touch one counter or one summary are covered by
`SameShapeInv`. Tiling then follows: of two leaves over one hash the shorter
prefix would begin the longer and its entry be split. The lookups are functions defined by recursion on the depth. `WalkExists` shows
that such a function exists, `RouteWalk` and `FindWalk` what it returns, level by
level: a statement over an interval of levels holds at all of them because a
least level where it failed would contradict the step before it
(`IntervalInduction`, from the well-foundedness of `<` on `Nat`). The refinement maps a split
to the directory's `Split` of the same prefix, a reset to `Reset` and every other
call to a stutter.

The chain worker. That the registry holds nothing from before a reset depends on
every place a change waits in. `IInv` of `ChainOutbox_proof` says that all of
them, from the handlers' hands through the file with its torn lines to the
mempool, hold only changes newer than the last reset (`OnlyCurrent`), that a
reset is the last command in the channel and no handler holds a change then
(`ResetIsLast`), which is the write gate of `reset_system`, and that a batch
exists only during a submission (`BatchWhileSubmitting`). The types follow from
the same containers. `OutboxIsQueue` is inductive relative to it. The only
assumption is `OutboxAssumption` (a batch is not empty, changes are lists of
prefixes); `RingShape` and the others belong to the ring.

That the registry never goes back is a statement about every place a change of a
prefix can be in, and `OrderInv` orders them: the lists handlers hold, the
commands in the channel, the queue and the file, the transactions, the registry
(`UpstreamOrder`, `ArrivalOrder`, `ChainOrder`), none of them newer than the last
report (`ReportedOnly`). The queue and the file are not simply behind the
transactions, as a batch whose receipt was late, or whose rewrite failed, is sent
again after it was mined. What holds instead is `Resumes`: whatever digest of the
prefix the chain has or will get, the first batch of the queue (and of the file,
as a restart would load it) holds one at least as new, or nothing in the queue
is older. It is preserved because the worker takes whole batches off the front,
never submits while the file is behind the queue (`BatchIsFront`), and a torn
file loads as nothing. `RegistryCaughtUp` needs in addition that a batch which was sent is in the
mempool or in the registry (`BatchMined`) and that the ring's summary is the
newest change of its prefix and still somewhere on the way (`SummaryKept`). The
statements are about prefixes outside `overtaken`: handlers do send in any order,
and then the registry may stay behind.

The migration. The three properties say of an acknowledged posting that it is in a
storager, in none, or in the right one; none of them says how it got there, so
the induction is about everything on the way. `TypeInv` first: the ring's `RingInv`
holds after every recorded answer (`RecordedRoutes`, from the lemmas of
`PrefixRing_proof`), a plan is of a prefix with room for children, and the lists
of the task are those of the loop it is in. `KeptInv` has three layers.

- Operations. One is made once and is in one hand (`OpsFit`), what waits in a
  list is under the list's prefix and waits for a task that will take it, or it
  is in `raced` (`ListsFit`), and an add that waits has the delete of the same
  posting behind it, in the list or with the client about to buffer it
  (`OrderFits`). This is why an add replayed late does not undo a delete.
- Plans. A route's prefix begins the hash of its keyword (`RoutePrefixes`), a
  prefix is split once and has one state (`ParentsFit`), and a keyword moves from
  one parent at a time: the ring routes it to a child of that parent, one level
  below, and at most one of a handler about to schedule, the queue and the task
  has the plan (`PlansFit`). A second split above or below a moving keyword would
  contradict the lengths, or it puts its keywords in `raced`. Two parents of one
  length over one keyword are one (`SameParent`).
- Postings. `StoreFits` follows a keyword through its move: all at the source
  until the import of its child, what was exported is what the source has, the
  target has all of it from the import on, the source nothing from the
  confirmation on. It is stated of keywords outside `apart`: the task has not told
  them apart, so a moved child has them under both hashes or under neither
  (`AlikeFits`), and what is selected, replaced and removed for a child is, of
  these keywords, what the ring moves (`ImportAt`, `ConfirmAt`). Segments hold only
  what is of their child by the storagers' hash (`SegmentsFit`), so the wrong
  postings in them touch no other keyword. `DoneFits` says
  the same of operations applied and not yet answered, `KeptFits` of answered ones.

A step disturbs this for a keyword in four ways only (`QuietPlanSteps`): the
recording that splits its prefix, the insertion of the state, the start of the
task, its end; any other step leaves its plans alone, and moves its postings only
as its own RPC, import, confirmation or replay (`AtStays`). The statements are
about keywords outside `raced` (and `apart`), so each step may assume of the keyword
that it is not in one of the windows: that is where the exemptions are used, and each of
them is needed somewhere.

`ReadsInv` adds what queries rest on: an override is where the ring routes unless
the keyword is moving (`OverrideFits`), so clearing the overrides before the
replay and checking what is recorded after it are both needed; until a child is
emptied its source has everything, imports and replays included; and the task comes
to the overrides only when every moved child is emptied (`EmptiedFits`). `LongRoutes`
sets the buffered delete apart, which is recorded with an empty prefix.

The calls of a storager. That a wait which finds the count 0 has nothing left to
wait for needs the count to be that of the mutations that have begun and not
ended (`CountIsExact`), and a mutation that has ended to have changed the index
(`WaitsHold`). The other half needs every reader to hold the lock (`LockIsHeld`),
and that all that changed the index after a read is a mutation (`ReadsFit`). The
notifier appears nowhere: a missed notification delays a call and breaks nothing.

The route cache. The epoch is the number of changes going on and twice the
number of those that are over (`EpochCounts`). So an even epoch with no two
changes at once means no change, and as none begins while the epoch stays,
what a reader has in hand (`ReadIsFresh`) and what is in the cache
(`CacheIsFresh`) is the current route. Without the exemption of crossed readers
the theorem is false, with two changes and one reader.

The manager's requests. Three properties are about requests that have ended.
`IInv` of `ManagerRequests_proof` says for each request how its end comes about.
A task is open while it is to be sent, is under way, or has failed; every keyword
of the phase is as the phase wants it or an open task is about it (`Covered`), so
when nothing is open everything is done. A task is closed only by an answer that
is accepted, and what such an answer says is still so (`AnswersHold`), because a
storager that serves another request puts the keyword in `others`. An update goes
on to its second phase only when nothing of the first is open, and then the
keywords that are old and not new are known to be without the file (the third
part of `Covered`). In a rollback one keyword may be in both lists:
`UndoneInOrder` says that as long as an addition is to be sent or under way, the
deletion of each added keyword is still to be sent, which holds since they go one
at a time (`OneAtATime`) in the order of the lists. `Undisturbed` is about
queries: what one has read of storagers that did not change since is what they
have, so the root agrees with the files and no proof is refused. What other
requests do is covered by one lemma (`BystanderKept`): it reaches a request only
through its own keywords, which `others` and `calm` record. The record of roots
appears in none of this.

`RootsInv` is about that record. Answers are recorded when a phase ends, long after
they were given, and the handlers record different parts of them. Of a storager
or prefix outside `unsure` all answers not yet recorded belong to one request;
at most one of them is still to be accepted, and it is the newest; once it is a
result, it is the last one about its storager and prefix and has the current root
(`OwnRoots`). So recording the last result is right, provided that no later answer
was left out, and those left out go to `unsure`. The groups of a batch are
recorded in any order, so there may only be one. `RecordedRoots` is the heart: one
lemma for all eight ends of phases, with the recorded results as a parameter.

The AccTree index. Its trees are defined level by level, as functions on 0 up to
the number of keywords: what is below a node, what is reached in a store, what a
search visits, the levels of a lane under construction, the root of a path. Such
a function is what its equations say once it is known to exist (`LevelsExist` and
its like); and a set of numbers that has 0 and with each number the next has all
of them (`Upward`, from the well-foundedness of `<` on `Nat`), which is all the
induction there is. A lane is then followed from its leaves up. `Grown` says of a
node of some height that no keyword is on both sides of a node below it, that it
has the keywords of its leaves, and that a search coming to it gets to every leaf
with the keyword; merging two such nodes makes one (`GrownMerge`). So a level of
`build_lane_tree` is made of such trees, over the same leaves (`PairedLevel`), and
`LaneIs` gives the leaves of lane i: the keywords with so many files. Three things
follow for sorted indexes (`GoodRecords`): a forest that is in the store is read
back as the index it was made of (`ForestRecords`), two indexes with one forest
are one (`OneIndex`), and an index that differs in one file of one keyword has
the same lanes before the place of that file (`RebuiltIs`, with `InOrderOpens` on
sorted sequences), which is why an insertion or a removal may leave those lanes
alone. Every match of a search has a path to the root (`LaneProves`).

`LanesFollowRecords` alone is not inductive: before hydration there are no lanes,
and those the first change makes come from LevelDB. `IInv` adds that the
manifest's roots are a whole forest of some sorted index (`ManifestIsForest`) and
`CleanLanesStored`; hydration then finds that index, and a sync that writes the
dirty lanes only makes the next manifest whole, since the others are already
stored. `LanesFollowRecords` and `CleanLanesStored` are needed for one another.
The refinement has `IndexInv` besides: what queries answer is what hydration
would find, from memory as from LevelDB (`AnswerIs`), and without a dirty lane the
manifest is the forest in memory, so that a restart changes no answer. That is the
place of the hypothesis of `TreeImplements`: a restart that meets lanes which were
not written loses records, which is the finding `acctree_restart`. The other
theorems do not need it.

The proofs of boolean answers. `SetProofs` builds and checks a tree by RECURSIVE
operators, out of the prover's reach; what it does at one node is in `SetAlgebra`,
and about that there are theorems. A tree is then any set of nodes with heights
that grow from children to parents (`ProofTree`), the files it stands for those of
each node in turn (`StandFor`), and the induction goes by the least height at
which a claim would fail (`NoLeastFailure`). What a node claims are the two sides
as products of a common part and coprime quotients; then the common part is the
minimum of the sides and the whole product their maximum (`CommonIsMeet`), so
the factors of the root are the files of the answer, even when a leaf lists a
file several times and the result is no longer the polynomial of a set. In the
other direction the quotients of sets by what they share are coprime
(`SetsSplit`), so the manager never fails to build a node over sets. Assumed are
that the parts of a node are polynomials of factors X + fid, as divisors of the
leaves' are, and that a leaf carries the polynomial of its list. That a
RECURSIVE check of the root asks for these claims at every node, and that an
expression's tree has the files `Evaluate` gives, remains with TLC.

Model-checked only. All liveness, that of `SplitMigration` included, which under
fairness is out of the prover's reach. `BooleanExpr`, `SetProofs`, `BooleanQuery`,
`MptTrie`, `AccTrie` and `MestIndex` are recursive over data (expressions, tries,
directories) and declare RECURSIVE operators, on which the prover cannot work;
they and the modules built on them are for TLC. So these are checked and not
proved: `MptProofsVerify`, `MestDirectoryRoutes`, `MestStoredKeysProve`,
`TrieUpkeepIsRebuild`, `TrieProofsAreTrue`, `TrieStoreFollows` and
`TrieKillKeepsListed` of `MCIndexes`, `Implements` for the other three indexes,
and `ExpressionSurvives` and `HonestProofsVerify` of `MCRequests`, the latter
apart from the four theorems above. What an expression or a trie of any depth is
read or evaluated to needs induction over data, for which the library's theorems
have an operator as a parameter.

## 5. Findings

- `confirm_window`: between the removal of the retained segment at the source
  and the end of the task, queries are still sent to the source and miss
  acknowledged files; the proto file promises source-side queryability until the
  migration is confirmed.
- `stranded`: an operation buffered after the pending list was taken, and before
  the state is confirmed, is acknowledged and never applied.
- `two_hashes`: the indexes select a prefix by SHA-256 and the ring routes
  by xxh3, so a migration moves the wrong keys, even with one client
  (`SegmentsAreTheRings`).
- `acctree_restart`: an AccTree index writes nothing when a file is added; what
  was added since the last delete or batch is gone after a restart, although a
  test of the repository says it is there.
- `acctrie_ghost`: a restart in page mode takes page files for manifests and
  restores records twice; after a delete the order of the keys has a keyword
  without a leaf, on which a later proof of absence panics.

## 6. Not modelled, and the plan

Situations in which an index does not answer as `KeywordIndex` promises, left out
of the run `indexes` by `Explored`:

- MPT after a restart, when only the root node is in memory (queries and adds load
  the path they need, and are in the run): a delete, a batch and an import meet
  subtrees that are not loaded, a drain and a confirmation find no records to
  remove; and a restart after a keyword was removed, since the removal can leave
  a node that is in the root's hash and not in the database;
- AccTree: a restart with lanes that were not written (run `acctree_restart`);
- MEST: an import of a keyword already held; deletion by drain or confirm of a
  keyword whose value is several files joined into one; a state file torn by a
  crash, after which the index starts empty;
- AccTrie: a delete of a file that is not there when the keyword has one file; an
  import into a digit with other records; in page mode restarts, and resets
  followed by queries (run `acctrie_ghost`).

Not modelled:

- `ConsistentHash`: the map from prefixes to storagers is fixed while the system
  runs, and a constant of the models; how the hash spreads them is not a
  property of behaviour;
- pairing, polynomial and field arithmetic: nothing finite to check; the models
  take from it what it makes (a commitment tells products apart);
- updates and batches during a split: `ManagerRequests` has no split, migration or
  reset, and `SplitMigration` has single operations only. So nothing has the
  update whose second phase meets a migration that began after its first, or
  `presplit` with postings behind it (a hazard without a property), or the
  replay of updates and the root summaries of children;
- boolean queries during a split: the queries of `SplitMigration` have one
  keyword, as `query_single_keyword` serves them. `query_boolean_function` routes each
  word with `route_keyword` (service.rs:2061), which is the fault
  `QueryRoutesAsWrites` that breaks `ReadYourWrites` when put in the place of
  `QueryRoutes`: a boolean query during a migration may miss what a query of one
  word finds. It is listed as a hazard without a property;
- configuration, metrics, the command line, the launcher, the benchmark.

What is next, should the project go on: `MestIndex` with its recursion as
functions, as in `AccTreeIndex`, and proofs about it; updates and batches in
`SplitMigration`.
