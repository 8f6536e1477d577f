---------------------------- MODULE ChainOutbox ----------------------------
(***************************************************************************)
(* The submission worker of manager/src/blockchain.rs between the ring and *)
(* the EPRootProofRegistry contract: the unbounded channel, the pending    *)
(* queue, its file (the outbox), one commitBatch at a time, the chain's    *)
(* transactions in nonce order, crashes of the manager and resets.         *)
(*                                                                         *)
(* The summaries the ring reports are numbered in the order it reports     *)
(* them (`version`), so a digest is a number and a newer one is larger.    *)
(***************************************************************************)
EXTENDS Integers, Sequences

CONSTANTS
    Prefixes,
    PrefixLists,  \* prefixes one call of the router may change, in order, some twice
    BatchSize,    \* MANAGER_ETH_BATCH_SIZE
    MaxChanges,   \* bound: summaries reported
    MaxFaults,    \* bound: failed writes, submissions and resets, crashes
    MaxResets,    \* bound: resets asked for
    Torn          \* a line of the outbox that does not parse

ASSUME OutboxAssumption ==
    /\ BatchSize \in Nat \ {0}
    /\ PrefixLists \subseteq Seq(Prefixes)
    /\ MaxChanges \in Nat /\ MaxFaults \in Nat /\ MaxResets \in Nat

VARIABLES
    version,    \* summaries reported so far
    reported,   \* prefix -> the ring's summary, 0 when empty
    unsent,     \* change lists a handler got from the router and has not enqueued
    channel,    \* commands to the worker
    worker,     \* "idle", "submit", "sent" or "down"
    batch,      \* the batch being submitted
    orphan,     \* the batch of a submission given up that may still be sent
    pending,    \* the worker's queue
    dirty,      \* outbox_dirty
    backoff,    \* next_retry_at lies in the future
    file,       \* lines of the outbox file
    mempool,    \* transactions sent and not mined
    latest,     \* latestSummaryDigests of the contract
    faults, resets,
    \* What the properties remember.
    floor,      \* `version` at the last reset of the chain
    overtaken   \* prefixes whose changes reached the channel out of order, were
                \* sent by an orphan, or were left in the file by a failed reset

manager == <<version, reported, unsent, channel>>
queued  == <<pending, dirty, backoff, file>>
chain   == <<orphan, mempool, latest>>
bounds  == <<faults, resets>>
vars == <<version, reported, unsent, channel, worker, batch, pending, dirty, backoff,
          file, orphan, mempool, latest, faults, resets, floor, overtaken>>

Changes  == [prefix : Prefixes, digest : 1 .. MaxChanges]
ResetCmd == [kind |-> "reset", list |-> <<>>]
Commit(list) == [kind |-> "commit", list |-> list]

PrefixesOf(list) == {list[i].prefix : i \in DOMAIN list}

\* Where the changes of a list leave prefix p, which had digest `before`: one call of
\* update_prefix_summaries may change a prefix more than once.
Outcome(list, p, before) ==
    LET own == {j \in DOMAIN list : list[j].prefix = p}
    IN  IF own = {} THEN before
        ELSE list[CHOOSE j \in own : \A k \in own : k =< j].digest

AtMost(n, m) == IF n =< m THEN n ELSE m
Front(list, n) == SubSeq(list, 1, AtMost(n, Len(list)))
Rest(list, n)  == SubSeq(list, n + 1, Len(list))

Fault == faults < MaxFaults /\ faults' = faults + 1

(***************************************************************************)
(* The handlers                                                            *)
(***************************************************************************)
Resetting == \E i \in DOMAIN channel : channel[i].kind = "reset"

\* A router call returns the changes, its lock on the ring released.  No handler
\* runs while reset_system waits for the worker's answer.
RingChange(ps) ==
    LET list == [i \in DOMAIN ps |-> [prefix |-> ps[i], digest |-> version + i]] IN
    /\ worker # "down" /\ ~Resetting
    /\ version + Len(ps) =< MaxChanges
    /\ version' = version + Len(ps)
    /\ reported' = [p \in Prefixes |-> Outcome(list, p, reported[p])]
    /\ unsent' = unsent \cup {list}
    /\ UNCHANGED <<channel, worker, batch, queued, chain, bounds, floor, overtaken>>

\* Prefixes of `list` with an older change that is still to be enqueued.
Overtakes(list) ==
    {p \in PrefixesOf(list) :
        \E other \in unsent \ {list} :
            \E i \in DOMAIN other, j \in DOMAIN list :
                /\ other[i].prefix = p /\ list[j].prefix = p
                /\ other[i].digest < list[j].digest}

\* Blockchain::enqueue, outside every lock: handlers may send in any order.
Enqueue(list) ==
    /\ unsent' = unsent \ {list}
    /\ channel' = Append(channel, Commit(list))
    /\ overtaken' = overtaken \cup Overtakes(list)
    /\ UNCHANGED <<version, reported, worker, batch, queued, chain, bounds, floor>>

\* reset_system, behind the write gate: the ring is new, then Blockchain::reset.
AskReset ==
    /\ worker # "down" /\ ~Resetting
    /\ unsent = {}
    /\ resets < MaxResets
    /\ resets' = resets + 1
    /\ reported' = [p \in Prefixes |-> 0]
    /\ channel' = Append(channel, ResetCmd)
    /\ UNCHANGED <<version, unsent, worker, batch, queued, chain, faults, floor, overtaken>>

(***************************************************************************)
(* The outbox file                                                         *)
(***************************************************************************)
\* A loader that does not mind a torn line.
LoadedTorn(lines) == lines

\* load_outbox: one line that does not parse and nothing is recovered.
Loaded(lines) == IF \E i \in DOMAIN lines : lines[i] = Torn THEN <<>> ELSE lines

\* What a failed or interrupted append_outbox leaves of the lines it was writing.
PartialAppends(list) ==
    {SubSeq(list, 1, n) : n \in 0 .. Len(list)}
        \cup {Append(SubSeq(list, 1, n), Torn) : n \in 0 .. Len(list) - 1}

(***************************************************************************)
(* The worker (run_worker).  The select is biased: the tick waits for an   *)
(* empty channel.                                                          *)
(***************************************************************************)
\* Faulty conditions: one that submits while the file is known to be behind, one
\* that waits for a full batch at the tick too.
StartsFlushUnclean(queue, unclean, due) == due /\ queue # <<>>
StartsFlushFull(queue, unclean, due) == ~unclean /\ due /\ Len(queue) >= BatchSize

\* When the loop calls flush_pending.
StartsFlush(queue, unclean, due) == ~unclean /\ due /\ queue # <<>>

Flushing(queue) == worker' = "submit" /\ batch' = Front(queue, BatchSize)
Waiting == worker' = "idle" /\ batch' = <<>>

\* A worker that forgets a failed append.
UncleanAsBefore(failed) == dirty

Unclean(failed) == dirty \/ failed

Receive(list, failed) ==
    LET queue == pending \o list IN
    /\ channel' = Tail(channel)
    /\ pending' = queue
    /\ dirty' = Unclean(failed)
    /\ IF StartsFlush(queue, Unclean(failed), ~backoff /\ Len(queue) >= BatchSize)
       THEN Flushing(queue)
       ELSE Waiting

ReceiveCommit ==
    /\ worker = "idle" /\ channel # <<>> /\ Head(channel).kind = "commit"
    /\ LET list == Head(channel).list IN
        /\ file' = file \o list
        /\ Receive(list, FALSE)
    /\ UNCHANGED <<version, reported, unsent, backoff, chain, bounds, floor, overtaken>>

\* append_outbox fails: the queue goes on, the file is to be rewritten.
AppendFails ==
    /\ worker = "idle" /\ channel # <<>> /\ Head(channel).kind = "commit"
    /\ Fault
    /\ LET list == Head(channel).list IN
        /\ \E part \in PartialAppends(list) : file' = file \o part
        /\ Receive(list, TRUE)
    /\ UNCHANGED <<version, reported, unsent, backoff, chain, resets, floor, overtaken>>

\* A worker whose queue from before the reset lives on.
PendingKept == pending

ClearedPending == <<>>

NewChain ==
    /\ orphan' = <<>> /\ mempool' = <<>>
    /\ latest' = [p \in Prefixes |-> 0]

\* The worker clears its queue and its file; the script recreates the chain.
ReceiveReset ==
    /\ worker = "idle" /\ channel # <<>> /\ Head(channel).kind = "reset"
    /\ channel' = Tail(channel)
    /\ pending' = ClearedPending /\ dirty' = FALSE /\ file' = <<>>
    /\ NewChain
    /\ floor' = version
    /\ overtaken' = {}
    /\ UNCHANGED <<version, reported, unsent, worker, batch, backoff, bounds>>

\* The script fails before or after it wiped the chain.  The file may be kept too:
\* an error of clear_outbox is only logged.
ResetFails ==
    /\ worker = "idle" /\ channel # <<>> /\ Head(channel).kind = "reset"
    /\ Fault
    /\ channel' = Tail(channel)
    /\ pending' = ClearedPending /\ dirty' = FALSE
    /\ \/ file' = <<>> /\ UNCHANGED overtaken
       \/ file' = file /\ file # <<>> /\ overtaken' = Prefixes
    /\ NewChain \/ UNCHANGED chain
    /\ UNCHANGED <<version, reported, unsent, worker, batch, backoff, resets, floor>>

\* A dirty outbox is rewritten first, then the queue is submitted if it is time.
Tick ==
    /\ worker = "idle" /\ channel = <<>>
    /\ dirty \/ (pending # <<>> /\ ~backoff)
    /\ file' = IF dirty THEN pending ELSE file
    /\ dirty' = FALSE
    /\ IF StartsFlush(pending, FALSE, ~backoff) THEN Flushing(pending) ELSE Waiting
    /\ UNCHANGED <<manager, pending, backoff, chain, bounds, floor, overtaken>>

\* The rewrite of a dirty outbox fails: it stays dirty, and nothing is submitted.
TickRewriteFails ==
    /\ worker = "idle" /\ channel = <<>> /\ dirty
    /\ Fault
    /\ UNCHANGED <<manager, worker, batch, queued, chain, resets, floor, overtaken>>

RetryDue ==
    /\ backoff
    /\ backoff' = FALSE
    /\ UNCHANGED <<manager, worker, batch, pending, dirty, file, chain, bounds, floor, overtaken>>

(***************************************************************************)
(* One submission (submit_once, chain_submit.sh) and the chain             *)
(***************************************************************************)
SendTransaction ==
    /\ worker = "submit"
    /\ worker' = "sent"
    /\ mempool' = Append(mempool, batch)
    /\ UNCHANGED <<manager, batch, queued, orphan, latest, bounds, floor, overtaken>>

\* A submitter killed before it sent may leave its own child behind.
GiveUp == IF worker = "submit" THEN orphan' \in {orphan, batch} ELSE UNCHANGED orphan

\* An error or the timeout, before the transaction is sent or after it.
SubmitFails ==
    /\ worker \in {"submit", "sent"}
    /\ Fault
    /\ Waiting
    /\ backoff' = TRUE
    /\ GiveUp
    /\ UNCHANGED <<manager, pending, dirty, file, mempool, latest, resets, floor, overtaken>>

\* The child a killed submitter left behind sends the transaction after all.
OrphanSends ==
    /\ orphan # <<>>
    /\ orphan' = <<>>
    /\ mempool' = Append(mempool, orphan)
    /\ overtaken' = overtaken \cup PrefixesOf(orphan)
    /\ UNCHANGED <<manager, worker, batch, queued, latest, bounds, floor>>

\* A worker that takes the whole queue for committed.
DrainedAll == <<>>

Drained == Rest(pending, Len(batch))

\* The receipt: transactions of one account are mined in the order sent, so the
\* worker's own is mined when none is left.
Confirmed ==
    /\ worker = "sent" /\ mempool = <<>>
    /\ Waiting
    /\ pending' = Drained
    /\ backoff' = FALSE

SubmitConfirmed ==
    /\ Confirmed
    /\ file' = pending' /\ dirty' = FALSE
    /\ UNCHANGED <<manager, orphan, mempool, latest, bounds, floor, overtaken>>

\* rewrite_outbox fails after the confirmation: the file still holds the batch.
ConfirmedRewriteFails ==
    /\ Confirmed
    /\ Fault
    /\ dirty' = TRUE
    /\ UNCHANGED <<manager, file, orphan, mempool, latest, resets, floor, overtaken>>

\* commitBatch: where a batch leaves the registry, the last change of each prefix.
\* A change equal to the latest digest is skipped there.
LatestAfter(txn) == [p \in Prefixes |-> Outcome(txn, p, latest[p])]

Mine ==
    /\ mempool # <<>>
    /\ latest' = LatestAfter(Head(mempool))
    /\ mempool' = Tail(mempool)
    /\ UNCHANGED <<manager, worker, batch, queued, orphan, bounds, floor, overtaken>>

(***************************************************************************)
(* Crash and restart of the manager.  The ring and the channel are memory; *)
(* the file, sent transactions and the chain stay.                         *)
(***************************************************************************)
Crash ==
    /\ worker # "down"
    /\ Fault
    /\ worker' = "down" /\ batch' = <<>>
    /\ reported' = [p \in Prefixes |-> 0]
    /\ unsent' = {} /\ channel' = <<>>
    /\ pending' = <<>> /\ dirty' = FALSE /\ backoff' = FALSE
    \* Between two lines of append_outbox, or anywhere else.
    /\ \/ /\ worker = "idle" /\ channel # <<>>
          /\ \E part \in PartialAppends(Head(channel).list) : file' = file \o part
       \/ file' = file
    /\ GiveUp
    /\ UNCHANGED <<version, mempool, latest, resets, floor, overtaken>>

Restart ==
    /\ worker = "down"
    /\ Waiting
    /\ pending' = Loaded(file)
    /\ UNCHANGED <<manager, dirty, backoff, file, chain, bounds, floor, overtaken>>

(***************************************************************************)
(* Specification                                                           *)
(***************************************************************************)
Init ==
    /\ version = 0 /\ reported = [p \in Prefixes |-> 0] /\ unsent = {} /\ channel = <<>>
    /\ worker = "idle" /\ batch = <<>> /\ orphan = <<>>
    /\ pending = <<>> /\ dirty = FALSE /\ backoff = FALSE /\ file = <<>>
    /\ mempool = <<>> /\ latest = [p \in Prefixes |-> 0]
    /\ faults = 0 /\ resets = 0
    /\ floor = 0 /\ overtaken = {}

WorkerStep ==
    \/ ReceiveCommit \/ ReceiveReset \/ Tick \/ RetryDue
    \/ SendTransaction \/ SubmitConfirmed \/ Restart

Faulty ==
    \/ AppendFails \/ ResetFails \/ TickRewriteFails \/ SubmitFails
    \/ ConfirmedRewriteFails \/ Crash \/ OrphanSends

Next ==
    \/ \E ps \in PrefixLists : RingChange(ps)
    \/ \E list \in unsent : Enqueue(list)
    \/ AskReset
    \/ WorkerStep
    \/ Faulty
    \/ Mine

Spec == Init /\ [][Next]_vars

\* Handlers and the worker are tasks the runtime runs; the developer chain mines
\* what it is sent; an unending row of faults is not assumed away, it is bounded.
FairSpec ==
    /\ Spec
    /\ WF_vars(WorkerStep)
    /\ WF_vars(\E list \in unsent : Enqueue(list))
    /\ WF_vars(Mine)

(***************************************************************************)
(* Properties                                                              *)
(***************************************************************************)
Commands == [kind : {"commit", "reset"}, list : Seq(Changes)]

TypeOK ==
    /\ version \in 0 .. MaxChanges
    /\ reported \in [Prefixes -> 0 .. MaxChanges]
    /\ unsent \subseteq Seq(Changes)
    /\ channel \in Seq(Commands)
    /\ worker \in {"idle", "submit", "sent", "down"}
    /\ batch \in Seq(Changes) /\ orphan \in Seq(Changes)
    /\ pending \in Seq(Changes)
    /\ dirty \in BOOLEAN /\ backoff \in BOOLEAN
    /\ file \in Seq(Changes \cup {Torn})
    /\ mempool \in Seq(Seq(Changes))
    /\ latest \in [Prefixes -> 0 .. MaxChanges]
    /\ faults \in 0 .. MaxFaults /\ resets \in 0 .. MaxResets
    /\ floor \in 0 .. version
    /\ overtaken \subseteq Prefixes

IsTorn(lines) == \E i \in DOMAIN lines : lines[i] = Torn

\* A running worker that does not know its outbox to be out of step could crash
\* and recover exactly its queue.  (A torn line, or the lines a failed reset left,
\* stay until the next rewrite; what is lost then is lost with the ring itself.)
OutboxIsQueue ==
    (worker # "down" /\ ~dirty) =>
        \/ file = pending
        \/ IsTorn(file)
        \/ overtaken = Prefixes

\* Nothing reported before a reset is committed to the chain the reset made: not
\* from the queue, the file, a timed out submission or a crash in between.
NothingCrossesReset ==
    \A p \in Prefixes : latest[p] = 0 \/ latest[p] > floor

\* No transaction takes the registry back to an older summary, through retries of
\* batches that were mined after all, failed rewrites and crashes: every replay
\* starts at a batch boundary.  (Changes enqueued out of order excepted.)
LatestNeverRegresses ==
    [][\A p \in Prefixes \ overtaken :
        latest'[p] >= latest[p] \/ (latest'[p] = 0 /\ mempool' = <<>>)]_vars

\* With the worker at rest the registry holds the ring's own summaries.
Quiet ==
    /\ unsent = {} /\ channel = <<>> /\ mempool = <<>> /\ pending = <<>>
    /\ worker = "idle"

RegistryCaughtUp ==
    Quiet => \A p \in Prefixes \ overtaken : reported[p] \in {0, latest[p]}

\* Every summary the ring reports is committed in the end, unless a newer one, a
\* reset or a crash of the manager takes its place first.
EventuallyCommitted ==
    \A p \in Prefixes, v \in 1 .. MaxChanges :
        reported[p] = v ~> (latest[p] = v \/ reported[p] # v \/ p \in overtaken)
=============================================================================
