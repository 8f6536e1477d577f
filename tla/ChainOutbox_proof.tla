------------------------- MODULE ChainOutbox_proof -------------------------
(***************************************************************************)
(* Theorems about ChainOutbox, for every set of prefixes, batch size and   *)
(* number of faults and resets: its types, that nothing reported before a  *)
(* reset reaches the chain the reset made, and, in the second part, that   *)
(* the changes of a prefix keep their order.                               *)
(*                                                                         *)
(* What the contract holds is not enough to prove that: a reset must find  *)
(* old changes nowhere.  The invariant says that every place a change      *)
(* can wait in, the file included, holds only changes newer than the last  *)
(* reset, and that nothing is sent to the worker behind a reset, so that   *)
(* no place is left to clear when the worker makes the new chain.          *)
(***************************************************************************)
EXTENDS ChainOutbox, SequenceTheorems, FiniteSetTheorems, TLAPS

\* The changes reported since the last reset.
Current == {c \in Changes : c.digest > floor}

CurrentCommands == [kind : {"commit", "reset"}, list : Seq(Current)]

\* Nothing a reset must clear is older than the reset before it.
OnlyCurrent ==
    /\ unsent \subseteq Seq(Current)
    /\ channel \in Seq(CurrentCommands)
    /\ batch \in Seq(Current) /\ orphan \in Seq(Current)
    /\ pending \in Seq(Current)
    /\ file \in Seq(Current \cup {Torn})
    /\ mempool \in Seq(Seq(Current))
    /\ latest \in [Prefixes -> {0} \cup {v \in 1 .. MaxChanges : v > floor}]

\* A reset is the last command, and no handler holds a change it could send behind it.
ResetIsLast ==
    \A i \in DOMAIN channel : channel[i].kind = "reset" => i = Len(channel) /\ unsent = {}

\* A batch exists while it is being submitted.
BatchWhileSubmitting == worker \in {"idle", "down"} => batch = <<>>

Simple ==
    /\ version \in 0 .. MaxChanges
    /\ reported \in [Prefixes -> 0 .. MaxChanges]
    /\ worker \in {"idle", "submit", "sent", "down"}
    /\ dirty \in BOOLEAN /\ backoff \in BOOLEAN
    /\ faults \in 0 .. MaxFaults /\ resets \in 0 .. MaxResets
    /\ floor \in 0 .. version
    /\ overtaken \subseteq Prefixes

IInv == Simple /\ OnlyCurrent /\ ResetIsLast /\ BatchWhileSubmitting

(***************************************************************************)
(* Sequences of changes                                                    *)
(***************************************************************************)

\* A set of positions of a sequence that is not empty has a last one: of the sets
\* of later positions one is least.
LEMMA LastPosition ==
    ASSUME NEW n \in Nat, NEW own \in SUBSET (1 .. n), own # {}
    PROVE  \E j \in own : \A k \in own : k =< j
<1> DEFINE Later(j) == {k \in own : k > j}
           T == {Later(j) : j \in own}
<1>1. IsFiniteSet(own)
  <2>1. IsFiniteSet(1 .. n)
    BY FS_Interval
  <2> QED BY <2>1, FS_Subset
<1>2. IsWellFoundedOn(StrictSubsetOrdering(own), SUBSET own)
  BY <1>1, FS_StrictSubsetOrderingWellFounded, FS_FiniteSubsetsOfFinite
<1>3. T \subseteq SUBSET own /\ T # {}
  OBVIOUS
<1>4. PICK x \in T : \A y \in T : <<y, x>> \notin StrictSubsetOrdering(own)
  <2> HIDE DEF T
  <2> QED BY <1>2, <1>3, WFMin
<1>5. PICK j \in own : x = Later(j)
  OBVIOUS
<1>6. ASSUME NEW k \in own, ~(k =< j) PROVE FALSE
  <2>0. own \subseteq Int /\ j \in Int /\ k \in Int /\ k > j
    BY <1>6
  <2>1. Later(k) \subseteq Later(j) /\ k \in Later(j) /\ k \notin Later(k)
    <3> HIDE <1>4
    <3>1. k \in Later(j) /\ k \notin Later(k)
      BY <2>0
    <3>2. ASSUME NEW m \in Later(k) PROVE m \in Later(j)
      BY <2>0
    <3> QED BY <3>1, <3>2
  <2>2. <<Later(k), Later(j)>> \in StrictSubsetOrdering(own)
    <3> HIDE DEF Later
    <3>1. Later(k) \in SUBSET own /\ Later(j) \in SUBSET own
      BY DEF Later
    <3> QED BY <2>1, <3>1 DEF StrictSubsetOrdering
  <2> QED BY <2>2, <1>4, <1>5
<1> QED BY <1>6

\* flush_pending's batch is a part of the queue.
LEMMA FrontTyped ==
    ASSUME NEW S, NEW q \in Seq(S), NEW n \in Nat
    PROVE  Front(q, n) \in Seq(S)
<1>1. AtMost(n, Len(q)) \in 0 .. Len(q)
  BY LenProperties DEF AtMost
<1>2. \A i \in 1 .. AtMost(n, Len(q)) : q[i] \in S
  BY <1>1, LenProperties
<1> QED BY <1>1, <1>2, SubSeqProperties DEF Front

\* What stays in the queue after a batch is a part of it.
LEMMA RestTyped ==
    ASSUME NEW S, NEW q \in Seq(S), NEW n \in Nat
    PROVE  Rest(q, n) \in Seq(S)
<1>1. Len(q) \in Nat /\ \A i \in n + 1 .. Len(q) : q[i] \in S
  BY LenProperties
<1> QED BY <1>1, SubSeqProperties DEF Rest

\* append_outbox adds changes of the list and at most one torn line.
LEMMA PartialTyped ==
    ASSUME NEW S, NEW list \in Seq(S), NEW part \in PartialAppends(list)
    PROVE  part \in Seq(S \cup {Torn})
<1> DEFINE W == S \cup {Torn}
<1>1. Len(list) \in Nat /\ \A i \in 1 .. Len(list) : list[i] \in W
  BY LenProperties
<1>2. ASSUME NEW n \in 0 .. Len(list) PROVE SubSeq(list, 1, n) \in Seq(W)
  <2>1. n \in Int /\ \A i \in 1 .. n : list[i] \in W
    BY <1>1
  <2> QED BY <2>1, SubSeqProperties
<1>3. ASSUME NEW n \in 0 .. Len(list) - 1 PROVE Append(SubSeq(list, 1, n), Torn) \in Seq(W)
  <2>1. SubSeq(list, 1, n) \in Seq(W)
    BY <1>1, <1>2
  <2> QED BY <2>1, AppendProperties
<1> QED BY <1>2, <1>3 DEF PartialAppends

\* load_outbox recovers changes or nothing, never a torn line.
LEMMA LoadedTyped ==
    ASSUME NEW S, NEW lines \in Seq(S \cup {Torn})
    PROVE  Loaded(lines) \in Seq(S)
<1>1. CASE \E i \in DOMAIN lines : lines[i] = Torn
  BY <1>1, EmptySeq DEF Loaded
<1>2. CASE ~\E i \in DOMAIN lines : lines[i] = Torn
  <2>1. /\ Len(lines) \in Nat /\ DOMAIN lines = 1 .. Len(lines)
        /\ lines \in [1 .. Len(lines) -> S \cup {Torn}]
    BY LenProperties
  <2>2. lines \in [1 .. Len(lines) -> S]
    BY <2>1, <1>2
  <2>3. lines \in Seq(S)
    BY <2>1, <2>2
  <2> QED BY <2>3, <1>2 DEF Loaded
<1> QED BY <1>1, <1>2

\* A list leaves a prefix where its last change of the prefix does.
LEMMA OutcomeOf ==
    ASSUME NEW S, NEW list \in Seq(S), NEW p, NEW before
    PROVE  \/ /\ Outcome(list, p, before) = before
              /\ \A i \in DOMAIN list : list[i].prefix # p
           \/ \E i \in DOMAIN list :
                /\ list[i] \in S /\ list[i].prefix = p
                /\ Outcome(list, p, before) = list[i].digest
                /\ \A k \in DOMAIN list : list[k].prefix = p => k =< i
<1> DEFINE own == {j \in DOMAIN list : list[j].prefix = p}
           last == CHOOSE j \in own : \A k \in own : k =< j
<1>0. Len(list) \in Nat /\ DOMAIN list = 1 .. Len(list) /\ \A j \in DOMAIN list : list[j] \in S
  BY LenProperties
<1>1. CASE own = {}
  BY <1>1 DEF Outcome
<1>2. CASE own # {}
  <2>1. own \in SUBSET (1 .. Len(list))
    BY <1>0
  <2>2. \E j \in own : \A k \in own : k =< j
    <3> HIDE DEF own
    <3> QED BY <1>0, <1>2, <2>1, LastPosition
  <2>3. last \in own /\ \A k \in own : k =< last
    <3> HIDE DEF own
    <3> QED BY <2>2
  <2>4. Outcome(list, p, before) = list[last].digest
    BY <1>2 DEF Outcome
  <2> HIDE DEF last
  <2> QED BY <1>0, <2>3, <2>4
<1> QED BY <1>1, <1>2

\* commitBatch leaves for each prefix what was there or a digest of the batch.
LEMMA LatestTyped ==
    ASSUME NEW txn \in Seq(Current),
           NEW D, latest \in [Prefixes -> D], \A c \in Current : c.digest \in D
    PROVE  LatestAfter(txn) \in [Prefixes -> D]
<1> SUFFICES ASSUME NEW p \in Prefixes
             PROVE  Outcome(txn, p, latest[p]) \in D
  BY DEF LatestAfter
<1> QED BY OutcomeOf

\* What is current depends on the last reset alone.
LEMMA CurrentKept ==
    ASSUME UNCHANGED floor
    PROVE  Current' = Current /\ CurrentCommands' = CurrentCommands
BY DEF Current, CurrentCommands
(***************************************************************************)
(* The invariant                                                           *)
(***************************************************************************)

\* It holds of a manager that starts with an empty outbox.
LEMMA InitInv == Init => IInv
<1> SUFFICES ASSUME Init PROVE IInv
  OBVIOUS
<1> USE OutboxAssumption DEF Init
<1>1. Simple
  <2>1. dirty \in BOOLEAN /\ backoff \in BOOLEAN
    OBVIOUS
  <2>2. reported \in [Prefixes -> 0 .. MaxChanges]
    OBVIOUS
  <2>3. version \in 0 .. MaxChanges /\ faults \in 0 .. MaxFaults /\ resets \in 0 .. MaxResets
    OBVIOUS
  <2> QED BY <2>1, <2>2, <2>3 DEF Simple
<1>2. OnlyCurrent
  BY EmptySeq DEF OnlyCurrent
<1>3. ResetIsLast
  BY DEF ResetIsLast
<1>4. BatchWhileSubmitting
  BY DEF BatchWhileSubmitting
<1> QED BY <1>1, <1>2, <1>3, <1>4 DEF IInv

\* The handlers' steps: changes are newer than the last reset, and none is reported
\* or sent while a reset is on its way.
LEMMA HandlerInv ==
    ASSUME IInv,
           \/ \E ps \in PrefixLists : RingChange(ps)
           \/ \E list \in unsent : Enqueue(list)
           \/ AskReset
    PROVE  IInv'
<1> USE OutboxAssumption
<1>1. floor' = floor
  BY DEF RingChange, Enqueue, AskReset
<1>2. Current' = Current /\ CurrentCommands' = CurrentCommands
  BY <1>1, CurrentKept
<1>3. CASE \E ps \in PrefixLists : RingChange(ps)
  <2>1. PICK ps \in PrefixLists : RingChange(ps)
    BY <1>3
  <2> DEFINE list == [i \in DOMAIN ps |-> [prefix |-> ps[i], digest |-> version + i]]
  <2>2. ps \in Seq(Prefixes) /\ Len(ps) \in Nat /\ DOMAIN ps = 1 .. Len(ps)
    BY LenProperties
  <2>3. list \in Seq(Current)
    <3>1. \A i \in 1 .. Len(ps) :
            /\ ps[i] \in Prefixes
            /\ version + i \in 1 .. MaxChanges
            /\ version + i > floor
      BY <2>1, <2>2, ElementOfSeq DEF IInv, Simple, RingChange
    <3>2. \A i \in 1 .. Len(ps) : list[i] \in Current
      BY <2>2, <3>1 DEF Current, Changes
    <3> QED BY <2>2, <3>2
  <2>4. Simple'
    <3>1. version' \in 0 .. MaxChanges /\ floor \in 0 .. version'
      BY <2>1, <2>2 DEF IInv, Simple, RingChange
    <3>2. reported' \in [Prefixes -> 0 .. MaxChanges]
      <4> SUFFICES ASSUME NEW p \in Prefixes
                   PROVE  reported'[p] \in 0 .. MaxChanges
        BY <2>1 DEF RingChange
      <4>1. reported'[p] = Outcome(list, p, reported[p])
        BY <2>1 DEF RingChange
      <4>2. reported[p] \in 0 .. MaxChanges
        BY DEF IInv, Simple
      <4>3. \A c \in Current : c.digest \in 0 .. MaxChanges
        BY DEF Current, Changes
      <4> HIDE DEF list
      <4> QED BY <2>3, <4>1, <4>2, <4>3, OutcomeOf
    <3> QED BY <2>1, <3>1, <3>2, <1>1 DEF IInv, Simple, RingChange, chain, queued, bounds
  <2>5. OnlyCurrent'
    <3>1. unsent' = unsent \cup {list}
      BY <2>1 DEF RingChange
    <3> HIDE DEF list
    <3> QED BY <2>1, <2>3, <3>1, <1>2, <1>1
            DEF IInv, OnlyCurrent, RingChange, chain, queued
  <2>6. ResetIsLast'
    BY <2>1 DEF RingChange, Resetting, ResetIsLast
  <2>7. BatchWhileSubmitting'
    BY <2>1 DEF RingChange, IInv, BatchWhileSubmitting
  <2> QED BY <2>4, <2>5, <2>6, <2>7 DEF IInv
<1>4. CASE \E list \in unsent : Enqueue(list)
  <2>1. PICK list \in unsent : Enqueue(list)
    BY <1>4
  <2>2. list \in Seq(Current) /\ Commit(list) \in CurrentCommands /\ Commit(list).kind = "commit"
    BY DEF IInv, OnlyCurrent, Commit, CurrentCommands
  <2>3. channel \in Seq(CurrentCommands) /\ channel' = Append(channel, Commit(list))
    BY <2>1 DEF IInv, OnlyCurrent, Enqueue
  <2>4. /\ channel' \in Seq(CurrentCommands)
        /\ Len(channel) \in Nat /\ DOMAIN channel = 1 .. Len(channel)
        /\ DOMAIN channel' = 1 .. Len(channel) + 1
        /\ \A i \in 1 .. Len(channel) : channel'[i] = channel[i]
        /\ channel'[Len(channel) + 1] = Commit(list)
    <3>1. /\ channel' \in Seq(CurrentCommands) /\ Len(channel') = Len(channel) + 1
          /\ \A i \in 1 .. Len(channel) : channel'[i] = channel[i]
          /\ channel'[Len(channel) + 1] = Commit(list)
      BY <2>2, <2>3, AppendProperties
    <3> QED BY <2>3, <3>1, LenProperties
  <2>5. Simple'
    <3>1. Overtakes(list) \subseteq Prefixes
      <4>1. PrefixesOf(list) \subseteq Prefixes
        BY <2>2, LenProperties DEF PrefixesOf, Current, Changes
      <4> QED BY <4>1 DEF Overtakes
    <3> QED BY <2>1, <3>1, <1>1 DEF IInv, Simple, Enqueue, chain, queued, bounds
  <2>6. OnlyCurrent'
    BY <2>1, <2>4, <1>2, <1>1 DEF IInv, OnlyCurrent, Enqueue, chain, queued
  <2>7. ResetIsLast'
    <3>1. \A i \in DOMAIN channel : channel[i].kind # "reset"
      BY DEF IInv, ResetIsLast
    <3>2. \A i \in DOMAIN channel' : channel'[i].kind # "reset"
      BY <3>1, <2>4, <2>2
    <3> QED BY <3>2 DEF ResetIsLast
  <2>8. BatchWhileSubmitting'
    BY <2>1 DEF Enqueue, IInv, BatchWhileSubmitting, queued
  <2> QED BY <2>5, <2>6, <2>7, <2>8 DEF IInv
<1>5. CASE AskReset
  <2>1. ResetCmd \in CurrentCommands /\ channel \in Seq(CurrentCommands)
    BY EmptySeq DEF ResetCmd, CurrentCommands, IInv, OnlyCurrent
  <2>2. /\ channel' \in Seq(CurrentCommands)
        /\ Len(channel') = Len(channel) + 1
        /\ Len(channel) \in Nat /\ DOMAIN channel = 1 .. Len(channel)
        /\ DOMAIN channel' = 1 .. Len(channel) + 1
        /\ \A i \in 1 .. Len(channel) : channel'[i] = channel[i]
    <3>1. /\ channel' \in Seq(CurrentCommands) /\ Len(channel') = Len(channel) + 1
          /\ \A i \in 1 .. Len(channel) : channel'[i] = channel[i]
      BY <1>5, <2>1, AppendProperties DEF AskReset
    <3> QED BY <2>1, <3>1, LenProperties
  <2>3. Simple'
    BY <1>5, <1>1 DEF AskReset, IInv, Simple, chain, queued
  <2>4. OnlyCurrent'
    BY <1>5, <2>2, <1>2, <1>1 DEF IInv, OnlyCurrent, AskReset, chain, queued
  <2>5. ResetIsLast'
    <3>1. unsent' = {} /\ \A i \in DOMAIN channel : channel[i].kind # "reset"
      BY <1>5 DEF AskReset, Resetting
    <3>2. \A i \in DOMAIN channel' : channel'[i].kind = "reset" => i = Len(channel')
      BY <3>1, <2>2
    <3> QED BY <3>1, <3>2 DEF ResetIsLast
  <2>6. BatchWhileSubmitting'
    BY <1>5 DEF AskReset, IInv, BatchWhileSubmitting, queued
  <2> QED BY <2>3, <2>4, <2>5, <2>6 DEF IInv
<1> QED BY <1>3, <1>4, <1>5
\* The worker's next command: its changes are current, and a reset leaves an empty
\* channel and no handler behind.
LEMMA NextCommand ==
    ASSUME IInv, channel # <<>>
    PROVE  /\ Head(channel) \in CurrentCommands
           /\ Tail(channel) \in Seq(CurrentCommands)
           /\ Head(channel).kind = "reset" => Tail(channel) = <<>> /\ unsent = {}
           /\ \A i \in DOMAIN Tail(channel) :
                Tail(channel)[i].kind = "reset" => i = Len(Tail(channel)) /\ unsent = {}
<1>1. channel \in Seq(CurrentCommands)
  BY DEF IInv, OnlyCurrent
<1>2. Len(channel) \in Nat \ {0} /\ DOMAIN channel = 1 .. Len(channel)
  BY <1>1, EmptySeq, LenProperties
<1>3. /\ Head(channel) \in CurrentCommands /\ Tail(channel) \in Seq(CurrentCommands)
      /\ Len(Tail(channel)) = Len(channel) - 1
      /\ \A i \in 1 .. Len(Tail(channel)) : Tail(channel)[i] = channel[i + 1]
  BY <1>1, HeadTailProperties
<1>4. DOMAIN Tail(channel) = 1 .. Len(Tail(channel))
  BY <1>3, LenProperties
<1>5. Head(channel) = channel[1]
  BY <1>1
<1>6. ASSUME Head(channel).kind = "reset" PROVE Tail(channel) = <<>> /\ unsent = {}
  <2>1. Len(channel) = 1 /\ unsent = {}
    BY <1>2, <1>5, <1>6 DEF IInv, ResetIsLast
  <2>2. Len(Tail(channel)) = 0
    BY <2>1, <1>3
  <2> QED BY <2>1, <2>2, <1>3, EmptySeq
<1>7. ASSUME NEW i \in DOMAIN Tail(channel), Tail(channel)[i].kind = "reset"
      PROVE  i = Len(Tail(channel)) /\ unsent = {}
  <2>1. i + 1 \in DOMAIN channel /\ channel[i + 1].kind = "reset"
    BY <1>2, <1>3, <1>4, <1>7
  <2>2. i + 1 = Len(channel) /\ unsent = {}
    BY <2>1 DEF IInv, ResetIsLast
  <2> QED BY <2>2, <1>2, <1>3, <1>4
<1> QED BY <1>3, <1>6, <1>7

\* A batch is taken from the front of the queue, and only to be submitted.
LEMMA FlushTyped ==
    ASSUME NEW q \in Seq(Current), Flushing(q) \/ Waiting
    PROVE  /\ worker' \in {"idle", "submit"}
           /\ batch' \in Seq(Current)
           /\ worker' = "idle" => batch' = <<>>
<1>1. CASE Flushing(q)
  BY <1>1, FrontTyped, OutboxAssumption DEF Flushing
<1>2. CASE Waiting
  BY <1>2, EmptySeq DEF Waiting
<1> QED BY <1>1, <1>2

\* Appending the received changes to the queue.
LEMMA ReceiveTyped ==
    ASSUME IInv, channel # <<>>, NEW failed \in BOOLEAN, Receive(Head(channel).list, failed)
    PROVE  /\ channel' = Tail(channel)
           /\ pending' \in Seq(Current)
           /\ dirty' \in BOOLEAN
           /\ worker' \in {"idle", "submit"}
           /\ batch' \in Seq(Current)
           /\ worker' = "idle" => batch' = <<>>
<1> DEFINE queue == pending \o Head(channel).list
<1>1. Head(channel).list \in Seq(Current) /\ pending \in Seq(Current)
  BY NextCommand DEF CurrentCommands, IInv, OnlyCurrent
<1>2. queue \in Seq(Current)
  BY <1>1, ConcatProperties
<1>3. Flushing(queue) \/ Waiting
  BY DEF Receive
<1>4. worker' \in {"idle", "submit"} /\ batch' \in Seq(Current) /\ (worker' = "idle" => batch' = <<>>)
  <2> HIDE DEF queue
  <2> QED BY <1>2, <1>3, FlushTyped
<1>5. channel' = Tail(channel) /\ pending' = queue /\ dirty' = Unclean(failed)
  BY DEF Receive
<1>6. dirty' \in BOOLEAN
  BY <1>5 DEF Unclean, IInv, Simple
<1> QED BY <1>2, <1>4, <1>5, <1>6

\* Lines of the outbox and what an append adds to them.
LEMMA AppendTyped ==
    ASSUME NEW S, NEW lines \in Seq(S \cup {Torn}), NEW part \in Seq(S \cup {Torn})
    PROVE  lines \o part \in Seq(S \cup {Torn})
BY ConcatProperties

\* A change is a line.
LEMMA LinesOf ==
    ASSUME NEW S, NEW list \in Seq(S)
    PROVE  list \in Seq(S \cup {Torn})
BY SeqMonotonic

\* A new chain is empty.
LEMMA NewChainTyped ==
    ASSUME NewChain, NEW S
    PROVE  /\ orphan' \in Seq(S) /\ mempool' \in Seq(Seq(S))
           /\ latest' = [p \in Prefixes |-> 0]
BY EmptySeq DEF NewChain

\* The worker's steps between two submissions.
LEMMA WorkerInv ==
    ASSUME IInv,
           \/ ReceiveCommit \/ AppendFails \/ ReceiveReset \/ ResetFails
           \/ Tick \/ TickRewriteFails \/ RetryDue
    PROVE  IInv'
<1> USE OutboxAssumption
<1>1. CASE ReceiveCommit \/ AppendFails
  <2>1. /\ channel # <<>> /\ UNCHANGED <<version, reported, unsent, backoff, chain, resets, floor, overtaken>>
        /\ faults' \in 0 .. MaxFaults
        /\ \E failed \in BOOLEAN : Receive(Head(channel).list, failed)
        /\ \/ file' = file \o Head(channel).list
           \/ \E part \in PartialAppends(Head(channel).list) : file' = file \o part
    <3>1. CASE ReceiveCommit
      BY <3>1 DEF ReceiveCommit, bounds, IInv, Simple
    <3>2. CASE AppendFails
      <4>1. faults' \in 0 .. MaxFaults
        BY <3>2 DEF AppendFails, Fault, IInv, Simple
      <4> QED BY <3>2, <4>1 DEF AppendFails
    <3> QED BY <1>1, <3>1, <3>2
  <2>2. PICK failed \in BOOLEAN : Receive(Head(channel).list, failed)
    BY <2>1
  <2>3. /\ channel' = Tail(channel)
        /\ pending' \in Seq(Current)
        /\ dirty' \in BOOLEAN
        /\ worker' \in {"idle", "submit"}
        /\ batch' \in Seq(Current)
        /\ worker' = "idle" => batch' = <<>>
    BY <2>1, <2>2, ReceiveTyped
  <2>4. Current' = Current /\ CurrentCommands' = CurrentCommands
    BY <2>1, CurrentKept
  <2>5. file' \in Seq(Current \cup {Torn})
    <3>1. Head(channel).list \in Seq(Current) /\ file \in Seq(Current \cup {Torn})
      BY <2>1, NextCommand DEF CurrentCommands, IInv, OnlyCurrent
    <3>2. Head(channel).list \in Seq(Current \cup {Torn})
      BY <3>1, LinesOf
    <3> QED BY <2>1, <3>1, <3>2, PartialTyped, AppendTyped
  <2>6. Simple'
    BY <2>1, <2>3 DEF IInv, Simple, chain
  <2>7. OnlyCurrent'
    BY <2>1, <2>3, <2>4, <2>5, NextCommand DEF IInv, OnlyCurrent, chain
  <2>8. ResetIsLast'
    BY <2>1, <2>3, NextCommand DEF ResetIsLast
  <2>9. BatchWhileSubmitting'
    BY <2>3 DEF BatchWhileSubmitting
  <2> QED BY <2>6, <2>7, <2>8, <2>9 DEF IInv
<1>2. CASE ReceiveReset
  <2>1. channel # <<>> /\ Head(channel).kind = "reset" /\ worker = "idle"
    BY <1>2 DEF ReceiveReset
  <2>2. channel' = <<>> /\ unsent' = {} /\ batch' = <<>>
    BY <1>2, <2>1, NextCommand DEF ReceiveReset, IInv, BatchWhileSubmitting
  <2>3. orphan' = <<>> /\ mempool' = <<>> /\ latest' = [p \in Prefixes |-> 0]
    BY <1>2 DEF ReceiveReset, NewChain
  <2>4. Simple'
    <3>1. dirty' \in BOOLEAN /\ backoff' \in BOOLEAN
      BY <1>2 DEF ReceiveReset, IInv, Simple
    <3>2. overtaken' \subseteq Prefixes
      BY <1>2, <2>3 DEF ReceiveReset
    <3>3. version' \in 0 .. MaxChanges /\ floor' \in 0 .. version'
      BY <1>2 DEF ReceiveReset, IInv, Simple
    <3> QED BY <1>2, <3>1, <3>2, <3>3 DEF ReceiveReset, IInv, Simple, bounds
  <2>5. OnlyCurrent'
    BY <1>2, <2>2, <2>3, EmptySeq DEF ReceiveReset, OnlyCurrent, ClearedPending
  <2>6. ResetIsLast'
    BY <2>2 DEF ResetIsLast
  <2>7. BatchWhileSubmitting'
    BY <2>2 DEF BatchWhileSubmitting
  <2> QED BY <2>4, <2>5, <2>6, <2>7 DEF IInv
<1>3. CASE ResetFails
  <2>1. channel # <<>> /\ channel' = Tail(channel)
    BY <1>3 DEF ResetFails
  <2>2. Current' = Current /\ CurrentCommands' = CurrentCommands
    BY <1>3, CurrentKept DEF ResetFails
  <2>3. /\ orphan' \in Seq(Current) /\ mempool' \in Seq(Seq(Current))
        /\ latest' \in [Prefixes -> {0} \cup {v \in 1 .. MaxChanges : v > floor}]
    <3>1. CASE NewChain
      BY <3>1, NewChainTyped
    <3>2. CASE UNCHANGED chain
      BY <3>2 DEF chain, IInv, Simple, OnlyCurrent
    <3> QED BY <1>3, <3>1, <3>2 DEF ResetFails
  <2>4. file' \in Seq(Current \cup {Torn}) /\ overtaken' \subseteq Prefixes
    BY <1>3, EmptySeq DEF ResetFails, IInv, Simple, OnlyCurrent
  <2>5. faults' \in 0 .. MaxFaults
    BY <1>3 DEF ResetFails, Fault, IInv, Simple
  <2>6. Simple'
    BY <1>3, <2>3, <2>4, <2>5 DEF ResetFails, IInv, Simple
  <2>7. OnlyCurrent'
    BY <1>3, <2>1, <2>2, <2>3, <2>4, NextCommand, EmptySeq
       DEF ResetFails, IInv, OnlyCurrent, ClearedPending
  <2>8. ResetIsLast'
    BY <1>3, <2>1, NextCommand DEF ResetFails, ResetIsLast
  <2>9. BatchWhileSubmitting'
    BY <1>3 DEF ResetFails, IInv, BatchWhileSubmitting
  <2> QED BY <2>6, <2>7, <2>8, <2>9 DEF IInv
<1>4. CASE Tick
  <2>1. Current' = Current /\ CurrentCommands' = CurrentCommands
    BY <1>4, CurrentKept DEF Tick
  <2>2. pending \in Seq(Current)
    BY DEF IInv, OnlyCurrent
  <2>3. worker' \in {"idle", "submit"} /\ batch' \in Seq(Current) /\ (worker' = "idle" => batch' = <<>>)
    BY <1>4, <2>2, FlushTyped DEF Tick
  <2>4. file' \in Seq(Current \cup {Torn})
    BY <1>4, <2>2, LinesOf DEF Tick, IInv, OnlyCurrent
  <2>5. Simple'
    BY <1>4, <2>3 DEF Tick, IInv, Simple, manager, chain, bounds
  <2>6. OnlyCurrent'
    BY <1>4, <2>1, <2>3, <2>4 DEF Tick, IInv, OnlyCurrent, manager, chain
  <2>7. ResetIsLast'
    BY <1>4 DEF Tick, IInv, ResetIsLast, manager
  <2>8. BatchWhileSubmitting'
    BY <2>3 DEF BatchWhileSubmitting
  <2> QED BY <2>5, <2>6, <2>7, <2>8 DEF IInv
<1>5. CASE TickRewriteFails
  <2>1. Current' = Current /\ CurrentCommands' = CurrentCommands
    BY <1>5, CurrentKept DEF TickRewriteFails
  <2>2. faults' \in 0 .. MaxFaults
    BY <1>5 DEF TickRewriteFails, Fault, IInv, Simple
  <2>3. Simple'
    BY <1>5, <2>2 DEF TickRewriteFails, IInv, Simple, manager, queued, chain
  <2>4. OnlyCurrent'
    BY <1>5, <2>1 DEF TickRewriteFails, IInv, OnlyCurrent, manager, queued, chain
  <2>5. ResetIsLast' /\ BatchWhileSubmitting'
    BY <1>5 DEF TickRewriteFails, IInv, ResetIsLast, BatchWhileSubmitting, manager
  <2> QED BY <2>3, <2>4, <2>5 DEF IInv
<1>6. CASE RetryDue
  <2>1. Current' = Current /\ CurrentCommands' = CurrentCommands
    BY <1>6, CurrentKept DEF RetryDue
  <2>2. Simple'
    BY <1>6 DEF RetryDue, IInv, Simple, manager, chain, bounds
  <2>3. OnlyCurrent'
    BY <1>6, <2>1 DEF RetryDue, IInv, OnlyCurrent, manager, chain
  <2>4. ResetIsLast' /\ BatchWhileSubmitting'
    BY <1>6 DEF RetryDue, IInv, ResetIsLast, BatchWhileSubmitting, manager
  <2> QED BY <2>2, <2>3, <2>4 DEF IInv
<1> QED BY <1>1, <1>2, <1>3, <1>4, <1>5, <1>6
\* What a submitter given up may still send is its batch.
LEMMA GiveUpTyped ==
    ASSUME IInv, GiveUp
    PROVE  orphan' \in Seq(Current)
BY DEF GiveUp, IInv, OnlyCurrent

\* A confirmed batch is dropped from the front of the queue.
LEMMA ConfirmedTyped ==
    ASSUME IInv, Confirmed
    PROVE  /\ worker' = "idle" /\ batch' = <<>> /\ backoff' \in BOOLEAN
           /\ pending' \in Seq(Current)
<1>1. batch \in Seq(Current) /\ pending \in Seq(Current)
  BY DEF IInv, OnlyCurrent
<1>2. Len(batch) \in Nat /\ \A i \in DOMAIN batch : batch[i] \in Changes
  BY <1>1, LenProperties DEF Current
<1>3. pending' \in Seq(Current)
  BY <1>1, <1>2, RestTyped DEF Confirmed, Drained
<1> QED BY <1>2, <1>3 DEF Confirmed, Waiting, IInv, Simple

\* The steps of a submission, of the chain and of a crash.
LEMMA ChainInv ==
    ASSUME IInv,
           \/ SendTransaction \/ SubmitFails \/ OrphanSends
           \/ SubmitConfirmed \/ ConfirmedRewriteFails
           \/ Mine \/ Crash \/ Restart
    PROVE  IInv'
<1> USE OutboxAssumption
<1>0. Current' = Current /\ CurrentCommands' = CurrentCommands /\ floor' = floor
  <2>1. floor' = floor
    BY DEF SendTransaction, SubmitFails, OrphanSends, SubmitConfirmed, ConfirmedRewriteFails,
           Mine, Crash, Restart
  <2> QED BY <2>1, CurrentKept
<1>1. CASE SendTransaction
  <2>1. mempool' \in Seq(Seq(Current))
    BY <1>1, AppendProperties DEF SendTransaction, IInv, OnlyCurrent
  <2>2. Simple'
    BY <1>1 DEF SendTransaction, IInv, Simple, manager, queued, bounds
  <2>3. OnlyCurrent'
    BY <1>1, <1>0, <2>1 DEF SendTransaction, IInv, OnlyCurrent, manager, queued
  <2>4. ResetIsLast' /\ BatchWhileSubmitting'
    BY <1>1 DEF SendTransaction, IInv, ResetIsLast, BatchWhileSubmitting, manager
  <2> QED BY <2>2, <2>3, <2>4 DEF IInv
<1>2. CASE SubmitFails
  <2>1. orphan' \in Seq(Current)
    BY <1>2, GiveUpTyped DEF SubmitFails
  <2>2. faults' \in 0 .. MaxFaults
    BY <1>2 DEF SubmitFails, Fault, IInv, Simple
  <2>3. Simple'
    BY <1>2, <2>2 DEF SubmitFails, Waiting, IInv, Simple, manager
  <2>4. OnlyCurrent'
    BY <1>2, <1>0, <2>1, EmptySeq DEF SubmitFails, Waiting, IInv, OnlyCurrent, manager
  <2>5. ResetIsLast' /\ BatchWhileSubmitting'
    BY <1>2 DEF SubmitFails, Waiting, IInv, ResetIsLast, BatchWhileSubmitting, manager
  <2> QED BY <2>3, <2>4, <2>5 DEF IInv
<1>3. CASE OrphanSends
  <2>1. mempool' \in Seq(Seq(Current)) /\ orphan' \in Seq(Current)
    BY <1>3, AppendProperties, EmptySeq DEF OrphanSends, IInv, OnlyCurrent
  <2>2. PrefixesOf(orphan) \subseteq Prefixes
    <3>1. orphan \in Seq(Current)
      BY DEF IInv, OnlyCurrent
    <3>2. \A i \in DOMAIN orphan : orphan[i] \in Current
      BY <3>1, LenProperties
    <3> QED BY <3>2 DEF PrefixesOf, Current, Changes
  <2>3. Simple'
    BY <1>3, <2>2 DEF OrphanSends, IInv, Simple, manager, queued, bounds
  <2>4. OnlyCurrent'
    BY <1>3, <1>0, <2>1 DEF OrphanSends, IInv, OnlyCurrent, manager, queued
  <2>5. ResetIsLast' /\ BatchWhileSubmitting'
    BY <1>3 DEF OrphanSends, IInv, ResetIsLast, BatchWhileSubmitting, manager
  <2> QED BY <2>3, <2>4, <2>5 DEF IInv
<1>4. CASE SubmitConfirmed \/ ConfirmedRewriteFails
  <2>1. /\ Confirmed /\ dirty' \in BOOLEAN
        /\ file' = pending' \/ file' = file
        /\ faults' \in 0 .. MaxFaults
        /\ UNCHANGED <<manager, orphan, mempool, latest, resets, floor, overtaken>>
    <3>1. CASE SubmitConfirmed
      BY <3>1 DEF SubmitConfirmed, bounds, IInv, Simple
    <3>2. CASE ConfirmedRewriteFails
      <4>1. faults' \in 0 .. MaxFaults
        BY <3>2 DEF ConfirmedRewriteFails, Fault, IInv, Simple
      <4> QED BY <3>2, <4>1 DEF ConfirmedRewriteFails
    <3> QED BY <1>4, <3>1, <3>2
  <2>2. /\ worker' = "idle" /\ batch' = <<>> /\ backoff' \in BOOLEAN
        /\ pending' \in Seq(Current)
    BY <2>1, ConfirmedTyped
  <2>3. file' \in Seq(Current \cup {Torn})
    BY <2>1, <2>2, LinesOf DEF IInv, OnlyCurrent
  <2>4. Simple'
    BY <2>1, <2>2 DEF IInv, Simple, manager
  <2>5. OnlyCurrent'
    BY <1>0, <2>1, <2>2, <2>3, EmptySeq DEF IInv, OnlyCurrent, manager
  <2>6. ResetIsLast' /\ BatchWhileSubmitting'
    BY <2>1, <2>2 DEF IInv, ResetIsLast, BatchWhileSubmitting, manager
  <2> QED BY <2>4, <2>5, <2>6 DEF IInv
<1>5. CASE Mine
  <2>1. Head(mempool) \in Seq(Current) /\ mempool' \in Seq(Seq(Current))
    BY <1>5, HeadTailProperties DEF Mine, IInv, OnlyCurrent
  <2>2. latest' \in [Prefixes -> {0} \cup {v \in 1 .. MaxChanges : v > floor}]
    <3> DEFINE D == {0} \cup {v \in 1 .. MaxChanges : v > floor}
    <3>1. \A c \in Current : c.digest \in D
      BY DEF Current, Changes
    <3>2. latest \in [Prefixes -> D]
      BY DEF IInv, OnlyCurrent
    <3>3. latest' = LatestAfter(Head(mempool))
      BY <1>5 DEF Mine
    <3> HIDE DEF D
    <3>4. latest' \in [Prefixes -> D]
      BY <2>1, <3>1, <3>2, <3>3, LatestTyped
    <3> QED BY <3>4 DEF D
  <2>3. Simple'
    BY <1>5 DEF Mine, IInv, Simple, manager, queued, bounds
  <2>4. OnlyCurrent'
    BY <1>5, <1>0, <2>1, <2>2 DEF Mine, IInv, OnlyCurrent, manager, queued
  <2>5. ResetIsLast' /\ BatchWhileSubmitting'
    BY <1>5 DEF Mine, IInv, ResetIsLast, BatchWhileSubmitting, manager
  <2> QED BY <2>3, <2>4, <2>5 DEF IInv
<1>6. CASE Crash
  <2>1. orphan' \in Seq(Current)
    BY <1>6, GiveUpTyped DEF Crash
  <2>2. file' \in Seq(Current \cup {Torn})
    <3>1. CASE channel # <<>> /\ \E part \in PartialAppends(Head(channel).list) : file' = file \o part
      <4>1. Head(channel).list \in Seq(Current) /\ file \in Seq(Current \cup {Torn})
        BY <3>1, NextCommand DEF CurrentCommands, IInv, OnlyCurrent
      <4>2. PICK part \in PartialAppends(Head(channel).list) : file' = file \o part
        BY <3>1
      <4>3. part \in Seq(Current \cup {Torn})
        BY <4>1, PartialTyped
      <4> QED BY <4>1, <4>2, <4>3, AppendTyped
    <3>2. CASE file' = file
      BY <3>2 DEF IInv, OnlyCurrent
    <3> QED BY <1>6, <3>1, <3>2 DEF Crash
  <2>3. faults' \in 0 .. MaxFaults
    BY <1>6 DEF Crash, Fault, IInv, Simple
  <2>4. dirty' \in BOOLEAN /\ backoff' \in BOOLEAN /\ reported' \in [Prefixes -> 0 .. MaxChanges]
    <3>1. dirty' = FALSE /\ backoff' = FALSE /\ reported' = [p \in Prefixes |-> 0]
      BY <1>6 DEF Crash
    <3>2. reported' \in [Prefixes -> 0 .. MaxChanges]
      BY <3>1
    <3> QED BY <3>1, <3>2
  <2>5. Simple'
    BY <1>6, <2>3, <2>4 DEF Crash, IInv, Simple
  <2>6. OnlyCurrent'
    BY <1>6, <1>0, <2>1, <2>2, EmptySeq DEF Crash, IInv, OnlyCurrent
  <2>7. ResetIsLast' /\ BatchWhileSubmitting'
    BY <1>6 DEF Crash, ResetIsLast, BatchWhileSubmitting
  <2> QED BY <2>5, <2>6, <2>7 DEF IInv
<1>7. CASE Restart
  <2>1. pending' \in Seq(Current)
    BY <1>7, LoadedTyped DEF Restart, IInv, OnlyCurrent
  <2>2. Simple'
    BY <1>7 DEF Restart, Waiting, IInv, Simple, manager, chain, bounds
  <2>3. OnlyCurrent'
    BY <1>7, <1>0, <2>1, EmptySeq DEF Restart, Waiting, IInv, OnlyCurrent, manager, chain
  <2>4. ResetIsLast' /\ BatchWhileSubmitting'
    BY <1>7 DEF Restart, Waiting, IInv, ResetIsLast, BatchWhileSubmitting, manager
  <2> QED BY <2>2, <2>3, <2>4 DEF IInv
<1> QED BY <1>1, <1>2, <1>3, <1>4, <1>5, <1>6, <1>7

\* No step breaks the invariant.
LEMMA NextInv == IInv /\ [Next]_vars => IInv'
<1> SUFFICES ASSUME IInv, [Next]_vars PROVE IInv'
  OBVIOUS
<1>1. CASE Next
  BY <1>1, HandlerInv, WorkerInv, ChainInv DEF Next, WorkerStep, Faulty
<1>2. CASE UNCHANGED vars
  <2>1. Current' = Current /\ CurrentCommands' = CurrentCommands
    BY <1>2, CurrentKept DEF vars
  <2>2. Simple'
    BY <1>2 DEF vars, IInv, Simple
  <2>3. OnlyCurrent'
    BY <1>2, <2>1 DEF vars, IInv, OnlyCurrent
  <2>4. ResetIsLast' /\ BatchWhileSubmitting'
    BY <1>2 DEF vars, IInv, ResetIsLast, BatchWhileSubmitting
  <2> QED BY <2>2, <2>3, <2>4 DEF IInv
<1> QED BY <1>1, <1>2

(***************************************************************************)
(* The theorems                                                            *)
(***************************************************************************)

\* The invariant above holds of every reachable state of the worker, its file and
\* the chain.
THEOREM Invariance == Spec => []IInv
<1>1. Init => IInv
  BY InitInv
<1>2. IInv /\ [Next]_vars => IInv'
  BY NextInv
<1> QED BY <1>1, <1>2, PTL DEF Spec

\* What the invariant says of a container implies its type.
LEMMA TypeOKOf == IInv => TypeOK
<1> SUFFICES ASSUME IInv PROVE TypeOK
  OBVIOUS
<1>1. Current \subseteq Changes
  BY DEF Current
<1>2. ASSUME NEW s \in Seq(Current) PROVE s \in Seq(Changes)
  BY <1>1, SeqMonotonic
<1>3. CurrentCommands \subseteq Commands
  BY <1>2 DEF CurrentCommands, Commands
<1>4. channel \in Seq(Commands)
  BY <1>3, SeqMonotonic DEF IInv, OnlyCurrent
<1>5. file \in Seq(Changes \cup {Torn})
  <2>1. Current \cup {Torn} \subseteq Changes \cup {Torn}
    BY <1>1
  <2> QED BY <2>1, SeqMonotonic DEF IInv, OnlyCurrent
<1>6. mempool \in Seq(Seq(Changes))
  <2>1. Seq(Current) \subseteq Seq(Changes)
    BY <1>2
  <2> QED BY <2>1, SeqMonotonic DEF IInv, OnlyCurrent
<1>7. unsent \subseteq Seq(Changes)
  BY <1>2 DEF IInv, OnlyCurrent
<1>8. batch \in Seq(Changes) /\ orphan \in Seq(Changes) /\ pending \in Seq(Changes)
  BY <1>2 DEF IInv, OnlyCurrent
<1>9. latest \in [Prefixes -> 0 .. MaxChanges]
  BY OutboxAssumption DEF IInv, OnlyCurrent
<1> QED BY <1>4, <1>5, <1>6, <1>7, <1>8, <1>9 DEF IInv, Simple, TypeOK

\* The channel, the queue, the outbox file, the transactions and the registry keep
\* their types under every failure: in particular a torn line stays in the file.
THEOREM TypeCorrect == Spec => []TypeOK
BY Invariance, TypeOKOf, PTL

\* Whatever was reported before a reset, and wherever it waited (a handler, the
\* channel, the queue, the file, a submission, the mempool), the chain the reset
\* made never holds it.
THEOREM ResetInvariant == Spec => []NothingCrossesReset
<1>1. IInv => NothingCrossesReset
  BY DEF IInv, OnlyCurrent, NothingCrossesReset
<1> QED BY <1>1, Invariance, PTL
\* A torn line is not lost by an append.
LEMMA TornStays ==
    ASSUME NEW S, NEW lines \in Seq(S), NEW part \in Seq(S), IsTorn(lines)
    PROVE  IsTorn(lines \o part)
<1>1. PICK i \in DOMAIN lines : lines[i] = Torn
  BY DEF IsTorn
<1>2. /\ Len(lines) \in Nat /\ DOMAIN lines = 1 .. Len(lines)
      /\ Len(part) \in Nat
  BY LenProperties
<1>3. /\ lines \o part \in Seq(S)
      /\ Len(lines \o part) = Len(lines) + Len(part)
      /\ (lines \o part)[i] = lines[i]
  BY <1>1, <1>2, ConcatProperties
<1>4. i \in DOMAIN (lines \o part)
  BY <1>1, <1>2, <1>3, LenProperties
<1> QED BY <1>1, <1>3, <1>4 DEF IsTorn

\* No step takes the file out of step with the queue unless the worker knows.
LEMMA OutboxStep == IInv /\ OutboxIsQueue /\ [Next]_vars => OutboxIsQueue'
<1> SUFFICES ASSUME IInv, OutboxIsQueue, [Next]_vars, worker' # "down", ~dirty'
             PROVE  file' = pending' \/ IsTorn(file') \/ overtaken' = Prefixes
  BY DEF OutboxIsQueue, IsTorn
\* Steps that leave the queue and the file alone and at most add to `overtaken`.
<1>1. ASSUME UNCHANGED <<pending, dirty, file>>, worker # "down",
             overtaken \subseteq overtaken', overtaken' \subseteq Prefixes
      PROVE  file' = pending' \/ IsTorn(file') \/ overtaken' = Prefixes
  BY <1>1 DEF OutboxIsQueue, IsTorn
<1>2. overtaken' \subseteq Prefixes
  BY NextInv DEF IInv, Simple
<1>3. CASE \E ps \in PrefixLists : RingChange(ps)
  BY <1>1, <1>2, <1>3 DEF RingChange, queued
<1>4. CASE \E list \in unsent : Enqueue(list)
  BY <1>1, <1>2, <1>4 DEF Enqueue, queued
<1>5. CASE AskReset
  BY <1>1, <1>2, <1>5 DEF AskReset, queued
<1>6. CASE ReceiveCommit
  <2>1. /\ channel # <<>> /\ worker # "down" /\ UNCHANGED overtaken
        /\ file' = file \o Head(channel).list
        /\ Receive(Head(channel).list, FALSE)
    BY <1>6 DEF ReceiveCommit
  <2>2. pending' = pending \o Head(channel).list /\ (dirty' <=> (dirty \/ FALSE))
    BY <2>1 DEF Receive, Unclean
  <2>3. CASE file = pending
    BY <2>1, <2>2, <2>3
  <2>4. CASE IsTorn(file)
    <3>1. Head(channel).list \in Seq(Current) /\ file \in Seq(Current \cup {Torn})
      BY <2>1, NextCommand DEF CurrentCommands, IInv, OnlyCurrent
    <3>2. Head(channel).list \in Seq(Current \cup {Torn})
      BY <3>1, LinesOf
    <3> QED BY <2>1, <2>4, <3>1, <3>2, TornStays
  <2>5. CASE overtaken = Prefixes
    BY <2>1, <2>5
  <2> QED BY <2>1, <2>2, <2>3, <2>4, <2>5 DEF OutboxIsQueue
<1>7. CASE AppendFails
  BY <1>7 DEF AppendFails, Receive, Unclean
<1>8. CASE ReceiveReset
  BY <1>8 DEF ReceiveReset, ClearedPending
<1>9. CASE ResetFails
  BY <1>9 DEF ResetFails, ClearedPending
<1>10. CASE Tick
  BY <1>10 DEF Tick, OutboxIsQueue, IsTorn
<1>11. CASE TickRewriteFails
  BY <1>1, <1>2, <1>11 DEF TickRewriteFails, queued
<1>12. CASE RetryDue
  BY <1>12 DEF RetryDue, OutboxIsQueue, IsTorn
<1>13. CASE SendTransaction
  BY <1>1, <1>2, <1>13 DEF SendTransaction, queued
<1>14. CASE SubmitFails
  BY <1>1, <1>2, <1>14 DEF SubmitFails
<1>15. CASE OrphanSends
  BY <1>1, <1>2, <1>15 DEF OrphanSends, queued
<1>16. CASE SubmitConfirmed
  BY <1>16 DEF SubmitConfirmed
<1>17. CASE ConfirmedRewriteFails
  BY <1>17 DEF ConfirmedRewriteFails
<1>18. CASE Mine
  BY <1>1, <1>2, <1>18 DEF Mine, queued
<1>19. CASE Crash
  BY <1>19 DEF Crash
<1>20. CASE Restart
  BY <1>20 DEF Restart, Loaded, IsTorn
<1>21. CASE UNCHANGED vars
  BY <1>21 DEF vars, OutboxIsQueue, IsTorn
<1> QED BY <1>3, <1>4, <1>5, <1>6, <1>7, <1>8, <1>9, <1>10, <1>11, <1>12, <1>13, <1>14, <1>15,
           <1>16, <1>17, <1>18, <1>19, <1>20, <1>21 DEF Next, WorkerStep, Faulty

\* A running worker that does not know its outbox to be out of step could crash and
\* recover its queue from the file, after any row of failed appends, rewrites,
\* submissions, crashes and restarts.
THEOREM OutboxInvariant == Spec => []OutboxIsQueue
<1>1. Init => OutboxIsQueue
  BY DEF Init, OutboxIsQueue
<1>2. IInv /\ OutboxIsQueue /\ [Next]_vars => OutboxIsQueue'
  BY OutboxStep
<1> QED BY <1>1, <1>2, Invariance, PTL DEF Spec
-----------------------------------------------------------------------------
(***************************************************************************)
(* The order of the changes on their way to the registry.                  *)
(*                                                                         *)
(* For a prefix whose changes no handler overtook, every place a change    *)
(* can wait in is in the order of the reports, and so are the places one   *)
(* after the other: handlers, channel, queue and file, transactions,       *)
(* registry.  Queue and file overlap the transactions, since a batch is    *)
(* sent again when its receipt is late or its rewrite failed; what keeps   *)
(* the order is that the worker starts over at a batch boundary, so that   *)
(* the first batch sent again ends where the chain is or later (Resumes).  *)
(***************************************************************************)

\* The digests a list holds of prefix p, and the order of two sets of digests.
Digests(list, p) == {list[i].digest : i \in {j \in DOMAIN list : list[j].prefix = p}}
NotAfter(A, B) == \A a \in A, b \in B : a =< b

\* The changes of p in a list stand in the order they were reported.
Ordered(list, p) ==
    \A i, j \in DOMAIN list :
        i =< j /\ list[i].prefix = p /\ list[j].prefix = p => list[i].digest =< list[j].digest

\* A transaction does not take p back behind d.
Reaches(txn, p, d) == Digests(txn, p) = {} \/ \E e \in Digests(txn, p) : d =< e

\* A worker that starts over with this queue does not take p back behind d either: the
\* first batch reaches d, or nothing in the queue is older.
Resumes(queue, p, d) ==
    \/ \E e \in Digests(Front(queue, BatchSize), p) : d =< e
    \/ \A e \in Digests(queue, p) : d =< e

\* The digests of p the chain has, or will have when it mined what it was sent.
Sent(p) == {latest[p]} \cup UNION {Digests(mempool[i], p) : i \in DOMAIN mempool}

\* What the worker and the chain hold of p; the file as a restart would load it.
Downstream(p) == Sent(p) \cup Digests(pending, p) \cup Digests(Loaded(file), p)

\* Changes the worker has not got yet.
UpstreamOrder(p) ==
    /\ \A list \in unsent : Ordered(list, p)
    /\ \A i \in DOMAIN channel :
        /\ Ordered(channel[i].list, p)
        /\ \A j \in DOMAIN channel :
            i < j => NotAfter(Digests(channel[i].list, p), Digests(channel[j].list, p))
        /\ \A list \in unsent : NotAfter(Digests(channel[i].list, p), Digests(list, p))

\* They come after what it has.
ArrivalOrder(p) ==
    /\ \A i \in DOMAIN channel : NotAfter(Downstream(p), Digests(channel[i].list, p))
    /\ \A list \in unsent : NotAfter(Downstream(p), Digests(list, p))

\* The queue, and the queue after a crash, go on where the chain is.
QueueOrder(p) ==
    /\ Ordered(pending, p) /\ Ordered(Loaded(file), p)
    /\ \A d \in Sent(p) : Resumes(pending, p, d) /\ Resumes(Loaded(file), p, d)

\* Each transaction goes on where the ones before it leave the registry.
ChainOrder(p) ==
    \A i \in DOMAIN mempool :
        /\ Ordered(mempool[i], p)
        /\ Reaches(mempool[i], p, latest[p])
        /\ \A j \in DOMAIN mempool :
            i < j => \A d \in Digests(mempool[i], p) : Reaches(mempool[j], p, d)

\* Nothing is newer than what was reported.
ReportedOnly(p) ==
    /\ \A list \in unsent : NotAfter(Digests(list, p), {version})
    /\ \A i \in DOMAIN channel : NotAfter(Digests(channel[i].list, p), {version})
    /\ NotAfter(Downstream(p), {version})

InOrder(p) ==
    UpstreamOrder(p) /\ ArrivalOrder(p) /\ QueueOrder(p) /\ ChainOrder(p) /\ ReportedOnly(p)

\* The batch under way is the front of a queue whose file was not behind it.
BatchIsFront ==
    worker \in {"submit", "sent"} => batch = Front(pending, BatchSize) /\ ~dirty

\* The ring is new while it waits for a reset and after a crash.
RingIsNew ==
    Resetting \/ worker = "down" => unsent = {} /\ \A p \in Prefixes : reported[p] = 0

OrderInv == BatchIsFront /\ RingIsNew /\ \A p \in Prefixes \ overtaken : InOrder(p)

\* A batch that was sent is in the mempool or in the registry.
BatchMined(p) ==
    worker = "sent" =>
        \/ \E i \in DOMAIN mempool : mempool[i] = batch
        \/ NotAfter(Digests(batch, p), {latest[p]})

\* The ring's summary is the newest change of p, and some place still has it.
SummaryKept(p) ==
    reported[p] # 0 =>
        /\ NotAfter(Sent(p) \cup Digests(pending, p), {reported[p]})
        /\ \A i \in DOMAIN channel : NotAfter(Digests(channel[i].list, p), {reported[p]})
        /\ \A list \in unsent : NotAfter(Digests(list, p), {reported[p]})
        /\ \/ latest[p] = reported[p]
           \/ reported[p] \in Digests(pending, p)
           \/ \E i \in DOMAIN channel : reported[p] \in Digests(channel[i].list, p)
           \/ \E list \in unsent : reported[p] \in Digests(list, p)

SummaryInv == \A p \in Prefixes \ overtaken : BatchMined(p) /\ SummaryKept(p)

(***************************************************************************)
(* Lists and their digests                                                 *)
(***************************************************************************)

\* A digest of a list is one of its changes.
LEMMA DigestsOf ==
    ASSUME NEW S, \A c \in S : c.digest \in Int, NEW list \in Seq(S), NEW p
    PROVE  Digests(list, p) \subseteq Int
<1>1. \A i \in DOMAIN list : list[i] \in S
  BY LenProperties
<1> QED BY <1>1 DEF Digests

\* The empty list has none.
LEMMA DigestsOfNone ==
    ASSUME NEW p
    PROVE  Digests(<<>>, p) = {} /\ Ordered(<<>>, p)
BY DEF Digests, Ordered

\* A list behind another one adds its digests to it.
LEMMA DigestsOfConcat ==
    ASSUME NEW S, NEW a \in Seq(S), NEW b \in Seq(S), NEW p
    PROVE  Digests(a \o b, p) = Digests(a, p) \cup Digests(b, p)
<1> DEFINE c == a \o b
<1>1. /\ Len(a) \in Nat /\ DOMAIN a = 1 .. Len(a)
      /\ Len(b) \in Nat /\ DOMAIN b = 1 .. Len(b)
  BY LenProperties
<1>2. c \in Seq(S) /\ Len(c) = Len(a) + Len(b)
  BY ConcatProperties
<1>3. /\ \A i \in 1 .. Len(a) : c[i] = a[i]
      /\ \A i \in 1 .. Len(b) : c[Len(a) + i] = b[i]
  BY <1>1, ConcatProperties
<1>4. DOMAIN c = 1 .. Len(a) + Len(b)
  BY <1>2, LenProperties
<1> HIDE DEF c
<1>5. ASSUME NEW d \in Digests(c, p) PROVE d \in Digests(a, p) \cup Digests(b, p)
  <2>1. PICK i \in DOMAIN c : c[i].prefix = p /\ d = c[i].digest
    BY <1>5 DEF Digests
  <2>2. CASE i \in 1 .. Len(a)
    BY <2>1, <2>2, <1>1, <1>3 DEF Digests
  <2>3. CASE i \notin 1 .. Len(a)
    <3>1. i - Len(a) \in 1 .. Len(b) /\ c[i] = b[i - Len(a)]
      <4>1. i - Len(a) \in 1 .. Len(b)
        BY <2>3, <1>1, <1>4
      <4>2. Len(a) + (i - Len(a)) = i
        BY <1>1, <1>4
      <4> QED BY <4>1, <4>2, <1>3
    <3> QED BY <2>1, <3>1, <1>1 DEF Digests
  <2> QED BY <2>2, <2>3
<1>6. ASSUME NEW d \in Digests(a, p) PROVE d \in Digests(c, p)
  <2>1. PICK i \in DOMAIN a : a[i].prefix = p /\ d = a[i].digest
    BY <1>6 DEF Digests
  <2>2. i \in DOMAIN c /\ c[i] = a[i]
    BY <2>1, <1>1, <1>3, <1>4
  <2> QED BY <2>1, <2>2 DEF Digests
<1>7. ASSUME NEW d \in Digests(b, p) PROVE d \in Digests(c, p)
  <2>1. PICK i \in DOMAIN b : b[i].prefix = p /\ d = b[i].digest
    BY <1>7 DEF Digests
  <2>2. Len(a) + i \in DOMAIN c /\ c[Len(a) + i] = b[i]
    BY <2>1, <1>1, <1>3, <1>4
  <2> QED BY <2>1, <2>2 DEF Digests
<1> QED BY <1>5, <1>6, <1>7 DEF c

\* Two lists in order, one behind the other, are in order.
LEMMA OrderedConcat ==
    ASSUME NEW S, NEW a \in Seq(S), NEW b \in Seq(S), NEW p,
           Ordered(a, p), Ordered(b, p), NotAfter(Digests(a, p), Digests(b, p))
    PROVE  Ordered(a \o b, p)
<1> DEFINE c == a \o b
<1>1. /\ Len(a) \in Nat /\ DOMAIN a = 1 .. Len(a)
      /\ Len(b) \in Nat /\ DOMAIN b = 1 .. Len(b)
  BY LenProperties
<1>2. c \in Seq(S) /\ Len(c) = Len(a) + Len(b)
  BY ConcatProperties
<1>3. /\ \A i \in 1 .. Len(a) : c[i] = a[i]
      /\ \A i \in 1 .. Len(b) : c[Len(a) + i] = b[i]
  BY <1>1, ConcatProperties
<1>4. DOMAIN c = 1 .. Len(a) + Len(b)
  BY <1>2, LenProperties
<1> HIDE DEF c
<1>5. \A i \in DOMAIN c \ (1 .. Len(a)) : i - Len(a) \in 1 .. Len(b) /\ c[i] = b[i - Len(a)]
  <2> TAKE i \in DOMAIN c \ (1 .. Len(a))
  <2>1. i - Len(a) \in 1 .. Len(b)
    BY <1>1, <1>4
  <2>2. Len(a) + (i - Len(a)) = i
    BY <1>1, <1>4
  <2> QED BY <2>1, <2>2, <1>3
<1>6. ASSUME NEW i \in DOMAIN c, NEW j \in DOMAIN c,
             i =< j, c[i].prefix = p, c[j].prefix = p
      PROVE  c[i].digest =< c[j].digest
  <2>1. CASE j \in 1 .. Len(a)
    <3>1. i \in 1 .. Len(a)
      BY <1>6, <2>1, <1>1, <1>4
    <3> QED BY <3>1, <2>1, <1>6, <1>1, <1>3 DEF Ordered
  <2>2. CASE i \in 1 .. Len(a) /\ j \notin 1 .. Len(a)
    <3>1. a[i].digest \in Digests(a, p)
      BY <2>2, <1>1, <1>3, <1>6 DEF Digests
    <3>2. b[j - Len(a)].digest \in Digests(b, p)
      BY <2>2, <1>1, <1>5, <1>6 DEF Digests
    <3> QED BY <3>1, <3>2, <2>2, <1>3, <1>5 DEF NotAfter
  <2>3. CASE i \notin 1 .. Len(a) /\ j \notin 1 .. Len(a)
    <3>1. i - Len(a) =< j - Len(a)
      BY <1>6, <1>1, <1>4
    <3>2. b[i - Len(a)].prefix = p /\ b[j - Len(a)].prefix = p
      BY <2>3, <1>5, <1>6
    <3>3. b[i - Len(a)].digest =< b[j - Len(a)].digest
      BY <3>1, <3>2, <2>3, <1>1, <1>5 DEF Ordered
    <3> QED BY <3>3, <2>3, <1>5
  <2> QED BY <2>1, <2>2, <2>3
<1>7. Ordered(c, p)
  BY <1>6 DEF Ordered
<1> QED BY <1>7 DEF c

\* A part of a list in order is in order and holds nothing else.
LEMMA OrderedPart ==
    ASSUME NEW S, NEW list \in Seq(S), NEW m \in Nat, NEW n \in Nat,
           m >= 1, n =< Len(list), NEW p
    PROVE  /\ SubSeq(list, m, n) \in Seq(S)
           /\ Digests(SubSeq(list, m, n), p) \subseteq Digests(list, p)
           /\ Ordered(list, p) => Ordered(SubSeq(list, m, n), p)
<1> DEFINE part == SubSeq(list, m, n)
<1>1. Len(list) \in Nat /\ DOMAIN list = 1 .. Len(list) /\ \A i \in m .. n : list[i] \in S
  BY LenProperties
<1>2. part \in Seq(S) /\ Len(part) = (IF m =< n THEN n - m + 1 ELSE 0)
  BY <1>1, SubSeqProperties
<1>3. \A i \in 1 .. (n - m + 1) : part[i] = list[m + i - 1]
  BY <1>1, SubSeqProperties
<1>4. DOMAIN part = 1 .. Len(part)
  BY <1>2, LenProperties
<1> HIDE DEF part
<1>5. \A i \in DOMAIN part : m + i - 1 \in DOMAIN list /\ part[i] = list[m + i - 1]
  BY <1>1, <1>2, <1>3, <1>4
<1>6. Digests(part, p) \subseteq Digests(list, p)
  BY <1>5 DEF Digests
<1>7. ASSUME Ordered(list, p) PROVE Ordered(part, p)
  <2> SUFFICES ASSUME NEW i \in DOMAIN part, NEW j \in DOMAIN part, i =< j,
                      part[i].prefix = p, part[j].prefix = p
               PROVE  part[i].digest =< part[j].digest
    BY DEF Ordered
  <2>1. m + i - 1 =< m + j - 1
    BY <1>2, <1>4
  <2> QED BY <2>1, <1>5, <1>7 DEF Ordered
<1> QED BY <1>2, <1>6, <1>7 DEF part

\* The batch is the first changes of the queue.
LEMMA FrontPart ==
    ASSUME NEW S, NEW q \in Seq(S), NEW n \in Nat, NEW p
    PROVE  /\ Front(q, n) \in Seq(S)
           /\ Len(Front(q, n)) = AtMost(n, Len(q)) /\ AtMost(n, Len(q)) \in 0 .. Len(q)
           /\ \A i \in 1 .. AtMost(n, Len(q)) : Front(q, n)[i] = q[i]
           /\ DOMAIN Front(q, n) = 1 .. AtMost(n, Len(q))
           /\ Digests(Front(q, n), p) \subseteq Digests(q, p)
           /\ Ordered(q, p) => Ordered(Front(q, n), p)
<1>1. Len(q) \in Nat /\ AtMost(n, Len(q)) \in 0 .. Len(q)
  BY LenProperties DEF AtMost
<1>2. \A i \in 1 .. AtMost(n, Len(q)) : q[i] \in S
  BY <1>1, LenProperties
<1>3. /\ Front(q, n) \in Seq(S) /\ Len(Front(q, n)) = AtMost(n, Len(q))
      /\ \A i \in 1 .. AtMost(n, Len(q)) : Front(q, n)[i] = q[i]
  BY <1>1, <1>2, SubSeqProperties DEF Front
<1>4. /\ Digests(Front(q, n), p) \subseteq Digests(q, p)
      /\ Ordered(q, p) => Ordered(Front(q, n), p)
  BY <1>1, OrderedPart DEF Front
<1> QED BY <1>1, <1>3, <1>4, LenProperties

\* What stays behind a batch is a part of the queue, and holds whatever the batch does not.
LEMMA FrontAndRest ==
    ASSUME NEW S, NEW q \in Seq(S), NEW n \in Nat, NEW p
    PROVE  LET front == Front(q, n)
               rest == Rest(q, Len(front)) IN
           /\ rest \in Seq(S)
           /\ Digests(rest, p) \subseteq Digests(q, p)
           /\ Digests(q, p) \subseteq Digests(front, p) \cup Digests(rest, p)
           /\ Ordered(q, p) => Ordered(rest, p) /\ NotAfter(Digests(front, p), Digests(rest, p))
<1> DEFINE front == Front(q, n)
           m == AtMost(n, Len(q))
           rest == SubSeq(q, m + 1, Len(q))
<1>1. /\ Len(front) = m /\ m \in 0 .. Len(q) /\ Len(q) \in Nat
      /\ DOMAIN q = 1 .. Len(q) /\ \A i \in DOMAIN q : q[i] \in S
      /\ DOMAIN front = 1 .. m /\ \A i \in 1 .. m : front[i] = q[i]
  BY FrontPart, LenProperties
<1>2. /\ rest \in Seq(S) /\ Digests(rest, p) \subseteq Digests(q, p)
      /\ Ordered(q, p) => Ordered(rest, p)
  <2> HIDE DEF m
  <2>1. m + 1 \in Nat /\ m + 1 >= 1 /\ Len(q) =< Len(q)
    BY <1>1
  <2> QED BY <1>1, <2>1, OrderedPart
<1>3. /\ Len(rest) = Len(q) - m
      /\ \A i \in 1 .. Len(q) - m : rest[i] = q[m + i]
  <2> HIDE DEF m
  <2>1. \A i \in m + 1 .. Len(q) : q[i] \in S
    BY <1>1
  <2>2. /\ Len(rest) = (IF m + 1 =< Len(q) THEN Len(q) - (m + 1) + 1 ELSE 0)
        /\ \A i \in 1 .. (Len(q) - (m + 1) + 1) : rest[i] = q[m + 1 + i - 1]
    BY <1>1, <2>1, SubSeqProperties
  <2> HIDE DEF rest
  <2>3. Len(rest) = Len(q) - m
    <3>1. m \in Nat /\ Len(q) \in Nat /\ m =< Len(q)
      BY <1>1
    <3>2. Len(rest) = IF m + 1 =< Len(q) THEN Len(q) - (m + 1) + 1 ELSE 0
      BY <2>2
    <3> QED BY <3>1, <3>2
  <2>4. ASSUME NEW i \in 1 .. Len(q) - m
        PROVE  rest[i] = q[m + i]
    <3>1. i \in 1 .. (Len(q) - (m + 1) + 1) /\ m + 1 + i - 1 = m + i
      BY <1>1
    <3> QED BY <2>2, <3>1
  <2> QED BY <2>3, <2>4
<1>4. DOMAIN rest = 1 .. Len(q) - m
  <2> HIDE DEF m, rest
  <2>1. DOMAIN rest = 1 .. Len(rest)
    BY <1>2, LenProperties
  <2> QED BY <1>3, <2>1
<1> HIDE DEF front, m, rest
<1>5. \A i \in DOMAIN rest : m + i \in DOMAIN q /\ m + i \notin 1 .. m /\ rest[i] = q[m + i]
  BY <1>1, <1>3, <1>4
<1>6. ASSUME NEW d \in Digests(q, p) PROVE d \in Digests(front, p) \cup Digests(rest, p)
  <2>1. PICK i \in DOMAIN q : q[i].prefix = p /\ d = q[i].digest
    BY <1>6 DEF Digests
  <2>2. CASE i \in 1 .. m
    BY <2>1, <2>2, <1>1 DEF Digests
  <2>3. CASE i \notin 1 .. m
    <3>1. i - m \in DOMAIN rest /\ m + (i - m) = i
      BY <2>3, <1>1, <1>4
    <3>2. rest[i - m] = q[i]
      BY <3>1, <1>5
    <3> QED BY <2>1, <3>1, <3>2 DEF Digests
  <2> QED BY <2>2, <2>3
<1>7. ASSUME Ordered(q, p), NEW d \in Digests(front, p), NEW e \in Digests(rest, p)
      PROVE  d =< e
  <2>1. PICK i \in 1 .. m : q[i].prefix = p /\ d = q[i].digest
    BY <1>7, <1>1 DEF Digests
  <2>2. PICK j \in DOMAIN rest : rest[j].prefix = p /\ e = rest[j].digest
    BY <1>7 DEF Digests
  <2>3. i \in DOMAIN q /\ m + j \in DOMAIN q /\ i =< m + j
    BY <1>1, <1>4, <1>5
  <2> QED BY <2>1, <2>2, <2>3, <1>5, <1>7 DEF Ordered
<1>8. Rest(q, Len(front)) = rest
  BY <1>1 DEF Rest, rest
<1> QED BY <1>2, <1>6, <1>7, <1>8 DEF front, NotAfter

\* A queue that grows keeps the changes of its first batch there.
LEMMA FrontGrows ==
    ASSUME NEW S, NEW a \in Seq(S), NEW b \in Seq(S), NEW n \in Nat, NEW p
    PROVE  Digests(Front(a, n), p) \subseteq Digests(Front(a \o b, n), p)
<1> DEFINE c == a \o b
<1>1. /\ Len(a) \in Nat /\ Len(b) \in Nat
      /\ c \in Seq(S) /\ Len(c) = Len(a) + Len(b)
      /\ \A i \in 1 .. Len(a) : c[i] = a[i]
  BY LenProperties, ConcatProperties
<1> HIDE DEF c
<1>2. /\ DOMAIN Front(a, n) = 1 .. AtMost(n, Len(a))
      /\ \A i \in 1 .. AtMost(n, Len(a)) : Front(a, n)[i] = a[i]
      /\ AtMost(n, Len(a)) \in 0 .. Len(a)
  BY FrontPart
<1>3. /\ DOMAIN Front(c, n) = 1 .. AtMost(n, Len(c))
      /\ \A i \in 1 .. AtMost(n, Len(c)) : Front(c, n)[i] = c[i]
      /\ AtMost(n, Len(c)) \in 0 .. Len(c)
  BY <1>1, FrontPart
<1>4. AtMost(n, Len(a)) =< AtMost(n, Len(c))
  BY <1>1 DEF AtMost
<1>5. \A i \in DOMAIN Front(a, n) : i \in DOMAIN Front(c, n) /\ Front(c, n)[i] = Front(a, n)[i]
  BY <1>1, <1>2, <1>3, <1>4
<1> QED BY <1>5 DEF Digests, c

\* Newer changes behind a queue leave where it goes on.
LEMMA ResumesConcat ==
    ASSUME NEW S, NEW a \in Seq(S), NEW b \in Seq(S), NEW p, NEW d,
           Resumes(a, p, d), \A e \in Digests(b, p) : d =< e
    PROVE  Resumes(a \o b, p, d)
BY DigestsOfConcat, FrontGrows, OutboxAssumption DEF Resumes

\* The batch taken from a queue goes on where the queue does.
LEMMA ResumesFront ==
    ASSUME NEW S, NEW q \in Seq(S), NEW p, NEW d, Resumes(q, p, d)
    PROVE  Reaches(Front(q, BatchSize), p, d)
BY FrontPart, OutboxAssumption DEF Resumes, Reaches

\* Nothing behind the batch is older than what the chain has.
LEMMA ResumesRest ==
    ASSUME NEW S, \A c \in S : c.digest \in Int, NEW q \in Seq(S), NEW p, NEW d \in Int,
           Ordered(q, p), Resumes(q, p, d)
    PROVE  \A e \in Digests(Rest(q, Len(Front(q, BatchSize))), p) : d =< e
<1> DEFINE front == Front(q, BatchSize)
           rest == Rest(q, Len(front))
<1>1. /\ Digests(rest, p) \subseteq Digests(q, p)
      /\ NotAfter(Digests(front, p), Digests(rest, p))
  BY FrontAndRest, OutboxAssumption
<1>2. Digests(q, p) \subseteq Int /\ Digests(front, p) \subseteq Int
  BY DigestsOf, FrontPart, OutboxAssumption
<1> HIDE DEF rest
<1> QED BY <1>1, <1>2 DEF Resumes, NotAfter, rest

\* The list leaves its prefix at its newest change.
LEMMA OutcomeOrdered ==
    ASSUME NEW S, NEW list \in Seq(S), NEW p, NEW before, Ordered(list, p)
    PROVE  \/ Digests(list, p) = {} /\ Outcome(list, p, before) = before
           \/ /\ Outcome(list, p, before) \in Digests(list, p)
              /\ \A e \in Digests(list, p) : e =< Outcome(list, p, before)
<1>1. CASE Outcome(list, p, before) = before /\ \A i \in DOMAIN list : list[i].prefix # p
  BY <1>1 DEF Digests
<1>2. ASSUME NEW i \in DOMAIN list, list[i].prefix = p,
             Outcome(list, p, before) = list[i].digest,
             \A k \in DOMAIN list : list[k].prefix = p => k =< i
      PROVE  /\ Outcome(list, p, before) \in Digests(list, p)
             /\ \A e \in Digests(list, p) : e =< Outcome(list, p, before)
  BY <1>2 DEF Digests, Ordered
<1> QED BY <1>1, <1>2, OutcomeOf

\* What loads is what loaded before, then changes of the list in its order.
Continues(S, loaded, before, list, p) ==
    \E more \in Seq(S) :
        /\ loaded = before \o more
        /\ Digests(more, p) \subseteq Digests(list, p)
        /\ Ordered(list, p) => Ordered(more, p)

\* What a restart recovers after an append that may have failed: nothing, or what it
\* would have recovered before and some of the appended changes behind it.
LEMMA LoadedAfterAppend ==
    ASSUME NEW S, NEW lines \in Seq(S \cup {Torn}), NEW list \in Seq(S),
           NEW part \in PartialAppends(list) \cup {list}, NEW p
    PROVE  \/ Loaded(lines \o part) = <<>>
           \/ Continues(S, Loaded(lines \o part), Loaded(lines), list, p)
<1> DEFINE W == S \cup {Torn}
           all == lines \o part
<1>0. Len(list) \in Nat /\ DOMAIN list = 1 .. Len(list) /\ list \in Seq(W)
  BY LenProperties, LinesOf
<1>1. part \in Seq(W)
  BY <1>0, PartialTyped
<1>2. /\ all \in Seq(W) /\ Len(lines) \in Nat /\ Len(part) \in Nat
      /\ DOMAIN lines = 1 .. Len(lines) /\ DOMAIN part = 1 .. Len(part)
      /\ Len(all) = Len(lines) + Len(part) /\ DOMAIN all = 1 .. Len(all)
      /\ \A i \in 1 .. Len(lines) : all[i] = lines[i]
      /\ \A i \in 1 .. Len(part) : all[Len(lines) + i] = part[i]
  <2>1. all \in Seq(W) /\ Len(lines) \in Nat /\ Len(part) \in Nat
        /\ DOMAIN lines = 1 .. Len(lines) /\ DOMAIN part = 1 .. Len(part)
    BY <1>1, LenProperties, ConcatProperties
  <2> QED BY <2>1, <1>1, LenProperties, ConcatProperties
<1> HIDE DEF all, W
<1>3. CASE IsTorn(lines) \/ IsTorn(part)
  <2>1. IsTorn(all)
    <3>1. \A i \in DOMAIN lines : i \in DOMAIN all
      BY <1>2
    <3>2. \A i \in DOMAIN part : Len(lines) + i \in DOMAIN all
      BY <1>2
    <3> QED BY <1>2, <1>3, <3>1, <3>2 DEF IsTorn
  <2> QED BY <2>1 DEF IsTorn, Loaded, all
<1>4. CASE ~IsTorn(lines) /\ ~IsTorn(part)
  <2>1. ~IsTorn(all)
    <3>1. \A i \in DOMAIN all : i \in DOMAIN lines \/ i - Len(lines) \in DOMAIN part
      BY <1>2
    <3>2. \A i \in DOMAIN all : Len(lines) + (i - Len(lines)) = i
      BY <1>2
    <3>3. \A i \in DOMAIN all : all[i] = lines[i] \/ all[i] = part[i - Len(lines)]
      BY <1>2, <3>1, <3>2
    <3> SUFFICES ASSUME NEW i \in DOMAIN all, all[i] = Torn PROVE FALSE
      BY DEF IsTorn
    <3>4. CASE i \in DOMAIN lines
      BY <3>4, <1>2, <1>4 DEF IsTorn
    <3>5. CASE i - Len(lines) \in DOMAIN part
      <4>1. all[i] = part[i - Len(lines)]
        BY <3>2, <3>5, <1>2
      <4> QED BY <3>5, <4>1, <1>4 DEF IsTorn
    <3> QED BY <3>1, <3>4, <3>5
  <2>2. Loaded(all) = all /\ Loaded(lines) = lines
    BY <2>1, <1>4 DEF IsTorn, Loaded
  <2>3. /\ part \in Seq(S) /\ Digests(part, p) \subseteq Digests(list, p)
        /\ Ordered(list, p) => Ordered(part, p)
    <3>1. CASE part = list
      BY <3>1
    <3>2. ASSUME NEW n \in 0 .. Len(list), part = SubSeq(list, 1, n)
          PROVE  /\ part \in Seq(S) /\ Digests(part, p) \subseteq Digests(list, p)
                 /\ Ordered(list, p) => Ordered(part, p)
      <4>1. n \in Nat /\ n =< Len(list) /\ 1 \in Nat /\ 1 >= 1
        BY <1>0
      <4> QED BY <3>2, <4>1, OrderedPart
    <3>3. ASSUME NEW n \in 0 .. Len(list) - 1, part = Append(SubSeq(list, 1, n), Torn)
          PROVE  FALSE
      <4>1. n \in Nat /\ n =< Len(list) /\ 1 \in Nat /\ 1 >= 1
        BY <1>0
      <4>2. SubSeq(list, 1, n) \in Seq(S)
        BY <4>1, OrderedPart
      <4>3. SubSeq(list, 1, n) \in Seq(W)
        BY <4>2, LinesOf DEF W
      <4>4. /\ Len(part) = Len(SubSeq(list, 1, n)) + 1 /\ Len(SubSeq(list, 1, n)) \in Nat
            /\ part[Len(SubSeq(list, 1, n)) + 1] = Torn
        BY <4>3, <3>3, AppendProperties, LenProperties DEF W
      <4>5. \E k \in Nat : Len(part) = k + 1 /\ part[k + 1] = Torn
        BY <4>4
      <4>6. \E i \in DOMAIN part : part[i] = Torn
        <5> HIDE <3>3
        <5>1. PICK k \in Nat : Len(part) = k + 1 /\ part[k + 1] = Torn
          BY <4>5
        <5>2. k + 1 \in DOMAIN part
          BY <5>1, <1>2
        <5> QED BY <5>1, <5>2
      <4> QED BY <4>6, <1>4 DEF IsTorn
    <3> QED BY <3>1, <3>2, <3>3 DEF PartialAppends
  <2> QED BY <2>2, <2>3 DEF all, Continues
<1> QED BY <1>3, <1>4

(***************************************************************************)
(* The order of the changes of one prefix                                  *)
(***************************************************************************)

\* What is compared are numbers.
LEMMA DigestTypes ==
    ASSUME IInv, NEW p \in Prefixes
    PROVE  /\ \A c \in Current : c.digest \in Int
           /\ version \in Int /\ latest[p] \in Int /\ reported[p] \in Int
           /\ Sent(p) \subseteq Int /\ Downstream(p) \subseteq Int
           /\ Digests(pending, p) \subseteq Int /\ Digests(Loaded(file), p) \subseteq Int
           /\ Digests(batch, p) \subseteq Int
           /\ \A list \in unsent : Digests(list, p) \subseteq Int
           /\ \A i \in DOMAIN channel :
                channel[i].list \in Seq(Current) /\ Digests(channel[i].list, p) \subseteq Int
           /\ \A i \in DOMAIN mempool :
                mempool[i] \in Seq(Current) /\ Digests(mempool[i], p) \subseteq Int
<1>1. \A c \in Current : c.digest \in Int
  BY DEF Current, Changes
<1>2. version \in Int /\ latest[p] \in Int /\ reported[p] \in Int
  BY DEF IInv, Simple, OnlyCurrent
<1>3. \A list \in Seq(Current) : Digests(list, p) \subseteq Int
  BY <1>1, DigestsOf
<1>4. /\ pending \in Seq(Current) /\ batch \in Seq(Current)
      /\ unsent \subseteq Seq(Current)
      /\ Loaded(file) \in Seq(Current)
  BY LoadedTyped DEF IInv, OnlyCurrent
<1>5. \A i \in DOMAIN channel : channel[i].list \in Seq(Current)
  <2>1. \A i \in DOMAIN channel : channel[i] \in CurrentCommands
    BY LenProperties DEF IInv, OnlyCurrent
  <2> QED BY <2>1 DEF CurrentCommands
<1>6. \A i \in DOMAIN mempool : mempool[i] \in Seq(Current)
  BY LenProperties DEF IInv, OnlyCurrent
<1>7. Sent(p) \subseteq Int
  BY <1>2, <1>3, <1>6 DEF Sent
<1> QED BY <1>1, <1>2, <1>3, <1>4, <1>5, <1>6, <1>7 DEF Downstream

\* The order is a matter of these variables alone.
LEMMA OrderFrame ==
    ASSUME NEW p, InOrder(p),
           UNCHANGED <<version, unsent, channel, pending, file, mempool, latest>>
    PROVE  InOrder(p)'
BY DEF InOrder, UpstreamOrder, ArrivalOrder, QueueOrder, ChainOrder, ReportedOnly,
       Downstream, Sent

\* The changes of a call are newer than all others and in order.
LEMMA RingChangeOrder ==
    ASSUME IInv, NEW p \in Prefixes, InOrder(p), NEW ps \in PrefixLists, RingChange(ps)
    PROVE  InOrder(p)'
<1> DEFINE list == [i \in DOMAIN ps |-> [prefix |-> ps[i], digest |-> version + i]]
<1>1. /\ ps \in Seq(Prefixes) /\ Len(ps) \in Nat /\ DOMAIN ps = 1 .. Len(ps)
  BY LenProperties, OutboxAssumption
<1>2. version \in Int /\ version' = version + Len(ps)
  BY DEF IInv, Simple, RingChange
<1>3. /\ Ordered(list, p)
      /\ \A d \in Digests(list, p) : d \in Int /\ version < d /\ d =< version'
  <2>1. DOMAIN list = 1 .. Len(ps) /\ \A i \in 1 .. Len(ps) : list[i].digest = version + i
    BY <1>1
  <2> HIDE DEF list
  <2>2. Ordered(list, p)
    BY <1>1, <1>2, <2>1 DEF Ordered
  <2>3. ASSUME NEW d \in Digests(list, p) PROVE d \in Int /\ version < d /\ d =< version'
    <3>1. PICK i \in 1 .. Len(ps) : d = version + i
      BY <2>1 DEF Digests
    <3> QED BY <3>1, <1>1, <1>2
  <2> QED BY <2>2, <2>3
<1>4. /\ unsent' = unsent \cup {list}
      /\ UNCHANGED <<channel, pending, file, mempool, latest>>
  BY DEF RingChange, queued, chain
<1> HIDE DEF list
<1>5. Sent(p)' = Sent(p) /\ Downstream(p)' = Downstream(p)
  BY <1>4 DEF Sent, Downstream
<1>6. version =< version'
  BY <1>1, <1>2
<1>7. \A A : A \subseteq Int /\ NotAfter(A, {version}) =>
        NotAfter(A, {version'}) /\ NotAfter(A, Digests(list, p))
  BY <1>2, <1>3, <1>6 DEF NotAfter
<1>8. UpstreamOrder(p)'
  BY <1>3, <1>4, <1>7, DigestTypes DEF InOrder, UpstreamOrder, ReportedOnly
<1>9. ArrivalOrder(p)'
  BY <1>4, <1>5, <1>7, DigestTypes DEF InOrder, ArrivalOrder, ReportedOnly
<1>10. QueueOrder(p)' /\ ChainOrder(p)'
  BY <1>4, <1>5 DEF InOrder, QueueOrder, ChainOrder
<1>11. ReportedOnly(p)'
  <2>1. NotAfter(Digests(list, p), {version'})
    BY <1>3 DEF NotAfter
  <2> QED BY <2>1, <1>4, <1>5, <1>7, DigestTypes DEF InOrder, ReportedOnly
<1> QED BY <1>8, <1>9, <1>10, <1>11 DEF InOrder

\* The channel with one more command.
LEMMA ChannelAppended ==
    ASSUME IInv, NEW cmd \in CurrentCommands, channel' = Append(channel, cmd)
    PROVE  /\ Len(channel) \in Nat /\ DOMAIN channel = 1 .. Len(channel)
           /\ DOMAIN channel' = 1 .. Len(channel) + 1
           /\ \A i \in 1 .. Len(channel) : channel'[i] = channel[i]
           /\ channel'[Len(channel) + 1] = cmd
<1>1. channel \in Seq(CurrentCommands)
  BY DEF IInv, OnlyCurrent
<1>2. /\ channel' \in Seq(CurrentCommands) /\ Len(channel') = Len(channel) + 1
      /\ \A i \in 1 .. Len(channel) : channel'[i] = channel[i]
      /\ channel'[Len(channel) + 1] = cmd
  BY <1>1, AppendProperties
<1> QED BY <1>1, <1>2, LenProperties

\* A command behind the others, with changes that none in front of it is newer than.
LEMMA AppendOrder ==
    ASSUME IInv, NEW p \in Prefixes, InOrder(p), NEW cmd \in CurrentCommands,
           channel' = Append(channel, cmd), unsent' \subseteq unsent,
           UNCHANGED <<version, pending, file, mempool, latest>>,
           Ordered(cmd.list, p), NotAfter(Digests(cmd.list, p), {version}),
           NotAfter(Downstream(p), Digests(cmd.list, p)),
           \A i \in DOMAIN channel : NotAfter(Digests(channel[i].list, p), Digests(cmd.list, p)),
           \A list \in unsent' : NotAfter(Digests(cmd.list, p), Digests(list, p))
    PROVE  InOrder(p)'
<1>1. /\ Len(channel) \in Nat /\ DOMAIN channel = 1 .. Len(channel)
      /\ DOMAIN channel' = 1 .. Len(channel) + 1
      /\ \A i \in 1 .. Len(channel) : channel'[i] = channel[i]
      /\ channel'[Len(channel) + 1] = cmd
  BY ChannelAppended
<1>2. \A i \in DOMAIN channel' :
        \/ i \in DOMAIN channel /\ channel'[i] = channel[i]
        \/ i = Len(channel) + 1 /\ channel'[i] = cmd
  BY <1>1
<1>3. \A i, j \in DOMAIN channel' : i < j => i \in DOMAIN channel /\ channel'[i] = channel[i]
  BY <1>1
<1>4. Sent(p)' = Sent(p) /\ Downstream(p)' = Downstream(p)
  BY DEF Sent, Downstream
<1>5. UpstreamOrder(p)'
  <2>1. \A list \in unsent' : Ordered(list, p)
    BY DEF InOrder, UpstreamOrder
  <2>2. \A i \in DOMAIN channel' : Ordered(channel'[i].list, p)
    BY <1>2 DEF InOrder, UpstreamOrder
  <2>3. \A i, j \in DOMAIN channel' :
          i < j => NotAfter(Digests(channel'[i].list, p), Digests(channel'[j].list, p))
    BY <1>2, <1>3 DEF InOrder, UpstreamOrder
  <2>4. \A i \in DOMAIN channel', list \in unsent' :
          NotAfter(Digests(channel'[i].list, p), Digests(list, p))
    BY <1>2 DEF InOrder, UpstreamOrder
  <2> QED BY <2>1, <2>2, <2>3, <2>4 DEF UpstreamOrder
<1>6. ArrivalOrder(p)'
  BY <1>2, <1>4 DEF InOrder, ArrivalOrder
<1>7. QueueOrder(p)' /\ ChainOrder(p)'
  BY <1>4 DEF InOrder, QueueOrder, ChainOrder
<1>8. ReportedOnly(p)'
  BY <1>2, <1>4 DEF InOrder, ReportedOnly
<1> QED BY <1>5, <1>6, <1>7, <1>8 DEF InOrder

\* A list that overtakes no other one of the handlers.
LEMMA EnqueueOrder ==
    ASSUME IInv, NEW p \in Prefixes, p \notin overtaken', InOrder(p),
           NEW list \in unsent, Enqueue(list)
    PROVE  InOrder(p)'
<1>1. /\ unsent' = unsent \ {list} /\ channel' = Append(channel, Commit(list))
      /\ p \notin Overtakes(list)
      /\ UNCHANGED <<version, pending, file, mempool, latest>>
  BY DEF Enqueue, queued, chain
<1>2. list \in Seq(Current) /\ Commit(list) \in CurrentCommands /\ Commit(list).list = list
  BY DEF IInv, OnlyCurrent, Commit, CurrentCommands
<1>3. ASSUME NEW other \in unsent' PROVE NotAfter(Digests(list, p), Digests(other, p))
  <2> SUFFICES ASSUME NEW j \in DOMAIN list, list[j].prefix = p,
                      NEW i \in DOMAIN other, other[i].prefix = p
               PROVE  list[j].digest =< other[i].digest
    BY DEF NotAfter, Digests
  <2>1. p \in PrefixesOf(list)
    BY DEF PrefixesOf
  <2>2. ~(other[i].digest < list[j].digest)
    BY <1>1, <2>1 DEF Overtakes
  <2>3. list[j].digest \in Int /\ other[i].digest \in Int
    BY <1>1, DigestTypes DEF Digests
  <2> QED BY <2>2, <2>3
<1>4. /\ Ordered(list, p) /\ NotAfter(Digests(list, p), {version})
      /\ NotAfter(Downstream(p), Digests(list, p))
      /\ \A i \in DOMAIN channel : NotAfter(Digests(channel[i].list, p), Digests(list, p))
  BY DEF InOrder, UpstreamOrder, ArrivalOrder, ReportedOnly
<1> QED BY <1>1, <1>2, <1>3, <1>4, AppendOrder

\* A reset that is asked for carries no change.
LEMMA AskResetOrder ==
    ASSUME IInv, NEW p \in Prefixes, InOrder(p), AskReset
    PROVE  InOrder(p)'
<1>1. /\ unsent' = {} /\ channel' = Append(channel, ResetCmd)
      /\ UNCHANGED <<version, pending, file, mempool, latest>>
  BY DEF AskReset, queued, chain
<1>2. ResetCmd \in CurrentCommands /\ ResetCmd.list = <<>>
  BY EmptySeq DEF ResetCmd, CurrentCommands
<1>3. Ordered(<<>>, p) /\ Digests(<<>>, p) = {}
  BY DigestsOfNone
<1> QED BY <1>1, <1>2, <1>3, AppendOrder DEF NotAfter

\* The channel without its first command.
LEMMA ChannelTail ==
    ASSUME IInv, channel # <<>>
    PROVE  /\ 1 \in DOMAIN channel /\ Head(channel) = channel[1]
           /\ \A i \in DOMAIN Tail(channel) :
                /\ i + 1 \in DOMAIN channel /\ 1 < i + 1
                /\ Tail(channel)[i] = channel[i + 1]
           /\ \A i, j \in DOMAIN Tail(channel) : i < j => i + 1 < j + 1
<1>1. channel \in Seq(CurrentCommands)
  BY DEF IInv, OnlyCurrent
<1>2. Len(channel) \in Nat \ {0} /\ DOMAIN channel = 1 .. Len(channel)
  BY <1>1, EmptySeq, LenProperties
<1>3. /\ Tail(channel) \in Seq(CurrentCommands)
      /\ Len(Tail(channel)) = Len(channel) - 1
      /\ \A i \in 1 .. Len(Tail(channel)) : Tail(channel)[i] = channel[i + 1]
  BY <1>1, HeadTailProperties
<1>4. DOMAIN Tail(channel) = 1 .. Len(Tail(channel))
  BY <1>3, LenProperties
<1>5. Head(channel) = channel[1]
  BY <1>1
<1> QED BY <1>2, <1>3, <1>4, <1>5

\* A list appended to the file, wholly or in part.
LEMMA LoadedOrder ==
    ASSUME IInv, NEW p \in Prefixes, InOrder(p), NEW list \in Seq(Current),
           Ordered(list, p), NotAfter(Downstream(p), Digests(list, p)),
           NEW part \in PartialAppends(list) \cup {list}
    PROVE  LET loaded == Loaded(file \o part) IN
           /\ Ordered(loaded, p) /\ \A d \in Sent(p) : Resumes(loaded, p, d)
           /\ Digests(loaded, p) \subseteq Digests(Loaded(file), p) \cup Digests(list, p)
<1> DEFINE loaded == Loaded(file \o part)
<1>1. file \in Seq(Current \cup {Torn}) /\ Loaded(file) \in Seq(Current)
  BY LoadedTyped DEF IInv, OnlyCurrent
<1>2. \/ loaded = <<>>
      \/ Continues(Current, loaded, Loaded(file), list, p)
  BY <1>1, LoadedAfterAppend
<1> HIDE DEF loaded
<1>3. CASE loaded = <<>>
  <2>1. Digests(loaded, p) = {} /\ Ordered(loaded, p) /\ DOMAIN loaded = {}
    BY <1>3, DigestsOfNone, EmptySeq, LenProperties DEF Ordered
  <2>2. \A d \in Sent(p) : Resumes(loaded, p, d)
    BY <2>1 DEF Resumes
  <2>3. Digests(loaded, p) \subseteq Digests(Loaded(file), p) \cup Digests(list, p)
    BY <2>1
  <2> QED BY <2>1, <2>2, <2>3, Zenon DEF loaded
<1>4. CASE loaded # <<>>
  <2>1. PICK more \in Seq(Current) :
            /\ loaded = Loaded(file) \o more
            /\ Digests(more, p) \subseteq Digests(list, p)
            /\ Ordered(list, p) => Ordered(more, p)
    BY <1>2, <1>4 DEF Continues
  <2>2. Digests(loaded, p) = Digests(Loaded(file), p) \cup Digests(more, p)
    BY <1>1, <2>1, DigestsOfConcat
  <2>3. NotAfter(Digests(Loaded(file), p), Digests(more, p))
    BY <2>1 DEF Downstream, NotAfter
  <2>4. Ordered(loaded, p)
    BY <1>1, <2>1, <2>3, OrderedConcat DEF InOrder, QueueOrder
  <2>5. ASSUME NEW d \in Sent(p) PROVE Resumes(loaded, p, d)
    <3>1. \A e \in Digests(more, p) : d =< e
      BY <2>1 DEF Downstream, NotAfter
    <3>2. Resumes(Loaded(file), p, d)
      BY DEF InOrder, QueueOrder
    <3> QED BY <1>1, <2>1, <3>1, <3>2, ResumesConcat
  <2> QED BY <2>1, <2>2, <2>4, <2>5 DEF loaded
<1> QED BY <1>3, <1>4

\* The worker takes over the changes of a command; the file gets them or some of them.
LEMMA ReceiveOrder ==
    ASSUME IInv, NEW p \in Prefixes, InOrder(p), channel # <<>>,
           channel' = Tail(channel), pending' = pending \o Head(channel).list,
           NEW part \in PartialAppends(Head(channel).list) \cup {Head(channel).list},
           file' = file \o part,
           UNCHANGED <<version, unsent, mempool, latest>>
    PROVE  InOrder(p)'
<1> DEFINE list == Head(channel).list
<1>1. /\ 1 \in DOMAIN channel /\ Head(channel) = channel[1]
      /\ \A i \in DOMAIN channel' :
            i + 1 \in DOMAIN channel /\ 1 < i + 1 /\ channel'[i] = channel[i + 1]
      /\ \A i, j \in DOMAIN channel' : i < j => i + 1 < j + 1
  BY ChannelTail
<1>2. list \in Seq(Current) /\ pending \in Seq(Current)
  BY <1>1, DigestTypes DEF IInv, OnlyCurrent
<1>3. /\ Ordered(list, p) /\ NotAfter(Digests(list, p), {version})
      /\ NotAfter(Downstream(p), Digests(list, p))
      /\ \A i \in DOMAIN channel' : NotAfter(Digests(list, p), Digests(channel'[i].list, p))
      /\ \A u \in unsent : NotAfter(Digests(list, p), Digests(u, p))
  BY <1>1 DEF InOrder, UpstreamOrder, ArrivalOrder, ReportedOnly
<1>4. /\ Ordered(Loaded(file'), p) /\ \A d \in Sent(p) : Resumes(Loaded(file'), p, d)
      /\ Digests(Loaded(file'), p) \subseteq Digests(Loaded(file), p) \cup Digests(list, p)
  <2> HIDE DEF list
  <2>1. part \in PartialAppends(list) \cup {list}
    BY DEF list
  <2> QED BY <1>2, <1>3, <2>1, LoadedOrder
<1> HIDE DEF list
<1>5. Digests(pending', p) = Digests(pending, p) \cup Digests(list, p)
  BY <1>2, DigestsOfConcat DEF list
<1>6. Ordered(pending', p) /\ \A d \in Sent(p) : Resumes(pending', p, d)
  <2>1. NotAfter(Digests(pending, p), Digests(list, p))
    BY <1>3 DEF NotAfter, Downstream
  <2>2. Ordered(pending', p)
    BY <1>2, <1>3, <2>1, OrderedConcat DEF InOrder, QueueOrder, list
  <2>3. ASSUME NEW d \in Sent(p) PROVE Resumes(pending', p, d)
    <3>1. \A e \in Digests(list, p) : d =< e
      BY <1>3 DEF NotAfter, Downstream
    <3>2. Resumes(pending, p, d)
      BY DEF InOrder, QueueOrder
    <3> QED BY <1>2, <3>1, <3>2, ResumesConcat DEF list
  <2> QED BY <2>2, <2>3
<1>7. Sent(p)' = Sent(p) /\ Downstream(p)' \subseteq Downstream(p) \cup Digests(list, p)
  BY <1>4, <1>5 DEF Sent, Downstream
<1>8. UpstreamOrder(p)'
  BY <1>1 DEF InOrder, UpstreamOrder
<1>9. ArrivalOrder(p)'
  BY <1>1, <1>3, <1>7 DEF InOrder, ArrivalOrder, NotAfter
<1>10. QueueOrder(p)' /\ ChainOrder(p)'
  BY <1>4, <1>6, <1>7 DEF InOrder, QueueOrder, ChainOrder
<1>11. ReportedOnly(p)'
  BY <1>1, <1>3, <1>7 DEF InOrder, ReportedOnly, NotAfter
<1> QED BY <1>8, <1>9, <1>10, <1>11 DEF InOrder

\* A queue and a file that take the place of the old ones, with nothing they did not
\* hold and going on where the chain is.
LEMMA RequeuedOrder ==
    ASSUME IInv, NEW p \in Prefixes, InOrder(p),
           UNCHANGED <<version, mempool, latest>>,
           UNCHANGED <<unsent, channel>> \/ (unsent' = {} /\ channel' = <<>>),
           Digests(pending', p) \subseteq Downstream(p),
           Digests(Loaded(file'), p) \subseteq Downstream(p),
           Ordered(pending', p), Ordered(Loaded(file'), p),
           \A d \in Sent(p) : Resumes(pending', p, d) /\ Resumes(Loaded(file'), p, d)
    PROVE  InOrder(p)'
<1>1. Sent(p)' = Sent(p) /\ Downstream(p)' \subseteq Downstream(p)
  BY DEF Sent, Downstream
<1>2. QueueOrder(p)' /\ ChainOrder(p)'
  BY <1>1 DEF InOrder, QueueOrder, ChainOrder
<1>3. CASE UNCHANGED <<unsent, channel>>
  BY <1>1, <1>2, <1>3 DEF InOrder, UpstreamOrder, ArrivalOrder, ReportedOnly, NotAfter
<1>4. CASE unsent' = {} /\ channel' = <<>>
  <2>1. DOMAIN channel' = {}
    BY <1>4
  <2>2. UpstreamOrder(p)' /\ ArrivalOrder(p)'
    BY <1>4, <2>1 DEF UpstreamOrder, ArrivalOrder
  <2>3. ReportedOnly(p)'
    BY <1>1, <1>4, <2>1 DEF InOrder, ReportedOnly, NotAfter
  <2> QED BY <1>2, <2>2, <2>3 DEF InOrder
<1> QED BY <1>3, <1>4

\* Nothing is left of the chain, the queue and the handlers.
LEMMA EmptyOrder ==
    ASSUME IInv, NEW p \in Prefixes, version' = version, unsent' = {}, channel' = <<>>,
           pending' = <<>>, file' = <<>>, NewChain
    PROVE  InOrder(p)'
<1>1. DOMAIN channel' = {} /\ DOMAIN mempool' = {} /\ latest'[p] = 0
  BY DEF NewChain
<1>2. Loaded(file') = <<>>
  BY DEF Loaded
<1>3. Digests(<<>>, p) = {} /\ Ordered(<<>>, p)
  BY DigestsOfNone
<1>4. Sent(p)' = {0} /\ Downstream(p)' = {0}
  BY <1>1, <1>2, <1>3 DEF Sent, Downstream
<1>5. 0 =< version'
  BY DEF IInv, Simple
<1>6. UpstreamOrder(p)' /\ ArrivalOrder(p)' /\ ChainOrder(p)'
  BY <1>1 DEF UpstreamOrder, ArrivalOrder, ChainOrder
<1>7. QueueOrder(p)'
  BY <1>2, <1>3, <1>4 DEF QueueOrder, Resumes
<1>8. ReportedOnly(p)'
  BY <1>1, <1>4, <1>5 DEF ReportedOnly, NotAfter
<1> QED BY <1>6, <1>7, <1>8 DEF InOrder

\* The worker serves a reset, well or badly.
LEMMA ResetOrder ==
    ASSUME IInv, NEW p \in Prefixes, p \notin overtaken', ReceiveReset \/ (ResetFails /\ InOrder(p))
    PROVE  InOrder(p)'
<1>1. channel' = <<>> /\ unsent' = {} /\ version' = version /\ pending' = <<>>
  <2>1. channel # <<>> /\ Head(channel).kind = "reset" /\ channel' = Tail(channel)
    BY DEF ReceiveReset, ResetFails
  <2> QED BY <2>1, NextCommand DEF ReceiveReset, ResetFails, ClearedPending
<1>2. CASE ReceiveReset
  BY <1>1, <1>2, EmptyOrder DEF ReceiveReset
<1>3. CASE ResetFails /\ InOrder(p)
  <2>1. file' = <<>>
    BY <1>3 DEF ResetFails
  <2>2. CASE NewChain
    BY <1>1, <2>1, <2>2, EmptyOrder
  <2>3. CASE UNCHANGED chain
    <3>1. Loaded(file') = <<>>
      BY <2>1 DEF Loaded
    <3>2. Digests(<<>>, p) = {} /\ Ordered(<<>>, p) /\ \A d \in Sent(p) : Resumes(<<>>, p, d)
      BY DigestsOfNone DEF Resumes
    <3>3. UNCHANGED <<version, mempool, latest>>
      BY <1>1, <2>3 DEF chain
    <3> QED BY <1>1, <1>3, <3>1, <3>2, <3>3, RequeuedOrder
  <2> QED BY <1>3, <2>2, <2>3 DEF ResetFails
<1> QED BY <1>2, <1>3

\* A dirty outbox is rewritten from the queue.
LEMMA TickOrder ==
    ASSUME IInv, NEW p \in Prefixes, InOrder(p), Tick
    PROVE  InOrder(p)'
<1>1. /\ UNCHANGED <<version, unsent, channel, pending, mempool, latest>>
      /\ file' = pending \/ file' = file
  BY DEF Tick, manager, chain
<1>2. Loaded(file') \in {pending, <<>>, Loaded(file)}
  BY <1>1 DEF Loaded
<1>3. Digests(<<>>, p) = {} /\ Ordered(<<>>, p) /\ \A d \in Sent(p) : Resumes(<<>>, p, d)
  BY DigestsOfNone DEF Resumes
<1>4. /\ Ordered(pending', p) /\ Ordered(Loaded(file'), p)
      /\ \A d \in Sent(p) : Resumes(pending', p, d) /\ Resumes(Loaded(file'), p, d)
  BY <1>1, <1>2, <1>3 DEF InOrder, QueueOrder
<1>5. Digests(pending', p) \subseteq Downstream(p) /\ Digests(Loaded(file'), p) \subseteq Downstream(p)
  BY <1>1, <1>2, <1>3 DEF Downstream
<1> QED BY <1>1, <1>4, <1>5, RequeuedOrder

\* One more transaction, going on where the others leave the registry, and no newer
\* than the worker could start over from.
LEMMA SentOrder ==
    ASSUME IInv, NEW p \in Prefixes, InOrder(p), NEW txn \in Seq(Current),
           mempool' = Append(mempool, txn),
           UNCHANGED <<version, unsent, channel, pending, file, latest>>,
           Ordered(txn, p), Digests(txn, p) \subseteq Downstream(p),
           \A d \in Sent(p) : Reaches(txn, p, d),
           \A d \in Digests(txn, p) : Resumes(pending, p, d) /\ Resumes(Loaded(file), p, d)
    PROVE  InOrder(p)'
<1>1. /\ Len(mempool) \in Nat /\ DOMAIN mempool = 1 .. Len(mempool)
      /\ DOMAIN mempool' = 1 .. Len(mempool) + 1
      /\ \A i \in 1 .. Len(mempool) : mempool'[i] = mempool[i]
      /\ mempool'[Len(mempool) + 1] = txn
  <2>1. mempool \in Seq(Seq(Current))
    BY DEF IInv, OnlyCurrent
  <2>2. /\ mempool' \in Seq(Seq(Current)) /\ Len(mempool') = Len(mempool) + 1
        /\ \A i \in 1 .. Len(mempool) : mempool'[i] = mempool[i]
        /\ mempool'[Len(mempool) + 1] = txn
    BY <2>1, AppendProperties
  <2> QED BY <2>1, <2>2, LenProperties
<1>2. \A i \in DOMAIN mempool' :
        \/ i \in DOMAIN mempool /\ mempool'[i] = mempool[i]
        \/ i = Len(mempool) + 1 /\ mempool'[i] = txn
  BY <1>1
<1>3. \A i, j \in DOMAIN mempool' : i < j => i \in DOMAIN mempool /\ mempool'[i] = mempool[i]
  BY <1>1
<1>4. Sent(p)' = Sent(p) \cup Digests(txn, p)
  BY <1>1, <1>2 DEF Sent
<1>5. Downstream(p)' = Downstream(p)
  BY <1>4 DEF Downstream
<1>6. UpstreamOrder(p)' /\ ArrivalOrder(p)' /\ ReportedOnly(p)'
  BY <1>5 DEF InOrder, UpstreamOrder, ArrivalOrder, ReportedOnly
<1>7. QueueOrder(p)'
  BY <1>4 DEF InOrder, QueueOrder
<1>8. ChainOrder(p)'
  <2>1. latest[p] \in Sent(p) /\ \A i \in DOMAIN mempool : Digests(mempool[i], p) \subseteq Sent(p)
    BY DEF Sent
  <2>2. ASSUME NEW i \in DOMAIN mempool'
        PROVE  Ordered(mempool'[i], p) /\ Reaches(mempool'[i], p, latest'[p])
    BY <1>2, <2>1 DEF InOrder, ChainOrder
  <2>3. ASSUME NEW i \in DOMAIN mempool', NEW j \in DOMAIN mempool', i < j,
               NEW d \in Digests(mempool'[i], p)
        PROVE  Reaches(mempool'[j], p, d)
    BY <1>2, <1>3, <2>1, <2>3 DEF InOrder, ChainOrder
  <2> QED BY <2>2, <2>3 DEF ChainOrder
<1> QED BY <1>6, <1>7, <1>8 DEF InOrder

\* The batch is sent while the file holds what the queue holds.
LEMMA SendOrder ==
    ASSUME IInv, OutboxIsQueue, BatchIsFront,
           NEW p \in Prefixes, p \notin overtaken, InOrder(p), SendTransaction
    PROVE  InOrder(p)'
<1>1. /\ mempool' = Append(mempool, batch)
      /\ UNCHANGED <<version, unsent, channel, pending, file, latest>>
      /\ batch = Front(pending, BatchSize) /\ ~dirty /\ worker # "down"
  BY DEF SendTransaction, BatchIsFront, manager, queued
<1>2. pending \in Seq(Current) /\ batch \in Seq(Current)
  BY DEF IInv, OnlyCurrent
<1>3. Loaded(file) = pending \/ Loaded(file) = <<>>
  BY <1>1 DEF OutboxIsQueue, IsTorn, Loaded
<1>4. /\ Digests(batch, p) \subseteq Digests(pending, p)
      /\ Ordered(pending, p) => Ordered(batch, p)
  BY <1>1, <1>2, FrontPart, OutboxAssumption
<1>5. \A d \in Sent(p) : Reaches(batch, p, d)
  BY <1>1, <1>2, ResumesFront DEF InOrder, QueueOrder
<1>6. \A d \in Digests(batch, p) : d \in Int
  BY DigestTypes
<1>7. \A d \in Digests(batch, p) : Resumes(pending, p, d) /\ Resumes(Loaded(file), p, d)
  BY <1>1, <1>3, <1>6, DigestsOfNone DEF Resumes
<1>8. Ordered(batch, p) /\ Digests(batch, p) \subseteq Downstream(p)
  BY <1>4 DEF InOrder, QueueOrder, Downstream
<1> QED BY <1>1, <1>2, <1>5, <1>7, <1>8, SentOrder

\* What a killed submitter's child sends is exempt.
LEMMA OrphanOrder ==
    ASSUME IInv, NEW p \in Prefixes, p \notin overtaken', InOrder(p), OrphanSends
    PROVE  InOrder(p)'
<1>1. /\ mempool' = Append(mempool, orphan) /\ orphan \in Seq(Current)
      /\ UNCHANGED <<version, unsent, channel, pending, file, latest>>
      /\ p \notin PrefixesOf(orphan)
  BY DEF OrphanSends, manager, queued, IInv, OnlyCurrent
<1>2. Digests(orphan, p) = {} /\ Ordered(orphan, p)
  BY <1>1 DEF PrefixesOf, Digests, Ordered
<1> QED BY <1>1, <1>2, SentOrder DEF Reaches

\* What is left of the queue after a confirmation is not behind the registry.
LEMMA ConfirmedOrder ==
    ASSUME IInv, BatchIsFront, NEW p \in Prefixes, InOrder(p),
           SubmitConfirmed \/ ConfirmedRewriteFails
    PROVE  InOrder(p)'
<1>1. /\ batch = Front(pending, BatchSize)
      /\ pending' = Rest(pending, Len(batch))
      /\ UNCHANGED <<version, unsent, channel, mempool, latest>>
      /\ file' = pending' \/ file' = file
  BY DEF SubmitConfirmed, ConfirmedRewriteFails, Confirmed, Drained, BatchIsFront, manager
<1>2. pending \in Seq(Current) /\ \A c \in Current : c.digest \in Int
  BY DigestTypes DEF IInv, OnlyCurrent
<1>3. /\ Digests(pending', p) \subseteq Digests(pending, p)
      /\ Ordered(pending, p) => Ordered(pending', p)
  BY <1>1, <1>2, FrontAndRest, OutboxAssumption
<1>4. Ordered(pending, p) /\ \A d \in Sent(p) : Resumes(pending, p, d)
  BY DEF InOrder, QueueOrder
<1>5. \A d \in Sent(p) : Resumes(pending', p, d)
  BY <1>1, <1>2, <1>4, ResumesRest, DigestTypes DEF Resumes
<1>6. Loaded(file') \in {pending', <<>>, Loaded(file)}
  BY <1>1 DEF Loaded
<1>7. Digests(<<>>, p) = {} /\ Ordered(<<>>, p) /\ \A d \in Sent(p) : Resumes(<<>>, p, d)
  BY DigestsOfNone DEF Resumes
<1>8. Ordered(pending', p) /\ Digests(pending', p) \subseteq Downstream(p)
  BY <1>3, <1>4 DEF Downstream
<1>9. /\ Ordered(Loaded(file'), p) /\ Digests(Loaded(file'), p) \subseteq Downstream(p)
      /\ \A d \in Sent(p) : Resumes(Loaded(file'), p, d)
  BY <1>5, <1>6, <1>7, <1>8 DEF InOrder, QueueOrder, Downstream
<1> QED BY <1>1, <1>5, <1>8, <1>9, RequeuedOrder

\* The mempool without its first transaction.
LEMMA MempoolTail ==
    ASSUME IInv, mempool # <<>>
    PROVE  /\ 1 \in DOMAIN mempool /\ Head(mempool) = mempool[1]
           /\ \A i \in DOMAIN Tail(mempool) :
                /\ i + 1 \in DOMAIN mempool /\ 1 < i + 1
                /\ Tail(mempool)[i] = mempool[i + 1]
           /\ \A i, j \in DOMAIN Tail(mempool) : i < j => i + 1 < j + 1
           /\ \A i \in DOMAIN mempool \ {1} :
                i - 1 \in DOMAIN Tail(mempool) /\ Tail(mempool)[i - 1] = mempool[i]
<1>1. mempool \in Seq(Seq(Current))
  BY DEF IInv, OnlyCurrent
<1>2. Len(mempool) \in Nat \ {0} /\ DOMAIN mempool = 1 .. Len(mempool)
  BY <1>1, EmptySeq, LenProperties
<1>3. /\ Tail(mempool) \in Seq(Seq(Current))
      /\ Len(Tail(mempool)) = Len(mempool) - 1
      /\ \A i \in 1 .. Len(Tail(mempool)) : Tail(mempool)[i] = mempool[i + 1]
  BY <1>1, HeadTailProperties
<1>4. DOMAIN Tail(mempool) = 1 .. Len(Tail(mempool))
  BY <1>3, LenProperties
<1>5. Head(mempool) = mempool[1]
  BY <1>1
<1>6. \A i \in DOMAIN mempool \ {1} :
        i - 1 \in DOMAIN Tail(mempool) /\ Tail(mempool)[i - 1] = mempool[i]
  <2> TAKE i \in DOMAIN mempool \ {1}
  <2>1. i - 1 \in 1 .. Len(Tail(mempool)) /\ (i - 1) + 1 = i
    BY <1>2, <1>3
  <2> QED BY <2>1, <1>3, <1>4
<1> QED BY <1>2, <1>3, <1>4, <1>5, <1>6

\* commitBatch takes the registry forward, to a digest it was sent.
LEMMA MinedForward ==
    ASSUME IInv, NEW p \in Prefixes, InOrder(p), Mine
    PROVE  /\ latest[p] =< latest'[p]
           /\ \/ latest'[p] = latest[p] /\ Digests(Head(mempool), p) = {}
              \/ /\ latest'[p] \in Digests(Head(mempool), p)
                 /\ \A e \in Digests(Head(mempool), p) : e =< latest'[p]
<1>1. /\ mempool # <<>> /\ latest' = LatestAfter(Head(mempool))
  BY DEF Mine
<1>2. 1 \in DOMAIN mempool /\ Head(mempool) = mempool[1] /\ Head(mempool) \in Seq(Current)
  BY <1>1, MempoolTail, DigestTypes
<1>3. latest'[p] = Outcome(Head(mempool), p, latest[p])
  BY <1>1 DEF LatestAfter
<1>4. Ordered(Head(mempool), p) /\ Reaches(Head(mempool), p, latest[p])
  BY <1>2 DEF InOrder, ChainOrder
<1>5. \/ latest'[p] = latest[p] /\ Digests(Head(mempool), p) = {}
      \/ /\ latest'[p] \in Digests(Head(mempool), p)
         /\ \A e \in Digests(Head(mempool), p) : e =< latest'[p]
  BY <1>2, <1>3, <1>4, OutcomeOrdered
<1>6. Digests(Head(mempool), p) \subseteq Int /\ latest[p] \in Int
  BY <1>2, DigestTypes
<1>7. latest[p] =< latest'[p]
  BY <1>4, <1>5, <1>6 DEF Reaches
<1> QED BY <1>5, <1>7

\* A transaction is mined.
LEMMA MineOrder ==
    ASSUME IInv, NEW p \in Prefixes, InOrder(p), Mine
    PROVE  InOrder(p)'
<1>1. /\ mempool # <<>> /\ mempool' = Tail(mempool)
      /\ UNCHANGED <<version, unsent, channel, pending, file>>
  BY DEF Mine, manager, queued
<1>2. /\ 1 \in DOMAIN mempool /\ Head(mempool) = mempool[1]
      /\ \A i \in DOMAIN mempool' :
            i + 1 \in DOMAIN mempool /\ 1 < i + 1 /\ mempool'[i] = mempool[i + 1]
      /\ \A i, j \in DOMAIN mempool' : i < j => i + 1 < j + 1
  BY <1>1, MempoolTail
<1>3. latest'[p] = latest[p] \/ latest'[p] \in Digests(Head(mempool), p)
  BY MinedForward
<1>4. Sent(p)' \subseteq Sent(p)
  BY <1>2, <1>3 DEF Sent
<1>5. Downstream(p)' \subseteq Downstream(p)
  BY <1>1, <1>4 DEF Downstream
<1>6. UpstreamOrder(p)' /\ ArrivalOrder(p)' /\ ReportedOnly(p)'
  BY <1>1, <1>5 DEF InOrder, UpstreamOrder, ArrivalOrder, ReportedOnly, NotAfter
<1>7. QueueOrder(p)'
  BY <1>1, <1>4 DEF InOrder, QueueOrder
<1>8. ChainOrder(p)'
  BY <1>2, <1>3 DEF InOrder, ChainOrder
<1> QED BY <1>6, <1>7, <1>8 DEF InOrder

\* The memory of the manager is gone; the file may have got a part of a command.
LEMMA CrashOrder ==
    ASSUME IInv, NEW p \in Prefixes, InOrder(p), Crash
    PROVE  InOrder(p)'
<1>1. /\ unsent' = {} /\ channel' = <<>> /\ pending' = <<>>
      /\ UNCHANGED <<version, mempool, latest>>
  BY DEF Crash
<1>2. Digests(<<>>, p) = {} /\ Ordered(<<>>, p) /\ \A d \in Sent(p) : Resumes(<<>>, p, d)
  BY DigestsOfNone DEF Resumes
<1>3. CASE file' = file
  BY <1>1, <1>2, <1>3, RequeuedOrder DEF InOrder, QueueOrder, Downstream
<1>4. CASE channel # <<>> /\ \E part \in PartialAppends(Head(channel).list) : file' = file \o part
  <2>1. PICK part \in PartialAppends(Head(channel).list) : file' = file \o part
    BY <1>4
  <2> DEFINE list == Head(channel).list
  <2>2. 1 \in DOMAIN channel /\ Head(channel) = channel[1] /\ list \in Seq(Current)
    BY <1>4, ChannelTail, DigestTypes
  <2>3. /\ Ordered(list, p) /\ NotAfter(Digests(list, p), {version})
        /\ NotAfter(Downstream(p), Digests(list, p))
    BY <2>2 DEF InOrder, UpstreamOrder, ArrivalOrder, ReportedOnly
  <2>4. /\ Ordered(Loaded(file'), p) /\ \A d \in Sent(p) : Resumes(Loaded(file'), p, d)
        /\ Digests(Loaded(file'), p) \subseteq Digests(Loaded(file), p) \cup Digests(list, p)
    BY <2>1, <2>2, <2>3, LoadedOrder
  <2>5. /\ Sent(p)' = Sent(p)
        /\ Downstream(p)' \subseteq Downstream(p) \cup Digests(list, p)
    BY <1>1, <1>2, <2>4 DEF Sent, Downstream
  <2>6. DOMAIN channel' = {}
    BY <1>1
  <2>7. UpstreamOrder(p)' /\ ArrivalOrder(p)'
    BY <1>1, <2>6 DEF UpstreamOrder, ArrivalOrder
  <2>8. QueueOrder(p)' /\ ChainOrder(p)'
    BY <1>1, <1>2, <2>4, <2>5 DEF InOrder, QueueOrder, ChainOrder
  <2>9. ReportedOnly(p)'
    BY <1>1, <2>3, <2>5, <2>6 DEF InOrder, ReportedOnly, NotAfter
  <2> QED BY <2>7, <2>8, <2>9 DEF InOrder
<1> QED BY <1>3, <1>4 DEF Crash

\* The queue is what the file holds.
LEMMA RestartOrder ==
    ASSUME IInv, NEW p \in Prefixes, InOrder(p), Restart
    PROVE  InOrder(p)'
<1>1. /\ UNCHANGED <<version, unsent, channel, file, mempool, latest>>
      /\ pending' = Loaded(file)
  BY DEF Restart, manager, chain
<1> QED BY <1>1, RequeuedOrder DEF InOrder, QueueOrder, Downstream

(***************************************************************************)
(* The invariant                                                           *)
(***************************************************************************)

\* A batch under way is the front of a queue that does not change meanwhile.
LEMMA BatchStep ==
    ASSUME IInv, BatchIsFront, [Next]_vars
    PROVE  BatchIsFront'
<1>1. CASE UNCHANGED <<worker, batch, pending, dirty>>
  BY <1>1 DEF BatchIsFront
<1>2. CASE worker' \in {"idle", "down"}
  BY <1>2 DEF BatchIsFront
<1>3. CASE \/ \E ps \in PrefixLists : RingChange(ps)
           \/ \E list \in unsent : Enqueue(list)
           \/ AskReset \/ RetryDue \/ TickRewriteFails \/ OrphanSends \/ Mine
           \/ UNCHANGED vars
  BY <1>1, <1>3 DEF RingChange, Enqueue, AskReset, RetryDue, TickRewriteFails, OrphanSends, Mine,
                    vars, queued
<1>4. CASE \/ ReceiveReset \/ ResetFails \/ SubmitFails \/ SubmitConfirmed
           \/ ConfirmedRewriteFails \/ Crash \/ Restart
  BY <1>2, <1>4 DEF ReceiveReset, ResetFails, SubmitFails, SubmitConfirmed, ConfirmedRewriteFails,
                    Confirmed, Crash, Restart, Waiting
<1>5. CASE ReceiveCommit \/ AppendFails
  BY <1>5 DEF ReceiveCommit, AppendFails, Receive, StartsFlush, Flushing, Waiting, BatchIsFront
<1>6. CASE Tick
  BY <1>6 DEF Tick, StartsFlush, Flushing, Waiting, BatchIsFront
<1>7. CASE SendTransaction
  BY <1>7 DEF SendTransaction, BatchIsFront, queued
<1> QED BY <1>3, <1>4, <1>5, <1>6, <1>7 DEF Next, WorkerStep, Faulty

\* Nothing is reported behind a reset, and nothing by a manager that is down.
LEMMA RingStep ==
    ASSUME IInv, RingIsNew, [Next]_vars
    PROVE  RingIsNew'
<1>1. CASE /\ UNCHANGED <<reported, unsent, channel>>
           /\ worker' = "down" => worker = "down"
  BY <1>1 DEF RingIsNew, Resetting
<1>2. CASE \E ps \in PrefixLists : RingChange(ps)
  BY <1>2 DEF RingChange, RingIsNew, Resetting
<1>3. CASE \E list \in unsent : Enqueue(list)
  <2>1. PICK list \in unsent : Enqueue(list)
    BY <1>3
  <2>2. Commit(list) \in CurrentCommands /\ Commit(list).kind = "commit"
    BY DEF IInv, OnlyCurrent, Commit, CurrentCommands
  <2>3. ~Resetting /\ worker # "down" /\ worker' = worker
    BY <2>1 DEF RingIsNew, Enqueue
  <2>4. /\ Len(channel) \in Nat /\ DOMAIN channel = 1 .. Len(channel)
        /\ DOMAIN channel' = 1 .. Len(channel) + 1
        /\ \A i \in 1 .. Len(channel) : channel'[i] = channel[i]
        /\ channel'[Len(channel) + 1] = Commit(list)
    BY <2>1, <2>2, ChannelAppended DEF Enqueue
  <2>5. ~Resetting'
    BY <2>2, <2>3, <2>4 DEF Resetting
  <2> QED BY <2>3, <2>5 DEF RingIsNew
<1>4. CASE AskReset \/ Crash
  BY <1>4 DEF AskReset, Crash, RingIsNew
<1>5. CASE ReceiveCommit \/ AppendFails
  <2>1. /\ channel # <<>> /\ channel' = Tail(channel) /\ worker' # "down"
        /\ UNCHANGED <<reported, unsent>>
    BY <1>5 DEF ReceiveCommit, AppendFails, Receive, Flushing, Waiting
  <2>2. Resetting' => Resetting
    BY <2>1, ChannelTail DEF Resetting
  <2> QED BY <2>1, <2>2 DEF RingIsNew
<1>6. CASE ReceiveReset \/ ResetFails
  <2>1. /\ channel # <<>> /\ Head(channel).kind = "reset" /\ channel' = Tail(channel)
        /\ UNCHANGED <<reported, unsent>>
    BY <1>6 DEF ReceiveReset, ResetFails
  <2>2. Resetting
    BY <2>1, ChannelTail DEF Resetting
  <2> QED BY <2>1, <2>2 DEF RingIsNew
<1>7. CASE \/ Tick \/ RetryDue \/ SendTransaction \/ SubmitConfirmed \/ Restart
           \/ TickRewriteFails \/ SubmitFails \/ ConfirmedRewriteFails \/ OrphanSends \/ Mine
           \/ UNCHANGED vars
  <2>1. /\ UNCHANGED <<reported, unsent, channel>>
        /\ worker' = "down" => worker = "down"
    BY <1>7 DEF Tick, RetryDue, SendTransaction, SubmitConfirmed, Restart, TickRewriteFails,
                SubmitFails, ConfirmedRewriteFails, OrphanSends, Mine, Confirmed, Waiting,
                Flushing, manager, vars
  <2> QED BY <2>1, <1>1
<1> QED BY <1>2, <1>3, <1>4, <1>5, <1>6, <1>7 DEF Next, WorkerStep, Faulty

\* A prefix leaves `overtaken` with a reset only.
LEMMA OvertakenGrows ==
    ASSUME IInv, [Next]_vars
    PROVE  ReceiveReset \/ overtaken \subseteq overtaken'
<1>1. overtaken \subseteq Prefixes
  BY DEF IInv, Simple
<1>2. CASE \/ Tick \/ RetryDue \/ SendTransaction \/ SubmitConfirmed \/ Restart
           \/ TickRewriteFails \/ SubmitFails \/ ConfirmedRewriteFails \/ OrphanSends \/ Mine
           \/ UNCHANGED vars
  BY <1>2 DEF Tick, RetryDue, SendTransaction, SubmitConfirmed, Restart, TickRewriteFails,
              SubmitFails, ConfirmedRewriteFails, OrphanSends, Mine, vars
<1>3. CASE \/ \E ps \in PrefixLists : RingChange(ps)
           \/ \E list \in unsent : Enqueue(list)
           \/ AskReset \/ ReceiveCommit \/ AppendFails \/ ResetFails \/ Crash
  BY <1>1, <1>3 DEF RingChange, Enqueue, AskReset, ReceiveCommit, AppendFails, ResetFails, Crash
<1> QED BY <1>2, <1>3 DEF Next, WorkerStep, Faulty

\* No step breaks the order of a prefix that is not exempt.
LEMMA OrderStep ==
    ASSUME IInv, OutboxIsQueue, OrderInv, [Next]_vars, NEW p \in Prefixes, p \notin overtaken'
    PROVE  InOrder(p)'
<1>1. BatchIsFront
  BY DEF OrderInv
<1>2. CASE ReceiveReset
  BY <1>2, ResetOrder
<1>3. CASE ~ReceiveReset
  <2>1. p \notin overtaken /\ InOrder(p)
    BY <1>3, OvertakenGrows DEF OrderInv
  <2>2. CASE \E ps \in PrefixLists : RingChange(ps)
    BY <2>1, <2>2, RingChangeOrder
  <2>3. CASE \E list \in unsent : Enqueue(list)
    BY <2>1, <2>3, EnqueueOrder
  <2>4. CASE AskReset
    BY <2>1, <2>4, AskResetOrder
  <2>5. CASE ReceiveCommit \/ AppendFails
    <3>1. /\ channel # <<>> /\ channel' = Tail(channel)
          /\ pending' = pending \o Head(channel).list
          /\ UNCHANGED <<version, unsent, mempool, latest>>
      BY <2>5 DEF ReceiveCommit, AppendFails, Receive, chain
    <3>2. \E part \in PartialAppends(Head(channel).list) \cup {Head(channel).list} :
            file' = file \o part
      BY <2>5 DEF ReceiveCommit, AppendFails
    <3> QED BY <2>1, <3>1, <3>2, ReceiveOrder
  <2>6. CASE ResetFails
    BY <2>1, <2>6, ResetOrder
  <2>7. CASE Tick
    BY <2>1, <2>7, TickOrder
  <2>8. CASE TickRewriteFails \/ RetryDue \/ SubmitFails \/ UNCHANGED vars
    <3>1. UNCHANGED <<version, unsent, channel, pending, file, mempool, latest>>
      BY <2>8 DEF TickRewriteFails, RetryDue, SubmitFails, vars, manager, queued, chain
    <3> QED BY <2>1, <3>1, OrderFrame
  <2>9. CASE SendTransaction
    BY <1>1, <2>1, <2>9, SendOrder
  <2>10. CASE OrphanSends
    BY <2>1, <2>10, OrphanOrder
  <2>11. CASE SubmitConfirmed \/ ConfirmedRewriteFails
    BY <1>1, <2>1, <2>11, ConfirmedOrder
  <2>12. CASE Mine
    BY <2>1, <2>12, MineOrder
  <2>13. CASE Crash
    BY <2>1, <2>13, CrashOrder
  <2>14. CASE Restart
    BY <2>1, <2>14, RestartOrder
  <2> QED BY <1>3, <2>2, <2>3, <2>4, <2>5, <2>6, <2>7, <2>8, <2>9, <2>10, <2>11, <2>12, <2>13,
             <2>14 DEF Next, WorkerStep, Faulty
<1> QED BY <1>2, <1>3

\* At the start there is no change anywhere.
LEMMA InitOrder == Init => OrderInv
<1> SUFFICES ASSUME Init PROVE OrderInv
  OBVIOUS
<1>1. BatchIsFront /\ RingIsNew
  BY DEF Init, BatchIsFront, RingIsNew
<1>2. ASSUME NEW p \in Prefixes PROVE InOrder(p)
  <2>1. /\ unsent = {} /\ DOMAIN channel = {} /\ DOMAIN mempool = {}
        /\ version = 0 /\ latest[p] = 0 /\ pending = <<>> /\ Loaded(file) = <<>>
    BY DEF Init, Loaded
  <2>2. Digests(<<>>, p) = {} /\ Ordered(<<>>, p)
    BY DigestsOfNone
  <2>3. Sent(p) = {0} /\ Downstream(p) = {0}
    BY <2>1, <2>2 DEF Sent, Downstream
  <2>4. UpstreamOrder(p) /\ ArrivalOrder(p) /\ ChainOrder(p)
    BY <2>1 DEF UpstreamOrder, ArrivalOrder, ChainOrder
  <2>5. QueueOrder(p)
    BY <2>1, <2>2 DEF QueueOrder, Resumes
  <2>6. ReportedOnly(p)
    BY <2>1, <2>3 DEF ReportedOnly, NotAfter
  <2> QED BY <2>4, <2>5, <2>6 DEF InOrder
<1> QED BY <1>1, <1>2 DEF OrderInv

\* Changes of a prefix that no handler overtook stay in the order they were reported,
\* from the handlers to the registry.
THEOREM OrderInvariant == Spec => [](OutboxIsQueue /\ OrderInv)
<1>1. Init => OutboxIsQueue /\ OrderInv
  BY InitOrder DEF Init, OutboxIsQueue
<1>2. IInv /\ OutboxIsQueue /\ OrderInv /\ [Next]_vars => OutboxIsQueue' /\ OrderInv'
  <2> SUFFICES ASSUME IInv, OutboxIsQueue, OrderInv, [Next]_vars
               PROVE  OutboxIsQueue' /\ OrderInv'
    OBVIOUS
  <2>1. OutboxIsQueue'
    BY OutboxStep
  <2>2. BatchIsFront' /\ RingIsNew'
    BY BatchStep, RingStep DEF OrderInv
  <2>3. \A p \in Prefixes \ overtaken' : InOrder(p)'
    BY OrderStep
  <2> QED BY <2>1, <2>2, <2>3 DEF OrderInv
<1> QED BY <1>1, <1>2, Invariance, PTL DEF Spec

\* No transaction takes the registry back to an older summary of such a prefix, through
\* every row of failed submissions, rewrites, crashes and restarts: the only step back is
\* to the empty registry of a new chain.
THEOREM NeverRegresses == Spec => LatestNeverRegresses
<1>1. IInv /\ OrderInv /\ [Next]_vars =>
        [\A p \in Prefixes \ overtaken :
            latest'[p] >= latest[p] \/ (latest'[p] = 0 /\ mempool' = <<>>)]_vars
  <2> SUFFICES ASSUME IInv, OrderInv, [Next]_vars, NEW p \in Prefixes \ overtaken
               PROVE  latest'[p] >= latest[p] \/ (latest'[p] = 0 /\ mempool' = <<>>)
    OBVIOUS
  <2>1. latest[p] \in Int
    BY DigestTypes
  <2>2. CASE latest' = latest
    BY <2>1, <2>2
  <2>3. CASE NewChain
    BY <2>3 DEF NewChain
  <2>4. CASE Mine
    <3>1. latest[p] =< latest'[p] /\ latest'[p] \in Int
      <4>1. InOrder(p)
        BY DEF OrderInv
      <4>2. IInv'
        BY NextInv
      <4>3. latest'[p] \in Int
        BY <4>2 DEF IInv, OnlyCurrent
      <4> QED BY <2>4, <4>1, <4>3, MinedForward
    <3> QED BY <2>1, <3>1
  <2>5. ~Mine => latest' = latest \/ NewChain
    <3>1. CASE \/ \E ps \in PrefixLists : RingChange(ps)
               \/ \E list \in unsent : Enqueue(list)
               \/ AskReset
      BY <3>1 DEF RingChange, Enqueue, AskReset, chain
    <3>2. CASE WorkerStep
      BY <3>2 DEF WorkerStep, ReceiveCommit, ReceiveReset, Tick, RetryDue, SendTransaction,
                  SubmitConfirmed, Restart, chain
    <3>3. CASE Faulty
      BY <3>3 DEF Faulty, AppendFails, ResetFails, TickRewriteFails, SubmitFails,
                  ConfirmedRewriteFails, Crash, OrphanSends, chain
    <3>4. CASE UNCHANGED vars
      BY <3>4 DEF vars
    <3> QED BY <3>1, <3>2, <3>3, <3>4 DEF Next
  <2> QED BY <2>2, <2>3, <2>4, <2>5
<1> QED BY <1>1, Invariance, OrderInvariant, PTL DEF Spec, LatestNeverRegresses

(***************************************************************************)
(* The ring's summaries                                                    *)
(***************************************************************************)

\* The summary a handler has just got is the newest change of the prefix.
LEMMA SummaryReported ==
    ASSUME IInv, NEW p \in Prefixes, InOrder(p), SummaryKept(p),
           NEW ps \in PrefixLists, RingChange(ps)
    PROVE  SummaryKept(p)'
<1> DEFINE list == [i \in DOMAIN ps |-> [prefix |-> ps[i], digest |-> version + i]]
<1>1. /\ ps \in Seq(Prefixes) /\ Len(ps) \in Nat /\ DOMAIN ps = 1 .. Len(ps)
      /\ version \in Int
  BY LenProperties, OutboxAssumption DEF IInv, Simple
<1>2. /\ unsent' = unsent \cup {list}
      /\ UNCHANGED <<channel, pending, mempool, latest>>
      /\ reported'[p] = Outcome(list, p, reported[p])
  BY DEF RingChange, queued, chain
<1>3. /\ DOMAIN list = 1 .. Len(ps)
      /\ \A i \in 1 .. Len(ps) : list[i] = [prefix |-> ps[i], digest |-> version + i]
  BY <1>1
<1>4. list \in Seq([prefix : Prefixes, digest : Int])
  BY <1>1, <1>3
<1> HIDE DEF list
<1>5. /\ Ordered(list, p)
      /\ \A d \in Digests(list, p) : d \in Int /\ version < d
  <2>1. Ordered(list, p)
    BY <1>1, <1>3 DEF Ordered
  <2>2. ASSUME NEW d \in Digests(list, p) PROVE d \in Int /\ version < d
    <3>1. PICK i \in 1 .. Len(ps) : d = version + i
      BY <1>3 DEF Digests
    <3> QED BY <3>1, <1>1
  <2> QED BY <2>1, <2>2
<1>6. \/ Digests(list, p) = {} /\ reported'[p] = reported[p]
      \/ /\ reported'[p] \in Digests(list, p)
         /\ \A e \in Digests(list, p) : e =< reported'[p]
  BY <1>2, <1>4, <1>5, OutcomeOrdered
<1>7. Sent(p)' = Sent(p)
  BY <1>2 DEF Sent
<1>8. CASE Digests(list, p) = {} /\ reported'[p] = reported[p]
  BY <1>2, <1>7, <1>8 DEF SummaryKept, NotAfter
<1>9. CASE /\ reported'[p] \in Digests(list, p)
           /\ \A e \in Digests(list, p) : e =< reported'[p]
  <2>1. \A A : A \subseteq Int /\ NotAfter(A, {version}) => NotAfter(A, {reported'[p]})
    BY <1>1, <1>5, <1>9 DEF NotAfter
  <2>2. NotAfter(Sent(p) \cup Digests(pending, p), {reported'[p]})
    <3>1. /\ Sent(p) \cup Digests(pending, p) \subseteq Int
          /\ NotAfter(Sent(p) \cup Digests(pending, p), {version})
      BY DigestTypes DEF InOrder, ReportedOnly, Downstream, NotAfter
    <3> QED BY <3>1, <2>1
  <2>3. \A i \in DOMAIN channel : NotAfter(Digests(channel[i].list, p), {reported'[p]})
    BY <2>1, DigestTypes DEF InOrder, ReportedOnly
  <2>4. \A u \in unsent' : NotAfter(Digests(u, p), {reported'[p]})
    <3>1. NotAfter(Digests(list, p), {reported'[p]})
      BY <1>9 DEF NotAfter
    <3> QED BY <3>1, <1>2, <2>1, DigestTypes DEF InOrder, ReportedOnly
  <2>5. list \in unsent'
    BY <1>2
  <2> QED BY <1>2, <1>7, <1>9, <2>2, <2>3, <2>4, <2>5 DEF SummaryKept
<1> QED BY <1>6, <1>8, <1>9

\* A handler passes its changes on.
LEMMA SummaryEnqueued ==
    ASSUME IInv, NEW p \in Prefixes, SummaryKept(p), NEW list \in unsent, Enqueue(list)
    PROVE  SummaryKept(p)'
<1>1. /\ unsent' = unsent \ {list} /\ channel' = Append(channel, Commit(list))
      /\ UNCHANGED <<reported, pending, mempool, latest>>
  BY DEF Enqueue, queued, chain
<1>2. Commit(list) \in CurrentCommands /\ Commit(list).list = list
  BY DEF IInv, OnlyCurrent, Commit, CurrentCommands
<1>3. /\ Len(channel) \in Nat /\ DOMAIN channel = 1 .. Len(channel)
      /\ DOMAIN channel' = 1 .. Len(channel) + 1
      /\ \A i \in 1 .. Len(channel) : channel'[i] = channel[i]
      /\ channel'[Len(channel) + 1] = Commit(list)
  BY <1>1, <1>2, ChannelAppended
<1>4. \A i \in DOMAIN channel' :
        \/ i \in DOMAIN channel /\ channel'[i] = channel[i]
        \/ channel'[i] = Commit(list)
  BY <1>3
<1>5. /\ \A i \in DOMAIN channel : i \in DOMAIN channel' /\ channel'[i] = channel[i]
      /\ Len(channel) + 1 \in DOMAIN channel'
  BY <1>3
<1>6. Sent(p)' = Sent(p)
  BY <1>1 DEF Sent
<1> SUFFICES ASSUME reported[p] # 0
             PROVE  SummaryKept(p)'
  BY <1>1 DEF SummaryKept
<1>7. \/ latest[p] = reported[p]
      \/ reported[p] \in Digests(pending, p)
      \/ \E i \in DOMAIN channel' : reported[p] \in Digests(channel'[i].list, p)
      \/ \E u \in unsent' : reported[p] \in Digests(u, p)
  BY <1>1, <1>2, <1>3, <1>5 DEF SummaryKept
<1>8. \A i \in DOMAIN channel' : NotAfter(Digests(channel'[i].list, p), {reported[p]})
  BY <1>2, <1>4 DEF SummaryKept
<1> QED BY <1>1, <1>6, <1>7, <1>8 DEF SummaryKept

\* The worker gets a command, and nothing of it is lost.
LEMMA SummaryReceived ==
    ASSUME IInv, NEW p \in Prefixes, SummaryKept(p), channel # <<>>,
           channel' = Tail(channel), pending' = pending \o Head(channel).list,
           UNCHANGED <<reported, unsent, mempool, latest>>
    PROVE  SummaryKept(p)'
<1>1. /\ 1 \in DOMAIN channel /\ Head(channel) = channel[1]
      /\ \A i \in DOMAIN channel' :
            i + 1 \in DOMAIN channel /\ channel'[i] = channel[i + 1]
  BY ChannelTail
<1>2. \A i \in DOMAIN channel \ {1} : i - 1 \in DOMAIN channel' /\ channel'[i - 1] = channel[i]
  <2> TAKE i \in DOMAIN channel \ {1}
  <2>1. channel \in Seq(CurrentCommands)
    BY DEF IInv, OnlyCurrent
  <2>2. /\ Len(channel) \in Nat \ {0} /\ DOMAIN channel = 1 .. Len(channel)
        /\ channel' \in Seq(CurrentCommands) /\ Len(channel') = Len(channel) - 1
    BY <2>1, EmptySeq, LenProperties, HeadTailProperties
  <2>3. DOMAIN channel' = 1 .. Len(channel')
    BY <2>2, LenProperties
  <2>4. i - 1 \in DOMAIN channel' /\ (i - 1) + 1 = i
    BY <2>2, <2>3
  <2> QED BY <2>4, <1>1
<1>3. Head(channel).list \in Seq(Current) /\ pending \in Seq(Current)
  BY <1>1, DigestTypes DEF IInv, OnlyCurrent
<1>4. Digests(pending', p) = Digests(pending, p) \cup Digests(Head(channel).list, p)
  BY <1>3, DigestsOfConcat
<1>5. Sent(p)' = Sent(p)
  BY DEF Sent
<1> SUFFICES ASSUME reported[p] # 0
             PROVE  SummaryKept(p)'
  BY DEF SummaryKept
<1>6. /\ NotAfter(Sent(p)' \cup Digests(pending', p), {reported[p]})
      /\ \A i \in DOMAIN channel' : NotAfter(Digests(channel'[i].list, p), {reported[p]})
  BY <1>1, <1>4, <1>5 DEF SummaryKept, NotAfter
<1>7. \/ latest[p] = reported[p]
      \/ reported[p] \in Digests(pending', p)
      \/ \E i \in DOMAIN channel' : reported[p] \in Digests(channel'[i].list, p)
      \/ \E u \in unsent : reported[p] \in Digests(u, p)
  <2>1. CASE \E i \in DOMAIN channel : reported[p] \in Digests(channel[i].list, p)
    BY <2>1, <1>1, <1>2, <1>4
  <2> QED BY <2>1, <1>4 DEF SummaryKept
<1> QED BY <1>6, <1>7 DEF SummaryKept

\* A batch leaves the queue when the registry has it.
LEMMA SummaryConfirmed ==
    ASSUME IInv, BatchIsFront, NEW p \in Prefixes, InOrder(p), BatchMined(p), SummaryKept(p),
           SubmitConfirmed \/ ConfirmedRewriteFails
    PROVE  SummaryKept(p)'
<1>1. /\ batch = Front(pending, BatchSize)
      /\ pending' = Rest(pending, Len(batch))
      /\ worker = "sent" /\ mempool = <<>>
      /\ UNCHANGED <<reported, unsent, channel, mempool, latest>>
  BY DEF SubmitConfirmed, ConfirmedRewriteFails, Confirmed, Drained, BatchIsFront, manager
<1>2. pending \in Seq(Current)
  BY DEF IInv, OnlyCurrent
<1>3. /\ Digests(pending', p) \subseteq Digests(pending, p)
      /\ Digests(pending, p) \subseteq Digests(batch, p) \cup Digests(pending', p)
  BY <1>1, <1>2, FrontAndRest, OutboxAssumption
<1>4. NotAfter(Digests(batch, p), {latest[p]})
  <2>1. DOMAIN mempool = {}
    BY <1>1
  <2> QED BY <1>1, <2>1 DEF BatchMined
<1>5. Sent(p)' = Sent(p)
  BY <1>1 DEF Sent
<1>6. reported[p] # 0 /\ reported[p] \in Digests(batch, p) => latest[p] = reported[p]
  <2>1. latest[p] \in Sent(p) /\ latest[p] \in Int /\ reported[p] \in Int
    BY DigestTypes DEF Sent
  <2> QED BY <1>4, <2>1 DEF SummaryKept, NotAfter
<1>7. NotAfter(Sent(p) \cup Digests(pending, p), {reported[p]}) =>
        NotAfter(Sent(p) \cup Digests(pending', p), {reported[p]})
  BY <1>3 DEF NotAfter
<1> QED BY <1>1, <1>3, <1>5, <1>6, <1>7 DEF SummaryKept

\* The registry goes on to a newer digest, and to none newer than the ring's.
LEMMA SummaryMined ==
    ASSUME IInv, NEW p \in Prefixes, InOrder(p), BatchMined(p), SummaryKept(p), Mine
    PROVE  BatchMined(p)' /\ SummaryKept(p)'
<1>1. /\ mempool # <<>> /\ mempool' = Tail(mempool)
      /\ UNCHANGED <<reported, unsent, channel, pending, worker, batch>>
  BY DEF Mine, manager, queued
<1>2. /\ 1 \in DOMAIN mempool /\ Head(mempool) = mempool[1]
      /\ \A i \in DOMAIN mempool' : i + 1 \in DOMAIN mempool /\ mempool'[i] = mempool[i + 1]
      /\ \A i \in DOMAIN mempool \ {1} : i - 1 \in DOMAIN mempool' /\ mempool'[i - 1] = mempool[i]
  BY <1>1, MempoolTail
<1>3. /\ latest[p] =< latest'[p]
      /\ \/ latest'[p] = latest[p] /\ Digests(Head(mempool), p) = {}
         \/ /\ latest'[p] \in Digests(Head(mempool), p)
            /\ \A e \in Digests(Head(mempool), p) : e =< latest'[p]
  BY MinedForward
<1>4. /\ latest[p] \in Int /\ reported[p] \in Int /\ latest[p] \in Sent(p)
      /\ Digests(batch, p) \subseteq Int /\ Sent(p) \subseteq Int
  BY DigestTypes DEF Sent
<1>5. Sent(p)' \subseteq Sent(p) /\ latest'[p] \in Sent(p)
  BY <1>2, <1>3 DEF Sent
<1>6. BatchMined(p)'
  <2> SUFFICES ASSUME worker = "sent", \A i \in DOMAIN mempool' : mempool'[i] # batch
               PROVE  NotAfter(Digests(batch, p), {latest'[p]})
    BY <1>1 DEF BatchMined
  <2>1. CASE NotAfter(Digests(batch, p), {latest[p]})
    BY <2>1, <1>3, <1>4, <1>5 DEF NotAfter
  <2>2. CASE \E i \in DOMAIN mempool : mempool[i] = batch
    <3>1. Head(mempool) = batch
      BY <2>2, <1>2
    <3> QED BY <3>1, <1>3 DEF NotAfter
  <2> QED BY <2>1, <2>2 DEF BatchMined
<1>7. SummaryKept(p)'
  <2> SUFFICES ASSUME reported[p] # 0
               PROVE  SummaryKept(p)'
    BY <1>1 DEF SummaryKept
  <2>1. NotAfter(Sent(p)' \cup Digests(pending, p), {reported[p]})
    BY <1>5 DEF SummaryKept, NotAfter
  <2>2. latest[p] = reported[p] => latest'[p] = reported[p]
    <3>1. latest'[p] =< reported[p]
      BY <1>5 DEF SummaryKept, NotAfter
    <3> QED BY <3>1, <1>3, <1>4, <1>5
  <2> QED BY <1>1, <2>1, <2>2 DEF SummaryKept
<1> QED BY <1>6, <1>7

\* What was sent adds nothing the queue did not hold, or nothing of the prefix.
LEMMA SummarySent ==
    ASSUME IInv, BatchIsFront, NEW p \in Prefixes, BatchMined(p), SummaryKept(p),
           SendTransaction \/ (OrphanSends /\ p \notin overtaken')
    PROVE  BatchMined(p)' /\ SummaryKept(p)'
<1> DEFINE txn == IF SendTransaction THEN batch ELSE orphan
<1>1. /\ mempool' = Append(mempool, txn) /\ txn \in Seq(Current)
      /\ UNCHANGED <<reported, unsent, channel, pending, latest, batch>>
      /\ worker' = "sent" => worker = "sent" \/ txn = batch
      /\ p \in PrefixesOf(txn) => txn = Front(pending, BatchSize)
  <2>1. CASE SendTransaction
    BY <2>1 DEF SendTransaction, BatchIsFront, manager, queued, IInv, OnlyCurrent
  <2>2. CASE ~SendTransaction
    BY <2>2 DEF OrphanSends, manager, queued, IInv, OnlyCurrent
  <2> QED BY <2>1, <2>2
<1> HIDE DEF txn
<1>2. /\ Len(mempool) \in Nat /\ DOMAIN mempool = 1 .. Len(mempool)
      /\ DOMAIN mempool' = 1 .. Len(mempool) + 1
      /\ \A i \in 1 .. Len(mempool) : mempool'[i] = mempool[i]
      /\ mempool'[Len(mempool) + 1] = txn
  <2>1. mempool \in Seq(Seq(Current))
    BY DEF IInv, OnlyCurrent
  <2>2. /\ mempool' \in Seq(Seq(Current)) /\ Len(mempool') = Len(mempool) + 1
        /\ \A i \in 1 .. Len(mempool) : mempool'[i] = mempool[i]
        /\ mempool'[Len(mempool) + 1] = txn
    BY <1>1, <2>1, AppendProperties
  <2> QED BY <2>1, <2>2, LenProperties
<1>3. /\ \A i \in DOMAIN mempool' :
            \/ i \in DOMAIN mempool /\ mempool'[i] = mempool[i]
            \/ mempool'[i] = txn
      /\ \A i \in DOMAIN mempool : i \in DOMAIN mempool' /\ mempool'[i] = mempool[i]
      /\ Len(mempool) + 1 \in DOMAIN mempool'
  BY <1>2
<1>4. Digests(txn, p) \subseteq Digests(pending, p)
  <2>1. CASE p \in PrefixesOf(txn)
    <3>1. pending \in Seq(Current)
      BY DEF IInv, OnlyCurrent
    <3> QED BY <1>1, <2>1, <3>1, FrontPart, OutboxAssumption
  <2>2. CASE p \notin PrefixesOf(txn)
    BY <2>2 DEF PrefixesOf, Digests
  <2> QED BY <2>1, <2>2
<1>5. Sent(p)' \subseteq Sent(p) \cup Digests(pending, p)
  BY <1>1, <1>3, <1>4 DEF Sent
<1>6. BatchMined(p)'
  BY <1>1, <1>2, <1>3 DEF BatchMined
<1>7. SummaryKept(p)'
  BY <1>1, <1>5 DEF SummaryKept, NotAfter
<1> QED BY <1>6, <1>7

\* No step loses the newest summary of a prefix that is not exempt.
LEMMA SummaryStep ==
    ASSUME IInv, OrderInv, SummaryInv, [Next]_vars, NEW p \in Prefixes, p \notin overtaken'
    PROVE  BatchMined(p)' /\ SummaryKept(p)'
<1>1. BatchIsFront /\ RingIsNew
  BY DEF OrderInv
\* A ring without summaries has none to lose.
<1>2. ASSUME reported'[p] = 0, worker' # "sent" PROVE BatchMined(p)' /\ SummaryKept(p)'
  BY <1>2 DEF BatchMined, SummaryKept
<1>3. CASE ReceiveReset \/ ResetFails
  <2>1. /\ channel # <<>> /\ Head(channel).kind = "reset"
        /\ worker = "idle" /\ UNCHANGED <<reported, worker>>
    BY <1>3 DEF ReceiveReset, ResetFails
  <2>2. Resetting
    BY <2>1, ChannelTail DEF Resetting
  <2> QED BY <1>1, <1>2, <2>1, <2>2 DEF RingIsNew
<1>4. CASE Crash
  BY <1>2, <1>4 DEF Crash
<1>5. CASE Restart
  BY <1>1, <1>2, <1>5 DEF Restart, Waiting, RingIsNew, manager
<1>6. CASE ~ReceiveReset
  <2>1. p \notin overtaken /\ InOrder(p) /\ BatchMined(p) /\ SummaryKept(p)
    BY <1>6, OvertakenGrows DEF OrderInv, SummaryInv
  <2>2. CASE \E ps \in PrefixLists : RingChange(ps)
    <3>1. SummaryKept(p)'
      BY <2>1, <2>2, SummaryReported
    <3>2. UNCHANGED <<worker, batch, mempool, latest>>
      BY <2>2 DEF RingChange, chain
    <3> QED BY <2>1, <3>1, <3>2 DEF BatchMined
  <2>3. CASE \E list \in unsent : Enqueue(list)
    <3>1. SummaryKept(p)'
      BY <2>1, <2>3, SummaryEnqueued
    <3>2. UNCHANGED <<worker, batch, mempool, latest>>
      BY <2>3 DEF Enqueue, chain
    <3> QED BY <2>1, <3>1, <3>2 DEF BatchMined
  <2>4. CASE AskReset
    <3>1. reported'[p] = 0 /\ UNCHANGED <<worker, batch, mempool, latest>>
      BY <2>4 DEF AskReset, chain
    <3> QED BY <2>1, <3>1 DEF BatchMined, SummaryKept
  <2>5. CASE ReceiveCommit \/ AppendFails
    <3>1. /\ channel # <<>> /\ channel' = Tail(channel)
          /\ pending' = pending \o Head(channel).list
          /\ UNCHANGED <<reported, unsent, mempool, latest>>
          /\ worker' # "sent"
      BY <2>5 DEF ReceiveCommit, AppendFails, Receive, Flushing, Waiting, chain
    <3>2. SummaryKept(p)'
      BY <2>1, <3>1, SummaryReceived
    <3> QED BY <3>1, <3>2 DEF BatchMined
  <2>6. CASE Tick \/ TickRewriteFails \/ RetryDue \/ SubmitFails \/ UNCHANGED vars
    <3>1. /\ UNCHANGED <<reported, unsent, channel, pending, mempool, latest>>
          /\ UNCHANGED <<worker, batch>> \/ worker' # "sent"
      BY <2>6 DEF Tick, TickRewriteFails, RetryDue, SubmitFails, Flushing, Waiting,
                  vars, manager, queued, chain
    <3>2. Sent(p)' = Sent(p)
      BY <3>1 DEF Sent
    <3> QED BY <2>1, <3>1, <3>2 DEF BatchMined, SummaryKept
  <2>7. CASE SendTransaction \/ OrphanSends
    BY <1>1, <2>1, <2>7, SummarySent
  <2>8. CASE SubmitConfirmed \/ ConfirmedRewriteFails
    <3>1. SummaryKept(p)'
      BY <1>1, <2>1, <2>8, SummaryConfirmed
    <3>2. worker' # "sent"
      BY <2>8 DEF SubmitConfirmed, ConfirmedRewriteFails, Confirmed, Waiting
    <3> QED BY <3>1, <3>2 DEF BatchMined
  <2>9. CASE Mine
    BY <2>1, <2>9, SummaryMined
  <2> QED BY <1>3, <1>4, <1>5, <1>6, <2>2, <2>3, <2>4, <2>5, <2>6, <2>7, <2>8, <2>9
          DEF Next, WorkerStep, Faulty
<1> QED BY <1>3, <1>6

\* With the worker at rest the registry holds the ring's own summaries, whatever
\* failures came before and however often a batch was sent.
THEOREM RegistryInvariant == Spec => []RegistryCaughtUp
<1>1. Init => SummaryInv
  BY DEF Init, SummaryInv, BatchMined, SummaryKept
<1>2. IInv /\ OrderInv /\ SummaryInv /\ [Next]_vars => SummaryInv'
  BY SummaryStep DEF SummaryInv
<1>3. SummaryInv => RegistryCaughtUp
  <2> SUFFICES ASSUME SummaryInv, Quiet, NEW p \in Prefixes \ overtaken, reported[p] # 0
               PROVE  reported[p] = latest[p]
    BY DEF RegistryCaughtUp
  <2>1. Digests(pending, p) = {} /\ DOMAIN channel = {} /\ unsent = {}
    BY DigestsOfNone DEF Quiet
  <2> QED BY <2>1 DEF SummaryInv, SummaryKept
<1> QED BY <1>1, <1>2, <1>3, Invariance, OrderInvariant, PTL DEF Spec
=============================================================================
