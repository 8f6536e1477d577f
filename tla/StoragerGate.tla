---------------------------- MODULE StoragerGate ----------------------------
(***************************************************************************)
(* How a storager keeps the calls it serves at once apart: the lock on the *)
(* index, the counts of mutations and of queries in progress, and the      *)
(* notifier that calls waiting for a count to reach 0 sleep on             *)
(* (storager/src/storager.rs, storager/src/service.rs).                    *)
(*                                                                         *)
(* The index is the set of the calls that have changed it: nothing else    *)
(* tells the states a call can see apart here.  The lock has no order.     *)
(***************************************************************************)
EXTENDS Naturals, Sequences, FiniteSets

CONSTANTS
    Calls,
    Workloads,  \* the kinds of the calls, in the runs to explore
    Matching,   \* queries whose keyword begins, as a text, with the migrated prefix
    NoCall

\* Kinds of calls: "mutation" is add, batch_add and delete, "exclusive" is
\* import and drain, "retain" is prepare and reset.
GateKinds == {"mutation", "query", "export", "exclusive", "retain", "confirm"}

\* A storager has finitely many calls at a time, each of one kind.
ASSUME GateAssumption ==
    IsFiniteSet(Calls) /\ NoCall \notin Calls /\ Workloads \subseteq [Calls -> GateKinds]

VARIABLES
    kind,       \* call -> its kind
    pc,         \* call -> where it is
    active,     \* active_mutations
    queried,    \* the queries in active_prefix_queries
    readers,    \* calls with a shared lock on the index
    writer,     \* the call with the exclusive lock, or NoCall
    asleep,     \* calls subscribed to retained_prefix_notifier
    applied,    \* the index: the calls that have changed it
    seen,       \* call -> the states it read, in order
    \* What the properties remember.
    earlier,    \* call -> the mutations begun before it started to wait
    missed      \* calls notified after they read a count and before they subscribed

gateVars == <<kind, pc, active, queried, readers, writer, asleep, applied, seen, earlier, missed>>

GateInit ==
    /\ kind \in Workloads
    /\ pc = [c \in Calls |-> "called"]
    /\ active = 0 /\ queried = {} /\ readers = {} /\ writer = NoCall
    /\ asleep = {} /\ applied = {} /\ missed = {}
    /\ seen = [c \in Calls |-> <<>>]
    /\ earlier = [c \in Calls |-> {}]

At(c, place) == pc[c] = place
Goto(c, place) == pc' = [pc EXCEPT ![c] = place]
Reads(c) == seen' = [seen EXCEPT ![c] = Append(@, applied)]

\* Mistakes the properties are to catch: a call that is woken does not count
\* again; nobody is woken.
WokenForGood(c, place) ==
    /\ pc' = [d \in Calls |->
                IF d = c THEN place ELSE IF d \in asleep THEN "drained" ELSE pc[d]]
    /\ asleep' = {}
    /\ missed' = (missed \ asleep) \cup {d \in Calls : At(d, "counted")}
WokenNever(c, place) ==
    Goto(c, place) /\ UNCHANGED asleep /\ missed' = missed \cup {d \in Calls : At(d, "counted")}

\* notify_waiters wakes those who have subscribed, and nobody after them.
Notified(c, place) ==
    /\ pc' = [d \in Calls |->
                IF d = c THEN place ELSE IF d \in asleep THEN "waiting" ELSE pc[d]]
    /\ asleep' = {}
    /\ missed' = (missed \ asleep) \cup {d \in Calls : At(d, "counted")}

-----------------------------------------------------------------------------
(* The lock on the index.                                                  *)

Shared(c) == writer = NoCall /\ readers' = readers \cup {c}
Exclusive(c) == writer = NoCall /\ readers = {} /\ writer' = c

-----------------------------------------------------------------------------
(* add, batch_add, delete                                                  *)

BeginMutation(c) ==
    /\ At(c, "called") /\ kind[c] = "mutation"
    /\ active' = active + 1
    /\ Goto(c, "begun")
    /\ UNCHANGED <<kind, queried, readers, writer, asleep, applied, seen, earlier, missed>>

LockForMutation(c) ==
    /\ At(c, "begun") /\ Shared(c)
    /\ Goto(c, "locked")
    /\ UNCHANGED <<kind, active, queried, writer, asleep, applied, seen, earlier, missed>>

\* The change, its proof and the root in one step of the index.
Mutate(c) ==
    /\ At(c, "locked") /\ kind[c] = "mutation"
    /\ applied' = applied \cup {c}
    /\ seen' = [seen EXCEPT ![c] = Append(@, applied')]
    /\ Goto(c, "changed")
    /\ UNCHANGED <<kind, active, queried, readers, writer, asleep, earlier, missed>>

\* The accumulator of the answer is read apart, and the lock is dropped.
UnlockMutation(c) ==
    /\ At(c, "changed")
    /\ Reads(c)
    /\ readers' = readers \ {c}
    /\ Goto(c, "unlocked")
    /\ UNCHANGED <<kind, active, queried, writer, asleep, applied, earlier, missed>>

EndMutation(c) ==
    /\ At(c, "unlocked")
    /\ active' = active - 1
    /\ Notified(c, "done")
    /\ UNCHANGED <<kind, queried, readers, writer, applied, seen, earlier>>

-----------------------------------------------------------------------------
(* query, export                                                           *)

LockForRead(c) ==
    /\ At(c, "called") /\ kind[c] \in {"query", "export"} /\ Shared(c)
    /\ Goto(c, IF kind[c] = "query" THEN "reading" ELSE "tracked")
    /\ UNCHANGED <<kind, active, queried, writer, asleep, applied, seen, earlier, missed>>

BeginQuery(c) ==
    /\ At(c, "reading")
    /\ queried' = queried \cup {c}
    /\ Goto(c, "tracked")
    /\ UNCHANGED <<kind, active, readers, writer, asleep, applied, seen, earlier, missed>>

\* The files and the proof, the root hash and the accumulator: three reads.
ReadIndex(c) ==
    /\ At(c, "tracked") /\ Len(seen[c]) < 3
    /\ Reads(c)
    /\ UNCHANGED <<kind, pc, active, queried, readers, writer, asleep, applied, earlier, missed>>

\* The guard of a query is dropped before the lock.
EndQuery(c) ==
    /\ At(c, "tracked") /\ kind[c] = "query" /\ Len(seen[c]) = 3
    /\ queried' = queried \ {c}
    /\ Notified(c, "untracked")
    /\ UNCHANGED <<kind, active, readers, writer, applied, seen, earlier>>

UnlockRead(c) ==
    /\ At(c, "untracked") \/ (At(c, "tracked") /\ kind[c] = "export" /\ Len(seen[c]) = 3)
    /\ readers' = readers \ {c}
    /\ Goto(c, "done")
    /\ UNCHANGED <<kind, active, queried, writer, asleep, applied, seen, earlier, missed>>

-----------------------------------------------------------------------------
(* prepare, reset, confirm                                                 *)

StartWait(c) ==
    /\ At(c, "called") /\ kind[c] \in {"retain", "confirm"}
    /\ earlier' = [earlier EXCEPT ![c] =
                     {m \in Calls : kind[m] = "mutation" /\ ~At(m, "called")}]
    /\ Goto(c, "waiting")
    /\ UNCHANGED <<kind, active, queried, readers, writer, asleep, applied, seen, missed>>

\* What wait_for_mutations_to_drain and wait_for_prefix_queries_to_drain count.
Counted(c) == IF kind[c] = "retain" THEN active ELSE Cardinality(queried \cap Matching)

ReadCount(c) ==
    /\ At(c, "waiting")
    /\ Goto(c, IF Counted(c) = 0 THEN "drained" ELSE "counted")
    /\ UNCHANGED <<kind, active, queried, readers, writer, asleep, applied, seen, earlier, missed>>

Subscribe(c) ==
    /\ At(c, "counted")
    /\ asleep' = asleep \cup {c}
    /\ Goto(c, "asleep")
    /\ UNCHANGED <<kind, active, queried, readers, writer, applied, seen, earlier, missed>>

\* import and drain do not wait.
LockForWrite(c) ==
    /\ At(c, "drained") \/ (At(c, "called") /\ kind[c] = "exclusive")
    /\ Exclusive(c)
    /\ Goto(c, "owning")
    /\ UNCHANGED <<kind, active, queried, readers, asleep, applied, seen, earlier, missed>>

UnlockWrite(c) ==
    /\ At(c, "owning")
    /\ applied' = applied \cup {c}
    /\ seen' = [seen EXCEPT ![c] = Append(@, applied')]
    /\ writer' = NoCall
    /\ Goto(c, "done")
    /\ UNCHANGED <<kind, active, queried, readers, asleep, earlier, missed>>

GateStep(c) ==
    \/ BeginMutation(c) \/ LockForMutation(c) \/ Mutate(c) \/ UnlockMutation(c) \/ EndMutation(c)
    \/ LockForRead(c) \/ BeginQuery(c) \/ ReadIndex(c) \/ EndQuery(c) \/ UnlockRead(c)
    \/ StartWait(c) \/ ReadCount(c) \/ Subscribe(c) \/ LockForWrite(c) \/ UnlockWrite(c)

GateNext == \E c \in Calls : GateStep(c)

GateSpec == GateInit /\ [][GateNext]_gateVars

-----------------------------------------------------------------------------
(* Properties.                                                             *)

\* prepare and reset see every mutation that was in progress or over when they
\* began to wait (storager.rs, wait_for_mutations_to_drain): one that has only
\* been counted does not hold the lock yet.
EarlierMutationsApplied ==
    \A c \in Calls : At(c, "owning") /\ kind[c] = "retain" => earlier[c] \subseteq applied

\* Between two reads of one query or export the index changes by mutations only
\* (service.rs, query): what confirm, import, drain and reset do comes before
\* or after the whole call, also when confirm does not wait for the query.
ReadsMeetOnlyMutations ==
    \A c \in Calls : kind[c] \in {"query", "export"} =>
        \A i, j \in DOMAIN seen[c] : \A d \in seen[c][j] \ seen[c][i] : kind[d] = "mutation"

\* What a storager's calls must see of each other (storager.rs, service.rs): the
\* waits let no mutation through, and the lock nothing else.
CallsKeptApart == EarlierMutationsApplied /\ ReadsMeetOnlyMutations

\* In the end every call is over, those that wait for others included, but for
\* one whose last notification came between its reading the count and subscribing
\* (storager.rs, the loop of the two waits; the drops of the two guards).
WaitsEnd == <>[](\A c \in Calls : At(c, "done") \/ (c \in missed /\ At(c, "asleep")))
=============================================================================
