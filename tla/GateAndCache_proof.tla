------------------------- MODULE GateAndCache_proof -------------------------
(***************************************************************************)
(* The theorems about the two places where the calls of one process meet:  *)
(* StoragerGate, the lock and the counts of a storager, and RouteCache,    *)
(* the manager's cache of routes.                                          *)
(***************************************************************************)
EXTENDS StoragerGate, RouteCache, FiniteSetTheorems, SequenceTheorems, TLAPS

(***************************************************************************)
(* A theorem about StoragerGate for any number of calls of any kinds: what *)
(* waits for mutations sees all that began before it, and a query or an    *)
(* export sees no change but mutations between its reads.                  *)
(*                                                                         *)
(* Neither is inductive.  That a count of 0 means that nothing is under    *)
(* way needs the count to be that of the mutations that have begun and not *)
(* ended (CountIsExact), and a mutation that has ended to have changed the *)
(* index.  That what owns the index meets no reader needs every reader to  *)
(* be among the holders of the lock (LockIsHeld).                          *)
(***************************************************************************)

Mutating  == {"begun", "locked", "changed", "unlocked"}
ReadingAt == {"reading", "tracked", "untracked"}
WaitingAt == {"waiting", "counted", "asleep", "drained"}
Places == {"called", "done", "owning"} \cup Mutating \cup ReadingAt \cup WaitingAt

GateTyped ==
    /\ kind \in [Calls -> GateKinds] /\ pc \in [Calls -> Places]
    /\ asleep \subseteq Calls /\ applied \subseteq Calls
    /\ readers \subseteq Calls
    /\ earlier \in [Calls -> SUBSET Calls]
    /\ seen \in [Calls -> Seq(SUBSET Calls)]

\* Where a call can be tells its kind, and who sleeps is waiting to be woken.
KindsFit ==
    /\ \A c \in Calls :
         /\ pc[c] \in Mutating => kind[c] = "mutation"
         /\ pc[c] \in {"reading", "untracked"} => kind[c] = "query"
         /\ pc[c] = "tracked" => kind[c] \in {"query", "export"}
         /\ pc[c] \in WaitingAt => kind[c] \in {"retain", "confirm"}
         /\ pc[c] = "owning" => kind[c] \in {"exclusive", "retain", "confirm"}
    /\ \A c \in asleep : pc[c] = "asleep"

InProgress == {m \in Calls : pc[m] \in Mutating}
CountIsExact == active = Cardinality(InProgress)

WaitsHold ==
    /\ \A m \in Calls : kind[m] = "mutation" /\ pc[m] \in {"changed", "unlocked", "done"} => m \in applied
    /\ \A c \in Calls : \A m \in earlier[c] : kind[m] = "mutation" /\ pc[m] # "called"
    /\ \A c \in Calls : kind[c] = "retain" /\ pc[c] \in {"drained", "owning"} => earlier[c] \subseteq applied

LockIsHeld ==
    /\ writer # NoCall => readers = {}
    /\ \A c \in Calls : pc[c] \in ReadingAt => c \in readers
    /\ \A c \in Calls : pc[c] = "owning" => writer = c

ReadsFit ==
    /\ \A c \in Calls : kind[c] \in {"query", "export"} /\ pc[c] \in {"called", "reading"} => seen[c] = <<>>
    /\ \A c \in Calls : pc[c] = "tracked" => \A i \in DOMAIN seen[c] :
         seen[c][i] \subseteq applied /\ \A d \in applied \ seen[c][i] : kind[d] = "mutation"
    /\ ReadsMeetOnlyMutations

GateInv == GateTyped /\ KindsFit /\ CountIsExact /\ WaitsHold /\ LockIsHeld /\ ReadsFit

(***************************************************************************)
(* Each part is kept by every step.                                        *)
(***************************************************************************)

\* Nothing is under way at the start.
LEMMA GateInitFits ==
    ASSUME GateInit
    PROVE  GateInv
<1>1. GateTyped /\ KindsFit /\ WaitsHold /\ LockIsHeld
  BY GateAssumption DEF GateInit, GateTyped, KindsFit, WaitsHold, LockIsHeld, Places, Mutating,
         ReadingAt, WaitingAt
<1>2. CountIsExact
  <2>1. InProgress = {}
    BY DEF GateInit, InProgress, Mutating
  <2> QED BY <2>1, FS_EmptySet DEF CountIsExact, GateInit
<1>3. ReadsFit
  BY DEF GateInit, ReadsFit, ReadsMeetOnlyMutations
<1> QED BY <1>1, <1>2, <1>3 DEF GateInv


\* Steps move calls between places and add calls to sets.
LEMMA TypedStep ==
    ASSUME GateInv, NEW c \in Calls, GateStep(c)
    PROVE  GateTyped'
<1>0. GateTyped
  BY DEF GateInv
<1>1. CASE BeginMutation(c)
  BY <1>0, <1>1 DEF BeginMutation, At, Goto, GateTyped, Places, Mutating, ReadingAt, WaitingAt
<1>2. CASE LockForMutation(c)
  BY <1>0, <1>2 DEF LockForMutation, At, Goto, Shared, GateTyped, Places, Mutating, ReadingAt, WaitingAt
<1>3. CASE Mutate(c)
  BY <1>0, <1>3 DEF Mutate, At, Goto, GateTyped, Places, Mutating, ReadingAt, WaitingAt
<1>4. CASE UnlockMutation(c)
  BY <1>0, <1>4 DEF UnlockMutation, At, Goto, Reads, GateTyped, Places, Mutating, ReadingAt, WaitingAt
<1>5. CASE EndMutation(c)
  BY <1>0, <1>5 DEF EndMutation, At, Notified, GateTyped, Places, Mutating, ReadingAt, WaitingAt
<1>6. CASE LockForRead(c)
  BY <1>0, <1>6 DEF LockForRead, At, Goto, Shared, GateTyped, Places, Mutating, ReadingAt, WaitingAt
<1>7. CASE BeginQuery(c)
  BY <1>0, <1>7 DEF BeginQuery, At, Goto, GateTyped, Places, Mutating, ReadingAt, WaitingAt
<1>8. CASE ReadIndex(c)
  BY <1>0, <1>8 DEF ReadIndex, At, Reads, GateTyped, Places, Mutating, ReadingAt, WaitingAt
<1>9. CASE EndQuery(c)
  BY <1>0, <1>9 DEF EndQuery, At, Notified, GateTyped, Places, Mutating, ReadingAt, WaitingAt
<1>10. CASE UnlockRead(c)
  BY <1>0, <1>10 DEF UnlockRead, At, Goto, GateTyped, Places, Mutating, ReadingAt, WaitingAt
<1>11. CASE StartWait(c)
  BY <1>0, <1>11 DEF StartWait, At, Goto, GateTyped, Places, Mutating, ReadingAt, WaitingAt
<1>12. CASE ReadCount(c)
  BY <1>0, <1>12 DEF ReadCount, At, Goto, Counted, GateTyped, Places, Mutating, ReadingAt, WaitingAt
<1>13. CASE Subscribe(c)
  BY <1>0, <1>13 DEF Subscribe, At, Goto, GateTyped, Places, Mutating, ReadingAt, WaitingAt
<1>14. CASE LockForWrite(c)
  BY <1>0, <1>14 DEF LockForWrite, At, Goto, Exclusive, GateTyped, Places, Mutating, ReadingAt, WaitingAt
<1>15. CASE UnlockWrite(c)
  BY <1>0, <1>15 DEF UnlockWrite, At, Goto, GateTyped, Places, Mutating, ReadingAt, WaitingAt
<1> QED BY <1>1, <1>2, <1>3, <1>4, <1>5, <1>6, <1>7, <1>8, <1>9, <1>10, <1>11, <1>12, <1>13, <1>14, <1>15 DEF GateStep

\* A call goes only through the places of its kind, and only sleepers are woken.
LEMMA KindsFitStep ==
    ASSUME GateInv, NEW c \in Calls, GateStep(c)
    PROVE  KindsFit'
<1>0. GateTyped /\ KindsFit
  BY DEF GateInv
<1>1. CASE BeginMutation(c)
  BY <1>0, <1>1 DEF BeginMutation, At, Goto, GateTyped, GateKinds, KindsFit, Mutating, WaitingAt
<1>2. CASE LockForMutation(c)
  BY <1>0, <1>2 DEF LockForMutation, At, Goto, Shared, GateTyped, GateKinds, KindsFit, Mutating, WaitingAt
<1>3. CASE Mutate(c)
  BY <1>0, <1>3 DEF Mutate, At, Goto, GateTyped, GateKinds, KindsFit, Mutating, WaitingAt
<1>4. CASE UnlockMutation(c)
  BY <1>0, <1>4 DEF UnlockMutation, At, Goto, Reads, GateTyped, GateKinds, KindsFit, Mutating, WaitingAt
<1>5. CASE EndMutation(c)
  BY <1>0, <1>5 DEF EndMutation, At, Notified, GateTyped, GateKinds, KindsFit, Mutating, WaitingAt
<1>6. CASE LockForRead(c)
  BY <1>0, <1>6 DEF LockForRead, At, Goto, Shared, GateTyped, GateKinds, KindsFit, Mutating, WaitingAt
<1>7. CASE BeginQuery(c)
  BY <1>0, <1>7 DEF BeginQuery, At, Goto, GateTyped, GateKinds, KindsFit, Mutating, WaitingAt
<1>8. CASE ReadIndex(c)
  BY <1>0, <1>8 DEF ReadIndex, At, Reads, GateTyped, GateKinds, KindsFit, Mutating, WaitingAt
<1>9. CASE EndQuery(c)
  BY <1>0, <1>9 DEF EndQuery, At, Notified, GateTyped, GateKinds, KindsFit, Mutating, WaitingAt
<1>10. CASE UnlockRead(c)
  BY <1>0, <1>10 DEF UnlockRead, At, Goto, GateTyped, GateKinds, KindsFit, Mutating, WaitingAt
<1>11. CASE StartWait(c)
  BY <1>0, <1>11 DEF StartWait, At, Goto, GateTyped, GateKinds, KindsFit, Mutating, WaitingAt
<1>12. CASE ReadCount(c)
  BY <1>0, <1>12 DEF ReadCount, At, Goto, Counted, GateTyped, GateKinds, KindsFit, Mutating, WaitingAt
<1>13. CASE Subscribe(c)
  BY <1>0, <1>13 DEF Subscribe, At, Goto, GateTyped, GateKinds, KindsFit, Mutating, WaitingAt
<1>14. CASE LockForWrite(c)
  BY <1>0, <1>14 DEF LockForWrite, At, Goto, Exclusive, GateTyped, GateKinds, KindsFit, Mutating, WaitingAt
<1>15. CASE UnlockWrite(c)
  BY <1>0, <1>15 DEF UnlockWrite, At, Goto, GateTyped, GateKinds, KindsFit, Mutating, WaitingAt
<1> QED BY <1>1, <1>2, <1>3, <1>4, <1>5, <1>6, <1>7, <1>8, <1>9, <1>10, <1>11, <1>12, <1>13, <1>14, <1>15 DEF GateStep

\* The count follows the mutations under way.
LEMMA ProgressFinite ==
    IsFiniteSet(InProgress) /\ Cardinality(InProgress) \in Nat
<1>1. InProgress \in SUBSET Calls
  BY DEF InProgress
<1> QED BY <1>1, FS_Subset, FS_CardinalityType, GateAssumption

\* A mutation is counted before it asks for the lock and until it has dropped it.
LEMMA CountIsExactStep ==
    ASSUME GateInv, NEW c \in Calls, GateStep(c)
    PROVE  CountIsExact'
<1>0. GateTyped /\ KindsFit /\ CountIsExact
  BY DEF GateInv
<1>1. CASE BeginMutation(c)
  <2>1. InProgress' = InProgress \cup {c} /\ c \notin InProgress
    BY <1>0, <1>1 DEF BeginMutation, At, Goto, InProgress, Mutating, GateTyped
  <2> QED BY <2>1, <1>0, <1>1, FS_AddElement, ProgressFinite DEF BeginMutation, CountIsExact
<1>2. CASE LockForMutation(c)
  <2>1. InProgress' = InProgress
    BY <1>0, <1>2 DEF LockForMutation, At, Goto, Shared, InProgress, Mutating, GateTyped, KindsFit
  <2> QED BY <2>1, <1>0, <1>2 DEF LockForMutation, CountIsExact
<1>3. CASE Mutate(c)
  <2>1. InProgress' = InProgress
    BY <1>0, <1>3 DEF Mutate, At, Goto, InProgress, Mutating, GateTyped, KindsFit
  <2> QED BY <2>1, <1>0, <1>3 DEF Mutate, CountIsExact
<1>4. CASE UnlockMutation(c)
  <2>1. InProgress' = InProgress
    BY <1>0, <1>4 DEF UnlockMutation, At, Goto, InProgress, Mutating, GateTyped, KindsFit
  <2> QED BY <2>1, <1>0, <1>4 DEF UnlockMutation, CountIsExact
<1>5. CASE EndMutation(c)
  <2>1. InProgress' = InProgress \ {c} /\ c \in InProgress
    BY <1>0, <1>5 DEF EndMutation, At, Notified, InProgress, Mutating, GateTyped, KindsFit
  <2> QED BY <2>1, <1>0, <1>5, FS_RemoveElement, ProgressFinite DEF EndMutation, CountIsExact
<1>6. CASE LockForRead(c)
  <2>1. InProgress' = InProgress
    BY <1>0, <1>6 DEF LockForRead, At, Goto, Shared, InProgress, Mutating, GateTyped, KindsFit
  <2> QED BY <2>1, <1>0, <1>6 DEF LockForRead, CountIsExact
<1>7. CASE BeginQuery(c)
  <2>1. InProgress' = InProgress
    BY <1>0, <1>7 DEF BeginQuery, At, Goto, InProgress, Mutating, GateTyped, KindsFit
  <2> QED BY <2>1, <1>0, <1>7 DEF BeginQuery, CountIsExact
<1>8. CASE ReadIndex(c)
  <2>1. InProgress' = InProgress
    BY <1>0, <1>8 DEF ReadIndex, At, InProgress, Mutating, GateTyped, KindsFit
  <2> QED BY <2>1, <1>0, <1>8 DEF ReadIndex, CountIsExact
<1>9. CASE EndQuery(c)
  <2>1. InProgress' = InProgress
    BY <1>0, <1>9 DEF EndQuery, At, Notified, InProgress, Mutating, GateTyped, KindsFit
  <2> QED BY <2>1, <1>0, <1>9 DEF EndQuery, CountIsExact
<1>10. CASE UnlockRead(c)
  <2>1. InProgress' = InProgress
    BY <1>0, <1>10 DEF UnlockRead, At, Goto, InProgress, Mutating, GateTyped, KindsFit
  <2> QED BY <2>1, <1>0, <1>10 DEF UnlockRead, CountIsExact
<1>11. CASE StartWait(c)
  <2>1. InProgress' = InProgress
    BY <1>0, <1>11 DEF StartWait, At, Goto, InProgress, Mutating, GateTyped, KindsFit
  <2> QED BY <2>1, <1>0, <1>11 DEF StartWait, CountIsExact
<1>12. CASE ReadCount(c)
  <2>1. InProgress' = InProgress
    BY <1>0, <1>12 DEF ReadCount, At, Goto, InProgress, Mutating, GateTyped, KindsFit
  <2> QED BY <2>1, <1>0, <1>12 DEF ReadCount, CountIsExact
<1>13. CASE Subscribe(c)
  <2>1. InProgress' = InProgress
    BY <1>0, <1>13 DEF Subscribe, At, Goto, InProgress, Mutating, GateTyped, KindsFit
  <2> QED BY <2>1, <1>0, <1>13 DEF Subscribe, CountIsExact
<1>14. CASE LockForWrite(c)
  <2>1. InProgress' = InProgress
    BY <1>0, <1>14 DEF LockForWrite, At, Goto, Exclusive, InProgress, Mutating, GateTyped, KindsFit
  <2> QED BY <2>1, <1>0, <1>14 DEF LockForWrite, CountIsExact
<1>15. CASE UnlockWrite(c)
  <2>1. InProgress' = InProgress
    BY <1>0, <1>15 DEF UnlockWrite, At, Goto, InProgress, Mutating, GateTyped, KindsFit
  <2> QED BY <2>1, <1>0, <1>15 DEF UnlockWrite, CountIsExact
<1> QED BY <1>1, <1>2, <1>3, <1>4, <1>5, <1>6, <1>7, <1>8, <1>9, <1>10, <1>11, <1>12, <1>13, <1>14, <1>15 DEF GateStep

\* Nothing begun before a wait is left out when its count is 0: it has ended, and what
\* has ended has changed the index.
LEMMA WaitsHoldStep ==
    ASSUME GateInv, NEW c \in Calls, GateStep(c)
    PROVE  WaitsHold'
<1>0. GateTyped /\ KindsFit /\ CountIsExact /\ WaitsHold
  BY DEF GateInv
<1>1. CASE BeginMutation(c)
  BY <1>0, <1>1 DEF BeginMutation, At, Goto, WaitsHold, GateTyped, KindsFit, WaitingAt, Mutating
<1>2. CASE LockForMutation(c)
  BY <1>0, <1>2 DEF LockForMutation, At, Goto, Shared, WaitsHold, GateTyped, KindsFit, WaitingAt, Mutating
<1>3. CASE Mutate(c)
  BY <1>0, <1>3 DEF Mutate, At, Goto, WaitsHold, GateTyped, KindsFit, WaitingAt, Mutating
<1>4. CASE UnlockMutation(c)
  BY <1>0, <1>4 DEF UnlockMutation, At, Goto, WaitsHold, GateTyped, KindsFit, WaitingAt, Mutating
<1>5. CASE EndMutation(c)
  BY <1>0, <1>5 DEF EndMutation, At, Notified, WaitsHold, GateTyped, KindsFit, WaitingAt, Mutating
<1>6. CASE LockForRead(c)
  BY <1>0, <1>6 DEF LockForRead, At, Goto, Shared, WaitsHold, GateTyped, KindsFit, WaitingAt, Mutating
<1>7. CASE BeginQuery(c)
  BY <1>0, <1>7 DEF BeginQuery, At, Goto, WaitsHold, GateTyped, KindsFit, WaitingAt, Mutating
<1>8. CASE ReadIndex(c)
  BY <1>0, <1>8 DEF ReadIndex, At, WaitsHold, GateTyped, KindsFit, WaitingAt, Mutating
<1>9. CASE EndQuery(c)
  BY <1>0, <1>9 DEF EndQuery, At, Notified, WaitsHold, GateTyped, KindsFit, WaitingAt, Mutating
<1>10. CASE UnlockRead(c)
  BY <1>0, <1>10 DEF UnlockRead, At, Goto, WaitsHold, GateTyped, KindsFit, WaitingAt, Mutating
<1>11. CASE StartWait(c)
  BY <1>0, <1>11 DEF StartWait, At, Goto, WaitsHold, GateTyped, KindsFit, WaitingAt, Mutating
<1>12. CASE ReadCount(c)
  <2>1. CASE kind[c] = "retain" /\ active = 0
    <3>1. InProgress = {}
      BY <2>1, <1>0, ProgressFinite, FS_EmptySet DEF CountIsExact
    <3>2. \A m \in earlier[c] : m \in applied
      BY <3>1, <1>0 DEF InProgress, GateTyped, Places, KindsFit, WaitsHold, ReadingAt, WaitingAt
    <3> QED BY <3>2, <2>1, <1>0, <1>12 DEF ReadCount, At, Goto, WaitsHold, GateTyped
  <2>2. CASE kind[c] = "retain" /\ active # 0
    BY <2>2, <1>0, <1>12 DEF ReadCount, At, Goto, Counted, WaitsHold, GateTyped
  <2>3. CASE kind[c] # "retain"
    BY <2>3, <1>0, <1>12 DEF ReadCount, At, Goto, WaitsHold, GateTyped, KindsFit, WaitingAt
  <2> QED BY <2>1, <2>2, <2>3
<1>13. CASE Subscribe(c)
  BY <1>0, <1>13 DEF Subscribe, At, Goto, WaitsHold, GateTyped, KindsFit, WaitingAt, Mutating
<1>14. CASE LockForWrite(c)
  BY <1>0, <1>14 DEF LockForWrite, At, Goto, Exclusive, WaitsHold, GateTyped, KindsFit, WaitingAt, Mutating
<1>15. CASE UnlockWrite(c)
  BY <1>0, <1>15 DEF UnlockWrite, At, Goto, WaitsHold, GateTyped, KindsFit, WaitingAt, Mutating
<1> QED BY <1>1, <1>2, <1>3, <1>4, <1>5, <1>6, <1>7, <1>8, <1>9, <1>10, <1>11, <1>12, <1>13, <1>14, <1>15 DEF GateStep

\* A reader holds the lock wherever it reads, and an owner has it alone.
LEMMA LockIsHeldStep ==
    ASSUME GateInv, NEW c \in Calls, GateStep(c)
    PROVE  LockIsHeld'
<1>0. GateTyped /\ KindsFit /\ LockIsHeld /\ NoCall \notin Calls
  BY GateAssumption DEF GateInv
<1>1. CASE BeginMutation(c)
  BY <1>0, <1>1 DEF BeginMutation, At, Goto, LockIsHeld, GateTyped, KindsFit, ReadingAt, WaitingAt
<1>2. CASE LockForMutation(c)
  BY <1>0, <1>2 DEF LockForMutation, At, Goto, Shared, LockIsHeld, GateTyped, KindsFit, ReadingAt, WaitingAt
<1>3. CASE Mutate(c)
  BY <1>0, <1>3 DEF Mutate, At, Goto, LockIsHeld, GateTyped, KindsFit, ReadingAt, WaitingAt
<1>4. CASE UnlockMutation(c)
  BY <1>0, <1>4 DEF UnlockMutation, At, Goto, LockIsHeld, GateTyped, KindsFit, ReadingAt, WaitingAt
<1>5. CASE EndMutation(c)
  BY <1>0, <1>5 DEF EndMutation, At, Notified, LockIsHeld, GateTyped, KindsFit, ReadingAt, WaitingAt
<1>6. CASE LockForRead(c)
  BY <1>0, <1>6 DEF LockForRead, At, Goto, Shared, LockIsHeld, GateTyped, KindsFit, ReadingAt, WaitingAt
<1>7. CASE BeginQuery(c)
  BY <1>0, <1>7 DEF BeginQuery, At, Goto, LockIsHeld, GateTyped, KindsFit, ReadingAt, WaitingAt
<1>8. CASE ReadIndex(c)
  BY <1>0, <1>8 DEF ReadIndex, At, LockIsHeld, GateTyped, KindsFit, ReadingAt, WaitingAt
<1>9. CASE EndQuery(c)
  BY <1>0, <1>9 DEF EndQuery, At, Notified, LockIsHeld, GateTyped, KindsFit, ReadingAt, WaitingAt
<1>10. CASE UnlockRead(c)
  BY <1>0, <1>10 DEF UnlockRead, At, Goto, LockIsHeld, GateTyped, KindsFit, ReadingAt, WaitingAt
<1>11. CASE StartWait(c)
  BY <1>0, <1>11 DEF StartWait, At, Goto, LockIsHeld, GateTyped, KindsFit, ReadingAt, WaitingAt
<1>12. CASE ReadCount(c)
  BY <1>0, <1>12 DEF ReadCount, At, Goto, LockIsHeld, GateTyped, KindsFit, ReadingAt, WaitingAt
<1>13. CASE Subscribe(c)
  BY <1>0, <1>13 DEF Subscribe, At, Goto, LockIsHeld, GateTyped, KindsFit, ReadingAt, WaitingAt
<1>14. CASE LockForWrite(c)
  BY <1>0, <1>14 DEF LockForWrite, At, Goto, Exclusive, LockIsHeld, GateTyped, KindsFit, ReadingAt, WaitingAt
<1>15. CASE UnlockWrite(c)
  BY <1>0, <1>15 DEF UnlockWrite, At, Goto, LockIsHeld, GateTyped, KindsFit, ReadingAt, WaitingAt
<1> QED BY <1>1, <1>2, <1>3, <1>4, <1>5, <1>6, <1>7, <1>8, <1>9, <1>10, <1>11, <1>12, <1>13, <1>14, <1>15 DEF GateStep

\* A call that reads holds the lock, so nothing but mutations comes between its reads.
LEMMA ReadsFitStep ==
    ASSUME GateInv, NEW c \in Calls, GateStep(c)
    PROVE  ReadsFit'
<1>0. GateTyped /\ KindsFit /\ LockIsHeld /\ ReadsFit /\ NoCall \notin Calls
  BY GateAssumption DEF GateInv
<1>1. CASE BeginMutation(c)
  BY <1>0, <1>1 DEF BeginMutation, At, Goto, ReadsFit, ReadsMeetOnlyMutations, GateTyped, KindsFit, WaitingAt
<1>2. CASE LockForMutation(c)
  BY <1>0, <1>2 DEF LockForMutation, At, Goto, Shared, ReadsFit, ReadsMeetOnlyMutations, GateTyped, KindsFit, WaitingAt
<1>3. CASE Mutate(c)
  <2>1. kind[c] = "mutation" /\ pc[c] = "locked"
    BY <1>0, <1>3 DEF Mutate, At
  <2>2. \A d \in Calls : kind[d] \in {"query", "export"} => seen'[d] = seen[d] /\ pc'[d] = pc[d]
    BY <2>1, <1>0, <1>3 DEF Mutate, Goto, GateTyped
  <2>3. pc'[c] = "changed" /\ \A d \in Calls \ {c} : pc'[d] = pc[d] /\ seen'[d] = seen[d]
    BY <1>0, <1>3 DEF Mutate, Goto, GateTyped
  <2> QED BY <2>1, <2>2, <2>3, <1>0, <1>3 DEF Mutate, ReadsFit, ReadsMeetOnlyMutations
<1>4. CASE UnlockMutation(c)
  <2>1. kind[c] = "mutation" /\ pc[c] = "changed"
    BY <1>0, <1>4 DEF UnlockMutation, At, KindsFit, Mutating
  <2>2. pc'[c] = "unlocked" /\ \A d \in Calls \ {c} : pc'[d] = pc[d] /\ seen'[d] = seen[d]
    BY <1>0, <1>4 DEF UnlockMutation, Goto, Reads, GateTyped
  <2> QED BY <2>1, <2>2, <1>0, <1>4 DEF UnlockMutation, ReadsFit, ReadsMeetOnlyMutations
<1>5. CASE EndMutation(c)
  BY <1>0, <1>5 DEF EndMutation, At, Notified, ReadsFit, ReadsMeetOnlyMutations, GateTyped, KindsFit, WaitingAt
<1>6. CASE LockForRead(c)
  BY <1>0, <1>6 DEF LockForRead, At, Goto, Shared, ReadsFit, ReadsMeetOnlyMutations, GateTyped, KindsFit, WaitingAt
<1>7. CASE BeginQuery(c)
  BY <1>0, <1>7 DEF BeginQuery, At, Goto, ReadsFit, ReadsMeetOnlyMutations, GateTyped, KindsFit, WaitingAt
<1>8. CASE ReadIndex(c)
  <2>1. pc[c] = "tracked" /\ kind[c] \in {"query", "export"} /\ pc' = pc /\ applied' = applied
    BY <1>0, <1>8 DEF ReadIndex, At, KindsFit
  <2>2. /\ seen'[c] = Append(seen[c], applied)
        /\ \A d \in Calls \ {c} : seen'[d] = seen[d]
    BY <1>0, <1>8 DEF ReadIndex, Reads, GateTyped
  <2>3. /\ seen[c] \in Seq(SUBSET Calls) /\ applied \in SUBSET Calls
        /\ DOMAIN seen[c] = 1 .. Len(seen[c]) /\ Len(seen[c]) \in Nat
    BY <1>0 DEF GateTyped
  <2>4. /\ DOMAIN seen'[c] = DOMAIN seen[c] \cup {Len(seen[c]) + 1}
        /\ \A i \in DOMAIN seen[c] : seen'[c][i] = seen[c][i]
        /\ seen'[c][Len(seen[c]) + 1] = applied
    BY <2>2, <2>3, AppendProperties
  <2>5. \A i \in DOMAIN seen'[c] :
          seen'[c][i] \subseteq applied /\ \A d \in applied \ seen'[c][i] : kind[d] = "mutation"
    BY <2>1, <2>4, <1>0 DEF ReadsFit
  <2>6. \A i, j \in DOMAIN seen'[c] : \A d \in seen'[c][j] \ seen'[c][i] : kind[d] = "mutation"
    BY <2>5
  <2>7. kind' = kind
    BY <1>8 DEF ReadIndex
  <2>8. ReadsMeetOnlyMutations'
    <3>1. ASSUME NEW b \in Calls \ {c}, kind[b] \in {"query", "export"}, NEW i \in DOMAIN seen[b],
                 NEW j \in DOMAIN seen[b], NEW d \in seen[b][j] \ seen[b][i]
          PROVE  kind[d] = "mutation"
      BY <3>1, <1>0 DEF ReadsFit, ReadsMeetOnlyMutations
    <3>2. ASSUME NEW b \in Calls \ {c}
          PROVE  seen'[b] = seen[b]
      BY <2>2
    <3> QED BY <2>6, <2>7, <3>1, <3>2 DEF ReadsMeetOnlyMutations
  <2>9. ASSUME NEW d \in Calls, pc'[d] = "tracked", NEW i \in DOMAIN seen'[d]
        PROVE  seen'[d][i] \subseteq applied' /\ \A e \in applied' \ seen'[d][i] : kind'[e] = "mutation"
    BY <2>1, <2>2, <2>5, <2>7, <2>9, <1>0 DEF ReadsFit
  <2> QED BY <2>1, <2>2, <2>7, <2>8, <2>9, <1>0 DEF ReadsFit
<1>9. CASE EndQuery(c)
  BY <1>0, <1>9 DEF EndQuery, At, Notified, ReadsFit, ReadsMeetOnlyMutations, GateTyped, KindsFit, WaitingAt
<1>10. CASE UnlockRead(c)
  BY <1>0, <1>10 DEF UnlockRead, At, Goto, ReadsFit, ReadsMeetOnlyMutations, GateTyped, KindsFit, WaitingAt
<1>11. CASE StartWait(c)
  BY <1>0, <1>11 DEF StartWait, At, Goto, ReadsFit, ReadsMeetOnlyMutations, GateTyped, KindsFit, WaitingAt
<1>12. CASE ReadCount(c)
  BY <1>0, <1>12 DEF ReadCount, At, Goto, ReadsFit, ReadsMeetOnlyMutations, GateTyped, KindsFit, WaitingAt
<1>13. CASE Subscribe(c)
  BY <1>0, <1>13 DEF Subscribe, At, Goto, ReadsFit, ReadsMeetOnlyMutations, GateTyped, KindsFit, WaitingAt
<1>14. CASE LockForWrite(c)
  BY <1>0, <1>14 DEF LockForWrite, At, Goto, Exclusive, ReadsFit, ReadsMeetOnlyMutations, GateTyped, KindsFit, WaitingAt
<1>15. CASE UnlockWrite(c)
  <2>1. pc[c] = "owning" /\ kind[c] \notin {"query", "export"}
    BY <1>0, <1>15 DEF UnlockWrite, At, KindsFit
  <2>2. \A d \in Calls : pc[d] # "tracked"
    BY <2>1, <1>0 DEF LockIsHeld, ReadingAt
  <2>3. pc'[c] = "done" /\ \A d \in Calls \ {c} : pc'[d] = pc[d] /\ seen'[d] = seen[d]
    BY <1>0, <1>15 DEF UnlockWrite, Goto, GateTyped
  <2> QED BY <2>1, <2>2, <2>3, <1>0, <1>15 DEF UnlockWrite, ReadsFit, ReadsMeetOnlyMutations
<1> QED BY <1>1, <1>2, <1>3, <1>4, <1>5, <1>6, <1>7, <1>8, <1>9, <1>10, <1>11, <1>12, <1>13, <1>14, <1>15 DEF GateStep

(***************************************************************************)
(* The theorem.                                                            *)
(***************************************************************************)

LEMMA NextKeepsAll ==
    ASSUME GateInv, [GateNext]_gateVars
    PROVE  GateInv'
<1>1. ASSUME NEW c \in Calls, GateStep(c) PROVE GateInv'
  BY <1>1, TypedStep, KindsFitStep, CountIsExactStep, WaitsHoldStep, LockIsHeldStep, ReadsFitStep DEF GateInv
<1>2. CASE UNCHANGED gateVars
  BY <1>2 DEF gateVars, GateInv, GateTyped, KindsFit, CountIsExact, InProgress, WaitsHold, LockIsHeld,
              ReadsFit, ReadsMeetOnlyMutations
<1> QED BY <1>1, <1>2 DEF GateNext

\* The invariant holds of every storager, whatever calls it serves.
THEOREM GateInvariance == GateSpec => []GateInv
<1>1. GateInit => GateInv
  BY GateInitFits
<1>2. GateInv /\ [GateNext]_gateVars => GateInv'
  BY NextKeepsAll
<1> QED BY <1>1, <1>2, PTL DEF GateSpec

\* prepare and reset see every mutation begun before their wait, and the reads of
\* a query or an export have nothing but mutations between them
\* (storager.rs, wait_for_mutations_to_drain; service.rs, query).
THEOREM KeptApart == GateSpec => []CallsKeptApart
<1>1. GateInv => CallsKeptApart
  BY DEF GateInv, WaitsHold, ReadsFit, CallsKeptApart, EarlierMutationsApplied, At
<1> QED BY <1>1, GateInvariance, PTL

-----------------------------------------------------------------------------
(***************************************************************************)
(* A theorem about RouteCache for any number of readers and of changes: a  *)
(* route that is returned was the keyword's during the call, unless two    *)
(* changes crossed, and once the changes are over the cache gives out the  *)
(* current route only.                                                     *)
(*                                                                         *)
(* The invariant rests on the parity of the epoch, which is that of the    *)
(* number of changes going on (EpochCounts).  An even epoch with at most   *)
(* one change means none, and as long as it stays the same none begins, so *)
(* what a reader has read so far is still so (ReadIsFresh); the same holds *)
(* of what is in the cache (CacheIsFresh).                                 *)
(***************************************************************************)

Before == {"idle", "epoch"}
Between == {"cache", "overrides", "ring", "hit", "found", "store", "stored"}
HasRoute == {"hit", "found", "store", "stored"}
Changing == {"override", "ring", "clear", "end"}

CacheTyped ==
    /\ epoch \in Nat
    /\ reader \in [Readers -> [at : Before \cup Between \cup {"done"}, epoch : Nat, route : Routes \cup {NoRoute}]]
    /\ change \in [Writers -> [kind : Changes, at : Changing \cup {"called", "done"}]]
    /\ ring \in Routes /\ override \in Routes \cup {NoRoute}
    /\ cached # NoRoute => cached \in [route : Routes \cup {NoRoute}, epoch : Nat]
    /\ current \in [Readers -> SUBSET (Routes \cup {NoRoute})]

\* Every change has raised the epoch once, and once more if it is over.
EpochCounts == \E n \in Nat : epoch = Cardinality(Busy) + 2 * n

\* No epoch that was read is one of the future, and readers go on from even ones.
EpochsRead ==
    /\ \A r \in Readers : reader[r].epoch <= epoch
    /\ \A r \in Readers : reader[r].at \in Between => reader[r].epoch % 2 = 0
    /\ cached # NoRoute => cached.epoch <= epoch

ReadIsFresh ==
    Busy = {} => \A r \in Readers : reader[r].epoch = epoch =>
        /\ reader[r].at = "ring" => override = NoRoute
        /\ reader[r].at \in HasRoute => reader[r].route = RouteNow

CacheIsFresh ==
    Busy = {} /\ cached # NoRoute /\ cached.epoch = epoch => cached.route = RouteNow

\* Of a reader that met no two changes at once the routes are remembered.
CurrentRemembered ==
    \A r \in Readers \ crossed : reader[r].at \notin {"idle", "done"} =>
        RouteNow \in current[r] /\ Cardinality(Busy) <= 1

ReturnedWasCurrent ==
    \A r \in Readers \ crossed : reader[r].at = "done" => reader[r].route \in current[r]

CacheInv == /\ CacheTyped /\ EpochCounts /\ EpochsRead /\ ReadIsFresh /\ CacheIsFresh
        /\ CurrentRemembered /\ ReturnedWasCurrent

ReaderStep(r) ==
    \/ Call(r) \/ ReadEpoch(r) \/ ReadCache(r) \/ ReadOverride(r) \/ ReadRing(r)
    \/ CheckEpoch(r) \/ StoreRoute(r)
WriterStep(w) ==
    \/ BeginChange(w) \/ ChangeOverride(w) \/ ChangeRing(w) \/ ClearCache(w) \/ EndChange(w)

(***************************************************************************)
(* The count of the changes.                                               *)
(***************************************************************************)

\* The changes going on are finitely many.
LEMMA BusyFinite ==
    IsFiniteSet(Busy) /\ Cardinality(Busy) \in Nat
<1>1. Busy \in SUBSET Writers
  BY DEF Busy
<1> QED BY <1>1, FS_Subset, FS_CardinalityType, CacheAssumption

\* An even epoch with one change at most means that there is none.
LEMMA EvenIsQuiet ==
    ASSUME EpochCounts, epoch % 2 = 0, Cardinality(Busy) <= 1
    PROVE  Busy = {}
<1>1. PICK n \in Nat : epoch = Cardinality(Busy) + 2 * n
  BY DEF EpochCounts
<1>2. Cardinality(Busy) \in {0, 1}
  BY BusyFinite
<1>3. Cardinality(Busy) # 1
  BY <1>1, <1>2
<1>4. Cardinality(Busy) = 0
  BY <1>2, <1>3
<1> QED BY <1>4, BusyFinite, FS_EmptySet

\* Readers leave the changes and the routes alone.
LEMMA ReadersOnlyRead ==
    ASSUME NEW r \in Readers, ReaderStep(r)
    PROVE  UNCHANGED <<epoch, change, override, ring>> /\ Busy' = Busy /\ RouteNow' = RouteNow
BY DEF ReaderStep, Call, ReadEpoch, ReadCache, ReadOverride, ReadRing, CheckEpoch, StoreRoute, Busy, RouteNow

(***************************************************************************)
(* Each part is kept by every step.                                        *)
(***************************************************************************)

\* A reader goes from place to place and takes routes it finds.
LEMMA ReaderTyped ==
    ASSUME CacheInv, NEW r \in Readers, ReaderStep(r), Remember
    PROVE  CacheTyped'
<1>0. CacheTyped
  BY DEF CacheInv
<1>00. current' \in [Readers -> SUBSET (Routes \cup {NoRoute})]
  BY <1>0, ReadersOnlyRead DEF Remember, CacheTyped, RouteNow
<1>1. CASE Call(r)
  <2>1. /\ UNCHANGED <<epoch, cached, override, ring, change>>
        /\ reader' = [reader EXCEPT ![r].at = "epoch"]
    BY <1>1 DEF Call, Move
  <2> QED BY <2>1, <1>0, <1>00 DEF CacheTyped, Before
<1>2. CASE ReadEpoch(r)
  BY <1>0, <1>2, <1>00 DEF ReadEpoch, In, Even, CacheTyped, Before, Between
<1>3. CASE ReadCache(r)
  BY <1>0, <1>3, <1>00 DEF ReadCache, In, Hit, Take, Move, CacheTyped, Before, Between
<1>4. CASE ReadOverride(r)
  BY <1>0, <1>4, <1>00 DEF ReadOverride, In, Take, Move, CacheTyped, Before, Between
<1>5. CASE ReadRing(r)
  BY <1>0, <1>5, <1>00 DEF ReadRing, In, Take, CacheTyped, Before, Between
<1>6. CASE CheckEpoch(r)
  <2>1. UNCHANGED <<epoch, cached, override, ring, change>>
    BY <1>6 DEF CheckEpoch
  <2>2. CASE Unmoved(r)
    <3>1. \E place \in {"store", "done"} : reader' = [reader EXCEPT ![r].at = place]
      BY <2>2, <1>6 DEF CheckEpoch, Move
    <3> QED BY <3>1, <2>1, <1>0, <1>00 DEF CacheTyped, Between
  <2>3. CASE ~Unmoved(r)
    <3>1. reader' = [reader EXCEPT ![r] = StartOver]
      BY <2>3, <1>6 DEF CheckEpoch
    <3> QED BY <3>1, <2>1, <1>0, <1>00 DEF CacheTyped, StartOver, Before
  <2> QED BY <2>2, <2>3
<1>7. CASE StoreRoute(r)
  <2>1. /\ UNCHANGED <<epoch, override, ring, change>>
        /\ cached' = [route |-> reader[r].route, epoch |-> reader[r].epoch]
        /\ reader' = [reader EXCEPT ![r].at = "stored"]
    BY <1>7 DEF StoreRoute, Move
  <2>2. reader[r].route \in Routes \cup {NoRoute} /\ reader[r].epoch \in Nat
    BY <1>0 DEF CacheTyped
  <2> QED BY <2>1, <2>2, <1>0, <1>00 DEF CacheTyped, Between
<1> QED BY <1>1, <1>2, <1>3, <1>4, <1>5, <1>6, <1>7 DEF ReaderStep

\* A change gives the keyword routes only.
LEMMA WriterTyped ==
    ASSUME CacheInv, NEW w \in Writers, WriterStep(w), Remember
    PROVE  CacheTyped'
<1>0. CacheTyped
  BY DEF CacheInv
<1>00. ASSUME ring' \in Routes, override' \in Routes \cup {NoRoute}
       PROVE  current' \in [Readers -> SUBSET (Routes \cup {NoRoute})]
  BY <1>0, <1>00 DEF Remember, CacheTyped, RouteNow
<1>1. CASE BeginChange(w)
  BY <1>0, <1>1, <1>00 DEF BeginChange, Is, Do, Kind, CacheTyped, Changing
<1>2. CASE ChangeOverride(w)
  <2>1. /\ UNCHANGED <<epoch, cached, ring, reader>>
        /\ override' \in Routes \cup {NoRoute}
        /\ \E place \in Changing : change' = [change EXCEPT ![w].at = place]
    BY <1>2 DEF ChangeOverride, Do, Changing
  <2> QED BY <2>1, <1>0, <1>00 DEF CacheTyped
<1>3. CASE ChangeRing(w)
  BY <1>0, <1>3, <1>00 DEF ChangeRing, Is, Do, Kind, CacheTyped, Changing
<1>4. CASE ClearCache(w)
  BY <1>0, <1>4, <1>00 DEF ClearCache, Is, Do, CacheTyped, Changing
<1>5. CASE EndChange(w)
  BY <1>0, <1>5, <1>00 DEF EndChange, Is, Do, CacheTyped, Changing
<1> QED BY <1>1, <1>2, <1>3, <1>4, <1>5 DEF WriterStep

\* The epoch counts the beginning and the end of each change.
LEMMA WriterCounts ==
    ASSUME CacheInv, NEW w \in Writers, WriterStep(w)
    PROVE  EpochCounts'
<1>0. CacheTyped /\ EpochCounts
  BY DEF CacheInv
<1>01. PICK n \in Nat : epoch = Cardinality(Busy) + 2 * n
  BY <1>0 DEF EpochCounts
<1>02. IsFiniteSet(Busy) /\ Cardinality(Busy) \in Nat
  BY BusyFinite
<1>1. CASE BeginChange(w)
  <2>1. w \notin Busy
    BY <1>0, <1>1 DEF BeginChange, Is, Busy
  <2>2. change'[w].at \in {"override", "ring"} /\ \A v \in Writers \ {w} : change'[v] = change[v]
    BY <1>0, <1>1 DEF BeginChange, Is, Do, Kind, CacheTyped
  <2>3. Busy' = Busy \cup {w}
    BY <2>2 DEF Busy
  <2>4. Cardinality(Busy') = Cardinality(Busy) + 1
    BY <2>1, <2>3, <1>02, FS_AddElement
  <2>5. epoch' = Cardinality(Busy') + 2 * n
    BY <2>4, <1>01, <1>02, <1>1 DEF BeginChange
  <2> QED BY <2>5, <1>01 DEF EpochCounts
<1>2. CASE ChangeOverride(w)
  <2>1. Busy' = Busy
    BY <1>0, <1>2 DEF ChangeOverride, Is, Do, Kind, Busy, CacheTyped
  <2> QED BY <2>1, <1>0, <1>2 DEF ChangeOverride, EpochCounts
<1>3. CASE ChangeRing(w)
  <2>1. Busy' = Busy
    BY <1>0, <1>3 DEF ChangeRing, Is, Do, Kind, Busy, CacheTyped
  <2> QED BY <2>1, <1>0, <1>3 DEF ChangeRing, EpochCounts
<1>4. CASE ClearCache(w)
  <2>1. Busy' = Busy
    BY <1>0, <1>4 DEF ClearCache, Is, Do, Busy, CacheTyped
  <2> QED BY <2>1, <1>0, <1>4 DEF ClearCache, EpochCounts
<1>5. CASE EndChange(w)
  <2>0. w \in Busy /\ change'[w].at = "done" /\ \A v \in Writers \ {w} : change'[v] = change[v]
    BY <1>0, <1>5 DEF EndChange, Is, Do, Busy, CacheTyped
  <2>1. Busy' = Busy \ {w} /\ w \in Busy
    BY <2>0 DEF Busy
  <2>2. Cardinality(Busy') = Cardinality(Busy) - 1
    BY <2>1, <1>02, FS_RemoveElement
  <2>3. epoch' = Cardinality(Busy') + 2 * (n + 1)
    BY <2>2, <1>01, <1>02, <1>5 DEF EndChange
  <2>4. n + 1 \in Nat
    BY <1>01
  <2> QED BY <2>3, <2>4 DEF EpochCounts
<1> QED BY <1>1, <1>2, <1>3, <1>4, <1>5 DEF WriterStep

\* A reader goes on from an even epoch only.
LEMMA ReaderEpochs ==
    ASSUME CacheInv, NEW r \in Readers, ReaderStep(r)
    PROVE  EpochsRead'
<1>0. CacheTyped /\ EpochsRead
  BY DEF CacheInv
<1>1. CASE Call(r)
  BY <1>0, <1>1 DEF Call, In, Move, EpochsRead, CacheTyped, Between
<1>2. CASE ReadEpoch(r)
  BY <1>0, <1>2 DEF ReadEpoch, In, Even, EpochsRead, CacheTyped, Between
<1>3. CASE ReadCache(r) \/ ReadOverride(r) \/ ReadRing(r)
  <2>1. UNCHANGED <<epoch, cached>> /\ reader[r].at \in Between
    BY <1>3 DEF ReadCache, ReadOverride, ReadRing, In, Between
  <2>2. \A q \in Readers \ {r} : reader'[q] = reader[q]
    BY <1>0, <1>3 DEF ReadCache, ReadOverride, ReadRing, Take, Move, CacheTyped
  <2>3. reader'[r].epoch = reader[r].epoch
    <3>1. CASE ReadCache(r)
      BY <1>0, <3>1 DEF ReadCache, Take, Move, CacheTyped
    <3>2. CASE ReadOverride(r)
      BY <1>0, <3>2 DEF ReadOverride, Take, Move, CacheTyped
    <3>3. CASE ReadRing(r)
      BY <1>0, <3>3 DEF ReadRing, Take, CacheTyped
    <3> QED BY <1>3, <3>1, <3>2, <3>3
  <2> QED BY <2>1, <2>2, <2>3, <1>0 DEF EpochsRead
<1>4. CASE CheckEpoch(r)
  <2>1. UNCHANGED <<epoch, cached>> /\ reader[r].at \in Between
    BY <1>4 DEF CheckEpoch, Between
  <2>2. CASE Unmoved(r)
    <3>1. \E place \in {"store", "done"} : reader' = [reader EXCEPT ![r].at = place]
      BY <2>2, <1>4 DEF CheckEpoch, Move
    <3> QED BY <3>1, <2>1, <1>0 DEF EpochsRead, CacheTyped, Between
  <2>3. CASE ~Unmoved(r)
    <3>1. reader' = [reader EXCEPT ![r] = StartOver]
      BY <2>3, <1>4 DEF CheckEpoch
    <3> QED BY <3>1, <2>1, <1>0 DEF EpochsRead, CacheTyped, StartOver, Between
  <2> QED BY <2>2, <2>3
<1>5. CASE StoreRoute(r)
  BY <1>0, <1>5 DEF StoreRoute, In, Move, EpochsRead, CacheTyped, Between
<1> QED BY <1>1, <1>2, <1>3, <1>4, <1>5 DEF ReaderStep

\* The epoch only grows.
LEMMA WriterEpochs ==
    ASSUME CacheInv, NEW w \in Writers, WriterStep(w)
    PROVE  EpochsRead'
<1>0. CacheTyped /\ EpochsRead
  BY DEF CacheInv
<1>1. CASE BeginChange(w)
  BY <1>0, <1>1 DEF BeginChange, EpochsRead, CacheTyped
<1>2. CASE ChangeOverride(w)
  BY <1>0, <1>2 DEF ChangeOverride, EpochsRead, CacheTyped
<1>3. CASE ChangeRing(w)
  BY <1>0, <1>3 DEF ChangeRing, EpochsRead, CacheTyped
<1>4. CASE ClearCache(w)
  BY <1>0, <1>4 DEF ClearCache, EpochsRead, CacheTyped
<1>5. CASE EndChange(w)
  BY <1>0, <1>5 DEF EndChange, EpochsRead, CacheTyped
<1> QED BY <1>1, <1>2, <1>3, <1>4, <1>5 DEF WriterStep

\* What a reader finds while nothing changes is the current route, in the cache or
\* behind it.
LEMMA ReaderFresh ==
    ASSUME CacheInv, NEW r \in Readers, ReaderStep(r)
    PROVE  ReadIsFresh' /\ CacheIsFresh'
<1>0. CacheTyped /\ ReadIsFresh /\ CacheIsFresh /\ EpochsRead
  BY DEF CacheInv
<1>00. UNCHANGED <<epoch, change, override, ring>> /\ Busy' = Busy /\ RouteNow' = RouteNow
  BY ReadersOnlyRead
<1>1. CASE Call(r)
  BY <1>0, <1>1, <1>00 DEF Call, In, Move, ReadIsFresh, CacheIsFresh, RouteNow, CacheTyped, HasRoute
<1>2. CASE ReadEpoch(r)
  BY <1>0, <1>2, <1>00 DEF ReadEpoch, In, Even, ReadIsFresh, CacheIsFresh, RouteNow, CacheTyped, HasRoute
<1>3. CASE ReadCache(r)
  BY <1>0, <1>3, <1>00 DEF ReadCache, In, Hit, Take, Move, ReadIsFresh, CacheIsFresh, RouteNow, CacheTyped, HasRoute
<1>4. CASE ReadOverride(r)
  BY <1>0, <1>4, <1>00 DEF ReadOverride, In, Take, Move, ReadIsFresh, CacheIsFresh, RouteNow, CacheTyped, HasRoute
<1>5. CASE ReadRing(r)
  BY <1>0, <1>5, <1>00 DEF ReadRing, In, Take, ReadIsFresh, CacheIsFresh, RouteNow, CacheTyped, HasRoute
<1>6. CASE CheckEpoch(r)
  BY <1>0, <1>6, <1>00 DEF CheckEpoch, In, Unmoved, Move, StartOver, ReadIsFresh, CacheIsFresh, RouteNow, CacheTyped, HasRoute
<1>7. CASE StoreRoute(r)
  BY <1>0, <1>7, <1>00 DEF StoreRoute, In, Move, ReadIsFresh, CacheIsFresh, RouteNow, CacheTyped, HasRoute
<1> QED BY <1>1, <1>2, <1>3, <1>4, <1>5, <1>6, <1>7 DEF ReaderStep

\* A change that goes on exempts, and one that begins or ends moves the epoch past all
\* that was read before.
LEMMA WriterFresh ==
    ASSUME CacheInv, NEW w \in Writers, WriterStep(w)
    PROVE  ReadIsFresh' /\ CacheIsFresh'
<1>0. CacheTyped /\ ReadIsFresh /\ CacheIsFresh /\ EpochsRead
  BY DEF CacheInv
<1>1. CASE BeginChange(w)
  <2>1. epoch' = epoch + 1 /\ UNCHANGED <<cached, reader>>
    BY <1>1 DEF BeginChange
  <2> QED BY <2>1, <1>0 DEF CacheTyped, EpochsRead, ReadIsFresh, CacheIsFresh
<1>2. CASE ChangeOverride(w)
  <2>1. w \in Busy'
    BY <1>0, <1>2 DEF ChangeOverride, Is, Do, Kind, Busy, CacheTyped, Changing
  <2> QED BY <2>1 DEF ReadIsFresh, CacheIsFresh
<1>3. CASE ChangeRing(w)
  <2>1. w \in Busy'
    BY <1>0, <1>3 DEF ChangeRing, Is, Do, Kind, Busy, CacheTyped, Changing
  <2> QED BY <2>1 DEF ReadIsFresh, CacheIsFresh
<1>4. CASE ClearCache(w)
  <2>1. w \in Busy'
    BY <1>0, <1>4 DEF ClearCache, Is, Do, Busy, CacheTyped, Changing
  <2> QED BY <2>1 DEF ReadIsFresh, CacheIsFresh
<1>5. CASE EndChange(w)
  <2>1. epoch' = epoch + 1 /\ UNCHANGED <<cached, reader>>
    BY <1>5 DEF EndChange
  <2> QED BY <2>1, <1>0 DEF CacheTyped, EpochsRead, ReadIsFresh, CacheIsFresh
<1> QED BY <1>1, <1>2, <1>3, <1>4, <1>5 DEF WriterStep

\* What is remembered is the route after each step, and who met two changes.
LEMMA Remembers ==
    ASSUME CacheTyped', CacheTyped, Remember
    PROVE  CurrentRemembered'
<1>1. IsFiniteSet(Busy') /\ Cardinality(Busy') \in Nat
  <2>1. Busy' \in SUBSET Writers
    BY DEF Busy
  <2> QED BY <2>1, FS_Subset, FS_CardinalityType, CacheAssumption
<1> SUFFICES ASSUME NEW r \in Readers, r \notin crossed', reader'[r].at \notin {"idle", "done"}
             PROVE  RouteNow' \in current'[r] /\ Cardinality(Busy') <= 1
  BY DEF CurrentRemembered
<1>2. Reading(r)
  BY DEF Reading
<1>3. RouteNow' \in current'[r]
  BY <1>2 DEF Remember
<1>4. Cardinality(Busy') <= 1
  BY <1>1, <1>2 DEF Remember
<1> QED BY <1>3, <1>4

\* A reader is done when the epoch has not moved; with no two changes at once there was
\* none, and what it read is current.
LEMMA ReaderReturns ==
    ASSUME CacheInv, NEW r \in Readers, ReaderStep(r), Remember
    PROVE  ReturnedWasCurrent'
<1>0. CacheTyped /\ ReturnedWasCurrent
  BY DEF CacheInv
<1> SUFFICES ASSUME NEW q \in Readers, q \notin crossed', reader'[q].at = "done"
             PROVE  reader'[q].route \in current'[q]
  BY DEF ReturnedWasCurrent
<1>1. q \notin crossed /\ current'[q] = current[q]
  BY DEF Remember, Reading
<1>2. CASE reader[q].at = "done"
  <2>1. reader'[q].route = reader[q].route
    BY <1>0, <1>2 DEF ReaderStep, Call, In, Move, ReadEpoch, Even, ReadCache, Hit, Take, ReadOverride, ReadRing, CheckEpoch, Unmoved, StartOver, StoreRoute, CacheTyped
  <2> QED BY <2>1, <1>1, <1>2, <1>0 DEF ReturnedWasCurrent
<1>3. CASE reader[q].at # "done"
  <2>1. q = r /\ CheckEpoch(r) /\ Unmoved(r) /\ reader[q].at \in {"hit", "stored"}
    BY <1>0, <1>3 DEF ReaderStep, Call, In, Move, ReadEpoch, Even, ReadCache, Hit, Take, ReadOverride, ReadRing, CheckEpoch, Unmoved, StartOver, StoreRoute, CacheTyped
  <2>2. reader'[q].route = reader[q].route
    BY <2>1, <1>0 DEF CheckEpoch, Move, In, Unmoved, StartOver, CacheTyped
  <2>3. RouteNow \in current[q] /\ Cardinality(Busy) <= 1
    BY <2>1, <1>1 DEF CacheInv, CurrentRemembered
  <2>4. Busy = {}
    <3>1. epoch % 2 = 0
      BY <2>1 DEF CacheInv, EpochsRead, Between, Unmoved
    <3> QED BY <3>1, <2>3, EvenIsQuiet DEF CacheInv
  <2>5. reader[q].route = RouteNow
    BY <2>1, <2>4 DEF CacheInv, ReadIsFresh, HasRoute, Unmoved
  <2> QED BY <2>2, <2>3, <2>5, <1>1
<1> QED BY <1>2, <1>3

(***************************************************************************)
(* The theorem.                                                            *)
(***************************************************************************)

\* Nothing has been read or changed at the start.
LEMMA CacheInitFits ==
    ASSUME CacheInit
    PROVE  CacheInv
<1>1. CacheTyped
  BY CacheAssumption DEF CacheInit, CacheTyped, Before, Changing
<1>2. Busy = {}
  BY DEF CacheInit, Busy
<1>3. Cardinality(Busy) = 0 /\ epoch = 0
  BY <1>2, FS_EmptySet DEF CacheInit
<1>4. EpochCounts
  BY <1>3 DEF EpochCounts
<1>5. EpochsRead /\ ReadIsFresh /\ CacheIsFresh /\ CurrentRemembered /\ ReturnedWasCurrent
  BY DEF CacheInit, EpochsRead, ReadIsFresh, CacheIsFresh, CurrentRemembered, ReturnedWasCurrent,
         Between, HasRoute
<1> QED BY <1>1, <1>4, <1>5 DEF CacheInv

\* A reader's step keeps all.
LEMMA ReaderKeepsAll ==
    ASSUME CacheInv, NEW r \in Readers, ReaderStep(r), Remember
    PROVE  CacheInv'
<1>1. EpochCounts'
  BY ReadersOnlyRead DEF CacheInv, EpochCounts
<1> QED BY <1>1, ReaderTyped, ReaderEpochs, ReaderFresh, Remembers, ReaderReturns DEF CacheInv

\* A change's step keeps all.
LEMMA WriterKeepsAll ==
    ASSUME CacheInv, NEW w \in Writers, WriterStep(w), Remember
    PROVE  CacheInv'
<1>1. reader' = reader
  BY DEF WriterStep, BeginChange, ChangeOverride, ChangeRing, ClearCache, EndChange
<1>2. ReturnedWasCurrent'
  BY <1>1 DEF CacheInv, CacheTyped, ReturnedWasCurrent, Remember, Reading
<1> QED BY <1>2, WriterTyped, WriterCounts, WriterEpochs, WriterFresh, Remembers DEF CacheInv

\* The invariant holds for any number of readers and changes.
THEOREM CacheInvariance == CacheSpec => []CacheInv
<1>1. CacheInit => CacheInv
  BY CacheInitFits
<1>2. CacheInv /\ [CacheNext]_cacheVars => CacheInv'
  <2> SUFFICES ASSUME CacheInv, [CacheNext]_cacheVars PROVE CacheInv'
    OBVIOUS
  <2>1. ASSUME NEW r \in Readers, ReaderStep(r), Remember PROVE CacheInv'
    BY <2>1, ReaderKeepsAll
  <2>2. ASSUME NEW w \in Writers, WriterStep(w), Remember PROVE CacheInv'
    BY <2>2, WriterKeepsAll
  <2>3. CASE UNCHANGED cacheVars
    BY <2>3 DEF cacheVars, CacheInv, CacheTyped, EpochCounts, EpochsRead, ReadIsFresh, CacheIsFresh,
                CurrentRemembered, ReturnedWasCurrent, Busy, RouteNow
  <2> QED BY <2>1, <2>2, <2>3 DEF CacheNext, ReaderStep, WriterStep
<1> QED BY <1>1, <1>2, PTL DEF CacheSpec

\* A returned route was current during the call unless changes crossed, and a cache
\* at rest has the current route (routing.rs, route_keyword).
THEOREM CurrentRoutes == CacheSpec => []RoutesAreCurrent
<1>1. CacheInv => RoutesAreCurrent
  BY DEF CacheInv, ReturnedWasCurrent, CacheIsFresh, RoutesAreCurrent, In
<1> QED BY <1>1, CacheInvariance, PTL
=============================================================================
