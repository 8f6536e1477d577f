----------------------------- MODULE RouteCache -----------------------------
(***************************************************************************)
(* The routes the manager's router remembers, and the epoch by which its   *)
(* readers notice that a change of the overrides or of the ring is going   *)
(* on (manager/src/core/routing.rs).  Nothing locks a reader out: it reads *)
(* the epoch, then a route, then the epoch again.                          *)
(*                                                                         *)
(* There is one keyword: the cache and the overrides are maps from         *)
(* keywords, and a reader looks at its own.  The ring is the route it      *)
(* gives the keyword.                                                      *)
(***************************************************************************)
EXTENDS Naturals, FiniteSets

CONSTANTS
    Readers,      \* calls of route_keyword
    Writers,      \* calls that change overrides or ring
    Plans,        \* what they do, in the runs to explore: functions to Changes
    Routes,
    NoRoute

\* "insert" is record_insert and record_insert_without_split, "forget" is
\* clear_keyword_overrides_for_prefix, "presplit" is presplit_empty_prefixes.
Changes == {"insert", "delete", "forget", "presplit", "reset"}

\* Finitely many calls change routes at a time.
ASSUME CacheAssumption == IsFiniteSet(Writers) /\ Plans \subseteq [Writers -> Changes]

VARIABLES
    epoch,        \* Router.route_epoch
    cached,       \* the cache: a route and the epoch it is of, or NoRoute
    override,     \* keyword_overrides of the keyword
    ring,         \* the route the ring gives it
    reader,       \* reader -> where it is, the epoch and the route it read
    change,       \* writer -> what it does and where it is
    \* What the properties remember.
    current,      \* reader -> the routes that were current during its call
    crossed       \* readers during whose call two changes were going on at once

cacheVars == <<epoch, cached, override, ring, reader, change, current, crossed>>

Even == epoch % 2 = 0
RouteNow == IF override # NoRoute THEN override ELSE ring
Busy == {w \in Writers : change[w].at \in {"override", "ring", "clear", "end"}}

CacheInit ==
    /\ epoch = 0 /\ cached = NoRoute /\ override = NoRoute
    /\ ring \in Routes
    /\ reader = [r \in Readers |-> [at |-> "idle", epoch |-> 0, route |-> NoRoute]]
    /\ \E plan \in Plans : change = [w \in Writers |-> [kind |-> plan[w], at |-> "called"]]
    /\ current = [r \in Readers |-> {}]
    /\ crossed = {}

Reading(r) == reader'[r].at \notin {"idle", "done"}

\* What the properties remember of a step.
Remember ==
    /\ crossed' = crossed \cup
         (IF Cardinality(Busy') > 1 THEN {r \in Readers : Reading(r)} ELSE {})
    /\ current' = [r \in Readers |->
                     IF Reading(r) /\ r \notin crossed' THEN current[r] \cup {RouteNow'} ELSE current[r]]

Move(r, place) == reader' = [reader EXCEPT ![r].at = place]
Take(r, route, place) == reader' = [reader EXCEPT ![r].route = route, ![r].at = place]
In(r, place) == reader[r].at = place

-----------------------------------------------------------------------------
(* route_keyword                                                           *)

Call(r) ==
    /\ In(r, "idle")
    /\ Move(r, "epoch")
    /\ UNCHANGED <<epoch, cached, override, ring, change>>

ReadEpoch(r) ==
    /\ In(r, "epoch") /\ Even
    /\ reader' = [reader EXCEPT ![r].epoch = epoch, ![r].at = "cache"]
    /\ UNCHANGED <<epoch, cached, override, ring, change>>

\* A mistake: a route is taken from the cache whatever its epoch.
AnyHit(r) == cached # NoRoute
Hit(r) == cached # NoRoute /\ cached.epoch = reader[r].epoch

ReadCache(r) ==
    /\ In(r, "cache")
    /\ \/ Hit(r) /\ Take(r, cached.route, "hit")
       \/ ~Hit(r) /\ Move(r, "overrides")
    /\ UNCHANGED <<epoch, cached, override, ring, change>>

ReadOverride(r) ==
    /\ In(r, "overrides")
    /\ \/ override # NoRoute /\ Take(r, override, "found")
       \/ override = NoRoute /\ Move(r, "ring")
    /\ UNCHANGED <<epoch, cached, override, ring, change>>

ReadRing(r) ==
    /\ In(r, "ring")
    /\ Take(r, ring, "found")
    /\ UNCHANGED <<epoch, cached, override, ring, change>>

StartOver == [at |-> "epoch", epoch |-> 0, route |-> NoRoute]
Unmoved(r) == epoch = reader[r].epoch

\* The route read is good if the epoch has not moved; else all starts over.
CheckEpoch(r) ==
    /\ reader[r].at \in {"hit", "found", "stored"}
    /\ \/ Unmoved(r) /\ Move(r, IF In(r, "found") THEN "store" ELSE "done")
       \/ ~Unmoved(r) /\ reader' = [reader EXCEPT ![r] = StartOver]
    /\ UNCHANGED <<epoch, cached, override, ring, change>>

StoreRoute(r) ==
    /\ In(r, "store")
    /\ cached' = [route |-> reader[r].route, epoch |-> reader[r].epoch]
    /\ Move(r, "stored")
    /\ UNCHANGED <<epoch, override, ring, change>>

-----------------------------------------------------------------------------
(* The changes, each behind a RouteCacheMutationGuard.                     *)

Do(w, place) == change' = [change EXCEPT ![w].at = place]
Is(w, place) == change[w].at = place
Kind(w) == change[w].kind

BeginChange(w) ==
    /\ Is(w, "called")
    /\ epoch' = epoch + 1
    /\ Do(w, IF Kind(w) \in {"presplit", "reset"} THEN "ring" ELSE "override")
    /\ UNCHANGED <<cached, override, ring, reader>>

\* An insertion records where it went; a deletion, the end of a migration and
\* a reset leave the keyword to the ring.
ChangeOverride(w) ==
    /\ Is(w, "override")
    /\ \/ Kind(w) = "insert" /\ override' \in Routes /\ Do(w, "ring")
       \/ Kind(w) \in {"delete", "forget", "reset"} /\ override' = NoRoute
          /\ Do(w, IF Kind(w) = "delete" THEN "ring" ELSE "clear")
    /\ UNCHANGED <<epoch, cached, ring, reader>>

\* A split gives the keyword another owner; a deletion changes no route.
ChangeRing(w) ==
    /\ Is(w, "ring")
    /\ \/ Kind(w) \in {"insert", "presplit", "reset"} /\ ring' \in Routes
       \/ Kind(w) = "delete" /\ UNCHANGED ring
    /\ Do(w, IF Kind(w) = "reset" THEN "override" ELSE "clear")
    /\ UNCHANGED <<epoch, cached, override, reader>>

ClearCache(w) ==
    /\ Is(w, "clear")
    /\ cached' = NoRoute
    /\ Do(w, "end")
    /\ UNCHANGED <<epoch, override, ring, reader>>

EndChange(w) ==
    /\ Is(w, "end")
    /\ epoch' = epoch + 1
    /\ Do(w, "done")
    /\ UNCHANGED <<cached, override, ring, reader>>

CacheNext ==
    /\ \/ \E r \in Readers :
            \/ Call(r) \/ ReadEpoch(r) \/ ReadCache(r) \/ ReadOverride(r) \/ ReadRing(r)
            \/ CheckEpoch(r) \/ StoreRoute(r)
       \/ \E w \in Writers :
            \/ BeginChange(w) \/ ChangeOverride(w) \/ ChangeRing(w) \/ ClearCache(w) \/ EndChange(w)
    /\ Remember

CacheSpec == CacheInit /\ [][CacheNext]_cacheVars

-----------------------------------------------------------------------------
\* A route that is returned was the keyword's route at some moment of the call,
\* unless two changes ran at once during it: the epoch of two overlapping
\* guards is even.  Whatever crossed, once the changes are over the cache gives
\* out no route but the current one (routing.rs, route_keyword and
\* begin_route_cache_mutation).
RoutesAreCurrent ==
    /\ \A r \in Readers : In(r, "done") /\ r \notin crossed => reader[r].route \in current[r]
    /\ Busy = {} /\ cached # NoRoute /\ cached.epoch = epoch => cached.route = RouteNow
=============================================================================
