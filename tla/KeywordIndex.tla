--------------------------- MODULE KeywordIndex ---------------------------
(***************************************************************************)
(* What a storager's index promises, whichever of the four authenticated   *)
(* structures keeps it: a set of files for every keyword, changed by the   *)
(* request that is being served and by nothing else.  `op` is the request  *)
(* served last, so that an index that applies another change than the one  *)
(* asked for is not an implementation.                                     *)
(***************************************************************************)
EXTENDS Naturals

CONSTANTS
    Keywords,
    Fids,
    Segments    \* the sets of keywords whose digest starts with a migrated prefix

VARIABLES index, op

Postings == [Keywords -> SUBSET Fids]
Nothing  == [k \in Keywords |-> {}]

\* The requests of the AdsOperations trait that can change an index; those
\* of migrations name the keywords of the migrated prefix.
Requests ==
    [kind : {"add", "delete"}, keyword : Keywords, fid : Fids]
        \cup [kind : {"add_batch"}, pairs : SUBSET (Keywords \X Fids)]
        \cup [kind : {"import"}, records : Postings]
        \cup [kind : {"prepare", "confirm", "drain"}, segment : Segments]
        \cup [kind : {"query", "refused", "deferred", "restart", "crash", "reset", "none"}]

\* The postings after request r, an import being of keywords the storager
\* does not hold yet.
Applied(r) ==
    CASE r.kind = "add"    -> [index EXCEPT ![r.keyword] = @ \cup {r.fid}]
      [] r.kind = "delete" -> [index EXCEPT ![r.keyword] = @ \ {r.fid}]
      [] r.kind = "add_batch" ->
           [k \in Keywords |-> index[k] \cup {f \in Fids : <<k, f>> \in r.pairs}]
      [] r.kind = "import" -> [k \in Keywords |-> index[k] \cup r.records[k]]
      [] r.kind \in {"confirm", "drain"} ->
           [k \in Keywords |-> IF k \in r.segment THEN {} ELSE index[k]]
      [] r.kind = "reset" -> Nothing
      [] OTHER -> index

Init == index = Nothing /\ op = [kind |-> "none"]

\* One request is served.  What a process that is killed loses is a matter of
\* its storage, of which the requests promise nothing.
Next ==
    /\ op' \in Requests
    /\ index' \in Postings
    /\ op'.kind # "crash" => index' = Applied(op')

Spec == Init /\ [][Next]_<<index, op>>
=============================================================================
