-------------------------- MODULE MCSplitMigration --------------------------
(***************************************************************************)
(* Two storagers on a ring of two root prefixes with two children each.    *)
(* The keywords are under <<0>>: "stay" keeps its storager when <<0>>      *)
(* splits, "move" changes it.  They stand for keywords on whose first      *)
(* digits xxh3 and SHA-256 agree; MCOtherHash and MCAdsHash3 are for       *)
(* keywords where the two hashes do not.                                   *)
(***************************************************************************)
EXTENDS SplitMigration, TLC

MCKeywords == {"stay", "move"}
MCHash == [kw \in MCKeywords |-> IF kw = "stay" THEN <<0, 0>> ELSE <<0, 1>>]

\* The storagers' hash puts both keywords under the other child.
MCOtherHash == [kw \in MCKeywords |-> IF kw = "stay" THEN <<0, 1>> ELSE <<0, 0>>]

\* Below both children the prefixes can split again.
MCKeywords3 == {"stay", "move", "deep"}
MCHash3 == [kw \in MCKeywords3 |->
    CASE kw = "stay" -> <<0, 0, 0>> [] kw = "move" -> <<0, 1, 0>> [] kw = "deep" -> <<0, 1, 1>>]

\* The first split of <<0>> moves "deep" by either hash; that of <<0, 1>> tells them
\* apart.
MCAdsHash3 == [MCHash3 EXCEPT !["deep"] = <<0, 1, 0>>]

\* One keyword that moves under each root prefix, so that two migrations queue up.
MCKeywords2 == {"move", "other"}
MCHash2 == [kw \in MCKeywords2 |-> IF kw = "move" THEN <<0, 1>> ELSE <<1, 1>>]

\* Clients and files are interchangeable.
Symmetry == Permutations(Clients) \cup Permutations(Fids)
=============================================================================
