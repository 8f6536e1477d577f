-------------------------- MODULE PrefixDirectory --------------------------
(***************************************************************************)
(* What EPRing promises its callers, without its array: a directory that   *)
(* gives every key hash one storager, through a set of prefixes that tile  *)
(* the hash space.  Splitting a prefix is the only way a key changes       *)
(* storager, and it moves only keys of that prefix, to fixed places; a     *)
(* reset starts over.                                                      *)
(***************************************************************************)
EXTENDS Integers, Sequences

CONSTANTS NodeCount, Fanout, RootLen, MaxPrefixLen

VARIABLE owner    \* prefix -> the storager that owns its keys

Nodes  == 0 .. NodeCount - 1
Digits == 0 .. Fanout - 1

Children(p) == {Append(p, d) : d \in Digits}

\* A fresh directory deals the root prefixes out so that no storager is idle.
Fresh(o) ==
    /\ o \in [[1 .. RootLen -> Digits] -> Nodes]
    /\ \A n \in Nodes : \E p \in DOMAIN o : o[p] = n

Init == Fresh(owner)

\* Child d of a prefix goes d storagers further: child 0 keeps its place.
Split(p) ==
    /\ Len(p) < MaxPrefixLen
    /\ owner' = [q \in (DOMAIN owner \ {p}) \cup Children(p) |->
                    IF q \in Children(p)
                    THEN (owner[p] + q[Len(q)]) % NodeCount
                    ELSE owner[q]]

Reset == Fresh(owner')

Next == (\E p \in DOMAIN owner : Split(p)) \/ Reset

Spec == Init /\ [][Next]_owner
=============================================================================
