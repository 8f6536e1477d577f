------------------------------ MODULE MCEPRing ------------------------------
(* EPRing on a ring small enough to split to its full depth. *)
EXTENDS EPRing
=============================================================================
