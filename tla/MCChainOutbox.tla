--------------------------- MODULE MCChainOutbox ---------------------------
(* The outbox with two prefixes: a call changes one of them, both, or one   *)
(* twice.                                                                   *)
EXTENDS ChainOutbox

CONSTANTS p, q

MCPrefixes == {p, q}
MCPrefixLists == {<<p>>, <<p, q>>, <<q, q>>}
=============================================================================
