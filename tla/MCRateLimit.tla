---------------------------- MODULE MCRateLimit ----------------------------
(* Instances of RateLimit for TLC. *)
EXTENDS RateLimit, TLC

CONSTANTS ip, elsewhere, guest

\* All requests but one come from the same client.
TwoClients == [r \in Request |-> IF r = guest THEN elsewhere ELSE ip]

RequestSymmetry == Permutations(Request \ {guest})
=============================================================================
