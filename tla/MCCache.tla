------------------------------ MODULE MCCache ------------------------------
(* Instances of Cache for TLC. *)
EXTENDS Cache, TLC

OptNone == [kind |-> "none", n |-> 0]
OptTtl(n) == [kind |-> "relative", n |-> n]
OptAt(n) == [kind |-> "expiresAt", n |-> n]

NoTtlOnly == {OptNone}
ShortTtl == {OptNone, OptTtl(1)}
BadAndGood == {OptTtl(-1), OptTtl(1)}
Absolute == {OptAt(1), OptAt(2), OptNone}

PrefixNone == {}
PrefixEach == {{k} : k \in Key}

AllOperations == {"plain", "set", "getOrSet"}
GetOrSetOnly == {"getOrSet"}
WritersOnly == {"set", "getOrSet"}

\* Calls and instances are interchangeable.
CallSymmetry == Permutations(Call) \cup Permutations(Instance)
=============================================================================
