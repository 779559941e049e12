------------------------------ MODULE RateLimit ------------------------------
(***************************************************************************)
(* The fixed-window rate limiter the documentation builds on the cache     *)
(* (examples/cache/src/index.ts, and the head of fastedge-cache.d.ts):     *)
(*                                                                         *)
(*   count = await Cache.incr(key)                                         *)
(*   if (count === 1) await Cache.expire(key, { ttl: window })             *)
(*   if (count > max) 429 else 200                                         *)
(*                                                                         *)
(* run by concurrent requests, each in an instance of its own, above the   *)
(* host cache, where each client has a key.                                *)
(***************************************************************************)
EXTENDS HostCache, FiniteSets

CONSTANTS
    RATE_LIMIT_MAX,     \* requests per window
    RATE_LIMIT_WINDOW,  \* window length, in ticks
    Request,            \* bound: the requests of a behaviour
    ClientKey,          \* ClientKey[r]: the counter of the client that sends r
    RequestsMayDie      \* whether an instance may be killed between two calls

ASSUME RateLimitAssumption ==
    /\ IsFiniteSet(Request)
    /\ Writer = Request
    /\ ClientKey \in [Request -> Key]
    /\ Val = 1 .. Cardinality(Request)
    /\ RATE_LIMIT_MAX \in Nat \ {0}
    /\ RATE_LIMIT_WINDOW \in Nat \ {0}
    /\ RequestsMayDie \in BOOLEAN

VARIABLES
    pc,       \* pc[r]: where request r is
    count,    \* count[r]: what incr told it
    window    \* window[r]: auxiliary, the request that opened r's window

limVars == <<pc, count, window>>
vars == <<now, store, pc, count, window>>

\* Types; no request is told a count that is zero or exceeds the requests made.
TypeOK ==
    /\ HostTypeOK
    /\ pc \in [Request -> {"start", "counted", "admitted", "refused", "failed"}]
    /\ count \in [Request -> 0 .. Cardinality(Request)]
    /\ window \in [Request -> Request]

Init ==
    /\ HostInit
    /\ pc = [r \in Request |-> "start"]
    /\ count = [r \in Request |-> 0]
    /\ window = [r \in Request |-> r]

Goto(r, place) == pc' = [pc EXCEPT ![r] = place]

\* Auxiliary: who opened the window that the counter in the store belongs to.
Opener(k) == window[store[k].by]

DoubleCount(k) == IF Present(k) THEN store[k].val + 1 ELSE 0    \* mutant
SameCount(k) == IF Present(k) THEN store[k].val ELSE 1    \* mutant
NextCount(k) == IF Present(k) THEN store[k].val + 1 ELSE 1

\* incr_common: one atomic host call, which may fail.
Incr(r) ==
    LET k == ClientKey[r] IN
    /\ pc[r] = "start"
    /\ \/ /\ Count(k, NextCount(k), r)
          /\ count' = [count EXCEPT ![r] = NextCount(k)]
          /\ window' = [window EXCEPT ![r] = IF Present(k) THEN Opener(k) ELSE r]
          /\ Goto(r, "counted")
       \/ /\ Goto(r, "failed")
          /\ UNCHANGED <<store, count, window>>
    /\ UNCHANGED now

IsSecond(r) == count[r] = 2                               \* mutant
IsFirst(r) == count[r] = 1

OneTooMany(r) == count[r] <= RATE_LIMIT_MAX + 1           \* mutant
Allowed(r) == count[r] <= RATE_LIMIT_MAX

\* The first of a window starts the clock (the key may be gone by then), and
\* every request is let in or refused by its number.
Answer(r) ==
    LET k == ClientKey[r] IN
    /\ pc[r] = "counted"
    /\ IF IsFirst(r) /\ Present(k)
       THEN Renew(k, RATE_LIMIT_WINDOW, NoExpiry)
       ELSE UNCHANGED store
    /\ Goto(r, IF Allowed(r) THEN "admitted" ELSE "refused")
    /\ UNCHANGED <<now, count, window>>

\* expire is rejected by the host, or the instance is killed before it.
Die(r) ==
    /\ RequestsMayDie
    /\ pc[r] = "counted"
    /\ Goto(r, "failed")
    /\ UNCHANGED <<now, store, count, window>>

Host ==
    /\ Tick \/ \E k \in Key : Evict(k)
    /\ UNCHANGED limVars

Next ==
    \/ Host
    \/ \E r \in Request : Incr(r) \/ Answer(r) \/ Die(r)

Spec == Init /\ [][Next]_vars

-----------------------------------------------------------------------------
\* "two simultaneous requests cannot both see count === 1", nor any other
\* count: within a window every request gets a number of its own.
DistinctCounts ==
    \A r, q \in Request :
        r # q /\ window[r] = window[q] => count[r] = 0 \/ count[q] = 0 \/ count[r] # count[q]

\* Between two resets of the counter at most RATE_LIMIT_MAX requests get in.
AdmittedPerWindow ==
    \A w \in Request :
        Cardinality({r \in Request : pc[r] = "admitted" /\ window[r] = w}) <= RATE_LIMIT_MAX

\* A window that never closes has a culprit: a counter is without a deadline
\* only if the first request of its window has yet to call expire, or was cut
\* short before it; eviction, expiry and late requests of older windows,
\* which renew a counter that is not theirs, do not bring it about.
OpenEndedHasCulprit ==
    \A k \in Key : Present(k) /\ store[k].deadline = NoExpiry =>
        \E r \in Request :
            pc[r] \in {"counted", "failed"} /\ count[r] = 1 /\ window[r] = Opener(k)
=============================================================================
