----------------------------- MODULE HostCache -----------------------------
(***************************************************************************)
(* The POP-local key/value store behind `fastedge::cache`, as the wrappers *)
(* of host-api/fastedge_host_api.cpp use it through cache-sync.wit.  The   *)
(* host is outside the repository: what is kept here is the contract the   *)
(* WIT file states.  Every operation is one synchronous, atomic call, so   *)
(* every operator below is the effect of a successful call; a failed call  *)
(* leaves `store` as it was.                                               *)
(***************************************************************************)
EXTENDS Integers

CONSTANTS
    Key,       \* keys, as the host sees them (UTF-8)
    Val,       \* payloads, told apart only by identity
    Writer,    \* whoever issues a write
    Absent,    \* what a key without an entry holds
    NoExpiry,  \* deadline of an entry written without a TTL
    MaxTime    \* bound: the clock stops here

ASSUME HostCacheAssumption ==
    /\ MaxTime \in Nat
    /\ NoExpiry \notin Int

VARIABLES
    now,       \* the host's clock, in milliseconds
    store      \* store[k]: the entry of k, or Absent

hostVars == <<now, store>>

Deadline == Nat \cup {NoExpiry}

(***************************************************************************)
(* `by` and `due` are auxiliary: the call that wrote the value, and the    *)
(* absolute expiry (NoExpiry if none) asked for by the call that set the   *)
(* deadline.                                                               *)
(***************************************************************************)
Entry == [val : Val, deadline : Deadline, by : Writer, due : Deadline]

ASSUME AbsentAssumption == Absent \notin Entry

HostTypeOK ==
    /\ now \in 0 .. MaxTime
    /\ store \in [Key -> Entry \cup {Absent}]

HostInit ==
    /\ now = 0
    /\ store = [k \in Key |-> Absent]

Present(k) == store[k] # Absent

\* The host turns a relative TTL into a deadline when it gets the call.
DeadlineAfter(ttl) == IF ttl = NoExpiry THEN NoExpiry ELSE now + ttl

Put(k, v, ttl, w, due) ==
    store' = [store EXCEPT ![k] = [val |-> v, deadline |-> DeadlineAfter(ttl),
                                   by |-> w, due |-> due]]

Erase(K) == store' = [k \in Key |-> IF k \in K THEN Absent ELSE store[k]]

Renew(k, ttl, due) ==
    store' = [store EXCEPT ![k].deadline = DeadlineAfter(ttl), ![k].due = due]

\* incr: a missing key starts without expiry, an existing one keeps its own.
Count(k, v, w) ==
    store' = [store EXCEPT ![k] =
                 IF store[k] = Absent
                 THEN [val |-> v, deadline |-> NoExpiry, by |-> w, due |-> NoExpiry]
                 ELSE [store[k] EXCEPT !.val = v, !.by = w]]

Expired(k, t) ==
    /\ Present(k)
    /\ store[k].deadline # NoExpiry
    /\ store[k].deadline <= t

Tick ==
    /\ now < MaxTime
    /\ now' = now + 1
    /\ Erase({k \in Key : Expired(k, now + 1)})

\* "subject to the host's eviction policy"
Evict(k) ==
    /\ Present(k)
    /\ Erase({k})
    /\ UNCHANGED now
=============================================================================
