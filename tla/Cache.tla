------------------------------- MODULE Cache -------------------------------
(***************************************************************************)
(* The `fastedge::cache` builtin (builtins/cache.cpp) in every WASM        *)
(* instance of one POP, above the host cache they share.                   *)
(*                                                                         *)
(* JavaScript in an instance is single threaded: a call, or a promise      *)
(* reaction, runs to completion.  So each API function and each reaction   *)
(* handler is one action, with one exception: getOrSet calls the user's    *)
(* populate function from the middle of its body, and populate may call    *)
(* the cache again.  `stack[i]` holds the getOrSet calls of instance i     *)
(* whose populate is still on the C++ stack; no reaction runs until it is  *)
(* empty.  Instances interleave freely.                                    *)
(*                                                                         *)
(* A call is named by an element of Call, and so is the promise it makes.  *)
(* The user's promises (populate's, and value.arrayBuffer()'s) settle when *)
(* and how they like.                                                      *)
(***************************************************************************)
EXTENDS HostCache, FiniteSets, Sequences

CONSTANTS
    Instance,      \* WASM instances of the POP
    Call,          \* bound: the API calls of a behaviour
    None,          \* no call
    Threw,         \* the call threw instead of returning a promise
    Number,        \* the payloads the host can read as integers
    Prefix,        \* the key sets that share a prefix
    Options,       \* the WriteOptions callers pass
    Operations,    \* bound: the kinds of calls a behaviour makes
    AllocMayFail,  \* whether the engine may run out of memory
    MayAwait       \* whether populators await other cache promises

ASSUME CacheAssumption ==
    /\ Writer = Call
    /\ None \notin Call
    /\ Threw \notin Call
    /\ None # Threw
    /\ Number \subseteq Val
    /\ Prefix \subseteq SUBSET Key
    /\ Options \subseteq [kind : {"none", "relative", "expiresAt"}, n : Int]
    /\ Operations \subseteq {"plain", "set", "getOrSet"}
    /\ AllocMayFail \in BOOLEAN
    /\ MayAwait \in BOOLEAN

VARIABLES
    inflight,  \* INFLIGHT_MAP of each instance: key -> promise, or None
    damaged,   \* history: the entries <<i, k>> on which an operation failed
    promise,   \* promise[c]: the promise made by call c
    answer,    \* answer[c]: what call c gave its caller
    job,       \* job[c]: the reaction that will settle promise c
    stack,     \* stack[i]: the populate calls in progress, innermost first
    awaits     \* awaits[p]: the cache promises populator p waits for

jsVars == <<inflight, damaged, promise, answer, job, stack, awaits>>
vars == <<now, store, inflight, damaged, promise, answer, job, stack, awaits>>

-----------------------------------------------------------------------------
(* Promises and jobs *)

Reply == {"null", "undefined", "true", "false", "count"}

Promise ==
    [st : {"none", "pending", "rejected", "lost"}, val : {"none"}]
        \cup [st : {"fulfilled"}, val : Val \cup Reply]

Unmade == [st |-> "none", val |-> "none"]
Pending == [st |-> "pending", val |-> "none"]
Lost == [st |-> "lost", val |-> "none"]
Fulfilled(v) == [st |-> "fulfilled", val |-> v]
Rejected == [st |-> "rejected", val |-> "none"]

IsPending(p) == promise[p].st = "pending"

\* populating: populate is on the stack.  populate, bytes: reactions on
\* populate's promise, on arrayBuffer()'s.  stuck, orphan: an allocation failed
\* and no reaction is left, before inflight_delete was called or after.
FlightSteps == {"populating", "populate", "bytes", "stuck"}
Steps == FlightSteps \cup {"set", "orphan"}
Job == [step : Steps, inst : Instance, key : Key, ttl : Deadline, due : Deadline]
NoJob == [step |-> "none"]

Flying(p) == job[p].step \in FlightSteps

-----------------------------------------------------------------------------
(* WriteOptions: build_ttl_ms *)

Relative(o) == IF o.kind = "expiresAt" THEN o.n - now ELSE o.n
AnyOptions(o) == TRUE                     \* mutant: no positivity check
ValidOptions(o) == o.kind = "none" \/ Relative(o) > 0
TtlMs(o) == IF o.kind = "none" THEN NoExpiry ELSE Relative(o)
Due(o) == IF o.kind = "expiresAt" THEN o.n ELSE NoExpiry

-----------------------------------------------------------------------------
JsTypeOK ==
    /\ inflight \in [Instance -> [Key -> Call \cup {None}]]
    /\ damaged \subseteq Instance \X Key
    /\ promise \in [Call -> Promise]
    /\ answer \in [Call -> Call \cup {None, Threw}]
    /\ job \in [Call -> Job \cup {NoJob}]
    /\ stack \in [Instance -> Seq(Call)]
    /\ awaits \in [Call -> SUBSET Call]

\* Types; a deadline handed to the host is never before its clock began, so an
\* accepted TTL was positive when build_ttl_ms checked it.
TypeOK == HostTypeOK /\ JsTypeOK

Init ==
    /\ HostInit
    /\ inflight = [i \in Instance |-> [k \in Key |-> None]]
    /\ damaged = {}
    /\ promise = [c \in Call |-> Unmade]
    /\ answer = [c \in Call |-> None]
    /\ job = [c \in Call |-> NoJob]
    /\ stack = [i \in Instance |-> <<>>]
    /\ awaits = [c \in Call |-> {}]

Fresh(c) == answer[c] = None

\* The populators of instance i whose code may be making the next call.
Running(i) ==
    IF stack[i] # <<>>
    THEN {Head(stack[i])}
    ELSE {p \in Call : job[p].step = "populate" /\ job[p].inst = i}

\* The sets of populators of i that may go on to await the call's promise.
Awaiters(i) ==
    {{}} \cup IF MayAwait THEN {{p} : p \in Running(i)} ELSE {}

Await(W, p) ==
    awaits' = [w \in Call |-> IF w \in W THEN awaits[w] \cup {p} ELSE awaits[w]]

\* Call c returns a promise of its own, already settled.
Return(c, outcome) ==
    /\ answer' = [answer EXCEPT ![c] = c]
    /\ promise' = [promise EXCEPT ![c] = outcome]
    /\ UNCHANGED <<inflight, damaged, job, stack, awaits>>

ThrowSync(c) ==
    /\ answer' = [answer EXCEPT ![c] = Threw]
    /\ UNCHANGED <<now, store, inflight, damaged, promise, job, stack, awaits>>

HostFails(c) ==
    /\ Return(c, Rejected)
    /\ UNCHANGED hostVars

-----------------------------------------------------------------------------
(* Operations whose promise is settled when they return *)

Get(c, k) ==
    /\ Fresh(c)
    /\ \/ HostFails(c)
       \/ AllocMayFail /\ Present(k) /\ ThrowSync(c)
       \/ /\ Return(c, Fulfilled(IF Present(k) THEN store[k].val ELSE "null"))
          /\ UNCHANGED hostVars

Exists(c, k) ==
    /\ Fresh(c)
    /\ \/ HostFails(c)
       \/ /\ Return(c, Fulfilled(IF Present(k) THEN "true" ELSE "false"))
          /\ UNCHANGED hostVars

Delete(c, k) ==
    /\ Fresh(c)
    /\ \/ HostFails(c)
       \/ /\ Erase({k})
          /\ Return(c, Fulfilled("undefined"))
          /\ UNCHANGED now

\* Unlike set, expire insists on a TTL.
Expire(c, k, o) ==
    /\ Fresh(c)
    /\ \/ /\ ~ValidOptions(o) \/ o.kind = "none"
          /\ ThrowSync(c)
       \/ /\ ValidOptions(o)
          /\ o.kind # "none"
          /\ \/ HostFails(c)
             \/ /\ Present(k)
                /\ Renew(k, TtlMs(o), Due(o))
                /\ Return(c, Fulfilled("true"))
                /\ UNCHANGED now
             \/ /\ ~Present(k)
                /\ Return(c, Fulfilled("false"))
                /\ UNCHANGED hostVars

\* incr and decr; which number results is left open here (see RateLimit).
Incr(c, k) ==
    /\ Fresh(c)
    /\ \/ HostFails(c)
       \/ \E n \in Number :
             /\ Present(k) => store[k].val \in Number
             /\ Count(k, n, c)
             /\ Return(c, Fulfilled(n))
             /\ UNCHANGED now

Purge(c) ==
    /\ Fresh(c)
    /\ \/ HostFails(c)
       \/ /\ Erase(Key)
          /\ Return(c, Fulfilled("count"))
          /\ UNCHANGED now

PurgePrefix(c, K) ==
    /\ Fresh(c)
    /\ \/ HostFails(c)
       \/ /\ Erase(K)
          /\ Return(c, Fulfilled("count"))
          /\ UNCHANGED now

-----------------------------------------------------------------------------
(* set *)

\* Mutants: the outer promise is forgotten; the reaction can run again.
SettleSilently(p, outcome) ==
    /\ job' = [job EXCEPT ![p] = NoJob]
    /\ awaits' = [awaits EXCEPT ![p] = {}]
    /\ UNCHANGED <<promise, answer>>
SettleAgain(p, outcome) ==
    /\ promise' = [promise EXCEPT ![p] = outcome]
    /\ job' = job
    /\ UNCHANGED <<answer, awaits>>

\* Reaction handlers settle the outer promise p and are gone.
Settle(p, outcome) ==
    /\ promise' = [promise EXCEPT ![p] = outcome]
    /\ job' = [job EXCEPT ![p] = NoJob]
    /\ awaits' = [awaits EXCEPT ![p] = {}]
    /\ UNCHANGED answer

\* An allocation fails in a handler: the promise is left to no reaction.
Drop(p) ==
    /\ AllocMayFail
    /\ job' = [job EXCEPT ![p].step = "orphan"]
    /\ UNCHANGED <<promise, answer, awaits>>

\* No reaction of an instance runs while its JavaScript is on the stack.
Quiet(p) == stack[job[p].inst] = <<>>

SetThrows(c, o) ==
    /\ Fresh(c)
    /\ ~ValidOptions(o) \/ AllocMayFail
    /\ ThrowSync(c)

\* A string or a buffer is written at once (finish_set).
SetBytes(c, k, v, o) ==
    /\ Fresh(c)
    /\ ValidOptions(o)
    /\ \/ HostFails(c)
       \/ /\ Put(k, v, TtlMs(o), c, Due(o))
          /\ Return(c, Fulfilled("undefined"))
          /\ UNCHANGED now

\* Not a CacheValue, or its arrayBuffer() throws or returns no promise.
SetBadValue(c, o) ==
    /\ Fresh(c)
    /\ ValidOptions(o)
    /\ Return(c, Rejected)
    /\ UNCHANGED hostVars

\* A Response or a ReadableStream is written when its body has been read.
SetBody(c, i, W, k, o) ==
    /\ Fresh(c)
    /\ ValidOptions(o)
    /\ W \in Awaiters(i)
    /\ answer' = [answer EXCEPT ![c] = c]
    /\ promise' = [promise EXCEPT ![c] = Pending]
    /\ job' = [job EXCEPT ![c] =
          [step |-> "set", inst |-> i, key |-> k, ttl |-> TtlMs(o), due |-> Due(o)]]
    /\ Await(W, c)
    /\ UNCHANGED <<now, store, inflight, damaged, stack>>

\* set_then: the body's bytes; the host refuses, or they are no buffer.
SetThen(p, v) ==
    /\ job[p].step = "set"
    /\ Quiet(p)
    /\ \/ /\ Put(job[p].key, v, job[p].ttl, p, job[p].due)
          /\ Settle(p, Fulfilled("undefined")) \/ Drop(p)
          /\ UNCHANGED now
       \/ /\ Settle(p, Rejected) \/ Drop(p)
          /\ UNCHANGED hostVars
    /\ UNCHANGED <<inflight, damaged, stack>>

SetCatch(p) ==
    /\ job[p].step = "set"
    /\ Quiet(p)
    /\ Settle(p, Rejected) \/ Drop(p)
    /\ UNCHANGED <<now, store, inflight, damaged, stack>>

-----------------------------------------------------------------------------
(* getOrSet *)

GetOrSetThrows(c, o) ==
    /\ Fresh(c)
    /\ ~ValidOptions(o) \/ AllocMayFail
    /\ ThrowSync(c)

GetOrSetHit(c, k, o) ==
    /\ Fresh(c)
    /\ ValidOptions(o)
    /\ \/ HostFails(c)
       \/ /\ Present(k)
          /\ Return(c, Fulfilled(store[k].val))
          /\ UNCHANGED hostVars

\* A populator is running for k: its promise is this caller's too.
GetOrSetJoin(c, i, W, k, o) ==
    /\ Fresh(c)
    /\ ValidOptions(o)
    /\ ~Present(k)
    /\ inflight[i][k] # None
    /\ W \in Awaiters(i)
    /\ answer' = [answer EXCEPT ![c] = inflight[i][k]]
    /\ Await(W, inflight[i][k])
    /\ UNCHANGED <<now, store, inflight, damaged, promise, job, stack>>

RegisterNothing(c, i, k) == UNCHANGED inflight    \* mutant: no inflight_set
Register(c, i, k) == inflight' = [inflight EXCEPT ![i][k] = c]

\* inflight_get tells a failure and a missing entry alike: getOrSet goes on.
Miss(i, k) ==
    \/ inflight[i][k] = None /\ UNCHANGED damaged
    \/ /\ AllocMayFail
       /\ inflight[i][k] # None
       /\ damaged' = damaged \cup {<<i, k>>}

\* Up to the call of populate; an entry that Miss passed over is overwritten.
GetOrSetStart(c, i, W, k, o) ==
    /\ Fresh(c)
    /\ ValidOptions(o)
    /\ ~Present(k)
    /\ Miss(i, k)
    /\ W \in Awaiters(i)
    /\ answer' = [answer EXCEPT ![c] = c]
    /\ promise' = [promise EXCEPT ![c] = Pending]
    /\ Register(c, i, k)
    /\ job' = [job EXCEPT ![c] =
          [step |-> "populating", inst |-> i, key |-> k,
           ttl |-> TtlMs(o), due |-> Due(o)]]
    /\ stack' = [stack EXCEPT ![i] = <<c>> \o @]
    /\ Await(W, c)
    /\ UNCHANGED <<now, store>>

\* Mutant: no inflight_delete.
ReleaseNothing(p) == UNCHANGED <<inflight, damaged>>
\* inflight_delete: best effort, and whatever is registered for the key.
Release(p) ==
    \/ /\ inflight' = [inflight EXCEPT ![job[p].inst][job[p].key] = None]
       /\ UNCHANGED damaged
    \/ /\ AllocMayFail
       /\ damaged' = damaged \cup {<<job[p].inst, job[p].key>>}
       /\ UNCHANGED inflight

Pop(i) == stack' = [stack EXCEPT ![i] = Tail(@)]

\* populate threw: reject_and_finish.
PopulateThrows(i) ==
    /\ stack[i] # <<>>
    /\ Release(Head(stack[i]))
    /\ Settle(Head(stack[i]), Rejected)
    /\ Pop(i)
    /\ UNCHANGED <<now, store>>

\* populate returned; its (wrapped) promise gets the two reactions.
PopulateReturns(i) ==
    /\ stack[i] # <<>>
    /\ job' = [job EXCEPT ![Head(stack[i])].step = "populate"]
    /\ Pop(i)
    /\ UNCHANGED <<now, store, inflight, damaged, promise, answer, awaits>>

\* An allocation of getOrSet failed, before the call of populate or after it:
\* it throws, and nobody holds p's fate.
GetOrSetAborts(i) ==
    /\ AllocMayFail
    /\ stack[i] # <<>>
    /\ Release(Head(stack[i]))
    /\ answer' = [answer EXCEPT ![Head(stack[i])] = Threw]
    /\ job' = [job EXCEPT ![Head(stack[i])].step = "orphan"]
    /\ Pop(i)
    /\ UNCHANGED <<now, store, promise, awaits>>

\* The promise of populator p can settle: what it awaits has settled.
Ready(p) ==
    /\ job[p].step = "populate"
    /\ Quiet(p)
    /\ \A q \in awaits[p] : ~IsPending(q)

\* reject_and_finish, and populate_catch.
Reject(p) ==
    /\ Release(p)
    /\ Settle(p, Rejected) \/ Drop(p)
    /\ UNCHANGED <<now, store, stack>>

\* getOrSet_finalize
Finalize(p, v) ==
    \/ Reject(p)
    \/ /\ Put(job[p].key, v, job[p].ttl, p, job[p].due)
       /\ Release(p)
       /\ \/ Settle(p, Fulfilled(v))
          \/ AllocMayFail /\ Settle(p, Rejected)
          \/ Drop(p)
       /\ UNCHANGED <<now, stack>>

\* populate_then: null means "do not cache".
PopulateNull(p) ==
    /\ Ready(p)
    /\ Release(p)
    /\ Settle(p, Fulfilled("null")) \/ Drop(p)
    /\ UNCHANGED <<now, store, stack>>

\* populate_then: a string or a buffer.
PopulateBytes(p, v) ==
    /\ Ready(p)
    /\ Finalize(p, v)

\* The step of flight p becomes s; what its promise waited for is over.
GoOn(p, s) ==
    /\ job' = [job EXCEPT ![p].step = s]
    /\ awaits' = [awaits EXCEPT ![p] = {}]
    /\ UNCHANGED <<now, store, inflight, damaged, promise, answer, stack>>

\* populate_then: a Response or a stream, whose body is read next; if the state
\* cannot be read or the reactions cannot be allocated, the flight is left as
\* it is.
PopulateBody(p) ==
    /\ Ready(p)
    /\ GoOn(p, "bytes") \/ (AllocMayFail /\ GoOn(p, "stuck"))

\* populate_then: no CacheValue, or arrayBuffer() throws or is no promise.
PopulateBadValue(p) ==
    /\ Ready(p)
    /\ Reject(p)

PopulateCatch(p) ==
    /\ Ready(p)
    /\ Reject(p)

BytesThen(p, v) ==
    /\ job[p].step = "bytes"
    /\ Quiet(p)
    /\ \/ Finalize(p, v)
       \/ Reject(p)
       \/ AllocMayFail /\ GoOn(p, "stuck")

BytesCatch(p) ==
    /\ job[p].step = "bytes"
    /\ Quiet(p)
    /\ Reject(p)

-----------------------------------------------------------------------------
(* Instance i ends (its request is answered, or it is killed) and the next *)
(* request gets a fresh one: no memory survives, the host's store does.    *)
(* External: the host decides.                                             *)

Inhabits(p, i) == job[p] # NoJob /\ job[p].inst = i

InstanceEnds(i) ==
    /\ \/ \E p \in Call : Inhabits(p, i)
       \/ \E k \in Key : inflight[i][k] # None
    /\ inflight' = [inflight EXCEPT ![i] = [k \in Key |-> None]]
    /\ damaged' = damaged \ ({i} \X Key)
    /\ stack' = [stack EXCEPT ![i] = <<>>]
    /\ promise' = [p \in Call |-> IF Inhabits(p, i) THEN Lost ELSE promise[p]]
    /\ job' = [p \in Call |-> IF Inhabits(p, i) THEN NoJob ELSE job[p]]
    /\ awaits' = [p \in Call |-> IF Inhabits(p, i) THEN {} ELSE awaits[p]]
    /\ UNCHANGED <<now, store, answer>>

-----------------------------------------------------------------------------
HostStep ==
    /\ Tick \/ \E k \in Key : Evict(k)
    /\ UNCHANGED jsVars

PlainCall(c) ==
    /\ "plain" \in Operations
    /\ \/ \E k \in Key : Get(c, k) \/ Exists(c, k) \/ Delete(c, k) \/ Incr(c, k)
       \/ \E k \in Key, o \in Options : Expire(c, k, o)
       \/ Purge(c)
       \/ \E K \in Prefix : PurgePrefix(c, K)

SetCall(c) ==
    /\ "set" \in Operations
    /\ \E o \in Options :
        \/ SetThrows(c, o)
        \/ SetBadValue(c, o)
        \/ \E k \in Key, v \in Val : SetBytes(c, k, v, o)
        \/ \E i \in Instance, k \in Key : \E W \in Awaiters(i) : SetBody(c, i, W, k, o)

GetOrSetCall(c) ==
    /\ "getOrSet" \in Operations
    /\ \E o \in Options, k \in Key :
        \/ GetOrSetThrows(c, o)
        \/ GetOrSetHit(c, k, o)
        \/ \E i \in Instance : \E W \in Awaiters(i) :
              GetOrSetJoin(c, i, W, k, o) \/ GetOrSetStart(c, i, W, k, o)

SetSettles(p) == SetCatch(p) \/ \E v \in Val : SetThen(p, v)

PopulateSettles(p) ==
    \/ PopulateNull(p)
    \/ PopulateBody(p)
    \/ PopulateBadValue(p)
    \/ PopulateCatch(p)
    \/ \E v \in Val : PopulateBytes(p, v)

BytesSettle(p) == BytesCatch(p) \/ \E v \in Val : BytesThen(p, v)

PopulateLeaves(i) == PopulateThrows(i) \/ PopulateReturns(i) \/ GetOrSetAborts(i)

Next ==
    \/ HostStep
    \/ \E c \in Call : PlainCall(c) \/ SetCall(c) \/ GetOrSetCall(c)
    \/ \E p \in Call : SetSettles(p) \/ PopulateSettles(p) \/ BytesSettle(p)
    \/ \E i \in Instance : PopulateLeaves(i) \/ InstanceEnds(i)

\* The user's populate returns, the user's promises settle once they can, and
\* the event loop runs the reactions.  Callers owe nothing.
Fairness ==
    /\ \A i \in Instance : WF_vars(PopulateLeaves(i))
    /\ \A p \in Call : WF_vars(SetSettles(p))
    /\ \A p \in Call : WF_vars(PopulateSettles(p))
    /\ \A p \in Call : WF_vars(BytesSettle(p))

Spec == Init /\ [][Next]_vars

FairSpec == Spec /\ Fairness

-----------------------------------------------------------------------------
(* Safety *)

\* The in-flight map and the work in progress agree, in every instance: a key
\* maps to promise p exactly while p's populator, or the reading of its body,
\* is under way.  A missing or misplaced inflight_delete breaks this; so does an
\* inflight_get or inflight_delete that fails on the entry (damaged), but no
\* other failure does, and no other entry suffers.
InflightExact ==
    \A i \in Instance, k \in Key, p \in Call : <<i, k>> \notin damaged =>
        (inflight[i][k] = p <=> Flying(p) /\ job[p].inst = i /\ job[p].key = k)

\* "Concurrent callers for the same key in the same WASM instance share one
\* populate execution": no two are ever under way, re-entrant calls included,
\* unless the engine was out of memory when it looked up or deleted that entry.
OneFlightPerKey ==
    \A p, q \in Call :
        /\ Flying(p) /\ Flying(q)
        /\ job[p].inst = job[q].inst
        /\ job[p].key = job[q].key
        /\ <<job[p].inst, job[p].key>> \notin damaged
        => p = q

\* populate may call getOrSet, whose populate may call getOrSet ..., but each
\* nesting is on a key of its own, so the C++ stack cannot grow without bound;
\* a key is there twice only if its entry is damaged.
NestingOnDistinctKeys ==
    \A i \in Instance : \A m, n \in 1 .. Len(stack[i]) :
        /\ m # n
        /\ job[stack[i][m]].key = job[stack[i][n]].key
        => <<i, job[stack[i][m]].key>> \in damaged

\* Nothing in the cache stems from a call that was told it failed, or that is
\* still undecided: a rejection is not cached, null is not cached, and an entry
\* holds what the promise of its writer said.
StoredByFulfilled ==
    \A k \in Key : Present(k) =>
        promise[store[k].by] \in {Fulfilled(store[k].val), Fulfilled("undefined")}

\* A promise somebody holds, while pending, has a reaction to come: no path
\* through getOrSet or set drops its waiters.
PendingHasReaction ==
    \A c \in Call : answer[c] \in Call /\ IsPending(answer[c]) =>
        job[answer[c]].step \in {"populating", "populate", "bytes", "set"}

\* An entry written, or renewed, with { expiresAt } is gone at that time.
AbsoluteExpiry ==
    \A k \in Key : Present(k) /\ store[k].due # NoExpiry =>
        store[k].deadline # NoExpiry /\ store[k].deadline <= store[k].due

-----------------------------------------------------------------------------
(* What a step may never do *)

\* A value reaches the host in the very step that fulfils its writer's promise:
\* who has awaited a write finds it there, and it cannot land a second time,
\* or later, over something newer.
WriteSettlesItsPromise ==
    [][\A k \in Key :
          store'[k] # Absent /\ (store[k] = Absent \/ store'[k].by # store[k].by)
          => /\ promise[store'[k].by].st \in {"none", "pending"}
             /\ promise'[store'[k].by].st = "fulfilled"]_vars

\* Each waiter of a promise gets one outcome: a settled promise stays as it is.
SettledOnce ==
    [][\A p \in Call : promise[p].st \in {"fulfilled", "rejected", "lost"}
                           => promise'[p] = promise[p]]_vars

-----------------------------------------------------------------------------
(* Liveness *)

\* p belongs to populators that wait for one another's promises, or leads to
\* such a group.
WaitsForever(p) ==
    \E S \in SUBSET Call :
        /\ p \in S
        /\ \A q \in S : job[q].step = "populate" /\ awaits[q] \cap S # {}

\* Every promise the cache hands out settles (or its instance ends), unless
\* populators wait for one another in a cycle, which nothing in getOrSet detects.
EveryPromiseSettles ==
    \A c \in Call : IsPending(c) ~> (~IsPending(c) \/ WaitsForever(c))
=============================================================================
