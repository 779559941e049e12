---------------------------- MODULE CacheProofs ----------------------------
(***************************************************************************)
(* What holds of `fastedge::cache` for any number of instances, keys,      *)
(* values and calls, and, in the second half, that the builtin implements  *)
(* the contract: if memory does not run out, every step of Cache is, seen  *)
(* through the promises the callers hold, a step of SingleFlight or none.  *)
(* The value that stands for "no entry" is not one a caller is told.       *)
(***************************************************************************)
EXTENDS CacheRefinement, TLAPS

-----------------------------------------------------------------------------
(* Types: first what the host's operations and the promise operations give *)

LEMMA HostOpsTyped ==
    ASSUME HostTypeOK
    PROVE  /\ \A k \in Key, v \in Val, ttl \in Deadline, w \in Writer, due \in Deadline :
                  Put(k, v, ttl, w, due) => store' \in [Key -> Entry \cup {Absent}]
           /\ \A K : Erase(K) => store' \in [Key -> Entry \cup {Absent}]
           /\ \A k \in Key, ttl \in Deadline, due \in Deadline :
                  Present(k) /\ Renew(k, ttl, due)
                      => store' \in [Key -> Entry \cup {Absent}]
           /\ \A k \in Key, v \in Val, w \in Writer :
                  Count(k, v, w) => store' \in [Key -> Entry \cup {Absent}]
<1>1. now \in Nat
    BY HostCacheAssumption DEF HostTypeOK
<1>2. \A ttl \in Deadline : DeadlineAfter(ttl) \in Deadline
    BY <1>1 DEF DeadlineAfter, Deadline
<1>3. ASSUME NEW k \in Key, NEW v \in Val, NEW ttl \in Deadline, NEW w \in Writer,
             NEW due \in Deadline, Put(k, v, ttl, w, due)
      PROVE  store' \in [Key -> Entry \cup {Absent}]
    BY <1>2, <1>3 DEF Put, HostTypeOK, Entry
<1>4. ASSUME NEW K, Erase(K)
      PROVE  store' \in [Key -> Entry \cup {Absent}]
    BY <1>4 DEF Erase, HostTypeOK
<1>5. ASSUME NEW k \in Key, NEW ttl \in Deadline, NEW due \in Deadline,
             Present(k), Renew(k, ttl, due)
      PROVE  store' \in [Key -> Entry \cup {Absent}]
    <2>1. store[k] \in Entry
        BY <1>5 DEF Present, HostTypeOK
    <2>2. [store[k] EXCEPT !.deadline = DeadlineAfter(ttl), !.due = due] \in Entry
        BY <1>2, <2>1 DEF Entry
    <2> QED
        BY <1>5, <2>2 DEF Renew, HostTypeOK
<1>6. ASSUME NEW k \in Key, NEW v \in Val, NEW w \in Writer, Count(k, v, w)
      PROVE  store' \in [Key -> Entry \cup {Absent}]
    <2>1. ASSUME store[k] # Absent
          PROVE  [store[k] EXCEPT !.val = v, !.by = w] \in Entry
        BY <2>1 DEF HostTypeOK, Entry
    <2>2. [val |-> v, deadline |-> NoExpiry, by |-> w, due |-> NoExpiry] \in Entry
        BY DEF Entry, Deadline
    <2> QED
        BY <1>6, <2>1, <2>2 DEF Count, HostTypeOK
<1> QED
    BY <1>3, <1>4, <1>5, <1>6

LEMMA OptionsTyped ==
    ASSUME HostTypeOK, NEW o \in Options, ValidOptions(o)
    PROVE  TtlMs(o) \in Deadline /\ Due(o) \in Deadline
<1>1. now \in Nat
    BY HostCacheAssumption DEF HostTypeOK
<1>2. o \in [kind : {"none", "relative", "expiresAt"}, n : Int]
    BY CacheAssumption
<1> QED
    BY <1>1, <1>2 DEF ValidOptions, TtlMs, Due, Relative, Deadline

LEMMA OutcomesTyped ==
    /\ Unmade \in Promise
    /\ Pending \in Promise
    /\ Lost \in Promise
    /\ Rejected \in Promise
    /\ \A v \in Val \cup Reply : Fulfilled(v) \in Promise
BY DEF Promise, Unmade, Pending, Lost, Rejected, Fulfilled

LEMMA PromiseOpsTyped ==
    ASSUME JsTypeOK, NEW c \in Call
    PROVE  /\ \A outcome \in Promise : Return(c, outcome) => JsTypeOK'
           /\ HostFails(c) => JsTypeOK'
           /\ ThrowSync(c) => JsTypeOK'
           /\ \A outcome \in Promise : Settle(c, outcome) =>
                  /\ promise' \in [Call -> Promise]
                  /\ answer' \in [Call -> Call \cup {None, Threw}]
                  /\ job' \in [Call -> Job \cup {NoJob}]
                  /\ awaits' \in [Call -> SUBSET Call]
           /\ job[c] \in Job /\ Drop(c) =>
                  /\ promise' \in [Call -> Promise]
                  /\ answer' \in [Call -> Call \cup {None, Threw}]
                  /\ job' \in [Call -> Job \cup {NoJob}]
                  /\ awaits' \in [Call -> SUBSET Call]
           /\ \A W :
                  Await(W, c) => awaits' \in [Call -> SUBSET Call]
<1>1. ASSUME NEW outcome \in Promise, Return(c, outcome) PROVE JsTypeOK'
    BY <1>1 DEF Return, JsTypeOK
<1>2. ASSUME HostFails(c) PROVE JsTypeOK'
    BY <1>1, <1>2, OutcomesTyped DEF HostFails
<1>3. ASSUME ThrowSync(c) PROVE JsTypeOK'
    BY <1>3 DEF ThrowSync, JsTypeOK
<1>4. ASSUME NEW outcome \in Promise, Settle(c, outcome)
      PROVE  /\ promise' \in [Call -> Promise]
             /\ answer' \in [Call -> Call \cup {None, Threw}]
             /\ job' \in [Call -> Job \cup {NoJob}]
             /\ awaits' \in [Call -> SUBSET Call]
    BY <1>4 DEF Settle, JsTypeOK
<1>5. ASSUME NEW W, Await(W, c)
      PROVE  awaits' \in [Call -> SUBSET Call]
    BY <1>5 DEF Await, JsTypeOK
<1>6. ASSUME job[c] \in Job, Drop(c)
      PROVE  /\ promise' \in [Call -> Promise]
             /\ answer' \in [Call -> Call \cup {None, Threw}]
             /\ job' \in [Call -> Job \cup {NoJob}]
             /\ awaits' \in [Call -> SUBSET Call]
    BY <1>6 DEF Drop, JsTypeOK, Job, Steps
<1> QED
    BY <1>1, <1>2, <1>3, <1>4, <1>5, <1>6

\* The calls whose promise is settled when they return.
LEMMA PlainTyped ==
    ASSUME TypeOK, NEW c \in Call, PlainCall(c)
    PROVE  TypeOK'
<1> USE DEF TypeOK
<1>1. \A v \in Val \cup Reply : Return(c, Fulfilled(v)) => JsTypeOK'
    BY OutcomesTyped, PromiseOpsTyped
<1>2. HostFails(c) => TypeOK'
    BY PromiseOpsTyped DEF HostFails, hostVars, HostTypeOK
<1>3. \A K : Erase(K) /\ UNCHANGED now => HostTypeOK'
    BY HostOpsTyped DEF HostTypeOK
<1>4. ASSUME NEW k \in Key, Get(c, k) PROVE TypeOK'
    <2>1. Present(k) => store[k].val \in Val
        BY DEF Present, HostTypeOK, Entry
    <2> QED
        BY <1>1, <1>2, <1>4, <2>1, PromiseOpsTyped
        DEF Get, ThrowSync, hostVars, HostTypeOK, Reply
<1>5. ASSUME NEW k \in Key, Exists(c, k) PROVE TypeOK'
    BY <1>1, <1>2, <1>5 DEF Exists, hostVars, HostTypeOK, Reply
<1>6. ASSUME NEW k \in Key, Delete(c, k) PROVE TypeOK'
    BY <1>1, <1>2, <1>3, <1>6 DEF Delete, Reply
<1>7. ASSUME NEW k \in Key, NEW o \in Options, Expire(c, k, o) PROVE TypeOK'
    <2>1. CASE ThrowSync(c)
        BY <2>1, PromiseOpsTyped DEF ThrowSync, HostTypeOK
    <2>2. CASE HostFails(c)
        BY <1>2, <2>2
    <2>3. CASE /\ ValidOptions(o)
               /\ Present(k)
               /\ Renew(k, TtlMs(o), Due(o))
               /\ Return(c, Fulfilled("true"))
               /\ UNCHANGED now
        BY <1>1, <2>3, HostOpsTyped, OptionsTyped DEF HostTypeOK, Reply
    <2>4. CASE Return(c, Fulfilled("false")) /\ UNCHANGED hostVars
        BY <1>1, <2>4 DEF hostVars, HostTypeOK, Reply
    <2> QED
        BY <1>7, <2>1, <2>2, <2>3, <2>4 DEF Expire
<1>8. ASSUME NEW k \in Key, Incr(c, k) PROVE TypeOK'
    <2>1. ASSUME NEW n \in Number, Count(k, n, c), UNCHANGED now,
                 Return(c, Fulfilled(n))
          PROVE  TypeOK'
        BY <1>1, <2>1, HostOpsTyped, CacheAssumption DEF HostTypeOK
    <2> QED
        BY <1>2, <1>8, <2>1 DEF Incr
<1>9. ASSUME Purge(c) PROVE TypeOK'
    BY <1>1, <1>2, <1>3, <1>9 DEF Purge, Reply
<1>10. ASSUME NEW K \in Prefix, PurgePrefix(c, K) PROVE TypeOK'
    BY <1>1, <1>2, <1>3, <1>10 DEF PurgePrefix, Reply
<1> QED
    BY <1>4, <1>5, <1>6, <1>7, <1>8, <1>9, <1>10 DEF PlainCall

\* set: the call and its reactions.
LEMMA SetTyped ==
    ASSUME TypeOK, NEW c \in Call, SetCall(c) \/ SetSettles(c)
    PROVE  TypeOK'
<1> USE DEF TypeOK
<1>1. ASSUME NEW o \in Options, SetThrows(c, o) PROVE TypeOK'
    BY <1>1, PromiseOpsTyped DEF SetThrows, ThrowSync, HostTypeOK
<1>2. ASSUME NEW o \in Options, SetBadValue(c, o) PROVE TypeOK'
    BY <1>2, PromiseOpsTyped, OutcomesTyped DEF SetBadValue, hostVars, HostTypeOK
<1>3. ASSUME NEW o \in Options, NEW k \in Key, NEW v \in Val, SetBytes(c, k, v, o)
      PROVE  TypeOK'
    <2>1. CASE HostFails(c)
        BY <2>1, PromiseOpsTyped DEF HostFails, hostVars, HostTypeOK
    <2>2. CASE /\ Put(k, v, TtlMs(o), c, Due(o))
               /\ Return(c, Fulfilled("undefined"))
               /\ UNCHANGED now
        <3>1. HostTypeOK'
            BY <1>3, <2>2, HostOpsTyped, OptionsTyped, CacheAssumption
            DEF SetBytes, HostTypeOK
        <3>2. JsTypeOK'
            BY <2>2, PromiseOpsTyped, OutcomesTyped DEF Reply
        <3> QED
            BY <3>1, <3>2
    <2> QED
        BY <1>3, <2>1, <2>2 DEF SetBytes
<1>4. ASSUME NEW o \in Options, NEW i \in Instance, NEW k \in Key, NEW W,
             SetBody(c, i, W, k, o)
      PROVE  TypeOK'
    <2>1. [step |-> "set", inst |-> i, key |-> k, ttl |-> TtlMs(o), due |-> Due(o)] \in Job
        BY <1>4, OptionsTyped DEF SetBody, Job, Steps
    <2>2. awaits' \in [Call -> SUBSET Call]
        BY <1>4, PromiseOpsTyped DEF SetBody
    <2> QED
        BY <1>4, <2>1, <2>2, OutcomesTyped DEF SetBody, JsTypeOK, HostTypeOK
<1>5. ASSUME NEW v \in Val, SetThen(c, v) PROVE TypeOK'
    <2>1. job[c] \in Job
        BY <1>5 DEF SetThen, JsTypeOK, NoJob
    <2>2. HostTypeOK'
        <3>1. CASE Put(job[c].key, v, job[c].ttl, c, job[c].due) /\ UNCHANGED now
            BY <2>1, <3>1, HostOpsTyped, CacheAssumption DEF Job, HostTypeOK
        <3>2. CASE UNCHANGED hostVars
            BY <3>2 DEF HostTypeOK, hostVars
        <3> QED
            BY <1>5, <3>1, <3>2 DEF SetThen
    <2>3. Fulfilled("undefined") \in Promise
        BY OutcomesTyped DEF Reply
    <2>4. \/ \E outcome \in Promise : Settle(c, outcome)
          \/ Drop(c)
        BY <1>5, <2>3, OutcomesTyped DEF SetThen
    <2> QED
        BY <1>5, <2>1, <2>2, <2>4, PromiseOpsTyped DEF SetThen, JsTypeOK
<1>6. ASSUME SetCatch(c) PROVE TypeOK'
    <2>1. job[c] \in Job
        BY <1>6 DEF SetCatch, JsTypeOK, NoJob
    <2> QED
        BY <1>6, <2>1, PromiseOpsTyped, OutcomesTyped DEF SetCatch, JsTypeOK, HostTypeOK
<1> QED
    BY <1>1, <1>2, <1>3, <1>4, <1>5, <1>6 DEF SetCall, SetSettles

\* The calls of getOrSet.
LEMMA GetOrSetTyped ==
    ASSUME TypeOK, NEW c \in Call, GetOrSetCall(c)
    PROVE  TypeOK'
<1> USE DEF TypeOK
<1>1. ASSUME NEW o \in Options, GetOrSetThrows(c, o) PROVE TypeOK'
    BY <1>1, PromiseOpsTyped DEF GetOrSetThrows, ThrowSync, HostTypeOK
<1>2. ASSUME NEW o \in Options, NEW k \in Key, GetOrSetHit(c, k, o) PROVE TypeOK'
    <2>1. Present(k) => store[k].val \in Val
        BY DEF Present, HostTypeOK, Entry
    <2> QED
        BY <1>2, <2>1, PromiseOpsTyped, OutcomesTyped
        DEF GetOrSetHit, HostFails, hostVars, HostTypeOK
<1>3. ASSUME NEW o \in Options, NEW k \in Key, NEW i \in Instance, NEW W,
             GetOrSetJoin(c, i, W, k, o)
      PROVE  TypeOK'
    <2>1. inflight[i][k] \in Call
        BY <1>3 DEF GetOrSetJoin, JsTypeOK
    <2>2. awaits' \in [Call -> SUBSET Call]
        BY <1>3, <2>1, PromiseOpsTyped DEF GetOrSetJoin
    <2> QED
        BY <1>3, <2>1, <2>2 DEF GetOrSetJoin, JsTypeOK, HostTypeOK
<1>4. ASSUME NEW o \in Options, NEW k \in Key, NEW i \in Instance, NEW W,
             GetOrSetStart(c, i, W, k, o)
      PROVE  TypeOK'
    <2>1. [step |-> "populating", inst |-> i, key |-> k,
           ttl |-> TtlMs(o), due |-> Due(o)] \in Job
        BY <1>4, OptionsTyped DEF GetOrSetStart, Job, Steps, FlightSteps
    <2>2. awaits' \in [Call -> SUBSET Call]
        BY <1>4, PromiseOpsTyped DEF GetOrSetStart
    <2>3. stack' \in [Instance -> Seq(Call)]
        BY <1>4 DEF GetOrSetStart, JsTypeOK
    <2>4. inflight' \in [Instance -> [Key -> Call \cup {None}]]
        BY <1>4 DEF GetOrSetStart, Register, JsTypeOK
    <2>5. damaged' \subseteq Instance \X Key
        BY <1>4 DEF GetOrSetStart, Miss, JsTypeOK
    <2> QED
        BY <1>4, <2>1, <2>2, <2>3, <2>4, <2>5, OutcomesTyped
        DEF GetOrSetStart, JsTypeOK, HostTypeOK
<1> QED
    BY <1>1, <1>2, <1>3, <1>4 DEF GetOrSetCall

\* The end of a getOrSet flight.
LEMMA ReleaseTyped ==
    ASSUME JsTypeOK, NEW p \in Call, job[p] \in Job, Release(p)
    PROVE  /\ inflight' \in [Instance -> [Key -> Call \cup {None}]]
           /\ damaged' \subseteq Instance \X Key
<1>1. job[p].inst \in Instance /\ job[p].key \in Key
    BY DEF Job
<1>2. inflight' \in [Instance -> [Key -> Call \cup {None}]]
    <2>1. CASE UNCHANGED inflight
        BY <2>1 DEF JsTypeOK
    <2>2. CASE inflight' = [inflight EXCEPT ![job[p].inst][job[p].key] = None]
        BY <1>1, <2>2 DEF JsTypeOK
    <2> QED
        BY <2>1, <2>2 DEF Release
<1>3. damaged' \subseteq Instance \X Key
    BY <1>1 DEF Release, JsTypeOK
<1> QED
    BY <1>2, <1>3

LEMMA StepTyped ==
    ASSUME JsTypeOK, NEW p \in Call, job[p] \in Job, NEW s \in Steps,
           job' = [job EXCEPT ![p].step = s]
    PROVE  job' \in [Call -> Job \cup {NoJob}]
BY DEF JsTypeOK, Job

LEMMA RejectTyped ==
    ASSUME TypeOK, NEW p \in Call, job[p] \in Job, Reject(p)
    PROVE  TypeOK'
BY ReleaseTyped, PromiseOpsTyped, OutcomesTyped DEF Reject, TypeOK, JsTypeOK, HostTypeOK

LEMMA FinalizeTyped ==
    ASSUME TypeOK, NEW p \in Call, job[p] \in Job, NEW v \in Val, Finalize(p, v)
    PROVE  TypeOK'
<1>1. CASE Reject(p)
    BY <1>1, RejectTyped
<1>2. CASE /\ Put(job[p].key, v, job[p].ttl, p, job[p].due)
           /\ Release(p)
           /\ Settle(p, Fulfilled(v)) \/ Settle(p, Rejected) \/ Drop(p)
           /\ UNCHANGED <<now, stack>>
    <2>1. HostTypeOK'
        BY <1>2, HostOpsTyped, CacheAssumption DEF TypeOK, HostTypeOK, Job
    <2>2. JsTypeOK'
        BY <1>2, ReleaseTyped, PromiseOpsTyped, OutcomesTyped DEF TypeOK, JsTypeOK
    <2> QED
        BY <2>1, <2>2 DEF TypeOK
<1> QED
    BY <1>1, <1>2 DEF Finalize

LEMMA ReactionsTyped ==
    ASSUME TypeOK, NEW p \in Call, PopulateSettles(p) \/ BytesSettle(p)
    PROVE  TypeOK'
<1>1. job[p] \in Job
    BY DEF PopulateSettles, BytesSettle, PopulateNull, PopulateBody, PopulateBadValue,
           PopulateCatch, PopulateBytes, BytesCatch, BytesThen, Ready,
           TypeOK, JsTypeOK, NoJob
<1>2. CASE PopulateNull(p)
    BY <1>1, <1>2, ReleaseTyped, PromiseOpsTyped, OutcomesTyped
    DEF PopulateNull, Reply, TypeOK, JsTypeOK, HostTypeOK
<1>3. ASSUME NEW s \in FlightSteps, GoOn(p, s) PROVE TypeOK'
    <2>1. job' \in [Call -> Job \cup {NoJob}]
        BY <1>1, <1>3, StepTyped DEF GoOn, TypeOK, Steps
    <2> QED
        BY <1>3, <2>1 DEF GoOn, TypeOK, JsTypeOK, HostTypeOK
<1>4. CASE Reject(p)
    BY <1>1, <1>4, RejectTyped
<1>5. ASSUME NEW v \in Val, Finalize(p, v) PROVE TypeOK'
    BY <1>1, <1>5, FinalizeTyped
<1> QED
    BY <1>2, <1>3, <1>4, <1>5
    DEF PopulateSettles, BytesSettle, PopulateBody, PopulateBadValue, PopulateCatch,
        PopulateBytes, BytesCatch, BytesThen, FlightSteps

\* populate throws or returns, or an allocation fails behind it.
LEMMA LeavesTyped ==
    ASSUME TypeOK, NEW i \in Instance, PopulateLeaves(i),
           job[Head(stack[i])] \in Job
    PROVE  TypeOK'
<1>1. stack[i] \in Seq(Call) /\ stack[i] # <<>>
    BY DEF PopulateLeaves, PopulateThrows, PopulateReturns, GetOrSetAborts, TypeOK, JsTypeOK
<1> DEFINE p == Head(stack[i])
<1>2. p \in Call /\ Tail(stack[i]) \in Seq(Call)
    BY <1>1
<1>3. Pop(i) => stack' \in [Instance -> Seq(Call)]
    BY <1>2 DEF Pop, TypeOK, JsTypeOK
<1>4. CASE PopulateThrows(i)
    BY <1>2, <1>3, <1>4, ReleaseTyped, PromiseOpsTyped, OutcomesTyped
    DEF PopulateThrows, TypeOK, JsTypeOK, HostTypeOK
<1>5. CASE PopulateReturns(i)
    <2>1. job' \in [Call -> Job \cup {NoJob}]
        BY <1>2, <1>5, StepTyped DEF PopulateReturns, TypeOK, Steps, FlightSteps
    <2> QED
        BY <1>3, <1>5, <2>1 DEF PopulateReturns, TypeOK, JsTypeOK, HostTypeOK
<1>6. CASE GetOrSetAborts(i)
    <2>1. job' \in [Call -> Job \cup {NoJob}]
        BY <1>2, <1>6, StepTyped DEF GetOrSetAborts, TypeOK, Steps
    <2> QED
        BY <1>2, <1>3, <1>6, <2>1, ReleaseTyped
        DEF GetOrSetAborts, TypeOK, JsTypeOK, HostTypeOK
<1> QED
    BY <1>4, <1>5, <1>6 DEF PopulateLeaves

LEMMA EndsTyped ==
    ASSUME TypeOK, NEW i \in Instance, InstanceEnds(i)
    PROVE  TypeOK'
BY OutcomesTyped DEF InstanceEnds, TypeOK, JsTypeOK, HostTypeOK

LEMMA HostStepTyped ==
    ASSUME TypeOK, HostStep
    PROVE  TypeOK'
<1>1. JsTypeOK'
    BY DEF HostStep, jsVars, TypeOK, JsTypeOK
<1>2. CASE Tick
    <2>1. now' \in 0 .. MaxTime
        BY <1>2, HostCacheAssumption DEF Tick, TypeOK, HostTypeOK
    <2> QED
        BY <1>1, <1>2, <2>1, HostOpsTyped DEF Tick, TypeOK, HostTypeOK
<1>3. ASSUME NEW k \in Key, Evict(k) PROVE TypeOK'
    BY <1>1, <1>3, HostOpsTyped DEF Evict, TypeOK, HostTypeOK
<1> QED
    BY <1>2, <1>3 DEF HostStep

-----------------------------------------------------------------------------
(* The inductive invariant *)

\* A call that was not made yet left nothing behind.
FreshIdle ==
    \A c \in Call : Fresh(c) => promise[c] = Unmade /\ job[c] = NoJob

\* A promise with work to come is pending, so only that work can settle it.
JobsPending ==
    \A c \in Call : job[c] # NoJob => promise[c] = Pending

\* The C++ stack of an instance holds populators of that instance whose
\* populate has not returned, each of them once.
StackOfPopulators ==
    \A i \in Instance : \A m \in 1 .. Len(stack[i]) :
        /\ job[stack[i][m]].step = "populating"
        /\ job[stack[i][m]].inst = i
        /\ \A n \in 1 .. Len(stack[i]) : stack[i][m] = stack[i][n] => m = n

\* Only for want of memory does an operation on INFLIGHT_MAP fail.
DamageNeedsFailure == damaged # {} => AllocMayFail

FlightInv ==
    /\ FreshIdle
    /\ JobsPending
    /\ StackOfPopulators
    /\ DamageNeedsFailure
    /\ InflightExact

IInv == TypeOK /\ FlightInv

\* A call that is over when it returns touches no flight.
LEMMA AnsweredAtOnce ==
    ASSUME TypeOK, NEW c \in Call,
           \/ PlainCall(c)
           \/ \E o \in Options :
                 \/ SetThrows(c, o) \/ SetBadValue(c, o) \/ GetOrSetThrows(c, o)
                 \/ \E k \in Key, v \in Val : SetBytes(c, k, v, o)
                 \/ \E k \in Key : GetOrSetHit(c, k, o)
    PROVE  /\ Fresh(c)
           /\ \/ ThrowSync(c)
              \/ Return(c, Rejected)
              \/ \E v \in Val \cup Reply : Return(c, Fulfilled(v))
<1>1. \A k \in Key : Present(k) => store[k].val \in Val
    BY DEF Present, TypeOK, HostTypeOK, Entry
<1>2. CASE PlainCall(c)
    BY <1>1, <1>2, CacheAssumption
    DEF PlainCall, Get, Exists, Delete, Expire, Incr, Purge, PurgePrefix, HostFails, Reply
<1>3. CASE \E o \in Options :
              \/ SetThrows(c, o) \/ SetBadValue(c, o) \/ GetOrSetThrows(c, o)
              \/ \E k \in Key, v \in Val : SetBytes(c, k, v, o)
              \/ \E k \in Key : GetOrSetHit(c, k, o)
    BY <1>1, <1>3
    DEF SetThrows, SetBadValue, GetOrSetThrows, SetBytes, GetOrSetHit, HostFails, Reply
<1> QED
    BY <1>2, <1>3

LEMMA AnswerKeepsFlights ==
    ASSUME IInv, NEW c \in Call, Fresh(c),
           ThrowSync(c) \/ \E outcome : Return(c, outcome)
    PROVE  FlightInv'
<1>1. /\ answer'[c] # None
      /\ \A d \in Call : d # c => answer'[d] = answer[d] /\ promise'[d] = promise[d]
      /\ UNCHANGED <<inflight, damaged, job, stack, awaits>>
    <2>1. CASE ThrowSync(c)
        BY <2>1, CacheAssumption DEF IInv, TypeOK, JsTypeOK, ThrowSync
    <2>2. ASSUME NEW outcome, Return(c, outcome)
          PROVE  /\ answer'[c] # None
                 /\ \A d \in Call :
                       d # c => answer'[d] = answer[d] /\ promise'[d] = promise[d]
                 /\ UNCHANGED <<inflight, damaged, job, stack, awaits>>
        BY <2>2, CacheAssumption DEF IInv, TypeOK, JsTypeOK, Return
    <2> QED
        BY <2>1, <2>2
<1>2. FreshIdle'
    BY <1>1 DEF IInv, FlightInv, FreshIdle, Fresh
<1>3. JobsPending'
    BY <1>1 DEF IInv, FlightInv, JobsPending, FreshIdle
<1>4. StackOfPopulators' /\ DamageNeedsFailure' /\ InflightExact'
    BY <1>1
    DEF IInv, FlightInv, StackOfPopulators, DamageNeedsFailure, InflightExact, Flying
<1> QED
    BY <1>2, <1>3, <1>4 DEF FlightInv

\* What a step of job p leaves alone.
OnlyJob(p) ==
    /\ \A q \in Call \ {p} :
          job'[q] = job[q] /\ promise'[q] = promise[q] /\ (Fresh(q)' <=> Fresh(q))
    /\ answer'[p] # None
    /\ job'[p] # NoJob => promise'[p] = Pending

LEMMA OnlyJobKeepsPromises ==
    ASSUME IInv, NEW p \in Call, OnlyJob(p)
    PROVE  FreshIdle' /\ JobsPending'
BY DEF OnlyJob, IInv, FlightInv, FreshIdle, JobsPending, Fresh

\* The entry of a flight leaves INFLIGHT_MAP in the step that ends the flight,
\* or is damaged by it.
LEMMA ReleaseExact ==
    ASSUME IInv, NEW p \in Call, OnlyJob(p), Flying(p), Release(p), ~Flying(p)'
    PROVE  InflightExact' /\ DamageNeedsFailure'
<1>1. job[p].inst \in Instance /\ job[p].key \in Key
    BY DEF IInv, TypeOK, JsTypeOK, Flying, FlightSteps, NoJob, Job
<1>2. DamageNeedsFailure' /\ damaged \subseteq damaged'
    BY DEF Release, IInv, FlightInv, DamageNeedsFailure
<1>3. ASSUME NEW i \in Instance, NEW k \in Key, <<i, k>> \notin damaged', NEW q \in Call
      PROVE  inflight'[i][k] = q <=> Flying(q)' /\ job'[q].inst = i /\ job'[q].key = k
    <2>1. \A r \in Call :
             inflight[i][k] = r <=> Flying(r) /\ job[r].inst = i /\ job[r].key = k
        BY <1>2, <1>3 DEF IInv, FlightInv, InflightExact
    <2>2. inflight'[i][k] =
             IF i = job[p].inst /\ k = job[p].key THEN None ELSE inflight[i][k]
        BY <1>1, <1>3 DEF Release, IInv, TypeOK, JsTypeOK
    <2>3. CASE q = p
        BY <2>1, <2>2, <2>3, CacheAssumption
    <2>4. CASE q # p
        BY <1>1, <2>1, <2>2, <2>4, CacheAssumption DEF OnlyJob, Flying
    <2> QED
        BY <2>3, <2>4
<1> QED
    BY <1>2, <1>3 DEF InflightExact

\* A flight that goes on to its next step, and work that is no flight, leave
\* INFLIGHT_MAP alone.
LEMMA StepExact ==
    ASSUME IInv, NEW p \in Call, OnlyJob(p), UNCHANGED <<inflight, damaged>>,
           Flying(p)' <=> Flying(p),
           Flying(p) => job'[p].inst = job[p].inst /\ job'[p].key = job[p].key
    PROVE  InflightExact' /\ DamageNeedsFailure'
BY DEF IInv, FlightInv, InflightExact, DamageNeedsFailure, OnlyJob, Flying

LEMMA StackUntouched ==
    ASSUME IInv, NEW p \in Call, OnlyJob(p), UNCHANGED stack, job[p].step # "populating"
    PROVE  StackOfPopulators'
<1>1. ASSUME NEW i \in Instance, NEW m \in 1 .. Len(stack[i])
      PROVE  stack[i][m] \in Call /\ stack[i][m] # p
    BY DEF IInv, TypeOK, JsTypeOK, FlightInv, StackOfPopulators
<1> QED
    BY <1>1 DEF IInv, FlightInv, StackOfPopulators, OnlyJob

\* The innermost populator leaves the stack; the others stay as they are.
LEMMA HeadOfStack ==
    ASSUME IInv, NEW i \in Instance, stack[i] # <<>>
    PROVE  /\ Head(stack[i]) \in Call
           /\ job[Head(stack[i])] \in Job
           /\ job[Head(stack[i])].step = "populating"
           /\ job[Head(stack[i])].inst = i
<1>1. stack[i] \in Seq(Call) /\ Len(stack[i]) \in Nat \ {0} /\ Head(stack[i]) = stack[i][1]
    BY DEF IInv, TypeOK, JsTypeOK
<1> QED
    BY <1>1 DEF IInv, TypeOK, JsTypeOK, FlightInv, StackOfPopulators, NoJob

LEMMA PopKeepsStack ==
    ASSUME IInv, NEW i \in Instance, stack[i] # <<>>, Pop(i), OnlyJob(Head(stack[i]))
    PROVE  StackOfPopulators'
<1> DEFINE p == Head(stack[i])
<1>1. stack \in [Instance -> Seq(Call)]
    BY DEF IInv, TypeOK, JsTypeOK
<1>2. Len(stack[i]) \in Nat \ {0} /\ p = stack[i][1] /\ p \in Call
    BY <1>1
<1>3. /\ stack'[i] = Tail(stack[i])
      /\ \A j \in Instance \ {i} : stack'[j] = stack[j]
    BY <1>1 DEF Pop
<1>4. /\ Len(stack'[i]) = Len(stack[i]) - 1
      /\ \A m \in 1 .. Len(stack'[i]) : stack'[i][m] = stack[i][m + 1]
    BY <1>1, <1>2, <1>3
<1>5. ASSUME NEW m \in 1 .. Len(stack'[i])
      PROVE  /\ job'[stack'[i][m]].step = "populating"
             /\ job'[stack'[i][m]].inst = i
             /\ \A n \in 1 .. Len(stack'[i]) : stack'[i][m] = stack'[i][n] => m = n
    <2>1. m + 1 \in 1 .. Len(stack[i]) /\ 1 \in 1 .. Len(stack[i]) /\ m + 1 # 1
        BY <1>2, <1>4
    <2>2. stack[i][m + 1] # p /\ stack[i][m + 1] \in Call
        BY <1>1, <1>2, <2>1 DEF IInv, FlightInv, StackOfPopulators
    <2>3. job'[stack'[i][m]] = job[stack[i][m + 1]]
        BY <1>4, <2>2 DEF OnlyJob
    <2>4. ASSUME NEW n \in 1 .. Len(stack'[i]), stack'[i][m] = stack'[i][n]
          PROVE  m = n
        <3>1. n + 1 \in 1 .. Len(stack[i])
            BY <1>2, <1>4
        <3>2. m + 1 = n + 1
            <4>1. \A a, b \in 1 .. Len(stack[i]) : stack[i][a] = stack[i][b] => a = b
                BY DEF IInv, FlightInv, StackOfPopulators
            <4> QED
                BY <1>4, <2>1, <2>4, <3>1, <4>1
        <3> QED
            BY <3>2, <1>2, <1>4
    <2> QED
        BY <2>1, <2>3, <2>4 DEF IInv, FlightInv, StackOfPopulators
<1>6. ASSUME NEW j \in Instance, j # i, NEW m \in 1 .. Len(stack'[j])
      PROVE  /\ job'[stack'[j][m]].step = "populating"
             /\ job'[stack'[j][m]].inst = j
             /\ \A n \in 1 .. Len(stack'[j]) : stack'[j][m] = stack'[j][n] => m = n
    <2>1. stack'[j] = stack[j]
        BY <1>3, <1>6
    <2>2. stack[j][m] \in Call /\ job[stack[j][m]].inst = j /\ job[p].inst = i
        BY <1>1, <2>1, HeadOfStack DEF IInv, FlightInv, StackOfPopulators
    <2>3. job'[stack[j][m]] = job[stack[j][m]]
        BY <1>6, <2>2 DEF OnlyJob
    <2> QED
        BY <2>1, <2>3 DEF IInv, FlightInv, StackOfPopulators
<1> QED
    BY <1>5, <1>6 DEF StackOfPopulators

LEMMA FreshHasNoJob ==
    ASSUME IInv, NEW c \in Call, Fresh(c)
    PROVE  job[c] = NoJob /\ job[c].step = "none" /\ promise[c] = Unmade
BY DEF IInv, FlightInv, FreshIdle, NoJob

LEMMA SetBodyKeepsFlights ==
    ASSUME IInv, NEW c \in Call, NEW i \in Instance, NEW k \in Key, NEW o \in Options,
           NEW W, SetBody(c, i, W, k, o)
    PROVE  FlightInv'
<1>1. Fresh(c) /\ job[c].step = "none"
    BY FreshHasNoJob DEF SetBody
<1>2. OnlyJob(c) /\ job'[c].step = "set"
    BY CacheAssumption DEF SetBody, OnlyJob, IInv, TypeOK, JsTypeOK, Fresh
<1>3. ~Flying(c) /\ ~Flying(c)'
    BY <1>1, <1>2 DEF Flying, FlightSteps
<1>4. InflightExact' /\ DamageNeedsFailure'
    BY <1>2, <1>3, StepExact DEF SetBody
<1>5. StackOfPopulators'
    BY <1>1, <1>2, StackUntouched DEF SetBody
<1> QED
    BY <1>2, <1>4, <1>5, OnlyJobKeepsPromises DEF FlightInv

\* A caller that joins a flight changes only its own answer.
LEMMA JoinKeepsFlights ==
    ASSUME IInv, NEW c \in Call, NEW i \in Instance, NEW k \in Key, NEW o \in Options,
           NEW W, GetOrSetJoin(c, i, W, k, o)
    PROVE  FlightInv'
<1>1. FreshIdle'
    BY CacheAssumption
    DEF GetOrSetJoin, IInv, TypeOK, JsTypeOK, FlightInv, FreshIdle, Fresh
<1>2. JobsPending' /\ StackOfPopulators' /\ DamageNeedsFailure' /\ InflightExact'
    BY DEF GetOrSetJoin, IInv, FlightInv, JobsPending, StackOfPopulators,
           DamageNeedsFailure, InflightExact, Flying
<1> QED
    BY <1>1, <1>2 DEF FlightInv

LEMMA StartKeepsFlights ==
    ASSUME IInv, NEW c \in Call, NEW i \in Instance, NEW k \in Key, NEW o \in Options,
           NEW W, GetOrSetStart(c, i, W, k, o)
    PROVE  FlightInv'
<1>1. Fresh(c) /\ job[c].step = "none"
    BY FreshHasNoJob DEF GetOrSetStart
<1>2. /\ OnlyJob(c)
      /\ job'[c].step = "populating" /\ job'[c].inst = i /\ job'[c].key = k
    BY CacheAssumption DEF GetOrSetStart, OnlyJob, IInv, TypeOK, JsTypeOK, Fresh
<1>3. ~Flying(c) /\ Flying(c)'
    BY <1>1, <1>2 DEF Flying, FlightSteps
<1>4. InflightExact' /\ DamageNeedsFailure'
    <2>1. \A j \in Instance, l \in Key :
             inflight'[j][l] = IF j = i /\ l = k THEN c ELSE inflight[j][l]
        BY DEF GetOrSetStart, Register, IInv, TypeOK, JsTypeOK
    <2>2. <<i, k>> \notin damaged' => inflight[i][k] = None
        BY DEF GetOrSetStart, Miss
    <2>3. DamageNeedsFailure' /\ damaged \subseteq damaged'
        BY DEF GetOrSetStart, Miss, IInv, FlightInv, DamageNeedsFailure
    <2>4. ASSUME NEW j \in Instance, NEW l \in Key, <<j, l>> \notin damaged', NEW q \in Call
          PROVE  inflight'[j][l] = q <=> Flying(q)' /\ job'[q].inst = j /\ job'[q].key = l
        <3>1. inflight[j][l] = q <=> Flying(q) /\ job[q].inst = j /\ job[q].key = l
            BY <2>3, <2>4 DEF IInv, FlightInv, InflightExact
        <3>2. CASE q = c
            BY <1>2, <1>3, <2>1, <3>1, <3>2
        <3>3. CASE q # c
            BY <1>2, <2>1, <2>2, <2>4, <3>1, <3>3, CacheAssumption DEF OnlyJob, Flying
        <3> QED
            BY <3>2, <3>3
    <2> QED
        BY <2>3, <2>4 DEF InflightExact
<1>5. StackOfPopulators'
    <2>1. stack \in [Instance -> Seq(Call)]
        BY DEF IInv, TypeOK, JsTypeOK
    <2>2. /\ stack'[i] = <<c>> \o stack[i]
          /\ \A j \in Instance \ {i} : stack'[j] = stack[j]
        BY <2>1 DEF GetOrSetStart
    <2>3. /\ Len(stack[i]) \in Nat
          /\ Len(stack'[i]) = Len(stack[i]) + 1
          /\ stack'[i][1] = c
          /\ \A m \in 2 .. Len(stack'[i]) :
                m - 1 \in 1 .. Len(stack[i]) /\ stack'[i][m] = stack[i][m - 1]
        BY <2>1, <2>2
    <2>4. \A j \in Instance : \A m \in 1 .. Len(stack[j]) :
             /\ stack[j][m] \in Call \ {c}
             /\ job'[stack[j][m]] = job[stack[j][m]]
        BY <1>1, <1>2, <2>1 DEF IInv, FlightInv, StackOfPopulators, OnlyJob
    <2>5. ASSUME NEW m \in 1 .. Len(stack'[i])
          PROVE  /\ job'[stack'[i][m]].step = "populating"
                 /\ job'[stack'[i][m]].inst = i
                 /\ \A n \in 1 .. Len(stack'[i]) : stack'[i][m] = stack'[i][n] => m = n
        <3>1. CASE m = 1
            <4>1. ASSUME NEW n \in 2 .. Len(stack'[i]) PROVE stack'[i][n] # c
                <5>1. n - 1 \in 1 .. Len(stack[i]) /\ stack'[i][n] = stack[i][n - 1]
                    BY <2>3
                <5> QED
                    BY <2>4, <5>1
            <4> QED
                BY <1>2, <2>3, <3>1, <4>1
        <3>2. CASE m \in 2 .. Len(stack'[i])
            <4>1. m - 1 \in 1 .. Len(stack[i]) /\ stack'[i][m] = stack[i][m - 1]
                BY <2>3, <3>2
            <4>2. ASSUME NEW n \in 2 .. Len(stack'[i]), stack'[i][m] = stack'[i][n]
                  PROVE  m = n
                <5>1. n - 1 \in 1 .. Len(stack[i]) /\ stack'[i][n] = stack[i][n - 1]
                    BY <2>3
                <5>2. \A a \in 1 .. Len(stack[i]), b \in 1 .. Len(stack[i]) :
                         stack[i][a] = stack[i][b] => a = b
                    BY DEF IInv, FlightInv, StackOfPopulators
                <5>3. m - 1 = n - 1
                    BY <4>1, <4>2, <5>1, <5>2
                <5> QED
                    BY <2>3, <3>2, <5>3
            <4>3. stack'[i][m] # stack'[i][1]
                BY <2>3, <2>4, <4>1
            <4> QED
                BY <2>3, <2>4, <4>1, <4>2, <4>3 DEF IInv, FlightInv, StackOfPopulators
        <3> QED
            BY <2>3, <3>1, <3>2
    <2>6. ASSUME NEW j \in Instance \ {i}, NEW m \in 1 .. Len(stack'[j])
          PROVE  /\ job'[stack'[j][m]].step = "populating"
                 /\ job'[stack'[j][m]].inst = j
                 /\ \A n \in 1 .. Len(stack'[j]) : stack'[j][m] = stack'[j][n] => m = n
        BY <2>2, <2>4 DEF IInv, FlightInv, StackOfPopulators
    <2> QED
        BY <2>5, <2>6 DEF StackOfPopulators
<1> QED
    BY <1>2, <1>4, <1>5, OnlyJobKeepsPromises DEF FlightInv

\* A reaction settles promise p, or drops it for want of memory.
LEMMA SettleOnlyJob ==
    ASSUME IInv, NEW p \in Call, job[p] # NoJob, NEW outcome, Settle(p, outcome)
    PROVE  OnlyJob(p) /\ ~Flying(p)'
<1>1. ~Fresh(p)
    BY DEF IInv, FlightInv, FreshIdle
<1> QED
    BY <1>1 DEF Settle, OnlyJob, IInv, TypeOK, JsTypeOK, Fresh, Flying, FlightSteps, NoJob

LEMMA StepOnlyJob ==
    ASSUME IInv, NEW p \in Call, job[p] # NoJob, NEW s \in Steps,
           job' = [job EXCEPT ![p].step = s], UNCHANGED <<promise, answer>>
    PROVE  /\ OnlyJob(p)
           /\ job'[p].step = s /\ job'[p].inst = job[p].inst /\ job'[p].key = job[p].key
<1>1. ~Fresh(p) /\ promise[p] = Pending
    BY DEF IInv, FlightInv, FreshIdle, JobsPending
<1>2. job[p] \in Job
    BY DEF IInv, TypeOK, JsTypeOK
<1> QED
    BY <1>1, <1>2 DEF OnlyJob, IInv, TypeOK, JsTypeOK, Fresh, Job

LEMMA DropOnlyJob ==
    ASSUME IInv, NEW p \in Call, job[p] # NoJob, Drop(p)
    PROVE  OnlyJob(p) /\ ~Flying(p)'
<1>1. "orphan" \in Steps
    BY DEF Steps
<1>2. OnlyJob(p) /\ job'[p].step = "orphan"
    BY <1>1, StepOnlyJob DEF Drop
<1> QED
    BY <1>2 DEF Flying, FlightSteps

LEMMA SetReactionKeepsFlights ==
    ASSUME IInv, NEW p \in Call, SetSettles(p)
    PROVE  FlightInv'
<1>1. /\ job[p].step = "set" /\ job[p] # NoJob /\ ~Flying(p)
      /\ UNCHANGED <<inflight, damaged, stack>>
    BY DEF SetSettles, SetThen, SetCatch, NoJob, Flying, FlightSteps
<1>2. OnlyJob(p) /\ ~Flying(p)'
    <2>1. ASSUME NEW outcome, Settle(p, outcome) PROVE OnlyJob(p) /\ ~Flying(p)'
        BY <1>1, <2>1, SettleOnlyJob
    <2> QED
        BY <1>1, <2>1, DropOnlyJob DEF SetSettles, SetThen, SetCatch
<1> QED
    BY <1>1, <1>2, OnlyJobKeepsPromises, StepExact, StackUntouched DEF FlightInv

\* The reactions of getOrSet: a flight ends, its map entry with it, or goes on.
LEMMA FlightReactionKeepsFlights ==
    ASSUME IInv, NEW p \in Call, PopulateSettles(p) \/ BytesSettle(p)
    PROVE  FlightInv'
<1>1. /\ job[p].step \in {"populate", "bytes"} /\ job[p] # NoJob /\ Flying(p)
      /\ UNCHANGED stack
    BY DEF PopulateSettles, BytesSettle, PopulateNull, PopulateBody, PopulateBadValue,
           PopulateCatch, PopulateBytes, BytesCatch, BytesThen, Finalize, Reject, Ready,
           GoOn, NoJob, Flying, FlightSteps
<1>2. CASE Release(p) /\ (Drop(p) \/ \E outcome : Settle(p, outcome))
    <2>1. OnlyJob(p) /\ ~Flying(p)'
        BY <1>1, <1>2, SettleOnlyJob, DropOnlyJob
    <2> QED
        BY <1>1, <1>2, <2>1, OnlyJobKeepsPromises, ReleaseExact, StackUntouched DEF FlightInv
<1>3. ASSUME NEW s \in {"bytes", "stuck"}, GoOn(p, s)
      PROVE  FlightInv'
    <2>1. s \in Steps
        BY DEF Steps, FlightSteps
    <2>2. /\ OnlyJob(p)
          /\ job'[p].step = s /\ job'[p].inst = job[p].inst /\ job'[p].key = job[p].key
        BY <1>1, <1>3, <2>1, StepOnlyJob DEF GoOn
    <2>3. InflightExact' /\ DamageNeedsFailure'
        BY <1>1, <1>3, <2>2, StepExact DEF GoOn, Flying, FlightSteps
    <2> QED
        BY <1>1, <2>2, <2>3, OnlyJobKeepsPromises, StackUntouched DEF FlightInv
<1> QED
    BY <1>2, <1>3
    DEF PopulateSettles, BytesSettle, PopulateNull, PopulateBody, PopulateBadValue,
        PopulateCatch, PopulateBytes, BytesCatch, BytesThen, Finalize, Reject

LEMMA LeaveKeepsFlights ==
    ASSUME IInv, NEW i \in Instance, PopulateLeaves(i)
    PROVE  FlightInv'
<1>1. stack[i] # <<>> /\ Pop(i)
    BY DEF PopulateLeaves, PopulateThrows, PopulateReturns, GetOrSetAborts
<1>p. PICK p \in Call : p = Head(stack[i])
    BY <1>1, HeadOfStack
<1>2. job[p].step = "populating" /\ job[p] # NoJob /\ Flying(p)
    BY <1>1, <1>p, HeadOfStack DEF NoJob, Flying, FlightSteps
<1>3. CASE PopulateThrows(i)
    <2>1. OnlyJob(p) /\ ~Flying(p)'
        BY <1>2, <1>p, <1>3, SettleOnlyJob DEF PopulateThrows
    <2> QED
        BY <1>1, <1>2, <1>p, <1>3, <2>1, OnlyJobKeepsPromises, ReleaseExact, PopKeepsStack
        DEF PopulateThrows, FlightInv
<1>4. CASE PopulateReturns(i)
    <2>1. /\ OnlyJob(p)
          /\ job'[p].step = "populate" /\ job'[p].inst = job[p].inst
          /\ job'[p].key = job[p].key
        <3>1. "populate" \in Steps
            BY DEF Steps, FlightSteps
        <3> QED
            BY <1>2, <1>p, <1>4, <3>1, StepOnlyJob DEF PopulateReturns
    <2>2. InflightExact' /\ DamageNeedsFailure'
        BY <1>2, <1>p, <1>4, <2>1, StepExact DEF PopulateReturns, Flying, FlightSteps
    <2> QED
        BY <1>1, <1>2, <1>p, <2>1, <2>2, OnlyJobKeepsPromises, PopKeepsStack DEF FlightInv
<1>5. CASE GetOrSetAborts(i)
    <2>1. OnlyJob(p) /\ ~Flying(p)'
        <3>1. ~Fresh(p) /\ promise[p] = Pending
            BY <1>2 DEF IInv, FlightInv, FreshIdle, JobsPending
        <3> QED
            BY <1>2, <1>p, <1>5, <3>1, CacheAssumption
            DEF GetOrSetAborts, OnlyJob, IInv, TypeOK, JsTypeOK, Fresh, Job, Flying, FlightSteps
    <2> QED
        BY <1>1, <1>2, <1>p, <1>5, <2>1, OnlyJobKeepsPromises, ReleaseExact, PopKeepsStack
        DEF GetOrSetAborts, FlightInv
<1> QED
    BY <1>3, <1>4, <1>5 DEF PopulateLeaves

\* An instance that ends takes its flights, its map and its stack along.
LEMMA EndKeepsFlights ==
    ASSUME IInv, NEW i \in Instance, InstanceEnds(i)
    PROVE  FlightInv'
<1>1. \A p \in Call :
         /\ job'[p] = IF Inhabits(p, i) THEN NoJob ELSE job[p]
         /\ promise'[p] = IF Inhabits(p, i) THEN Lost ELSE promise[p]
         /\ answer'[p] = answer[p]
    BY DEF InstanceEnds
<1>2. FreshIdle' /\ JobsPending'
    BY <1>1 DEF IInv, FlightInv, FreshIdle, JobsPending, Fresh, Inhabits
<1>3. StackOfPopulators'
    <2>1. ASSUME NEW j \in Instance, NEW m \in 1 .. Len(stack'[j])
          PROVE  /\ j # i
                 /\ stack'[j] = stack[j]
                 /\ stack[j][m] \in Call
                 /\ job'[stack[j][m]] = job[stack[j][m]]
        <3>1. stack'[i] = <<>> /\ (j # i => stack'[j] = stack[j])
            BY DEF InstanceEnds, IInv, TypeOK, JsTypeOK
        <3>2. j # i /\ stack'[j] = stack[j]
            BY <3>1
        <3>3. stack[j][m] \in Call /\ job[stack[j][m]].inst = j
            BY <3>2 DEF IInv, TypeOK, JsTypeOK, FlightInv, StackOfPopulators
        <3> QED
            BY <1>1, <3>2, <3>3 DEF Inhabits
    <2> QED
        BY <2>1 DEF IInv, FlightInv, StackOfPopulators
<1>4. InflightExact' /\ DamageNeedsFailure'
    <2>1. \A j \in Instance, k \in Key :
             inflight'[j][k] = IF j = i THEN None ELSE inflight[j][k]
        BY DEF InstanceEnds, IInv, TypeOK, JsTypeOK
    <2>2. \A p \in Call : Flying(p) => job[p] # NoJob
        BY DEF Flying, FlightSteps, NoJob
    <2>3. \A p \in Call : Flying(p)' <=> Flying(p) /\ job[p].inst # i
        BY <1>1, <2>2 DEF Flying, FlightSteps, NoJob, Inhabits
    <2>4. \A p \in Call : Flying(p)' => job'[p] = job[p]
        BY <1>1, <2>3 DEF Inhabits
    <2>5. ASSUME NEW j \in Instance, NEW k \in Key, <<j, k>> \notin damaged', NEW p \in Call
          PROVE  inflight'[j][k] = p <=> Flying(p)' /\ job'[p].inst = j /\ job'[p].key = k
        <3>1. CASE j = i
            BY <2>1, <2>3, <2>4, <3>1, CacheAssumption
        <3>2. CASE j # i
            <4>1. <<j, k>> \notin damaged
                BY <2>5, <3>2 DEF InstanceEnds
            <4> QED
                BY <2>1, <2>3, <2>4, <3>2, <4>1 DEF IInv, FlightInv, InflightExact
        <3> QED
            BY <3>1, <3>2
    <2>6. DamageNeedsFailure'
        BY DEF InstanceEnds, IInv, FlightInv, DamageNeedsFailure
    <2> QED
        BY <2>5, <2>6 DEF InflightExact
<1> QED
    BY <1>2, <1>3, <1>4 DEF FlightInv

LEMMA StutterKeepsFlights ==
    ASSUME IInv, UNCHANGED jsVars
    PROVE  FlightInv'
BY DEF IInv, FlightInv, FreshIdle, Fresh, JobsPending, StackOfPopulators,
       DamageNeedsFailure, InflightExact, Flying, jsVars

LEMMA InitIInv == Init => IInv
<1> SUFFICES ASSUME Init PROVE IInv
    OBVIOUS
<1>1. \A c \in Call : job[c] = NoJob /\ promise[c] = Unmade
    BY DEF Init
<1>2. \A i \in Instance : stack[i] = <<>>
    BY DEF Init
<1>3. TypeOK
    BY OutcomesTyped, HostCacheAssumption
    DEF Init, HostInit, TypeOK, HostTypeOK, JsTypeOK
<1>4. FreshIdle /\ JobsPending
    BY <1>1 DEF FreshIdle, JobsPending
<1>5. StackOfPopulators
    BY <1>2 DEF StackOfPopulators
<1>6. InflightExact /\ DamageNeedsFailure
    BY <1>1, CacheAssumption
    DEF Init, InflightExact, DamageNeedsFailure, Flying, FlightSteps, NoJob
<1> QED
    BY <1>3, <1>4, <1>5, <1>6 DEF IInv, FlightInv

LEMMA NextIInv == IInv /\ [Next]_vars => IInv'
<1> SUFFICES ASSUME IInv, [Next]_vars PROVE IInv'
    OBVIOUS
<1>1. CASE UNCHANGED vars
    BY <1>1, StutterKeepsFlights
    DEF vars, jsVars, IInv, TypeOK, HostTypeOK, JsTypeOK
<1>2. CASE HostStep
    BY <1>2, HostStepTyped, StutterKeepsFlights DEF HostStep, IInv
<1>3. ASSUME NEW c \in Call, PlainCall(c) PROVE IInv'
    BY <1>3, PlainTyped, AnsweredAtOnce, AnswerKeepsFlights DEF IInv
<1>4. ASSUME NEW c \in Call, SetCall(c) PROVE IInv'
    <2>1. TypeOK'
        BY <1>4, SetTyped DEF IInv
    <2>2. CASE \E o \in Options :
                  \/ SetThrows(c, o) \/ SetBadValue(c, o)
                  \/ \E k \in Key, v \in Val : SetBytes(c, k, v, o)
        <3>1. Fresh(c) /\ (ThrowSync(c) \/ \E outcome : Return(c, outcome))
            BY <2>2, AnsweredAtOnce DEF IInv
        <3> QED
            BY <2>1, <3>1, AnswerKeepsFlights DEF IInv
    <2>3. CASE \E o \in Options, i \in Instance, k \in Key : \E W \in Awaiters(i) :
                  SetBody(c, i, W, k, o)
        BY <2>1, <2>3, SetBodyKeepsFlights DEF IInv
    <2> QED
        BY <1>4, <2>2, <2>3 DEF SetCall
<1>5. ASSUME NEW c \in Call, GetOrSetCall(c) PROVE IInv'
    <2>1. TypeOK'
        BY <1>5, GetOrSetTyped DEF IInv
    <2>2. CASE \E o \in Options :
                  GetOrSetThrows(c, o) \/ \E k \in Key : GetOrSetHit(c, k, o)
        <3>1. Fresh(c) /\ (ThrowSync(c) \/ \E outcome : Return(c, outcome))
            BY <2>2, AnsweredAtOnce DEF IInv
        <3> QED
            BY <2>1, <3>1, AnswerKeepsFlights DEF IInv
    <2>3. CASE \E o \in Options, i \in Instance, k \in Key : \E W \in Awaiters(i) :
                  GetOrSetJoin(c, i, W, k, o) \/ GetOrSetStart(c, i, W, k, o)
        BY <2>1, <2>3, JoinKeepsFlights, StartKeepsFlights DEF IInv
    <2> QED
        BY <1>5, <2>2, <2>3 DEF GetOrSetCall
<1>6. ASSUME NEW p \in Call, SetSettles(p) PROVE IInv'
    BY <1>6, SetTyped, SetReactionKeepsFlights DEF IInv
<1>7. ASSUME NEW p \in Call, PopulateSettles(p) \/ BytesSettle(p) PROVE IInv'
    BY <1>7, ReactionsTyped, FlightReactionKeepsFlights DEF IInv
<1>8. ASSUME NEW i \in Instance, PopulateLeaves(i) PROVE IInv'
    <2>1. stack[i] # <<>>
        BY <1>8 DEF PopulateLeaves, PopulateThrows, PopulateReturns, GetOrSetAborts
    <2> QED
        BY <1>8, <2>1, HeadOfStack, LeavesTyped, LeaveKeepsFlights DEF IInv
<1>9. ASSUME NEW i \in Instance, InstanceEnds(i) PROVE IInv'
    BY <1>9, EndsTyped, EndKeepsFlights DEF IInv
<1> QED
    BY <1>1, <1>2, <1>3, <1>4, <1>5, <1>6, <1>7, <1>8, <1>9 DEF Next

THEOREM IInvHolds == Spec => []IInv
BY InitIInv, NextIInv, PTL DEF Spec

-----------------------------------------------------------------------------
(* What follows at once *)

\* Every variable keeps its type, whatever the calls and their interleaving.
THEOREM TypeCorrect == Spec => []TypeOK
<1>1. IInv => TypeOK
    BY DEF IInv
<1> QED
    BY <1>1, IInvHolds, PTL

\* INFLIGHT_MAP and the work in progress agree on every entry on which no
\* inflight_get and no inflight_delete has failed, whatever other allocations
\* fail: such an entry is neither left behind nor taken out early.
THEOREM InflightMapIsExact == Spec => []InflightExact
<1>1. IInv => InflightExact
    BY DEF IInv, FlightInv
<1> QED
    BY <1>1, IInvHolds, PTL

\* The map and the work agree on every entry.
MapExact ==
    \A i \in Instance, k \in Key, p \in Call :
        inflight[i][k] = p <=> Flying(p) /\ job[p].inst = i /\ job[p].key = k

LEMMA ExactMap ==
    ASSUME IInv, AllocMayFail = FALSE
    PROVE  MapExact
<1>1. damaged = {}
    BY DEF IInv, FlightInv, DamageNeedsFailure
<1> QED
    BY <1>1 DEF MapExact, IInv, FlightInv, InflightExact

\* An engine that has the memory keeps the whole map exact: a damaged entry is
\* the mark of an allocation that failed.
THEOREM MemoryKeepsTheMapExact ==
    ASSUME AllocMayFail = FALSE
    PROVE  Spec => []MapExact
<1>1. IInv => MapExact
    BY ExactMap
<1> QED
    BY <1>1, IInvHolds, PTL

LEMMA ExactMapMeansOneFlight == IInv => OneFlightPerKey
<1> SUFFICES ASSUME IInv, NEW p \in Call, NEW q \in Call, Flying(p), Flying(q),
                    job[p].inst = job[q].inst, job[p].key = job[q].key,
                    <<job[p].inst, job[p].key>> \notin damaged
             PROVE  p = q
    BY DEF OneFlightPerKey
<1>1. job[p].inst \in Instance /\ job[p].key \in Key
    BY DEF IInv, TypeOK, JsTypeOK, Flying, FlightSteps, NoJob, Job
<1>2. inflight[job[p].inst][job[p].key] = p /\ inflight[job[p].inst][job[p].key] = q
    BY <1>1 DEF IInv, FlightInv, InflightExact
<1> QED
    BY <1>2

\* getOrSet coalesces: an instance never runs two populators of one key, not
\* even when populate itself calls getOrSet, unless the lookup or the deletion
\* of that very entry has failed.
THEOREM Coalescing == Spec => []OneFlightPerKey
BY ExactMapMeansOneFlight, IInvHolds, PTL

\* Nested populates are for pairwise different keys, so the C++ stack is never
\* deeper in getOrSet than there are keys; a key recurs in it only if its entry
\* is damaged.
THEOREM NestingIsBounded == Spec => []NestingOnDistinctKeys
<1>1. ASSUME IInv, NEW i \in Instance, NEW m \in 1 .. Len(stack[i]),
             NEW n \in 1 .. Len(stack[i]), m # n,
             job[stack[i][m]].key = job[stack[i][n]].key
      PROVE  <<i, job[stack[i][m]].key>> \in damaged
    <2>1. /\ stack[i][m] \in Call /\ stack[i][n] \in Call
          /\ stack[i][m] # stack[i][n]
          /\ job[stack[i][m]].step = "populating" /\ job[stack[i][n]].step = "populating"
          /\ job[stack[i][m]].inst = i /\ job[stack[i][n]].inst = i
        BY <1>1 DEF IInv, TypeOK, JsTypeOK, FlightInv, StackOfPopulators
    <2> QED
        BY <1>1, <2>1, ExactMapMeansOneFlight DEF OneFlightPerKey, Flying, FlightSteps
<1>2. IInv => NestingOnDistinctKeys
    BY <1>1 DEF NestingOnDistinctKeys
<1> QED
    BY <1>2, IInvHolds, PTL

-----------------------------------------------------------------------------
(* Promises and the store: what one step may do *)

\* The entry of k goes, or keeps its value and its writer, or is written by a
\* call whose promise this very step fulfils.
EntryStep(k) ==
    \/ store'[k] = Absent
    \/ /\ store[k] # Absent
       /\ store'[k].val = store[k].val /\ store'[k].by = store[k].by
    \/ /\ store'[k].by \in Call
       /\ promise[store'[k].by] \in {Unmade, Pending}
       /\ promise'[store'[k].by] \in {Fulfilled(store'[k].val), Fulfilled("undefined")}

LEMMA HostEntryStep ==
    ASSUME IInv, NEW k \in Key
    PROVE  /\ UNCHANGED store => EntryStep(k)
           /\ \A K : Erase(K) => EntryStep(k)
           /\ \A l \in Key : \A ttl, due : Present(l) /\ Renew(l, ttl, due) => EntryStep(k)
<1>1. store \in [Key -> Entry \cup {Absent}]
    BY DEF IInv, TypeOK, HostTypeOK
<1>2. UNCHANGED store => EntryStep(k)
    BY DEF EntryStep
<1>3. ASSUME NEW K, Erase(K) PROVE EntryStep(k)
    BY <1>3 DEF Erase, EntryStep
<1>4. ASSUME NEW l \in Key, NEW ttl, NEW due, Present(l), Renew(l, ttl, due)
      PROVE  EntryStep(k)
    <2>1. store[l] \in Entry
        BY <1>1, <1>4 DEF Present
    <2>2. /\ store'[k] # store[k] => k = l
          /\ store'[l].val = store[l].val /\ store'[l].by = store[l].by
        BY <1>1, <1>4, <2>1 DEF Renew, Entry
    <2> QED
        BY <1>4, <2>2 DEF EntryStep, Present
<1> QED
    BY <1>2, <1>3, <1>4

LEMMA PutEntryStep ==
    ASSUME IInv, NEW k \in Key, NEW l \in Key, NEW v, NEW ttl, NEW due, NEW c \in Call,
           Put(l, v, ttl, c, due), promise[c] \in {Unmade, Pending},
           promise'[c] \in {Fulfilled(v), Fulfilled("undefined")}
    PROVE  EntryStep(k)
<1>1. /\ k # l => store'[k] = store[k]
      /\ store'[l].val = v /\ store'[l].by = c
    BY DEF Put, IInv, TypeOK, HostTypeOK
<1> QED
    BY <1>1 DEF EntryStep

LEMMA CountEntryStep ==
    ASSUME IInv, NEW k \in Key, NEW l \in Key, NEW n, NEW c \in Call,
           Count(l, n, c), promise[c] = Unmade, promise'[c] = Fulfilled(n)
    PROVE  EntryStep(k)
<1>1. store[l] # Absent => store[l] \in Entry
    BY DEF IInv, TypeOK, HostTypeOK
<1>2. /\ k # l => store'[k] = store[k]
      /\ store'[l].val = n /\ store'[l].by = c
    BY <1>1 DEF Count, Entry, IInv, TypeOK, HostTypeOK
<1> QED
    BY <1>2 DEF EntryStep

\* A promise changes only while it is unmade or pending.
PromiseStep(p) == promise'[p] # promise[p] => promise[p] \in {Unmade, Pending}

LEMMA OneAtATime ==
    ASSUME IInv, NEW c \in Call, NEW p \in Call
    PROVE  /\ UNCHANGED promise => PromiseStep(p)
           /\ \A outcome : Fresh(c) /\ Return(c, outcome) => PromiseStep(p)
           /\ \A outcome : job[c] # NoJob /\ Settle(c, outcome) => PromiseStep(p)
           /\ Fresh(c) /\ promise' = [promise EXCEPT ![c] = Pending] => PromiseStep(p)
<1>1. /\ Fresh(c) => promise[c] = Unmade
      /\ job[c] # NoJob => promise[c] = Pending
    BY DEF IInv, FlightInv, FreshIdle, JobsPending
<1>2. \A outcome : promise' = [promise EXCEPT ![c] = outcome] =>
                       (promise'[p] # promise[p] => p = c)
    BY DEF IInv, TypeOK, JsTypeOK
<1> QED
    BY <1>1, <1>2 DEF PromiseStep, Return, Settle

LEMMA NextPromiseStep ==
    ASSUME IInv, [Next]_vars, NEW p \in Call
    PROVE  PromiseStep(p)
<1>1. CASE UNCHANGED vars \/ HostStep
    BY <1>1, OneAtATime DEF vars, HostStep, jsVars
<1>2. ASSUME NEW c \in Call,
             \/ PlainCall(c)
             \/ \E o \in Options :
                   \/ SetThrows(c, o) \/ SetBadValue(c, o) \/ GetOrSetThrows(c, o)
                   \/ \E k \in Key, v \in Val : SetBytes(c, k, v, o)
                   \/ \E k \in Key : GetOrSetHit(c, k, o)
      PROVE  PromiseStep(p)
    <2>1. Fresh(c) /\ (UNCHANGED promise \/ \E outcome : Return(c, outcome))
        BY <1>2, AnsweredAtOnce DEF IInv, ThrowSync
    <2> QED
        BY <2>1, OneAtATime
<1>3. ASSUME NEW c \in Call, NEW o \in Options, NEW i \in Instance, NEW k \in Key, NEW W,
             SetBody(c, i, W, k, o) \/ GetOrSetJoin(c, i, W, k, o) \/ GetOrSetStart(c, i, W, k, o)
      PROVE  PromiseStep(p)
    BY <1>3, OneAtATime DEF SetBody, GetOrSetJoin, GetOrSetStart
<1>4. ASSUME NEW c \in Call, SetSettles(c) \/ PopulateSettles(c) \/ BytesSettle(c)
      PROVE  PromiseStep(p)
    <2>1. job[c] # NoJob
        BY <1>4 DEF SetSettles, SetThen, SetCatch, PopulateSettles, BytesSettle,
               PopulateNull, PopulateBody, PopulateBadValue, PopulateCatch, PopulateBytes,
               BytesCatch, BytesThen, Ready, NoJob
    <2>2. UNCHANGED promise \/ \E outcome : Settle(c, outcome)
        BY <1>4 DEF SetSettles, SetThen, SetCatch, PopulateSettles, BytesSettle,
               PopulateNull, PopulateBody, PopulateBadValue, PopulateCatch, PopulateBytes,
               BytesCatch, BytesThen, Finalize, Reject, Drop, GoOn
    <2> QED
        BY <2>1, <2>2, OneAtATime
<1>5. ASSUME NEW i \in Instance, PopulateLeaves(i) PROVE PromiseStep(p)
    <2>1. stack[i] # <<>>
        BY <1>5 DEF PopulateLeaves, PopulateThrows, PopulateReturns, GetOrSetAborts
    <2>2. PICK c \in Call : c = Head(stack[i])
        BY <2>1, HeadOfStack
    <2>3. job[c] # NoJob
        BY <2>1, <2>2, HeadOfStack DEF NoJob
    <2>4. UNCHANGED promise \/ \E outcome : Settle(c, outcome)
        BY <1>5, <2>2 DEF PopulateLeaves, PopulateThrows, PopulateReturns, GetOrSetAborts
    <2> QED
        BY <2>3, <2>4, OneAtATime
<1>6. ASSUME NEW i \in Instance, InstanceEnds(i) PROVE PromiseStep(p)
    BY <1>6 DEF InstanceEnds, PromiseStep, Inhabits, IInv, FlightInv, JobsPending
<1> QED
    BY <1>1, <1>2, <1>3, <1>4, <1>5, <1>6 DEF Next, SetCall, GetOrSetCall

\* Each waiter gets one outcome: no later reaction, retry or instance exit
\* changes a promise that has settled.
THEOREM OutcomesAreFinal == Spec => SettledOnce
<1>1. ASSUME IInv, [Next]_vars
      PROVE  [\A p \in Call : promise[p].st \in {"fulfilled", "rejected", "lost"}
                                  => promise'[p] = promise[p]]_vars
    <2>1. Unmade.st = "none" /\ Pending.st = "pending"
        BY DEF Unmade, Pending
    <2> QED
        BY <1>1, <2>1, NextPromiseStep DEF PromiseStep
<1> QED
    BY <1>1, IInvHolds, PTL DEF Spec, SettledOnce

-----------------------------------------------------------------------------
(* As long as the engine does not run out of memory *)

\* Every pending promise has a reaction to come, and no flight is stuck.
WorkToCome ==
    /\ \A p \in Call : IsPending(p) => job[p] # NoJob
    /\ \A p \in Call : job[p].step \notin {"stuck", "orphan"}

LEMMA SettleKeepsWork ==
    ASSUME IInv, WorkToCome, NEW p \in Call, NEW outcome, Settle(p, outcome),
           outcome.st # "pending"
    PROVE  WorkToCome'
<1>1. \A q \in Call :
         /\ promise'[q] = IF q = p THEN outcome ELSE promise[q]
         /\ job'[q] = IF q = p THEN NoJob ELSE job[q]
    BY DEF Settle, IInv, TypeOK, JsTypeOK
<1> QED
    BY <1>1 DEF WorkToCome, IsPending, NoJob

LEMMA ReturnKeepsWork ==
    ASSUME IInv, WorkToCome, NEW c \in Call, NEW outcome, Return(c, outcome),
           outcome.st # "pending"
    PROVE  WorkToCome'
<1>1. \A q \in Call : promise'[q] = IF q = c THEN outcome ELSE promise[q]
    BY DEF Return, IInv, TypeOK, JsTypeOK
<1>2. UNCHANGED job
    BY DEF Return
<1> QED
    BY <1>1, <1>2 DEF WorkToCome, IsPending

LEMMA StartKeepsWork ==
    ASSUME WorkToCome, NEW c \in Call, job'[c].step \in {"set", "populating"},
           \A q \in Call \ {c} : job'[q] = job[q] /\ promise'[q] = promise[q]
    PROVE  WorkToCome'
BY DEF WorkToCome, IsPending, NoJob

LEMMA MoveKeepsWork ==
    ASSUME IInv, WorkToCome, NEW p \in Call, job[p] # NoJob, UNCHANGED promise,
           NEW s \in {"populate", "bytes"}, job' = [job EXCEPT ![p].step = s]
    PROVE  WorkToCome'
<1>1. job[p] \in Job
    BY DEF IInv, TypeOK, JsTypeOK
<1>2. \A q \in Call : q # p => job'[q] = job[q]
    BY DEF IInv, TypeOK, JsTypeOK
<1>3. job'[p].step = s
    BY <1>1 DEF IInv, TypeOK, JsTypeOK, Job
<1> QED
    BY <1>2, <1>3 DEF WorkToCome, IsPending, NoJob

LEMMA OutcomesSettled ==
    /\ Rejected.st = "rejected" /\ Lost.st = "lost"
    /\ \A v : Fulfilled(v).st = "fulfilled"
BY DEF Rejected, Lost, Fulfilled

LEMMA NextWorkToCome ==
    ASSUME AllocMayFail = FALSE, IInv, WorkToCome, [Next]_vars
    PROVE  WorkToCome'
<1>1. CASE UNCHANGED <<promise, job>>
    BY <1>1 DEF WorkToCome, IsPending
<1>2. ASSUME NEW c \in Call,
             \/ PlainCall(c)
             \/ \E o \in Options :
                   \/ SetThrows(c, o) \/ SetBadValue(c, o) \/ GetOrSetThrows(c, o)
                   \/ \E k \in Key, v \in Val : SetBytes(c, k, v, o)
                   \/ \E k \in Key : GetOrSetHit(c, k, o)
      PROVE  WorkToCome'
    <2>1. CASE ThrowSync(c)
        BY <1>1, <2>1 DEF ThrowSync
    <2>2. CASE Return(c, Rejected) \/ \E v \in Val \cup Reply : Return(c, Fulfilled(v))
        BY <2>2, ReturnKeepsWork, OutcomesSettled
    <2> QED
        BY <1>2, <2>1, <2>2, AnsweredAtOnce DEF IInv
<1>3. ASSUME NEW c \in Call, NEW o \in Options, NEW i \in Instance, NEW k \in Key, NEW W,
             SetBody(c, i, W, k, o) \/ GetOrSetStart(c, i, W, k, o)
      PROVE  WorkToCome'
    <2>1. /\ job'[c].step \in {"set", "populating"}
          /\ \A q \in Call \ {c} : job'[q] = job[q] /\ promise'[q] = promise[q]
        BY <1>3 DEF SetBody, GetOrSetStart, IInv, TypeOK, JsTypeOK
    <2> QED
        BY <2>1, StartKeepsWork
<1>4. ASSUME NEW p \in Call, SetSettles(p) PROVE WorkToCome'
    BY <1>4, SettleKeepsWork, OutcomesSettled DEF SetSettles, SetThen, SetCatch, Drop
<1>5. ASSUME NEW p \in Call, PopulateSettles(p) \/ BytesSettle(p) PROVE WorkToCome'
    <2>1. CASE PopulateBody(p)
        <3>1. job[p] # NoJob
            BY <2>1 DEF PopulateBody, Ready, NoJob
        <3> QED
            BY <2>1, <3>1, MoveKeepsWork DEF PopulateBody, GoOn
    <2>2. CASE Settle(p, Rejected) \/ \E v \in Val \cup Reply : Settle(p, Fulfilled(v))
        BY <2>2, SettleKeepsWork, OutcomesSettled
    <2> QED
        BY <1>5, <2>1, <2>2
        DEF PopulateSettles, BytesSettle, PopulateNull, PopulateBadValue, PopulateCatch,
            PopulateBytes, BytesCatch, BytesThen, Finalize, Reject, Drop, Reply
<1>6. ASSUME NEW i \in Instance, PopulateLeaves(i) PROVE WorkToCome'
    <2>1. stack[i] # <<>>
        BY <1>6 DEF PopulateLeaves, PopulateThrows, PopulateReturns, GetOrSetAborts
    <2>2. PICK p \in Call : p = Head(stack[i])
        BY <2>1, HeadOfStack
    <2>3. job[p] # NoJob
        BY <2>1, <2>2, HeadOfStack DEF NoJob
    <2>4. CASE PopulateThrows(i)
        BY <2>2, <2>4, SettleKeepsWork, OutcomesSettled DEF PopulateThrows
    <2>5. CASE PopulateReturns(i)
        BY <2>2, <2>3, <2>5, MoveKeepsWork DEF PopulateReturns
    <2> QED
        BY <1>6, <2>4, <2>5 DEF PopulateLeaves, GetOrSetAborts
<1>7. ASSUME NEW i \in Instance, InstanceEnds(i) PROVE WorkToCome'
    <2>1. \A p \in Call :
             \/ job'[p] = NoJob /\ promise'[p] = Lost
             \/ job'[p] = job[p] /\ promise'[p] = promise[p]
        BY <1>7 DEF InstanceEnds
    <2>2. NoJob.step = "none"
        BY DEF NoJob
    <2> QED
        BY <2>1, <2>2, OutcomesSettled DEF WorkToCome, IsPending
<1> QED
    BY <1>1, <1>2, <1>3, <1>4, <1>5, <1>6, <1>7
    DEF Next, vars, jsVars, HostStep, SetCall, GetOrSetCall, GetOrSetJoin

\* No path through set or getOrSet drops its waiters: every pending promise
\* that was handed out has a reaction to come.
THEOREM NoWaiterIsDropped ==
    ASSUME AllocMayFail = FALSE
    PROVE  Spec => []PendingHasReaction
<1>1. Init => WorkToCome
    BY DEF Init, WorkToCome, IsPending, Unmade, NoJob
<1>2. ASSUME IInv, WorkToCome, [Next]_vars PROVE WorkToCome'
    BY <1>2, NextWorkToCome
<1>3. IInv /\ WorkToCome => PendingHasReaction
    BY DEF IInv, TypeOK, JsTypeOK, WorkToCome, PendingHasReaction, Job, Steps, FlightSteps
<1> QED
    BY <1>1, <1>2, <1>3, IInvHolds, PTL DEF Spec

\* A plain call that writes is fulfilled in the step that writes.
LEMMA PlainEntryStep ==
    ASSUME IInv, NEW c \in Call, PlainCall(c), NEW k \in Key
    PROVE  EntryStep(k)
<1>1. Fresh(c) /\ promise[c] = Unmade /\ promise \in [Call -> Promise]
    BY FreshHasNoJob DEF IInv, TypeOK, JsTypeOK,
       PlainCall, Get, Exists, Delete, Expire, Incr, Purge, PurgePrefix
<1>2. \A outcome : Return(c, outcome) => promise'[c] = outcome
    BY <1>1 DEF Return
<1>3. ASSUME NEW l \in Key, Incr(c, l) PROVE EntryStep(k)
    <2>1. CASE HostFails(c)
        BY <2>1, HostEntryStep DEF HostFails, hostVars
    <2>2. ASSUME NEW n \in Number, Count(l, n, c), Return(c, Fulfilled(n))
          PROVE  EntryStep(k)
        <3>1. promise'[c] = Fulfilled(n)
            BY <1>2, <2>2
        <3> QED
            BY <1>1, <2>2, <3>1, CountEntryStep
    <2> QED
        BY <1>3, <2>1, <2>2 DEF Incr
<1>4. ASSUME NEW l \in Key, NEW o \in Options, Expire(c, l, o) PROVE EntryStep(k)
    BY <1>4, HostEntryStep DEF Expire, ThrowSync, HostFails, hostVars
<1>5. ASSUME NEW l \in Key, Get(c, l) \/ Exists(c, l) PROVE EntryStep(k)
    BY <1>5, HostEntryStep DEF Get, Exists, ThrowSync, HostFails, hostVars
<1>6. CASE \/ \E l \in Key : Delete(c, l)
           \/ Purge(c)
           \/ \E K \in Prefix : PurgePrefix(c, K)
    BY <1>6, HostEntryStep DEF Delete, Purge, PurgePrefix, HostFails, hostVars
<1> QED
    BY <1>3, <1>4, <1>5, <1>6 DEF PlainCall

LEMMA SetEntryStep ==
    ASSUME AllocMayFail = FALSE, IInv, NEW c \in Call, SetCall(c) \/ SetSettles(c), NEW k \in Key
    PROVE  EntryStep(k)
<1>1. promise \in [Call -> Promise]
    BY DEF IInv, TypeOK, JsTypeOK
<1>2. ASSUME NEW o \in Options, NEW l \in Key, NEW v \in Val, SetBytes(c, l, v, o)
      PROVE  EntryStep(k)
    <2>1. promise[c] = Unmade
        BY <1>2, FreshHasNoJob DEF SetBytes
    <2>2. \A outcome : Return(c, outcome) => promise'[c] = outcome
        BY <1>1 DEF Return
    <2>3. CASE HostFails(c)
        BY <2>3, HostEntryStep DEF HostFails, hostVars
    <2>4. CASE Put(l, v, TtlMs(o), c, Due(o)) /\ Return(c, Fulfilled("undefined"))
        <3>1. promise'[c] = Fulfilled("undefined")
            BY <2>2, <2>4
        <3> QED
            BY <2>1, <2>4, <3>1, PutEntryStep
    <2> QED
        BY <1>2, <2>3, <2>4 DEF SetBytes
<1>3. ASSUME NEW v \in Val, SetThen(c, v) PROVE EntryStep(k)
    <2>1. job[c].step = "set"
        BY <1>3 DEF SetThen
    <2>2. job[c] \in Job /\ promise[c] = Pending
        BY <2>1 DEF IInv, TypeOK, JsTypeOK, FlightInv, JobsPending, NoJob
    <2>3. \A outcome : Settle(c, outcome) => promise'[c] = outcome
        BY <1>1 DEF Settle
    <2>4. CASE UNCHANGED store
        BY <2>4, HostEntryStep
    <2>5. CASE /\ Put(job[c].key, v, job[c].ttl, c, job[c].due)
               /\ Settle(c, Fulfilled("undefined"))
        <3>1. promise'[c] = Fulfilled("undefined") /\ job[c].key \in Key
            BY <2>2, <2>3, <2>5 DEF Job
        <3> QED
            BY <2>2, <2>5, <3>1, PutEntryStep
    <2> QED
        BY <1>3, <2>4, <2>5 DEF SetThen, Drop, hostVars
<1>4. CASE UNCHANGED store
    BY <1>4, HostEntryStep
<1> QED
    BY <1>2, <1>3, <1>4
    DEF SetCall, SetSettles, SetThrows, SetBadValue, SetBody, SetCatch, ThrowSync, hostVars

LEMMA FlightEntryStep ==
    ASSUME AllocMayFail = FALSE, IInv, NEW p \in Call,
           PopulateSettles(p) \/ BytesSettle(p), NEW k \in Key
    PROVE  EntryStep(k)
<1>1. job[p].step \in {"populate", "bytes"}
    BY DEF PopulateSettles, BytesSettle, PopulateNull, PopulateBody, PopulateBadValue,
           PopulateCatch, PopulateBytes, BytesCatch, BytesThen, Ready
<1>2. job[p] \in Job /\ promise[p] = Pending
    BY <1>1 DEF IInv, TypeOK, JsTypeOK, FlightInv, JobsPending, NoJob
<1>3. \A outcome : Settle(p, outcome) => promise'[p] = outcome
    BY DEF Settle, IInv, TypeOK, JsTypeOK
<1>4. CASE UNCHANGED store
    BY <1>4, HostEntryStep
<1>5. ASSUME NEW v \in Val, Put(job[p].key, v, job[p].ttl, p, job[p].due),
             Settle(p, Fulfilled(v))
      PROVE  EntryStep(k)
    <2>1. promise'[p] = Fulfilled(v) /\ job[p].key \in Key
        BY <1>2, <1>3, <1>5 DEF Job
    <2> QED
        BY <1>2, <1>5, <2>1, PutEntryStep
<1> QED
    BY <1>4, <1>5
    DEF PopulateSettles, BytesSettle, PopulateNull, PopulateBody, PopulateBadValue,
        PopulateCatch, PopulateBytes, BytesCatch, BytesThen, Finalize, Reject, Drop, GoOn

LEMMA NextEntryStep ==
    ASSUME AllocMayFail = FALSE, IInv, [Next]_vars, NEW k \in Key
    PROVE  EntryStep(k)
<1>1. CASE UNCHANGED store
    BY <1>1, HostEntryStep
<1>2. CASE HostStep
    BY <1>2, HostEntryStep DEF HostStep, Tick, Evict
<1>3. ASSUME NEW c \in Call, GetOrSetCall(c) PROVE EntryStep(k)
    BY <1>1, <1>3
    DEF GetOrSetCall, GetOrSetThrows, GetOrSetHit, GetOrSetJoin, GetOrSetStart,
        ThrowSync, HostFails, hostVars
<1>4. ASSUME NEW i \in Instance, PopulateLeaves(i) \/ InstanceEnds(i) PROVE EntryStep(k)
    BY <1>1, <1>4
    DEF PopulateLeaves, PopulateThrows, PopulateReturns, GetOrSetAborts, InstanceEnds
<1> QED
    BY <1>1, <1>2, <1>3, <1>4, PlainEntryStep, SetEntryStep, FlightEntryStep DEF Next, vars

\* Nothing in the cache stems from a call that failed or is undecided.
THEOREM OnlyFulfilledIsStored ==
    ASSUME AllocMayFail = FALSE
    PROVE  Spec => []StoredByFulfilled
<1>1. Init => StoredByFulfilled
    BY DEF Init, HostInit, StoredByFulfilled, Present
<1>2. ASSUME IInv, StoredByFulfilled, [Next]_vars PROVE StoredByFulfilled'
    <2> SUFFICES ASSUME NEW k \in Key, store'[k] # Absent
                 PROVE  promise'[store'[k].by]
                            \in {Fulfilled(store'[k].val), Fulfilled("undefined")}
        BY DEF StoredByFulfilled, Present
    <2>1. CASE /\ store[k] # Absent
               /\ store'[k].val = store[k].val /\ store'[k].by = store[k].by
        <3>1. store[k].by \in Call
            BY <1>2, <2>1, CacheAssumption DEF IInv, TypeOK, HostTypeOK, Entry
        <3>2. promise[store[k].by] \in {Fulfilled(store[k].val), Fulfilled("undefined")}
            BY <1>2, <2>1 DEF StoredByFulfilled, Present
        <3>3. promise[store[k].by] \notin {Unmade, Pending}
            BY <3>2 DEF Fulfilled, Unmade, Pending
        <3>4. promise'[store[k].by] = promise[store[k].by]
            BY <1>2, <3>1, <3>3, NextPromiseStep DEF PromiseStep
        <3> QED
            BY <2>1, <3>2, <3>4
    <2> QED
        BY <1>2, <2>1, NextEntryStep DEF EntryStep
<1> QED
    BY <1>1, <1>2, IInvHolds, PTL DEF Spec

\* A value reaches the host in the step that fulfils its writer's promise, so
\* no write lands late, or twice.
THEOREM WritesAreSettled ==
    ASSUME AllocMayFail = FALSE
    PROVE  Spec => WriteSettlesItsPromise
<1>1. ASSUME IInv, [Next]_vars,
             NEW k \in Key, store'[k] # Absent,
             store[k] = Absent \/ store'[k].by # store[k].by
      PROVE  /\ promise[store'[k].by].st \in {"none", "pending"}
             /\ promise'[store'[k].by].st = "fulfilled"
    <2>1. /\ promise[store'[k].by] \in {Unmade, Pending}
          /\ promise'[store'[k].by] \in {Fulfilled(store'[k].val), Fulfilled("undefined")}
        BY <1>1, NextEntryStep DEF EntryStep
    <2> QED
        BY <2>1 DEF Unmade, Pending, Fulfilled
<1>2. IInv /\ [Next]_vars =>
          [\A k \in Key :
              store'[k] # Absent /\ (store[k] = Absent \/ store'[k].by # store[k].by)
              => /\ promise[store'[k].by].st \in {"none", "pending"}
                 /\ promise'[store'[k].by].st = "fulfilled"]_vars
    BY <1>1
<1> QED
    BY <1>2, IInvHolds, PTL DEF Spec, WriteSettlesItsPromise

-----------------------------------------------------------------------------
(* The refinement: the state of the contract, as the builtin has it. *)

\* The variables of the contract.
WaitingNow == [i \in Instance |-> [k \in Key |-> WaitingOn(inflight[i][k])]]
OutcomeNow == [c \in Call |-> OutcomeOf(c)]
CachedAs(k) == IF Present(k) THEN store[k].val ELSE Absent
CachedNow == [k \in Key |-> CachedAs(k)]

\* Who holds which promise: the maker of a promise holds it, and another call
\* can hold it only if it is that of a populator.
Holders ==
    /\ \A c \in Call : answer[c] \in Call => answer[answer[c]] = answer[c]
    /\ \A c \in Call : answer[c] \in Call /\ answer[c] # c =>
          job[answer[c]] = NoJob \/ Flying(answer[c])
    /\ \A p \in Call : job[p] # NoJob => answer[p] = p

Inv == IInv /\ MapExact /\ WorkToCome /\ Holders

-----------------------------------------------------------------------------
(* What a caller sees *)

Shown(P) ==
    CASE P.st = "fulfilled" -> P.val
      [] P.st = "rejected"  -> "failed"
      [] P.st = "lost"      -> "gone"
      [] OTHER -> "open"

LEMMA ShownStates ==
    /\ \A v : Shown(Fulfilled(v)) = v
    /\ Shown(Rejected) = "failed" /\ Shown(Lost) = "gone"
    /\ Shown(Pending) = "open" /\ Shown(Unmade) = "open"
  BY DEF Shown, Fulfilled, Rejected, Lost, Pending, Unmade

Sees(c) ==
    /\ answer[c] = None => OutcomeOf(c) = "open"
    /\ answer[c] = Threw => OutcomeOf(c) = "failed"
    /\ answer[c] \in Call => OutcomeOf(c) = Shown(promise[answer[c]])

LEMMA CallersSee == ASSUME NEW c \in Call PROVE Sees(c) /\ Sees(c)'
<1>1. Sees(c)
  BY CacheAssumption DEF Sees, OutcomeOf, Shown
<1>2. Sees(c)'
  BY CacheAssumption DEF Sees, OutcomeOf, Shown
<1> QED
  BY <1>1, <1>2

\* A change of one entry of a function of two arguments.
LEMMA OneEntryChanges ==
    ASSUME NEW S, NEW F \in [Instance -> [Key -> S]], NEW G \in [Instance -> [Key -> S]],
           NEW i \in Instance, NEW k \in Key,
           \A j \in Instance, l \in Key : j # i \/ l # k => G[j][l] = F[j][l]
    PROVE  G = [F EXCEPT ![i][k] = G[i][k]]
<1>1. G[i] = [F[i] EXCEPT ![k] = G[i][k]]
  OBVIOUS
<1>2. ASSUME NEW j \in Instance, j # i PROVE G[j] = F[j]
  BY <1>2
<1> QED
  BY <1>1, <1>2

\* Only the holders of a promise see that it settles.
LEMMA SettleIsSeen ==
    ASSUME IInv, NEW p \in Call, NEW P, promise' = [promise EXCEPT ![p] = P],
           UNCHANGED answer
    PROVE  OutcomeNow' = [c \in Call |-> IF answer[c] = p THEN Shown(P) ELSE OutcomeNow[c]]
<1>1. ASSUME NEW c \in Call
      PROVE  OutcomeOf(c)' = IF answer[c] = p THEN Shown(P) ELSE OutcomeOf(c)
  <2>1. answer[c] \in Call \cup {None, Threw} /\ promise'[p] = P
        /\ \A q \in Call \ {p} : promise'[q] = promise[q]
    BY DEF IInv, TypeOK, JsTypeOK
  <2> QED
    BY <2>1, CallersSee, CacheAssumption DEF Sees
<1> QED
  BY <1>1 DEF OutcomeNow

\* A call that was not made yet waits for nothing, and nobody holds its promise.
LEMMA FreshIsIdle ==
    ASSUME Inv, NEW c \in Call, Fresh(c)
    PROVE  /\ Contract!Idle(c)
           /\ \A p \in Call : c \notin WaitingOn(p)
           /\ \A d \in Call : answer[d] # c
<1>1. OutcomeOf(c) = "open"
  BY CallersSee DEF Fresh, Sees
<1>2. \A p \in Call : c \notin WaitingOn(p)
  BY CacheAssumption DEF Fresh, WaitingOn
<1>3. \A i \in Instance, k \in Key : c \notin WaitingOn(inflight[i][k])
  BY <1>2 DEF Inv, IInv, TypeOK, JsTypeOK, WaitingOn
<1>4. \A d \in Call : answer[d] # c
  BY CacheAssumption DEF Inv, Holders, Fresh
<1> QED
  BY <1>1, <1>2, <1>3, <1>4 DEF Contract!Idle, Contract!Waiting

\* A call that is over when it returns.
LEMMA ReturnIsSeen ==
    ASSUME Inv, NEW c \in Call, Fresh(c), UNCHANGED inflight, NEW o,
           \/ /\ answer' = [answer EXCEPT ![c] = c]
              /\ \E P : promise' = [promise EXCEPT ![c] = P] /\ Shown(P) = o
           \/ /\ answer' = [answer EXCEPT ![c] = Threw]
              /\ UNCHANGED promise /\ o = "failed"
    PROVE  /\ UNCHANGED WaitingNow
           /\ OutcomeNow' = [d \in Call |-> IF d \in {c} THEN o ELSE OutcomeNow[d]]
<1>1. answer \in [Call -> Call \cup {None, Threw}] /\ promise \in [Call -> Promise]
      /\ inflight \in [Instance -> [Key -> Call \cup {None}]]
  BY DEF Inv, IInv, TypeOK, JsTypeOK
<1>2. /\ \A d \in Call \ {c} : answer'[d] = answer[d] /\ promise'[d] = promise[d] /\ answer[d] # c
      /\ answer'[c] \in {c, Threw} /\ answer[c] = None
  BY <1>1, FreshIsIdle DEF Fresh
<1>3. ASSUME NEW d \in Call PROVE OutcomeOf(d)' = IF d = c THEN o ELSE OutcomeOf(d)
  <2>1. CASE d = c
    BY <1>1, <2>1, CallersSee, CacheAssumption DEF Sees
  <2>2. CASE d # c
    <3>1. answer'[d] = answer[d] /\ (answer[d] \in Call => promise'[answer[d]] = promise[answer[d]])
      BY <1>2, <2>2
    <3> QED
      BY <1>1, <2>2, <3>1, CallersSee DEF Sees
  <2> QED
    BY <2>1, <2>2
<1>4. ASSUME NEW i \in Instance, NEW k \in Key
      PROVE  WaitingOn(inflight[i][k])' = WaitingOn(inflight[i][k])
  <2>1. CASE inflight[i][k] = None
    BY <2>1 DEF WaitingOn
  <2>2. CASE inflight[i][k] # None
    <3>1. PICK p \in Call : p = inflight[i][k]
      BY <1>1, <2>2
    <3>2. p # c
      BY <3>1, FreshHasNoJob DEF Inv, MapExact, Flying, FlightSteps, NoJob
    <3>3. \A d \in Call : answer'[d] = p <=> answer[d] = p
      BY <1>2, <3>2, CacheAssumption
    <3> QED
      BY <3>1, <3>3 DEF WaitingOn
  <2> QED
    BY <2>1, <2>2
<1> QED
  BY <1>3, <1>4 DEF WaitingNow, OutcomeNow

\* A flight lands: its entry goes, and who holds its promise has been waiting.
LEMMA LandIsSeen ==
    ASSUME AllocMayFail = FALSE, Inv, NEW p \in Call, Flying(p), Release(p),
           NEW P, Settle(p, P)
    PROVE  /\ job[p].inst \in Instance /\ job[p].key \in Key
           /\ WaitingNow[job[p].inst][job[p].key] = WaitingOn(p)
           /\ WaitingOn(p) # {}
           /\ WaitingNow' = [WaitingNow EXCEPT ![job[p].inst][job[p].key] = {}]
           /\ OutcomeNow' = [c \in Call |-> IF c \in WaitingOn(p) THEN Shown(P)
                                             ELSE OutcomeNow[c]]
<1> DEFINE i == job[p].inst
           k == job[p].key
<1>1. i \in Instance /\ k \in Key /\ job[p] # NoJob
  BY DEF Inv, IInv, TypeOK, JsTypeOK, Flying, FlightSteps, NoJob, Job
<1>2. inflight[i][k] = p
  BY <1>1 DEF Inv, MapExact
<1>3. answer[p] = p /\ p \in WaitingOn(p)
  BY <1>1, CacheAssumption DEF Inv, Holders, WaitingOn
<1>4. UNCHANGED answer
  BY DEF Settle
<1>5. ASSUME NEW j \in Instance, NEW l \in Key
      PROVE  WaitingOn(inflight[j][l])' =
                 IF j = i /\ l = k THEN {} ELSE WaitingOn(inflight[j][l])
  <2>1. inflight'[j][l] = IF j = i /\ l = k THEN None ELSE inflight[j][l]
    BY DEF Release, Inv, IInv, TypeOK, JsTypeOK
  <2> QED
    BY <1>4, <2>1 DEF WaitingOn
<1>6. WaitingNow' = [WaitingNow EXCEPT ![i][k] = {}]
  <2> HIDE DEF i, k
  <2>1. \A j \in Instance : \A l \in Key :
            WaitingNow'[j][l] = IF j = i /\ l = k THEN {} ELSE WaitingNow[j][l]
    BY <1>5 DEF WaitingNow
  <2>2. /\ WaitingNow = [j \in Instance |-> [l \in Key |-> WaitingNow[j][l]]]
        /\ WaitingNow' = [j \in Instance |-> [l \in Key |-> WaitingNow'[j][l]]]
    BY DEF WaitingNow
  <2> HIDE DEF WaitingNow
  <2> QED
    BY <1>1, <2>1, <2>2
<1>7. \A c \in Call : c \in WaitingOn(p) <=> answer[c] = p
  BY CacheAssumption DEF WaitingOn
<1>8. OutcomeNow' = [c \in Call |-> IF answer[c] = p THEN Shown(P) ELSE OutcomeNow[c]]
  BY <1>4, SettleIsSeen DEF Inv, Settle
<1> QED
  BY <1>1, <1>2, <1>3, <1>6, <1>7, <1>8 DEF WaitingNow

\* The promise of a set in progress is held by its maker alone.
LEMMA SetIsSeen ==
    ASSUME Inv, NEW p \in Call, job[p].step = "set", UNCHANGED inflight, NEW P, Settle(p, P)
    PROVE  /\ Contract!Idle(p)
           /\ UNCHANGED WaitingNow
           /\ OutcomeNow' = [c \in Call |-> IF c \in {p} THEN Shown(P) ELSE OutcomeNow[c]]
<1>1. job[p] # NoJob /\ ~Flying(p) /\ answer[p] = p /\ promise[p] = Pending
  BY DEF Inv, Holders, IInv, FlightInv, JobsPending, NoJob, Flying, FlightSteps
<1>2. \A c \in Call : answer[c] = p <=> c = p
  BY <1>1 DEF Inv, Holders
<1>3. \A i \in Instance, k \in Key : inflight[i][k] # p
  BY <1>1 DEF Inv, MapExact
<1>4. \A i \in Instance, k \in Key : p \notin WaitingOn(inflight[i][k])
  BY <1>1, <1>3 DEF WaitingOn
<1>5. OutcomeOf(p) = "open"
  BY <1>1, CallersSee, ShownStates DEF Sees
<1>6. Contract!Idle(p)
  BY <1>4, <1>5 DEF Contract!Idle, Contract!Waiting
<1>7. UNCHANGED WaitingNow
  BY DEF WaitingNow, WaitingOn, Settle
<1>8. OutcomeNow' = [c \in Call |-> IF answer[c] = p THEN Shown(P) ELSE OutcomeNow[c]]
  BY SettleIsSeen DEF Inv, Settle
<1> QED
  BY <1>2, <1>6, <1>7, <1>8

\* Work that goes on shows nothing.
LEMMA MoveIsUnseen ==
    ASSUME UNCHANGED <<inflight, promise, answer>>
    PROVE  UNCHANGED <<WaitingNow, OutcomeNow>>
<1>1. UNCHANGED WaitingNow
  BY DEF WaitingNow, WaitingOn
<1>2. UNCHANGED OutcomeNow
  BY DEF OutcomeNow, OutcomeOf
<1> QED
  BY <1>1, <1>2

-----------------------------------------------------------------------------
(* What is cached *)

LEMMA StoreIsCached ==
    ASSUME IInv
    PROVE  /\ UNCHANGED store => UNCHANGED CachedNow
           /\ \A K : Erase(K) =>
                 CachedNow' = [k \in Key |-> IF k \in K THEN Absent ELSE CachedNow[k]]
           /\ \A k \in Key, v \in Val, ttl \in Deadline, w \in Call, due \in Deadline :
                 Put(k, v, ttl, w, due) => CachedNow' = [CachedNow EXCEPT ![k] = v]
           /\ \A k \in Key, v \in Val, w \in Call :
                 Count(k, v, w) => CachedNow' = [CachedNow EXCEPT ![k] = v]
           /\ \A k \in Key, ttl \in Deadline, due \in Deadline :
                 Present(k) /\ Renew(k, ttl, due) => UNCHANGED CachedNow
<1>1. store \in [Key -> Entry \cup {Absent}] /\ now \in Nat
  BY HostCacheAssumption DEF IInv, TypeOK, HostTypeOK
<1>2. UNCHANGED store => UNCHANGED CachedNow
  BY DEF CachedNow, CachedAs, Present
<1>3. ASSUME NEW K, Erase(K)
      PROVE  CachedNow' = [k \in Key |-> IF k \in K THEN Absent ELSE CachedNow[k]]
  BY <1>1, <1>3 DEF Erase, CachedNow, CachedAs, Present
<1>4. ASSUME NEW k \in Key, NEW v \in Val, NEW e \in Entry, e.val = v,
             store' = [store EXCEPT ![k] = e]
      PROVE  CachedNow' = [CachedNow EXCEPT ![k] = v]
  <2>1. \A l \in Key : CachedAs(l)' = IF l = k THEN v ELSE CachedAs(l)
    BY <1>1, <1>4, AbsentAssumption DEF CachedAs, Present
  <2> QED
    BY <2>1 DEF CachedNow
<1>5. ASSUME NEW k \in Key, NEW v \in Val, NEW ttl \in Deadline, NEW w \in Call,
             NEW due \in Deadline, Put(k, v, ttl, w, due)
      PROVE  CachedNow' = [CachedNow EXCEPT ![k] = v]
  <2>1. DeadlineAfter(ttl) \in Deadline
    BY <1>1 DEF DeadlineAfter, Deadline
  <2>2. [val |-> v, deadline |-> DeadlineAfter(ttl), by |-> w, due |-> due] \in Entry
    BY <2>1, CacheAssumption DEF Entry
  <2> QED
    BY <1>4, <1>5, <2>2 DEF Put
<1>6. ASSUME NEW k \in Key, NEW v \in Val, NEW w \in Call, Count(k, v, w)
      PROVE  CachedNow' = [CachedNow EXCEPT ![k] = v]
  <2> DEFINE e == IF store[k] = Absent
                  THEN [val |-> v, deadline |-> NoExpiry, by |-> w, due |-> NoExpiry]
                  ELSE [store[k] EXCEPT !.val = v, !.by = w]
  <2>1. e \in Entry /\ e.val = v
    <3>1. CASE store[k] = Absent
      BY <3>1, CacheAssumption DEF Entry, Deadline
    <3>2. CASE store[k] # Absent
      <4>1. store[k] \in Entry
        BY <1>1, <3>2
      <4> QED
        BY <3>2, <4>1, CacheAssumption DEF Entry
    <3> QED
      BY <3>1, <3>2
  <2>2. store' = [store EXCEPT ![k] = e]
    BY <1>6 DEF Count
  <2> HIDE DEF e
  <2> QED
    BY <1>4, <2>1, <2>2
<1>7. ASSUME NEW k \in Key, NEW ttl \in Deadline, NEW due \in Deadline,
             Present(k), Renew(k, ttl, due)
      PROVE  UNCHANGED CachedNow
  <2>1. store[k] \in Entry /\ DeadlineAfter(ttl) \in Deadline
    BY <1>1, <1>7 DEF Present, DeadlineAfter, Deadline
  <2>2. /\ store'[k] \in Entry /\ store'[k].val = store[k].val
        /\ \A l \in Key \ {k} : store'[l] = store[l]
    BY <1>1, <1>7, <2>1 DEF Renew, Entry
  <2>3. \A l \in Key : CachedAs(l)' = CachedAs(l)
    BY <1>7, <2>2, AbsentAssumption DEF CachedAs, Present
  <2> QED
    BY <2>3 DEF CachedNow
<1> QED
  BY <1>2, <1>3, <1>5, <1>6, <1>7

-----------------------------------------------------------------------------
(* Who holds what *)

LEMMA HoldersStay ==
    ASSUME Holders, UNCHANGED answer,
           \A q \in Call : \/ job'[q] = NoJob
                           \/ job'[q] = job[q]
                           \/ job[q] # NoJob /\ (Flying(q) => Flying(q)')
    PROVE  Holders'
<1>1. \A q \in Call : job'[q] = job[q] => (Flying(q) => Flying(q)')
  BY DEF Flying
<1> QED
  BY <1>1 DEF Holders

\* A call that was not made yet takes a promise of its own, or none.
LEMMA MakerHolds ==
    ASSUME Inv, NEW c \in Call, Fresh(c), NEW a \in {c, Threw},
           answer' = [answer EXCEPT ![c] = a],
           \A q \in Call \ {c} : job'[q] = job[q],
           job'[c] = NoJob \/ a = c
    PROVE  Holders'
<1>1. \A d \in Call : answer[d] # c
  BY FreshIsIdle
<1>2. /\ \A d \in Call \ {c} : answer'[d] = answer[d]
      /\ answer'[c] = a /\ answer[c] = None
  BY DEF Inv, IInv, TypeOK, JsTypeOK, Fresh
<1>3. \A q \in Call \ {c} : Flying(q)' <=> Flying(q)
  BY DEF Flying
<1> QED
  BY <1>1, <1>2, <1>3, CacheAssumption DEF Inv, Holders

LEMMA NextHolders ==
    ASSUME AllocMayFail = FALSE, Inv, [Next]_vars
    PROVE  Holders'
<1> USE DEF Inv
<1>1. CASE UNCHANGED <<answer, job>>
  BY <1>1 DEF Holders, Flying
<1>2. ASSUME NEW c \in Call,
             \/ PlainCall(c)
             \/ \E o \in Options :
                   \/ SetThrows(c, o) \/ SetBadValue(c, o) \/ GetOrSetThrows(c, o)
                   \/ \E k \in Key, v \in Val : SetBytes(c, k, v, o)
                   \/ \E k \in Key : GetOrSetHit(c, k, o)
      PROVE  Holders'
  <2>1. Fresh(c) /\ (ThrowSync(c) \/ \E outcome : Return(c, outcome))
    BY <1>2, AnsweredAtOnce DEF IInv
  <2>2. job'[c] = NoJob /\ UNCHANGED job
    BY <2>1, FreshHasNoJob DEF ThrowSync, Return
  <2>3. answer' = [answer EXCEPT ![c] = c] \/ answer' = [answer EXCEPT ![c] = Threw]
    BY <2>1 DEF ThrowSync, Return
  <2> QED
    BY <2>1, <2>2, <2>3, MakerHolds
<1>3. ASSUME NEW c \in Call, NEW o \in Options, NEW i \in Instance, NEW k \in Key, NEW W,
             SetBody(c, i, W, k, o) \/ GetOrSetStart(c, i, W, k, o)
      PROVE  Holders'
  <2>1. \A q \in Call \ {c} : job'[q] = job[q]
    BY <1>3 DEF SetBody, GetOrSetStart, IInv, TypeOK, JsTypeOK
  <2> QED
    BY <1>3, <2>1, MakerHolds DEF SetBody, GetOrSetStart
<1>4. ASSUME NEW c \in Call, NEW o \in Options, NEW i \in Instance, NEW k \in Key, NEW W,
             GetOrSetJoin(c, i, W, k, o)
      PROVE  Holders'
  <2>1. PICK p \in Call : p = inflight[i][k]
    BY <1>4 DEF GetOrSetJoin, IInv, TypeOK, JsTypeOK
  <2>2. Flying(p)
    BY <2>1 DEF MapExact
  <2>3. job[p] # NoJob /\ p # c /\ job[c] = NoJob
    BY <1>4, <2>2, FreshHasNoJob DEF GetOrSetJoin, Flying, FlightSteps, NoJob
  <2>4. /\ \A d \in Call \ {c} : answer'[d] = answer[d] /\ answer[d] # c
        /\ answer'[c] = p /\ answer[c] = None
        /\ UNCHANGED job
    BY <1>4, <2>1, FreshIsIdle DEF GetOrSetJoin, IInv, TypeOK, JsTypeOK, Fresh
  <2> QED
    BY <2>2, <2>3, <2>4, CacheAssumption DEF Holders, Flying
<1>5. ASSUME NEW p \in Call, SetSettles(p) \/ PopulateSettles(p) \/ BytesSettle(p)
      PROVE  Holders'
  <2>1. CASE \E P : Settle(p, P)
    <3>1. UNCHANGED answer /\ \A q \in Call : job'[q] = NoJob \/ job'[q] = job[q]
      BY <2>1 DEF Settle, IInv, TypeOK, JsTypeOK
    <3> QED
      BY <3>1, HoldersStay
  <2>2. CASE PopulateBody(p)
    <3>1. job[p] \in Job /\ job[p].step = "populate"
      BY <2>2 DEF PopulateBody, Ready, IInv, TypeOK, JsTypeOK, NoJob
    <3>2. UNCHANGED answer /\ job'[p].step = "bytes" /\ \A q \in Call \ {p} : job'[q] = job[q]
      BY <2>2, <3>1 DEF PopulateBody, GoOn, Job, IInv, TypeOK, JsTypeOK
    <3> QED
      BY <3>1, <3>2, HoldersStay DEF Flying, FlightSteps, NoJob
  <2> QED
    BY <1>5, <2>1, <2>2
    DEF SetSettles, SetThen, SetCatch, PopulateSettles, BytesSettle, PopulateNull,
        PopulateBadValue, PopulateCatch, PopulateBytes, BytesCatch, BytesThen, Finalize,
        Reject, Drop
<1>6. ASSUME NEW i \in Instance, PopulateLeaves(i) PROVE Holders'
  <2>1. stack[i] # <<>>
    BY <1>6 DEF PopulateLeaves, PopulateThrows, PopulateReturns, GetOrSetAborts
  <2>2. PICK p \in Call : p = Head(stack[i])
    BY <2>1, HeadOfStack
  <2>3. job[p] \in Job /\ job[p].step = "populating"
    BY <2>1, <2>2, HeadOfStack
  <2>4. CASE Settle(p, Rejected)
    <3>1. UNCHANGED answer /\ \A q \in Call : job'[q] = NoJob \/ job'[q] = job[q]
      BY <2>4 DEF Settle, IInv, TypeOK, JsTypeOK
    <3> QED
      BY <3>1, HoldersStay
  <2>5. CASE PopulateReturns(i)
    <3>1. UNCHANGED answer /\ job'[p].step = "populate" /\ \A q \in Call \ {p} : job'[q] = job[q]
      BY <2>2, <2>3, <2>5 DEF PopulateReturns, Job, IInv, TypeOK, JsTypeOK
    <3> QED
      BY <2>3, <3>1, HoldersStay DEF Flying, FlightSteps, NoJob
  <2> QED
    BY <1>6, <2>2, <2>4, <2>5 DEF PopulateLeaves, PopulateThrows, GetOrSetAborts
<1>7. ASSUME NEW i \in Instance, InstanceEnds(i) PROVE Holders'
  <2>1. UNCHANGED answer /\ \A q \in Call : job'[q] = NoJob \/ job'[q] = job[q]
    BY <1>7 DEF InstanceEnds
  <2> QED
    BY <2>1, HoldersStay
<1> QED
  BY <1>1, <1>2, <1>3, <1>4, <1>5, <1>6, <1>7
  DEF Next, vars, HostStep, jsVars, SetCall, GetOrSetCall

-----------------------------------------------------------------------------
(* Every step is one of the contract *)

OnlyAnswers(c, o) ==
    /\ UNCHANGED WaitingNow
    /\ OutcomeNow' = [d \in Call |-> IF d \in {c} THEN o ELSE OutcomeNow[d]]

\* A call that is answered alone reads, writes or erases.
LEMMA CallIsAllowed ==
    ASSUME NEW c \in Call, Contract!Idle(c), NEW o, OnlyAnswers(c, o)
    PROVE  /\ /\ UNCHANGED CachedNow /\ o # Absent
              /\ o \in {"failed", "null"} \cup Reply \cup {CachedNow[k] : k \in Key}
              => Contract!Next
           /\ \A k \in Key, v \in Val :
                 CachedNow' = [CachedNow EXCEPT ![k] = v] /\ o \in {v} \cup Reply
                 => Contract!Next
           /\ \A K \in SUBSET Key :
                 /\ CachedNow' = [k \in Key |-> IF k \in K THEN Absent ELSE CachedNow[k]]
                 /\ o \in Reply
                 => Contract!Next
<1> USE DEF OnlyAnswers, Contract!Next
<1>1. ASSUME UNCHANGED CachedNow, o # Absent,
             o \in {"failed", "null"} \cup Reply \cup {CachedNow[k] : k \in Key}
      PROVE  Contract!Next
  <2>1. Contract!Read(c)
    BY <1>1 DEF Contract!Read, Contract!Answer, WaitingNow, OutcomeNow, CachedNow, CachedAs
  <2> QED
    BY <2>1
<1>2. ASSUME NEW k \in Key, NEW v \in Val, CachedNow' = [CachedNow EXCEPT ![k] = v],
             o \in {v} \cup Reply
      PROVE  Contract!Next
  <2>1. Contract!Write(c, k, v)
    BY <1>2 DEF Contract!Write, Contract!Answer, WaitingNow, OutcomeNow, CachedNow, CachedAs
  <2> QED
    BY <2>1
<1>3. ASSUME NEW K \in SUBSET Key, o \in Reply,
             CachedNow' = [k \in Key |-> IF k \in K THEN Absent ELSE CachedNow[k]]
      PROVE  Contract!Next
  <2>1. Contract!EraseCall(c)
    BY <1>3 DEF Contract!EraseCall, Contract!Erased, Contract!Answer, WaitingNow, OutcomeNow,
                CachedNow, CachedAs
  <2> QED
    BY <2>1
<1> QED
  BY <1>1, <1>2, <1>3

LEMMA ReturnIsAllowed ==
    ASSUME Inv, NEW c \in Call, Fresh(c)
    PROVE  /\ Contract!Idle(c)
           /\ \A P : Return(c, P) => OnlyAnswers(c, Shown(P))
           /\ ThrowSync(c) => OnlyAnswers(c, "failed")
<1>1. ASSUME NEW P, Return(c, P) PROVE OnlyAnswers(c, Shown(P))
  BY <1>1, ReturnIsSeen DEF Return, OnlyAnswers
<1>2. ASSUME ThrowSync(c) PROVE OnlyAnswers(c, "failed")
  BY <1>2, ReturnIsSeen DEF ThrowSync, OnlyAnswers
<1> QED
  BY <1>1, <1>2, FreshIsIdle

LEMMA FailureIsAllowed ==
    ASSUME Inv, Absent # "failed", NEW c \in Call, Fresh(c), ThrowSync(c) \/ HostFails(c)
    PROVE  Contract!Next
<1>1. OnlyAnswers(c, "failed") /\ UNCHANGED store
  BY ReturnIsAllowed, ShownStates DEF HostFails, hostVars, ThrowSync
<1>2. UNCHANGED CachedNow
  BY <1>1, StoreIsCached DEF Inv
<1> QED
  BY <1>1, <1>2, ReturnIsAllowed, CallIsAllowed

LEMMA PlainIsAllowed ==
    ASSUME Absent \notin Val \cup Reply \cup {"failed"}, AllocMayFail = FALSE,
           Inv, NEW c \in Call, PlainCall(c)
    PROVE  Contract!Next
<1>1. Fresh(c)
  BY DEF PlainCall, Get, Exists, Delete, Expire, Incr, Purge, PurgePrefix
<1>2. Contract!Idle(c) /\ \A o : Return(c, Fulfilled(o)) => OnlyAnswers(c, o)
  BY <1>1, ReturnIsAllowed, ShownStates
<1>3. CASE ThrowSync(c) \/ HostFails(c)
  BY <1>1, <1>3, FailureIsAllowed
<1>4. ASSUME NEW k \in Key, Get(c, k), ~HostFails(c) PROVE Contract!Next
  <2> DEFINE o == IF Present(k) THEN store[k].val ELSE "null"
  <2>1. Return(c, Fulfilled(o)) /\ UNCHANGED store
    BY <1>4 DEF Get, hostVars
  <2>2. o # Absent /\ o \in {"null"} \cup {CachedNow[l] : l \in Key}
    <3>1. Present(k) => store[k].val \in Val
      BY DEF Present, Inv, IInv, TypeOK, HostTypeOK, Entry
    <3>2. Present(k) => CachedNow[k] = store[k].val
      BY DEF CachedNow, CachedAs
    <3> QED
      BY <3>1, <3>2 DEF Reply
  <2> HIDE DEF o
  <2> QED
    BY <1>2, <2>1, <2>2, CallIsAllowed, StoreIsCached DEF Inv
<1>5. ASSUME NEW k \in Key, Exists(c, k), ~HostFails(c) PROVE Contract!Next
  <2>1. PICK o \in {"true", "false"} : Return(c, Fulfilled(o)) /\ UNCHANGED store
    BY <1>5 DEF Exists, hostVars
  <2>2. o \in Reply
    BY DEF Reply
  <2> QED
    BY <1>2, <2>1, <2>2, CallIsAllowed, StoreIsCached DEF Inv
<1>6. ASSUME NEW K \in SUBSET Key, NEW o \in {"undefined", "count"}, Erase(K),
             Return(c, Fulfilled(o))
      PROVE  Contract!Next
  <2>1. o \in Reply
    BY DEF Reply
  <2> QED
    BY <1>2, <1>6, <2>1, CallIsAllowed, StoreIsCached DEF Inv
<1>7. ASSUME NEW k \in Key, NEW o \in Options, Expire(c, k, o), ~HostFails(c), ~ThrowSync(c)
      PROVE  Contract!Next
  <2>1. PICK r \in {"true", "false"} : Return(c, Fulfilled(r))
    BY <1>7 DEF Expire
  <2>2. UNCHANGED CachedNow
    <3>1. ValidOptions(o) => TtlMs(o) \in Deadline /\ Due(o) \in Deadline
      BY OptionsTyped DEF Inv, IInv, TypeOK
    <3> QED
      BY <1>7, <3>1, StoreIsCached DEF Expire, hostVars, Inv
  <2>3. r \in Reply
    BY DEF Reply
  <2> QED
    BY <1>2, <2>1, <2>2, <2>3, CallIsAllowed
<1>8. ASSUME NEW k \in Key, Incr(c, k), ~HostFails(c) PROVE Contract!Next
  <2>1. PICK n \in Number : Count(k, n, c) /\ Return(c, Fulfilled(n))
    BY <1>8 DEF Incr
  <2>2. n \in Val
    BY CacheAssumption
  <2> QED
    BY <1>2, <2>1, <2>2, CallIsAllowed, StoreIsCached DEF Inv
<1>9. CASE /\ ~HostFails(c)
           /\ \/ \E k \in Key : Delete(c, k)
              \/ Purge(c) \/ \E K \in Prefix : PurgePrefix(c, K)
  BY <1>6, <1>9, CacheAssumption DEF Delete, Purge, PurgePrefix
<1> QED
  BY <1>3, <1>4, <1>5, <1>7, <1>8, <1>9 DEF PlainCall

LEMMA SetIsAllowed ==
    ASSUME Absent \notin Val \cup Reply \cup {"failed"}, AllocMayFail = FALSE,
           Inv, NEW c \in Call, SetCall(c)
    PROVE  Contract!Next \/ UNCHANGED <<WaitingNow, OutcomeNow, CachedNow>>
<1>1. ASSUME NEW o \in Options, SetThrows(c, o) PROVE Contract!Next
  BY <1>1, FailureIsAllowed DEF SetThrows
<1>2. ASSUME NEW o \in Options, SetBadValue(c, o) PROVE Contract!Next
  BY <1>2, FailureIsAllowed DEF SetBadValue, HostFails
<1>3. ASSUME NEW o \in Options, NEW k \in Key, NEW v \in Val, SetBytes(c, k, v, o)
      PROVE  Contract!Next
  <2>1. Fresh(c) /\ TtlMs(o) \in Deadline /\ Due(o) \in Deadline
    BY <1>3, OptionsTyped DEF SetBytes, Inv, IInv, TypeOK
  <2>2. CASE HostFails(c)
    BY <2>1, <2>2, FailureIsAllowed
  <2>3. CASE Put(k, v, TtlMs(o), c, Due(o)) /\ Return(c, Fulfilled("undefined"))
    <3>1. CachedNow' = [CachedNow EXCEPT ![k] = v]
      BY <2>1, <2>3, StoreIsCached DEF Inv
    <3>2. Contract!Idle(c) /\ OnlyAnswers(c, "undefined")
      BY <2>1, <2>3, ReturnIsAllowed, ShownStates
    <3> QED
      BY <3>1, <3>2, CallIsAllowed DEF Reply
  <2> QED
    BY <1>3, <2>2, <2>3 DEF SetBytes
<1>4. ASSUME NEW o \in Options, NEW i \in Instance, NEW k \in Key, NEW W,
             SetBody(c, i, W, k, o)
      PROVE  UNCHANGED <<WaitingNow, OutcomeNow, CachedNow>>
  <2>1. Fresh(c) /\ UNCHANGED <<inflight, store>>
        /\ answer' = [answer EXCEPT ![c] = c] /\ promise' = [promise EXCEPT ![c] = Pending]
    BY <1>4 DEF SetBody
  <2>2. /\ UNCHANGED WaitingNow
        /\ OutcomeNow' = [d \in Call |-> IF d \in {c} THEN "open" ELSE OutcomeNow[d]]
    BY <2>1, ReturnIsSeen, ShownStates
  <2>3. OutcomeNow[c] = "open"
    BY <2>1, CallersSee DEF Sees, Fresh, OutcomeNow
  <2>4. UNCHANGED OutcomeNow
    BY <2>2, <2>3 DEF OutcomeNow
  <2>5. UNCHANGED CachedNow
    BY <2>1, StoreIsCached DEF Inv
  <2> QED
    BY <2>2, <2>4, <2>5
<1> QED
  BY <1>1, <1>2, <1>3, <1>4 DEF SetCall

\* A read that misses joins the waiters of its instance and key, the first one too.
LEMMA MissIsAllowed ==
    ASSUME Inv, NEW c \in Call, Fresh(c), NEW i \in Instance, NEW k \in Key, ~Present(k),
           UNCHANGED store,
           NEW p \in Call, answer' = [answer EXCEPT ![c] = p], promise'[p] = Pending,
           \A q \in Call \ {c} : promise'[q] = promise[q],
           \/ p = inflight[i][k] /\ UNCHANGED inflight
           \/ p = c /\ inflight[i][k] = None /\ inflight' = [inflight EXCEPT ![i][k] = c]
    PROVE  Contract!Next
<1>1. /\ \A d \in Call \ {c} : answer'[d] = answer[d] /\ answer[d] # c
      /\ answer'[c] = p /\ answer[c] = None
      /\ inflight \in [Instance -> [Key -> Call \cup {None}]]
      /\ answer \in [Call -> Call \cup {None, Threw}]
  BY FreshIsIdle DEF Inv, IInv, TypeOK, JsTypeOK, Fresh
<1>2. \A j \in Instance, l \in Key :
         /\ inflight'[j][l] = IF j = i /\ l = k THEN p ELSE inflight[j][l]
         /\ inflight[j][l] # c
         /\ inflight[j][l] = p => j = i /\ l = k
  <2>1. ~Flying(c)
    BY FreshHasNoJob DEF Inv, Flying, FlightSteps
  <2>2. \A j \in Instance, l \in Key : inflight[j][l] # c
    BY <2>1 DEF Inv, MapExact
  <2>3. \A j \in Instance, l \in Key : inflight[j][l] = p => j = i /\ l = k
    BY <2>2 DEF Inv, MapExact
  <2> QED
    BY <1>1, <2>2, <2>3
<1>3. WaitingOn(inflight[i][k])' = WaitingOn(inflight[i][k]) \cup {c}
  <2>1. inflight[i][k] \in {p, None} /\ (inflight[i][k] = None => p = c)
    BY CacheAssumption
  <2> QED
    BY <1>1, <1>2, <2>1, CacheAssumption DEF WaitingOn
<1>4. ASSUME NEW j \in Instance, NEW l \in Key, j # i \/ l # k
      PROVE  WaitingOn(inflight[j][l])' = WaitingOn(inflight[j][l])
  <2>1. inflight'[j][l] = inflight[j][l] /\ inflight[j][l] # p
    BY <1>2, <1>4
  <2>2. PICK q \in Call \cup {None} : q = inflight[j][l]
    BY <1>1
  <2>3. q # None => \A d \in Call : answer'[d] = q <=> answer[d] = q
    BY <1>1, <2>1, <2>2
  <2> QED
    BY <2>1, <2>2, <2>3 DEF WaitingOn
<1>5. WaitingNow' = [WaitingNow EXCEPT ![i][k] = @ \cup {c}]
  <2>1. PICK F, G : F = WaitingNow /\ G = WaitingNow'
    OBVIOUS
  <2>2. F \in [Instance -> [Key -> SUBSET Call]] /\ G \in [Instance -> [Key -> SUBSET Call]]
    BY <2>1 DEF WaitingNow, WaitingOn
  <2>3. G[i][k] = F[i][k] \cup {c}
    BY <1>3, <2>1 DEF WaitingNow
  <2>4. \A j \in Instance, l \in Key : j # i \/ l # k => G[j][l] = F[j][l]
    BY <1>4, <2>1 DEF WaitingNow
  <2>5. G = [F EXCEPT ![i][k] = G[i][k]]
    BY <2>2, <2>4, OneEntryChanges
  <2> QED
    BY <2>1, <2>3, <2>5
<1>6. UNCHANGED OutcomeNow
  <2>1. ASSUME NEW d \in Call, d # c PROVE OutcomeOf(d)' = OutcomeOf(d)
    BY <1>1, <2>1, CallersSee DEF Sees
  <2>2. OutcomeOf(c) = "open" /\ OutcomeOf(c)' = "open"
    BY <1>1, CallersSee, ShownStates, CacheAssumption DEF Sees
  <2> QED
    BY <2>1, <2>2 DEF OutcomeNow
<1>7. UNCHANGED CachedNow /\ CachedNow[k] = Absent
  BY StoreIsCached DEF Inv, CachedNow, CachedAs
<1>8. Contract!Miss(c, i, k)
  BY <1>5, <1>6, <1>7, FreshIsIdle DEF Contract!Miss, WaitingNow, OutcomeNow, CachedNow, CachedAs
<1> QED
  BY <1>8 DEF Contract!Next

LEMMA GetOrSetIsAllowed ==
    ASSUME Absent \notin Val \cup Reply \cup {"failed"}, AllocMayFail = FALSE,
           Inv, NEW c \in Call, GetOrSetCall(c)
    PROVE  Contract!Next
<1>1. ASSUME NEW o \in Options, GetOrSetThrows(c, o) PROVE Contract!Next
  BY <1>1, FailureIsAllowed DEF GetOrSetThrows
<1>2. ASSUME NEW o \in Options, NEW k \in Key, GetOrSetHit(c, k, o) PROVE Contract!Next
  <2>1. CASE HostFails(c)
    BY <1>2, <2>1, FailureIsAllowed DEF GetOrSetHit
  <2>2. CASE Present(k) /\ Return(c, Fulfilled(store[k].val)) /\ UNCHANGED hostVars
    <3>1. Contract!Idle(c) /\ OnlyAnswers(c, store[k].val) /\ UNCHANGED CachedNow
      BY <1>2, <2>2, ReturnIsAllowed, ShownStates, StoreIsCached
      DEF GetOrSetHit, hostVars, Inv
    <3>2. store[k].val \in Val /\ CachedNow[k] = store[k].val
      BY <2>2 DEF Present, CachedNow, CachedAs, Inv, IInv, TypeOK, HostTypeOK, Entry
    <3>3. store[k].val # Absent /\ store[k].val \in {CachedNow[l] : l \in Key}
      BY <3>2
    <3> QED
      BY <3>1, <3>3, CallIsAllowed
  <2> QED
    BY <1>2, <2>1, <2>2 DEF GetOrSetHit
<1>3. ASSUME NEW o \in Options, NEW i \in Instance, NEW k \in Key, NEW W,
             GetOrSetJoin(c, i, W, k, o)
      PROVE  Contract!Next
  <2>1. PICK p \in Call : p = inflight[i][k]
    BY <1>3 DEF GetOrSetJoin, Inv, IInv, TypeOK, JsTypeOK
  <2>2. Flying(p) /\ job[p] # NoJob
    BY <2>1 DEF Inv, MapExact, Flying, FlightSteps, NoJob
  <2>3. promise[p] = Pending
    BY <2>2 DEF Inv, IInv, FlightInv, JobsPending
  <2> QED
    BY <1>3, <2>1, <2>3, MissIsAllowed DEF GetOrSetJoin
<1>4. ASSUME NEW o \in Options, NEW i \in Instance, NEW k \in Key, NEW W,
             GetOrSetStart(c, i, W, k, o)
      PROVE  Contract!Next
  <2>1. promise'[c] = Pending /\ \A q \in Call \ {c} : promise'[q] = promise[q]
    BY <1>4 DEF GetOrSetStart, Inv, IInv, TypeOK, JsTypeOK
  <2> QED
    BY <1>4, <2>1, MissIsAllowed DEF GetOrSetStart, Register, Miss
<1> QED
  BY <1>1, <1>2, <1>3, <1>4 DEF GetOrSetCall

LEMMA SetSettlesIsAllowed ==
    ASSUME Absent \notin Val \cup Reply \cup {"failed"}, AllocMayFail = FALSE,
           Inv, NEW p \in Call, SetSettles(p)
    PROVE  Contract!Next
<1>1. job[p].step = "set" /\ UNCHANGED inflight
  BY DEF SetSettles, SetThen, SetCatch
<1>2. job[p] \in Job
  BY <1>1 DEF Inv, IInv, TypeOK, JsTypeOK, NoJob
<1>3. \A P : Settle(p, P) => Contract!Idle(p) /\ OnlyAnswers(p, Shown(P))
  BY <1>1, SetIsSeen DEF OnlyAnswers
<1>4. CASE Settle(p, Rejected) /\ UNCHANGED store
  <2>1. OnlyAnswers(p, "failed") /\ UNCHANGED CachedNow
    BY <1>3, <1>4, ShownStates, StoreIsCached DEF Inv
  <2> QED
    BY <1>3, <1>4, <2>1, CallIsAllowed
<1>5. ASSUME NEW v \in Val, Put(job[p].key, v, job[p].ttl, p, job[p].due),
             Settle(p, Fulfilled("undefined"))
      PROVE  Contract!Next
  <2>1. OnlyAnswers(p, "undefined") /\ "undefined" \in Reply
    BY <1>3, <1>5, ShownStates DEF Reply
  <2>2. PICK k \in Key, ttl \in Deadline, due \in Deadline :
            k = job[p].key /\ ttl = job[p].ttl /\ due = job[p].due
    BY <1>2 DEF Job
  <2>3. CachedNow' = [CachedNow EXCEPT ![k] = v]
    BY <1>5, <2>2, StoreIsCached DEF Inv
  <2> QED
    BY <1>3, <1>5, <2>1, <2>3, CallIsAllowed
<1> QED
  BY <1>4, <1>5 DEF SetSettles, SetThen, SetCatch, Drop, hostVars

\* One step answers all who wait, and caches the value if there is one.
LEMMA LandingIsAllowed ==
    ASSUME AllocMayFail = FALSE, Inv, NEW p \in Call, Flying(p), Release(p)
    PROVE  /\ Settle(p, Rejected) /\ UNCHANGED store => Contract!Next
           /\ Settle(p, Fulfilled("null")) /\ UNCHANGED store => Contract!Next
           /\ \A v \in Val :
                 Settle(p, Fulfilled(v)) /\ Put(job[p].key, v, job[p].ttl, p, job[p].due)
                 => Contract!Next
<1>1. PICK i \in Instance, k \in Key : i = job[p].inst /\ k = job[p].key
  BY DEF Inv, IInv, TypeOK, JsTypeOK, Flying, FlightSteps, NoJob, Job
<1>2. ASSUME NEW P, Settle(p, P)
      PROVE  /\ WaitingNow[i][k] # {}
             /\ WaitingNow' = [WaitingNow EXCEPT ![i][k] = {}]
             /\ OutcomeNow' = [c \in Call |-> IF c \in WaitingNow[i][k] THEN Shown(P)
                                               ELSE OutcomeNow[c]]
  <2> DEFINE Seen(w) == OutcomeNow' = [c \in Call |-> IF c \in w THEN Shown(P)
                                                      ELSE OutcomeNow[c]]
  <2>1. /\ WaitingNow[i][k] = WaitingOn(p) /\ WaitingOn(p) # {}
        /\ WaitingNow' = [WaitingNow EXCEPT ![i][k] = {}]
        /\ Seen(WaitingOn(p))
    BY <1>1, <1>2, LandIsSeen
  <2>2. Seen(WaitingNow[i][k])
    BY <2>1
  <2> QED
    BY <2>1, <2>2
<1>3. ASSUME NEW P, Settle(p, P), Shown(P) \in {"null", "failed"}, UNCHANGED store
      PROVE  Contract!Next
  <2>1. UNCHANGED CachedNow
    BY <1>3, StoreIsCached DEF Inv
  <2>2. Contract!LandNothing(i, k)
    BY <1>2, <1>3, <2>1
    DEF Contract!LandNothing, Contract!Answer, WaitingNow, OutcomeNow, CachedNow, CachedAs
  <2> QED
    BY <2>2 DEF Contract!Next
<1>4. ASSUME NEW v \in Val, Settle(p, Fulfilled(v)),
             Put(job[p].key, v, job[p].ttl, p, job[p].due)
      PROVE  Contract!Next
  <2>1. job[p].ttl \in Deadline /\ job[p].due \in Deadline
    BY DEF Inv, IInv, TypeOK, JsTypeOK, Flying, FlightSteps, NoJob, Job
  <2>2. CachedNow' = [CachedNow EXCEPT ![k] = v]
    BY <1>1, <1>4, <2>1, StoreIsCached DEF Inv
  <2>3. Shown(Fulfilled(v)) = v
    BY ShownStates
  <2>4. OutcomeNow' = [c \in Call |-> IF c \in WaitingNow[i][k] THEN v ELSE OutcomeNow[c]]
    BY <1>2, <1>4, <2>3
  <2>5. Contract!LandValue(i, k, v)
    BY <1>2, <1>4, <2>2, <2>4
    DEF Contract!LandValue, Contract!Answer, WaitingNow, OutcomeNow, CachedNow, CachedAs
  <2> QED
    BY <2>5 DEF Contract!Next
<1> QED
  BY <1>3, <1>4, ShownStates

LEMMA FlightIsAllowed ==
    ASSUME AllocMayFail = FALSE, Inv, NEW p \in Call, PopulateSettles(p) \/ BytesSettle(p)
    PROVE  Contract!Next \/ UNCHANGED <<WaitingNow, OutcomeNow, CachedNow>>
<1>1. Flying(p)
  BY DEF PopulateSettles, BytesSettle, PopulateNull, PopulateBody, PopulateBadValue,
         PopulateCatch, PopulateBytes, BytesCatch, BytesThen, Ready, Flying, FlightSteps
<1>2. CASE PopulateBody(p)
  <2>1. UNCHANGED <<inflight, promise, answer, store>>
    BY <1>2 DEF PopulateBody, GoOn
  <2> QED
    BY <2>1, MoveIsUnseen, StoreIsCached DEF Inv
<1>3. CASE Reject(p)
  BY <1>1, <1>3, LandingIsAllowed DEF Reject, Drop
<1>4. CASE PopulateNull(p)
  BY <1>1, <1>4, LandingIsAllowed DEF PopulateNull, Drop
<1>5. ASSUME NEW v \in Val, Put(job[p].key, v, job[p].ttl, p, job[p].due), Release(p),
             Settle(p, Fulfilled(v))
      PROVE  Contract!Next
  BY <1>1, <1>5, LandingIsAllowed
<1> QED
  BY <1>2, <1>3, <1>4, <1>5
  DEF PopulateSettles, BytesSettle, PopulateBadValue, PopulateCatch, PopulateBytes,
      BytesCatch, BytesThen, Finalize, Drop

LEMMA LeavingIsAllowed ==
    ASSUME AllocMayFail = FALSE, Inv, NEW i \in Instance, PopulateLeaves(i)
    PROVE  Contract!Next \/ UNCHANGED <<WaitingNow, OutcomeNow, CachedNow>>
<1>1. stack[i] # <<>>
  BY DEF PopulateLeaves, PopulateThrows, PopulateReturns, GetOrSetAborts
<1>2. PICK p \in Call : p = Head(stack[i])
  BY <1>1, HeadOfStack DEF Inv
<1>3. Flying(p)
  BY <1>1, <1>2, HeadOfStack DEF Flying, FlightSteps, Inv
<1>4. CASE PopulateThrows(i)
  BY <1>2, <1>3, <1>4, LandingIsAllowed DEF PopulateThrows
<1>5. CASE PopulateReturns(i)
  <2>1. UNCHANGED <<inflight, promise, answer, store>>
    BY <1>5 DEF PopulateReturns
  <2> QED
    BY <2>1, MoveIsUnseen, StoreIsCached DEF Inv
<1> QED
  BY <1>4, <1>5 DEF PopulateLeaves, GetOrSetAborts

\* With an instance go the callers that wait in it, and those of its own whose
\* value is still being read.
LEMMA EndIsAllowed ==
    ASSUME Inv, NEW i \in Instance, InstanceEnds(i)
    PROVE  Contract!Next
<1> DEFINE Reading == {c \in Call : Inhabits(c, i) /\ job[c].step = "set"}
           Loses(c) == answer[c] \in Call /\ Inhabits(answer[c], i)
           C == Reading \cup UNION {WaitingNow[i][k] : k \in Key}
<1>1. \A p \in Call :
         /\ promise'[p] = IF Inhabits(p, i) THEN Lost ELSE promise[p]
         /\ answer'[p] = answer[p]
  BY DEF InstanceEnds
<1>2. \A c \in Call : OutcomeOf(c)' = IF Loses(c) THEN "gone" ELSE OutcomeOf(c)
  BY <1>1, CallersSee, ShownStates DEF Sees, Inv, IInv, TypeOK, JsTypeOK
<1>3. ASSUME NEW c \in Reading PROVE Contract!Idle(c) /\ Loses(c)
  <2>1. job[c] # NoJob /\ ~Flying(c) /\ answer[c] = c /\ promise[c] = Pending
    BY DEF Inv, Holders, IInv, FlightInv, JobsPending, NoJob, Flying, FlightSteps
  <2>2. \A j \in Instance, k \in Key : c \notin WaitingOn(inflight[j][k])
    BY <2>1 DEF Inv, MapExact, WaitingOn
  <2>3. OutcomeOf(c) = "open"
    BY <2>1, CallersSee, ShownStates DEF Sees
  <2> QED
    BY <2>1, <2>2, <2>3 DEF Contract!Idle, Contract!Waiting
<1>4. ASSUME NEW c \in Call PROVE Loses(c) <=> c \in C
  <2>1. ASSUME Loses(c) PROVE c \in C
    <3>1. PICK p \in Call : p = answer[c]
      BY <2>1
    <3>2. job[p] \in Job /\ job[p] # NoJob /\ job[p].inst = i
      BY <2>1, <3>1 DEF Inhabits, Inv, IInv, TypeOK, JsTypeOK
    <3>3. CASE Flying(p)
      <4>1. inflight[i][job[p].key] = p /\ job[p].key \in Key
        BY <3>2, <3>3 DEF Inv, MapExact, Job
      <4>2. c \in WaitingNow[i][job[p].key]
        BY <3>1, <4>1, CacheAssumption DEF WaitingNow, WaitingOn
      <4> QED
        BY <4>1, <4>2
    <3>4. CASE ~Flying(p)
      <4>1. c = p
        BY <3>1, <3>2, <3>4 DEF Inv, Holders
      <4>2. job[p].step = "set"
        BY <3>2, <3>4 DEF Inv, WorkToCome, Job, Steps, Flying
      <4> QED
        BY <2>1, <3>1, <4>1, <4>2
    <3> QED
      BY <3>3, <3>4
  <2>2. ASSUME NEW k \in Key, c \in WaitingNow[i][k] PROVE Loses(c)
    <3>1. c \in WaitingOn(inflight[i][k])
      BY <2>2 DEF WaitingNow
    <3>2. inflight[i][k] \in Call /\ answer[c] = inflight[i][k]
      BY <3>1 DEF WaitingOn, Inv, IInv, TypeOK, JsTypeOK
    <3>3. Flying(answer[c]) /\ job[answer[c]].inst = i
      BY <3>2 DEF Inv, MapExact
    <3> QED
      BY <3>2, <3>3 DEF Inhabits, Flying, FlightSteps, NoJob
  <2> QED
    BY <1>3, <2>1, <2>2
<1>5. OutcomeNow' = [c \in Call |-> IF c \in C THEN "gone" ELSE OutcomeNow[c]]
  BY <1>2, <1>4 DEF OutcomeNow
<1>6. WaitingNow' = [WaitingNow EXCEPT ![i] = [k \in Key |-> {}]]
  <2>1. ASSUME NEW j \in Instance, NEW k \in Key
        PROVE  WaitingOn(inflight[j][k])' = IF j = i THEN {} ELSE WaitingOn(inflight[j][k])
    <3>1. inflight'[j][k] = IF j = i THEN None ELSE inflight[j][k]
      BY DEF InstanceEnds, Inv, IInv, TypeOK, JsTypeOK
    <3> QED
      BY <1>1, <3>1 DEF WaitingOn
  <2> QED
    BY <2>1 DEF WaitingNow
<1>7. UNCHANGED CachedNow
  BY StoreIsCached DEF Inv, InstanceEnds
<1>8. Reading \in SUBSET {c \in Call : Contract!Idle(c)}
  BY <1>3
<1> HIDE DEF Reading, Loses
<1>9. Contract!Vanish(i)
  BY <1>5, <1>6, <1>7, <1>8
  DEF Contract!Vanish, Contract!Answer, WaitingNow, OutcomeNow, CachedNow, CachedAs
<1> QED
  BY <1>9 DEF Contract!Next

LEMMA HostStepIsAllowed ==
    ASSUME Inv, HostStep
    PROVE  Contract!Next
<1>1. UNCHANGED <<WaitingNow, OutcomeNow>>
  BY MoveIsUnseen DEF HostStep, jsVars
<1>2. PICK K \in SUBSET Key : Erase(K)
  BY DEF HostStep, Tick, Evict
<1>3. CachedNow' = [k \in Key |-> IF k \in K THEN Absent ELSE CachedNow[k]]
  BY <1>2, StoreIsCached DEF Inv
<1>4. Contract!Fade
  BY <1>1, <1>3
  DEF Contract!Fade, Contract!Erased, WaitingNow, OutcomeNow, CachedNow, CachedAs
<1> QED
  BY <1>4 DEF Contract!Next

LEMMA NextIsAllowed ==
    ASSUME Absent \notin Val \cup Reply \cup {"failed"}, AllocMayFail = FALSE,
           Inv, [Next]_vars
    PROVE  Contract!Next \/ UNCHANGED <<WaitingNow, OutcomeNow, CachedNow>>
<1>1. CASE UNCHANGED vars
  <2>1. UNCHANGED <<inflight, promise, answer, store>>
    BY <1>1 DEF vars
  <2> QED
    BY <2>1, MoveIsUnseen, StoreIsCached DEF Inv
<1>2. CASE Next
  BY <1>2, HostStepIsAllowed, PlainIsAllowed, SetIsAllowed, GetOrSetIsAllowed,
     SetSettlesIsAllowed, FlightIsAllowed, LeavingIsAllowed, EndIsAllowed DEF Next
<1> QED
  BY <1>1, <1>2

LEMMA InitIsAllowed == Init => Contract!Init
<1> SUFFICES ASSUME Init PROVE Contract!Init
  OBVIOUS
<1>1. WaitingNow = [i \in Instance |-> [k \in Key |-> {}]]
  BY DEF Init, WaitingNow, WaitingOn
<1>2. OutcomeNow = [c \in Call |-> "open"]
  BY CallersSee DEF Init, OutcomeNow, Sees
<1>3. CachedNow = [k \in Key |-> Absent]
  BY DEF Init, HostInit, CachedNow, CachedAs, Present
<1> QED
  BY <1>1, <1>2, <1>3 DEF Contract!Init, WaitingNow, OutcomeNow, CachedNow, CachedAs

-----------------------------------------------------------------------------
\* The builtin implements the documented contract of the cache as long as the
\* engine has memory: coalescing, one outcome for all waiters, values cached in
\* the step that answers, across instances that end and entries that expire.
THEOREM BuiltinImplementsContract ==
    ASSUME AllocMayFail = FALSE, Absent \notin Val \cup Reply \cup {"failed"}
    PROVE  Spec => ImplementsSingleFlight
<1>1. Init => Inv
  <2>1. Init => WorkToCome /\ Holders
    BY CacheAssumption DEF Init, WorkToCome, Holders, IsPending, Unmade, NoJob
  <2> QED
    BY <2>1, InitIInv, ExactMap DEF Inv
<1>2. Inv /\ [Next]_vars => Inv'
  <2>1. IInv' => MapExact'
    <3>1. IInv => MapExact
      BY ExactMap
    <3> QED
      BY <3>1, PTL
  <2> QED
    BY <2>1, NextIInv, NextWorkToCome, NextHolders DEF Inv
<1>3. Inv /\ [Next]_vars => [Contract!Next]_(Contract!vars)
  BY NextIsAllowed DEF Contract!vars, WaitingNow, OutcomeNow, CachedNow, CachedAs
<1> QED
  BY <1>1, <1>2, <1>3, InitIsAllowed, PTL DEF Spec, ImplementsSingleFlight, Contract!Spec
=============================================================================
