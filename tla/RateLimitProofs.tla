-------------------------- MODULE RateLimitProofs --------------------------
(***************************************************************************)
(* Proofs about RateLimit, for any number of requests and clients, any     *)
(* limit and any window.  None of the properties is inductive: which       *)
(* numbers are still to be given out depends on the counter in the store,  *)
(* so the invariant relates it to the requests counted in its window.      *)
(***************************************************************************)
EXTENDS RateLimit, FiniteSetTheorems, TLAPS

Counted == {r \in Request : count[r] # 0}

\* A request has a number from incr on, and is let in by it.
CountedOnce ==
    \A r \in Request :
        /\ pc[r] = "start" => count[r] = 0
        /\ pc[r] \in {"counted", "admitted"} => count[r] # 0
        /\ pc[r] = "admitted" => Allowed(r)

\* A window is named for a request that has opened one.
OpenersAreCounted == \A r \in Counted : window[r] \in Counted

\* The counter in the store is the number of the request that wrote it last,
\* and the highest of its window.
CounterIsHighest ==
    \A k \in Key : Present(k) =>
        /\ store[k].val = count[store[k].by]
        /\ store[k].val # 0
        /\ \A r \in Counted : window[r] = Opener(k) => count[r] <= store[k].val

WindowsAreApart ==
    \A k, l \in Key : Present(k) /\ Present(l) /\ k # l => Opener(k) # Opener(l)

\* No number is higher than the requests counted.
NumbersAreFew == \A r \in Request : count[r] <= Cardinality(Counted)

Culprit(r, k) ==
    /\ ClientKey[r] = k
    /\ pc[r] \in {"counted", "failed"} /\ count[r] = 1 /\ window[r] = Opener(k)

OpenEnded ==
    \A k \in Key : Present(k) /\ store[k].deadline = NoExpiry =>
        \E r \in Request : Culprit(r, k)

IInv ==
    /\ TypeOK /\ CountedOnce /\ OpenersAreCounted /\ CounterIsHighest
    /\ WindowsAreApart /\ NumbersAreFew /\ DistinctCounts /\ OpenEnded

-----------------------------------------------------------------------------
LEMMA CountedIsFinite ==
    ASSUME NEW r \in Request, r \notin Counted
    PROVE  /\ Cardinality(Counted) \in Nat
           /\ Cardinality(Counted) + 1 <= Cardinality(Request)
           /\ Cardinality(Counted \cup {r}) = Cardinality(Counted) + 1
<1>1. IsFiniteSet(Request)
  BY RateLimitAssumption
<1>2. Counted \subseteq Request /\ Counted \cup {r} \subseteq Request
  BY DEF Counted
<1>3. IsFiniteSet(Counted) /\ Cardinality(Counted \cup {r}) <= Cardinality(Request)
  BY <1>1, <1>2, FS_Subset
<1>4. Cardinality(Counted) \in Nat
  BY <1>3, FS_CardinalityType
<1>5. Cardinality(Counted \cup {r}) = Cardinality(Counted) + 1
  BY <1>3, FS_AddElement
<1> QED
  BY <1>3, <1>4, <1>5

LEMMA InitIInv == Init => IInv
<1> SUFFICES ASSUME Init PROVE IInv
  OBVIOUS
<1>1. Counted = {}
  BY DEF Init, Counted
<1>2. Cardinality(Counted) = 0 /\ Cardinality(Request) \in Nat
  BY <1>1, FS_EmptySet, FS_CardinalityType, RateLimitAssumption
<1>3. \A k \in Key : ~Present(k)
  BY DEF Init, HostInit, Present
<1>4. TypeOK
  BY <1>2, HostCacheAssumption DEF Init, HostInit, TypeOK, HostTypeOK
<1>5. CountedOnce /\ OpenersAreCounted /\ NumbersAreFew /\ DistinctCounts
  BY <1>1, <1>2 DEF Init, CountedOnce, OpenersAreCounted, NumbersAreFew, DistinctCounts
<1>6. CounterIsHighest /\ WindowsAreApart /\ OpenEnded
  BY <1>3 DEF CounterIsHighest, WindowsAreApart, OpenEnded
<1> QED
  BY <1>4, <1>5, <1>6 DEF IInv

-----------------------------------------------------------------------------
(* Entries go, by time or eviction; those that stay are as they were. *)

LEMMA HostKeeps ==
    ASSUME IInv, Host
    PROVE  IInv'
<1>1. PICK K \in SUBSET Key : Erase(K)
  <2>1. CASE Tick
    <3>1. {k \in Key : Expired(k, now + 1)} \in SUBSET Key
      OBVIOUS
    <3> QED
      BY <2>1, <3>1 DEF Tick
  <2>2. CASE \E k \in Key : Evict(k)
    <3>1. PICK k \in Key : Evict(k)
      BY <2>2
    <3>2. {k} \in SUBSET Key
      OBVIOUS
    <3> QED
      BY <3>1, <3>2 DEF Evict
  <2> QED
    BY <2>1, <2>2 DEF Host
<1>2. now' \in 0 .. MaxTime
  <2>1. now \in 0 .. MaxTime /\ MaxTime \in Nat
    BY HostCacheAssumption DEF IInv, TypeOK, HostTypeOK
  <2>2. CASE Tick
    BY <2>1, <2>2 DEF Tick
  <2>3. CASE \E k \in Key : Evict(k)
    <3>1. PICK k \in Key : Evict(k)
      BY <2>3
    <3> QED
      BY <2>1, <3>1 DEF Evict
  <2> QED
    BY <2>2, <2>3 DEF Host
<1>3. UNCHANGED <<pc, count, window>>
  BY DEF Host, limVars
<1>4. /\ store' \in [Key -> Entry \cup {Absent}]
      /\ \A k \in Key : Present(k)' => Present(k) /\ store'[k] = store[k]
  BY <1>1 DEF Erase, Present, IInv, TypeOK, HostTypeOK
<1>5. TypeOK'
  BY <1>2, <1>3, <1>4 DEF IInv, TypeOK, HostTypeOK
<1>6. Counted' = Counted
  BY <1>3 DEF Counted
<1>7. CountedOnce' /\ OpenersAreCounted' /\ NumbersAreFew' /\ DistinctCounts'
  BY <1>3, <1>6
     DEF IInv, CountedOnce, Allowed, OpenersAreCounted, NumbersAreFew, DistinctCounts
<1>8. CounterIsHighest' /\ WindowsAreApart'
  BY <1>3, <1>4, <1>6 DEF IInv, CounterIsHighest, WindowsAreApart, Opener
<1>9. OpenEnded'
  BY <1>3, <1>4 DEF IInv, OpenEnded, Culprit, Opener
<1> QED
  BY <1>5, <1>7, <1>8, <1>9 DEF IInv

\* incr failed, or the request was cut short: the numbers are as they were.
LEMMA FailingKeeps ==
    ASSUME IInv, NEW r \in Request, pc[r] \in {"start", "counted"}, Goto(r, "failed"),
           UNCHANGED <<now, store, count, window>>
    PROVE  IInv'
<1>1. pc' = [pc EXCEPT ![r] = "failed"]
  BY DEF Goto
<1>2. TypeOK'
  BY <1>1 DEF IInv, TypeOK, HostTypeOK
<1>3. Counted' = Counted
  BY DEF Counted
<1>4. CountedOnce'
  BY <1>1 DEF IInv, TypeOK, CountedOnce, Allowed
<1>5. OpenersAreCounted' /\ NumbersAreFew' /\ DistinctCounts'
  BY <1>3 DEF IInv, OpenersAreCounted, NumbersAreFew, DistinctCounts
<1>6. CounterIsHighest' /\ WindowsAreApart'
  BY <1>3 DEF IInv, CounterIsHighest, WindowsAreApart, Opener, Present
<1>7. OpenEnded'
  <2>1. \A q \in Request, k \in Key : Culprit(q, k) => Culprit(q, k)'
    BY <1>1 DEF IInv, TypeOK, Culprit, Opener
  <2> QED
    BY <2>1 DEF IInv, OpenEnded, Present
<1> QED
  BY <1>2, <1>4, <1>5, <1>6, <1>7 DEF IInv

-----------------------------------------------------------------------------
(* A request gets the next number of the window, or opens one. *)

LEMMA IncrKeeps ==
    ASSUME IInv, NEW r \in Request, pc[r] = "start", NEW k, k = ClientKey[r],
           Count(k, NextCount(k), r), count' = [count EXCEPT ![r] = NextCount(k)],
           window' = [window EXCEPT ![r] = IF Present(k) THEN Opener(k) ELSE r],
           Goto(r, "counted"), UNCHANGED now
    PROVE  IInv'
<1> DEFINE n == NextCount(k)
<1> DEFINE w == IF Present(k) THEN Opener(k) ELSE r
<1>1. k \in Key
  BY RateLimitAssumption
<1>2. count[r] = 0 /\ r \notin Counted
  BY DEF IInv, CountedOnce, Counted
<1>3. Present(k) => store[k] \in Entry /\ store[k].by \in Request /\ store[k].val \in Nat
  BY <1>1, RateLimitAssumption DEF IInv, TypeOK, HostTypeOK, Present, Entry
<1>4. Present(k) => store[k].by \in Counted /\ Opener(k) \in Counted
  BY <1>1, <1>3 DEF IInv, CounterIsHighest, OpenersAreCounted, Counted, Opener
<1>5. n \in Nat \ {0} /\ w \in Request
  BY <1>3, <1>4 DEF NextCount, Counted
<1>6. n <= Cardinality(Counted) + 1
  <2>1. Cardinality(Counted) \in Nat
    BY <1>2, CountedIsFinite
  <2>2. Present(k) => store[k].val <= Cardinality(Counted)
    BY <1>1, <1>3 DEF IInv, CounterIsHighest, NumbersAreFew
  <2> QED
    BY <1>3, <2>1, <2>2 DEF NextCount
<1>7. /\ Cardinality(Counted) \in Nat /\ Cardinality(Request) \in Nat
      /\ n \in 1 .. Cardinality(Request)
      /\ Cardinality(Counted \cup {r}) = Cardinality(Counted) + 1
  BY <1>2, <1>5, <1>6, CountedIsFinite, FS_CardinalityType, RateLimitAssumption
<1>8. /\ count'[r] = n /\ window'[r] = w /\ pc' = [pc EXCEPT ![r] = "counted"]
      /\ \A q \in Request \ {r} : count'[q] = count[q] /\ window'[q] = window[q]
  BY DEF Goto, IInv, TypeOK
<1>9. Counted' = Counted \cup {r}
  BY <1>5, <1>8 DEF Counted
<1>10. /\ store'[k].val = n /\ store'[k].by = r
       /\ store'[k].deadline = IF Present(k) THEN store[k].deadline ELSE NoExpiry
       /\ \A l \in Key \ {k} : store'[l] = store[l]
       /\ store'[k] \in Entry
  BY <1>1, <1>3, <1>7, RateLimitAssumption
     DEF Count, Present, IInv, TypeOK, HostTypeOK, Entry, Deadline
<1>11. Present(k)'
  BY <1>10, AbsentAssumption DEF Present
<1>12. store' \in [Key -> Entry \cup {Absent}]
  BY <1>1, <1>10 DEF Count, IInv, TypeOK, HostTypeOK
<1>13. TypeOK'
  BY <1>5, <1>7, <1>8, <1>12 DEF IInv, TypeOK, HostTypeOK
<1>14. CountedOnce'
  BY <1>5, <1>8 DEF IInv, TypeOK, CountedOnce, Allowed
<1>15. OpenersAreCounted'
  BY <1>4, <1>8, <1>9 DEF IInv, OpenersAreCounted, Counted
<1>16. NumbersAreFew'
  BY <1>6, <1>7, <1>8, <1>9 DEF IInv, TypeOK, NumbersAreFew
<1>17. \A q \in Counted : window[q] = w => Present(k) /\ count[q] < n
  BY <1>1, <1>2, <1>3 DEF IInv, OpenersAreCounted, CounterIsHighest, NextCount, TypeOK, Counted
<1>18. DistinctCounts'
  BY <1>5, <1>8, <1>17 DEF IInv, DistinctCounts, TypeOK, Counted
<1>19. Opener(k)' = w
  BY <1>8, <1>10 DEF Opener
<1>20. \A l \in Key \ {k} : Present(l)' =>
          /\ Present(l) /\ store'[l] = store[l]
          /\ store[l].by \in Counted /\ Opener(l)' = Opener(l) /\ Opener(l) # r
  BY <1>2, <1>8, <1>10, RateLimitAssumption
     DEF IInv, TypeOK, HostTypeOK, Entry, Present, Opener, CounterIsHighest,
         OpenersAreCounted, Counted
<1>21. \A l \in Key \ {k} : Present(l)' => Opener(l) # w
  BY <1>1, <1>20 DEF IInv, WindowsAreApart
<1>22. WindowsAreApart'
  BY <1>1, <1>19, <1>20, <1>21 DEF IInv, WindowsAreApart
<1>23. CounterIsHighest'
  <2>1. \A q \in Counted' : window'[q] = w => count'[q] <= n
    BY <1>5, <1>8, <1>9, <1>17 DEF IInv, TypeOK, Counted
  <2>2. ASSUME NEW l \in Key \ {k}, Present(l)'
        PROVE  /\ store'[l].val = count'[store'[l].by] /\ store'[l].val # 0
               /\ \A q \in Counted' : window'[q] = Opener(l)' => count'[q] <= store'[l].val
    BY <1>2, <1>8, <1>9, <1>20, <1>21, <2>2 DEF IInv, CounterIsHighest, Counted
  <2> QED
    BY <1>5, <1>8, <1>10, <1>19, <2>1, <2>2 DEF CounterIsHighest
<1>24. OpenEnded'
  <2>1. \A q \in Request \ {r}, l \in Key :
            (l = k => Present(k)) /\ Present(l)' /\ Culprit(q, l) => Culprit(q, l)'
    BY <1>8, <1>19, <1>20 DEF IInv, TypeOK, Culprit
  <2>2. ~Culprit(r, k) /\ \A l \in Key : ~Culprit(r, l)
    BY DEF Culprit
  <2>3. ~Present(k) => Culprit(r, k)'
    BY <1>8, <1>19 DEF IInv, TypeOK, Culprit, NextCount
  <2>4. Present(k) /\ store'[k].deadline = NoExpiry => \E q \in Request : Culprit(q, k)'
    BY <1>1, <1>10, <1>11, <2>1, <2>2 DEF IInv, OpenEnded
  <2>5. ASSUME NEW l \in Key \ {k}, Present(l)', store'[l].deadline = NoExpiry
        PROVE  \E q \in Request : Culprit(q, l)'
    BY <1>20, <2>1, <2>2, <2>5 DEF IInv, OpenEnded
  <2> QED
    BY <2>3, <2>4, <2>5 DEF OpenEnded
<1> QED
  BY <1>13, <1>14, <1>15, <1>16, <1>18, <1>22, <1>23, <1>24 DEF IInv

-----------------------------------------------------------------------------
(* The first of a window starts the clock, and every request is answered. *)

LEMMA AnswerKeeps ==
    ASSUME IInv, NEW r \in Request, Answer(r)
    PROVE  IInv'
<1> DEFINE k == ClientKey[r]
<1>1. k \in Key
  BY RateLimitAssumption
<1>2. UNCHANGED <<now, count, window>> /\ pc[r] = "counted"
  BY DEF Answer
<1>3. pc' = [pc EXCEPT ![r] = IF Allowed(r) THEN "admitted" ELSE "refused"]
  BY DEF Answer, Goto
<1>4. /\ store' \in [Key -> Entry \cup {Absent}]
      /\ \A l \in Key : Present(l)' =>
            /\ Present(l) /\ store'[l].by = store[l].by /\ store'[l].val = store[l].val
            /\ store'[l].deadline = NoExpiry =>
                  store[l].deadline = NoExpiry /\ (l = k => ~IsFirst(r))
  <2>1. CASE IsFirst(r) /\ Present(k)
    <3>1. store' = [store EXCEPT ![k].deadline = now + RATE_LIMIT_WINDOW,
                                 ![k].due = NoExpiry]
      BY <2>1, RateLimitAssumption, HostCacheAssumption
         DEF Answer, Renew, DeadlineAfter
    <3>2. now + RATE_LIMIT_WINDOW \in Nat /\ now + RATE_LIMIT_WINDOW # NoExpiry
      BY RateLimitAssumption, HostCacheAssumption DEF IInv, TypeOK, HostTypeOK
    <3>3. store[k] \in Entry
      BY <1>1, <2>1 DEF IInv, TypeOK, HostTypeOK, Present
    <3>4. /\ store'[k] = [store[k] EXCEPT !.deadline = now + RATE_LIMIT_WINDOW,
                                          !.due = NoExpiry]
          /\ \A l \in Key \ {k} : store'[l] = store[l]
      BY <1>1, <3>1 DEF IInv, TypeOK, HostTypeOK
    <3>5. store'[k] \in Entry
      BY <3>2, <3>3, <3>4 DEF Entry, Deadline
    <3>6. store' \in [Key -> Entry \cup {Absent}]
      BY <1>1, <3>1, <3>4, <3>5 DEF IInv, TypeOK, HostTypeOK
    <3>7. store'[k].by = store[k].by /\ store'[k].val = store[k].val
          /\ store'[k].deadline # NoExpiry
      BY <3>2, <3>3, <3>4 DEF Entry
    <3> QED
      BY <2>1, <3>4, <3>6, <3>7 DEF Present
  <2>2. CASE ~(IsFirst(r) /\ Present(k))
    <3>1. store' = store
      BY <2>2 DEF Answer
    <3> QED
      BY <2>2, <3>1 DEF Present, IInv, TypeOK, HostTypeOK
  <2> QED
    BY <2>1, <2>2
<1>5. TypeOK'
  BY <1>2, <1>3, <1>4 DEF IInv, TypeOK, HostTypeOK
<1>6. Counted' = Counted
  BY <1>2 DEF Counted
<1>7. CountedOnce'
  BY <1>2, <1>3 DEF IInv, TypeOK, CountedOnce, Allowed
<1>8. OpenersAreCounted' /\ NumbersAreFew' /\ DistinctCounts'
  BY <1>2, <1>6 DEF IInv, OpenersAreCounted, NumbersAreFew, DistinctCounts
<1>9. \A l \in Key : Present(l)' => Opener(l)' = Opener(l)
  BY <1>2, <1>4 DEF Opener
<1>10. CounterIsHighest' /\ WindowsAreApart'
  BY <1>2, <1>4, <1>6, <1>9 DEF IInv, CounterIsHighest, WindowsAreApart
<1>11. OpenEnded'
  <2>1. \A q \in Request \ {r}, l \in Key : Present(l)' /\ Culprit(q, l) => Culprit(q, l)'
    BY <1>2, <1>3, <1>9 DEF IInv, TypeOK, Culprit
  <2>2. \A l \in Key : Culprit(r, l) => l = k /\ IsFirst(r)
    BY DEF Culprit, IsFirst
  <2> QED
    BY <1>4, <2>1, <2>2 DEF IInv, OpenEnded
<1> QED
  BY <1>5, <1>7, <1>8, <1>10, <1>11 DEF IInv

LEMMA NextIInv == IInv /\ [Next]_vars => IInv'
<1> SUFFICES ASSUME IInv, [Next]_vars PROVE IInv'
  OBVIOUS
<1>1. CASE UNCHANGED vars
  BY <1>1
     DEF vars, IInv, TypeOK, HostTypeOK, CountedOnce, Allowed, OpenersAreCounted, Counted,
         CounterIsHighest, Present, Opener, WindowsAreApart, NumbersAreFew, DistinctCounts,
         OpenEnded, Culprit
<1>2. CASE Host
  BY <1>2, HostKeeps
<1>3. ASSUME NEW r \in Request, Incr(r) PROVE IInv'
  <2>1. CASE Goto(r, "failed") /\ UNCHANGED <<store, count, window>>
    BY <1>3, <2>1, FailingKeeps DEF Incr
  <2>2. CASE ~(Goto(r, "failed") /\ UNCHANGED <<store, count, window>>)
    <3>1. PICK k : k = ClientKey[r]
      OBVIOUS
    <3> QED
      BY <1>3, <2>2, <3>1, IncrKeeps DEF Incr
  <2> QED
    BY <2>1, <2>2
<1>4. ASSUME NEW r \in Request, Answer(r) PROVE IInv'
  BY <1>4, AnswerKeeps
<1>5. ASSUME NEW r \in Request, Die(r) PROVE IInv'
  BY <1>5, FailingKeeps DEF Die
<1> QED
  BY <1>1, <1>2, <1>3, <1>4, <1>5 DEF Next

-----------------------------------------------------------------------------
\* The inductive invariant: of the counters and the requests they have counted.
THEOREM RateLimitInvariant == Spec => []IInv
<1> QED
  BY InitIInv, NextIInv, PTL DEF Spec

\* Types: no request is told a number above that of the requests made.
THEOREM NumbersAreTyped == Spec => []TypeOK
<1>1. IInv => TypeOK
  BY DEF IInv
<1> QED
  BY <1>1, RateLimitInvariant, PTL

\* Requests counted in one window have numbers of their own.
THEOREM CountsAreDistinct == Spec => []DistinctCounts
<1>1. IInv => DistinctCounts
  BY DEF IInv
<1> QED
  BY <1>1, RateLimitInvariant, PTL

\* Distinct numbers up to the limit are no more than the limit.
LEMMA FewAreAdmitted ==
    ASSUME IInv, NEW w \in Request
    PROVE  Cardinality({r \in Request : pc[r] = "admitted" /\ window[r] = w}) <= RATE_LIMIT_MAX
<1> DEFINE A == {r \in Request : pc[r] = "admitted" /\ window[r] = w}
<1> DEFINE number == [r \in A |-> count[r]]
<1>1. \A r \in A : count[r] \in 1 .. RATE_LIMIT_MAX
  BY RateLimitAssumption DEF IInv, TypeOK, CountedOnce, Allowed
<1>2. number \in Injection(A, 1 .. RATE_LIMIT_MAX)
  <2>1. \A r, q \in A : count[r] = count[q] => r = q
    BY <1>1 DEF IInv, DistinctCounts
  <2> QED
    BY <1>1, <2>1 DEF Injection, IsInjective
<1>3. IsFiniteSet(1 .. RATE_LIMIT_MAX) /\ Cardinality(1 .. RATE_LIMIT_MAX) = RATE_LIMIT_MAX
  BY FS_Interval, RateLimitAssumption
<1>4. Cardinality(A) <= Cardinality(1 .. RATE_LIMIT_MAX)
  BY <1>2, <1>3, FS_Injection
<1> QED
  BY <1>3, <1>4

\* In no window more than RATE_LIMIT_MAX requests are let in.
THEOREM AdmissionsAreBounded == Spec => []AdmittedPerWindow
<1>1. IInv => AdmittedPerWindow
  BY FewAreAdmitted DEF AdmittedPerWindow
<1> QED
  BY <1>1, RateLimitInvariant, PTL

\* A window without an end is the doing of the request that opened it.
THEOREM OpenEndedWindowsAreExplained == Spec => []OpenEndedHasCulprit
<1>1. IInv => OpenEndedHasCulprit
  BY DEF IInv, OpenEnded, Culprit, OpenEndedHasCulprit
<1> QED
  BY <1>1, RateLimitInvariant, PTL
=============================================================================
