---------------------------- MODULE SingleFlight ----------------------------
(***************************************************************************)
(* What `Cache` promises, without promises, reactions or an in-flight map: *)
(* the contract of types/fastedge-cache.d.ts.                              *)
(*                                                                         *)
(*  - per instance and key one computation is under way at most; callers   *)
(*    that miss meanwhile wait for it, and all get its one outcome;        *)
(*  - a computation that yields a value caches it in the step that answers *)
(*    the waiters; one that yields null, or fails, caches nothing;         *)
(*  - no caller is handed a value that was not in the cache at that moment.*)
(***************************************************************************)
CONSTANTS Instance, Key, Call, Val, Absent, Open, Nothing, Failed, Gone, Reply

VARIABLES
    waiting,   \* waiting[i][k]: the callers of the computation under way
    outcome,   \* outcome[c]: Open, or what call c came to
    cached     \* cached[k]: the value others would read now, or Absent

vars == <<waiting, outcome, cached>>

Init ==
    /\ waiting = [i \in Instance |-> [k \in Key |-> {}]]
    /\ outcome = [c \in Call |-> Open]
    /\ cached = [k \in Key |-> Absent]

Waiting(c) == \E i \in Instance, k \in Key : c \in waiting[i][k]
Idle(c) == outcome[c] = Open /\ ~Waiting(c)

Answer(C, o) == outcome' = [c \in Call |-> IF c \in C THEN o ELSE outcome[c]]

\* A miss starts the computation, or waits for the one under way.
Miss(c, i, k) ==
    /\ Idle(c)
    /\ cached[k] = Absent
    /\ waiting' = [waiting EXCEPT ![i][k] = @ \cup {c}]
    /\ UNCHANGED <<outcome, cached>>

LandValue(i, k, v) ==
    /\ waiting[i][k] # {}
    /\ Answer(waiting[i][k], v)
    /\ cached' = [cached EXCEPT ![k] = v]
    /\ waiting' = [waiting EXCEPT ![i][k] = {}]

LandNothing(i, k) ==
    /\ waiting[i][k] # {}
    /\ \E o \in {Nothing, Failed} : Answer(waiting[i][k], o)
    /\ waiting' = [waiting EXCEPT ![i][k] = {}]
    /\ UNCHANGED cached

\* Any other call: it fails, reports, or reads; and it may write or erase.
Read(c) ==
    /\ Idle(c)
    /\ \E o \in {Failed, Nothing} \cup Reply \cup {cached[k] : k \in Key} :
          o # Absent /\ Answer({c}, o)
    /\ UNCHANGED <<waiting, cached>>

Write(c, k, v) ==
    /\ Idle(c)
    /\ \E o \in {v} \cup Reply : Answer({c}, o)
    /\ cached' = [cached EXCEPT ![k] = v]
    /\ UNCHANGED waiting

Erased(K) == cached' = [k \in Key |-> IF k \in K THEN Absent ELSE cached[k]]

EraseCall(c) ==
    /\ Idle(c)
    /\ \E o \in Reply : Answer({c}, o)
    /\ \E K \in SUBSET Key : Erased(K)
    /\ UNCHANGED waiting

\* Entries expire or are evicted.
Fade ==
    /\ \E K \in SUBSET Key : Erased(K)
    /\ UNCHANGED <<waiting, outcome>>

\* Instance i is gone, with its waiters and its other open calls.
Vanish(i) ==
    /\ \E C \in SUBSET {c \in Call : Idle(c)} :
          Answer(C \cup UNION {waiting[i][k] : k \in Key}, Gone)
    /\ waiting' = [waiting EXCEPT ![i] = [k \in Key |-> {}]]
    /\ UNCHANGED cached

Next ==
    \/ \E c \in Call :
          \/ \E i \in Instance, k \in Key : Miss(c, i, k)
          \/ \E k \in Key, v \in Val : Write(c, k, v)
          \/ Read(c) \/ EraseCall(c)
    \/ \E i \in Instance, k \in Key :
          LandNothing(i, k) \/ \E v \in Val : LandValue(i, k, v)
    \/ \E i \in Instance : Vanish(i)
    \/ Fade

Spec == Init /\ [][Next]_vars
=============================================================================
