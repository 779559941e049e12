-------------------------- MODULE CacheRefinement --------------------------
(* The builtin implements the contract: Cache implements SingleFlight.      *)
EXTENDS Cache

\* What the promise handed to c's caller shows of the call's fate.
OutcomeOf(c) ==
    CASE answer[c] = None  -> "open"
      [] answer[c] = Threw -> "failed"
      [] OTHER ->
           CASE promise[answer[c]].st = "fulfilled" -> promise[answer[c]].val
             [] promise[answer[c]].st = "rejected"  -> "failed"
             [] promise[answer[c]].st = "lost"      -> "gone"
             [] OTHER -> "open"

WaitingOn(p) == IF p = None THEN {} ELSE {c \in Call : answer[c] = p}

Contract == INSTANCE SingleFlight WITH
    Open <- "open", Nothing <- "null", Failed <- "failed", Gone <- "gone",
    waiting <- [i \in Instance |-> [k \in Key |-> WaitingOn(inflight[i][k])]],
    outcome <- [c \in Call |-> OutcomeOf(c)],
    cached <- [k \in Key |-> IF Present(k) THEN store[k].val ELSE Absent]

\* Every behaviour of the builtin, seen through the promises its callers hold,
\* is one the documented contract of getOrSet and the other operations allows.
ImplementsSingleFlight == Contract!Spec
=============================================================================
