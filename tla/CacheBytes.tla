----------------------------- MODULE CacheBytes -----------------------------
(***************************************************************************)
(* The buffers that cross the boundary of `fastedge::cache` in one         *)
(* instance: what populate ends with, and what a CacheEntry gives.  Cache  *)
(* has the calls, the promises and the host's entries.  Here the value of  *)
(* populate is a buffer that the application keeps and may write into:     *)
(* between the fulfilment of populate's promise and populate_then, and     *)
(* after it, while the waiters hold the entry.                             *)
(***************************************************************************)
EXTENDS BytesEntry

CONSTANT CacheKey

VARIABLE
    filling  \* filling[k]: the buffer that populate's promise for k was
             \*   fulfilled with and that populate_then will read, or 0

CacheTypeOK == filling \in [CacheKey -> handed \cup {0}]

CacheInit == filling = [k \in CacheKey |-> 0]

\* get, or a getOrSet that hits: the host's bytes.
CacheGet ==
    /\ \E v \in Bytes : Create(<<v>>)
    /\ UNCHANGED <<filling, handed>>

\* The user's populate for k, of a getOrSet that missed, ends with buffer b.
PopulateResolves(k, b) ==
    /\ filling[k] = 0
    /\ heap[b] # Empty
    /\ filling' = [filling EXCEPT ![k] = b]
    /\ UNCHANGED <<entries, heap, handed>>

\* try_sync_coerce_bytes: the contents of buffer b are copied as they are now.
Coerce(b) == heap[b]

\* Mutant: the entry is built around populate's buffer.
EntryAround(b) ==
    /\ entries' = Append(entries, [slot |-> b, of |-> heap[b]])
    /\ UNCHANGED heap

\* getOrSet_finalize: the entry for the waiters has the bytes that were stored.
EntryFor(b) == Create(<<Coerce(b)>>)

PopulateThen(k) ==
    /\ filling[k] # 0
    /\ EntryFor(filling[k])
    /\ filling' = [filling EXCEPT ![k] = 0]
    /\ UNCHANGED handed

CacheNext ==
    \/ CacheGet
    \/ \E k \in CacheKey :
          PopulateThen(k) \/ \E b \in handed : PopulateResolves(k, b)
=============================================================================
