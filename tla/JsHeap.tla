------------------------------- MODULE JsHeap -------------------------------
(***************************************************************************)
(* The byte buffers of one WASM instance.  The runtime and the SDK make    *)
(* them; the application may write into every one it was given.  External: *)
(* SpiderMonkey's typed arrays, and whatever the application does.         *)
(***************************************************************************)
EXTENDS Integers, SequencesExt

CONSTANTS
    Bytes,      \* what a buffer may hold
    Empty,      \* the contents of a buffer of length 0
    MaxBuffers  \* bound: buffers made in a behaviour

ASSUME HeapAssumption == Empty \notin Bytes /\ MaxBuffers \in Nat

VARIABLES
    heap,   \* heap[b]: the contents of buffer b, numbered as they are made
    handed  \* the buffers the application has a reference to

heapVars == <<heap, handed>>

HeapTypeOK ==
    /\ heap \in Seq(Bytes \cup {Empty})
    /\ Len(heap) <= MaxBuffers
    /\ handed \subseteq DOMAIN heap

\* New buffers with these contents, in this order.
Allocate(contents) ==
    /\ Len(heap) + Len(contents) <= MaxBuffers
    /\ heap' = heap \o contents

NewBuffers(contents) == Len(heap) + 1 .. Len(heap) + Len(contents)

\* ... which the application gets.
HandOver(contents) ==
    /\ Allocate(contents)
    /\ handed' = handed \cup NewBuffers(contents)

\* The application writes into a buffer that is not empty.
Scribble ==
    /\ \E b \in handed, v \in Bytes :
          heap[b] # Empty /\ heap' = [heap EXCEPT ![b] = v]
    /\ UNCHANGED handed
=============================================================================
