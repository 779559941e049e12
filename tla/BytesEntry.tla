----------------------------- MODULE BytesEntry -----------------------------
(***************************************************************************)
(* KvStoreEntry and CacheEntry, twin classes of the runtime: a reserved    *)
(* slot with a Uint8Array of the entry's own, and the readers arrayBuffer, *)
(* text and json over it.  The readers answer at once, and the same for as *)
(* long as the entry lives: everybody who joined a getOrSet has the same   *)
(* CacheEntry.  text and json make no buffer and change nothing.           *)
(***************************************************************************)
EXTENDS JsHeap

VARIABLE
    entries  \* the entries made so far: slot, and (auxiliary) the bytes of the
             \*   host's answer, or of the value stored, that it was made from

EntriesTypeOK == entries \in Seq([slot : DOMAIN heap, of : Bytes])

\* Mutants: one buffer, allocated ahead of the loop, serves every entry; an
\* entry is given the slot after its own.
CreateFromOne(list) ==
    /\ Allocate(list)
    /\ entries' = entries \o
          [j \in DOMAIN list |-> [slot |-> Len(heap) + 1, of |-> list[j]]]
CreateNextSlot(list) ==
    /\ Allocate(list)
    /\ entries' = entries \o
          [j \in DOMAIN list |-> [slot |-> Len(heap) + j + 1, of |-> list[j]]]

\* create, for each element of a list: its bytes are copied.
Create(list) ==
    /\ Allocate(list)
    /\ entries' = entries \o
          [j \in DOMAIN list |-> [slot |-> Len(heap) + j, of |-> list[j]]]

\* What arrayBuffer(), text() and json() of entry e are made from.
EntryBytes(e) == heap[entries[e].slot]

\* Mutant: the entry's own buffer is handed out.
OwnBuffer(e) ==
    /\ handed' = handed \cup {entries[e].slot}
    /\ UNCHANGED <<heap, entries>>

ArrayBuffer(e) ==
    /\ HandOver(<<EntryBytes(e)>>)
    /\ UNCHANGED entries

\* An entry reads as the bytes it was made from, whatever the application has
\* written into the buffers it made or was given, from this entry or elsewhere,
\* and whatever has become of the key ("callers could otherwise mutate it and
\* corrupt subsequent reads from this same entry").
EntryIsSnapshot ==
    \A e \in DOMAIN entries : EntryBytes(e) = entries[e].of
=============================================================================
