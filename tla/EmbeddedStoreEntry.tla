------------------------- MODULE EmbeddedStoreEntry -------------------------
(***************************************************************************)
(* The bodies of static assets: createWasmInlineAsset keeps the bytes of a *)
(* file, getEmbeddedStoreEntry makes a Body-like entry over them for each  *)
(* request, and the entry's bytes are read by arrayBuffer(), by a reader   *)
(* of body(), or by the engine (a Response made of body(), pipeTo, tee, an *)
(* async iteration).  arrayBuffer() awaits each read, so that all of these *)
(* interleave, on one entry and on several of the same asset.              *)
(*                                                                         *)
(* The stream holds one chunk: the asset's own array, not a copy, and      *)
(* asset a is the buffer a of the heap.  The stream itself is external:    *)
(* one lock, a queue, and a read after the last chunk says done.           *)
(***************************************************************************)
EXTENDS JsHeap

CONSTANTS
    Original,  \* Original[a]: what asset a held when the snapshot was taken
    Entry,     \* bound: the entries of a behaviour
    NoEntry

ASSUME EntryAssumption ==
    /\ Original \in Seq(Bytes)
    /\ Len(Original) <= MaxBuffers

Asset == DOMAIN Original

VARIABLES
    entry,  \* entry[e]: the entry with its stream and its arrayBuffer() call
    lent    \* auxiliary: the assets whose array was given away as a chunk

entryVars == <<entry, lent>>

\* queued: the chunk is still in the stream.  step, result: of the arrayBuffer()
\* call.  bypassed (auxiliary): the stream was consumed without getReader().
EntryRecord ==
    [asset : Asset, consumed : BOOLEAN, disturbed : BOOLEAN, queued : BOOLEAN,
     lock : {"free", "call", "reader", "engine"},
     step : {"uncalled", "chunk", "done", "returned"},
     result : Bytes \cup {Empty}, bypassed : BOOLEAN]

EntryTypeOK ==
    /\ entry \in [Entry -> EntryRecord \cup {NoEntry}]
    /\ lent \subseteq Asset

EntryInit ==
    /\ entry = [e \in Entry |-> NoEntry]
    /\ lent = {}

Live(e) == entry[e] # NoEntry

-----------------------------------------------------------------------------
CreateEmbeddedStoreEntry(e, a) ==
    /\ ~Live(e)
    /\ entry' = [entry EXCEPT ![e] =
          [asset |-> a, consumed |-> FALSE, disturbed |-> FALSE, queued |-> TRUE,
           lock |-> "free", step |-> "uncalled", result |-> Empty,
           bypassed |-> FALSE]]
    /\ UNCHANGED <<heap, handed, lent>>

Unread(r) == ~r.consumed /\ r.lock = "free"    \* mutant: no isDisturbed()

\* The checks of arrayBuffer(); a call that fails them changes nothing.
MayBeRead(r) == ~r.consumed /\ r.lock = "free" /\ ~r.disturbed

\* Up to the first await, whose read takes the chunk out of the queue.
ArrayBufferStarts(e) ==
    /\ Live(e)
    /\ MayBeRead(entry[e])
    /\ entry' = [entry EXCEPT
          ![e].consumed = TRUE, ![e].disturbed = TRUE, ![e].lock = "call",
          ![e].queued = FALSE,
          ![e].step = IF entry[e].queued THEN "chunk" ELSE "done"]
    /\ UNCHANGED <<heap, handed, lent>>

\* The chunk is copied as it is by then, and the next read awaited.
ArrayBufferCopies(e) ==
    /\ Live(e)
    /\ entry[e].step = "chunk"
    /\ entry' = [entry EXCEPT
          ![e].result = heap[entry[e].asset], ![e].step = "done"]
    /\ UNCHANGED <<heap, handed, lent>>

\* Mutant: the array of the chunk is returned.
Shared(e) ==
    /\ handed' = IF entry[e].result = Empty THEN handed
                 ELSE handed \cup {entry[e].asset}
    /\ UNCHANGED heap

\* The caller gets a buffer of its own, and the lock is released.
Isolated(e) == HandOver(<<entry[e].result>>)

ArrayBufferReturns(e) ==
    /\ Live(e)
    /\ entry[e].step = "done"
    /\ Isolated(e)
    /\ entry' = [entry EXCEPT ![e].lock = "free", ![e].step = "returned"]
    /\ UNCHANGED lent

-----------------------------------------------------------------------------
(* The application reads body() by way of the wrapped getReader() *)

Lock(e, owner) ==
    /\ Live(e)
    /\ entry[e].lock = "free"
    /\ entry' = [entry EXCEPT ![e].lock = owner]
    /\ UNCHANGED <<heap, handed, lent>>

GetReader(e) == Lock(e, "reader")

\* The application is given the next chunk, or done.
TakeChunk(e) ==
    IF entry[e].queued
    THEN /\ handed' = handed \cup {entry[e].asset}
         /\ lent' = lent \cup {entry[e].asset}
    ELSE UNCHANGED <<handed, lent>>

ReaderRead(e) ==
    /\ Live(e)
    /\ entry[e].lock = "reader"
    /\ TakeChunk(e)
    /\ entry' = [entry EXCEPT ![e].disturbed = TRUE, ![e].queued = FALSE]
    /\ UNCHANGED heap

ReaderCancel(e) ==
    /\ Live(e)
    /\ entry[e].lock = "reader"
    /\ entry' = [entry EXCEPT ![e].disturbed = TRUE, ![e].queued = FALSE]
    /\ UNCHANGED <<heap, handed, lent>>

Unlock(e, owner) ==
    /\ Live(e)
    /\ entry[e].lock = owner
    /\ entry' = [entry EXCEPT ![e].lock = "free"]
    /\ UNCHANGED <<heap, handed, lent>>

ReleaseLock(e) == Unlock(e, "reader")

-----------------------------------------------------------------------------
(* What goes past the wrappers: body().cancel(), and the engine, which does *)
(* not call the getReader property of the stream.  External.                *)

Cancel(e) ==
    /\ Live(e)
    /\ entry[e].lock = "free"
    /\ entry[e].queued
    /\ entry' = [entry EXCEPT ![e].queued = FALSE, ![e].bypassed = TRUE]
    /\ UNCHANGED <<heap, handed, lent>>

EngineLocks(e) == Lock(e, "engine")

\* The chunk goes to the network, or on to the application.
EngineReads(e) ==
    /\ Live(e)
    /\ entry[e].lock = "engine"
    /\ entry[e].queued
    /\ TakeChunk(e) \/ UNCHANGED <<handed, lent>>
    /\ entry' = [entry EXCEPT ![e].queued = FALSE, ![e].bypassed = TRUE]
    /\ UNCHANGED heap

EngineUnlocks(e) == Unlock(e, "engine")

EntryNext ==
    \E e \in Entry :
        \/ \E a \in Asset : CreateEmbeddedStoreEntry(e, a)
        \/ ArrayBufferStarts(e) \/ ArrayBufferCopies(e) \/ ArrayBufferReturns(e)
        \/ GetReader(e) \/ ReaderRead(e) \/ ReaderCancel(e) \/ ReleaseLock(e)
        \/ Cancel(e) \/ EngineLocks(e) \/ EngineReads(e) \/ EngineUnlocks(e)

-----------------------------------------------------------------------------
\* An arrayBuffer() that resolves has the whole asset.  The two ways out that
\* the code leaves: the stream was consumed by something that does not call
\* getReader(), so that isDisturbed() does not know and the result is empty; or
\* the application has the asset's own array, from a stream of this entry or of
\* another one, and wrote into it.
BodyIsWhole ==
    \A e \in Entry : Live(e) /\ entry[e].step = "returned" =>
        \/ entry[e].result = Original[entry[e].asset]
        \/ entry[e].result = Empty /\ entry[e].bypassed
        \/ entry[e].result # Empty /\ entry[e].asset \in lent

\* The bytes served for an asset are those of the snapshot for as long as the
\* instance lives, unless its array was given away as a chunk: no buffer that
\* arrayBuffer() has returned leads back to it.
AssetKept ==
    \A a \in Asset : heap[a] # Original[a] => a \in lent
=============================================================================
