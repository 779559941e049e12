------------------------- MODULE StoreEntriesProofs -------------------------
(***************************************************************************)
(* Proofs about StoreEntries, for any bytes, stores, entries and number of *)
(* buffers.  The properties depend on which buffers the application can    *)
(* write into, so the invariant has a part on the heap and who has what of *)
(* it, and a part on the bodies of assets, which only looks at what was    *)
(* lent.                                                                   *)
(***************************************************************************)
EXTENDS StoreEntries, TLAPS

\* The slot of an entry is a buffer of its own, which nobody was given, and
\* still holds what the entry was made from.
SlotsAreKept ==
    \A e \in DOMAIN entries :
        /\ entries[e].slot \notin handed
        /\ entries[e].slot \notin Asset
        /\ heap[entries[e].slot] = entries[e].of

\* What populate ended with is not empty.
FillingsHaveBytes == \A k \in CacheKey : filling[k] # 0 => heap[filling[k]] \in Bytes

\* The application has the array of an asset only if it was lent.
AssetsAreLent ==
    \A a \in Asset :
        /\ a \in DOMAIN heap
        /\ heap[a] \in Bytes
        /\ a \in handed \/ heap[a] # Original[a] => a \in lent

HeapInv ==
    /\ HeapTypeOK /\ EntriesTypeOK /\ CacheTypeOK /\ lent \subseteq Asset
    /\ SlotsAreKept /\ FillingsHaveBytes /\ AssetsAreLent

\* What arrayBuffer() has, or returned, is the asset, or there is a reason.
Accounted(r) ==
    \/ r.result = Original[r.asset]
    \/ r.result = Empty /\ r.bypassed
    \/ r.result # Empty /\ r.asset \in lent

\* Until arrayBuffer() is called the chunk is in the stream, or isDisturbed()
\* knows where it went, or nobody does.
BodyInv(r) ==
    /\ r \in EntryRecord
    /\ ~r.consumed => r.step = "uncalled" /\ (r.queued \/ r.disturbed \/ r.bypassed)
    /\ r.step \in {"uncalled", "chunk"} => r.result = Empty
    /\ r.step \in {"done", "returned"} => Accounted(r)

BodiesInv ==
    /\ entry \in [Entry -> EntryRecord \cup {NoEntry}]
    /\ \A e \in Entry : Live(e) => BodyInv(entry[e])

IInv == HeapInv /\ KvTypeOK /\ BodiesInv

-----------------------------------------------------------------------------
(* Sequences *)

LEMMA ElementsTyped ==
    ASSUME NEW T, NEW s \in Seq(T)
    PROVE  \A i \in DOMAIN s : s[i] \in T
OBVIOUS

LEMMA WiderElements ==
    ASSUME NEW S, NEW T, S \subseteq T, NEW s \in Seq(S)
    PROVE  s \in Seq(T)
<1>1. Len(s) \in Nat /\ s \in [1 .. Len(s) -> T]
  OBVIOUS
<1> QED
  BY <1>1

LEMMA OneElement ==
    ASSUME NEW T, NEW v \in T
    PROVE  <<v>> \in Seq(T)
OBVIOUS

LEMMA EntrySlots ==
    ASSUME EntriesTypeOK, NEW e \in DOMAIN entries
    PROVE  entries[e].slot \in DOMAIN heap /\ entries[e].of \in Bytes
<1>1. entries[e] \in [slot : DOMAIN heap, of : Bytes]
  BY ElementsTyped DEF EntriesTypeOK
<1> QED
  BY <1>1

-----------------------------------------------------------------------------
(* Buffers at the end of the heap *)

LEMMA Allocated ==
    ASSUME HeapTypeOK, NEW c \in Seq(Bytes \cup {Empty}), Allocate(c)
    PROVE  /\ heap' \in Seq(Bytes \cup {Empty})
           /\ Len(heap') <= MaxBuffers
           /\ Len(heap') = Len(heap) + Len(c)
           /\ DOMAIN heap \subseteq DOMAIN heap'
           /\ NewBuffers(c) \subseteq DOMAIN heap'
           /\ NewBuffers(c) \cap DOMAIN heap = {}
           /\ \A b \in DOMAIN heap : heap'[b] = heap[b]
           /\ \A j \in DOMAIN c : Len(heap) + j \in NewBuffers(c) /\ heap'[Len(heap) + j] = c[j]
<1>1. Len(heap) \in Nat /\ Len(c) \in Nat /\ DOMAIN heap = 1 .. Len(heap) /\ DOMAIN c = 1 .. Len(c)
  BY DEF HeapTypeOK
<1>2. heap' = heap \o c /\ Len(heap) + Len(c) <= MaxBuffers
  BY DEF Allocate
<1>3. heap' \in Seq(Bytes \cup {Empty}) /\ Len(heap') = Len(heap) + Len(c)
  BY <1>2 DEF HeapTypeOK
<1>4. DOMAIN heap' = 1 .. Len(heap) + Len(c)
  BY <1>3
<1>5. \A b \in 1 .. Len(heap) : heap'[b] = heap[b]
  BY <1>2, <1>1 DEF HeapTypeOK
<1>6. \A j \in 1 .. Len(c) : heap'[Len(heap) + j] = c[j]
  BY <1>2, <1>1 DEF HeapTypeOK
<1> QED
  BY <1>1, <1>2, <1>3, <1>4, <1>5, <1>6 DEF NewBuffers

\* The application may be given buffers, or make them: nobody depends on them.
LEMMA HandOverKeeps ==
    ASSUME HeapInv, NEW c \in Seq(Bytes \cup {Empty}), HandOver(c),
           UNCHANGED <<entries, filling, lent>>
    PROVE  HeapInv'
<1>1. Allocate(c) /\ handed' = handed \cup NewBuffers(c)
  BY DEF HandOver
<1>2. HeapTypeOK'
  BY <1>1, Allocated DEF HeapInv, HeapTypeOK
<1>3. EntriesTypeOK'
  <2>1. [slot : DOMAIN heap, of : Bytes] \subseteq [slot : DOMAIN heap', of : Bytes]
    BY <1>1, Allocated DEF HeapInv
  <2> QED
    BY <2>1, WiderElements DEF HeapInv, EntriesTypeOK
<1>4. CacheTypeOK' /\ FillingsHaveBytes'
  BY <1>1, Allocated DEF HeapInv, CacheTypeOK, FillingsHaveBytes, HeapTypeOK
<1>5. \A e \in DOMAIN entries : entries[e].slot \in DOMAIN heap
  BY EntrySlots DEF HeapInv
<1>6. SlotsAreKept'
  BY <1>1, <1>5, Allocated DEF HeapInv, SlotsAreKept
<1>7. AssetsAreLent'
  BY <1>1, Allocated DEF HeapInv, AssetsAreLent
<1> QED
  BY <1>2, <1>3, <1>4, <1>6, <1>7 DEF HeapInv

\* An entry made is the only one to have its slot.
LEMMA CreateKeeps ==
    ASSUME HeapInv, NEW list \in Seq(Bytes), Create(list),
           handed' = handed, lent' = lent,
           filling' \in [CacheKey -> handed \cup {0}],
           \A k \in CacheKey : filling'[k] = 0 \/ filling'[k] = filling[k]
    PROVE  HeapInv'
<1> DEFINE made == [j \in DOMAIN list |-> [slot |-> Len(heap) + j, of |-> list[j]]]
<1>1. Allocate(list) /\ entries' = entries \o made
  BY DEF Create
<1>2. list \in Seq(Bytes \cup {Empty})
  OBVIOUS
<1>3. HeapTypeOK'
  BY <1>1, <1>2, Allocated DEF HeapInv, HeapTypeOK
<1>4. made \in Seq([slot : DOMAIN heap', of : Bytes]) /\ Len(made) = Len(list)
  <2>1. \A j \in DOMAIN list : Len(heap) + j \in DOMAIN heap' /\ list[j] \in Bytes
    BY <1>1, <1>2, Allocated DEF HeapInv
  <2>2. made \in [1 .. Len(list) -> [slot : DOMAIN heap', of : Bytes]]
    BY <2>1
  <2> QED
    BY <2>2
<1>5. entries \in Seq([slot : DOMAIN heap', of : Bytes])
  <2>1. [slot : DOMAIN heap, of : Bytes] \subseteq [slot : DOMAIN heap', of : Bytes]
    BY <1>1, <1>2, Allocated DEF HeapInv
  <2> QED
    BY <2>1, WiderElements DEF HeapInv, EntriesTypeOK
<1>6. EntriesTypeOK'
  BY <1>1, <1>4, <1>5 DEF EntriesTypeOK
<1>7. CacheTypeOK' /\ FillingsHaveBytes'
  BY <1>1, <1>2, Allocated DEF HeapInv, CacheTypeOK, FillingsHaveBytes, HeapTypeOK
<1>8. AssetsAreLent'
  BY <1>1, <1>2, Allocated DEF HeapInv, AssetsAreLent
<1>9. SlotsAreKept'
  <2> SUFFICES ASSUME NEW e \in DOMAIN entries'
               PROVE  /\ entries'[e].slot \notin handed
                      /\ entries'[e].slot \notin Asset
                      /\ heap'[entries'[e].slot] = entries'[e].of
    BY DEF SlotsAreKept
  <2>1. CASE e \in DOMAIN entries
    <3>1. entries'[e] = entries[e] /\ entries[e].slot \in DOMAIN heap
      BY <1>1, <1>4, <2>1, EntrySlots DEF HeapInv, EntriesTypeOK
    <3> QED
      BY <1>1, <1>2, <2>1, <3>1, Allocated DEF HeapInv, SlotsAreKept
  <2>2. CASE e \notin DOMAIN entries
    <3>1. PICK j \in DOMAIN list : entries'[e] = [slot |-> Len(heap) + j, of |-> list[j]]
      <4>1. e \in 1 .. Len(entries) + Len(made) /\ e \notin 1 .. Len(entries)
        BY <1>1, <1>4, <1>5, <2>2
      <4>2. e - Len(entries) \in 1 .. Len(made) /\ entries'[e] = made[e - Len(entries)]
        BY <1>1, <1>4, <1>5, <4>1
      <4> QED
        BY <1>4, <4>2
    <3>2. Len(heap) + j \notin DOMAIN heap /\ heap'[Len(heap) + j] = list[j]
      BY <1>1, <1>2, Allocated DEF HeapInv
    <3> QED
      BY <3>1, <3>2 DEF HeapInv, AssetsAreLent, HeapTypeOK
  <2> QED
    BY <2>1, <2>2
<1> QED
  BY <1>3, <1>6, <1>7, <1>8, <1>9 DEF HeapInv

\* Neither slots nor arrays that were not lent can be written into.
LEMMA ScribbleKeeps ==
    ASSUME HeapInv, Scribble, UNCHANGED <<entries, filling, lent>>
    PROVE  HeapInv'
<1>1. PICK b \in handed, v \in Bytes : heap' = [heap EXCEPT ![b] = v]
  BY DEF Scribble
<1>2. handed' = handed
  BY DEF Scribble
<1>3. /\ heap' \in Seq(Bytes \cup {Empty}) /\ Len(heap') = Len(heap)
      /\ DOMAIN heap' = DOMAIN heap /\ b \in DOMAIN heap
      /\ heap'[b] = v /\ \A c \in DOMAIN heap \ {b} : heap'[c] = heap[c]
  BY <1>1 DEF HeapInv, HeapTypeOK
<1>4. HeapTypeOK' /\ EntriesTypeOK'
  BY <1>2, <1>3 DEF HeapInv, HeapTypeOK, EntriesTypeOK
<1>5. CacheTypeOK' /\ FillingsHaveBytes'
  BY <1>2, <1>3 DEF HeapInv, HeapTypeOK, CacheTypeOK, FillingsHaveBytes
<1>6. \A e \in DOMAIN entries : entries[e].slot \in DOMAIN heap
  BY EntrySlots DEF HeapInv
<1>7. SlotsAreKept'
  BY <1>2, <1>3, <1>6 DEF HeapInv, SlotsAreKept
<1>8. AssetsAreLent'
  BY <1>2, <1>3 DEF HeapInv, AssetsAreLent
<1> QED
  BY <1>4, <1>5, <1>7, <1>8 DEF HeapInv

\* A chunk given to the application is the array of an asset, which no entry has.
LEMMA LendKeeps ==
    ASSUME HeapInv, NEW A \in SUBSET Asset, handed' = handed \cup A, lent' = lent \cup A,
           UNCHANGED <<heap, entries, filling>>
    PROVE  HeapInv'
<1>1. HeapTypeOK' /\ EntriesTypeOK' /\ CacheTypeOK' /\ FillingsHaveBytes'
  BY DEF HeapInv, HeapTypeOK, EntriesTypeOK, CacheTypeOK, FillingsHaveBytes, AssetsAreLent
<1>2. SlotsAreKept' /\ AssetsAreLent' /\ (lent \subseteq Asset)'
  BY DEF HeapInv, SlotsAreKept, AssetsAreLent
<1> QED
  BY <1>1, <1>2 DEF HeapInv

-----------------------------------------------------------------------------
(* Bodies of assets *)

LEMMA OneBody ==
    ASSUME BodiesInv, NEW e \in Entry, NEW r, entry' = [entry EXCEPT ![e] = r],
           lent \subseteq lent', BodyInv(r)'
    PROVE  BodiesInv'
<1>1. entry' \in [Entry -> EntryRecord \cup {NoEntry}]
  BY DEF BodiesInv, BodyInv
<1>2. ASSUME NEW f \in Entry, Live(f)' PROVE BodyInv(entry[f])'
  <2>1. CASE f = e
    BY <2>1 DEF BodiesInv
  <2>2. CASE f # e
    <3>1. entry'[f] = entry[f] /\ BodyInv(entry[f])
      BY <1>2, <2>2 DEF BodiesInv, Live
    <3> QED
      BY <3>1 DEF BodyInv, Accounted
  <2> QED
    BY <2>1, <2>2
<1> QED
  BY <1>1, <1>2 DEF BodiesInv

LEMMA BodyStep ==
    ASSUME HeapInv, BodiesInv, EntryNext
    PROVE  BodiesInv'
<1> SUFFICES ASSUME NEW e \in Entry,
                    \/ \E a \in Asset : CreateEmbeddedStoreEntry(e, a)
                    \/ ArrayBufferStarts(e) \/ ArrayBufferCopies(e) \/ ArrayBufferReturns(e)
                    \/ GetReader(e) \/ ReaderRead(e) \/ ReaderCancel(e) \/ ReleaseLock(e)
                    \/ Cancel(e) \/ EngineLocks(e) \/ EngineReads(e) \/ EngineUnlocks(e)
             PROVE  BodiesInv'
  BY DEF EntryNext
<1> DEFINE r == entry[e]
<1>1. Live(e) => BodyInv(r)
  BY DEF BodiesInv
<1>2. entry = [f \in Entry |-> entry[f]]
  BY DEF BodiesInv
<1>3. CASE \E a \in Asset : CreateEmbeddedStoreEntry(e, a)
  <2>1. PICK a \in Asset : CreateEmbeddedStoreEntry(e, a)
    BY <1>3
  <2>2. PICK s : s = [asset |-> a, consumed |-> FALSE, disturbed |-> FALSE, queued |-> TRUE,
                   lock |-> "free", step |-> "uncalled", result |-> Empty, bypassed |-> FALSE]
    OBVIOUS
  <2>3. entry' = [entry EXCEPT ![e] = s] /\ lent' = lent
    BY <2>1, <2>2 DEF CreateEmbeddedStoreEntry
  <2>4. BodyInv(s)'
    BY <2>2 DEF BodyInv, EntryRecord
  <2> QED
    BY <2>3, <2>4, OneBody
<1>4. CASE ArrayBufferStarts(e)
  <2>1. PICK s : s = [r EXCEPT !.consumed = TRUE, !.disturbed = TRUE, !.lock = "call",
                            !.queued = FALSE, !.step = IF r.queued THEN "chunk" ELSE "done"]
    OBVIOUS
  <2>2. entry' = [entry EXCEPT ![e] = s] /\ lent' = lent /\ Live(e) /\ MayBeRead(r)
    BY <1>2, <1>4, <2>1 DEF ArrayBufferStarts
  <2>3. BodyInv(s)'
    BY <1>1, <2>1, <2>2 DEF BodyInv, EntryRecord, MayBeRead, Accounted
  <2> QED
    BY <2>2, <2>3, OneBody
<1>5. CASE ArrayBufferCopies(e)
  <2>1. PICK s : s = [r EXCEPT !.result = heap[r.asset], !.step = "done"]
    OBVIOUS
  <2>2. entry' = [entry EXCEPT ![e] = s] /\ lent' = lent /\ Live(e) /\ r.step = "chunk"
    BY <1>2, <1>5, <2>1 DEF ArrayBufferCopies
  <2>3. /\ r.asset \in Asset /\ heap[r.asset] \in Bytes /\ heap[r.asset] # Empty
        /\ heap[r.asset] = Original[r.asset] \/ r.asset \in lent
    BY <1>1, <2>2, HeapAssumption DEF BodyInv, EntryRecord, HeapInv, AssetsAreLent
  <2>4. BodyInv(s)'
    BY <1>1, <2>1, <2>2, <2>3 DEF BodyInv, EntryRecord, Accounted
  <2> QED
    BY <2>2, <2>4, OneBody
<1>6. CASE ArrayBufferReturns(e)
  <2>1. PICK s : s = [r EXCEPT !.lock = "free", !.step = "returned"]
    OBVIOUS
  <2>2. entry' = [entry EXCEPT ![e] = s] /\ lent' = lent /\ Live(e) /\ r.step = "done"
    BY <1>2, <1>6, <2>1 DEF ArrayBufferReturns
  <2>3. BodyInv(s)'
    BY <1>1, <2>1, <2>2 DEF BodyInv, EntryRecord, Accounted
  <2> QED
    BY <2>2, <2>3, OneBody
<1>7. CASE ReaderRead(e) \/ ReaderCancel(e)
  <2>1. PICK s : s = [r EXCEPT !.disturbed = TRUE, !.queued = FALSE]
    OBVIOUS
  <2>2. entry' = [entry EXCEPT ![e] = s] /\ lent \subseteq lent' /\ Live(e)
    BY <1>2, <1>7, <2>1 DEF ReaderRead, ReaderCancel, TakeChunk
  <2>3. BodyInv(s)'
    BY <1>1, <2>1, <2>2 DEF BodyInv, EntryRecord, Accounted
  <2> QED
    BY <2>2, <2>3, OneBody
<1>8. CASE Cancel(e) \/ EngineReads(e)
  <2>1. PICK s : s = [r EXCEPT !.queued = FALSE, !.bypassed = TRUE]
    OBVIOUS
  <2>2. entry' = [entry EXCEPT ![e] = s] /\ lent \subseteq lent' /\ Live(e)
    BY <1>2, <1>8, <2>1 DEF Cancel, EngineReads, TakeChunk
  <2>3. BodyInv(s)'
    BY <1>1, <2>1, <2>2 DEF BodyInv, EntryRecord, Accounted
  <2> QED
    BY <2>2, <2>3, OneBody
<1>9. CASE GetReader(e) \/ EngineLocks(e) \/ ReleaseLock(e) \/ EngineUnlocks(e)
  <2>1. PICK owner \in {"free", "reader", "engine"} :
            entry' = [entry EXCEPT ![e] = [r EXCEPT !.lock = owner]]
    BY <1>2, <1>9 DEF GetReader, EngineLocks, ReleaseLock, EngineUnlocks, Lock, Unlock
  <2>2. lent' = lent /\ Live(e)
    BY <1>9 DEF GetReader, EngineLocks, ReleaseLock, EngineUnlocks, Lock, Unlock
  <2>3. PICK s : s = [r EXCEPT !.lock = owner]
    OBVIOUS
  <2>4. BodyInv(s)'
    BY <1>1, <2>2, <2>3 DEF BodyInv, EntryRecord, Accounted
  <2> QED
    BY <2>1, <2>2, <2>3, <2>4, OneBody
<1> QED
  BY <1>3, <1>4, <1>5, <1>6, <1>7, <1>8, <1>9

-----------------------------------------------------------------------------
(* The instance *)

LEMMA InitIInv == Init => IInv
<1> SUFFICES ASSUME Init PROVE IInv
  OBVIOUS
<1> USE DEF Init, KvInit, CacheInit, EntryInit
<1>1. HeapTypeOK /\ KvTypeOK
  BY EntryAssumption, KvAssumption, WiderElements DEF HeapTypeOK, KvTypeOK
<1>2. EntriesTypeOK /\ CacheTypeOK /\ SlotsAreKept /\ FillingsHaveBytes /\ lent \subseteq Asset
  BY DEF EntriesTypeOK, CacheTypeOK, SlotsAreKept, FillingsHaveBytes
<1>3. AssetsAreLent
  BY EntryAssumption, ElementsTyped DEF AssetsAreLent, Asset
<1>4. BodiesInv
  BY DEF BodiesInv, Live
<1> QED
  BY <1>1, <1>2, <1>3, <1>4 DEF IInv, HeapInv

\* What the host answers with: bytes.
LEMMA HostAnswers ==
    /\ HostGet \subseteq Seq(Bytes)
    /\ HostZRangeByScore \subseteq Seq(Bytes)
    /\ HostZScan \subseteq Seq(Bytes)
<1>1. HostGet \subseteq Seq(Bytes)
  BY OneElement DEF HostGet
<1>2. ASSUME NEW list \in HostZRangeByScore PROVE list \in Seq(Bytes)
  <2>1. PICK set \in SortedSets : \E m, n \in 0 .. Len(set) : list = SubSeq(set, m + 1, n)
    BY DEF HostZRangeByScore
  <2>2. PICK m \in 0 .. Len(set), n \in 0 .. Len(set) : list = SubSeq(set, m + 1, n)
    BY <2>1
  <2>3. set \in Seq(Bytes) /\ m \in Nat /\ n \in Nat
    BY KvAssumption
  <2> QED
    BY <2>2, <2>3
<1>3. ASSUME NEW list \in HostZScan PROVE list \in Seq(Bytes)
  <2>1. PICK n \in 0 .. Cardinality(Bytes) : list \in [1 .. n -> Bytes]
    BY DEF HostZScan, SeqOf
  <2> QED
    BY <2>1
<1> QED
  BY <1>1, <1>2, <1>3

LEMMA KvKeeps ==
    ASSUME IInv, KvNext, UNCHANGED <<filling, entryVars>>
    PROVE  IInv'
<1> USE DEF IInv, entryVars
<1>1. BodiesInv'
  BY DEF BodiesInv, Live, BodyInv, Accounted
<1>2. CASE \E n \in StoreName : Open(n)
  <2>1. KvTypeOK'
    <3>1. PICK n \in StoreName : Len(opened) < MaxHandles /\ opened' = Append(opened, n)
      BY <1>2 DEF Open
    <3>2. opened \in Seq(StoreName) /\ MaxHandles \in Nat
      BY KvAssumption DEF KvTypeOK
    <3> QED
      BY <3>1, <3>2 DEF KvTypeOK
  <2>2. HeapInv'
    BY <1>2 DEF Open, HeapInv, HeapTypeOK, EntriesTypeOK, CacheTypeOK, SlotsAreKept,
                FillingsHaveBytes, AssetsAreLent
  <2> QED
    BY <1>1, <2>1, <2>2
<1>3. CASE Get \/ ZRangeByScore \/ ZScan
  <2>1. PICK c \in Seq(Bytes) : HandOver(c)
    BY <1>3, HostAnswers DEF Get, ZRangeByScore, ZScan
  <2>2. c \in Seq(Bytes \cup {Empty})
    BY WiderElements
  <2>3. UNCHANGED <<opened, entries>>
    BY <1>3 DEF Get, ZRangeByScore, ZScan
  <2> QED
    BY <1>1, <2>1, <2>2, <2>3, HandOverKeeps DEF KvTypeOK
<1>4. CASE GetEntry \/ ZRangeByScoreEntries \/ ZScanEntries
  <2>1. PICK list \in Seq(Bytes) : Create(list)
    BY <1>4, HostAnswers DEF GetEntry, ZRangeByScoreEntries, ZScanEntries
  <2>2. UNCHANGED <<opened, handed>>
    BY <1>4 DEF GetEntry, ZRangeByScoreEntries, ZScanEntries
  <2>3. filling' \in [CacheKey -> handed \cup {0}]
    BY DEF HeapInv, CacheTypeOK
  <2> QED
    BY <1>1, <2>1, <2>2, <2>3, CreateKeeps DEF KvTypeOK
<1> QED
  BY <1>2, <1>3, <1>4 DEF KvNext

LEMMA CacheKeeps ==
    ASSUME IInv, CacheNext, UNCHANGED <<opened, entryVars>>
    PROVE  IInv'
<1> USE DEF IInv, entryVars
<1>1. BodiesInv' /\ KvTypeOK'
  BY DEF BodiesInv, Live, BodyInv, Accounted, KvTypeOK
<1>2. filling \in [CacheKey -> handed \cup {0}] /\ handed \subseteq DOMAIN heap
  BY DEF HeapInv, CacheTypeOK, HeapTypeOK
<1>3. CASE CacheGet
  <2>1. PICK v \in Bytes : Create(<<v>>)
    BY <1>3 DEF CacheGet
  <2>2. UNCHANGED <<filling, handed>>
    BY <1>3 DEF CacheGet
  <2> QED
    BY <1>1, <1>2, <2>1, <2>2, OneElement, CreateKeeps
<1>4. ASSUME NEW k \in CacheKey, PopulateThen(k) PROVE IInv'
  <2>1. heap[filling[k]] \in Bytes /\ Create(<<heap[filling[k]]>>)
    BY <1>4 DEF PopulateThen, EntryFor, Coerce, HeapInv, FillingsHaveBytes
  <2>2. filling' = [filling EXCEPT ![k] = 0] /\ handed' = handed
    BY <1>4 DEF PopulateThen
  <2> QED
    BY <1>1, <1>2, <2>1, <2>2, OneElement, CreateKeeps
<1>5. ASSUME NEW k \in CacheKey, NEW b \in handed, PopulateResolves(k, b) PROVE IInv'
  <2>1. filling' = [filling EXCEPT ![k] = b] /\ UNCHANGED <<entries, heap, handed>>
    BY <1>5 DEF PopulateResolves
  <2>2. heap[b] \in Bytes
    BY <1>2, <1>5, ElementsTyped DEF PopulateResolves, HeapInv, HeapTypeOK
  <2>3. CacheTypeOK' /\ FillingsHaveBytes'
    BY <1>2, <2>1, <2>2 DEF CacheTypeOK, HeapInv, FillingsHaveBytes
  <2> QED
    BY <1>1, <2>1, <2>3
       DEF HeapInv, HeapTypeOK, EntriesTypeOK, SlotsAreKept, AssetsAreLent
<1> QED
  BY <1>3, <1>4, <1>5 DEF CacheNext

LEMMA EntryKeeps ==
    ASSUME IInv, EntryNext, UNCHANGED <<entries, opened, filling>>
    PROVE  IInv'
<1> USE DEF IInv
<1>1. BodiesInv' /\ KvTypeOK'
  BY BodyStep DEF KvTypeOK
<1> SUFFICES ASSUME NEW e \in Entry,
                    \/ \E a \in Asset : CreateEmbeddedStoreEntry(e, a)
                    \/ ArrayBufferStarts(e) \/ ArrayBufferCopies(e) \/ ArrayBufferReturns(e)
                    \/ GetReader(e) \/ ReaderRead(e) \/ ReaderCancel(e) \/ ReleaseLock(e)
                    \/ Cancel(e) \/ EngineLocks(e) \/ EngineReads(e) \/ EngineUnlocks(e)
             PROVE  HeapInv'
  BY <1>1 DEF EntryNext
<1>2. Live(e) => entry[e].asset \in Asset /\ entry[e].result \in Bytes \cup {Empty}
  BY DEF BodiesInv, BodyInv, EntryRecord
<1>3. CASE ArrayBufferReturns(e)
  <2>1. Live(e) /\ HandOver(<<entry[e].result>>) /\ lent' = lent
    BY <1>3 DEF ArrayBufferReturns, Isolated
  <2>2. <<entry[e].result>> \in Seq(Bytes \cup {Empty})
    BY <1>2, <2>1, OneElement
  <2> QED
    BY <2>1, <2>2, HandOverKeeps
<1>4. CASE ReaderRead(e) \/ EngineReads(e)
  <2>1. PICK A \in {{}, {entry[e].asset}} : handed' = handed \cup A /\ lent' = lent \cup A
    <3>1. TakeChunk(e) \/ UNCHANGED <<handed, lent>>
      BY <1>4 DEF ReaderRead, EngineReads
    <3> DEFINE a == entry[e].asset
    <3>2. \/ handed' = handed \cup {a} /\ lent' = lent \cup {a}
          \/ handed' = handed \cup {} /\ lent' = lent \cup {}
      BY <3>1 DEF TakeChunk
    <3> QED
      BY <3>2
  <2>2. A \subseteq Asset /\ heap' = heap
    BY <1>2, <1>4, <2>1 DEF ReaderRead, EngineReads
  <2> QED
    BY <2>1, <2>2, LendKeeps
<1>5. CASE UNCHANGED <<heap, handed, lent>>
  <2>1. PICK A \in SUBSET Asset : A = {}
    OBVIOUS
  <2>2. handed' = handed \cup A /\ lent' = lent \cup A /\ heap' = heap
    BY <1>5, <2>1
  <2> QED
    BY <2>2, LendKeeps
<1> QED
  BY <1>3, <1>4, <1>5
     DEF CreateEmbeddedStoreEntry, ArrayBufferStarts, ArrayBufferCopies, ReaderCancel, Cancel,
         GetReader, ReleaseLock, EngineLocks, EngineUnlocks, Lock, Unlock

LEMMA ApplicationKeeps ==
    ASSUME IInv, ApplicationNext, UNCHANGED <<opened, filling, entryVars>>
    PROVE  IInv'
<1> USE DEF IInv, entryVars
<1>1. BodiesInv' /\ KvTypeOK'
  BY DEF BodiesInv, Live, BodyInv, Accounted, KvTypeOK
<1>2. CASE UNCHANGED entries /\ Scribble
  BY <1>1, <1>2, ScribbleKeeps
<1>3. CASE UNCHANGED entries /\ \E v \in Bytes : HandOver(<<v>>)
  <2>1. PICK v \in Bytes : HandOver(<<v>>)
    BY <1>3
  <2>2. <<v>> \in Seq(Bytes \cup {Empty})
    BY OneElement
  <2> QED
    BY <1>1, <1>3, <2>1, <2>2, HandOverKeeps
<1>4. CASE \E e \in DOMAIN entries : ArrayBuffer(e)
  <2>1. PICK e \in DOMAIN entries : HandOver(<<heap[entries[e].slot]>>) /\ UNCHANGED entries
    BY <1>4 DEF ArrayBuffer, EntryBytes
  <2>2. heap[entries[e].slot] \in Bytes
    BY EntrySlots DEF HeapInv, SlotsAreKept
  <2>3. <<heap[entries[e].slot]>> \in Seq(Bytes \cup {Empty})
    BY <2>2, OneElement
  <2> QED
    BY <1>1, <2>1, <2>3, HandOverKeeps
<1> QED
  BY <1>2, <1>3, <1>4 DEF ApplicationNext

LEMMA NextIInv == IInv /\ [Next]_vars => IInv'
<1> SUFFICES ASSUME IInv, [Next]_vars PROVE IInv'
  OBVIOUS
<1>1. CASE UNCHANGED vars
  BY <1>1
     DEF vars, IInv, HeapInv, HeapTypeOK, EntriesTypeOK, CacheTypeOK, KvTypeOK, SlotsAreKept,
         FillingsHaveBytes, AssetsAreLent, BodiesInv, Live, BodyInv, Accounted
<1>2. CASE Next
  BY <1>2, KvKeeps, CacheKeeps, EntryKeeps, ApplicationKeeps DEF Next
<1> QED
  BY <1>1, <1>2

\* The inductive invariant: of the heap, of who has which buffer, and of the
\* bodies that are being read.
THEOREM StoreEntriesInvariant == Spec => []IInv
<1> QED
  BY InitIInv, NextIInv, PTL DEF Spec

\* Types: every entry has its buffer, and what populate ended with is a buffer
\* of the application's.
THEOREM StoredBodiesAreTyped == Spec => []TypeOK
<1>1. IInv => TypeOK
  BY DEF IInv, HeapInv, BodiesInv, TypeOK, EntryTypeOK
<1> QED
  BY <1>1, StoreEntriesInvariant, PTL

\* Whatever an application does with its buffers, entries of the KV store and
\* of the cache read as the bytes they were made from.
THEOREM EntriesAreSnapshots == Spec => []EntryIsSnapshot
<1>1. IInv => EntryIsSnapshot
  BY DEF IInv, HeapInv, SlotsAreKept, EntryIsSnapshot, EntryBytes
<1> QED
  BY <1>1, StoreEntriesInvariant, PTL

\* An arrayBuffer() of an asset that resolves has all of it, unless the stream
\* was consumed unseen or the asset's own array was lent.
THEOREM BodiesAreWhole == Spec => []BodyIsWhole
<1>1. IInv => BodyIsWhole
  BY DEF IInv, BodiesInv, BodyInv, Accounted, BodyIsWhole
<1> QED
  BY <1>1, StoreEntriesInvariant, PTL

\* An asset keeps its bytes unless its array was lent.
THEOREM AssetsAreKept == Spec => []AssetKept
<1>1. IInv => AssetKept
  BY DEF IInv, HeapInv, AssetsAreLent, AssetKept
<1> QED
  BY <1>1, StoreEntriesInvariant, PTL
=============================================================================
