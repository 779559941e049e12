---------------------------- MODULE StoreEntries ----------------------------
(***************************************************************************)
(* One instance whose application uses every kind of stored body: of the   *)
(* KV store, of the cache, and of static assets.  They share the heap, and *)
(* the application, which passes on to one what another gave it and may    *)
(* write into it at any time.                                              *)
(***************************************************************************)
EXTENDS KvStore, CacheBytes, EmbeddedStoreEntry

vars == <<heap, handed, entries, opened, filling, entry, lent>>

Init ==
    /\ heap = Original
    /\ handed = {}
    /\ entries = <<>>
    /\ KvInit
    /\ CacheInit
    /\ EntryInit

\* The application: makes a buffer, writes into one, or reads an entry.
ApplicationNext ==
    \/ UNCHANGED entries /\ Scribble
    \/ UNCHANGED entries /\ \E v \in Bytes : HandOver(<<v>>)
    \/ \E e \in DOMAIN entries : ArrayBuffer(e)

Next ==
    \/ KvNext /\ UNCHANGED <<filling, entryVars>>
    \/ CacheNext /\ UNCHANGED <<opened, entryVars>>
    \/ EntryNext /\ UNCHANGED <<entries, opened, filling>>
    \/ ApplicationNext /\ UNCHANGED <<opened, filling, entryVars>>

Spec == Init /\ [][Next]_vars

\* Types; every entry has a buffer, populate's value is one that the application
\* has, and an asset's body is read under one lock.
TypeOK == HeapTypeOK /\ EntriesTypeOK /\ KvTypeOK /\ CacheTypeOK /\ EntryTypeOK
=============================================================================
