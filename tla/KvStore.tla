------------------------------ MODULE KvStore ------------------------------
(***************************************************************************)
(* The `fastedge::kv` builtin (builtins/kv-store.cpp) in one instance.     *)
(*                                                                         *)
(* Every call asks the host at once and leaves nothing under way, so each  *)
(* is one action; scan, bfExists and a call the host refuses (getEntry and *)
(* the ...Entries methods reject their promise, the others throw) change   *)
(* nothing.  What lasts are the buffers and the KvStoreEntry objects.      *)
(*                                                                         *)
(* Others write to the stores at any time, and this builtin never does, so *)
(* the host may answer anything: for a key with a plain value, its bytes;  *)
(* for a sorted set, members in the order of their scores.  A KvStore      *)
(* object is its host handle, a position in `opened`; handles are never    *)
(* given back.  Memory does not run out here (see Cache).                  *)
(***************************************************************************)
EXTENDS BytesEntry

CONSTANTS
    StoreName,
    SortedSets,  \* bound: the sorted sets that occur
    MaxHandles   \* bound: stores opened in a behaviour

ASSUME KvAssumption ==
    /\ SortedSets \subseteq Seq(Bytes)
    /\ MaxHandles \in Nat

VARIABLE
    opened  \* opened[h]: the store that handle h is for

KvTypeOK == opened \in Seq(StoreName) /\ Len(opened) <= MaxHandles

KvInit == opened = <<>>

-----------------------------------------------------------------------------
(* The host's answers *)

HostGet == {<<v>> : v \in Bytes}

HostZRangeByScore ==
    UNION {{SubSeq(set, m + 1, n) : m, n \in 0 .. Len(set)} : set \in SortedSets}

\* key-value.wit promises no order here.
HostZScan ==
    {list \in SeqOf(Bytes, Cardinality(Bytes)) :
        IsInjective(list) /\ \E set \in SortedSets : ToSet(list) \subseteq ToSet(set)}

-----------------------------------------------------------------------------
Open(n) ==
    /\ Len(opened) < MaxHandles
    /\ opened' = Append(opened, n)
    /\ UNCHANGED <<entries, heap, handed>>

\* get, zrangeByScore and zscan copy the host's bytes into new Uint8Arrays.
Get ==
    /\ \E value \in HostGet : HandOver(value)
    /\ UNCHANGED <<opened, entries>>

ZRangeByScore ==
    /\ \E list \in HostZRangeByScore : HandOver(list)
    /\ UNCHANGED <<opened, entries>>

ZScan ==
    /\ \E list \in HostZScan : HandOver(list)
    /\ UNCHANGED <<opened, entries>>

\* The ...Entry and ...Entries methods copy them into entries.
GetEntry ==
    /\ \E value \in HostGet : Create(value)
    /\ UNCHANGED <<opened, handed>>

ZRangeByScoreEntries ==
    /\ \E list \in HostZRangeByScore : Create(list)
    /\ UNCHANGED <<opened, handed>>

ZScanEntries ==
    /\ \E list \in HostZScan : Create(list)
    /\ UNCHANGED <<opened, handed>>

KvNext ==
    \/ \E n \in StoreName : Open(n)
    \/ /\ opened # <<>>
       /\ \/ Get \/ ZRangeByScore \/ ZScan
          \/ GetEntry \/ ZRangeByScoreEntries \/ ZScanEntries
=============================================================================
