---------------------------- MODULE StoreHandles ----------------------------
(***************************************************************************)
(* The memory behind KvStore objects (builtins/kv-store.cpp).              *)
(*                                                                         *)
(* open allocates a native KvStore that holds the host's handle and puts   *)
(* its address into the object's slot; finalize, which the garbage         *)
(* collector calls, deletes what is at that address.  open runs without    *)
(* interruption, and its object is rooted until it returns.  An address    *)
(* that was deleted may be handed out again.                               *)
(***************************************************************************)
EXTENDS Integers

CONSTANTS
    Stores,     \* bound: the calls of open
    Addresses,  \* bound: where natives may be
    NoAddress

ASSUME StoresAssumption == NoAddress \notin Addresses

VARIABLES
    life,       \* of the object of a call: unborn, none, held (by the application),
                \* dropped, finalized
    slot,       \* reserved slot 0 of the object
    allocated,  \* the addresses where a native is
    half,       \* objects whose methods could not be defined
    handles,    \* the calls whose handle is open with the host
    strays      \* objects whose finalizer deleted an address where nothing was

storeVars == <<life, slot, allocated, half, handles, strays>>

StoresInit ==
    /\ life = [s \in Stores |-> "unborn"]
    /\ slot = [s \in Stores |-> NoAddress]
    /\ allocated = {} /\ half = {} /\ handles = {} /\ strays = {}

\* Mutant: one native for every call that opens the same store.
OpenShared(s) ==
    /\ life[s] = "unborn"
    /\ \E a \in Addresses :
          /\ slot' = [slot EXCEPT ![s] = a]
          /\ allocated' = allocated \cup {a}
    /\ life' = [life EXCEPT ![s] = "held"]
    /\ handles' = handles \cup {s}
    /\ UNCHANGED <<half, strays>>

\* What becomes of a call whose object the application gets.
Open(s) ==
    /\ life[s] = "unborn"
    /\ \E a \in Addresses \ allocated :
          /\ slot' = [slot EXCEPT ![s] = a]
          /\ allocated' = allocated \cup {a}
    /\ life' = [life EXCEPT ![s] = "held"]
    /\ handles' = handles \cup {s}
    /\ UNCHANGED <<half, strays>>

\* The host refuses: open throws before it allocates.
OpenRefused(s) ==
    /\ life[s] = "unborn"
    /\ life' = [life EXCEPT ![s] = "none"]
    /\ UNCHANGED <<slot, allocated, half, handles, strays>>

\* The host has opened the store, and there is no memory for the object.
OpenWithoutObject(s) ==
    /\ life[s] = "unborn"
    /\ life' = [life EXCEPT ![s] = "none"]
    /\ handles' = handles \cup {s}
    /\ UNCHANGED <<slot, allocated, half, strays>>

\* Defining the methods fails: the native is deleted again, and the object
\* is garbage whose slot still has the address.
OpenWithoutMethods(s) ==
    /\ life[s] = "unborn"
    /\ \E a \in Addresses \ allocated : slot' = [slot EXCEPT ![s] = a]
    /\ life' = [life EXCEPT ![s] = "dropped"]
    /\ half' = half \cup {s}
    /\ handles' = handles \cup {s}
    /\ UNCHANGED <<allocated, strays>>

\* The application keeps no reference to the object.
Drop(s) ==
    /\ life[s] = "held"
    /\ life' = [life EXCEPT ![s] = "dropped"]
    /\ UNCHANGED <<slot, allocated, half, handles, strays>>

\* finalize
Collect(s) ==
    /\ life[s] = "dropped"
    /\ life' = [life EXCEPT ![s] = "finalized"]
    /\ allocated' = allocated \ {slot[s]}
    /\ strays' = IF slot[s] \in allocated THEN strays ELSE strays \cup {s}
    /\ UNCHANGED <<slot, half, handles>>

StoresNext ==
    \E s \in Stores :
        \/ Open(s) \/ OpenRefused(s) \/ OpenWithoutObject(s) \/ OpenWithoutMethods(s)
        \/ Drop(s) \/ Collect(s)

StoresSpec == StoresInit /\ [][StoresNext]_storeVars

-----------------------------------------------------------------------------
StoresTypeOK ==
    /\ life \in [Stores -> {"unborn", "none", "held", "dropped", "finalized"}]
    /\ slot \in [Stores -> Addresses \cup {NoAddress}]
    /\ allocated \subseteq Addresses
    /\ half \subseteq Stores /\ handles \subseteq Stores /\ strays \subseteq Stores

\* The addresses that were in the slot of a half-built object when it was finalized.
TwiceDeleted == {slot[h] : h \in {g \in half : life[g] = "finalized"}}

\* The native of an object in the application's hands is there, and no other
\* object in its hands has the same one, whatever was opened, dropped and
\* collected in between, unless a half-built object (kv-store.cpp:118) has
\* deleted that address a second time; and the handle in it is open.
HeldStoreUsable ==
    \A s \in Stores :
        life[s] = "held" =>
            /\ s \in handles
            /\ \/ slot[s] \in TwiceDeleted
               \/ /\ slot[s] \in allocated
                  /\ \A t \in Stores \ {s} : life[t] = "held" => slot[t] # slot[s]

\* finalize deletes a native once: it finds none at its address only if the
\* object is half-built or a half-built one has been there.
DeletedOnce == \A s \in strays : s \in half \/ slot[s] \in TwiceDeleted
=============================================================================
