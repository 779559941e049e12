------------------------------ MODULE HostCalls ------------------------------
(***************************************************************************)
(* A call of the host from within an instance: bindings.c passes on the    *)
(* arguments and reads the answer, host_api.cpp hands it to a builtin, and  *)
(* who is done with it gives back its memory.                              *)
(*                                                                         *)
(* The host fills the area as the canonical ABI says, from memory it asks  *)
(* cabi_realloc for: a block for a list, but the bare alignment for an     *)
(* empty one, which is no block.  Calls do not overlap: an instance has    *)
(* one thread, and the area is a local variable.  What StarlingMonkey does *)
(* with the answers of WASI is not part of the repository.                 *)
(***************************************************************************)
EXTENDS GcoreCalls, WasiCalls, BindingsFree

\* The adapters and the helpers, by name.  They are what GcoreCalls, WasiCalls
\* and BindingsFree say, and constants because TLC computes a constant once.
CONSTANTS Calls, Helpers

ASSUME HostCallsAssumption ==
    /\ Calls = Both(gcore_fastedge, wasi)
    /\ Helpers = Both(gcore_helpers, wasi_helpers)

VARIABLES
    phase,    \* of the call: idle, asked, answered, given, released; or freed, by a helper
    call,     \* the adapter, or the helper
    args,     \* what it is called with
    sent,     \* what it passes on
    answer,   \* what the host answers, or what the helper is handed
    area,     \* where
    given,    \* what the caller is told
    freed     \* the blocks given back, in order

callVars == <<phase, call, args, sent, answer, area, given, freed>>

-----------------------------------------------------------------------------
(* host_api.cpp.  What the wrappers of the KV store and of the cache return *)
(* points into the host's memory: the builtins copy it and leave it there.  *)

\* Where in the answer the text of a variable or a secret is: it becomes a
\* HostString of the builtin, which gives it back, whatever its length, when
\* that returns.  An error's text is left.
\* Mutant: the text is left.
leaks_env_vars == {}
get_env_vars == {<<2>>}
get_secret_vars == {<<1, 2>>}
get_secret_vars_effective_at == get_secret_vars
kv_store_results == {}
cache_results == {}

GivesBack(c) ==
    CASE c = "dictionary_get" -> get_env_vars
      [] c = "secret_get" -> get_secret_vars
      [] c = "secret_get_effective_at" -> get_secret_vars_effective_at
      [] c \in {"cache_sync_get", "cache_sync_set", "cache_sync_delete", "cache_sync_exists",
                "cache_sync_incr", "cache_sync_expire", "cache_sync_purge",
                "cache_sync_purge_prefix"} -> cache_results
      [] OTHER -> kv_store_results

\* What is told of a secret: the first case of the answer, and an error in
\* reading it as its absence.
Told(c, parts) ==
    IF c \notin {"secret_get", "secret_get_effective_at"} THEN parts
    ELSE IF [path |-> <<>>, holds |-> Datum("tag", <<>>, 0)] \in parts
    THEN {[q EXCEPT !.path = Tail(@)] : q \in {r \in parts : r.path # <<>>}}
    ELSE {[path |-> <<>>, holds |-> Datum("tag", <<>>, 0)]}

-----------------------------------------------------------------------------
CallsInit ==
    /\ phase = "idle"
    /\ call = "utils_set_user_diag"
    /\ args = <<>> /\ sent = <<>>
    /\ answer = <<>> /\ area = {}
    /\ given = {} /\ freed = <<>>

Ask(c) ==
    /\ phase = "idle"
    /\ \E as \in Calls[c].params.values :
          /\ args' = as
          /\ sent' = Arguments(Calls[c].sends, as)
    /\ call' = c
    /\ phase' = "asked"
    /\ UNCHANGED <<answer, area, given, freed>>

Answer ==
    /\ phase = "asked"
    /\ \E v \in Calls[call].result.values :
          /\ answer' = v
          /\ area' = Cells(Calls[call].result.stored.rows, v)
    /\ phase' = "answered"
    /\ UNCHANGED <<call, args, sent, given, freed>>

Give ==
    /\ phase = "answered"
    /\ given' = Told(call, Lifted(Calls[call].load, area))
    /\ phase' = "given"
    /\ UNCHANGED <<call, args, sent, answer, area, freed>>

\* The builtin returns.
Release ==
    /\ phase = "given"
    /\ call \in DOMAIN gcore_fastedge
    /\ LET texts == {q \in Lifted(Calls[call].load, area) :
                        q.path \in GivesBack(call) /\ q.holds.kind = "ptr"}
       IN freed' = SetToSeq({q.holds.at : q \in texts})
    /\ phase' = "released"
    /\ UNCHANGED <<call, args, sent, answer, area, given>>

FreeStruct(helper) ==
    /\ phase = "idle"
    /\ \E v \in Helpers[helper].type.values :
          /\ answer' = v
          /\ freed' = Freed(Helpers[helper], v)
    /\ call' = helper
    /\ phase' = "freed"
    /\ UNCHANGED <<args, sent, area, given>>

\* The next call finds nothing of this one.
Done ==
    /\ phase \in {"released", "freed"} \/ (phase = "given" /\ call \notin DOMAIN gcore_fastedge)
    /\ phase' = "idle"
    /\ call' = "utils_set_user_diag"
    /\ args' = <<>> /\ sent' = <<>>
    /\ answer' = <<>> /\ area' = {}
    /\ given' = {} /\ freed' = <<>>

CallsNext ==
    \/ \E c \in DOMAIN Calls : Ask(c)
    \/ Answer \/ Give \/ Release \/ Done
    \/ \E helper \in DOMAIN Helpers : FreeStruct(helper)

CallsSpec == CallsInit /\ [][CallsNext]_callVars

-----------------------------------------------------------------------------
\* The answer fits into the area that the adapter has for it, and the area is
\* aligned as the answer's type asks.
CallsTypeOK ==
    /\ phase \in {"idle", "asked", "answered", "given", "released", "freed"}
    /\ call \in IF phase = "freed" THEN DOMAIN Helpers ELSE DOMAIN Calls
    /\ \A c \in area : c.off + c.size <= Calls[call].size
    /\ phase # "freed" => Calls[call].align % Calls[call].result.stored.align = 0

\* The host gets the arguments as the canonical ABI passes them: each where
\* its parameter is, lists as pointer and length, and the payload of a case
\* behind the case (the call of the import in every adapter).
ArgumentsArrive ==
    phase \notin {"idle", "freed"} => sent = Arguments(Calls[call].params.passed, args)

\* What an adapter reads of the area, and a wrapper makes of it, is what the
\* host answered: every load is at the offset, of the size and in the case
\* where the host has stored that part.
GivenIsAnswered ==
    phase \in {"given", "released"} =>
        given = Told(call, Shown(Calls[call].result.stored.rows, answer))

\* A helper gives back every block of its value once, and none after the
\* one its pointer is in (the block whose path goes on to the other's); only
\* what it has no call for is left.
FreedOnce ==
    phase = "freed" =>
        /\ \A i, j \in DOMAIN freed : i < j => freed[i] # freed[j] /\ ~Above(freed[i], freed[j])
        /\ ToSet(freed) = Blocks(answer) \ Left(Helpers[call], answer)

\* Once getEnv, getSecret or getSecretEffectiveAt has returned, the text it
\* was given is given back, once, and of no call is anything given back
\* that is not a block, but for the pointer of an empty text.
TextsGivenBack ==
    phase = "released" =>
        LET texts == IF call \in {"dictionary_get", "secret_get", "secret_get_effective_at"}
                     THEN {q.holds.at : q \in {r \in given : r.holds.kind = "ptr"}} ELSE {}
        IN /\ IsInjective(freed)
           /\ texts \subseteq ToSet(freed)
           /\ ToSet(freed) \subseteq texts
           /\ \A p \in ToSet(freed) : p \in Blocks(answer) \/ answer[p].n = 0
=============================================================================
