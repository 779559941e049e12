---------------------------- MODULE MCInstance ----------------------------
(***************************************************************************)
(* The builtins of an instance that do not meet: its calls of the host, its *)
(* stores, its secrets and the information on its request.  They share no   *)
(* variable, so one of them moves in a behaviour and the states add up.     *)
(***************************************************************************)
EXTENDS HostCalls, StoreHandles, SecretSlots, RequestInfo

VARIABLE part
vars == <<part, callVars, storeVars, secretVars, infoVars>>

Init ==
    /\ part \in {"calls", "stores", "secrets", "request"}
    /\ CallsInit /\ StoresInit /\ SecretInit /\ InfoInit

Next ==
    /\ \/ part = "calls" /\ CallsNext /\ UNCHANGED <<storeVars, secretVars, infoVars>>
       \/ part = "stores" /\ StoresNext /\ UNCHANGED <<callVars, secretVars, infoVars>>
       \/ part = "secrets" /\ SecretNext /\ UNCHANGED <<callVars, storeVars, infoVars>>
       \/ part = "request" /\ InfoNext /\ UNCHANGED <<callVars, storeVars, secretVars>>
    /\ UNCHANGED part

Spec == Init /\ [][Next]_vars

TypeOK == CallsTypeOK /\ StoresTypeOK /\ SecretTypeOK /\ InfoTypeOK

-----------------------------------------------------------------------------
\* Each under LET: TLC's coverage would look into a definition at every use of its constant.
AllCalls == LET calls == Both(gcore_fastedge, wasi) IN calls
AllHelpers == LET helpers == Both(gcore_helpers, wasi_helpers) IN helpers

\* With an int32 of 5 bits (Int32Limit = 16), numbers from below its range to past twice its size.
AskedNumbers == -20 .. 40
Slots == {0, 1, 3, 15, 16, 17, 31}

\* One header of each kind, and for one of them the one it falls back on.
Names == {"x-real-ip", "x-forwarded-for", "geoip-lat", "pop-reg"}
Contents == {"", "v", "1"}
Numbers == "1" :> "1"
=============================================================================
