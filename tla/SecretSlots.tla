---------------------------- MODULE SecretSlots ----------------------------
(***************************************************************************)
(* getSecretEffectiveAt (builtins/fastedge.cpp): which slot of a secret an *)
(* application gets for the number it asks with.                           *)
(*                                                                         *)
(* The number goes through JS::ToInt32, becomes 0 if that is negative, and *)
(* is passed on as a uint32; the host, which others add slots to, answers  *)
(* with the most recent slot at or before it (secret.wit).  Fractions,     *)
(* which ToInt32 cuts off, are left out.                                   *)
(***************************************************************************)
EXTENDS Integers, FiniteSets

CONSTANTS
    Int32Limit, \* bound: an int32 is one of -Int32Limit .. Int32Limit - 1; 2^31 in the code
    Asked,      \* the numbers asked with
    SlotNumbers

ASSUME SecretSlotsAssumption ==
    /\ Int32Limit \in Nat \ {0}
    /\ Asked \subseteq Int
    /\ SlotNumbers \subseteq 0 .. 2 * Int32Limit - 1

VARIABLES
    slots,      \* the slots of the secret
    effective_at,   \* the number of the last call
    secretValue     \* the slot it got, as a set of at most one

secretVars == <<slots, effective_at, secretValue>>

ToInt32(n) ==
    LET m == n % (2 * Int32Limit)
    IN IF m < Int32Limit THEN m ELSE m - 2 * Int32Limit

\* Mutant: a negative number is passed on.
Unclamped(n) == n
ClampedToZero(n) == IF n < 0 THEN 0 ELSE n
ToUint32(n) == n % (2 * Int32Limit)

MostRecent(at) ==
    {s \in slots : s <= at /\ \A t \in slots : t <= at => t <= s}

SecretInit ==
    /\ slots = {} /\ secretValue = {}
    /\ effective_at = 0

AddSlot ==
    /\ \E s \in SlotNumbers \ slots : slots' = slots \cup {s}
    /\ UNCHANGED <<effective_at, secretValue>>

GetSecretEffectiveAt ==
    \E n \in Asked :
        /\ effective_at' = n
        /\ secretValue' = MostRecent(ToUint32(ClampedToZero(ToInt32(n))))
        /\ UNCHANGED slots

SecretNext == AddSlot \/ GetSecretEffectiveAt

SecretSpec == SecretInit /\ [][SecretNext]_secretVars

-----------------------------------------------------------------------------
SecretTypeOK ==
    /\ slots \subseteq SlotNumbers
    /\ effective_at \in Asked \cup {0}
    /\ secretValue \subseteq SlotNumbers /\ Cardinality(secretValue) <= 1

\* A call never gets a slot later than it asked for (a negative number, from
\* the range of an int32, counts as 0), and in that range it gets the most
\* recent: what 31 bits do not hold only ever leads to an older secret.
SlotAsAsked ==
    [][GetSecretEffectiveAt =>
         LET at == IF effective_at' < 0 THEN 0 ELSE effective_at'
         IN effective_at' >= -Int32Limit =>
               /\ \A s \in secretValue' : s <= at
               /\ at < Int32Limit => secretValue' = MostRecent(at)]_secretVars
=============================================================================
