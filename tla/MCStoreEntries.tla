--------------------------- MODULE MCStoreEntries ---------------------------
(* Instances of StoreEntries for TLC. *)
EXTENDS StoreEntries

CONSTANTS x, y

OneAsset == <<x>>
TwoMembers == {<<x, y>>}

EntrySymmetry == Permutations(Entry)
=============================================================================
