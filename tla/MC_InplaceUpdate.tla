------------------------- MODULE MC_InplaceUpdate -------------------------
(* Three files: the executable, swapped first as in the manifest's order     *)
(* (manifest.rs, PATHS), one more to replace, and one the update adds.       *)
EXTENDS InplaceUpdate

MCAdded == {3}
=============================================================================
