----------------------------- MODULE MCSurfaces -----------------------------
(* Surfaces with interchangeable backing addresses. *)
EXTENDS Surfaces, TLC

BackingSymmetry == Permutations(Backings)

=============================================================================
