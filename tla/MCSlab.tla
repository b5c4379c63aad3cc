------------------------------- MODULE MCSlab -------------------------------
(* Instances of Slab for TLC. *)
EXTENDS Slab, TLC

Pages == Permutations(Page)

=============================================================================
