------------------------------ MODULE MCRbTree ------------------------------
(* Instance of RbTree for TLC: enough single keys for the deep cases of     *)
(* remove_fixup, and intervals that overlap several others.                 *)
EXTENDS RbTree

Intervals == {<<k, k>> : k \in 1 .. 8} \cup {<<2, 4>>, <<5, 6>>}
=============================================================================
