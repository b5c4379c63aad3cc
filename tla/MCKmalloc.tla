----------------------------- MODULE MCKmalloc -----------------------------
(* Instances of Kmalloc for TLC: units of 2 bytes, an early heap of 4 units,  *)
(* caches of 2 and 4 bytes, two pages of 8 bytes.                            *)
EXTENDS Kmalloc

Whole == {0, 2, 3, 4, 5, 8, 9}     \* 3, 5 and 9: one more than a power of two
=============================================================================
