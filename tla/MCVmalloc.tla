----------------------------- MODULE MCVmalloc -----------------------------
(* An instance of Vmalloc for TLC: 7 pages of addresses, tables of 2 entries. *)
EXTENDS Vmalloc
=============================================================================
