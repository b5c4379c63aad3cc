---------------------------- MODULE MCPageAlloc ----------------------------
(* Instances of PageAlloc for TLC. *)
EXTENDS PageAlloc

\* RAM from frame 4 to 9: the range crosses the zones' border at 8 and ends in
\* the middle of a largest block, so that the linear zone is one whole block and
\* highmem is the two single pages of an incomplete one.
TwoZones == <<<<4, 10>>>>

\* One block of the linear zone whole, and a second RAM range that begins in the
\* middle of a block: its pages are added as single pages.
Edge == <<<<4, 8>>, <<9, 12>>>>
=============================================================================
