------------------------- MODULE MCMemoryAllocator -------------------------
(* MemoryAllocator on a pool of three elements, the smallest in which a    *)
(* scan can start at the first, at an inner and at the last element.       *)
EXTENDS MemoryAllocator
=============================================================================
