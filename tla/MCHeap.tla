------------------------------- MODULE MCHeap -------------------------------
(***************************************************************************)
(* Instances of Heap for TLC.                                              *)
(***************************************************************************)
EXTENDS Heap

\* An unaligned arena of 1092 bytes, first header to sentinel, and one a byte
\* too short for __heap_init() to accept.
MCHeapBounds == {<<4097, 5203>>, <<4097, 5127>>}

\* With their headers, and rounded, blocks of 120, 240 and 480 bytes: they fit
\* each other's holes, and the last one in the arena leaves a remainder of 12
\* bytes, too small to be a region of its own.
MCSizes == {105, 229, 472}

\* A gap holds up to 19 bytes of rounding at the end of the block before it,
\* two headers, and up to 7 bytes of rounding of the request.
Abstract == INSTANCE Allocator WITH
    Overhead <- 19 + 2 * DWORD_SIZE + 7,
    arena    <- IF booted = "ok" THEN <<first + DWORD_SIZE, tail>> ELSE <<0, 0>>,
    blocks   <- held

\* malloc() and free() keep the promise that Allocator states.
KeepsPromise == Abstract!Spec
=============================================================================
