---------------------------- MODULE MemoryStats ----------------------------
(***************************************************************************)
(* The allocation counters of MemoryStats (src/memory/memory_stats.cpp):   *)
(* what recording an allocation and a deallocation does to a byte count.   *)
(* Peaks and transfer counts feed no decision and are left out.            *)
(***************************************************************************)
EXTENDS Integers

Allocated(counter, bytes) == counter + bytes

\* After reset() tensors counted before it are still freed: the counter stops
\* at zero instead of wrapping.
Deallocated(counter, bytes) == IF counter >= bytes THEN counter - bytes ELSE 0
=============================================================================
