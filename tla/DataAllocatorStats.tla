-------------------------- MODULE DataAllocatorStats --------------------------
(***************************************************************************)
(* What DataAllocator::printStats reports, and how it relates to the       *)
(* blocks that are in use.                                                 *)
(***************************************************************************)
EXTENDS DataAllocator, FiniteSetsExt

(* "Deallocated available": list w counts w words for each of its blocks. *)
MemInFreeList == MapThenSumSet(LAMBDA w : w * Len(FreeList(w)), ListIndices)

(* "Memory allocated", in words. *)
MemAllocated == Len(pools) * ChunkSize - (MemInFreeList + endFree - freePtr)

LiveWords == MapThenSumSet(LAMBDA b : BlockWords(b.ints), live)

(* Conservation: what printStats reports as allocated is what the callers  *)
(* hold, so no word is lost to both.  It needs 32 bit words: on 64 bits    *)
(* arch_size halves the leftover of a pool a second time.                  *)
StatsMatchLive == status = "ok" => MemAllocated = LiveWords
=============================================================================
