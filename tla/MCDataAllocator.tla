--------------------------- MODULE MCDataAllocator ---------------------------
(* Small pools for TLC: pool p starts at word p * (ChunkSize + Gap). *)
EXTENDS DataAllocatorStats

CONSTANT Gap  \* words between two pools, 1 when they are next to each other

PoolBase == [p \in Pools |-> p * (ChunkSize + Gap)]
=============================================================================
