---------------------------- MODULE MCChunkQueue ----------------------------
(* An instance of ChunkQueue: two readers, two slots, counters that wrap.  *)
EXTENDS ChunkQueue

CONSTANTS r1, r2
=============================================================================
