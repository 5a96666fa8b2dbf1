---------------------------- MODULE MCChunkSteal ----------------------------
(* Instances of ChunkSteal: the chunks of the nodes 0, 1 and 2.            *)
EXTENDS ChunkSteal, TLC

Num321 == 0 :> 3 @@ 1 :> 2 @@ 2 :> 1
Num211 == 0 :> 2 @@ 1 :> 1 @@ 2 :> 1
=============================================================================
