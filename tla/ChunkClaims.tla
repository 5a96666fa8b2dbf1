---------------------------- MODULE ChunkClaims ----------------------------
(***************************************************************************)
(* What the chunk-stealing protocol of the task managers promises, with no *)
(* ZooKeeper and no order of work: every chunk of the job is taken by at   *)
(* most one of the nodes that hold a copy of it, and is never given back.  *)
(***************************************************************************)
CONSTANTS Chunk,     \* the chunks of the job
          Worker,    \* the nodes that run a task
          Holder(_), \* the nodes with a copy of a chunk on their own disk
          NoOne      \* the taker of a chunk nobody has taken yet

VARIABLE taker

Init == taker = [c \in Chunk |-> NoOne]

Take(w, c) ==
    /\ taker[c] = NoOne
    /\ w \in Holder(c)
    /\ taker' = [taker EXCEPT ![c] = w]

Next == \E w \in Worker, c \in Chunk : Take(w, c)

Spec == Init /\ [][Next]_taker
=============================================================================
