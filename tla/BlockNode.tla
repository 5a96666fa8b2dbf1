------------------------------ MODULE BlockNode ------------------------------
(***************************************************************************)
(* A node's store of block files (blocknode/block_node.cc, local_io.cc) and*)
(* the asynchronous links over which it sends every change to its right and*)
(* its left neighbour on the ring. Contents are sequences of cells, each as*)
(* long as is written and read at once. This module has the handlers;      *)
(* Replication, VeloxFS and Edits use them as steps of a specification.    *)
(***************************************************************************)
EXTENDS Integers, Sequences, SequencesExt, Functions, TLC

CONSTANTS N,    \* number of nodes in network.nodes
          Zero  \* what a hole in a file, or a missing file, reads as
ASSUME NodesAssumption == N \in Nat \ {0}

Node == 0 .. N - 1

VARIABLES
    disk,   \* disk[n]: the files below path.scratch, by name
    link    \* link[<<m, n>>]: what m has sent and n not yet handled, as sent

NoFiles == <<>>   \* no name has a file

\* replicate_message: id+1 and id-1 modulo the network size.
RightOf(n) == (n + 1) % N
LeftOf(n)  == (n - 1 + N) % N
Neighbours(n) == <<RightOf(n), LeftOf(n)>>
-----------------------------------------------------------------------------
(* Local_io: files on the local disk.                                      *)

\* write: the file is created or truncated.
Written(files, b, data) ==
    [x \in DOMAIN files \cup {b} |-> IF x = b THEN data ELSE files[x]]

\* update: opened without creating it, so a missing file swallows the write;
\* a position behind the end leaves a hole.
PatchedOneFurther(data, pos, new) ==   \* seeded fault: off by one
    [i \in 1 .. Max({pos + 1 + Len(new), Len(data)}) |->
        IF i \in pos + 2 .. pos + 1 + Len(new) THEN new[i - pos - 1]
        ELSE IF i <= Len(data) THEN data[i] ELSE Zero]
Patched(data, pos, new) ==
    [i \in 1 .. Max({pos + Len(new), Len(data)}) |->
        IF i \in pos + 1 .. pos + Len(new) THEN new[i - pos]
        ELSE IF i <= Len(data) THEN data[i] ELSE Zero]
Updated(files, b, pos, new) ==
    IF b \in DOMAIN files THEN [files EXCEPT ![b] = Patched(@, pos, new)] ELSE files

Removed(files, b) == Restrict(files, DOMAIN files \ {b})

\* BLOCK_REQUEST: position and length 0 ask for the whole file, as the router takes
\* it. A missing file has size -1 and an offset behind the end a wrapped-around
\* rest, so both deliver zeros; at most the rest of the file is read.
ReadCells(files, b, pos, len) ==
    IF b \notin DOMAIN files \/ pos > Len(files[b]) THEN [i \in 1 .. len |-> Zero]
    ELSE IF pos = 0 /\ len = 0 THEN files[b]
    ELSE SubSeq(files[b], pos + 1, Min({pos + len, Len(files[b])}))
\* Of a missing file the whole is -1 bytes: no buffer can be that long, and the
\* exception ends the connection without an answer.
Unanswered(files, b, pos, len) == pos = 0 /\ len = 0 /\ b \notin DOMAIN files
-----------------------------------------------------------------------------
(* The effect of an IOoperation on the files of the node that handles it.  *)
Message(op, b, pos, data) == [op |-> op, name |-> b, pos |-> pos, data |-> data]

Applied(files, m) ==
    CASE m.op = "INSERT" -> Written(files, m.name, m.data)
      [] m.op = "UPDATE" -> Updated(files, m.name, m.pos, m.data)
      [] m.op = "DELETE" -> Removed(files, m.name)

\* Seeded fault: only the right neighbour gets a copy.
SentToTheRight(links, n, m) == [links EXCEPT ![<<n, RightOf(n)>>] = Append(@, m)]
\* send_and_replicate: one copy for each entry of the list, in its order. Until a
\* connection to the node is registered, and again after one was idle for 10 s,
\* each send opens another (client_handler.cc, ServerLinks), and each is read by
\* a coroutine of its own.
Sent(links, n, m) ==
    LET once == [links EXCEPT ![<<n, RightOf(n)>>] = Append(@, m)]
    IN  [once EXCEPT ![<<n, LeftOf(n)>>] = Append(@, m)]

\* block_insert_local, block_update_local, block_delete_local as the primary:
\* the local change and the replica messages; the client's reply is "TRUE".
HandleBlock(n, m) ==
    /\ disk' = [disk EXCEPT ![n] = Applied(@, m)]
    /\ link' = Sent(link, n, m)

\* Seeded fault: what came in the same read as the message is thrown away.
ReceiveReplicaAlone(m, n, i) ==
    /\ i \in DOMAIN link[<<m, n>>]
    /\ disk' = [disk EXCEPT ![n] = Applied(@, link[<<m, n>>][i])]
    /\ link' = [link EXCEPT ![<<m, n>>] = <<>>]

\* The same as a replica (BLOCK_*_REPLICA): no further message. Over connections
\* of their own the messages of a node are handled in any order.
ReceiveReplica(m, n, i) ==
    /\ i \in DOMAIN link[<<m, n>>]
    /\ disk' = [disk EXCEPT ![n] = Applied(@, link[<<m, n>>][i])]
    /\ link' = [link EXCEPT ![<<m, n>>] = RemoveAt(@, i)]

\* Local_io::format: everything below path.scratch goes, replicas included.
WipeDisk(n) == disk' = [disk EXCEPT ![n] = NoFiles]

BlockInit ==
    /\ disk = [n \in Node |-> NoFiles]
    /\ link = [e \in Node \X Node |-> <<>>]
=============================================================================
