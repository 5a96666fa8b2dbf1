------------------------------- MODULE MCEdits -------------------------------
(* Instances of Edits: a file and a name to rename it to, two processes, one *)
(* on a node and one on a host that is none, and the keys 0 .. 9.            *)
EXTENDS Edits

CONSTANTS c1, c2, f, g

Ring == INSTANCE Placement WITH NumServer <- N, MaxKey <- 9
\* What a client may draw for a server, but for the boundary key.
Inner == [s \in Node |-> {Ring!GetIndex(k) : k \in Ring!Drawn(s) \ {Ring!LowerBoundary(s)}}]

OnFile(ops) == {[op |-> op, file |-> f] : op \in ops}
Write(len, ends) == [op |-> "write", file |-> f, len |-> len, ends |-> ends]
Writes == {Write(1, {1}), Write(3, {1, 3})}
Read   == [op |-> "read", file |-> f, off |-> 0, len |-> 2]
Rename == [op |-> "rename", file |-> f, dst |-> g]
All      == OnFile({"touch", "put_idv", "get", "rm"}) \cup {Write(2, {1, 2}), Read, Rename}
Overflow == OnFile({"touch", "get"}) \cup Writes

Home01 == f :> 1 @@ g :> 0
Len11  == c1 :> 1 @@ c2 :> 1
Calls31 == c1 :> 3 @@ c2 :> 1
Hosts  == c1 :> 0 @@ c2 :> N
=============================================================================
