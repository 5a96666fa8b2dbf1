----------------------------- MODULE Replication -----------------------------
(***************************************************************************)
(* The block nodes under any sequence of block operations: primaries and   *)
(* their replicas. A primary answers the client before its neighbours have *)
(* the change, so a replica may lag, but it must not end up different.     *)
(***************************************************************************)
EXTENDS BlockNode

CONSTANTS Block,     \* the names of the primary files
          Primary,   \* Primary[b]: the node clients send the requests for b to
          Cell,      \* the contents of a chunk
          MaxOps     \* bound on the number of block operations
ASSUME RingAssumption    == N >= 2  \* a single node would be its own replica
ASSUME PrimaryAssumption == Primary \in [Block -> Node]
ASSUME MaxOpsAssumption  == MaxOps \in Nat

VARIABLES ops,        \* block operations so far
          disordered  \* <<b, v>> when v has handled the changes of b in another
                      \* order and no request that renews b came after them

vars == <<disk, link, ops, disordered>>

Init == BlockInit /\ ops = 0 /\ disordered = {}

\* io_operation of the router: the three operations a client may ask for. The
\* clients write a primary file chunk by chunk, so at most two cells here.
Requests(b) ==
    {Message("INSERT", b, 0, <<x>>) : x \in Cell}
    \cup {Message("UPDATE", b, pos, <<x>>) : pos \in 0 .. 1, x \in Cell}
    \cup {Message("DELETE", b, 0, <<>>)}
Renews(m) == m.op # "UPDATE"
Request(b, m) ==
    /\ HandleBlock(Primary[b], m)
    /\ disordered' = IF Renews(m) THEN disordered \ ({b} \X Node) ELSE disordered

Serve == /\ ops < MaxOps /\ ops' = ops + 1
         /\ \E b \in Block : \E m \in Requests(b) : Request(b, m)

Disorders(msgs, i) ==
    /\ \E j \in 1 .. i - 1 : msgs[j].name = msgs[i].name
    /\ \A k \in i + 1 .. Len(msgs) : msgs[k].name = msgs[i].name => ~Renews(msgs[k])

DeliverOne(m, n, i) ==
    /\ ReceiveReplica(m, n, i)
    /\ disordered' = IF Disorders(link[<<m, n>>], i)
                     THEN disordered \cup {<<link[<<m, n>>][i].name, n>>} ELSE disordered
    /\ UNCHANGED ops
Deliver == \E m, n \in Node : \E i \in DOMAIN link[<<m, n>>] : DeliverOne(m, n, i)
Idle    == ops = MaxOps /\ (\A e \in DOMAIN link : link[e] = <<>>) /\ UNCHANGED vars

Next == Serve \/ Deliver \/ Idle
Spec == Init /\ [][Next]_vars
\* The io thread keeps reading from its connections.
FairSpec == Spec /\ WF_vars(Deliver)
-----------------------------------------------------------------------------
Contents == UNION {[1 .. l -> Cell \cup {Zero}] : l \in 0 .. 2}

\* The type invariant: files of at most two cells, links of operations.
TypeOK ==
    /\ \A n \in Node : /\ DOMAIN disk[n] \subseteq Block
                       /\ \A b \in DOMAIN disk[n] : disk[n][b] \in Contents
    /\ \A e \in Node \X Node : \A i \in DOMAIN link[e] :
          /\ link[e][i].op \in {"INSERT", "UPDATE", "DELETE"}
          /\ link[e][i].name \in Block
    /\ ops \in 0 .. MaxOps
    /\ disordered \subseteq Block \X Node

FileIn(files, b) == IF b \in DOMAIN files THEN <<files[b]>> ELSE <<>>
FileOf(n, b) == FileIn(disk[n], b)

\* The files of a node that had files and handles msgs, one after the other.
Replayed(files, msgs) ==
    LET after[i \in 0 .. Len(msgs)] == IF i = 0 THEN files ELSE Applied(after[i - 1], msgs[i])
    IN  after[Len(msgs)]

\* What a link still carries is exactly what a neighbour is behind: after the
\* messages under way its copy of every file equals the primary's.
Catches(b, v) ==
    FileIn(Replayed(disk[v], link[<<Primary[b], v>>]), b) = FileOf(Primary[b], b)
ReplicaCatchesUp == \A b \in Block : \A v \in {LeftOf(Primary[b]), RightOf(Primary[b])} :
                        <<b, v>> \in disordered \/ Catches(b, v)

\* The replicas of every primary file end up equal to it, once requests stop.
ReplicasConverge ==
    <>[](ops = MaxOps => \A b \in Block : \A v \in {LeftOf(Primary[b]), RightOf(Primary[b])} :
            <<b, v>> \in disordered \/ FileOf(v, b) = FileOf(Primary[b], b))
=============================================================================
