----------------------------- MODULE Schedulers -----------------------------
(***************************************************************************)
(* How the block schedulers (stats/scheduler_*.cc) turn the chunks of an   *)
(* input file into logical blocks, the units of work of a job. A chunk is  *)
(* its number in the file, and all the scheduler knows of it is the node of*)
(* its primary copy, hosts[i] (block_hosts); the two neighbours on the ring*)
(* have replicas. All chunks have the same size. Where the choice of a     *)
(* holder depends on the load that other tools measure (score_based, vlmb) *)
(* it is a parameter.                                                      *)
(***************************************************************************)
EXTENDS Integers, Sequences, SequencesExt, Functions

CONSTANT N   \* number of nodes in network.nodes
ASSUME RingAssumption == N \in Nat /\ N >= 3

Node == 0 .. N - 1
LeftOf(n)  == IF n - 1 < 0 THEN N - 1 ELSE n - 1
RightOf(n) == IF n + 1 >= N THEN 0 ELSE n + 1
Holders(n) == {LeftOf(n), n, RightOf(n)}

\* logical_block_metadata: physical_blocks as chunk and node, and the counts
\* that the task managers use. Only scheduler_base sets replica_chunk_num.
LogicalBlock(host) == [host |-> host, physical_blocks |-> <<>>,
                       primary_chunk_num |-> 0, replica_chunk_num |-> <<>>]
\* physical_blocks.push_back; primary is 1 where primary_chunk_num grows, else 0.
Add(lblock, i, primary) ==
    [host |-> lblock.host,
     physical_blocks |-> Append(lblock.physical_blocks, [chunk |-> i, node |-> lblock.host]),
     primary_chunk_num |-> lblock.primary_chunk_num + primary,
     replica_chunk_num |-> lblock.replica_chunk_num]

\* The chunks of node n, in their order.
OfNode(hosts, n, primary) ==
    LET lblock[i \in 0 .. Len(hosts)] ==
            IF i = 0 THEN LogicalBlock(n)
            ELSE IF hosts[i] = n THEN Add(lblock[i - 1], i, primary) ELSE lblock[i - 1]
    IN  lblock[Len(hosts)]

\* The vectors of all nodes, one after the other.
Flattened(dist) == FlattenSeq([k \in 1 .. N |-> dist[k - 1]])
-----------------------------------------------------------------------------
(* scheduler_base: each node reads its own chunks and may then help its    *)
(* neighbours from the end of their lists.                                 *)
Own(hosts, n) == OfNode(hosts, n, 1)

\* Seeded fault: the two counts swapped.
ReplicaChunkNumSwapped(hosts, n) ==
    <<Own(hosts, RightOf(n)).primary_chunk_num, Own(hosts, LeftOf(n)).primary_chunk_num>>
\* replica_chunk_num[idx], assigned for the node itself, its left and its right
\* neighbour in this order.
ReplicaChunkNum(hosts, n) ==
    LET Assign(num, id) ==
            [num EXCEPT ![IF n = (id + 1) % N THEN 1 ELSE 2] = Own(hosts, id).primary_chunk_num]
    IN  Assign(Assign(Assign(<<0, 0>>, n), LeftOf(n)), RightOf(n))

SchedulerBase(hosts) ==
    LET Others(n) == Reverse(Own(hosts, LeftOf(n)).physical_blocks)
                     \o Reverse(Own(hosts, RightOf(n)).physical_blocks)
    IN  [k \in 1 .. N |->
            [Own(hosts, k - 1) EXCEPT !.physical_blocks = @ \o Others(k - 1),
                                      !.replica_chunk_num = ReplicaChunkNum(hosts, k - 1)]]
-----------------------------------------------------------------------------
(* scheduler_simple and scheduler_score_based: one logical block for each  *)
(* host in use, in the order of their names or of their first chunk.       *)
Grouped(order, hosts) == [k \in DOMAIN order |-> OfNode(hosts, order[k], 0)]

InUse(hosts) ==
    LET used[k \in 0 .. N] ==
            IF k = 0 THEN <<>>
            ELSE IF \E i \in DOMAIN hosts : hosts[i] = k - 1 THEN Append(used[k - 1], k - 1)
            ELSE used[k - 1]
    IN  used[N]
SchedulerSimple(hosts) == Grouped(InUse(hosts), hosts)

FirstUse(hosts) ==
    LET seen[i \in 0 .. Len(hosts)] ==
            IF i = 0 THEN <<>>
            ELSE IF \E j \in 1 .. i - 1 : hosts[j] = hosts[i] THEN seen[i - 1]
            ELSE Append(seen[i - 1], hosts[i])
    IN  seen[Len(hosts)]
SchedulerScoreBased(choice) == Grouped(FirstUse(choice), choice)
-----------------------------------------------------------------------------
(* scheduler_lean and scheduler_steal: slots logical blocks for each node, *)
(* filled in turn; node_chunks_counter says how many chunks a node got.    *)
Slots(n, slots) == [s \in 1 .. slots |-> LogicalBlock(n)]
Unfilled(slots) == [counter |-> [n \in Node |-> 0],
                    dist |-> [n \in Node |-> Slots(n, slots)]]

Place(st, n, slots, i, primary) ==
    [counter |-> [st.counter EXCEPT ![n] = @ + 1],
     dist |-> [st.dist EXCEPT ![n][(st.counter[n] % slots) + 1] = Add(@, i, primary)]]

\* The first of ids with the fewest chunks.
LeastLoaded(counter, ids) ==
    ids[CHOOSE k \in DOMAIN ids : \A j \in DOMAIN ids :
            counter[ids[k]] < counter[ids[j]] \/ (counter[ids[k]] = counter[ids[j]] /\ k <= j)]

PlaceOnOne(st, ids, slots, i) == Place(st, LeastLoaded(st.counter, ids), slots, i, 1)
PlaceOnAll(st, ids, slots, i) ==
    Place(Place(Place(st, ids[1], slots, i, 0), ids[2], slots, i, 0), ids[3], slots, i, 0)

\* The first cut chunks go to one holder each, the others to all three. ids[i]
\* are the holders of chunk i.
Distributed(ids, slots, cut) ==
    LET st[i \in 0 .. Len(ids)] ==
            IF i = 0 THEN Unfilled(slots)
            ELSE IF i <= cut THEN PlaceOnOne(st[i - 1], ids[i], slots, i)
            ELSE PlaceOnAll(st[i - 1], ids[i], slots, i)
    IN  st[Len(ids)].dist

SchedulerLean(hosts, slots, cut) ==
    LET Ids(h) == <<LeftOf(h), h, RightOf(h)>>
    IN  Flattened(Distributed([i \in DOMAIN hosts |-> Ids(hosts[i])], slots, cut))

\* Never more slots than a node gets chunks on average. With fewer chunks than
\* nodes that is none, and the code divides by zero.
StealSlots(hosts, cores) == IF cores > Len(hosts) \div N THEN Len(hosts) \div N ELSE cores
SchedulerStealDefined(hosts) == Len(hosts) >= N
SchedulerSteal(hosts, cores) ==
    LET slots == StealSlots(hosts, cores)
        Ids(h) == <<h, LeftOf(h), RightOf(h)>>
        Extended(dist) ==
            [n \in Node |-> [s \in 1 .. slots |->
                [dist[n][s] EXCEPT !.physical_blocks =
                    @ \o dist[LeftOf(n)][s].physical_blocks \o dist[RightOf(n)][s].physical_blocks]]]
    IN  Flattened(Extended(Distributed([i \in DOMAIN hosts |-> Ids(hosts[i])], slots, Len(hosts))))
-----------------------------------------------------------------------------
(* scheduler_vlmb: up to cpus[n] logical blocks on a node, a new one when  *)
(* the last has full chunks; beyond that the smallest one grows.           *)
Smallest(lblocks) ==
    CHOOSE k \in DOMAIN lblocks : \A j \in DOMAIN lblocks :
        LET size(m) == Len(lblocks[m].physical_blocks)
        IN  size(k) < size(j) \/ (size(k) = size(j) /\ k <= j)

Grow(lblocks, n, i, cpus, full) ==
    IF Len(lblocks) < cpus
    THEN IF lblocks = <<>> \/ Len(Last(lblocks).physical_blocks) >= full
         THEN Append(lblocks, Add(LogicalBlock(n), i, 0))
         ELSE [lblocks EXCEPT ![Len(lblocks)] = Add(@, i, 0)]
    ELSE [lblocks EXCEPT ![Smallest(lblocks)] = Add(@, i, 0)]

\* A node without free cpus gets no block, and the code takes the smallest of none:
\* it is chosen when no holder of a chunk has a free cpu.
SchedulerVlmbDefined(choice, cpus) == \A i \in DOMAIN choice : cpus[choice[i]] >= 1
SchedulerVlmb(choice, cpus, full) ==
    LET dist[i \in 0 .. Len(choice)] ==
            IF i = 0 THEN [n \in Node |-> <<>>]
            ELSE [dist[i - 1] EXCEPT ![choice[i]] =
                     Grow(@, choice[i], i, cpus[choice[i]], full)]
    IN  Flattened(dist[Len(choice)])
-----------------------------------------------------------------------------
(* What a job relies on.                                                   *)
PrimaryPart(lblock) == SubSeq(lblock.physical_blocks, 1, lblock.primary_chunk_num)

\* In how many places the given lists offer chunk i, and on which nodes.
Places(lists, i) ==
    {at \in UNION {{k} \X DOMAIN lists[k] : k \in DOMAIN lists} : lists[at[1]][at[2]].chunk = i}

\* Chunk i is in one list only, and the node of that list has a copy of it.
OnOneHolder(lblocks, Part(_), hosts, i) ==
    LET lists == [k \in DOMAIN lblocks |-> Part(lblocks[k])]
    IN  \E k \in DOMAIN lblocks :
            /\ \E p \in DOMAIN lists[k] : Places(lists, i) = {<<k, p>>}
            /\ lblocks[k].host \in Holders(hosts[i])
=============================================================================
