-------------------------------- MODULE Jobs --------------------------------
(***************************************************************************)
(* Starting a job on an input file: an application asks the file leader for*)
(* logical blocks (DFS::get_metadata_optimized, FileLeader::file_request), *)
(* which keeps the arrangement for later requests, and sends one TASK_INIT *)
(* for each to the task manager of its host. A task manager puts the block *)
(* into its table and starts a worker that reads it there; the job policy  *)
(* is "static" or "static_by_idv", where a worker produces the primary part*)
(* of its block (the policy "steal" is ChunkSteal). One file, written once *)
(* before and possibly extended once in between.                           *)
(***************************************************************************)
EXTENDS Schedulers, FiniteSets, TLC

CONSTANTS Job,
          Layouts,       \* the files to begin with
          MaxChunks,     \* bound on the length of the file
          MaxCores,      \* bound on addons.cores
          Full,          \* chunks in MIN_BLOCK_SIZE (scheduler_vlmb)
          NoArrangement

ASSUME ChunksAssumption == MaxChunks \in Nat \ {0}
ASSUME LayoutsAssumption ==
    \A h \in Layouts : \E len \in 1 .. MaxChunks : h \in [1 .. len -> Node]
ASSUME CoresAssumption  == MaxCores \in Nat \ {0}
ASSUME FullAssumption   == Full \in Nat \ {0}

VARIABLES
    policy, cores,   \* addons.block_scheduler, addons.cores
    hosts,           \* the file: the node of each chunk's primary copy
    edited,          \* has the file grown (once at most)?
    kept,            \* current_file_arrangements
    job,             \* where each application is
    inits,           \* TASK_INIT messages under way
    tasks,           \* tasks[n]: the task manager's table, by primary file
    produced         \* produced[j][i]: how often job j got chunk i

vars == <<policy, cores, hosts, edited, kept, job, inits, tasks, produced>>
-----------------------------------------------------------------------------
\* addons.lean_input_split is one half.
Cut == Len(hosts) \div 2

HolderChoices == {c \in [DOMAIN hosts -> Node] : \A i \in DOMAIN hosts : c[i] \in Holders(hosts[i])}

\* How many cpus are free on each node, as the nodes report (bound: MaxCores).
FreeCpus == [Node -> 0 .. MaxCores]
VlmbInputs == {in \in HolderChoices \X FreeCpus : SchedulerVlmbDefined(in[1], in[2])}

\* find_best_arrangement: what the configured scheduler may come up with.
Arrangements ==
    CASE policy = "base"   -> {SchedulerBase(hosts)}
      [] policy = "simple" -> {SchedulerSimple(hosts)}
      [] policy = "score"  -> {SchedulerScoreBased(c) : c \in HolderChoices}
      [] policy = "lean"   -> {SchedulerLean(hosts, cores, Cut)}
      [] policy = "steal"  -> IF SchedulerStealDefined(hosts) THEN {SchedulerSteal(hosts, cores)} ELSE {}
      [] policy = "vlmb"   -> {SchedulerVlmb(in[1], in[2], Full) : in \in VlmbInputs}

\* The primary file of a chunk: one for each node and file.
PrimaryFile(i) == hosts[i]

Init ==
    /\ policy \in {"base", "simple", "score", "lean", "steal", "vlmb"}
    /\ cores \in 1 .. MaxCores
    /\ hosts \in Layouts
    /\ edited = FALSE
    /\ kept = NoArrangement
    /\ job = [j \in Job |-> "idle"]
    /\ inits = {}
    /\ tasks = [n \in Node |-> <<>>]
    /\ produced = [j \in Job |-> [i \in 1 .. MaxChunks |-> 0]]

Config == <<policy, cores>>
Nodes  == <<inits, tasks, produced>>

\* Seeded fault: the task is named by the node the block goes to.
TaskNameByHost(lblock) == lblock.host
\* The name of a task is the primary file of its first chunk, and a block
\* without chunks has none: what the loop over the blocks does then is
\* undefined, so it gets no further here. The schedulers that leave
\* primary_chunk_num at 0 start workers that have nothing to do.
TaskName(lblock) == PrimaryFile(lblock.physical_blocks[1].chunk)
HasName(lblock)  == lblock.physical_blocks # <<>>
Inits(j, lblocks) ==
    IF policy \notin {"base", "lean", "steal"} THEN {}
    ELSE {[job |-> j, lblock |-> lblocks[k]] :
             k \in {k \in DOMAIN lblocks : \A i \in 1 .. k : HasName(lblocks[i])}}

\* One TASK_INIT for each block, on connections of their own.
Start(j, lblocks) ==
    /\ job' = [job EXCEPT ![j] =
                  IF \A k \in DOMAIN lblocks : HasName(lblocks[k]) THEN "sent" ELSE "undefined"]
    /\ inits' = inits \cup Inits(j, lblocks)
    /\ UNCHANGED <<Config, hosts, edited, tasks, produced>>

\* file_request with generate: a new arrangement, which is kept.
Generate(j) ==
    /\ job[j] = "idle"
    /\ kept' \in Arrangements
    /\ Start(j, kept')

\* file_request without: the one that is kept, or no logical blocks at all.
ReadKept(j) ==
    /\ job[j] = "idle"
    /\ Start(j, IF kept = NoArrangement THEN <<>> ELSE kept)
    /\ UNCHANGED kept

\* The table after task_operation: insert leaves an entry that is there.
Entered(table, lblock) ==
    IF TaskName(lblock) \in DOMAIN table THEN table
    ELSE [b \in DOMAIN table \cup {TaskName(lblock)} |->
             IF b = TaskName(lblock) THEN lblock ELSE table[b]]

\* Seeded fault: the loop ends with the list, not with the primary part.
ReadByWholeList(lblock) == lblock.physical_blocks
\* What static_worker produces: md[0 .. input_block_num - 1].
ReadBy(lblock) == PrimaryPart(lblock)

\* TASK_INIT, and the worker it starts. The worker has a reference to the
\* entry of the table, whatever the message said; entries never change, so it
\* does not matter when it reads.
TaskInit(m) ==
    LET n == m.lblock.host
        md == ReadBy(tasks'[n][TaskName(m.lblock)])
    IN  /\ inits' = inits \ {m}
        /\ tasks' = [tasks EXCEPT ![n] = Entered(@, m.lblock)]
        /\ produced' = [produced EXCEPT ![m.job] = [i \in DOMAIN @ |->
              @[i] + Cardinality({p \in DOMAIN md : md[p].chunk = i})]]
        /\ UNCHANGED <<Config, hosts, edited, kept, job>>

\* Seeded fault: the arrangement survives an update.
FileUpdateKeepsArrangement(h) ==
    /\ ~edited /\ Len(hosts) < MaxChunks
    /\ hosts' = Append(hosts, h)
    /\ edited' = TRUE
    /\ UNCHANGED <<Config, kept, job, Nodes>>

\* file_update: the file gets another chunk, the arrangement is dropped.
FileUpdate(h) ==
    /\ ~edited /\ Len(hosts) < MaxChunks
    /\ hosts' = Append(hosts, h)
    /\ edited' = TRUE
    /\ kept' = NoArrangement
    /\ UNCHANGED <<Config, job, Nodes>>

Next ==
    \/ \E j \in Job : Generate(j) \/ ReadKept(j)
    \/ \E m \in inits : TaskInit(m)
    \/ \E h \in Node : FileUpdate(h)

Spec == Init /\ [][Next]_vars
-----------------------------------------------------------------------------
\* The type invariant: a task manager's table has blocks of its own node only,
\* each under the primary file of its first chunk, from which the worker opens
\* its file, and the part to produce is not longer than the block.
JobsTypeOK ==
    /\ cores \in 1 .. MaxCores /\ Len(hosts) \in 1 .. MaxChunks
    /\ \A i \in DOMAIN hosts : hosts[i] \in Node
    /\ \A m \in inits : m.job \in Job /\ job[m.job] \in {"sent", "undefined"}
    /\ \A n \in Node : \A b \in DOMAIN tasks[n] :
          LET lblock == tasks[n][b]
          IN  /\ lblock.host = n
              /\ PrimaryFile(lblock.physical_blocks[1].chunk) = b
              /\ lblock.primary_chunk_num \in 0 .. Len(lblock.physical_blocks)

Whole(lblock) == lblock.physical_blocks

\* The dynamic part of scheduler_lean: one offer on each holder of the chunk.
OnAllHolders(lblocks, i) ==
    LET places == Places([k \in DOMAIN lblocks |-> Whole(lblocks[k])], i)
    IN  /\ {lblocks[p[1]].host : p \in places} = Holders(hosts[i])
        /\ Cardinality(places) = 3

\* An arrangement that the leader hands out covers the file as it is now: each
\* chunk is assigned once, to a node that has a copy of it, or, where the
\* nodes are to race for it, offered once on each such node.
KeptCoversFile ==
    kept # NoArrangement =>
        \A i \in DOMAIN hosts :
            CASE policy \in {"base", "steal"}           -> OnOneHolder(kept, PrimaryPart, hosts, i)
              [] policy \in {"simple", "score", "vlmb"} -> OnOneHolder(kept, Whole, hosts, i)
              [] policy = "lean" -> IF i <= Cut THEN OnOneHolder(kept, PrimaryPart, hosts, i)
                                    ELSE OnAllHolders(kept, i)

\* task_worker adds replica_chunk_num[0] and then [1] to the end of its range:
\* that leads it exactly through the left and the right neighbour's chunks.
Segment(lblock, from, num) == [p \in 1 .. num |-> lblock.physical_blocks[from + p].node]
StealingWalksLists ==
    policy = "base" /\ kept # NoArrangement =>
        \A k \in DOMAIN kept :
            LET own == kept[k].primary_chunk_num
                left == kept[k].replica_chunk_num[1]
                right == kept[k].replica_chunk_num[2]
            IN  /\ own + left + right = Len(kept[k].physical_blocks)
                /\ Range(Segment(kept[k], own, left)) \subseteq {LeftOf(kept[k].host)}
                /\ Range(Segment(kept[k], own + left, right)) \subseteq {RightOf(kept[k].host)}

Finished(j) ==
    /\ job[j] = "sent"
    /\ \A m \in inits : m.job # j
HasTasks(j) == \E i \in DOMAIN hosts : produced[j][i] > 0

\* With one task for each node and file no job gets a chunk twice, in spite of
\* tables that keep the block of the first job; and as long as the file does
\* not grow, jobs with the base scheduler get every chunk.
JobReadsOnce ==
    policy = "base" \/ cores = 1 =>
        \A j \in Job : \A i \in DOMAIN hosts :
            /\ produced[j][i] <= 1
            /\ policy = "base" /\ Finished(j) /\ HasTasks(j) /\ ~edited => produced[j][i] = 1
=============================================================================
