----------------------------- MODULE ChunkSteal -----------------------------
(***************************************************************************)
(* The "steal" job policy of the task manager (taskmanager/task_manager.cc)*)
(* over the logical blocks that stats/scheduler_base.cc builds: one worker *)
(* thread per node first reads the chunks whose primary copy is on its own *)
(* disk, front to back and without any lock, and then helps its left and   *)
(* its right neighbour, whose chunks it has as replicas, back to front,    *)
(* under ephemeral znodes of ZooKeeper.                                    *)
(*                                                                         *)
(* Two kinds of znode live below /chunks/<job>/: one per chunk, the lock,  *)
(* holding "1" (the owner's mark: stop here) or "0" (one chunk is taken);  *)
(* and one per node, called eof here, that the first thief creates with    *)
(* "None" and the owner turns into "Done" once its mark is in place.       *)
(***************************************************************************)
EXTENDS Integers, FiniteSets

CONSTANTS N,         \* number of nodes in network.nodes
          Num,       \* Num[n]: how many primary chunks node n has in the job
          MaxCrashes, MaxExpiries, \* bounds on the faults of FaultySpec
          NoNode,    \* the creator of a znode that does not exist
          NoChunk    \* a znode name that is no chunk of this job

Node  == 0 .. N - 1
Chunk == UNION {{n} \X (1 .. Num[n]) : n \in Node}

ASSUME RingAssumption == N \in Nat /\ N >= 3
ASSUME NumAssumption  == Num \in [Node -> Nat]
ASSUME NoNodeAssumption == NoNode \notin Node
ASSUME NoChunkAssumption == NoChunk \notin Chunk
ASSUME FaultAssumption == MaxCrashes \in Nat /\ MaxExpiries \in Nat

VARIABLES
    lock,     \* the znode of each chunk: its content and its creator
    eof,      \* the znode of each node: its content and its creator
    session,  \* is the worker's ZooKeeper session alive?
    pc,       \* where the worker of a node is
    phase,    \* 1: own chunks, 2: left neighbour's, 3: right neighbour's
    k,        \* index of the chunk at hand in the target's primary list
    stealing, \* the flag Stealing of task_worker
    end,      \* END_OF_FILE is pending while the owner sets "Done"
    claimed   \* the workers that produced each chunk into their queue

vars == <<lock, eof, session, pc, phase, k, stealing, end, claimed>>
zk   == <<lock, eof, session>>
-----------------------------------------------------------------------------
NoZnode == [val |-> "absent", by |-> NoNode]
Znode(val, i) == [val |-> val, by |-> i]

\* get_replicas_id: the two neighbours on the ring.
LeftOf(i)  == IF i - 1 < 0 THEN N - 1 ELSE i - 1
RightOf(i) == IF i + 1 >= N THEN 0 ELSE i + 1

\* Whose chunks worker i reads in phase p: physical_blocks holds the node's own
\* chunks, then the left neighbour's and the right neighbour's, reversed.
Target(i, p) == IF p = 1 THEN i ELSE IF p = 2 THEN LeftOf(i) ELSE RightOf(i)
target(i) == Target(i, phase[i])

\* The chunk md[md_index], and whether the inner loop still has one.
Current(i) == <<target(i), k[i]>>
HasChunk(i) == k[i] \in 1 .. Num[target(i)]
Advance(i) == k' = [k EXCEPT ![i] = IF phase[i] = 1 THEN @ + 1 ELSE @ - 1]

\* Seeded fault: the outer loop does not stop after the third file.
ExhaustedForgetsReplicaNum(i, p) == p = 2 /\ Num[RightOf(i)] = 0

\* md.size() == md_index: nothing is left of physical_blocks after phase p.
Exhausted(i, p) ==
    \/ p = 3
    \/ p = 2 /\ Num[RightOf(i)] = 0
    \/ p = 1 /\ Num[LeftOf(i)] = 0 /\ Num[RightOf(i)] = 0

\* md[md_index].node when phase p begins: an empty list is skipped over.
EofTarget(i, p) ==
    IF p = 2 /\ Num[LeftOf(i)] = 0 THEN RightOf(i) ELSE Target(i, p)

Goto(i, where) == pc' = [pc EXCEPT ![i] = where]

\* zoo_create of an ephemeral znode, which fails when it exists already or
\* when the session is gone; zoo_set, which fails when it does not exist.
Absent(z) == z = NoZnode
CreateEof(i, n) ==
    eof' = IF Absent(eof[n]) /\ session[i]
           THEN [eof EXCEPT ![n] = Znode("None", i)] ELSE eof
CreateLock(i, c, val) ==
    lock' = IF Absent(lock[c]) /\ session[i]
            THEN [lock EXCEPT ![c] = Znode(val, i)] ELSE lock
SetDone(i) ==
    eof' = IF ~Absent(eof[i]) /\ session[i]
           THEN [eof EXCEPT ![i].val = "Done"] ELSE eof

\* What ZooKeeper removes when the session of worker i ends.
DropEphemerals(i) ==
    /\ lock' = [c \in Chunk |-> IF lock[c].by = i THEN NoZnode ELSE lock[c]]
    /\ eof'  = [n \in Node  |-> IF eof[n].by = i THEN NoZnode ELSE eof[n]]
    /\ session' = [session EXCEPT ![i] = FALSE]
-----------------------------------------------------------------------------
Init ==
    /\ lock = [c \in Chunk |-> NoZnode]
    /\ eof = [n \in Node |-> NoZnode]
    /\ session = [n \in Node |-> TRUE]
    /\ pc = [n \in Node |-> "loop"]
    /\ phase = [n \in Node |-> 1]
    /\ k = [n \in Node |-> 1]
    /\ stealing = [n \in Node |-> FALSE]
    /\ end = [n \in Node |-> FALSE]
    /\ claimed = [c \in Chunk |-> {}]

\* The inner while loop ends: all chunks of this file are behind the worker.
ListEnd(i) ==
    /\ pc[i] = "loop"
    /\ ~HasChunk(i)
    /\ Goto(i, "fileEnd")
    /\ UNCHANGED <<zk, phase, k, stealing, end, claimed>>

\* get_dist_lock before anybody steals: zoo_exists on the own eof znode. A
\* call on a lost session fails like an absent znode.
LookForThief(i) ==
    /\ pc[i] = "loop"
    /\ HasChunk(i)
    /\ ~stealing[i]
    /\ Goto(i, IF Absent(eof[i]) \/ ~session[i] THEN "produce" ELSE "mark")
    /\ UNCHANGED <<zk, phase, k, stealing, end, claimed>>

\* Seeded faults: the mark lands one chunk too far; the mark is never put.
MarkCurrentOffByOne(i) ==
    /\ pc[i] = "mark"
    /\ IF k[i] < Num[i] THEN CreateLock(i, <<i, k[i] + 1>>, "1") ELSE UNCHANGED lock
    /\ Goto(i, "setDone")
    /\ UNCHANGED <<eof, session, phase, k, stealing, end, claimed>>
MarkCurrentWithoutMark(i) ==
    /\ pc[i] = "mark"
    /\ Goto(i, "setDone")
    /\ UNCHANGED <<zk, phase, k, stealing, end, claimed>>

\* get_dist_lock: a thief is there, so get_Dlock(znode, true) puts the owner's
\* mark "1" on the chunk at hand; on a conflict zoo_get decides. (One step for
\* the create and the get: nobody but the owner locks a chunk before "Done".)
MarkCurrent(i) ==
    /\ pc[i] = "mark"
    /\ CreateLock(i, Current(i), "1")
    /\ end' = [end EXCEPT ![i] = session[i] /\ ~Absent(lock[Current(i)])]
    /\ Goto(i, "setDone")
    /\ UNCHANGED <<eof, session, phase, k, stealing, claimed>>

\* get_dist_lock: "Done" lets the thieves in; from now on the owner locks too.
\* END_OF_FILE (the mark could not be put) skips the rest of the own chunks.
LetThievesIn(i) ==
    /\ pc[i] = "setDone"
    /\ SetDone(i)
    /\ stealing' = [stealing EXCEPT ![i] = TRUE]
    /\ end' = [end EXCEPT ![i] = FALSE]
    /\ Goto(i, IF end[i] THEN "fileEnd" ELSE "produce")
    /\ UNCHANGED <<lock, session, phase, k, claimed>>

\* Seeded fault: the thief does not wait for "Done".
AwaitNothing(i) ==
    /\ pc[i] = "loop"
    /\ HasChunk(i)
    /\ stealing[i]
    /\ Goto(i, "lock")
    /\ UNCHANGED <<zk, phase, k, stealing, end, claimed>>

\* get_dist_lock under stealing: the busy wait for the target's "Done".
AwaitDone(i) ==
    /\ pc[i] = "loop"
    /\ HasChunk(i)
    /\ stealing[i]
    /\ session[i]
    /\ eof[target(i)].val = "Done"
    /\ Goto(i, "lock")
    /\ UNCHANGED <<zk, phase, k, stealing, end, claimed>>

\* Seeded fault: the result of zoo_create is ignored.
TakeLockUnchecked(i) ==
    /\ pc[i] = "lock"
    /\ CreateLock(i, Current(i), "0")
    /\ Goto(i, "produce")
    /\ UNCHANGED <<eof, session, phase, k, stealing, end, claimed>>

\* get_Dlock(znode, false): zoo_create takes the chunk, or fails.
TakeLock(i) ==
    /\ pc[i] = "lock"
    /\ CreateLock(i, Current(i), "0")
    /\ Goto(i, IF Absent(lock[Current(i)]) /\ session[i] THEN "produce" ELSE "conflict")
    /\ UNCHANGED <<eof, session, phase, k, stealing, end, claimed>>

\* get_Dlock after a failed zoo_create: "1" is the end of this file, "0" means
\* try the next chunk; when zoo_get fails too the lock counts as obtained.
ReadLock(i) ==
    /\ pc[i] = "conflict"
    /\ \/ /\ ~session[i] \/ Absent(lock[Current(i)])
          /\ Goto(i, "produce")
          /\ UNCHANGED k
       \/ /\ session[i] /\ lock[Current(i)].val = "1"
          /\ Goto(i, "fileEnd")
          /\ UNCHANGED k
       \/ /\ session[i] /\ lock[Current(i)].val = "0"
          /\ Advance(i)
          /\ Goto(i, "loop")
    /\ UNCHANGED <<zk, phase, stealing, end, claimed>>

\* produce(): the chunk is read from the local disk into the task's queue.
Produce(i) ==
    /\ pc[i] = "produce"
    /\ claimed' = [claimed EXCEPT ![Current(i)] = @ \cup {i}]
    /\ Advance(i)
    /\ Goto(i, "loop")
    /\ UNCHANGED <<zk, phase, stealing, end>>

\* After the inner loop: stop if physical_blocks is exhausted, else publish
\* the own end of file (first time only) and go on to the next neighbour.
FileEnd(i) ==
    /\ pc[i] = "fileEnd"
    /\ Goto(i, IF Exhausted(i, phase[i]) THEN "done"
               ELSE IF phase[i] = 1 THEN "publishEof" ELSE "enter")
    /\ UNCHANGED <<zk, phase, k, stealing, end, claimed>>

PublishEof(i) ==
    /\ pc[i] = "publishEof"
    /\ CreateEof(i, i)
    /\ Goto(i, "publishMark")
    /\ UNCHANGED <<lock, session, phase, k, stealing, end, claimed>>

\* The mark goes to md[md_index-1], the last own chunk. A node without own
\* chunks reads md[-1]: the znode's name is then whatever number lies there.
PublishMark(i) ==
    /\ pc[i] = "publishMark"
    /\ \E c \in IF Num[i] > 0 THEN {<<i, Num[i]>>} ELSE Chunk \cup {NoChunk} :
          IF c = NoChunk THEN UNCHANGED lock ELSE CreateLock(i, c, "1")
    /\ Goto(i, "publishDone")
    /\ UNCHANGED <<eof, session, phase, k, stealing, end, claimed>>

\* Seeded fault: the eof znode stays at "None".
PublishNothing(i) ==
    /\ pc[i] = "publishDone"
    /\ Goto(i, "enter")
    /\ UNCHANGED <<zk, phase, k, stealing, end, claimed>>

PublishDone(i) ==
    /\ pc[i] = "publishDone"
    /\ SetDone(i)
    /\ Goto(i, "enter")
    /\ UNCHANGED <<lock, session, phase, k, stealing, end, claimed>>

\* Seeded fault: one short of the end.
EnterNeighbourOneShort(i) ==
    /\ pc[i] = "enter"
    /\ phase' = [phase EXCEPT ![i] = @ + 1]
    /\ CreateEof(i, EofTarget(i, phase[i] + 1))
    /\ k' = [k EXCEPT ![i] = Num[Target(i, phase[i] + 1)] - 1]
    /\ stealing' = [stealing EXCEPT ![i] = TRUE]
    /\ Goto(i, "loop")
    /\ UNCHANGED <<lock, session, end, claimed>>

\* The next neighbour: announce the thief on its eof znode, start at its end.
EnterNeighbour(i) ==
    /\ pc[i] = "enter"
    /\ phase' = [phase EXCEPT ![i] = @ + 1]
    /\ CreateEof(i, EofTarget(i, phase[i] + 1))
    /\ k' = [k EXCEPT ![i] = Num[Target(i, phase[i] + 1)]]
    /\ stealing' = [stealing EXCEPT ![i] = TRUE]
    /\ Goto(i, "loop")
    /\ UNCHANGED <<lock, session, end, claimed>>

\* sleep(1000) is there to keep the znodes until the whole job is over.
AllDone == \A i \in Node : pc[i] \in {"done", "closed", "crashed"}
CloseSession(i) ==
    /\ pc[i] = "done"
    /\ AllDone
    /\ DropEphemerals(i)
    /\ Goto(i, "closed")
    /\ UNCHANGED <<phase, k, stealing, end, claimed>>

Step(i) ==
    \/ ListEnd(i) \/ LookForThief(i) \/ MarkCurrent(i) \/ LetThievesIn(i)
    \/ AwaitDone(i) \/ TakeLock(i) \/ ReadLock(i) \/ Produce(i)
    \/ FileEnd(i) \/ PublishEof(i) \/ PublishMark(i) \/ PublishDone(i)
    \/ EnterNeighbour(i) \/ CloseSession(i)

Finished == /\ \A i \in Node : pc[i] \in {"closed", "crashed"}
            /\ UNCHANGED vars

Next == (\E i \in Node : Step(i)) \/ Finished

Spec == Init /\ [][Next]_vars
\* Every worker is an OS thread that runs until it returns.
FairSpec == Spec /\ \A i \in Node : WF_vars(Step(i))
-----------------------------------------------------------------------------
(* Faults: a worker's process dies, or its session expires (the time-out   *)
(* given to zookeeper_init) while the thread goes on with failing calls.   *)
Busy(i) == pc[i] \notin {"done", "closed", "crashed"}

Crash(i) ==
    /\ Cardinality({j \in Node : pc[j] = "crashed"}) < MaxCrashes
    /\ Busy(i)
    /\ DropEphemerals(i)
    /\ Goto(i, "crashed")
    /\ UNCHANGED <<phase, k, stealing, end, claimed>>

Expire(i) ==
    /\ Cardinality({j \in Node : ~session[j] /\ pc[j] # "crashed"}) < MaxExpiries
    /\ session[i] /\ Busy(i)
    /\ DropEphemerals(i)
    /\ UNCHANGED <<pc, phase, k, stealing, end, claimed>>

FaultyNext == Next \/ \E i \in Node : Crash(i) \/ Expire(i)
FaultySpec == Init /\ [][FaultyNext]_vars
-----------------------------------------------------------------------------
(* What must hold.                                                         *)
Status == {"loop", "mark", "setDone", "lock", "conflict", "produce", "fileEnd",
           "publishEof", "publishMark", "publishDone", "enter", "done",
           "closed", "crashed"}

\* The type invariant: every variable of task_worker and every znode has the
\* values the code can give it.
TypeOK ==
    /\ lock \in [Chunk -> {NoZnode} \cup [val : {"0", "1"}, by : Node]]
    /\ eof \in [Node -> {NoZnode} \cup [val : {"None", "Done"}, by : Node]]
    /\ session \in [Node -> BOOLEAN]
    /\ pc \in [Node -> Status]
    /\ phase \in [Node -> 1 .. 3]
    /\ k \in [Node -> Nat]
    /\ stealing \in [Node -> BOOLEAN]
    /\ end \in [Node -> BOOLEAN]
    /\ claimed \in [Chunk -> SUBSET Node]

\* No chunk of a job is handed to the application by two workers: the owner's
\* lock-free reading and the thieves' locks never overlap (task_worker).
AtMostOnce == \A c \in Chunk : \A i, j \in claimed[c] : i = j

\* Has worker i moved past chunk c of a list it reads?
Behind(i, c) ==
    \E p \in 1 .. phase[i] :
        /\ c[1] = Target(i, p)
        /\ p = phase[i] => IF p = 1 THEN c[2] < k[i] ELSE c[2] > k[i]

\* Where a worker may be while the protocol runs, and with which flags.
Control(i) ==
    /\ phase[i] > 1 => stealing[i]
    /\ phase[i] = 3 => pc[i] # "enter"
    /\ pc[i] \in {"mark", "setDone"} => phase[i] = 1 /\ ~stealing[i]
    /\ pc[i] \in {"publishEof", "publishMark", "publishDone"} => phase[i] = 1
    /\ pc[i] \in {"mark", "setDone", "lock", "conflict", "produce"} => HasChunk(i)
    /\ pc[i] \in {"lock", "conflict"} => stealing[i] /\ eof[target(i)].val = "Done"
    /\ pc[i] = "conflict" => lock[Current(i)] # NoZnode
    /\ pc[i] # "crashed"
    /\ session[i] <=> pc[i] # "closed"

\* Thieves may be reading node n's list; node n has put its mark.
Open(n)   == stealing[n] \/ pc[n] = "enter"
Marked(n) == Open(n) \/ pc[n] \in {"setDone", "publishDone"}

\* m is the mark of node n: all locks "0" lie behind it, and the owner reads
\* what lies behind it only under a lock of its own.
IsMark(n, m) ==
    /\ lock[<<n, m>>].val = "1"
    /\ \A j \in 1 .. Num[n] :
          /\ lock[<<n, j>>].val = "0" => j > m
          /\ j > m /\ n \in claimed[<<n, j>>] => lock[<<n, j>>] = Znode("0", n)
    /\ phase[n] = 1 =>
          /\ pc[n] = "setDone" => k[n] = m
          /\ pc[n] \in {"loop", "lock", "conflict"} => k[n] > m
          /\ pc[n] = "produce" => k[n] = m \/ lock[<<n, k[n]>>] = Znode("0", n)

Owner(n) ==
    /\ ~Open(n) => /\ eof[n].val # "Done"
                   /\ \A j \in 1 .. Num[n] : lock[<<n, j>>].val # "0"
    /\ Marked(n) /\ Num[n] > 0 => \E m \in 1 .. Num[n] : IsMark(n, m)

\* A thief leaves no gap behind itself, and keeps the lock of what it took.
Thief(i) ==
    phase[i] > 1 =>
        /\ pc[i] \in {"loop", "lock", "conflict", "produce"} =>
              \A j \in 1 .. Num[target(i)] :
                  j > k[i] => lock[<<target(i), j>>].val = "0"
        /\ pc[i] = "produce" => lock[Current(i)] = Znode("0", i)
Stolen(c) == \A i \in claimed[c] : i # c[1] => lock[c] = Znode("0", i)

ProtocolInv == /\ \A i \in Node : Control(i) /\ Owner(i) /\ Thief(i)
               /\ \A c \in Chunk : Stolen(c)

\* The inductive invariant. Once all workers have returned their sessions, and
\* the locks with them, go away; nothing is claimed any more.
IInv ==
    /\ TypeOK
    /\ \A c \in Chunk : \A i \in claimed[c] : Behind(i, c)
    /\ AtMostOnce
    /\ AllDone \/ ProtocolInv

\* The owner reads its file through one stream and never seeks (only thieves
\* do): what it hands out must be the file's first chunks, without a gap.
OwnerReadsOn ==
    \A n \in Node : \A j \in 1 .. Num[n] : n \in claimed[<<n, j>>] =>
        \A h \in 1 .. j - 1 : n \in claimed[<<n, h>>]

\* When all workers have returned, every chunk was handed out: neither a mark
\* nor a conflict made two workers both leave a chunk to the other.
AllClaimed == AllDone => \A c \in Chunk : claimed[c] # {}

\* The protocol implements ChunkClaims: each step takes one free chunk for one
\* of the nodes with a copy of it, or changes nothing a reader can see.
HolderOf(c) == {c[1], LeftOf(c[1]), RightOf(c[1])}
TakerAmong(S) == IF S = {} THEN NoNode ELSE CHOOSE i \in Node : i \in S
TakerOf(c) == TakerAmong(claimed[c])
Claims == INSTANCE ChunkClaims WITH
    Worker <- Node, Holder <- HolderOf, NoOne <- NoNode,
    taker  <- [c \in Chunk |-> TakerOf(c)]
ClaimsSpec == Claims!Spec

\* Every worker returns: no busy wait for a neighbour's "Done" lasts forever.
Termination == <>AllDone

\* Thieves that read "Done" on the eof of a live owner meet a mark of that
\* owner's list, whatever crashed meanwhile and whoever created the eof znode.
MarkBeforeDone ==
    \A n \in Node : session[n] /\ eof[n].val = "Done" =>
        \E j \in 1 .. Num[n] : lock[<<n, j>>].val = "1"

\* Even under faults, what a live owner reads without a lock (up to its mark)
\* is never also read by another live worker.
LockFreeRegionExclusive ==
    \A c \in Chunk : \A s \in claimed[c] \ {c[1]} :
        c[1] \in claimed[c] /\ session[s] /\ session[c[1]] =>
            \E j \in 1 .. c[2] - 1 : lock[<<c[1], j>>].val = "1"

=============================================================================
