# VeloxDFS in TLA+

Specifications of VeloxDFS, a distributed file system with a task manager for
MapReduce-like jobs. They are translated from the C++ under `src/`, checked
with TLC on small instances, and, where that is possible, proved for every
instance with TLAPS. Paths below are relative to the repository, line numbers
are those of the commit the project stands beside; `PROJECT.json` has, for
every definition, the lines it models.

## 1. The system

Every machine of `network.nodes` runs one process (`targets/node_main.cc`):
file leader, block node and task manager behind one chain of routers, served by
`cache.concurrency` io threads (1 unless configured). Applications use class
`DFS` (`client/dfs.cc`), `vdfs` above it, or the Java binding.

| component | state | operations | correct when |
|---|---|---|---|
| task manager, stealing (`taskmanager/task_manager.cc`) | znodes of one job in ZooKeeper; per worker thread: position, `Stealing` flag | `task_worker`, `get_dist_lock`, `get_Dlock`, `produce` | every chunk of a job is handed to an application exactly once, and every worker returns |
| task manager, chunk queue (`common/shared_memory.cc`) | ring of chunk slots in shared memory, counters, process-shared mutex and condition | `produce`, end broadcast, `DFS::read_chunk` | the application sees each chunk once and then the end; nobody sleeps forever |
| block node (`blocknode/`) | files below `path.scratch`; connections to both ring neighbours | insert, update, delete, read, format; the three replica messages | a replica lags by the messages under way and ends up equal, unless it handled a change too late |
| links (`network/`) | connections opened on first use, each with a queue and the flag `is_writing` | `send`, `send_and_replicate`, `do_write`, `on_write`, `connect` | a connection has one writer and keeps the order, and no message is stuck or arrives twice |
| file leader (`fileleader/`) | SQLite tables file, block and chunk; kept arrangements in memory | insert, confirm, update, delete, request, exists, list, format, metadata replication | a description names all chunks of a file in order, and nothing of a file that is gone |
| client (`client/dfs.cc`) | local variables of a call; a cache of file descriptions | upload, `upload_by_individual_block`, `write_file`, touch, download, remove, rename, format, append, write, `write_chunk`, `read`, `read_chunk`, `exists`, `get_metadata_optimized` | what was uploaded is what is downloaded, until it is removed |
| placement (`common/histogram.cc`) | boundaries of the hash ring | `get_index`, `random_within_boundaries` | a key drawn for a node maps to that node |
| task table (`taskmanager/task_manager_router.cc`) | task descriptions by primary file | TASK_INIT | a job gets the chunks of the block it was given |
| schedulers (`stats/`) | scores, counters | `generate` of seven policies | every chunk is assigned to exactly one node that has a copy |
| `vdfs` (`client/vdfs.cc`) | open handles with positions | open, close, read, write, seek, remove | a handle names one open file |
| serialization, settings, logging, wiring, CLI, Java, Python scheduler | - | - | not modelled, see section 8 |

How they interact: a client sends a request to the *home* of a file
(`h(name) % NUM_NODES`) for metadata and to the node that holds a block's key
for data, and waits for the answer; an upload sends each chunk over a
connection of its own and collects the answers at the end. A block node that
changes a primary file sends the change to its two ring neighbours and answers
without waiting. A file leader sends its whole database to the same neighbours
after a removal, as a block. A job asks the leader for an arrangement of a
file's chunks, gives every task manager its part, and reads chunks from a
shared-memory queue that the task manager's worker thread fills. Workers that
finish early steal from their neighbours, coordinated only through ZooKeeper.

What is hard: workers of several machines racing through ephemeral znodes;
clients that interleave their requests or die between them; chunk messages that
overtake each other; replication without acknowledgement; cached arrangements
that outlive their file; boundary counts (one node, one chunk, one node's list
longer than another's). The complete list, each item at its line with the
properties that watch it, is `hazards` in `PROJECT.json`.

## 2. Modules

| module | models | used by |
|---|---|---|
| `ChunkSteal` | `task_worker`'s outer loop with `get_dist_lock` and `get_Dlock`, over the lists of `scheduler_base::generate` | `MCChunkSteal`, `ChunkStealProofs` |
| `ChunkClaims` | abstract: chunks are taken, each once, by a holder | `ChunkSteal` (refinement) |
| `ChunkStealProofs`, `ChunkStealFaults` | theorems about `ChunkSteal`: without faults, and with crashes and expiries | |
| `ChunkQueue` | `produce`, `produce2`, the end broadcast and `DFS::read_chunk` around one condition variable | `MCChunkQueue`, `ChunkQueueProofs` |
| `ChunkFifo` | abstract: a bounded FIFO queue with an end | `ChunkQueue` (refinement) |
| `ChunkQueueProofs` | theorems about `ChunkQueue` | |
| `ServerLinks` | `ClientHandler`, `Server`, `AsyncChannel` and the io threads, for one node that sends to one other | `MCServerLinks`, `ServerLinksProofs` |
| `MessageLanes` | abstract: FIFO lanes that may break | `ServerLinks` (refinement) |
| `ServerLinksProofs` | theorems about `ServerLinks` | |
| `Placement` | `initialize`, `get_index` and `random_within_boundaries` of the histogram | `PlacementProofs`, `MCEdits` |
| `PlacementProofs` | theorems about `Placement` | |
| `BlockNode` | handlers of a block node, local files, links | `Replication`, `FileLeader` |
| `Replication` | block nodes under any block operations | `MCReplication`, `ReplicationProofs` |
| `ReplicationProofs` | theorems about `Replication` | |
| `Directory` | SQLite queries and `file_request` as operators on tables | `FileLeader` |
| `FileLeader` | handlers of a file leader | `VeloxFS` |
| `VeloxFS` | client calls on whole files as sequences of requests to leaders and block nodes | `MCVeloxFS`, `Edits`, `VeloxFSProofs` |
| `VeloxFSProofs` | theorems about `VeloxFS` | |
| `FileStore` | abstract: a file appears whole and disappears | `VeloxFS` (refinement) |
| `Edits` | `write`, `read` with the client's description cache, and `rename`, beside the calls of `VeloxFS` | `MCEdits` |
| `Schedulers` | six scheduling policies as operators on the list of a file's chunks | `Jobs` |
| `Jobs` | arrangements, `TASK_INIT`, the task table and static workers | `MCJobs`, `JobsProofs` |
| `JobsProofs` | theorems about `Schedulers` and `Jobs` | |

`MC*` modules give the constants their values. A definition marked "Seeded
fault" is a version of its neighbour with a plausible bug; no specification uses
it, `mutants` in `PROJECT.json` says which property catches it.

### ChunkSteal

State: `lock[c]`, the znode `/chunks/<job>/<chunk>`, with its content ("1" the
owner's mark, "0" taken) and its creator; `eof[n]`, the znode of node n ("None"
after the first thief, "Done" once the owner let thieves in); `session`, whether
a worker's ZooKeeper session lives; `pc`, `phase` (own list, left neighbour's,
right neighbour's), `k` (the position `md_index` within the list), `stealing`
(the variable `Stealing`), `end` (a pending `END_OF_FILE`), `claimed[c]`, the
workers that put c into their application's queue. The third and second list
are read from the back, because `scheduler_base` reverses them.

One action per ZooKeeper call: `LookForThief` (`zoo_exists`, line 66),
`MarkCurrent` and `LetThievesIn` (lines 73 to 79), `AwaitDone` (the busy wait),
`TakeLock` and `ReadLock` (`zoo_create`, then `zoo_get` on a conflict),
`Produce`, `FileEnd`, `PublishEof`, `PublishMark`, `PublishDone` (260 to 263),
`EnterNeighbour` (266 to 271), `CloseSession` (the end of the job, for which
the code sleeps 1000 s). `MarkCurrent` covers a create and the get that follows
a conflict: between these two nothing can change, since no other worker touches
the chunk before "Done". `Crash` and `Expire` are the faults of `FaultySpec`:
ZooKeeper removes the ephemeral znodes of the session; after an expiry the
thread goes on and all its calls fail.

`produce` is a single step here: it blocks only on the application's queue,
which is `ChunkQueue`. It is declared `bool` and returns nothing; at the
configured `-O0` it returns to its caller.

### ChunkQueue

State: `head` and `tail` of `struct semaphore`, counters modulo W for the 2^32 of
the code; `slot[s]`, the number of the chunk in a slot, or `Empty` once its reader
wiped it; `ended`, the flag in front of the slots; `pc[t]`, whether a thread runs,
sleeps in `pthread_cond_wait`, is awake by a signal or roused without one but not
yet back under the mutex, or is done; `next`, the worker's position; `got[r]`, what
reader r was given; `overwritten`, bookkeeping for the properties. What a
thread does between taking the mutex and giving it up (by unlocking, or by
waiting) is one step, since every access to the queue is under the mutex.

`Signalled` is `pthread_cond_signal`: one sleeper, any, is woken; worker and
readers sleep on the same condition. `Produce` signals and fills, `ProduceWait`
falls asleep, `ProduceAwake` fills without looking again and without signalling
(`produce` tests with `if`). `Read`, `ReadWait` and `ReadEnd` are the loop of
`read_chunk`, which does look again. `MayWake` are the threads whose wait may
return on its own, as POSIX allows (`Wake`); it may be any of them, the worker
included. A worker roused while the queue is full fills the slot that the next
reader was to empty, and sets `overwritten`. From then on `head`, `tail` and the
slots do not fit together, and nothing is claimed: `FifoSpec` is the refinement of
`ChunkFifo` up to that step, `[overwritten' \/ Fifo!Next]`. Bound: the worker's
wait returns on its own no more once a slot is overwritten. What `strncpy` does to a
chunk with a NUL byte is not expressed.

### ServerLinks

A node that has something for another keeps a weak pointer to the connection it
used last (`current`). `Send` looks whether it still lives; `Erase` and `Open`
drop it and make a new `Server`, which has the message in its queue and
connects; `Push` puts the message into the queue of the one that is there.
`Claim` is `is_writing.exchange(true)`: who finds FALSE goes on to `Write`, which
starts the `async_write` of the queue's front. When the operation of a `Server`
has ended, any idle io thread takes it up (`Connected`, `OnWrite`,
`Reconnected`): after a connect it registers the connection and claims it,
after a write it pops the front (`Pop`) and starts the next one or, when there
is none, sets the ten-second timer (`WriteNext`) and then gives up the flag
(`Release`). `Transmit`, `Receive` and `TimerEnds` are the kernel, the other
node and the clock.

A `Server` lives while a handler, a thread or the timer holds it (`Alive`);
what is in its queue when it dies is gone. Faults: a refused connection ends the
io thread that ran the coroutine, since `connect` rethrows and nothing above
catches it (`Refused`); after a reset the `Server` reconnects and writes the
front again (`Reset`); after any other error it does nothing more (`Broken`).
The number of io threads is chosen in `Init`, `concurrency \in 1 .. MaxThreads`.
Accesses to the queue and to the map are atomic steps, though the code reads
both outside locks in places: a data race with more than one thread. `pc`
"undefined" is a thread that asked an empty queue for its front.

### BlockNode and Replication

`disk[n]` is what lies below `path.scratch` of node n, a function from names to
sequences of cells; a cell is the content of one chunk message. `link[<<m,n>>]`
is what m has sent to n and n has not handled, in the order of sending.
`HandleBlock` is the primary's handler (local change, then one copy of the message
for each entry of `replicate_message`'s list, so two for the same neighbour when
there are two nodes); `ReceiveReplica` the neighbour's, which handles any message of
the link, not only the first. For a single connection is a queue, as `ServerLinks`
shows, but m may have many to n: until one is registered every send opens another
(`client_handler.cc:58` to 60 and 100 to 124), and so does the first send after a
connection was idle for ten seconds (`asyncchannel.cc:146` to 149). Each is read by
a coroutine of its own.

`Local_io` has some edges that are kept: an update of a file that is not there writes
nothing; one behind the end leaves a hole; reading at the end gives nothing, reading
a missing file zeros. A request with position 0 and length 0 is answered with the
whole file (`block_node_router.cc:60`, `local_io.cc:107` to 122); when there is no
such file, with nothing at all (`Unanswered`): the whole is -1 bytes long, and the
exception ends the connection.

`disordered` in `Replication` is bookkeeping: `<<b, v>>` is in it when v has handled a
message about b after a later one about b (`Disorders`), until the next request that
makes b anew or deletes it (`Renews`). A message that comes too late with a renewing
one behind it does no harm, since that one settles what the file is.

### Directory and FileLeader

`Directory` has the queries as operators. `file_table_insert` is a plain
INSERT and does nothing when the name exists; rows of block and chunk go in with
INSERT OR REPLACE, keyed by name; `file_table_confirm_upload` sets `uploading`
and `num_block` and leaves the size; the update query sets size and counts.
`Description` is `file_request`: the start index (the first primary file on the
same node as the one whose list begins with chunk 0), the round-robin over
primary files and its odd stopping rule (`Ended`), and the empty list when
`num_block` is 0. The loop runs over as many primary files as there are rows. Of a row
without chunks, as a `touch` that overlaps another upload of the file leaves, the
code looks at the first one (section 6); here its list is empty. `FileLeader` has the handlers: `FileInsert`,
`FileInsertConfirm`, `FileUpdate` (which drops the kept arrangement),
`FileDelete` (which drops it, too, and sends the database to the neighbours),
`FileRequest` with the kept arrangements, `Format` (which keeps them).

Columns that no modelled operation reads back are left out: `foffset`,
`n_lblock`, `replica`, `intended_block_size`. Sizes count cells.

### VeloxFS

Client `c` makes up to `MaxJobs[c]` calls, one at a time: `put` (`UploadExists`,
`UploadInsert`, `ServeBlock` for each chunk in any order, `UploadConfirm`),
`write_file`, the same from a buffer, `put_idv`
(`upload_by_individual_block`: every chunk is a file of its own, though its row
names a primary file), `touch`, `get` (`DownloadExists`, `DownloadDescribe`,
`DownloadBlock`...), `rm` (`RemoveDescribe`, `RemoveBlock`..., `RemoveFile`),
`format` (node by node) and `arrange` (a job asks for its arrangement). A
request, its handler and its reply are one step: the client waits for the reply
and a server runs one handler at a time. Chunk messages of an upload go over
one connection each and are therefore a set. `Crash` kills a client in a call,
and any subset of its chunk messages still arrives. `DownloadDies` is a download
that gets no answer (`NoAnswer`): `read_reply` throws, and nobody catches it.

`promise[f]` is bookkeeping for the properties: what a returned put, write, rm or
format promises of the file (`Apart` when its chunks are files of their own, which
`get` does not read), and nothing once a further call has begun to change it.
`Free` are the operations that may overlap any other call on the same file; a
call that is not free begins when those on its file are over, or have crashed and
their messages are gone. It is empty where a property is only promised to callers
that take turns.

A hash key is the node that `GET_INDEX` gives for it. `Key[s]` is the set of
outcomes for a key drawn for server s: exact in the `fs_*` runs, in `edits`
computed from `Placement`. `Home[f]` is `h(f) % NUM_NODES`.

A cell stands for the content of a chunk message. What `upload` and `write_file`
do to the bytes before is not expressed, so the properties speak of the chunks
sent: with blocks cut at line ends `upload` puts a newline in front of the first
chunk, `write_file` drops the buffer's first byte (and counts one byte more), and
in `upload` a NUL byte ends the chunk, because `chunk.data()` goes through a C
string.

### Edits

`write` asks for the description (`WriteDescribe`), plans and sends its pieces
(`WriteSend`), and, when all replies are in, sends the FileUpdate
(`WriteUpdate`). `Plan` is the loop: what fits into the block of the last chunk
is put behind it (`ExtendLast`), and what remains goes into new chunks
(`AddChunk`), each cut back to a line end (`ParsingInput`). A job has the length
of its buffer and the positions where a line ends. `Overrun` and a `num_block`
of 0 are where the code indexes a vector in front of its first element; the
process is taken to die there. `read` looks into `file_description_cache` first
(`ReadKnown`), else asks `exists` and then for the description (`ReadExists`,
`ReadDescribe`), and reads block by block (`ReadPiece`), off the own disk where
the host has a copy. `known[c]` is that cache; a write drops its own entry, and
nothing else does. `rename` inserts the row of the new name and then throws
(section 6), so `RenameInsert` ends in "crashed". `snap[c]`, what c's download
should deliver, and `own[c][f]`, the size c's last write of f has set, are
bookkeeping.

### Placement, Schedulers and Jobs

`Placement` has the key space `0 .. MaxKey`, cut into a range for each server;
the product that the code takes in floating point is rounded down here.

In `Schedulers` a chunk is its number, and what a policy knows of it is the node
of its primary copy; its neighbours have the replicas. The policies are
`SchedulerBase`, `SchedulerSimple`, `SchedulerScoreBased`, `SchedulerLean`,
`SchedulerSteal` and `SchedulerVlmb`. Which holder `score_based` and `vlmb` pick
depends on loads that other tools measure; it is a parameter, so every choice is
covered, as are the free cpus of each node that `vlmb` goes by (`FreeCpus`, none
included). It takes the smallest of an empty list when it has chosen a node without
any (`SchedulerVlmbDefined` is false); `Arrangements` leaves these inputs out. Chunks have the same size. The loops over a file's chunks are recursive
functions, one round a chunk. `SchedulerSteal` divides by zero when there are fewer
chunks than nodes (`SchedulerStealDefined` is false); `Arrangements` then has none,
since the leader dies with the request.

In `Jobs` one file, which may grow by one chunk, is the input of several jobs.
`Generate` and `ReadKept` are `file_request` with and without a new arrangement,
followed by the client's TASK_INIT messages; `TaskInit` is the task manager's
handler: `tasks.insert` of the block, and the static worker that it starts, which
produces the first `primary_chunk_num` chunks of the entry that is in the table.
A block without chunks has no name (the code reads `[0]` of an empty vector), and
the application gets no further.

## 3. Properties and runs

`steal` - three nodes with three, two and one chunks. `AtMostOnce`: no chunk is
produced by two workers; `AllClaimed`: when all have returned, every chunk was
produced; `OwnerReadsOn`: the chunks an owner keeps are the first of its list, in
which it reads on without ever seeking (line 239), so that a chunk a thief took
before it would shift everything behind; `ClaimsSpec`: the protocol implements
`ChunkClaims`; `Termination`: every worker returns; `IInv`: the inductive
invariant of the proof. Three chunks in a list are enough for every relative
position of an owner's mark and two thieves (before, at, behind), and three nodes
for every list to have an owner and two thieves. The uneven lists let the owner of
the short one steal while the others have just begun.

`steal_faults` - one list of two and two of one, one crash and one expiry.
`MarkBeforeDone`: a live owner's "Done" comes with a mark in its list, whatever
happened; `LockFreeRegionExclusive`: what a live owner reads without a lock no
live thief reads, unless a mark stands before it. What does not survive faults:
a dead thief's locks vanish, and its chunks are handed out again; a thief of a
dead owner waits forever. Therefore the run does not check deadlock.

`queue` - a worker, two reading threads, two slots, nine chunks, counters modulo
4, so that they wrap twice; each of the three may be roused at any time. `FifoSpec`:
the queue implements `ChunkFifo`, chunks
come out once each and in order, at most two are under way, and `read_chunk`
returns 0 only after the last, as long as the worker was not roused into a full queue; `Drained`: every reader learns of the end, so that
no signal that matters goes to the wrong sleeper. The second does depend on the
numbers. With one slot the worker may be woken, the only reader take the chunk
and go to sleep, and the worker fill the slot without signalling; its next call
finds the queue full, and both sleep. With more readers than slots, readers that
are woken for a chunk another has taken swallow the signal meant for the worker.
Depth and width have no default, so both are configurations an administrator can
choose. The safety properties hold for all numbers (section 5). `Drained` holds
with an overwritten slot, too, where readers may be given a wiped one.

`links` - one or two io threads, three messages, one fault of any kind.
`OneWriter`: a connection has one outstanding `async_write` and one thread that
decides on the next, also with two threads; `FrontIsThere` and
`NothingStranded`: with one thread, no empty queue is asked for its front, and
no message stays in a queue that nobody will write; with two both happen, and the
second property says what is left: the flag is free, so the next message takes
the stranded one along. `OvertakenOnlyAtOpening`: as long as nothing fails
and the connection of a message is there, what overtakes it went over another
connection, and with one thread only the first message of a connection is
overtaken at all; `LanesSpec`: every connection implements a
lane of `MessageLanes`, so no message arrives twice, a write repeated after a
reset included, and a fault loses a front and a tail of what is under way;
`Delivered`: with one thread and no fault every message arrives. Two
messages are what it takes to overtake, the third finds the state they left; two
threads what it takes to interleave. A node all of whose io threads have ended
stops, so deadlock is not checked.

`replication` - two files on a ring of four, up to three operations.
`ReplicaCatchesUp`: applying what a link still carries, in the order of sending, to
the neighbour's copy gives the primary's file, at every moment;
`ReplicasConverge`: once requests stop, the replicas end up equal. Both except the
copies in `disordered`, and so say two things: nothing but overtaking makes a
replica differ, and no overtaking does that is followed by a message which renews
the file. Three operations allow insert, update and delete of one file to be
handled in any order, with the excuse taken and withdrawn; all orders of
longer sequences are covered by the proofs (section 5).

`fs_serial` - three nodes, files of two chunks, `put`, `put_idv`,
`get`, `rm` and `arrange`, one client with two calls and one with one. `DownloadedWhole`: a download
gives the chunks of the put that created the file; `RemovedStaysRemoved`: a file
removed is described to nobody, neither from tables nor from a kept
arrangement; `CacheFresh`: a kept arrangement says what the tables say;
`NoPrimaryLeft`: once nobody works on a file that has no row, the primary files of it
are deleted from the nodes that held them. Their copies may be left (section 6).

`fs_crash` - two nodes, `put`, `touch`, `get`, `rm` and `format`, three calls in all,
one client may die anywhere in a call. Besides `DownloadedWhole` and `RemovedStaysRemoved`:
`FileStoreSpec`, what a reader would see of a file is nothing, the whole of one
put, or (while a removal takes it apart) torn; it never changes from one whole
content to another.

`fs_concurrent` - two clients put the same file at once, with `upload` or
`write_file`, one may die. `DownloadedInOrder`: every reader gets a chunk for
every position, in order; they may come from both.

`edits` - three nodes, a file and a name to rename it to. One process, on a node,
makes up to three of touch, `put_idv`, write (of two cells), get, read,
rename and rm; another, on a host that is no node, makes one; one may die. Reads and
downloads overlap everything. `DescribedIsStored`: what the leader describes of a
file is stored on the node of each chunk, and, of chunks that are files of their own,
once the replica messages are there on its neighbours, where jobs read it, too (the
copy of a write may overtake that of the file it goes into, and is lost then);
`SnapshotRead`: a download gives what the file held when it was described, though
writes go on meanwhile, unless it was described as empty (section 6);
`OwnWritesSeen`: a process does not read with a description from before its own
last write; `RemovedStaysRemoved` again, with `rename`, whose unfinished row must
not pass for a file. Three calls are touch, write and what follows a write; in blocks
of four cells a first write leaves room and a second one fills the block exactly. The keys are drawn
from `0 .. 9` by the rules of `Placement`, but for the lower boundary (below). The
promise covers writes that stay within the last chunk of a file made by touch;
the others do not work, see section 6.

`jobs` - three nodes, two jobs, all files of up to three chunks that begin on
node 0 and two of four, one or two cores, six policies, for `vlmb` none to two free
cpus on each node, and one update of the file at any time. `KeptCoversFile`: an arrangement the leader hands out assigns
every chunk of the file as it is now to one node that has a copy
(`scheduler_lean`'s second half: is offered once on each of the three);
`StealingWalksLists`: the counts by which `task_worker` walks a list lead it
through exactly the left and then the right neighbour's chunks; `JobReadsOnce`:
no job gets a chunk twice, although the task table keeps the block of the first
job, and with the base scheduler it gets each. Files of up to three chunks on
three nodes have every distribution of chunks over the neighbours, the two of
four more than one on a node while another has none. The ring's symmetry is why
it is enough to begin on node 0; the two jobs are symmetric.

The bounded runs of `VeloxFS`, `Edits` and `Jobs` end when all calls are made,
which is why they do not check deadlock. Three or four calls by two clients let every
call follow, or overlap, every other.

Type invariants (`TypeOK`, `EditsTypeOK`, `JobsTypeOK`) are checked in one run of
each module with a state of its own.
Every property of a passing run has a mutant in `PROJECT.json`.

## 4. Fairness

`steal`: weak fairness of `Step(i)` for each worker; it is an operating-system
thread that runs until it returns, its busy waits are `pc` values it stays at.
`queue`: weak fairness of the worker and of each reader, threads that run unless
they wait; a signalled thread gets the mutex at some time.
`links`: weak fairness of each thread's rest of a handler (`Proceed`) and of its
taking up a completed operation (`io_service::run` hands every one out), and for
each connection of `Transmit` and `Receive` (TCP delivers on a connection that
lives). Nothing makes a handler send, and nothing makes the timer run.
`replication`: weak fairness of delivery; the io thread reads as long as its
connection lives.

No strong fairness is used. `VeloxFS`, `Edits` and `Jobs` have no liveness
properties: clients may stop at any time, and what they wait for is one reply.

## 5. Proofs

### Chunk stealing

`ChunkStealProofs` proves, for every ring of N >= 3 nodes and every number of
chunks per node (none included), without faults:

* `Invariance`: `Spec => []IInv`
* `TypeCorrect`: `Spec => []TypeOK`
* `NoChunkTwice`: `Spec => []AtMostOnce`
* `Implementation`: `Spec => ClaimsSpec`

Assumptions: those named in `ChunkSteal` (`RingAssumption`, `NumAssumption`,
`NoNodeAssumption`, `NoChunkAssumption`), which TLC evaluates on each run.

`AtMostOnce` is not inductive. Two workers can claim the same chunk in two ways.
*Two thieves*: a thief's claim leaves a lock "0" created by the thief (`Stolen`),
and locks are never overwritten while a session lives, so two thieves cannot
both have created it. *Owner and thief*: the owner has a mark m (`IsMark`) before
it says "Done"; it reads chunks up to m without a lock and chunks beyond only
under its own. A thief comes from the back and leaves "0" on all it passes
(`Thief`), so it cannot get past the "1" at m without meeting it, and every "0"
lies beyond m. Before "Done" there is no "0" at all (`Owner`). `Control` says
where a worker's program counter and its flags fit together, and `Behind` that a
worker does not come back to a chunk it has claimed. Once all have returned, the
sessions close and the locks go; then only `TypeOK`, `Behind` and `AtMostOnce`
are kept (`AllDone`).

A list may be empty: then the owner's mark lands on whatever znode `md[-1]`
names (`PublishMark` with any chunk), and the proof shows that this cannot make
a chunk be taken twice. It can make a chunk be taken by nobody, see section 6.

The proof has one lemma per action and per conjunct of `ProtocolInv`, and the
refinement follows from `IInv`, since a `Produce` step takes a free chunk.

`OwnerInOrder` is `Spec => []OwnerReadsOn`, under the same assumptions. A thief comes from the back, so behind a chunk it took all are taken
(`NoGap`); what the owner locked it has handed out (`OwnLock`); so of the chunks
the owner has passed, each is either its own or a thief's (`Passed`), and when it
gets one, none before it can be a thief's (`OwnerAt`).

`NothingLeft` is `Spec => []AllClaimed` for every distribution that leaves no node without a chunk (`NoEmptyList`; with an empty list it is false,
see section 6). By `CoverInv` the owner meets no mark ahead of it
(`NoMarkAhead`) and so leaves its list only at the end (`AtEnd`); what it left
behind there is its own or locked by a thief (`LeftBehind`); and whoever locked a
chunk has handed it out or is about to (`LockKept`).

`ChunkStealFaults` proves, again with `NoEmptyList`, for any number of crashes and
expiries at any moment:

* `FaultInvariance`: `FaultySpec => []FaultInv`
* `MarkFirst`: `FaultySpec => []MarkBeforeDone`
* `LockFreeIsOwn`: `FaultySpec => []LockFreeRegionExclusive`

`IInv` does not survive: znodes vanish with their sessions, so that nothing can be
said of a chunk whose taker is gone. `FaultInv` says only what concerns live
sessions: a live owner that lets thieves in has a mark of its own
(`MarkedByOwner`), before that nobody is past the wait and nothing is locked
(`ShutBefore`), nobody else marks a list (`OwnMarks`), and a live thief in a live
owner's list has a mark before it, as has what it took (`ThiefAhead`,
`LootAhead`).

### Chunk queue

`ChunkQueueProofs` proves, for every number of readers, slots and chunks, every W
that Size divides, and spurious wake-ups of any threads, the worker among them:

* `Invariance`: `Spec => []IInv`
* `TypeCorrect`: `Spec => []TypeOK`; no reader gets a wiped slot before one was
  overwritten
* `Implementation`: `Spec => FifoSpec`

`IInv` says that, unless a slot was overwritten, the `Used` slots from `head` on hold
the last `Used` chunks in their order (`Ordered`), and that a worker that was
signalled has a free slot (`InOrder`): only a reader can signal it before the end, it
made room in the same step, and nobody else fills slots. So `produce`, which does not
look again, goes wrong in one way only: its wait returns without a signal while the
queue is full. What readers do with spurious wake-ups does no harm. The arithmetic (a counter that wraps keeps its slot, chunks less
than Size apart lie in different slots) is in lemmas of its own.

Assumptions: those named in `ChunkQueue`. `CounterAssumption` is a real one: with
`shm_buf_depth * shm_buf_width` not a power of two, chunk 2^32 gets the wrong slot.

### Links

`ServerLinksProofs` proves, for every bound on io threads, messages and faults:

* `Invariance`: `Spec => []IInv`
* `TypeCorrect`: `Spec => []TypeOK`; in particular the thread that pops finds a
  message
* `OneWriterAlways`: `Spec => []OneWriter`
* `FrontIsThereAlways`: `Spec => []FrontIsThere`
* `NothingStrandedAlways`: `Spec => []NothingStranded`
* `Refinement`: `Spec => LanesSpec`
* `OvertakenOnlyAtOpeningAlways`: `Spec => []OvertakenOnlyAtOpening`

`is_writing` is a lock that no single thread holds: it is taken by a thread in
`Claim`, goes with `Write` to the operation, with the completion to whichever
thread takes that up, and is given back in `Release`. `WriterHoldsLock` says that
whoever writes has it, `LockIsHeld` that, as long as nothing fails, somebody has
it when it is taken; with `OneWriter` it has one holder. `FrontInWriting` keeps the
front in the queue until it is popped, which makes the repeated write after a
reset repeat the right message. `Connecting` says that only its coroutine knows a
`Server` that connects, `Fresh` that one not yet made has no state, and `Bounded`
that there is room for the messages of handlers about to send. `Alone` and
`NoneLeft` are about one io thread: what it has pushed is still there when it
writes, and a queue that is not empty has somebody to write it.

The refinement maps a lane to what is on the wire and what the queue still has to
write. `Push` and `Open` put, `Receive` takes; a `Server` that dies, a reset and a
broken connection lose; all else changes nothing visible. That `Pop` does not is
the point: the message is on the wire since `Transmit`.

`OvertakenOnlyAtOpening` needs to know of each connection what has arrived of it
and what is on the wire or waits: both are in the order of sending, the second
behind the first (`InOrder`), and as long as nothing fails a connection that is
there has lost nothing (`NoneLost`). With one thread, a message that found its
connection open went over the latest one, and so did all that came after it
(`OnTheLatest`). With several threads this is not so, though it takes five
messages to see it and the run has three: two threads find the entry expired, one
opens a connection and a second message goes over it, then the late erase of the
other removes that entry (`client_handler.cc:77` to 97), and a message on a third
connection overtakes the second one. That is why the property says that only
first messages are overtaken of one thread, and of more only that the overtaking
message came over another connection.

### Replication

`ReplicationProofs` proves, for every number of nodes, every placement of files
and any number of operations:

* `Invariance`: `Spec => []IInv`
* `TypeCorrect`: `Spec => []TypeOK`
* `CatchesUp`: `Spec => []ReplicaCatchesUp`
* `QuietIsEqual`: a neighbour to which nothing is under way has what the primary has

The last two are about copies not in `disordered`: a neighbour that has handled a
change too late, with nothing after it that renews the file, may stay different.

What a link carries is a sequence of any length, and `Replayed` folds
`Applied` over it. The proof goes by induction over that length. The induction
theorems of the library take a predicate, which no prover here can supply;
`SetInduction` takes a set instead and follows from the well-foundedness of the
natural numbers. With it `Replayed` is the end of a run of partial results
(`Run`, `RunExists`), and sending a message adds one step.

Handling message i of a link takes it out of the middle. The run without it is
compared with the run in which it comes first. A handler touches one file, so for
other files nothing changes (`FileIn`). For its own file the two runs are alike
from the start when none before it is about that file, or else from the message
behind it that renews the file, since an insert or a delete does not depend on what was
there (`RenewedAlike`); from where they are alike they stay so (`RunsMeet`), which gives
`ReplayedWithout`. In the remaining case the copy goes into `disordered`. With two
nodes, where both copies of a message go to the same neighbour, handling it twice in a
row is the same as once: insert, update and delete of `Local_io` are idempotent when
repeated at once.

### Whole files

`VeloxFSProofs` proves, for any number of nodes, files, clients, calls, chunks and
crashes:

* `TypeCorrect`: `Spec => []TypeOK`
* `RemovedForGood`: `Spec => []RemovedStaysRemoved`
* `ArrangementsFresh`: `Spec => []CacheFresh`
* `DownloadsWhole`: `Spec => []DownloadedWhole`
* `RemovalsLeaveNoPrimary`: `Spec => []NoPrimaryLeft`

the first without hypotheses, the next two under two hypotheses about the
instance, the last two under more (below):

* `OneAtATime`: calls that change a file do not overlap on it (`Free` has none of
  them); gets and arrangements may overlap everything. Without it the statement
  is false, since a slower upload makes the file anew.
* `FormatsAlone`: jobs do not ask for arrangements where a format is among the
  calls. `FileLeader::format` keeps the arrangements it should drop (section 6).

All passing `fs_*` runs that check these properties satisfy both. The invariant of
`RemovedForGood`: what is promised gone has no row that is finished and no arrangement (`GoneForGood`);
an upload that is not confirmed has withdrawn the promise (`Unpromised`), which is
what makes its confirmation harmless; of two calls on a file, one leaves it alone
(`TakeTurns`), where a call whose client died is over once its block messages are
gone; and a format has emptied the nodes before the one it is at
(`Formatted`). Each handler's effect on the files that exist and on the kept
arrangements is a lemma (`InsertEffect`, ..., `FormatEffect`).

For `CacheFresh` one has to know that a handler that changes the rows of one file
changes no other file's description. An arrangement is kept only of a file that
exists (`KeptFresh`), an upload is under way only of one that does not (`Unborn`),
and what a description says depends on the rows of its file alone
(`SameDescription`): those whose column `file` names it, and the chunks in its
primary files, whose names hold the file's (`OneFileOfName`). What a client inserts
has such names (`UploadBlockRowsAre`, `UploadChunkRowsAre`, `IdvChunkRowsAre`), so
that INSERT OR REPLACE, row by row, leaves all others where they were
(`InsertAllElsewhere`), and DELETE leaves what another SELECT finds (`OnlyFacts`). A
WHERE is a recursive function over the rows (`Only`); what it computes is
the end of a loop (`OnlyLoop`, by `Loop` and `SetInduction`).

`TypeCorrect`, `Spec => []TypeOK`, needs no hypothesis: it holds however calls
overlap. Its invariant `TypeInv` says in addition of which file and name the
messages under way are (`Stored`), since a disk's files come from them; that tables
are sequences with one row for each name (`RowsIn`), which INSERT OR REPLACE and
DELETE keep (`InsertAllUnique`, `OnlyUnique`); and that a description is of some
length (`DescriptionSeq`), which bounds the loops over its blocks.

`DownloadsWhole` asks for three things more, which `fs_serial` and `fs_crash` satisfy:

* `GetsAlone`: gets take turns with changes of the file, too. The directory has no
  locks, and a get that overlaps an upload reads some of the old blocks and
  some of the new.
* `OwnKeys`: a key drawn for a node maps back to it, which `PlacementProofs` shows of
  all keys but the lower boundary (section 6).
* `Spread`: uploads have from 2 to N chunks. A file of one chunk is described without
  blocks, and of more than N chunks the second one of a node races the first
  (both in section 6; `fs_lost_update` is the second).

Nothing is asked of the number of crashes, of the order of block messages, or of
the replica messages, which may be handled at any later time. That last point
needs `Wires`: no message on a link to a node names a primary file of that very node,
so a late replica never changes what a client reads. The rest of the invariant:

* `TurnInv`: of two clients that may still change something of a file, one has a
  call that excludes it; block messages of a client that died are those of the call
  it died in, they create blocks of that call's file (`Posting`), and as long as a
  call may change a file nothing is promised of it (`NothingPending`).
* `TableInv`: a leader's rows are about its own files and name the node that their
  key maps to (`OwnRows`); a file without a row has no blocks described (`Blank`); a
  client that waits for replies has the row of its file in the table and keys that
  map to the nodes they were drawn for (`Awaiting`); one that deletes blocks
  deletes primary files of its own file (`Deleting`).
* `ContentInv`: of an upload that waits for replies, what is not under way any more
  is on disk (`Arrived`); the blocks described of a file of which contents are
  promised hold these contents in order (`Promised`); and what a get has
  read so far is the first part of them (`Downloading`).

The step that joins them is the return of an upload (`EndsHeld`): the rows it
sends, its chunks dealt out over the nodes round robin, are taken apart by `SELECT ...
WHERE` and merged by `file_request`, and each loop of that is an induction.
`InsertAllOwn` says that the inserted rows are what a WHERE on their names finds,
and `HeldUpload` that the description made of them lists the chunks in the order
in which they were sent.

`RemovalsLeaveNoPrimary` asks for `OneAtATime`, `OwnKeys` and `Spread`, and for two
conditions that `fs_serial` satisfies too, `NoCrashes` and `NoFormats`. Without the
first of these it is false: a dead upload leaves blocks, which a shorter upload later does
not describe, so that no removal deletes them. Its invariant `LeftInv` adds to that of
the whole files, without what it says of contents: each primary file is there because
the description lists it or an upload under way has sent it (`Explained`); of a removal
under way all blocks before the loop counter are gone (`Emptied`); chunks that are
files of their own do not have the names of primary files (`SentApart`); and without crashes a client dies
only in a download without an answer, which changes nothing (`OnlyReadersDie`). So when
the row goes nothing is left, because an upload describes at its end all it has sent
(`EndsDescribed`).

Nothing like it can be shown of the copies: the message that deletes one may overtake
the one that makes it, over a connection of its own. It is also why `Wires` is all
that the theorems about whole files use of replication, whatever its order.

All of these rest on `NodesAssumption` and the assumptions named in `VeloxFS`; finitely
many clients (`ClientAssumption`) are needed where a set of clients is counted.

### Placement

`PlacementProofs` proves, for every number of servers and every largest key, that
`get_index` gives a key drawn by `random_within_boundaries` back to its server,
unless it is the lower boundary (`OnServer`), and that the lower boundary belongs
to the server before whenever that one's range is not empty (`OnServerBefore`). It
is why `edits` may draw any key but that one, and the first theorem covers all
ring sizes where the run has one.

### Schedulers and jobs

`JobsProofs` proves, for every number of nodes (three or more), chunks, cores and
jobs, every distribution of the chunks and any interleaving with updates of the file:

* `StealingWalksListsAlways`: `Spec => []StealingWalksLists`
* `KeptCoversFileAlways`: `Spec => []KeptCoversFile`
* `JobsTypeCorrect`: `Spec => []JobsTypeOK`
* `JobReadsOnceAlways`: `Spec => []JobReadsOnce`

`IInv` says that what the leader keeps is an arrangement of the file as it is
(`file_update` drops it), which leaves the schedulers themselves: each is a loop over
the chunks, and what it does is an invariant of its rounds, by `SetInduction`. For
`scheduler_base`, `scheduler_simple` and `scheduler_score_based` that is `Collects`:
a block has the chunks of its node up to this round, each once. For those that
balance it is `Holds`: chunk j is once on each node of `homes[j]`, and in the primary
part where it comes before the cut. A round of `PlaceOnOne`, `PlaceOnAll` or `Grow`
adds a home (`AddTo`), flattening the lists keeps them all (`FlattenedFacts`), and what
`scheduler_steal` appends for thieves is behind the primary part (`Lengthened`).

`JobsTypeOK` follows from `Blocks`: blocks under way and in the tables are about
chunks of the file (`Sound`), which only grows, and have the name of their own
first chunk.

`JobReadsOnce` is the hard one, because a table keeps the block of the first job
while the file grows and later jobs get other arrangements; two nodes could end up
with the same chunk in their tables. They do not: which node a chunk goes to depends on
the chunks before it alone, through `node_chunks_counter` (`Loading`), so one more
chunk moves none (`OwningMore`). `Once` says that all blocks, old and new, agree on one
home for each chunk (`Mine`), and that a chunk was produced for a job only if no
TASK_INIT for its home is under way. It needs one block a node, which is
why the property asks for one core or `scheduler_base`. `Complete` says that
with `scheduler_base`, while the file does not grow, each table has the block of
this very file, so that what is not produced yet is still on its way.

Assumptions: those named in `Schedulers` and `Jobs`; TLC evaluates them in `jobs`.

### What is left to TLC

* Liveness (`Drained`, `Termination`, `Delivered`, `ReplicasConverge`) and
  everything under fairness.
* `DownloadedInOrder`: it is about puts that overlap each other and the gets, so that
  taking turns, on which the other proofs about `VeloxFS` rest, is not there to use.
* The refinement `FileStoreSpec`: its `Content` is a fold over the blocks described,
  and every step of every call, `touch` and `format` included, would have to be
  mapped; what it says of contents under the hypotheses above is
  `DownloadsWhole`.
* `EditsTypeOK`, `DescribedIsStored`, `SnapshotRead` and `OwnWritesSeen`: `Edits` declares
  a RECURSIVE operator, and the SMT backend takes no module that does.

## 6. Where the code does something else

Runs that TLC finds violated, with the line that promises the opposite
(`findings` in `PROJECT.json`):

* `fs_lost_update`: with more chunks than nodes, the UPDATE of a primary file may
  be handled before its INSERT and is lost, with success reported.
* `edits_overflow`: the lines of a write that do not fit into the last block go as
  updates to a primary file that nobody created, and are lost; write returns their
  length.

Also seen while reading and modelling, without a run of their own. Properties of
passing runs leave these cases out, and say so where they do.

Metadata and files:

* `upload` confirms with `num_block` one less than there are chunks, so a file of
  one chunk is described, and read, as empty; `write` to an uploaded file extends
  the chunk before the last one.
* `write` to a file that is missing, or whose `num_block` is 0, reads in front of
  an empty vector, where `dfs.hh` says a missing file is created.
* Two writers of one file overwrite each other: the position comes from a
  description that is stale by then, and the rows of the slower one win.
* `rename` always throws (`dfs.cc:1142` constructs a string from a null pointer),
  after the row of the new name was sent.
* `read` of a file that is no job input reads files named like the chunk, which
  only `upload_by_individual_block` makes; for a file made by `touch` it gives zeros
  or nothing. `rm` of a file made by `upload_by_individual_block` leaves its chunks on
  the disks.
* A client on a host that is no node takes nodes 0 and N - 1 for its neighbours
  and looks for their blocks on its own disk.
* An answer "no such file" that came after `exists` is kept in the description
  cache for the life of the process, as is a description that others have outdated.
* A request for the first 0 bytes of a block is answered with all of it
  (`block_node_router.cc:60`, `local_io.cc:107` to 122). So a download of a file that was
  described as empty, by `touch`, delivers what a write has put there since; and when the
  block is gone, the client gets no answer and ends with an exception.
* A `touch` that overlaps another upload of the same file may leave a row without
  chunks; `file_leader.cc:180` looks at the first of them all the same.
* `format` keeps the arrangements of the files it deletes; so does the confirmation
  of a second uploader. A replica message that arrives after a format leaves a copy of
  a file that is gone.
* Two removals with an upload in between: the slower one deletes blocks of the
  new file. A dead client's block may arrive after a later upload has written its
  own.
* A key that is the lower boundary of its range maps to the node before.
* `write_file` with blocks cut at line ends drops the first byte of the buffer.

Links and block nodes:

* With two or more io threads a writer may ask an empty queue for its front, and a
  message may stay in a queue until the next one is sent.
* A refused connection ends the io thread that ran the coroutine; with one thread
  the node no longer answers.
* Replica messages over several connections may overtake each other
  (`client_handler.cc:100` to 124). An update that comes before its insert writes nothing
  (`local_io.cc:68`), an insert that comes after the delete of the file leaves a copy of
  it, and nothing repairs the neighbour until the file is written anew.
* With two nodes both neighbours are the same and get every change twice; with one
  the node is its own replica, and late replica messages overwrite newer contents.

Jobs:

* A spurious wake-up of the worker in `produce`, which tests with `if`
  (`task_manager.cc:102` to 106, 125 to 129), makes it overwrite a chunk that nobody has
  read when the queue is full.
* `get_Dlock` falls through to the code for an obtained lock when both `zoo_create`
  and `zoo_get` fail (`task_manager.cc:38` to 56), which happens when the creator
  dies in between.
* With an empty list on one node the mark `md[-1]` can name a chunk of another
  node's list, whose thieves then stop too early; with four nodes an owner whose
  neighbours have no chunks never says "Done". Two files of one job share znodes.
* `scheduler_steal` divides by zero when there are fewer chunks than nodes;
  `scheduler_vlmb` takes the smallest of an empty list for a chunk whose chosen node has
  no free cpu (`scheduler_vlmb.cc:115` to 118);
  `scheduler_multiwave` loses the last chunks of a file; with the lean and the steal
  scheduler and several slots, blocks of one node share a task table entry, so a job
  gets some chunks twice and others never.
* The table keeps the block of an earlier job, so a later one does not see what
  the file has gained.
* `vdfs::rm(fid)` uses the handle after its removal from the list.

## 7. Plan

Done: chunk stealing, its order, its faults and its queue, with proofs; links and
the order of messages on them, with proofs; placement, with proofs; block nodes and
replication, with proofs; directory, leader and client calls, on whole files and in
place, with proofs about whole files; schedulers and jobs, with proofs.

Next, in this order:

1. The refinement `FileStoreSpec`, from `ContentInv`.
2. Reading job input by logical blocks, once its remote branch reads anything.

## 8. Not modelled

Parts that keep no state of their own, or only pass it on: serialization (Boost
conversion between objects and bytes), settings and loggers, start-up and routing,
the statistics listener, the command line, the Java binding, and `vdfs`, a map from
time stamps to file names above `DFS`. Where their behaviour matters (a field a
message drops, a default a setting has) the module that depends on it says so.
The Python scheduler calls a script of the administrator.

Operations of modelled parts:

* `append`: `dfs.hh` says that it does not work; the append branch of `file_update`
  has no other caller.
* `write_chunk`: no caller, and it uses `which_server` before it has a value.
* `read` of job input by logical blocks (`read_logical`): its remote branch sends a
  request and copies nothing; the local one is like that of `read_physical`.
* `TASK_DESTROY`: the task manager's router has a handler
  (`task_manager_router.cc:29`), but nothing under `src/` sends the message.
* `read_all`, `dump`, `list` and the listing queries only read, and add no steps
  that `download` and `exists` do not have.
* `scheduler_multiwave`: it loses chunks whenever it splits a file, so nothing that
  jobs rely on holds of it.
* The statistics of class `Histogram` (`count_query`, `update_boundary`, ...), and
  `batch_read` and `append` of `Local_io`: no caller.
* `semaphore_create` on a segment that is in use: what a mutex set up in use does is
  undefined.

About 11,200 lines under `src/` are superseded copies of source files
(`dfs-backup.cc`, `dfs-modify.cc`, `client/backup/`, `task_manager_original.cc`,
`_version1`, `_bak`, `-modify`, `taskmanager/backup/`, `block_node*_modify.cc`) that
no build file names: older states of code that is modelled here, which the program
does not contain.
