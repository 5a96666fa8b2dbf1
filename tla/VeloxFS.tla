------------------------------- MODULE VeloxFS -------------------------------
(***************************************************************************)
(* The file system as its clients see it: operations of client/dfs.cc as   *)
(* sequences of requests to file leaders and block nodes. A request, its   *)
(* handler and its reply are one step, because the client waits for the    *)
(* reply and a server handles one message at a time; the blocks of an      *)
(* upload are the exception, sent over one connection each without waiting.*)
(***************************************************************************)
EXTENDS FileLeader

CONSTANTS Client,    \* processes that use class DFS, one call at a time
          Job,       \* the calls they may make: [op, file]
          MaxJobs,   \* MaxJobs[c]: bound on the calls of c
          MaxCrashes,\* bound on the clients that die during a call
          Free,      \* operations that may overlap any call on the same file
          Home,      \* Home[f]: h(f) % NUM_NODES
          Key,       \* Key[s]: what GET_INDEX_IN_BOUNDARY(s) may give, as
                     \* the node that GET_INDEX maps it to
          Chunks,    \* Chunks[c]: into how many chunks c's local files fall
          NoJob, NoOne, Gone, Apart, Torn

ASSUME HomeAssumption   == Home \in [File -> Node]
ASSUME ClientAssumption == IsFiniteSet(Client)
ASSUME ChunksAssumption == Chunks \in [Client -> Nat \ {0}]
ASSUME KeyAssumption    == \A s \in Node : Key[s] # {} /\ Key[s] \subseteq Node
ASSUME JobAssumption    ==
    NoJob \notin Job /\ \A j \in Job : j.op = "format" \/ ("file" \in DOMAIN j /\ j.file \in File)
ASSUME BoundAssumption  == MaxJobs \in [Client -> Nat] /\ MaxCrashes \in Nat

VARIABLES
    pc,       \* where a client is in its call
    job,      \* the call
    calls,    \* how many calls it has made
    loc,      \* its local variables, see NoLocals
    sent,     \* its block messages on their way: [to, msg]
    promise   \* what a file should hold, as far as returned calls promise:
              \* contents, Gone, Apart for chunks in files of their own, or
              \* NoOne if they promise nothing

client  == <<pc, job, calls, loc, sent>>
servers == <<disk, link, db, cache>>
vars    == <<servers, client, promise>>

\* fd: the FileDescription; i: a loop counter; got: what a download has
\* written; key: the hash key drawn for each server; plan: see Edits.
NoLocals == [fd |-> NoDescription, i |-> 1, got |-> <<>>, key |-> <<>>,
              plan |-> <<>>]
-----------------------------------------------------------------------------
(* What a client sends.                                                    *)
PrimaryName(s, f) == <<"Primary", s, f>>
TouchName(f) == <<"H", Home[f], f>>
ChunkName(f, seq) == <<f, seq>>
Cell(c, seq) == <<c, seq>>
Content(c) == [x \in 1 .. Chunks[c] |-> Cell(c, x - 1)]

ASSUME MarksAssumption == Gone \notin {NoOne, Apart, <<>>} \cup {Content(c) : c \in Client}

Server(f, seq) == (Home[f] + seq) % N
Used(c, f) == {Server(f, seq) : seq \in 0 .. Chunks[c] - 1}

\* upload: the first chunk of a server creates its primary file, the others
\* are written behind it.
BlockMessage(c, f, seq) ==
    IF seq < N
    THEN Message("INSERT", PrimaryName(Server(f, seq), f), 0, <<Cell(c, seq)>>)
    ELSE Message("UPDATE", PrimaryName(Server(f, seq), f), seq \div N, <<Cell(c, seq)>>)

FileRow(size, input) ==
    [uploading |-> 1, num_block |-> 0, num_primary |-> 0, size |-> size, is_input |-> input]
BlockRow(name, f, seq, k, s) ==
    [name |-> name, file |-> f, seq |-> seq, key |-> k, node |-> s]
ChunkRow(name, f, primary, seq, offset, primary_seq, size) ==
    [name |-> name, file |-> f, primary |-> primary, seq |-> seq,
     offset |-> offset, primary_seq |-> primary_seq, size |-> size]

\* upload: blocks_metadata is a map from servers, so the rows go by server;
\* seq counts the servers in the order of their first chunk.
Order(s, f) == (s - Home[f] + N) % N
UsedInOrder(c, f) == Only([x \in 1 .. N |-> x - 1], Used(c, f))
UploadBlockRows(c, f) ==
    LET used == UsedInOrder(c, f)
    IN  [j \in DOMAIN used |->
            BlockRow(PrimaryName(used[j], f), f, Order(used[j], f),
                     loc[c].key[used[j]], used[j])]
ChunksOn(c, f, s) ==
    Only([x \in 1 .. Chunks[c] |-> x - 1], {seq \in 0 .. Chunks[c] - 1 : Server(f, seq) = s})
UploadChunkRows(c, f) ==
    LET used == UsedInOrder(c, f)
    IN  FlattenSeq([j \in DOMAIN used |->
            LET seqs == ChunksOn(c, f, used[j])
            IN  [x \in DOMAIN seqs |->
                    ChunkRow(ChunkName(f, seqs[x]), f, PrimaryName(used[j], f),
                             seqs[x], x - 1, Order(used[j], f), 1)]])
-----------------------------------------------------------------------------
(* Control of a client.                                                    *)
FilesOf(j) == IF j = NoJob THEN {} ELSE IF j.op = "format" THEN File
              ELSE {j[x] : x \in {"file", "dst"} \cap DOMAIN j}
Quiet(f) == \A c \in Client : f \in FilesOf(job[c]) =>
                \/ job[c].op \in Free
                \/ pc[c] = "crashed" /\ sent[c] = {}

\* c may begin call j; the first step of the operation has this as its guard.
Calls(c, j) ==
    /\ pc[c] = "idle" /\ calls[c] < MaxJobs[c] /\ j \in Job
    /\ j.op \in Free \/ \A f \in FilesOf(j) : Quiet(f)
    /\ calls' = [calls EXCEPT ![c] = @ + 1]
Goto(c, where)     == pc' = [pc EXCEPT ![c] = where]
Enter(c, j, where) == Goto(c, where) /\ job' = [job EXCEPT ![c] = j]
Return(c) == /\ Goto(c, "idle")
             /\ job' = [job EXCEPT ![c] = NoJob]
             /\ loc' = [loc EXCEPT ![c] = NoLocals]

\* The process ends in the middle of a call.
Dies(c) == Goto(c, "crashed") /\ loc' = [loc EXCEPT ![c] = NoLocals]

F(c) == job[c].file
\* Seeded fault: the metadata requests go to the wrong node.
NextToHome(c) == (Home[F(c)] + 1) % N
L(c) == Home[F(c)]      \* the node of connect(h(file_name))
-----------------------------------------------------------------------------
(* put (upload), write_file, put_idv (upload_by_individual_block) and touch. *)

\* All begin with exists(): the call fails for a file that exists.
UploadExists(c, j) ==
    /\ j.op \in {"put", "write_file", "put_idv", "touch"} /\ Calls(c, j)
    /\ IF FileTableExists(db[Home[j.file]], j.file)
       THEN UNCHANGED <<pc, job>> ELSE Enter(c, j, "insert")
    /\ UNCHANGED <<servers, loc, sent, promise>>

\* upload: the FileInfo with uploading = 1, whose reply does not tell whether
\* there was a row already. The blocks follow, each over its own connection to
\* the node that GET_INDEX gives for the key drawn for its server.
SendChunks(c, op) ==
    /\ pc[c] = "insert" /\ job[c].op = op
    /\ FileInsert(L(c), F(c), FileRow(Chunks[c], TRUE))
    /\ \E k \in [Used(c, F(c)) -> Node] :
          /\ \A s \in Used(c, F(c)) : k[s] \in Key[s]
          /\ loc' = [loc EXCEPT ![c].key = k]
          /\ sent' = [sent EXCEPT ![c] =
                {[to |-> k[Server(F(c), seq)], msg |-> BlockMessage(c, F(c), seq)] :
                    seq \in 0 .. Chunks[c] - 1}]
    /\ Goto(c, "await")
    /\ promise' = [promise EXCEPT ![F(c)] = NoOne]
    /\ UNCHANGED <<job, calls>>

UploadInsert(c) == SendChunks(c, "put")

\* write_file: the same requests, with chunks cut from a buffer.
WriteFileInsert(c) == SendChunks(c, "write_file")

\* touch: the same with one empty block, on the server of the reply's hash key.
TouchInsert(c) ==
    /\ pc[c] = "insert" /\ job[c].op = "touch"
    /\ FileInsert(L(c), F(c), FileRow(0, FALSE))
    /\ \E k \in Key[L(c)] :
          /\ loc' = [loc EXCEPT ![c].key = [s \in {L(c)} |-> k]]
          /\ sent' = [sent EXCEPT ![c] =
                {[to |-> k, msg |-> Message("INSERT", TouchName(F(c)), 0, <<>>)]}]
    /\ Goto(c, "await")
    /\ promise' = [promise EXCEPT ![F(c)] = NoOne]
    /\ UNCHANGED <<job, calls>>

\* upload_by_individual_block: every chunk is a file of its own, but the rows say
\* that it is in a primary file, at offset 0.
IdvName(f, seq) == IF seq < N THEN ChunkName(f, seq) ELSE <<"Chunk", f, seq>>
IdvChunkRows(c, f) ==
    LET rows == UploadChunkRows(c, f)
    IN  [x \in DOMAIN rows |-> [rows[x] EXCEPT !.name = IdvName(f, @[2]), !.offset = 0]]
IdvInsert(c) ==
    /\ pc[c] = "insert" /\ job[c].op = "put_idv"
    /\ FileInsert(L(c), F(c), FileRow(Chunks[c], TRUE))
    /\ \E k \in [Used(c, F(c)) -> Node] :
          /\ \A s \in Used(c, F(c)) : k[s] \in Key[s]
          /\ loc' = [loc EXCEPT ![c].key = k]
          /\ sent' = [sent EXCEPT ![c] =
                {[to  |-> k[Server(F(c), seq)],
                  msg |-> Message("INSERT", IdvName(F(c), seq), 0, <<Cell(c, seq)>>)] :
                    seq \in 0 .. Chunks[c] - 1}]
    /\ Goto(c, "await")
    /\ promise' = [promise EXCEPT ![F(c)] = NoOne]
    /\ UNCHANGED <<job, calls>>

\* A block node handles one of the messages under way, whichever.
ServeBlock(c) ==
    \E s \in sent[c] :
        /\ HandleBlock(s.to, s.msg)
        /\ sent' = [sent EXCEPT ![c] = @ \ {s}]
        /\ UNCHANGED <<db, cache, pc, job, calls, loc, promise>>

Confirm(c, num, blockRows, chunkRows, contents) ==
    /\ FileInsertConfirm(L(c), F(c), num, blockRows, chunkRows)
    /\ Return(c)
    /\ promise' = [promise EXCEPT ![F(c)] = contents]
    /\ UNCHANGED <<calls, sent>>

\* Seeded fault: the upload is confirmed before all its blocks are written.
UploadConfirmEarly(c) ==
    /\ pc[c] = "await" /\ job[c].op = "put" /\ Cardinality(sent[c]) < 2
    /\ Confirm(c, Chunks[c] - 1, UploadBlockRows(c, F(c)), UploadChunkRows(c, F(c)),
               Content(c))

\* All replies are in: the FileInfo with uploading = 0. num_block is block_seq,
\* the number of the last chunk, one less than there are chunks.
ConfirmChunks(c, op) ==
    /\ pc[c] = "await" /\ job[c].op = op /\ sent[c] = {}
    /\ Confirm(c, Chunks[c] - 1, UploadBlockRows(c, F(c)), UploadChunkRows(c, F(c)),
               Content(c))
UploadConfirm(c) == ConfirmChunks(c, "put")
WriteFileConfirm(c) == ConfirmChunks(c, "write_file")

IdvConfirm(c) ==
    /\ pc[c] = "await" /\ job[c].op = "put_idv" /\ sent[c] = {}
    /\ Confirm(c, Chunks[c] - 1, UploadBlockRows(c, F(c)), IdvChunkRows(c, F(c)), Apart)

TouchConfirm(c) ==
    /\ pc[c] = "await" /\ job[c].op = "touch" /\ sent[c] = {}
    /\ Confirm(c, 1, <<BlockRow(TouchName(F(c)), F(c), 0, loc[c].key[L(c)], L(c))>>,
               <<ChunkRow(ChunkName(F(c), 0), F(c), TouchName(F(c)), 0, 0, 0, 0)>>, <<>>)
-----------------------------------------------------------------------------
(* get (download).                                                         *)
DownloadExists(c, j) ==
    /\ j.op = "get" /\ Calls(c, j)
    /\ IF FileTableExists(db[Home[j.file]], j.file)
       THEN Enter(c, j, "describe") ELSE UNCHANGED <<pc, job>>
    /\ UNCHANGED <<servers, loc, sent, promise>>

DownloadDescribe(c) ==
    /\ pc[c] = "describe"
    /\ FileRequest(L(c), F(c), FALSE)
    /\ loc' = [loc EXCEPT ![c].fd = FileReply(L(c), F(c), FALSE)]
    /\ Goto(c, "read")
    /\ UNCHANGED <<job, calls, sent, promise>>

\* The end of the loop over fd->blocks.
Finished(c) == loc[c].i > Len(loc[c].fd.blocks)

\* BLOCK_REQUEST at GET_INDEX(hash_keys[i]), written to the local file.
ReadBlock(b) == ReadCells(disk[b.key], b.primary, b.offset, b.size)
NoAnswer(b)  == Unanswered(disk[b.key], b.primary, b.offset, b.size)
NextBlock(c) == loc[c].fd.blocks[loc[c].i]
DownloadBlock(c) ==
    /\ pc[c] = "read" /\ ~Finished(c)
    /\ ~NoAnswer(NextBlock(c))
    /\ loc' = [loc EXCEPT ![c].i = @ + 1,
                          ![c].got = @ \o ReadBlock(NextBlock(c))]
    /\ UNCHANGED <<servers, pc, job, calls, sent, promise>>

\* Nothing comes back: read_reply throws, and nobody catches it.
DownloadDies(c) ==
    /\ pc[c] = "read" /\ ~Finished(c)
    /\ NoAnswer(NextBlock(c))
    /\ Dies(c)
    /\ UNCHANGED <<servers, job, calls, sent, promise>>

DownloadReturn(c) ==
    /\ pc[c] = "read" /\ Finished(c)
    /\ Return(c)
    /\ UNCHANGED <<servers, calls, sent, promise>>
-----------------------------------------------------------------------------
(* rm (remove).                                                            *)
RemoveDescribe(c, j) ==
    /\ j.op = "rm" /\ Calls(c, j)
    /\ FileRequest(Home[j.file], j.file, FALSE)
    /\ loc' = [loc EXCEPT ![c].fd = FileReply(Home[j.file], j.file, FALSE)]
    /\ Enter(c, j, "delete")
    /\ promise' = [promise EXCEPT ![j.file] = NoOne]
    /\ UNCHANGED sent

\* Seeded fault: the chunk's own name is sent in place of its primary file's.
RemoveBlockOfChunk(c) ==
    /\ pc[c] = "delete" /\ ~Finished(c)
    /\ HandleBlock(NextBlock(c).key, Message("DELETE", NextBlock(c).chunk, 0, <<>>))
    /\ loc' = [loc EXCEPT ![c].i = @ + 1]
    /\ UNCHANGED <<db, cache, pc, job, calls, sent, promise>>

\* One BLOCK_DELETE for each chunk, so several for one primary file.
RemoveBlock(c) ==
    /\ pc[c] = "delete" /\ ~Finished(c)
    /\ HandleBlock(NextBlock(c).key, Message("DELETE", NextBlock(c).primary, 0, <<>>))
    /\ loc' = [loc EXCEPT ![c].i = @ + 1]
    /\ UNCHANGED <<db, cache, pc, job, calls, sent, promise>>

\* FileDel; the leader refuses when the file does not exist (any more).
RemoveFile(c) ==
    /\ pc[c] = "delete" /\ Finished(c)
    /\ \/ FileDelete(L(c), F(c)) /\ promise' = [promise EXCEPT ![F(c)] = Gone]
       \/ ~FileTableExists(db[L(c)], F(c)) /\ UNCHANGED <<servers, promise>>
    /\ Return(c)
    /\ UNCHANGED <<calls, sent>>
-----------------------------------------------------------------------------
\* A job asks for its arrangement (get_metadata_optimized, GENERATE).
Arrange(c, j) ==
    /\ j.op = "arrange" /\ Calls(c, j)
    /\ FileRequest(Home[j.file], j.file, TRUE)
    /\ UNCHANGED <<pc, job, loc, sent, promise>>

\* format: a FormatRequest to one node after the other.
FormatBegin(c, j) ==
    /\ j.op = "format" /\ Calls(c, j)
    /\ Enter(c, j, "format")
    /\ promise' = [f \in File |-> NoOne]
    /\ UNCHANGED <<servers, loc, sent>>

FormatNode(c) ==
    /\ pc[c] = "format" /\ loc[c].i <= N
    /\ Format(loc[c].i - 1)
    /\ loc' = [loc EXCEPT ![c].i = @ + 1]
    /\ UNCHANGED <<pc, job, calls, sent, promise>>

FormatReturn(c) ==
    /\ pc[c] = "format" /\ loc[c].i > N
    /\ Return(c)
    /\ promise' = [f \in File |-> Gone]
    /\ UNCHANGED <<servers, calls, sent>>
-----------------------------------------------------------------------------
\* A client dies; of its messages under way any may still arrive.
Crash(c) ==
    /\ pc[c] \notin {"idle", "crashed"}
    /\ Cardinality({d \in Client : pc[d] = "crashed"}) < MaxCrashes
    /\ \E S \in SUBSET sent[c] : sent' = [sent EXCEPT ![c] = S]
    /\ Dies(c)
    /\ UNCHANGED <<servers, job, calls, promise>>

Replicate ==
    /\ \E m, n \in Node : \E i \in DOMAIN link[<<m, n>>] : ReceiveReplica(m, n, i)
    /\ UNCHANGED <<db, cache, client, promise>>

Init ==
    /\ BlockInit /\ LeaderInit
    /\ pc = [c \in Client |-> "idle"]
    /\ job = [c \in Client |-> NoJob]
    /\ calls = [c \in Client |-> 0]
    /\ loc = [c \in Client |-> NoLocals]
    /\ sent = [c \in Client |-> {}]
    /\ promise = [f \in File |-> Gone]

Call(c, j) == \/ UploadExists(c, j) \/ DownloadExists(c, j) \/ RemoveDescribe(c, j)
              \/ Arrange(c, j) \/ FormatBegin(c, j)
Step(c) ==
    \/ \E j \in Job : Call(c, j)
    \/ UploadInsert(c) \/ WriteFileInsert(c) \/ IdvInsert(c) \/ TouchInsert(c)
    \/ ServeBlock(c)
    \/ UploadConfirm(c) \/ WriteFileConfirm(c) \/ IdvConfirm(c) \/ TouchConfirm(c)
    \/ DownloadDescribe(c) \/ DownloadBlock(c) \/ DownloadDies(c) \/ DownloadReturn(c)
    \/ RemoveBlock(c) \/ RemoveFile(c)
    \/ FormatNode(c) \/ FormatReturn(c)

Next == (\E c \in Client : Step(c) \/ Crash(c)) \/ Replicate
Spec == Init /\ [][Next]_vars
-----------------------------------------------------------------------------
NameOf(f) == {PrimaryName(s, f) : s \in Node} \cup {TouchName(f)}
IdvNames(f) == {IdvName(f, seq) : seq \in UNION {0 .. Chunks[c] - 1 : c \in Client}}
Names == UNION {NameOf(f) \cup IdvNames(f) : f \in File}

\* The type invariant: rows are about known files and nodes, and at most one
\* row has a name; a loop counter stays next to the loop's range.
TypeOK ==
    /\ \A n \in Node :
          /\ DOMAIN disk[n] \subseteq Names \cup {MetaReplica(m) : m \in Node}
          /\ DOMAIN db[n].file \subseteq {f \in File : Home[f] = n}
          /\ \A f \in DOMAIN db[n].file : db[n].file[f].uploading \in {0, 1}
          /\ IsInjective([x \in DOMAIN db[n].block |-> db[n].block[x].name])
          /\ IsInjective([x \in DOMAIN db[n].chunk |-> db[n].chunk[x].name])
          /\ \A x \in DOMAIN db[n].block : db[n].block[x].key \in Node
    /\ \A c \in Client :
          /\ calls[c] \in 0 .. MaxJobs[c]
          /\ pc[c] \in {"idle", "insert", "await", "describe", "read", "delete",
                        "format", "crashed"}
          /\ (pc[c] = "idle") = (job[c] = NoJob)
          /\ pc[c] \in {"read", "delete"} => loc[c].i \in 1 .. Len(loc[c].fd.blocks) + 1
          /\ pc[c] = "await" => DOMAIN loc[c].key \subseteq Node

\* A download that returns has written exactly the chunks that the put that
\* created the file had sent, if that put returned success and no later call
\* on the file has begun.
DownloadedWhole ==
    \A c \in Client : pc[c] = "read" /\ Finished(c) =>
        promise[F(c)] \in {NoOne, Gone, Apart, loc[c].got}

\* A file that a returned rm or format has taken away is not described to
\* anybody, neither from the tables nor from a kept arrangement.
RemovedStaysRemoved ==
    \A f \in File : promise[f] = Gone /\ Quiet(f) =>
        FileReply(Home[f], f, FALSE) = NoDescription

\* An arrangement that the leader hands out again says what the tables say.
CacheFresh ==
    \A n \in Node : \A f \in DOMAIN cache[n] : cache[n][f] = Description(db[n], f)

\* Once nobody works on a file that the leader has no row of, no node has kept a
\* primary file of it: rm deletes one for each chunk of the description, however
\* the chunks lie in them, and none arrives later.
NoPrimaryLeft ==
    \A f \in File : Quiet(f) /\ f \notin DOMAIN db[Home[f]].file =>
        \A n \in Node : PrimaryName(n, f) \notin DOMAIN disk[n]

\* Whoever reads a file while others put the same file, or died putting it,
\* gets the chunks of it in their order, none missing and none twice: a file
\* that exists() reports is never in the middle of its first upload.
DownloadedInOrder ==
    \A c \in Client : pc[c] = "read" /\ Finished(c) =>
        \E owner \in [1 .. loc[c].fd.num_block + 1 -> Client] :
            loc[c].got = [x \in DOMAIN owner |-> Cell(owner[x], x - 1)]

\* What reading a file at this moment would give.
Values == {Content(c) : c \in Client} \cup {<<>>}
Reading(blocks) == FoldLeft(LAMBDA data, b : data \o ReadBlock(b), <<>>, blocks)
Whole(contents) == IF contents \in Values THEN contents ELSE Torn
View(f) ==
    With(FileReply(Home[f], f, FALSE), LAMBDA fd :
        IF fd.uploading = 1 THEN NoOne
        ELSE IF \E x \in DOMAIN fd.blocks : NoAnswer(fd.blocks[x]) THEN Torn
        ELSE With(Reading(fd.blocks), Whole))

\* The requests of puts, removals and formats, interleaved with the replication
\* of the blocks, look like single steps on whole files.
Store == INSTANCE FileStore WITH
    Value <- Values, Absent <- NoOne, view <- [f \in File |-> View(f)]
FileStoreSpec == Store!Spec
=============================================================================
