-------------------------------- MODULE Edits --------------------------------
(***************************************************************************)
(* Changing and reading files in place, beside the calls of VeloxFS on     *)
(* whole files: DFS::write, which puts lines behind the end of a file,     *)
(* DFS::read of files that are no job input, with the descriptions a client*)
(* process keeps, and DFS::rename. A write asks for the description, sends *)
(* its pieces over one connection each, waits for the replies and tells the*)
(* file leader last, so that others may come in between.                   *)
(***************************************************************************)
EXTENDS VeloxFS

CONSTANTS BlockSize,  \* filesystem.block, in cells
          At,         \* At[c]: context.id, N on a host that is no node
          Beyond      \* does the promise also hold for writes of several pieces?

ASSUME BlockAssumption  == BlockSize \in Nat \ {0}
ASSUME AtAssumption     == At \in [Client -> 0 .. N]
ASSUME BeyondAssumption == Beyond \in BOOLEAN

VARIABLES
    known,  \* known[c]: file_description_cache of the process c
    own,    \* own[c][f]: the size that c's last returned write of f has set
    snap    \* snap[c]: what c's download under way should deliver

editing == <<known, own, snap>>
allVars == <<vars, editing>>
-----------------------------------------------------------------------------
(* The pieces of a write. Job j has the length j.len of its buffer and the *)
(* set j.ends of the positions where a line ends.                          *)

\* parsing_input: how many cells to leave for the next chunk, so that this one
\* of len cells after from ends with a line, or keeps one cell only. Where even
\* that cell ends no line the code reads on in front of it; the jobs of the
\* instance end a line at their first cell.
ParsingInput(j, from, len) ==
    from + len - Max({from + 1} \cup {e \in j.ends : from < e /\ e <= from + len})

LastBlock(fd) == fd.blocks[fd.num_block]
\* Seeded fault: the size of the last chunk is not taken into account.
ExtensionOfWholeBlock(fd, j) ==
    LET len == Min({BlockSize, j.len})
    IN  IF len <= 0 THEN 0 ELSE len - ParsingInput(j, 0, len)
\* What is left of the last chunk's block is filled first.
Extension(fd, j) ==
    LET len == Min({BlockSize - LastBlock(fd).size, j.len})
    IN  IF len <= 0 THEN 0 ELSE len - ParsingInput(j, 0, len)

\* The lengths of the new chunks for what remains of the buffer after from.
RECURSIVE Pieces(_, _)
Pieces(j, from) ==
    LET rest == j.len - from
        len == IF rest < BlockSize THEN rest ELSE BlockSize - ParsingInput(j, from, BlockSize)
    IN  IF rest = 0 THEN <<>> ELSE <<len>> \o Pieces(j, from + len)

Data(c, j) == [i \in 1 .. j.len |-> <<c, calls[c], i>>]

\* The state of the loop: cells written, the server of the last piece, the rows
\* to send for each server touched, the number of new chunks and primary files,
\* and the messages.
BlockOf(f, b) == BlockRow(b.primary, f, b.primary_seq, b.key, b.key)
ExtendLast(fd, c, j) ==
    LET b == LastBlock(fd)
        len == Extension(fd, j)
    IN  IF len = 0
        THEN [done |-> 0, server |-> b.key, rows |-> <<>>, chunks |-> 0, primaries |-> 0, msgs |-> {}]
        ELSE [done |-> len, server |-> b.key, chunks |-> 0, primaries |-> 0,
              rows |-> b.key :> [block |-> BlockOf(j.file, b),
                  chunks |-> <<ChunkRow(b.chunk, j.file, b.primary, b.seq, b.offset,
                                        b.primary_seq, b.size + len)>>],
              msgs |-> {[to  |-> b.key,
                         msg |-> Message("UPDATE", b.primary, b.offset + b.size,
                                         SubSeq(Data(c, j), 1, len))]}]

\* A new chunk: behind an earlier one when there are at least as many chunks as
\* nodes, else in a primary file of its own on the next server. num_block does
\* not grow in between, and nobody creates the new primary file.
AddChunk(fd, c, j, key, st, len) ==
    LET b == fd.blocks[fd.num_block - fd.num_primary + 1]
        behind == fd.num_block >= N
        server == IF behind
                  THEN fd.blocks[((fd.num_block - fd.num_primary) % N) + 1].key
                  ELSE (st.server + 1) % N
        seq == fd.num_block + st.chunks
        touched == server \in DOMAIN st.rows
        block == IF touched THEN st.rows[server].block
                 ELSE IF behind THEN [BlockOf(j.file, b) EXCEPT !.node = server]
                 ELSE BlockRow(PrimaryName(server, j.file), j.file,
                               fd.num_primary + st.primaries, key[server], server)
        offset == IF behind THEN b.offset + b.size ELSE 0
        chunk == ChunkRow(ChunkName(j.file, seq), j.file,
                          IF behind THEN b.primary ELSE block.name, seq, offset,
                          IF behind THEN b.primary_seq ELSE fd.num_primary + st.primaries, len)
    IN  [done |-> st.done + len, server |-> server, chunks |-> st.chunks + 1,
         primaries |-> st.primaries + (IF behind \/ touched THEN 0 ELSE 1),
         rows |-> (server :> [block |-> block, chunks |->
                      (IF touched THEN st.rows[server].chunks ELSE <<>>) \o <<chunk>>]) @@ st.rows,
         msgs |-> st.msgs \cup {[to  |-> block.key,
                                 msg |-> Message("UPDATE", block.name, offset,
                                           SubSeq(Data(c, j), st.done + 1, st.done + len))]}]

\* An upload counts one chunk too few; with more primary files than chunks the
\* earlier chunk is looked for before the first one, and the process dies.
Overrun(fd, j) == /\ fd.num_block >= N /\ fd.num_primary > fd.num_block
                  /\ Extension(fd, j) < j.len

Plan(fd, c, j, key) ==
    LET first == ExtendLast(fd, c, j)
        lens == IF Overrun(fd, j) THEN <<>> ELSE Pieces(j, first.done)
    IN  FoldLeft(LAMBDA st, len : AddChunk(fd, c, j, key, st, len), first, lens)

\* The rows go by server, from the one whose last chunk comes first.
RowsFrom(plan) ==
    LET LastSeq(s) == Last(plan.rows[s].chunks).seq
        used == DOMAIN plan.rows
        begin == CHOOSE s \in used : \A t \in used \ {s} :
                     LastSeq(s) < LastSeq(t) \/ (LastSeq(s) = LastSeq(t) /\ s < t)
    IN  SetToSortSeq(used, LAMBDA s, t : (s - begin + N) % N < (t - begin + N) % N)
BlockRows(plan) == LET order == RowsFrom(plan)
                   IN  [x \in DOMAIN order |-> plan.rows[order[x]].block]
ChunkRows(plan) == LET order == RowsFrom(plan)
                   IN  FlattenSeq([x \in DOMAIN order |-> plan.rows[order[x]].chunks])
-----------------------------------------------------------------------------
(* write.                                                                  *)

\* The description is asked for anew. Of a file that is missing, or whose
\* num_block is 0, the block before the first one is read: the process dies.
WriteDescribe(c, j) ==
    /\ j.op = "write" /\ Calls(c, j)
    /\ FileRequest(Home[j.file], j.file, FALSE)
    /\ LET fd == FileReply(Home[j.file], j.file, FALSE)
       IN  IF fd.num_block = 0 THEN Enter(c, j, "crashed") /\ UNCHANGED loc
           ELSE Enter(c, j, "write") /\ loc' = [loc EXCEPT ![c].fd = fd]
    /\ UNCHANGED <<sent, promise, known, own>>

\* The writes that work: of a file made by touch, into its last chunk.
InPlace(c) == /\ LastBlock(loc[c].fd).primary = TouchName(F(c))
              /\ Extension(loc[c].fd, job[c]) = job[c].len

WriteSend(c) ==
    /\ pc[c] = "write"
    /\ \E key \in [Node -> Node] :
          /\ \A s \in Node : key[s] \in Key[s]
          /\ LET plan == Plan(loc[c].fd, c, job[c], key)
             IN  /\ loc' = [loc EXCEPT ![c].plan = plan]
                 /\ sent' = [sent EXCEPT ![c] = plan.msgs]
    /\ Goto(c, IF Overrun(loc[c].fd, job[c]) THEN "crashed" ELSE "written")
    /\ promise' = [promise EXCEPT ![F(c)] = IF InPlace(c) \/ Beyond THEN @ ELSE NoOne]
    /\ UNCHANGED <<servers, job, calls, known, own>>

Longer(contents, c) ==
    IF contents \in {NoOne, Gone, Apart} THEN contents ELSE contents \o Data(c, job[c])
Without(f, table) == Restrict(table, DOMAIN table \ {f})

\* Seeded fault: the FileUpdate does not wait for the replies.
WriteUpdateEarly(c) ==
    /\ pc[c] = "written"
    /\ LET fd == loc[c].fd
           plan == loc[c].plan
       IN  FileUpdate(L(c), F(c), [size |-> Max({plan.done, fd.size}),
                                   num_block |-> fd.num_block + plan.chunks,
                                   num_primary |-> fd.num_primary + plan.primaries],
                      BlockRows(plan), ChunkRows(plan))
    /\ promise' = [promise EXCEPT ![F(c)] = Longer(@, c)]
    /\ Return(c)
    /\ UNCHANGED <<calls, sent, known, own>>

\* Seeded fault: the process keeps its description of the file.
WriteUpdateKeepsKnown(c) ==
    /\ pc[c] = "written" /\ sent[c] = {}
    /\ LET fd == loc[c].fd
           plan == loc[c].plan
           counts == [size |-> Max({plan.done + fd.size, fd.size}),
                      num_block |-> fd.num_block + plan.chunks,
                      num_primary |-> fd.num_primary + plan.primaries]
       IN  /\ FileUpdate(L(c), F(c), counts, BlockRows(plan), ChunkRows(plan))
           /\ own' = [own EXCEPT ![c][F(c)] = counts.size]
    /\ promise' = [promise EXCEPT ![F(c)] = Longer(@, c)]
    /\ Return(c)
    /\ UNCHANGED <<calls, sent, known>>

\* All replies are in: the FileUpdate. Callers pass the size they know as the
\* offset, or 0; it only enters the size of the file.
WriteUpdate(c) ==
    /\ pc[c] = "written" /\ sent[c] = {}
    /\ \E off \in {0, loc[c].fd.size} :
          LET fd == loc[c].fd
              plan == loc[c].plan
              counts == [size |-> Max({plan.done + off, fd.size}),
                         num_block |-> fd.num_block + plan.chunks,
                         num_primary |-> fd.num_primary + plan.primaries]
          IN  /\ \/ FileUpdate(L(c), F(c), counts, BlockRows(plan), ChunkRows(plan))
                 \/ ~FileTableExists(db[L(c)], F(c)) /\ UNCHANGED servers
              /\ own' = [own EXCEPT ![c][F(c)] = counts.size]
    /\ known' = [known EXCEPT ![c] = Without(F(c), @)]
    /\ promise' = [promise EXCEPT ![F(c)] = Longer(@, c)]
    /\ Return(c)
    /\ UNCHANGED <<calls, sent>>
-----------------------------------------------------------------------------
(* read. get_file_description: a description once got is used again, until *)
(* the process itself writes the file.                                     *)

\* The input of a job is read by logical blocks, which is not modelled.
ReadBy(fd) == IF fd.is_input THEN "logical" ELSE "blocks"
ReadKnown(c, j) ==
    /\ j.op = "read" /\ Calls(c, j)
    /\ j.file \in DOMAIN known[c]
    /\ loc' = [loc EXCEPT ![c].fd = known[c][j.file]]
    /\ Enter(c, j, ReadBy(known[c][j.file]))
    /\ UNCHANGED <<servers, sent, promise, known, own>>

\* FileExist and FileRequest over one connection, but two requests.
ReadExists(c, j) ==
    /\ j.op = "read" /\ Calls(c, j)
    /\ j.file \notin DOMAIN known[c]
    /\ IF FileTableExists(db[Home[j.file]], j.file)
       THEN Enter(c, j, "look up") ELSE UNCHANGED <<pc, job>>
    /\ UNCHANGED <<servers, loc, sent, promise, known, own>>

ReadDescribe(c) ==
    /\ pc[c] = "look up"
    /\ FileRequest(L(c), F(c), FALSE)
    /\ LET fd == FileReply(L(c), F(c), FALSE)
       IN  /\ loc' = [loc EXCEPT ![c].fd = fd]
           /\ known' = [known EXCEPT ![c] = (F(c) :> fd) @@ @]
    /\ Goto(c, ReadBy(FileReply(L(c), F(c), FALSE)))
    /\ UNCHANGED <<job, calls, sent, promise, own>>

\* read_physical: the blocks of the description that [off, off + len) touches.
SizeUpTo(fd, i) == SumFunction([x \in 1 .. i |-> fd.blocks[x].size])
Begin(fd, off) == LET behind == {i \in DOMAIN fd.blocks : SizeUpTo(fd, i) > off}
                  IN  IF behind = {} THEN 1 ELSE Min(behind)
End(fd, off, len) ==
    Min({Len(fd.blocks)} \cup {i \in DOMAIN fd.blocks : SizeUpTo(fd, i) >= off + len - 1})
Cursor(fd, off, i) == IF i = Begin(fd, off) /\ fd.blocks[i].size > 0
                      THEN off - SizeUpTo(fd, i - 1) ELSE 0
\* A rest below zero wraps around.
Length(fd, j, i, remain) ==
    LET rest == fd.blocks[i].size - Cursor(fd, j.off, i)
    IN  IF rest < 0 THEN remain ELSE Min({rest, remain})

\* Which blocks a process looks for on the disk of its own host: those of the
\* nodes next to it, too, which it has copies of - if its host is a node.
IsLocal(node, id) ==
    node \in {id - 1, id, id + 1} \/ <<node, id>> \in {<<N - 1, 0>>, <<0, N - 1>>}

\* The next block of the loop, unless it is at its end.
Position(c) == Begin(loc[c].fd, job[c].off) + loc[c].i - 1
HasPiece(c) ==
    LET fd == loc[c].fd
        b == fd.blocks[Position(c)]
    IN  /\ job[c].off < fd.size
        /\ Position(c) <= End(fd, job[c].off, job[c].len)
        /\ Len(loc[c].got) < job[c].len
        /\ IsLocal(b.key, At[c]) => At[c] \in Node /\ b.chunk \in DOMAIN disk[At[c]]

\* Off the own disk, or by a BLOCK_REQUEST; either way from a file that has the
\* name of the chunk. A local file that is missing ends the loop.
ReadPiece(c) ==
    /\ pc[c] = "blocks" /\ HasPiece(c)
    /\ LET fd == loc[c].fd
           b == fd.blocks[Position(c)]
           len == Length(fd, job[c], Position(c), job[c].len - Len(loc[c].got))
           cells == ReadCells(disk[IF IsLocal(b.key, At[c]) THEN At[c] ELSE b.key], b.chunk,
                              Cursor(fd, job[c].off, Position(c)), len)
       IN  loc' = [loc EXCEPT ![c].i = @ + 1, ![c].got = @ \o
                      [x \in 1 .. len |-> IF x \in DOMAIN cells THEN cells[x] ELSE Zero]]
    /\ UNCHANGED <<servers, pc, job, calls, sent, promise, known, own>>

ReadReturn(c) ==
    /\ pc[c] = "logical" \/ (pc[c] = "blocks" /\ ~HasPiece(c))
    /\ Return(c)
    /\ UNCHANGED <<servers, calls, sent, promise, known, own>>
-----------------------------------------------------------------------------
(* rename: the row of the new name, and then BlockMetadata metadata[..] =  *)
(* {0}, which constructs a string from a null pointer; the exception ends  *)
(* the process before any block row is sent or the old name is deleted.    *)
RenameDescribe(c, j) ==
    /\ j.op = "rename" /\ Calls(c, j)
    /\ FileRequest(Home[j.file], j.file, FALSE)
    /\ LET fd == FileReply(Home[j.file], j.file, FALSE)
       IN  IF fd.uploading = 1 THEN UNCHANGED <<pc, job, loc>>
           ELSE Enter(c, j, "rename") /\ loc' = [loc EXCEPT ![c].fd = fd]
    /\ UNCHANGED <<sent, promise, known, own>>

\* Seeded fault: the new row is taken for a finished upload.
RenameInsertFinished(c) ==
    /\ pc[c] = "rename"
    /\ FileInsert(Home[job[c].dst], job[c].dst,
                  [FileRow(loc[c].fd.size, loc[c].fd.is_input) EXCEPT !.uploading = 0])
    /\ Dies(c)
    /\ UNCHANGED <<job, calls, sent, promise, known, own>>

RenameInsert(c) ==
    /\ pc[c] = "rename"
    /\ LET fd == loc[c].fd
       IN  FileInsert(Home[job[c].dst], job[c].dst,
                      [FileRow(fd.size, fd.is_input) EXCEPT !.num_block = fd.num_block,
                                                           !.num_primary = fd.num_primary])
    /\ Dies(c)
    /\ UNCHANGED <<job, calls, sent, promise, known, own>>
-----------------------------------------------------------------------------
EditsInit == /\ Init
             /\ known = [c \in Client |-> <<>>]
             /\ own = [c \in Client |-> [f \in File |-> 0]]
             /\ snap = [c \in Client |-> NoOne]

EditStep(c) ==
    \/ \E j \in Job : WriteDescribe(c, j) \/ ReadKnown(c, j) \/ ReadExists(c, j)
                      \/ RenameDescribe(c, j)
    \/ WriteSend(c) \/ WriteUpdate(c)
    \/ ReadDescribe(c) \/ ReadPiece(c) \/ ReadReturn(c)
    \/ RenameInsert(c)

\* A download should deliver what the file holds when it is described; nothing
\* is expected any more once a call begins that takes the contents away.
Observe(c) ==
    IF pc'[c] # "read" THEN NoOne
    ELSE LET held == promise'[job[c].file]
         IN  IF pc[c] = "describe" THEN held ELSE IF held = NoOne THEN NoOne ELSE snap[c]

\* With the row of a file goes what others know of its size.
OwnKept == [c \in Client |-> [f \in File |->
               IF f \in DOMAIN db'[Home[f]].file THEN own[c][f] ELSE 0]]

EditsNext ==
    /\ \/ Next /\ own' = OwnKept /\ UNCHANGED known
       \/ \E c \in Client : EditStep(c)
    /\ snap' = [c \in Client |-> Observe(c)]

EditsSpec == EditsInit /\ [][EditsNext]_allVars
-----------------------------------------------------------------------------
\* The type invariant: that of VeloxFS, with chunk files that nothing removes;
\* descriptions are kept of files only, and chunks fit into blocks.
EditsTypeOK ==
    /\ \A n \in Node :
          /\ DOMAIN disk[n] \subseteq Names \cup {MetaReplica(m) : m \in Node}
          /\ IsInjective([x \in DOMAIN db[n].block |-> db[n].block[x].name])
          /\ \A x \in DOMAIN db[n].chunk : db[n].chunk[x].size \in 0 .. BlockSize
    /\ \A c \in Client : DOMAIN known[c] \subseteq File /\ own[c] \in [File -> Nat]

\* What a returned call has put into a file is stored where the file leader
\* tells others to look for it: on the node of each chunk, and, of chunks that are
\* files of their own, once the replica messages have arrived on that node's
\* neighbours, from which jobs read, too. (A replica of bytes written in place
\* may overtake the replica of the file itself, and is lost then.) Bytes come
\* before their description, also when writers die in between.
Stored(b, n) ==
    \/ b.primary \in DOMAIN disk[n] /\ Len(disk[n][b.primary]) >= b.offset + b.size
    \/ b.chunk \in DOMAIN disk[n] /\ Len(disk[n][b.chunk]) >= b.size
DescribedIsStored ==
    \A f \in File : promise[f] \notin {NoOne, Gone} =>
        With(FileReply(Home[f], f, FALSE), LAMBDA fd :
            \A x \in DOMAIN fd.blocks : \A n \in Node :
                (\/ n = fd.blocks[x].key
                 \/ /\ promise[f] = Apart
                    /\ n \in Range(Neighbours(fd.blocks[x].key))
                    /\ \A e \in DOMAIN link : link[e] = <<>>) => Stored(fd.blocks[x], n))

\* A download delivers what the file held when it was described, neither more nor
\* less, though writes of the same file come in between: the cells a description
\* covers never change until a call begins that takes the contents away. A file
\* that was described as empty is the exception, since a request of no cells is
\* answered with all that the file has got by then.
SnapshotRead ==
    \A c \in Client : pc[c] = "read" /\ Finished(c) =>
        snap[c] \in {NoOne, Gone, Apart, <<>>, loc[c].got}

\* A process that reads a file after it has written it does not use a
\* description from before its write.
OwnWritesSeen ==
    \A c \in Client : pc[c] \in {"blocks", "logical"} /\ loc[c].fd.uploading = 0 =>
        loc[c].fd.size >= own[c][F(c)]
=============================================================================
