------------------------------ MODULE FileLeader ------------------------------
(***************************************************************************)
(* The metadata service of a node (fileleader/file_leader.cc and its       *)
(* router): the SQLite tables, and the arrangements it has computed for the*)
(* jobs and hands out again. One handler is one step: a node serves its    *)
(* connections on one io thread (cache.concurrency, 1 unless configured).  *)
(***************************************************************************)
EXTENDS BlockNode, Directory

CONSTANT File           \* the names of files

VARIABLES
    db,     \* db[n]: path.metadata/metadata.db of node n
    cache   \* cache[n]: current_file_arrangements, in memory

leader == <<db, cache>>

\* The scratch file in which node n keeps the metadata of node m.
MetaReplica(m) == <<"replica", m>>

\* file_insert: the row of a file about to be uploaded. Nothing tells the
\* client whether there was one already.
FileInsert(n, f, row) ==
    /\ db' = [db EXCEPT ![n] = Inserted(@, f, row)]
    /\ UNCHANGED <<cache, disk, link>>

\* file_insert_confirm: always answered "TRUE".
FileInsertConfirm(n, f, num, blockRows, chunkRows) ==
    /\ db' = [db EXCEPT ![n] = Confirmed(@, f, num, blockRows, chunkRows)]
    /\ UNCHANGED <<cache, disk, link>>

Forget(arrangements, f) == Restrict(arrangements, DOMAIN arrangements \ {f})

\* replicate_metadata: the whole db to both neighbours.
ReplicateMetadata(n, tables) ==
    link' = Sent(link, n, Message("INSERT", MetaReplica(n), 0, <<tables>>))

\* file_update of a file that exists, answered "OK"; with another one it fails.
FileUpdate(n, f, counts, blockRows, chunkRows) ==
    /\ FileTableExists(db[n], f)
    /\ db' = [db EXCEPT ![n] = UpdatedDb(@, f, counts, blockRows, chunkRows)]
    /\ cache' = [cache EXCEPT ![n] = Forget(@, f)]
    /\ UNCHANGED <<disk, link>>

\* Seeded fault: the arrangement of the deleted file stays.
FileDeleteKeepsArrangement(n, f) ==
    /\ FileTableExists(db[n], f)
    /\ db' = [db EXCEPT ![n] = Deleted(@, f)]
    /\ ReplicateMetadata(n, Deleted(db[n], f))
    /\ UNCHANGED <<cache, disk>>

\* file_delete, answered "OK"; it fails, and changes nothing, for a file that
\* does not exist or is being uploaded.
FileDelete(n, f) ==
    /\ FileTableExists(db[n], f)
    /\ db' = [db EXCEPT ![n] = Deleted(@, f)]
    /\ ReplicateMetadata(n, Deleted(db[n], f))
    /\ cache' = [cache EXCEPT ![n] = Forget(@, f)]
    /\ UNCHANGED disk

\* What file_request answers: an arrangement unless a new one is asked for.
FileReply(n, f, generate) ==
    IF ~generate /\ f \in DOMAIN cache[n] THEN cache[n][f] ELSE Description(db[n], f)

\* file_request: the arrangement of an input file is kept for later requests.
FileRequest(n, f, generate) ==
    /\ LET fd == FileReply(n, f, generate)
       IN  cache' = IF generate /\ fd.uploading = 0 /\ fd.is_input
                    THEN [cache EXCEPT ![n] = WithRow(@, f, fd)] ELSE cache
    /\ UNCHANGED <<db, disk, link>>

\* Seeded fault: the tables stay.
FormatOnlyDisk(n) == WipeDisk(n) /\ UNCHANGED <<db, cache, link>>

\* format: disk and tables are emptied, the arrangements stay.
Format(n) ==
    /\ WipeDisk(n)
    /\ db' = [db EXCEPT ![n] = EmptyDb]
    /\ UNCHANGED <<cache, link>>

LeaderInit == /\ db = [n \in Node |-> EmptyDb]
              /\ cache = [n \in Node |-> <<>>]
=============================================================================
