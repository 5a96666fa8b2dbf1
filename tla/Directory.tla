------------------------------ MODULE Directory ------------------------------
(***************************************************************************)
(* The SQLite tables of a file leader (fileleader/directory.cc) and the    *)
(* description it computes from them (FileLeader::file_request). A table   *)
(* with a primary key that is only read row by row is a function; the two  *)
(* tables whose row order shows in a description are sequences. Sizes count*)
(* cells, and a hash key is what the program takes from it: the node      *)
(* GET_INDEX maps it to and its remainder modulo NUM_NODES.                *)
(***************************************************************************)
EXTENDS Integers, Sequences, FiniteSets, SequencesExt, Functions, TLC

EmptyDb == [file |-> <<>>, block |-> <<>>, chunk |-> <<>>]

WithRow(table, f, row) == [x \in DOMAIN table \cup {f} |-> IF x = f THEN row ELSE table[x]]

\* file_table_insert: a plain INSERT, which a row with that name defeats.
FileTableInsert(table, f, row) == IF f \in DOMAIN table THEN table ELSE WithRow(table, f, row)

\* file_table_delete.
FileTableDelete(table, f) == Restrict(table, DOMAIN table \ {f})

\* Seeded fault: files being uploaded exist, too.
FileTableExistsUploading(db, f) == f \in DOMAIN db.file
\* file_table_exists: exist_callback negates the column "uploading".
FileTableExists(db, f) == f \in DOMAIN db.file /\ db.file[f].uploading = 0

\* file_table_confirm_upload: the size stays what the first insert said.
FileTableConfirm(table, f, num, primaries) ==
    IF f \in DOMAIN table
    THEN [table EXCEPT ![f].uploading = 0, ![f].num_block = num, ![f].num_primary = primaries]
    ELSE table

\* file_table_update: whether the row is being uploaded or not.
FileTableUpdate(table, f, size, num, primaries) ==
    IF f \in DOMAIN table
    THEN [table EXCEPT ![f].size = size, ![f].num_block = num, ![f].num_primary = primaries]
    ELSE table

\* What a WHERE leaves of a table: the elements that are in S, in their order. A
\* recursive function, because nothing can be proved about SelectSeq.
Only(rows, S) ==
    LET kept[i \in 0 .. Len(rows)] ==
            IF i = 0 THEN <<>>
            ELSE IF rows[i] \in S THEN Append(kept[i - 1], rows[i]) ELSE kept[i - 1]
    IN  kept[Len(rows)]

\* INSERT OR REPLACE with PRIMARY KEY (name): an old row of that name goes, the
\* new one is the last of the table.
NotNamed(rows, name)  == Only(rows, {r \in Range(rows) : r.name # name})
Replace(rows, row) == Append(NotNamed(rows, row.name), row)
InsertAll(rows, new) ==
    LET done[i \in 0 .. Len(new)] == IF i = 0 THEN rows ELSE Replace(done[i - 1], new[i])
    IN  done[Len(new)]

OfFile(rows, f)    == Only(rows, {r \in Range(rows) : r.file = f})
NotOfFile(rows, f) == Only(rows, {r \in Range(rows) : r.file # f})
ChunksOf(rows, primary) == Only(rows, {r \in Range(rows) : r.primary = primary})
-----------------------------------------------------------------------------
(* file_insert, file_insert_confirm, file_update and file_delete on the    *)
(* tables.                                                                 *)
Inserted(db, f, row) == [db EXCEPT !.file = FileTableInsert(@, f, row)]

\* A client counts one primary file for each row it sends.
Confirmed(db, f, num, blockRows, chunkRows) ==
    [file  |-> FileTableConfirm(db.file, f, num, Len(blockRows)),
     block |-> InsertAll(db.block, blockRows),
     chunk |-> InsertAll(db.chunk, chunkRows)]

\* file_update, of [size, num_block, num_primary].
UpdatedDb(db, f, counts, blockRows, chunkRows) ==
    [file  |-> FileTableUpdate(db.file, f, counts.size, counts.num_block, counts.num_primary),
     block |-> InsertAll(db.block, blockRows),
     chunk |-> InsertAll(db.chunk, chunkRows)]

Deleted(db, f) == [file  |-> FileTableDelete(db.file, f),
                   block |-> NotOfFile(db.block, f),
                   chunk |-> NotOfFile(db.chunk, f)]
-----------------------------------------------------------------------------
(* file_request.                                                           *)

\* What a client gets for a file that is missing or still being uploaded.
NoDescription == [uploading |-> 1, is_input |-> FALSE, size |-> 0,
                  num_block |-> 0, num_primary |-> 0, blocks |-> <<>>]

\* Op(x), with x evaluated once.
With(x, Op(_)) == CHOOSE y \in {Op(v) : v \in {x}} : TRUE

\* Seeded fault: the description starts with the first row.
StartIndexOne(rows, lists) == 1
\* chunk_start_idx: the first primary file on the node of the one whose list
\* begins with the file's first chunk (the last such one counts; 0 if none).
StartIndex(rows, lists) ==
    LET first == {p \in DOMAIN rows : lists[p] # <<>> /\ lists[p][1].seq = 0}
    IN  IF first = {} THEN 1
        ELSE Min({p \in DOMAIN rows : rows[p].key = rows[Max(first)].key})

\* EOP counts, over all rounds, the lists found exhausted; the loop ends with
\* the round that makes it reach the number of lists.
Ended(lists, round) ==
    LET passed[p \in 0 .. Len(lists)] ==
            IF p = 0 THEN 0
            ELSE passed[p - 1] + (IF round > Len(lists[p]) THEN round - Len(lists[p]) ELSE 0)
    IN  passed[Len(lists)] >= Len(lists)

\* Round-robin over the primary files from start, one chunk of each per round.
Arranged(rows, lists, start) ==
    LET Entry(p, i) ==
            [chunk |-> lists[p][i].name, primary |-> rows[p].name, key |-> rows[p].key,
             node |-> rows[p].node, offset |-> lists[p][i].offset, seq |-> lists[p][i].seq,
             primary_seq |-> lists[p][i].primary_seq, size |-> lists[p][i].size]
        Turn(p, i) == IF i > Len(lists[p]) \/ Ended(lists, i - 1) THEN <<>> ELSE <<Entry(p, i)>>
        Round(i) == FlattenSeq([j \in DOMAIN rows |->
                                   Turn(((start + j - 2) % Len(rows)) + 1, i)])
    IN  FlattenSeq([i \in 1 .. Max({0} \cup {Len(lists[p]) : p \in DOMAIN lists}) |-> Round(i)])

\* The rows of a file's primary files, and the chunks in each of them.
ListsOf(chunks, rows) == [p \in DOMAIN rows |-> ChunksOf(chunks, rows[p].name)]
ArrangedFrom(rows, lists) ==
    With(StartIndex(rows, lists), LAMBDA start : Arranged(rows, lists, start))
Blocks(rows, chunks) ==
    With(ListsOf(chunks, rows), LAMBDA lists : ArrangedFrom(rows, lists))

\* The code looks at the first chunk of every row. Here a row that has none, as a
\* touch overlapping another upload of the file leaves, is one with an empty list.
Described(db, f) ==
    LET row == db.file[f]
    IN  [uploading |-> 0, is_input |-> row.is_input, size |-> row.size,
         num_block |-> row.num_block, num_primary |-> Len(OfFile(db.block, f)),
         blocks |-> IF row.num_block = 0 THEN <<>>
                    ELSE With(OfFile(db.block, f), LAMBDA rows : Blocks(rows, db.chunk))]

Description(db, f) == IF FileTableExists(db, f) THEN Described(db, f) ELSE NoDescription
=============================================================================
