----------------------------- MODULE ChunkQueue -----------------------------
(***************************************************************************)
(* The queue of one task in shared memory: a worker thread of the task     *)
(* manager fills slots (produce, produce2, and the end of static_worker,   *)
(* static_worker_by_idv and task_worker), applications empty them          *)
(* (DFS::read_chunk). One process-shared mutex and one condition variable  *)
(* serve both directions. What a thread does under the mutex is one step;  *)
(* waiting for the condition gives the mutex up and ends the step.         *)
(***************************************************************************)
EXTENDS Integers, Sequences, FiniteSets

CONSTANTS Reader,   \* the threads that call read_chunk for this task
          Producer, \* the worker thread
          Num,      \* how many chunks the worker produces
          Size,     \* queue_size: shm_buf_depth * shm_buf_width slots
          W,        \* head and tail are unsigned: integers modulo W
          MayWake,  \* threads whose pthread_cond_wait may return unsignalled
          Empty     \* a slot wiped by its reader

ASSUME ReaderAssumption  == Producer \notin Reader
ASSUME NumAssumption     == Num \in Nat
ASSUME SizeAssumption    == Size \in Nat \ {0}
\* With another size the slot of chunk W would not follow that of chunk W - 1.
ASSUME CounterAssumption == W \in Nat /\ W > Size /\ W % Size = 0
ASSUME WakeAssumption    == MayWake \subseteq {Producer} \cup Reader
ASSUME EmptyAssumption   == Empty \notin Nat

Thread == {Producer} \cup Reader
Slot   == 0 .. Size - 1

VARIABLES
    head, tail, \* the semaphore's counters
    slot,       \* the chunk in each slot, by its number
    ended,      \* the flag in front of the slots
    pc,         \* "run", "asleep" in pthread_cond_wait, "awake" by a signal or
                \* "roused" without one, not yet under the mutex, or "done"
    next,       \* the number of the chunk the worker produces next
    got,        \* got[r]: the chunks reader r was given
    overwritten \* the worker, roused, has filled a slot that nobody had emptied

vars == <<head, tail, slot, ended, pc, next, got, overwritten>>

Used == (tail - head) % W
-----------------------------------------------------------------------------
(* The condition variable.                                                 *)
Asleep == {t \in Thread : pc[t] = "asleep"}

\* pthread_cond_signal wakes one of the sleepers, whichever.
Signalled == IF Asleep = {} THEN {pc} ELSE {[pc EXCEPT ![t] = "awake"] : t \in Asleep}
\* pthread_cond_broadcast wakes all.
Broadcast == [t \in Thread |-> IF t \in Asleep THEN "awake" ELSE pc[t]]

Sleep(t) == /\ pc' = [pc EXCEPT ![t] = "asleep"]
            /\ UNCHANGED <<head, tail, slot, ended, next, got, overwritten>>
\* A wait that returns unsignalled, as POSIX allows. Bound: the worker's no more
\* once it has overwritten a slot.
Wake(t)  == /\ pc[t] = "asleep"
            /\ t = Producer => ~overwritten
            /\ pc' = [pc EXCEPT ![t] = "roused"]
            /\ UNCHANGED <<head, tail, slot, ended, next, got, overwritten>>
-----------------------------------------------------------------------------
(* The worker.                                                             *)
Fill == /\ slot' = [slot EXCEPT ![tail % Size] = next]
        /\ tail' = (tail + 1) % W
        /\ next' = next + 1
        /\ UNCHANGED <<head, ended, got>>

\* Seeded fault: a slot too many.
ProduceIntoFull == /\ pc[Producer] = "run" /\ next <= Num
                   /\ Used <= Size
                   /\ pc' \in Signalled
                   /\ Fill /\ UNCHANGED overwritten
\* produce finds a free slot.
Produce == /\ pc[Producer] = "run" /\ next <= Num
           /\ Used < Size
           /\ pc' \in Signalled
           /\ Fill /\ UNCHANGED overwritten

\* produce finds none and waits.
ProduceWait == /\ pc[Producer] = "run" /\ next <= Num
               /\ Used >= Size
               /\ Sleep(Producer)

\* The wait has returned: without another look the slot is filled, and nobody
\* is signalled.
ProduceAwake == /\ pc[Producer] \in {"awake", "roused"}
                /\ pc' = [pc EXCEPT ![Producer] = "run"]
                /\ overwritten' = (overwritten \/ (pc[Producer] = "roused" /\ Used >= Size))
                /\ Fill

\* Seeded fault: the end is signalled to one reader.
EndSignalsOne == /\ pc[Producer] = "run" /\ next > Num
                 /\ ended' = TRUE
                 /\ \E p \in Signalled : pc' = [p EXCEPT ![Producer] = "done"]
                 /\ UNCHANGED <<head, tail, slot, next, got, overwritten>>
\* After the last chunk.
End == /\ pc[Producer] = "run" /\ next > Num
       /\ ended' = TRUE
       /\ pc' = [Broadcast EXCEPT ![Producer] = "done"]
       /\ UNCHANGED <<head, tail, slot, next, got, overwritten>>

ProducerStep == Produce \/ ProduceWait \/ ProduceAwake \/ End
-----------------------------------------------------------------------------
(* An application: read_chunk until it returns 0.                          *)
Looks(r) == pc[r] \in {"run", "awake", "roused"}

TakeSlot(r) ==
    /\ \E p \in Signalled : pc' = [p EXCEPT ![r] = "run"]
    /\ got' = [got EXCEPT ![r] = Append(@, slot[head % Size])]
    /\ slot' = [slot EXCEPT ![head % Size] = Empty]
    /\ head' = (head + 1) % W
    /\ UNCHANGED <<tail, ended, next, overwritten>>

\* Seeded fault: woken, the reader does not look again.
ReadOnceAwake(r) == Looks(r) /\ (Used # 0 \/ pc[r] # "run") /\ TakeSlot(r)
Read(r) == Looks(r) /\ Used # 0 /\ TakeSlot(r)

ReadWait(r) == /\ Looks(r) /\ Used = 0 /\ ~ended
               /\ Sleep(r)

ReadEnd(r) == /\ Looks(r) /\ Used = 0 /\ ended
              /\ pc' = [pc EXCEPT ![r] = "done"]
              /\ UNCHANGED <<head, tail, slot, ended, next, got, overwritten>>

ReaderStep(r) == Read(r) \/ ReadWait(r) \/ ReadEnd(r)
-----------------------------------------------------------------------------
\* semaphore_create, and memset of the shared memory. Readers begin after it.
Init == /\ head = 0 /\ tail = 0
        /\ slot = [s \in Slot |-> Empty]
        /\ ended = FALSE
        /\ pc = [t \in Thread |-> "run"]
        /\ next = 1
        /\ got = [r \in Reader |-> <<>>]
        /\ overwritten = FALSE

Finished == (\A t \in Thread : pc[t] = "done") /\ UNCHANGED vars

Next == \/ ProducerStep
        \/ \E r \in Reader : ReaderStep(r)
        \/ \E t \in MayWake : Wake(t)
        \/ Finished
Spec == Init /\ [][Next]_vars
\* Both sides are threads that run unless they wait.
FairSpec == Spec /\ WF_vars(ProducerStep) /\ \A r \in Reader : WF_vars(ReaderStep(r))
-----------------------------------------------------------------------------
\* The type invariant; only after an overwriting is a reader given a wiped slot.
TypeOK == /\ head \in 0 .. W - 1 /\ tail \in 0 .. W - 1
          /\ slot \in [Slot -> (1 .. Num) \cup {Empty}]
          /\ ended \in BOOLEAN
          /\ pc \in [Thread -> {"run", "asleep", "awake", "roused", "done"}]
          /\ next \in 1 .. Num + 1
          /\ got \in [Reader -> Seq((1 .. Num) \cup {Empty})]
          /\ overwritten \in BOOLEAN
          /\ overwritten \/ got \in [Reader -> Seq(1 .. Num)]

\* The inductive invariant. Unless a slot has been overwritten, those from head
\* on hold the chunks in their order up to the last one produced, and a worker
\* that was signalled has a free slot.
Ordered == \A i \in 0 .. Used - 1 : slot[(head + i) % Size] = next - Used + i
WorkerReady ==
    /\ pc[Producer] \in {"asleep", "awake", "roused"} => next <= Num
    /\ ended <=> pc[Producer] = "done"
    /\ ended => next = Num + 1
InOrder == /\ Used <= Size /\ Used < next /\ Ordered
           /\ pc[Producer] = "awake" => Used < Size
IInv == TypeOK /\ WorkerReady /\ (overwritten \/ InOrder)

\* The queue implements ChunkFifo as long as the worker, when its wait returns,
\* has a free slot: no slot is filled before its reader is through with it, none
\* is read before it is filled, and read_chunk returns 0 only after the last
\* chunk. That the wait was ended by a signal is enough, whichever thread each
\* signal wakes, and readers may be roused at any time. A worker that is roused
\* while the queue is full overwrites a chunk; from then on nothing is claimed.
Fifo == INSTANCE ChunkFifo WITH
    fed <- next - 1, taken <- next - 1 - Used,
    told <- {r \in Reader : pc[r] = "done"}
FifoSpec == Fifo!Init /\ [][overwritten' \/ Fifo!Next]_(Fifo!vars)

\* Every reader learns that the task is over: no signal that matters is lost.
Drained == <>(\A r \in Reader : pc[r] = "done")
=============================================================================
