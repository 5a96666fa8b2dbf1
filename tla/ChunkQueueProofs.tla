-------------------------- MODULE ChunkQueueProofs --------------------------
(***************************************************************************)
(* Proofs about ChunkQueue, for any number of readers, slots and chunks.   *)
(***************************************************************************)
EXTENDS ChunkQueue, TLAPS

(* Arithmetic of the counters and slots.                                   *)

\* Division with remainder.
LEMMA Division ==
    ASSUME NEW s \in Nat \ {0}, NEW x \in Int
    PROVE  /\ x \div s \in Int
           /\ x % s \in 0 .. s - 1
           /\ x = (s * (x \div s)) + (x % s)
OBVIOUS

\* A remainder is known once the quotient is.
LEMMA Remainder ==
    ASSUME NEW s \in Nat \ {0}, NEW q \in Int, NEW r \in 0 .. s - 1
    PROVE  ((s * q) + r) % s = r
OBVIOUS

\* No multiple of s but 0 lies between -s and s.
LEMMA SmallMultiple ==
    ASSUME NEW s \in Nat \ {0}, NEW q \in Int, s * q < s, s * q > -s
    PROVE  q = 0
OBVIOUS

\* A counter that wraps keeps its slot, because Size divides W.
LEMMA SlotOfWrapped ==
    ASSUME NEW x \in Nat
    PROVE  (x + W) % Size = x % Size
<1> DEFINE p == W \div Size
           q == x \div Size
           r == x % Size
<1>1. W = Size * p /\ p \in Int
  BY Division, SizeAssumption, CounterAssumption
<1>2. x = (Size * q) + r /\ q \in Int /\ r \in 0 .. Size - 1
  BY Division, SizeAssumption
<1> HIDE DEF p, q, r
<1>3. x + W = (Size * (q + p)) + r
  BY <1>1, <1>2, SizeAssumption
<1>4. ((Size * (q + p)) + r) % Size = r
  BY <1>1, <1>2, Remainder, SizeAssumption
<1> QED BY <1>3, <1>4 DEF r

\* Chunks less than Size apart lie in different slots.
LEMMA DistinctSlots ==
    ASSUME NEW a \in Nat, NEW b \in Nat, a < b, b - a < Size
    PROVE  a % Size # b % Size
<1> SUFFICES ASSUME a % Size = b % Size PROVE FALSE
  OBVIOUS
<1> DEFINE p == a \div Size
           q == b \div Size
           r == a % Size
<1>1. a = (Size * p) + r /\ p \in Int /\ r \in 0 .. Size - 1
  BY Division, SizeAssumption
<1>2. b = (Size * q) + r /\ q \in Int
  BY Division, SizeAssumption
<1> HIDE DEF p, q, r
<1>3. Size * (q - p) = b - a
  BY <1>1, <1>2, SizeAssumption
<1>4. q - p = 0
  BY <1>1, <1>2, <1>3, SmallMultiple, SizeAssumption
<1> QED BY <1>3, <1>4, SizeAssumption

\* The counters of a queue that is not full: one more, one less.
LEMMA Counting ==
    ASSUME head \in 0 .. W - 1, tail \in 0 .. W - 1
    PROVE  /\ Used \in 0 .. W - 1
           /\ tail = head + Used \/ tail + W = head + Used
           /\ Used < W - 1 => (((tail + 1) % W) - head) % W = Used + 1
           /\ Used > 0 => (tail - ((head + 1) % W)) % W = Used - 1
           /\ (head + 1) % W = IF head = W - 1 THEN 0 ELSE head + 1
           /\ (tail + 1) % W \in 0 .. W - 1
BY CounterAssumption DEF Used

\* The slot that the worker fills comes after those of the chunks under way.
LEMMA FreeSlot ==
    ASSUME head \in 0 .. W - 1, tail \in 0 .. W - 1
    PROVE  tail % Size = (head + Used) % Size
BY Counting, SlotOfWrapped
-----------------------------------------------------------------------------
(* The inductive invariant.                                                *)
Places == {"run", "asleep", "awake", "roused", "done"}

\* The threads of a task are the worker and its readers.
LEMMA Threads == /\ Producer \in Thread /\ Reader \subseteq Thread
                 /\ \A r \in Reader : r # Producer
BY ReaderAssumption DEF Thread

\* A signal only turns sleepers into awake threads.
LEMMA Signals ==
    ASSUME pc \in [Thread -> Places],
           NEW p \in Signalled
    PROVE  /\ p \in [Thread -> Places]
           /\ \A t \in Thread : p[t] = pc[t] \/ (pc[t] = "asleep" /\ p[t] = "awake")
BY DEF Signalled, Asleep, Places

\* Filling a slot, free or not, keeps the types.
LEMMA FillTypes ==
    ASSUME TypeOK, next <= Num, Fill
    PROVE  /\ head' = head /\ tail' = (tail + 1) % W /\ tail' \in 0 .. W - 1
           /\ slot' \in [Slot -> (1 .. Num) \cup {Empty}]
           /\ next' = next + 1 /\ next' \in 1 .. Num + 1
           /\ UNCHANGED <<ended, got>>
<1>1. head \in 0 .. W - 1 /\ tail \in 0 .. W - 1 /\ next \in 1 .. Num
  BY NumAssumption DEF TypeOK
<1>2. head' = head /\ tail' = (tail + 1) % W /\ next' = next + 1 /\ UNCHANGED <<ended, got>>
  BY DEF Fill
<1>3. tail' \in 0 .. W - 1
  BY <1>1, <1>2, Counting
<1>4. tail % Size \in Slot
  BY <1>1, Division, SizeAssumption, CounterAssumption DEF Slot
<1>5. slot' \in [Slot -> (1 .. Num) \cup {Empty}]
  BY <1>1, <1>4 DEF Fill, TypeOK
<1> QED BY <1>1, <1>2, <1>3, <1>5, NumAssumption

\* Filling the next slot keeps the chunks in their order.
LEMMA FillKeeps ==
    ASSUME TypeOK, Ordered, Used < Size, next <= Num, Fill
    PROVE  Used' = Used + 1 /\ Ordered'
<1>1. head \in 0 .. W - 1 /\ tail \in 0 .. W - 1 /\ next \in 1 .. Num /\ Used \in 0 .. Size - 1
  BY Counting, NumAssumption, SizeAssumption DEF TypeOK
<1>2. head' = head /\ tail' = (tail + 1) % W /\ next' = next + 1
  BY DEF Fill
<1>3. Used' = Used + 1 /\ tail' \in 0 .. W - 1
  BY <1>1, <1>2, Counting, CounterAssumption, SizeAssumption DEF Used
<1>4. tail % Size \in Slot /\ tail % Size = (head + Used) % Size
  BY <1>1, FreeSlot, Division, SizeAssumption, CounterAssumption DEF Slot
<1>5. slot' = [slot EXCEPT ![tail % Size] = next] /\ slot \in [Slot -> (1 .. Num) \cup {Empty}]
  BY DEF Fill, TypeOK
<1>6. Ordered'
  <2> SUFFICES ASSUME NEW i \in 0 .. Used PROVE slot'[(head + i) % Size] = next - Used + i
    BY <1>1, <1>2, <1>3 DEF Ordered
  <2>1. (head + i) % Size \in Slot
    BY <1>1, Division, SizeAssumption, CounterAssumption DEF Slot
  <2>2. CASE i = Used
    BY <1>1, <1>4, <1>5, <2>1, <2>2, NumAssumption
  <2>3. CASE i < Used
    <3>1. (head + i) % Size # (head + Used) % Size
      <4>1. /\ head + i \in Nat /\ head + Used \in Nat
            /\ head + i < head + Used /\ (head + Used) - (head + i) < Size
        BY <1>1, <2>3, SizeAssumption, CounterAssumption
      <4> QED BY <4>1, DistinctSlots
    <3>2. slot[(head + i) % Size] = next - Used + i
      <4>1. i \in 0 .. Used - 1
        BY <1>1, <2>3, SizeAssumption
      <4> QED BY <4>1 DEF Ordered
    <3> QED BY <1>4, <1>5, <2>1, <3>1, <3>2
  <2> QED BY <1>1, <2>2, <2>3, SizeAssumption
<1> QED BY <1>3, <1>6

\* Taking a slot, ready or not, keeps the types.
LEMMA TakeTypes ==
    ASSUME TypeOK, NEW r \in Reader, Read(r)
    PROVE  /\ head' = (head + 1) % W /\ head' \in 0 .. W - 1
           /\ UNCHANGED <<tail, next, ended, overwritten>>
           /\ slot' \in [Slot -> (1 .. Num) \cup {Empty}]
           /\ got' = [got EXCEPT ![r] = Append(@, slot[head % Size])]
           /\ got' \in [Reader -> Seq((1 .. Num) \cup {Empty})]
<1>1. head \in 0 .. W - 1 /\ tail \in 0 .. W - 1
  BY DEF TypeOK
<1>2. head' = (head + 1) % W /\ UNCHANGED <<tail, next, ended, overwritten>>
  BY DEF Read, TakeSlot
<1>3. head' \in 0 .. W - 1
  BY <1>1, <1>2, Counting, CounterAssumption
<1>4. head % Size \in Slot
  BY <1>1, Division, SizeAssumption, CounterAssumption DEF Slot
<1>5. slot' \in [Slot -> (1 .. Num) \cup {Empty}]
  BY <1>4 DEF Read, TakeSlot, TypeOK
<1>6. got' = [got EXCEPT ![r] = Append(@, slot[head % Size])]
  BY DEF Read, TakeSlot
<1>7. Append(got[r], slot[head % Size]) \in Seq((1 .. Num) \cup {Empty})
  BY <1>4 DEF TypeOK
<1>8. got' \in [Reader -> Seq((1 .. Num) \cup {Empty})]
  BY <1>6, <1>7 DEF TypeOK
<1> QED BY <1>2, <1>3, <1>5, <1>6, <1>8

\* A reader gets the oldest chunk under way, and leaves the others in order.
LEMMA TakeKeeps ==
    ASSUME IInv, ~overwritten, NEW r \in Reader, Read(r)
    PROVE  /\ slot[head % Size] = next - Used /\ slot[head % Size] \in 1 .. Num
           /\ got' \in [Reader -> Seq(1 .. Num)]
           /\ Used \in 1 .. Size /\ Used' = Used - 1
           /\ Ordered'
<1>1. /\ head \in 0 .. W - 1 /\ tail \in 0 .. W - 1 /\ next \in 1 .. Num + 1
      /\ Used \in 1 .. Size /\ Used < next
  BY Counting, SizeAssumption, CounterAssumption DEF IInv, InOrder, TypeOK, Read
<1>2. head' = (head + 1) % W /\ tail' = tail /\ next' = next
  BY DEF Read, TakeSlot
<1>3. Used' = Used - 1
  BY <1>1, <1>2, Counting, SizeAssumption DEF Used
<1>4. head' \in 0 .. W - 1 /\ (head' = head + 1 \/ (head' = 0 /\ head + 1 = W))
  BY <1>1, <1>2, Counting, CounterAssumption
<1>5. head % Size \in Slot
  BY <1>1, Division, SizeAssumption, CounterAssumption DEF Slot
<1>6. slot[head % Size] = next - Used
  <2>1. 0 \in 0 .. Used - 1 /\ head + 0 = head /\ next - Used + 0 = next - Used
    BY <1>1, CounterAssumption, SizeAssumption, NumAssumption
  <2> QED BY <2>1 DEF IInv, InOrder, Ordered
<1>7. slot[head % Size] \in 1 .. Num
  BY <1>1, <1>6, NumAssumption, SizeAssumption
<1>8. /\ slot' = [slot EXCEPT ![head % Size] = Empty]
      /\ slot \in [Slot -> (1 .. Num) \cup {Empty}]
      /\ got' = [got EXCEPT ![r] = Append(@, slot[head % Size])]
      /\ got \in [Reader -> Seq(1 .. Num)]
  BY DEF Read, TakeSlot, IInv, TypeOK
<1>9. got' \in [Reader -> Seq(1 .. Num)]
  <2>2. Append(got[r], slot[head % Size]) \in Seq(1 .. Num)
    BY <1>7, <1>8
  <2>3. got' \in [Reader -> Seq(1 .. Num)]
    BY <1>8, <2>2
  <2> QED BY <2>3
<1>10. Ordered'
  <2> SUFFICES ASSUME NEW i \in 0 .. Used - 2
               PROVE  slot'[(head' + i) % Size] = next - (Used - 1) + i
    BY <1>1, <1>2, <1>3, SizeAssumption DEF Ordered
  <2>1. (head' + i) % Size = (head + (i + 1)) % Size
    <3>1. CASE head' = head + 1
      BY <1>1, <3>1, CounterAssumption
    <3>2. CASE head' = 0 /\ head + 1 = W
      <4>1. (i + W) % Size = i % Size
        BY <1>1, SlotOfWrapped, SizeAssumption
      <4>2. head + (i + 1) = i + W /\ head' + i = i
        BY <1>1, <3>2, CounterAssumption
      <4> QED BY <4>1, <4>2
    <3> QED BY <1>4, <3>1, <3>2
  <2>2. (head + (i + 1)) % Size # head % Size /\ (head + (i + 1)) % Size \in Slot
    <3>1. /\ head \in Nat /\ head + (i + 1) \in Nat
          /\ head < head + (i + 1) /\ (head + (i + 1)) - head < Size
      BY <1>1, SizeAssumption, CounterAssumption
    <3>2. (head + (i + 1)) % Size \in Slot
      BY <3>1, Division, SizeAssumption DEF Slot
    <3> QED BY <3>1, <3>2, DistinctSlots
  <2>3. slot[(head + (i + 1)) % Size] = next - Used + (i + 1)
    <3>1. i + 1 \in 0 .. Used - 1
      BY <1>1, SizeAssumption
    <3> QED BY <3>1 DEF IInv, InOrder, Ordered
  <2>4. slot'[(head + (i + 1)) % Size] = slot[(head + (i + 1)) % Size]
    BY <1>8, <2>2
  <2> QED BY <1>1, <2>1, <2>3, <2>4, NumAssumption, SizeAssumption
<1> QED BY <1>1, <1>3, <1>6, <1>7, <1>9, <1>10

\* semaphore_create leaves an empty queue.
LEMMA EmptyAtFirst == Init => Used = 0
<1>1. ((W * 0) + 0) % W = 0 /\ (W * 0) + 0 = 0 /\ 0 - 0 = 0
  BY Remainder, CounterAssumption, SizeAssumption
<1> QED BY <1>1 DEF Init, Used

\* The invariant holds of a queue just created.
LEMMA InitIInv == Init => IInv
<1> SUFFICES ASSUME Init PROVE IInv
  OBVIOUS
<1>1. Used = 0
  BY EmptyAtFirst
<1>2. TypeOK
  <2>1. /\ got \in [Reader -> Seq(1 .. Num)]
        /\ got \in [Reader -> Seq((1 .. Num) \cup {Empty})]
    BY DEF Init
  <2>2. 0 \in 0 .. W - 1 /\ 1 \in 1 .. Num + 1
    BY CounterAssumption, SizeAssumption, NumAssumption
  <2> QED BY <2>1, <2>2 DEF Init, TypeOK
<1>3. Ordered
  BY <1>1 DEF Ordered
<1>4. WorkerReady /\ pc[Producer] = "run"
  BY Threads DEF Init, WorkerReady
<1> QED BY <1>1, <1>2, <1>3, <1>4, SizeAssumption DEF IInv, InOrder, Init

\* A step that moves no chunk keeps the invariant if the worker stays ready and
\* is not signalled.
LEMMA NothingMoved ==
    ASSUME IInv, UNCHANGED <<head, tail, slot, next, got, overwritten>>, ended' \in BOOLEAN,
           pc' \in [Thread -> Places], WorkerReady',
           pc'[Producer] = "awake" => pc[Producer] = "awake"
    PROVE  IInv'
<1>1. Used' = Used
  BY DEF Used
<1>2. TypeOK'
  BY DEF IInv, TypeOK, Places
<1>3. CASE overwritten
  BY <1>2, <1>3 DEF IInv
<1>4. CASE ~overwritten
  <2>1. InOrder
    BY <1>4 DEF IInv
  <2>2. Ordered'
    BY <1>1, <2>1 DEF Ordered, InOrder
  <2> QED BY <1>1, <1>2, <2>1, <2>2 DEF IInv, InOrder
<1> QED BY <1>3, <1>4

\* A step in which the worker fills a slot and goes on keeps the invariant; the
\* order only if the slot is free.
LEMMA Filling ==
    ASSUME IInv, next <= Num, ~ended, Fill, overwritten' \in BOOLEAN,
           pc' \in [Thread -> Places], pc'[Producer] = "run",
           overwritten => overwritten',
           overwritten' \/ Used < Size
    PROVE  IInv'
<1>1. TypeOK /\ WorkerReady
  BY DEF IInv
<1>2. WorkerReady'
  BY FillTypes, <1>1 DEF WorkerReady
<1>3. TypeOK'
  BY <1>1, FillTypes DEF TypeOK, Places
<1>4. CASE overwritten'
  BY <1>2, <1>3, <1>4 DEF IInv
<1>5. CASE ~overwritten'
  <2>1. InOrder /\ Used < Size
    BY <1>5 DEF IInv
  <2>2. Used' = Used + 1 /\ Ordered'
    BY <1>1, <2>1, FillKeeps DEF InOrder
  <2>3. next' = next + 1
    BY <1>1, FillTypes
  <2>4. Used \in 0 .. W - 1 /\ next \in 1 .. Num + 1
    BY <1>1, Counting DEF TypeOK
  <2>5. Used' <= Size /\ Used' < next'
    BY <2>1, <2>2, <2>3, <2>4, NumAssumption, CounterAssumption, SizeAssumption DEF InOrder
  <2> QED BY <1>2, <1>3, <2>2, <2>5 DEF IInv, InOrder
<1> QED BY <1>4, <1>5

\* The worker keeps the invariant: produce with and without waiting, the end.
LEMMA ProducerKeeps == IInv /\ ProducerStep => IInv'
<1> SUFFICES ASSUME IInv, ProducerStep PROVE IInv'
  OBVIOUS
<1>1. TypeOK /\ WorkerReady /\ (overwritten \/ InOrder)
  BY DEF IInv
<1>2. next \in 1 .. Num + 1 /\ overwritten \in BOOLEAN /\ pc \in [Thread -> Places]
  BY <1>1 DEF TypeOK, Places
<1>3. CASE Produce
  <2>1. next <= Num /\ Used < Size /\ ~ended /\ Fill /\ overwritten' = overwritten
    BY <1>1, <1>3 DEF Produce, WorkerReady
  <2>2. pc' \in [Thread -> Places] /\ pc'[Producer] = "run"
    BY <1>2, <1>3, Signals, Threads DEF Produce
  <2> QED BY <1>2, <2>1, <2>2, Filling
<1>4. CASE ProduceWait
  <2>1. pc' = [pc EXCEPT ![Producer] = "asleep"] /\ ended' = ended /\ next' = next /\ next <= Num
        /\ pc[Producer] = "run" /\ UNCHANGED <<head, tail, slot, got, overwritten>>
    BY <1>4 DEF ProduceWait, Sleep
  <2>2. pc' \in [Thread -> Places] /\ pc'[Producer] = "asleep"
    BY <1>2, <2>1, Threads DEF Places
  <2>3. WorkerReady'
    BY <1>1, <2>1, <2>2 DEF WorkerReady
  <2> QED BY <1>1, <2>1, <2>2, <2>3, NothingMoved DEF TypeOK
<1>5. CASE ProduceAwake
  <2>1. next <= Num /\ ~ended /\ Fill
    BY <1>1, <1>5 DEF ProduceAwake, WorkerReady
  <2>2. pc' \in [Thread -> Places] /\ pc'[Producer] = "run"
    BY <1>2, <1>5, Threads DEF ProduceAwake, Places
  <2>3. overwritten' = (overwritten \/ (pc[Producer] = "roused" /\ Used >= Size))
    BY <1>5 DEF ProduceAwake
  <2>4. overwritten' \in BOOLEAN /\ (overwritten => overwritten')
    BY <2>3, Zenon
  <2>5. Used \in 0 .. W - 1
    BY <1>1, Counting DEF TypeOK
  <2>6. Used < Size \/ Used >= Size
    BY <2>5, SizeAssumption, CounterAssumption
  <2>7. pc[Producer] \in {"awake", "roused"}
    BY <1>5 DEF ProduceAwake
  <2>8. overwritten' \/ Used < Size
    <3>1. CASE pc[Producer] = "awake"
      BY <1>1, <2>3, <3>1, Zenon DEF InOrder
    <3>2. CASE pc[Producer] = "roused"
      BY <2>3, <2>6, <3>2, Zenon
    <3> QED BY <2>7, <3>1, <3>2
  <2> QED BY <2>1, <2>2, <2>4, <2>8, Filling
<1>6. CASE End
  <2>1. /\ pc' \in [Thread -> Places] /\ pc'[Producer] = "done"
        /\ ended' = TRUE /\ UNCHANGED <<head, tail, slot, next, got, overwritten>>
    BY <1>2, <1>6, Threads DEF End, Broadcast, Places
  <2>2. next = Num + 1
    BY <1>2, <1>6, NumAssumption DEF End
  <2>3. WorkerReady'
    BY <2>1, <2>2 DEF WorkerReady
  <2> QED BY <2>1, <2>3, NothingMoved
<1> QED BY <1>3, <1>4, <1>5, <1>6 DEF ProducerStep

\* A reader keeps the invariant: read_chunk, its waiting and its return of 0.
LEMMA ReaderKeeps == ASSUME IInv, NEW r \in Reader, ReaderStep(r) PROVE IInv'
<1>1. TypeOK /\ WorkerReady /\ (overwritten \/ InOrder)
  BY DEF IInv
<1>2. pc \in [Thread -> Places]
  BY <1>1 DEF TypeOK, Places
<1>3. CASE Read(r)
  <2>1. PICK p \in Signalled : pc' = [p EXCEPT ![r] = "run"]
    BY <1>3 DEF Read, TakeSlot
  <2>2. /\ p \in [Thread -> Places]
        /\ p[Producer] = pc[Producer] \/ (pc[Producer] = "asleep" /\ p[Producer] = "awake")
    BY <1>2, <2>1, Signals, Threads
  <2>3. /\ pc' \in [Thread -> Places]
        /\ pc'[Producer] = pc[Producer] \/ (pc[Producer] = "asleep" /\ pc'[Producer] = "awake")
    BY <2>1, <2>2, Threads DEF Places
  <2>4. next' = next /\ ended' = ended /\ tail' = tail /\ overwritten' = overwritten
    BY <1>3 DEF Read, TakeSlot
  <2>5. WorkerReady'
    BY <1>1, <2>3, <2>4 DEF WorkerReady
  <2>6. ~overwritten => got' \in [Reader -> Seq(1 .. Num)]
    BY <1>3, TakeKeeps
  <2>7. TypeOK'
    BY <1>1, <1>3, <2>3, <2>4, <2>6, TakeTypes DEF TypeOK, Places
  <2>8. CASE overwritten
    BY <2>4, <2>5, <2>7, <2>8 DEF IInv
  <2>9. CASE ~overwritten
    <3>1. Used \in 1 .. Size /\ Used' = Used - 1 /\ Ordered'
      BY <1>3, <2>9, TakeKeeps
    <3>2. Used < next /\ next \in 1 .. Num + 1
      BY <1>1, <2>9 DEF InOrder, TypeOK
    <3>3. Used' <= Size /\ Used' < next' /\ Used' < Size
      BY <2>4, <3>1, <3>2, NumAssumption, SizeAssumption
    <3> QED BY <2>5, <2>7, <3>1, <3>3 DEF IInv, InOrder
  <2> QED BY <2>8, <2>9
<1>4. CASE ReadWait(r) \/ ReadEnd(r)
  <2>1. /\ pc' \in [Thread -> Places] /\ pc'[Producer] = pc[Producer]
        /\ UNCHANGED <<head, tail, slot, ended, next, got, overwritten>>
    BY <1>2, <1>4, Threads DEF ReadWait, ReadEnd, Sleep, Places
  <2>2. WorkerReady'
    BY <1>1, <2>1 DEF WorkerReady
  <2> QED BY <1>1, <2>1, <2>2, NothingMoved DEF TypeOK
<1> QED BY <1>3, <1>4 DEF ReaderStep

\* A wait that returns unsignalled keeps it, the worker's too: what it will do
\* to a full queue is told when it fills the slot.
LEMMA WakeKeeps == ASSUME IInv, NEW t \in MayWake, Wake(t) PROVE IInv'
<1>1. TypeOK /\ WorkerReady
  BY DEF IInv
<1>2. t \in Thread
  BY WakeAssumption DEF Thread
<1>3. /\ pc' = [pc EXCEPT ![t] = "roused"] /\ pc[t] = "asleep"
      /\ UNCHANGED <<head, tail, slot, ended, next, got, overwritten>>
  BY DEF Wake
<1>4. pc' \in [Thread -> Places]
  BY <1>1, <1>3 DEF TypeOK, Places
<1>5. pc'[Producer] = pc[Producer] \/ (pc[Producer] = "asleep" /\ pc'[Producer] = "roused")
  BY <1>1, <1>2, <1>3, Threads DEF TypeOK
<1>6. WorkerReady'
  BY <1>1, <1>3, <1>5 DEF WorkerReady
<1> QED BY <1>1, <1>3, <1>4, <1>5, <1>6, NothingMoved DEF TypeOK

\* So does a step that leaves the queue alone.
LEMMA StutterKeeps == ASSUME IInv, UNCHANGED vars PROVE IInv'
BY DEF IInv, InOrder, TypeOK, Ordered, WorkerReady, Used, vars

\* The strengthened invariant of the queue: unless the worker was roused without
\* a signal and has overwritten a slot, what lies between the counters are the
\* chunks not yet read, in order (produce and read_chunk).
THEOREM Invariance == Spec => []IInv
<1>1. IInv /\ [Next]_vars => IInv'
  BY ProducerKeeps, ReaderKeeps, WakeKeeps, StutterKeeps DEF Next, Finished
<1> QED BY InitIInv, <1>1, PTL DEF Spec

\* Type correctness; in particular only after such an overwriting is a reader
\* given a wiped slot.
THEOREM TypeCorrect == Spec => []TypeOK
<1>1. IInv => TypeOK
  BY DEF IInv
<1> QED BY <1>1, Invariance, PTL
-----------------------------------------------------------------------------
(* The refinement of ChunkFifo.                                            *)
LEMMA InitFifo == Init => Fifo!Init
<1> SUFFICES ASSUME Init PROVE Fifo!Init
  OBVIOUS
<1>1. Used = 0 /\ next - 1 = 0
  BY EmptyAtFirst DEF Init
<1>2. {r \in Reader : pc[r] = "done"} = {}
  BY Threads DEF Init
<1> QED BY <1>1, <1>2 DEF Init, Fifo!Init

\* Waking and falling asleep are not seen.
LEMMA UnseenFifo ==
    ASSUME UNCHANGED <<head, tail, next, got>>,
           \A r \in Reader : pc'[r] = "done" <=> pc[r] = "done"
    PROVE  UNCHANGED Fifo!vars
BY DEF Used, Fifo!vars

\* A step of the worker that overwrites nothing puts one chunk in, or is not seen
\* from outside.
LEMMA ProducerFifo ==
    ASSUME IInv, ProducerStep, ~overwritten, ~overwritten' PROVE [Fifo!Next]_(Fifo!vars)
<1>1. TypeOK /\ WorkerReady /\ InOrder /\ Used <= Size /\ Used < next
  BY DEF IInv, InOrder
<1>2. Used \in 0 .. Size /\ next \in 1 .. Num + 1
  BY <1>1, Counting, SizeAssumption, CounterAssumption DEF TypeOK
<1>3. CASE Produce \/ ProduceAwake
  <2>1. next <= Num /\ Used < Size /\ ~ended /\ Fill
    <3>1. CASE Produce
      BY <1>1, <3>1 DEF Produce, WorkerReady
    <3>2. CASE ProduceAwake
      <4>1. next <= Num /\ ~ended /\ Fill /\ pc[Producer] \in {"awake", "roused"}
        BY <1>1, <3>2 DEF ProduceAwake, WorkerReady
      <4>2. ~(pc[Producer] = "roused" /\ Used >= Size)
        BY <3>2 DEF ProduceAwake
      <4>3. Used < Size \/ Used >= Size
        BY <1>2, SizeAssumption
      <4> QED BY <1>1, <4>1, <4>2, <4>3 DEF InOrder
    <3> QED BY <1>3, <3>1, <3>2
  <2>2. Used' = Used + 1 /\ next' = next + 1 /\ got' = got
    BY <1>1, <2>1, FillKeeps DEF Fill, InOrder
  <2>3. \A r \in Reader : pc'[r] = "done" <=> pc[r] = "done"
    BY <1>1, <1>3, Signals, Threads DEF Produce, ProduceAwake, TypeOK, Places
  <2>4. Fifo!Feed
    BY <1>2, <2>1, <2>2, <2>3, NumAssumption, SizeAssumption DEF Fifo!Feed
  <2> QED BY <2>4 DEF Fifo!Next
<1>4. CASE ProduceWait \/ End
  <2>1. UNCHANGED <<head, tail, next, got>>
    BY <1>4 DEF ProduceWait, Sleep, End
  <2>2. \A r \in Reader : pc'[r] = "done" <=> pc[r] = "done"
    BY <1>1, <1>4, Threads DEF ProduceWait, Sleep, End, Broadcast, Asleep, TypeOK
  <2> QED BY <2>1, <2>2, UnseenFifo
<1> QED BY <1>3, <1>4 DEF ProducerStep

\* A step of a reader takes the next chunk, learns of the end, or is not seen.
LEMMA ReaderFifo ==
    ASSUME IInv, ~overwritten, NEW r \in Reader, ReaderStep(r) PROVE [Fifo!Next]_(Fifo!vars)
<1>1. TypeOK /\ WorkerReady /\ Used <= Size /\ Used < next
  BY DEF IInv, InOrder
<1>2. Used \in 0 .. Size /\ next \in 1 .. Num + 1
  BY <1>1, Counting, SizeAssumption, CounterAssumption DEF TypeOK
<1>3. CASE Read(r)
  <2>1. /\ slot[head % Size] = next - Used /\ next' = next
        /\ Used \in 1 .. Size /\ Used' = Used - 1
    BY <1>3, TakeKeeps, TakeTypes, <1>1
  <2>2. got' = [got EXCEPT ![r] = Append(@, slot[head % Size])] /\ pc[r] # "done"
    BY <1>3 DEF Read, TakeSlot, Looks
  <2>3. \A q \in Reader : pc'[q] = "done" <=> pc[q] = "done"
    <3>1. PICK p \in Signalled : pc' = [p EXCEPT ![r] = "run"]
      BY <1>3 DEF Read, TakeSlot
    <3>2. p \in [Thread -> Places] /\ \A t \in Thread : p[t] = pc[t] \/ (pc[t] = "asleep" /\ p[t] = "awake")
      BY <1>1, <3>1, Signals DEF TypeOK, Places
    <3> QED BY <2>2, <3>1, <3>2, Threads
  <2>4. next - Used = (next - 1 - Used) + 1
    BY <1>2, NumAssumption, SizeAssumption
  <2>5. got' = [got EXCEPT ![r] = Append(@, (next - 1 - Used) + 1)]
    BY <2>1, <2>2, <2>4
  <2>6. Fifo!Take(r)
    BY <1>2, <2>1, <2>2, <2>3, <2>5, NumAssumption, SizeAssumption DEF Fifo!Take
  <2> QED BY <2>6 DEF Fifo!Next
<1>4. CASE ReadWait(r)
  <2>1. UNCHANGED <<head, tail, next, got>>
    BY <1>4 DEF ReadWait, Sleep
  <2>2. \A q \in Reader : pc'[q] = "done" <=> pc[q] = "done"
    BY <1>1, <1>4, Threads DEF ReadWait, Sleep, Looks, TypeOK
  <2> QED BY <2>1, <2>2, UnseenFifo
<1>5. CASE ReadEnd(r)
  <2>1. next = Num + 1 /\ Used = 0
    BY <1>1, <1>5 DEF ReadEnd, WorkerReady
  <2>2. UNCHANGED <<next, got, Used>> /\ pc' = [pc EXCEPT ![r] = "done"]
    BY <1>5 DEF ReadEnd, Used
  <2>3. {q \in Reader : pc'[q] = "done"} = {q \in Reader : pc[q] = "done"} \cup {r}
    BY <1>1, <2>2, Threads DEF TypeOK
  <2>4. Fifo!Tell(r)
    BY <2>1, <2>2, <2>3, NumAssumption DEF Fifo!Tell
  <2> QED BY <2>4 DEF Fifo!Next
<1> QED BY <1>3, <1>4, <1>5 DEF ReaderStep

\* As long as the worker is not roused into a full queue, the queue implements
\* ChunkFifo: chunks come out once each and in order, at most Size are under way,
\* and the end is told after the last one, for every number of readers and slots
\* and with waits that return unsignalled on both sides (produce, read_chunk).
THEOREM Implementation == Spec => FifoSpec
<1>1. IInv /\ [Next]_vars => [overwritten' \/ Fifo!Next]_(Fifo!vars)
  <2> SUFFICES ASSUME IInv, [Next]_vars, ~overwritten' PROVE [Fifo!Next]_(Fifo!vars)
    OBVIOUS
  <2>1. ~overwritten
    <3>1. CASE ProducerStep
      BY <3>1 DEF ProducerStep, Produce, ProduceWait, ProduceAwake, End, Sleep
    <3>2. CASE \E r \in Reader : ReaderStep(r)
      BY <3>2 DEF ReaderStep, Read, TakeSlot, ReadWait, ReadEnd, Sleep
    <3>3. CASE (\E t \in MayWake : Wake(t)) \/ UNCHANGED vars
      BY <3>3 DEF Wake, vars
    <3> QED BY <3>1, <3>2, <3>3 DEF Next, Finished
  <2>2. CASE \E t \in MayWake : Wake(t)
    <3>1. PICK t \in MayWake : Wake(t)
      BY <2>2
    <3>2. UNCHANGED <<head, tail, next, got>>
      BY <3>1 DEF Wake
    <3>3. \A r \in Reader : pc'[r] = "done" <=> pc[r] = "done"
      BY <3>1, Threads, WakeAssumption DEF Wake, IInv, TypeOK
    <3> QED BY <3>2, <3>3, UnseenFifo
  <2>3. CASE UNCHANGED vars
    BY <2>3, UnseenFifo DEF vars
  <2> QED BY <2>1, <2>2, <2>3, ProducerFifo, ReaderFifo DEF Next, Finished
<1> QED BY InitFifo, <1>1, Invariance, PTL DEF Spec, FifoSpec
=============================================================================
