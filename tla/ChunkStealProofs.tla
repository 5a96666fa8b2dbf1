-------------------------- MODULE ChunkStealProofs --------------------------
(* Proofs about the stealing protocol, for every ring of three or more     *)
(* nodes and every distribution of the chunks over it.                     *)
EXTENDS ChunkSteal, TLAPS

\* The two neighbours are nodes, and they are three different nodes.
LEMMA RingFacts ==
    ASSUME NEW i \in Node
    PROVE  /\ LeftOf(i) \in Node /\ RightOf(i) \in Node
           /\ LeftOf(i) # i /\ RightOf(i) # i /\ LeftOf(i) # RightOf(i)
  BY RingAssumption DEF Node, LeftOf, RightOf

\* A worker reads three different lists, its own one first.
LEMMA TargetFacts ==
    ASSUME NEW i \in Node
    PROVE  /\ \A p \in 1 .. 3 : Target(i, p) \in Node
           /\ \A p, q \in 1 .. 3 : Target(i, p) = Target(i, q) => p = q
           /\ Target(i, 1) = i
           /\ \A p \in 2 .. 3 : Target(i, p) # i
  <1>1. \A p \in 1 .. 3 : p = 1 \/ p = 2 \/ p = 3
    OBVIOUS
  <1>2. \A p \in 2 .. 3 : p = 2 \/ p = 3
    OBVIOUS
  <1> QED
    BY <1>1, <1>2, RingFacts DEF Target

\* The chunks are the pairs of a node and an index into its primary list.
LEMMA ChunkFacts ==
    /\ \A n \in Node : \A j \in 1 .. Num[n] :
          <<n, j>> \in Chunk /\ <<n, j>>[1] = n /\ <<n, j>>[2] = j
    /\ \A c \in Chunk : c[1] \in Node /\ c[2] \in 1 .. Num[c[1]] /\ c = <<c[1], c[2]>>
  BY DEF Chunk

\* The chunk at hand is a chunk.
LEMMA CurrentFacts ==
    ASSUME TypeOK, NEW i \in Node
    PROVE  /\ target(i) \in Node
           /\ HasChunk(i) => Current(i) \in Chunk
  BY TargetFacts, ChunkFacts DEF TypeOK, Current, HasChunk, target

\* While some worker is busy the protocol's invariant holds.
LEMMA BusyFacts ==
    ASSUME IInv, NEW i \in Node, Busy(i)
    PROVE  /\ TypeOK /\ ProtocolInv
           /\ session[i] /\ session[i] = TRUE
           /\ i # NoNode
           /\ phase[i] \in 1 .. 3 /\ k[i] \in Nat
           /\ target(i) \in Node /\ Num[target(i)] \in Nat
           /\ HasChunk(i) => Current(i) \in Chunk /\ k[i] > 0
  <1>1. TypeOK /\ ProtocolInv
    BY DEF IInv, Busy, AllDone
  <1>2. session[i] = TRUE
    BY <1>1 DEF ProtocolInv, Control, Busy, TypeOK
  <1>3. phase[i] \in 1 .. 3 /\ k[i] \in Nat
    BY <1>1 DEF TypeOK
  <1>4. target(i) \in Node /\ Num[target(i)] \in Nat
    BY <1>1, CurrentFacts, NumAssumption
  <1>5. HasChunk(i) => Current(i) \in Chunk /\ k[i] > 0
    BY <1>1, <1>3, <1>4, CurrentFacts DEF HasChunk
  <1> QED
    BY <1>1, <1>2, <1>3, <1>4, <1>5, NoNodeAssumption

\* zoo_create changes one absent znode or none.
LEMMA CreateLockFacts ==
    ASSUME TypeOK, NEW i \in Node, session[i], NEW c \in Chunk,
           NEW val \in {"0", "1"}, CreateLock(i, c, val)
    PROVE  /\ lock' \in [Chunk -> {NoZnode} \cup [val : {"0", "1"}, by : Node]]
           /\ \A d \in Chunk : d # c \/ lock[c] # NoZnode => lock'[d] = lock[d]
           /\ lock[c] = NoZnode => lock'[c] = Znode(val, i)
  <1>1. CASE lock[c] = NoZnode
    <2>1. lock' = [lock EXCEPT ![c] = Znode(val, i)]
      BY <1>1 DEF CreateLock, Absent
    <2>2. Znode(val, i) \in [val : {"0", "1"}, by : Node]
      BY DEF Znode
    <2> QED
      BY <1>1, <2>1, <2>2 DEF TypeOK
  <1>2. CASE lock[c] # NoZnode
    BY <1>2 DEF CreateLock, Absent, TypeOK
  <1> QED
    BY <1>1, <1>2

\* What zoo_create does to an eof znode: it appears, or nothing changes.
LEMMA CreateEofFacts ==
    ASSUME TypeOK, NEW i \in Node, NEW n \in Node, CreateEof(i, n)
    PROVE  /\ eof' \in [Node -> {NoZnode} \cup [val : {"None", "Done"}, by : Node]]
           /\ \A j \in Node : eof'[j].val = "Done" <=> eof[j].val = "Done"
  <1>1. CASE Absent(eof[n]) /\ session[i]
    <2>1. eof' = [eof EXCEPT ![n] = Znode("None", i)]
      BY <1>1 DEF CreateEof
    <2>2. Znode("None", i) \in [val : {"None", "Done"}, by : Node]
      BY DEF Znode
    <2>3. eof[n].val # "Done" /\ Znode("None", i).val # "Done"
      BY <1>1 DEF Absent, NoZnode, Znode
    <2> QED
      BY <2>1, <2>2, <2>3 DEF TypeOK
  <1>2. CASE ~(Absent(eof[n]) /\ session[i])
    BY <1>2 DEF CreateEof, TypeOK
  <1> QED
    BY <1>1, <1>2

\* zoo_set changes the owner's own eof znode or nothing.
LEMMA SetDoneFacts ==
    ASSUME TypeOK, NEW i \in Node, SetDone(i)
    PROVE  /\ eof' \in [Node -> {NoZnode} \cup [val : {"None", "Done"}, by : Node]]
           /\ \A j \in Node : j # i => eof'[j] = eof[j]
           /\ eof[i].val = "Done" => eof'[i].val = "Done"
  <1>1. CASE ~Absent(eof[i]) /\ session[i]
    <2>1. eof' = [eof EXCEPT ![i].val = "Done"]
      BY <1>1 DEF SetDone
    <2>2. eof[i] \in [val : {"None", "Done"}, by : Node]
      BY <1>1 DEF Absent, TypeOK
    <2> QED
      BY <2>1, <2>2 DEF TypeOK
  <1>2. CASE ~(~Absent(eof[i]) /\ session[i])
    BY <1>2 DEF SetDone, TypeOK
  <1> QED
    BY <1>1, <1>2

\* The mark of the last own chunk, or of whatever lies at md[-1].
LEMMA PublishMarkFacts ==
    ASSUME TypeOK, NEW i \in Node, session[i], PublishMark(i)
    PROVE  /\ lock' \in [Chunk -> {NoZnode} \cup [val : {"0", "1"}, by : Node]]
           /\ \A d \in Chunk : \/ lock'[d] = lock[d]
                               \/ lock[d] = NoZnode /\ lock'[d] = Znode("1", i)
           /\ Num[i] > 0 => lock'[<<i, Num[i]>>] # NoZnode
  <1>1. PICK c \in IF Num[i] > 0 THEN {<<i, Num[i]>>} ELSE Chunk \cup {NoChunk} :
           IF c = NoChunk THEN UNCHANGED lock ELSE CreateLock(i, c, "1")
    BY DEF PublishMark
  <1>2. Num[i] \in Nat /\ (Num[i] > 0 => <<i, Num[i]>> \in Chunk)
    BY NumAssumption, ChunkFacts
  <1>3. Znode("1", i) # NoZnode
    BY DEF Znode, NoZnode
  <1>4. CASE c = NoChunk
    <2>1. lock' = lock
      BY <1>1, <1>4
    <2>2. ~(Num[i] > 0)
      BY <1>1, <1>2, <1>4, NoChunkAssumption
    <2> QED
      BY <2>1, <2>2 DEF TypeOK
  <1>5. CASE c # NoChunk
    <2>1. c \in Chunk /\ (Num[i] > 0 => c = <<i, Num[i]>>)
      BY <1>1, <1>2, <1>5
    <2>2. CreateLock(i, c, "1")
      BY <1>1, <1>5
    <2> QED
      BY <1>3, <2>1, <2>2, CreateLockFacts
  <1> QED
    BY <1>4, <1>5

\* No step of a busy worker leaves the types.
LEMMA BusyTypeOK ==
    ASSUME IInv, NEW i \in Node, Busy(i), Step(i)
    PROVE  TypeOK'
  <1> TypeOK /\ ProtocolInv /\ session[i] /\ phase[i] \in 1 .. 3 /\ k[i] \in Nat
      /\ target(i) \in Node /\ (HasChunk(i) => Current(i) \in Chunk /\ k[i] > 0)
    BY BusyFacts
  <1>1. CASE ListEnd(i)
    BY <1>1 DEF ListEnd, zk, Goto, TypeOK, Status
  <1>2. CASE LookForThief(i)
    BY <1>2 DEF LookForThief, zk, Goto, TypeOK, Status
  <1>3. CASE MarkCurrent(i)
    <2>1. HasChunk(i)
      BY <1>3 DEF MarkCurrent, ProtocolInv, Control
    <2>2. lock' \in [Chunk -> {NoZnode} \cup [val : {"0", "1"}, by : Node]]
      BY <1>3, <2>1, CreateLockFacts DEF MarkCurrent
    <2> QED
      BY <1>3, <2>2 DEF MarkCurrent, Goto, TypeOK, Status, Absent
  <1>4. CASE LetThievesIn(i)
    BY <1>4, SetDoneFacts DEF LetThievesIn, Goto, TypeOK, Status
  <1>5. CASE AwaitDone(i)
    BY <1>5 DEF AwaitDone, zk, Goto, TypeOK, Status
  <1>6. CASE TakeLock(i)
    <2>1. HasChunk(i)
      BY <1>6 DEF TakeLock, ProtocolInv, Control
    <2>2. lock' \in [Chunk -> {NoZnode} \cup [val : {"0", "1"}, by : Node]]
      BY <1>6, <2>1, CreateLockFacts DEF TakeLock
    <2> QED
      BY <1>6, <2>2 DEF TakeLock, Goto, TypeOK, Status
  <1>7. CASE ReadLock(i)
    <2>1. HasChunk(i)
      BY <1>7 DEF ReadLock, ProtocolInv, Control
    <2>2. k' \in [Node -> Nat]
      BY <1>7, <2>1 DEF ReadLock, Advance, TypeOK
    <2> QED
      BY <1>7, <2>2 DEF ReadLock, zk, Goto, TypeOK, Status
  <1>8. CASE Produce(i)
    <2>1. HasChunk(i)
      BY <1>8 DEF Produce, ProtocolInv, Control
    <2>2. k' \in [Node -> Nat]
      BY <1>8, <2>1 DEF Produce, Advance, TypeOK
    <2>3. claimed' \in [Chunk -> SUBSET Node]
      BY <1>8, <2>1 DEF Produce, TypeOK
    <2> QED
      BY <1>8, <2>2, <2>3 DEF Produce, zk, Goto, TypeOK, Status
  <1>9. CASE FileEnd(i)
    BY <1>9 DEF FileEnd, zk, Goto, TypeOK, Status
  <1>10. CASE PublishEof(i)
    BY <1>10, CreateEofFacts DEF PublishEof, Goto, TypeOK, Status
  <1>11. CASE PublishMark(i)
    <2>1. lock' \in [Chunk -> {NoZnode} \cup [val : {"0", "1"}, by : Node]]
      BY <1>11, PublishMarkFacts
    <2> QED
      BY <1>11, <2>1 DEF PublishMark, Goto, TypeOK, Status
  <1>12. CASE PublishDone(i)
    BY <1>12, SetDoneFacts DEF PublishDone, Goto, TypeOK, Status
  <1>13. CASE EnterNeighbour(i)
    <2>1. phase[i] + 1 \in 2 .. 3
      BY <1>13 DEF EnterNeighbour, ProtocolInv, Control
    <2>2. Target(i, phase[i] + 1) \in Node /\ EofTarget(i, phase[i] + 1) \in Node
      BY <2>1, TargetFacts, RingFacts DEF EofTarget
    <2>3. Num[Target(i, phase[i] + 1)] \in Nat
      BY <2>2, NumAssumption
    <2>4. eof' \in [Node -> {NoZnode} \cup [val : {"None", "Done"}, by : Node]]
      BY <1>13, <2>2, CreateEofFacts DEF EnterNeighbour
    <2>5. k' \in [Node -> Nat] /\ phase' \in [Node -> 1 .. 3]
      BY <1>13, <2>1, <2>3 DEF EnterNeighbour, TypeOK
    <2> QED
      BY <1>13, <2>4, <2>5 DEF EnterNeighbour, Goto, TypeOK, Status
  <1>14. CASE CloseSession(i)
    BY <1>14 DEF CloseSession, Busy
  <1> QED
    BY <1>1, <1>2, <1>3, <1>4, <1>5, <1>6, <1>7, <1>8, <1>9, <1>10, <1>11,
       <1>12, <1>13, <1>14 DEF Step

\* A step of worker i leaves the other workers alone, keeps every znode of a
\* chunk and every "Done".
LEMMA Frame ==
    ASSUME IInv, NEW i \in Node, Busy(i), Step(i)
    PROVE  /\ session' = session
           /\ \A j \in Node \ {i} :
                 /\ pc'[j] = pc[j] /\ phase'[j] = phase[j] /\ k'[j] = k[j]
                 /\ stealing'[j] = stealing[j] /\ end'[j] = end[j]
           /\ \A c \in Chunk : lock[c] # NoZnode => lock'[c] = lock[c]
           /\ \A n \in Node : eof[n].val = "Done" => eof'[n].val = "Done"
  <1> TypeOK /\ ProtocolInv /\ session[i] /\ phase[i] \in 1 .. 3 /\ k[i] \in Nat
      /\ target(i) \in Node /\ (HasChunk(i) => Current(i) \in Chunk /\ k[i] > 0)
    BY BusyFacts
  <1>1. session' = session
    <2>1. ~CloseSession(i)
      BY DEF Busy, CloseSession
    <2> QED
      BY <2>1 DEF Step, ListEnd, LookForThief, MarkCurrent, LetThievesIn, AwaitDone,
         TakeLock, ReadLock, Produce, FileEnd, PublishEof, PublishMark, PublishDone,
         EnterNeighbour, zk
  <1>2. \A j \in Node \ {i} :
           /\ pc'[j] = pc[j] /\ phase'[j] = phase[j] /\ k'[j] = k[j]
           /\ stealing'[j] = stealing[j] /\ end'[j] = end[j]
    BY DEF Step, ListEnd, LookForThief, MarkCurrent, LetThievesIn, AwaitDone,
       TakeLock, ReadLock, Produce, FileEnd, PublishEof, PublishMark, PublishDone,
       EnterNeighbour, CloseSession, zk, Goto, Advance, TypeOK
  <1>3. \A c \in Chunk : lock[c] # NoZnode => lock'[c] = lock[c]
    <2>1. CASE MarkCurrent(i) \/ TakeLock(i)
      <3>1. HasChunk(i)
        BY <2>1 DEF MarkCurrent, TakeLock, ProtocolInv, Control
      <3> QED
        BY <2>1, <3>1, CreateLockFacts DEF MarkCurrent, TakeLock
    <2>2. CASE PublishMark(i)
      BY <2>2, PublishMarkFacts
    <2>3. CASE UNCHANGED lock
      BY <2>3
    <2>4. ~CloseSession(i)
      BY DEF Busy, CloseSession
    <2> QED
      BY <2>1, <2>2, <2>3, <2>4 DEF Step, ListEnd, LookForThief, LetThievesIn,
         AwaitDone, ReadLock, Produce, FileEnd, PublishEof, PublishDone,
         EnterNeighbour, zk
  <1>4. \A n \in Node : eof[n].val = "Done" => eof'[n].val = "Done"
    <2>1. CASE LetThievesIn(i) \/ PublishDone(i)
      BY <2>1, SetDoneFacts DEF LetThievesIn, PublishDone
    <2>2. CASE PublishEof(i)
      BY <2>2, CreateEofFacts DEF PublishEof
    <2>3. CASE EnterNeighbour(i)
      <3>1. phase[i] + 1 \in 2 .. 3
        BY <2>3 DEF EnterNeighbour, ProtocolInv, Control
      <3>2. EofTarget(i, phase[i] + 1) \in Node
        BY <3>1, TargetFacts, RingFacts DEF EofTarget
      <3> QED
        BY <2>3, <3>2, CreateEofFacts DEF EnterNeighbour
    <2>4. CASE UNCHANGED eof
      BY <2>4
    <2>5. ~CloseSession(i)
      BY DEF Busy, CloseSession
    <2> QED
      BY <2>1, <2>2, <2>3, <2>4, <2>5 DEF Step, ListEnd, LookForThief, MarkCurrent,
         AwaitDone, TakeLock, ReadLock, Produce, FileEnd, PublishMark, zk
  <1> QED
    BY <1>1, <1>2, <1>3, <1>4

\* Every worker stays where the protocol allows it to be.
LEMMA ControlStep ==
    ASSUME IInv, NEW i \in Node, Busy(i), Step(i)
    PROVE  \A j \in Node : Control(j)'
  <1> TypeOK /\ ProtocolInv /\ session[i] /\ phase[i] \in 1 .. 3 /\ k[i] \in Nat
      /\ target(i) \in Node /\ (HasChunk(i) => Current(i) \in Chunk /\ k[i] > 0)
    BY BusyFacts
  <1> TypeOK'
    BY BusyTypeOK
  <1> Control(i)
    BY DEF ProtocolInv
  <1>1. \A j \in Node \ {i} : Control(j)'
    <2> SUFFICES ASSUME NEW j \in Node \ {i} PROVE Control(j)'
      OBVIOUS
    <2>1. Control(j)
      BY DEF ProtocolInv
    <2>2. target(j) \in Node /\ (HasChunk(j) => Current(j) \in Chunk)
      BY CurrentFacts
    <2>3. target(j)' = target(j) /\ (HasChunk(j)' <=> HasChunk(j)) /\ Current(j)' = Current(j)
      BY Frame DEF target, HasChunk, Current, Target
    <2> QED
      BY <2>1, <2>2, <2>3, Frame DEF Control
  <1>2. CASE ListEnd(i)
    BY <1>1, <1>2 DEF ListEnd, zk, Goto, TypeOK, Control
  <1>3. CASE LookForThief(i)
    <2>1. phase[i] = 1
      BY <1>3 DEF LookForThief, Control
    <2>2. HasChunk(i)'
      BY <1>3 DEF LookForThief, HasChunk, target
    <2> QED
      BY <1>1, <1>3, <2>1, <2>2 DEF LookForThief, zk, Goto, TypeOK, Control
  <1>4. CASE MarkCurrent(i)
    <2>1. HasChunk(i)'
      BY <1>4 DEF MarkCurrent, HasChunk, target, Control
    <2> QED
      BY <1>1, <1>4, <2>1 DEF MarkCurrent, Goto, TypeOK, Control
  <1>5. CASE LetThievesIn(i)
    <2>1. HasChunk(i)'
      BY <1>5 DEF LetThievesIn, HasChunk, target, Control
    <2> QED
      BY <1>1, <1>5, <2>1 DEF LetThievesIn, Goto, TypeOK, Control
  <1>6. CASE AwaitDone(i)
    <2>1. HasChunk(i)' /\ target(i)' = target(i)
      BY <1>6 DEF AwaitDone, HasChunk, target
    <2> QED
      BY <1>1, <1>6, <2>1 DEF AwaitDone, zk, Goto, TypeOK, Control
  <1>7. CASE TakeLock(i)
    <2>1. HasChunk(i)' /\ target(i)' = target(i) /\ Current(i)' = Current(i)
      BY <1>7 DEF TakeLock, HasChunk, target, Current, Control
    <2>2. lock[Current(i)] # NoZnode => lock'[Current(i)] # NoZnode
      BY <1>7, Frame DEF TakeLock, Control
    <2> QED
      BY <1>1, <1>7, <2>1, <2>2 DEF TakeLock, Goto, TypeOK, Control, Absent
  <1>8. CASE ReadLock(i)
    <2>1. pc'[i] \in {"produce", "fileEnd", "loop"}
      BY <1>8 DEF ReadLock, Goto, TypeOK
    <2>2. pc'[i] = "produce" => HasChunk(i)'
      BY <1>8 DEF ReadLock, HasChunk, target, Control, Goto, TypeOK
    <2> QED
      BY <1>1, <1>8, <2>1, <2>2 DEF ReadLock, zk, Goto, TypeOK, Control
  <1>9. CASE Produce(i)
    BY <1>1, <1>9 DEF Produce, zk, Goto, TypeOK, Control
  <1>10. CASE FileEnd(i)
    <2>1. phase[i] = 3 => pc'[i] = "done"
      BY <1>10 DEF FileEnd, Exhausted, Goto, TypeOK
    <2> QED
      BY <1>1, <1>10, <2>1 DEF FileEnd, zk, Goto, TypeOK, Control
  <1>11. CASE PublishEof(i)
    BY <1>1, <1>11 DEF PublishEof, Goto, TypeOK, Control
  <1>12. CASE PublishMark(i)
    BY <1>1, <1>12 DEF PublishMark, Goto, TypeOK, Control
  <1>13. CASE PublishDone(i)
    BY <1>1, <1>13 DEF PublishDone, Goto, TypeOK, Control
  <1>14. CASE EnterNeighbour(i)
    BY <1>1, <1>14 DEF EnterNeighbour, Goto, TypeOK, Control
  <1>15. CASE CloseSession(i)
    BY <1>15 DEF CloseSession, Busy
  <1> QED
    BY <1>2, <1>3, <1>4, <1>5, <1>6, <1>7, <1>8, <1>9, <1>10, <1>11, <1>12,
       <1>13, <1>14, <1>15 DEF Step

\* Only TakeLock puts a "0", only on a free chunk of a list that is "Done".
LEMMA NewZero ==
    ASSUME IInv, NEW i \in Node, Busy(i), Step(i), NEW c \in Chunk,
           lock'[c].val = "0", lock[c].val # "0"
    PROVE  /\ TakeLock(i) /\ HasChunk(i) /\ c = Current(i)
           /\ lock[c] = NoZnode /\ lock'[c] = Znode("0", i)
  <1> TypeOK /\ ProtocolInv /\ session[i] /\ phase[i] \in 1 .. 3 /\ k[i] \in Nat
      /\ target(i) \in Node /\ (HasChunk(i) => Current(i) \in Chunk /\ k[i] > 0)
    BY BusyFacts
  <1> TypeOK'
    BY BusyTypeOK
  <1> Control(i)
    BY DEF ProtocolInv
  <1>1. CASE MarkCurrent(i)
    <2>1. HasChunk(i) /\ CreateLock(i, Current(i), "1")
      BY <1>1 DEF MarkCurrent, Control
    <2>2. Znode("1", i).val # "0"
      BY DEF Znode
    <2> QED
      BY <2>1, <2>2, CreateLockFacts
  <1>2. CASE TakeLock(i)
    <2>1. HasChunk(i) /\ CreateLock(i, Current(i), "0")
      BY <1>2 DEF TakeLock, Control
    <2> QED
      BY <1>2, <2>1, CreateLockFacts
  <1>3. CASE PublishMark(i)
    <2>1. Znode("1", i).val # "0"
      BY DEF Znode
    <2> QED
      BY <1>3, <2>1, PublishMarkFacts
  <1>4. CASE UNCHANGED lock
    BY <1>4
  <1>5. ~CloseSession(i)
    BY DEF Busy, CloseSession
  <1> QED
    BY <1>1, <1>2, <1>3, <1>4, <1>5 DEF Step, ListEnd, LookForThief, LetThievesIn,
       AwaitDone, ReadLock, Produce, FileEnd, PublishEof, PublishDone,
       EnterNeighbour, zk

\* Only the owner turns its eof znode to "Done".
LEMMA NewDone ==
    ASSUME IInv, NEW i \in Node, Busy(i), Step(i), NEW n \in Node,
           eof'[n].val = "Done", eof[n].val # "Done"
    PROVE  n = i /\ (LetThievesIn(i) \/ PublishDone(i))
  <1> TypeOK /\ ProtocolInv /\ session[i] /\ phase[i] \in 1 .. 3 /\ k[i] \in Nat
      /\ target(i) \in Node /\ (HasChunk(i) => Current(i) \in Chunk /\ k[i] > 0)
    BY BusyFacts
  <1> TypeOK'
    BY BusyTypeOK
  <1> Control(i)
    BY DEF ProtocolInv
  <1>1. CASE LetThievesIn(i) \/ PublishDone(i)
    BY <1>1, SetDoneFacts DEF LetThievesIn, PublishDone
  <1>2. CASE PublishEof(i)
    BY <1>2, CreateEofFacts DEF PublishEof
  <1>3. CASE EnterNeighbour(i)
    <2>1. phase[i] + 1 \in 2 .. 3
      BY <1>3 DEF EnterNeighbour, Control
    <2>2. EofTarget(i, phase[i] + 1) \in Node
      BY <2>1, TargetFacts, RingFacts DEF EofTarget
    <2> QED
      BY <1>3, <2>2, CreateEofFacts DEF EnterNeighbour
  <1>4. CASE UNCHANGED eof
    BY <1>4
  <1>5. ~CloseSession(i)
    BY DEF Busy, CloseSession
  <1> QED
    BY <1>1, <1>2, <1>3, <1>4, <1>5 DEF Step, ListEnd, LookForThief, MarkCurrent,
       AwaitDone, TakeLock, ReadLock, Produce, FileEnd, PublishMark, zk

\* Only Produce claims a chunk: the one at hand.
LEMMA NewClaim ==
    ASSUME IInv, NEW i \in Node, Busy(i), Step(i), NEW c \in Chunk, NEW j \in Node,
           j \in claimed'[c], j \notin claimed[c]
    PROVE  /\ Produce(i) /\ HasChunk(i) /\ j = i /\ c = Current(i)
           /\ c[1] = target(i) /\ c[2] = k[i]
  <1> TypeOK /\ ProtocolInv /\ session[i] /\ phase[i] \in 1 .. 3 /\ k[i] \in Nat
      /\ target(i) \in Node /\ (HasChunk(i) => Current(i) \in Chunk /\ k[i] > 0)
    BY BusyFacts
  <1> TypeOK'
    BY BusyTypeOK
  <1> Control(i)
    BY DEF ProtocolInv
  <1>1. Produce(i)
    BY DEF Step, ListEnd, LookForThief, MarkCurrent, LetThievesIn, AwaitDone,
       TakeLock, ReadLock, FileEnd, PublishEof, PublishMark, PublishDone,
       EnterNeighbour, CloseSession
  <1>2. HasChunk(i)
    BY <1>1 DEF Produce, Control
  <1>3. j = i /\ c = Current(i)
    BY <1>1, <1>2 DEF Produce, TypeOK
  <1> QED
    BY <1>1, <1>2, <1>3 DEF Current

\* A worker reads its own list in phase 1 only.
LEMMA OwnList ==
    ASSUME IInv, NEW i \in Node, Busy(i)
    PROVE  target(i) = i <=> phase[i] = 1
  <1>1. phase[i] \in 1 .. 3
    BY BusyFacts
  <1>2. phase[i] = 1 \/ phase[i] \in 2 .. 3
    BY <1>1
  <1> QED
    BY <1>2, TargetFacts DEF target

\* What a worker may do to a list that has not been opened: neither "Done" nor
\* a thief's lock appears there before the owner has put its mark.
LEMMA ClosedStep ==
    ASSUME IInv, NEW i \in Node, Busy(i), Step(i), NEW n \in Node, ~Open(n)'
    PROVE  /\ ~Open(n) /\ eof'[n].val # "Done"
           /\ \A j \in 1 .. Num[n] : lock'[<<n, j>>].val # "0"
  <1> TypeOK /\ ProtocolInv /\ session[i] /\ phase[i] \in 1 .. 3 /\ k[i] \in Nat
      /\ target(i) \in Node /\ (HasChunk(i) => Current(i) \in Chunk /\ k[i] > 0)
    BY BusyFacts
  <1> TypeOK'
    BY BusyTypeOK
  <1> Control(i)
    BY DEF ProtocolInv
  <1>1. ~Open(n)
    <2>1. CASE n # i
      BY <2>1, Frame DEF Open
    <2>2. CASE n = i
      BY <2>2 DEF Open, Step, ListEnd, LookForThief, MarkCurrent, LetThievesIn,
         AwaitDone, TakeLock, ReadLock, Produce, FileEnd, PublishEof, PublishMark,
         PublishDone, EnterNeighbour, CloseSession, Goto, TypeOK
    <2> QED
      BY <2>1, <2>2
  <1>2. Owner(n)
    BY DEF ProtocolInv
  <1>3. ASSUME eof'[n].val = "Done" PROVE FALSE
    <2>1. eof[n].val # "Done"
      BY <1>1, <1>2 DEF Owner
    <2>2. n = i /\ (LetThievesIn(i) \/ PublishDone(i))
      BY <1>3, <2>1, NewDone
    <2> QED
      BY <2>2 DEF LetThievesIn, PublishDone, Goto, TypeOK, Open
  <1>4. ASSUME NEW j \in 1 .. Num[n], lock'[<<n, j>>].val = "0" PROVE FALSE
    <2>1. <<n, j>> \in Chunk /\ lock[<<n, j>>].val # "0"
      BY <1>1, <1>2, ChunkFacts DEF Owner
    <2>2. TakeLock(i) /\ <<n, j>> = Current(i)
      BY <1>4, <2>1, NewZero
    <2>3. target(i) = n /\ eof[n].val = "Done"
      BY <2>2 DEF TakeLock, Control, Current
    <2> QED
      BY <1>1, <1>2, <2>3 DEF Owner
  <1> QED
    BY <1>1, <1>3, <1>4

\* A mark stays a mark: thieves stop before it, and behind it the owner only
\* goes on under locks.
LEMMA MarkStays ==
    ASSUME IInv, NEW i \in Node, Busy(i), Step(i), NEW n \in Node, Marked(n),
           NEW m \in 1 .. Num[n], IsMark(n, m)
    PROVE  IsMark(n, m)'
  <1> TypeOK /\ ProtocolInv /\ session[i] /\ phase[i] \in 1 .. 3 /\ k[i] \in Nat
      /\ target(i) \in Node /\ (HasChunk(i) => Current(i) \in Chunk /\ k[i] > 0)
    BY BusyFacts
  <1> TypeOK'
    BY BusyTypeOK
  <1> Control(i)
    BY DEF ProtocolInv
  <1> Num[n] \in Nat /\ m \in Nat
    BY NumAssumption
  <1> DEFINE Z(j) == lock[<<n, j>>]
  <1>1. /\ Z(m).val = "1" /\ Z(m) # NoZnode
        /\ \A j \in 1 .. Num[n] :
              /\ <<n, j>> \in Chunk
              /\ Z(j).val = "0" => j > m
              /\ j > m /\ n \in claimed[<<n, j>>] => Z(j) = Znode("0", n)
    BY ChunkFacts DEF IsMark, NoZnode
  <1>2. Z(m)'.val = "1"
    BY <1>1, Frame
  <1>3. ASSUME NEW j \in 1 .. Num[n], Z(j)'.val = "0" PROVE j > m
    <2>1. CASE Z(j).val = "0"
      BY <1>1, <2>1
    <2>2. CASE Z(j).val # "0"
      <3>1. /\ TakeLock(i) /\ HasChunk(i) /\ <<n, j>> = Current(i) /\ Z(j) = NoZnode
        BY <1>1, <1>3, <2>2, NewZero
      <3>2. target(i) = n /\ k[i] = j /\ pc[i] = "lock"
        BY <3>1 DEF Current, TakeLock
      <3>3. CASE phase[i] = 1
        BY <3>2, <3>3, OwnList DEF Busy, IsMark
      <3>4. CASE phase[i] > 1
        <4>1. \A h \in 1 .. Num[n] : h > j => Z(h).val = "0"
          BY <3>2, <3>4 DEF ProtocolInv, Thief
        <4>2. ~(m > j)
          BY <1>1, <4>1
        <4>3. m # j
          BY <1>1, <3>1
        <4> QED
          BY <4>2, <4>3
      <3> QED
        BY <3>3, <3>4
    <2> QED
      BY <2>1, <2>2
  <1>4. Znode("0", n) # NoZnode
    BY DEF Znode, NoZnode
  <1>5. ASSUME NEW j \in 1 .. Num[n], j > m, n \in claimed'[<<n, j>>]
        PROVE  Z(j)' = Znode("0", n)
    <2>1. CASE n \in claimed[<<n, j>>]
      BY <1>1, <1>4, <1>5, <2>1, Frame
    <2>2. CASE n \notin claimed[<<n, j>>]
      <3>1. Produce(i) /\ n = i /\ <<n, j>> = Current(i)
        BY <1>1, <1>5, <2>2, NewClaim
      <3>2. target(i) = n /\ k[i] = j /\ pc[i] = "produce"
        BY <3>1 DEF Current, Produce
      <3>3. phase[n] = 1
        BY <3>1, <3>2, OwnList
      <3>4. Z(j) = Znode("0", n)
        BY <1>5, <3>1, <3>2, <3>3 DEF IsMark
      <3> QED
        BY <1>1, <1>4, <3>4, Frame
    <2> QED
      BY <2>1, <2>2
  <1>6. CASE n # i
    <2>1. pc'[n] = pc[n] /\ k'[n] = k[n] /\ phase'[n] = phase[n]
      BY <1>6, Frame
    <2>2. pc[n] = "produce" /\ phase[n] = 1 =>
             k[n] = m \/ lock'[<<n, k[n]>>] = Znode("0", n)
      <3> SUFFICES ASSUME pc[n] = "produce", phase[n] = 1,
                          lock[<<n, k[n]>>] = Znode("0", n)
                   PROVE  lock'[<<n, k[n]>>] = Znode("0", n)
        BY DEF IsMark
      <3>1. HasChunk(n) /\ target(n) = n
        BY TargetFacts DEF ProtocolInv, Control, target
      <3>2. <<n, k[n]>> \in Chunk
        BY <3>1, CurrentFacts DEF Current
      <3> QED
        BY <1>4, <3>2, Frame
    <2> QED
      BY <1>2, <1>3, <1>5, <2>1, <2>2 DEF IsMark
  <1>7. CASE n = i
    <2> SUFFICES ASSUME phase'[i] = 1
                 PROVE  /\ pc'[i] = "setDone" => k'[i] = m
                        /\ pc'[i] \in {"loop", "lock", "conflict"} => k'[i] > m
                        /\ pc'[i] = "produce" =>
                              k'[i] = m \/ lock'[<<i, k'[i]>>] = Znode("0", i)
      BY <1>2, <1>3, <1>5, <1>7 DEF IsMark
    <2>1. phase[i] = 1
      BY Frame DEF Step, ListEnd, LookForThief, MarkCurrent, LetThievesIn, AwaitDone,
         TakeLock, ReadLock, Produce, FileEnd, PublishEof, PublishMark, PublishDone,
         EnterNeighbour, CloseSession, TypeOK, Control
    <2>2. target(i) = i /\ Current(i) = <<i, k[i]>>
      BY <2>1, OwnList DEF Current
    <2>3. stealing[i] \/ pc[i] \in {"enter", "setDone", "publishDone"}
      BY <1>7 DEF Marked, Open
    <2>4. /\ pc[i] = "setDone" => k[i] = m
          /\ pc[i] \in {"loop", "lock", "conflict"} => k[i] > m
          /\ pc[i] = "produce" => k[i] = m \/ lock[<<i, k[i]>>] = Znode("0", i)
      BY <1>7, <2>1 DEF IsMark
    <2>5. CASE ListEnd(i)
      BY <2>5 DEF ListEnd, Goto, TypeOK
    <2>6. CASE LookForThief(i)
      BY <2>3, <2>6 DEF LookForThief
    <2>7. CASE MarkCurrent(i)
      BY <2>3, <2>7 DEF MarkCurrent, Control
    <2>8. CASE LetThievesIn(i)
      BY <2>4, <2>8 DEF LetThievesIn, Goto, TypeOK
    <2>9. CASE AwaitDone(i)
      BY <2>4, <2>9 DEF AwaitDone, Goto, TypeOK
    <2>10. CASE TakeLock(i)
      <3>1. HasChunk(i) /\ CreateLock(i, Current(i), "0") /\ k' = k
        BY <2>10 DEF TakeLock, Control
      <3>2. lock[Current(i)] = NoZnode => lock'[Current(i)] = Znode("0", i)
        BY <3>1, CreateLockFacts
      <3> QED
        BY <2>2, <2>4, <2>10, <3>1, <3>2 DEF TakeLock, Goto, TypeOK, Absent
    <2>11. CASE ReadLock(i)
      <3>1. ~Absent(lock[Current(i)])
        BY <2>11 DEF ReadLock, Control, Absent
      <3>2. pc[i] = "conflict" /\ k[i] > m
        BY <2>4, <2>11 DEF ReadLock
      <3>3. CASE session[i] /\ lock[Current(i)].val = "1" /\ Goto(i, "fileEnd")
        BY <3>3 DEF Goto, TypeOK
      <3>4. CASE Advance(i) /\ Goto(i, "loop")
        BY <2>1, <3>2, <3>4 DEF Goto, Advance, TypeOK
      <3> QED
        BY <2>11, <3>1, <3>3, <3>4 DEF ReadLock
    <2>12. CASE Produce(i)
      <3>1. k[i] >= m
        <4>1. HasChunk(i)
          BY <2>12 DEF Produce, Control
        <4>2. CASE lock[<<i, k[i]>>] = Znode("0", i)
          BY <1>1, <1>7, <2>2, <4>1, <4>2 DEF HasChunk, Znode
        <4> QED
          BY <2>4, <2>12, <4>2 DEF Produce
      <3> QED
        BY <2>1, <2>12, <3>1 DEF Produce, Goto, Advance, TypeOK
    <2>13. CASE FileEnd(i) \/ PublishEof(i) \/ PublishMark(i) \/ PublishDone(i)
      BY <2>13 DEF FileEnd, PublishEof, PublishMark, PublishDone, Goto, TypeOK
    <2>14. CASE EnterNeighbour(i)
      BY <2>1, <2>14 DEF EnterNeighbour, TypeOK
    <2>15. CASE CloseSession(i)
      BY <2>15 DEF CloseSession, Busy
    <2> QED
      BY <2>5, <2>6, <2>7, <2>8, <2>9, <2>10, <2>11, <2>12, <2>13, <2>14, <2>15
         DEF Step
  <1> QED
    BY <1>6, <1>7

\* The owner puts its mark on the chunk at hand, or on its last one when it has
\* passed the end of its list without meeting a thief.
LEMMA MarkAppears ==
    ASSUME IInv, NEW i \in Node, Busy(i), Step(i), NEW n \in Node,
           ~Marked(n), Marked(n)', Num[n] > 0
    PROVE  \E m \in 1 .. Num[n] : IsMark(n, m)'
  <1> TypeOK /\ ProtocolInv /\ session[i] /\ phase[i] \in 1 .. 3 /\ k[i] \in Nat
      /\ target(i) \in Node /\ (HasChunk(i) => Current(i) \in Chunk /\ k[i] > 0)
    BY BusyFacts
  <1> TypeOK'
    BY BusyTypeOK
  <1> Control(i)
    BY DEF ProtocolInv
  <1> Num[n] \in Nat
    BY NumAssumption
  <1>1. n = i
    BY Frame DEF Marked, Open
  <1>2. ~stealing[i] /\ phase[i] = 1
    BY <1>1 DEF Marked, Open, Control
  <1>3. \A j \in 1 .. Num[i] : lock[<<i, j>>].val # "0"
    BY <1>1 DEF ProtocolInv, Owner, Marked
  <1>4. MarkCurrent(i) \/ PublishMark(i)
    BY <1>1, <1>2 DEF Marked, Open, Step, ListEnd, LookForThief, LetThievesIn, AwaitDone,
       TakeLock, ReadLock, Produce, FileEnd, PublishEof, PublishDone, EnterNeighbour,
       CloseSession, Goto, TypeOK
  <1>5. \A j \in 1 .. Num[i] : lock'[<<i, j>>].val # "0"
    BY <1>3, <1>4, NewZero, ChunkFacts DEF MarkCurrent, PublishMark, TakeLock
  <1>6. CASE MarkCurrent(i)
    <2>1. HasChunk(i) /\ target(i) = i /\ Current(i) = <<i, k[i]>>
          /\ k[i] \in 1 .. Num[i] /\ <<i, k[i]>> \in Chunk
      BY <1>2, <1>6, OwnList, ChunkFacts DEF MarkCurrent, Control, Current, HasChunk
    <2>2. lock'[<<i, k[i]>>].val = "1"
      <3>1. CreateLock(i, <<i, k[i]>>, "1")
        BY <1>6, <2>1 DEF MarkCurrent
      <3>2. lock'[<<i, k[i]>>] # NoZnode
        <4>1. Znode("1", i) # NoZnode
          BY DEF Znode, NoZnode
        <4> QED
          BY <2>1, <3>1, <4>1, CreateLockFacts
      <3>3. lock'[<<i, k[i]>>].val \in {"0", "1"}
        BY <2>1, <3>2 DEF TypeOK
      <3> QED
        BY <1>5, <2>1, <3>3
    <2>3. \A j \in 1 .. Num[i] : j > k[i] => i \notin claimed'[<<i, j>>]
      <3> SUFFICES ASSUME NEW j \in 1 .. Num[i], j > k[i], i \in claimed[<<i, j>>]
                   PROVE  FALSE
        BY <1>6 DEF MarkCurrent
      <3>1. <<i, j>> \in Chunk /\ <<i, j>>[1] = i /\ <<i, j>>[2] = j
        BY ChunkFacts
      <3>2. Behind(i, <<i, j>>)
        BY <3>1 DEF IInv
      <3> QED
        BY <1>2, <3>1, <3>2 DEF Behind
    <2>4. PICK m \in 1 .. Num[n] : m = k[i]
      BY <1>1, <2>1
    <2>5. IsMark(n, m)'
      BY <1>1, <1>2, <1>5, <1>6, <2>2, <2>3, <2>4 DEF MarkCurrent, IsMark, Goto, TypeOK
    <2> QED
      BY <2>4, <2>5
  <1>7. CASE PublishMark(i)
    <2>1. Num[i] \in 1 .. Num[i] /\ <<i, Num[i]>> \in Chunk
      BY <1>1, ChunkFacts
    <2>2. lock'[<<i, Num[i]>>].val = "1"
      <3>1. lock'[<<i, Num[i]>>] # NoZnode
        BY <1>1, <1>7, PublishMarkFacts
      <3>2. lock'[<<i, Num[i]>>].val \in {"0", "1"}
        BY <2>1, <3>1 DEF TypeOK
      <3> QED
        BY <1>5, <2>1, <3>2
    <2>3. pc'[i] = "publishDone"
      BY <1>7 DEF PublishMark, Goto, TypeOK
    <2>4. \A j \in 1 .. Num[i] : ~(j > Num[i])
      BY <1>1
    <2>5. PICK m \in 1 .. Num[n] : m = Num[i]
      BY <1>1, <2>1
    <2>6. IsMark(n, m)'
      BY <1>1, <1>5, <2>2, <2>3, <2>4, <2>5 DEF IsMark
    <2> QED
      BY <2>5, <2>6
  <1> QED
    BY <1>4, <1>6, <1>7

\* Every step keeps what the owner of a list promises its thieves.
LEMMA OwnerStep ==
    ASSUME IInv, NEW i \in Node, Busy(i), Step(i), NEW n \in Node
    PROVE  Owner(n)'
  <1>1. Owner(n)
    BY BusyFacts DEF ProtocolInv
  <1>2. ASSUME Marked(n)', Num[n] > 0 PROVE \E m \in 1 .. Num[n] : IsMark(n, m)'
    <2>1. CASE Marked(n)
      <3>1. PICK m \in 1 .. Num[n] : IsMark(n, m)
        BY <1>1, <1>2, <2>1 DEF Owner
      <3>2. IsMark(n, m)'
        BY <2>1, <3>1, MarkStays
      <3> QED
        BY <3>2
    <2>2. CASE ~Marked(n)
      BY <1>2, <2>2, MarkAppears
    <2> QED
      BY <2>1, <2>2
  <1> QED
    BY <1>2, ClosedStep DEF Owner

\* Every step keeps a thief's locks behind it without a gap.
LEMMA ThiefStep ==
    ASSUME IInv, NEW i \in Node, Busy(i), Step(i), NEW t \in Node
    PROVE  Thief(t)'
  <1> TypeOK /\ ProtocolInv /\ session[i] /\ phase[i] \in 1 .. 3 /\ k[i] \in Nat
      /\ target(i) \in Node /\ (HasChunk(i) => Current(i) \in Chunk /\ k[i] > 0)
    BY BusyFacts
  <1> TypeOK'
    BY BusyTypeOK
  <1> Control(i)
    BY DEF ProtocolInv
  <1> Thief(t)
    BY DEF ProtocolInv
  <1>1. Znode("0", t) # NoZnode /\ NoZnode.val # "0" /\ Znode("0", t).val = "0"
    BY DEF Znode, NoZnode
  <1>2. \A c \in Chunk : lock[c].val = "0" => lock'[c].val = "0"
    BY <1>1, Frame
  <1>3. CASE t # i
    <2>1. /\ pc'[t] = pc[t] /\ k'[t] = k[t] /\ phase'[t] = phase[t]
          /\ target(t)' = target(t) /\ Current(t)' = Current(t) /\ target(t) \in Node
      <3>1. pc'[t] = pc[t] /\ k'[t] = k[t] /\ phase'[t] = phase[t]
        BY <1>3, Frame
      <3>2. target(t)' = target(t) /\ target(t) \in Node
        BY <3>1, CurrentFacts DEF target
      <3> QED
        BY <3>1, <3>2 DEF Current
    <2>2. pc[t] = "produce" => Current(t) \in Chunk
      BY CurrentFacts DEF ProtocolInv, Control
    <2> QED
      BY <1>1, <1>2, <2>1, <2>2, Frame, ChunkFacts DEF Thief
  <1>4. CASE t = i
    <2> SUFFICES ASSUME phase'[i] > 1
                 PROVE  /\ pc'[i] \in {"loop", "lock", "conflict", "produce"} =>
                              \A j \in 1 .. Num[target(i)'] :
                                  j > k'[i] => lock'[<<target(i)', j>>].val = "0"
                        /\ pc'[i] = "produce" => lock'[Current(i)'] = Znode("0", i)
      BY <1>4 DEF Thief
    <2>1. CASE EnterNeighbour(i)
      <3>1. k'[i] = Num[target(i)'] /\ pc'[i] = "loop" /\ Num[target(i)'] \in Nat
        BY <2>1, CurrentFacts, NumAssumption DEF EnterNeighbour, target, TypeOK, Goto, Target, LeftOf, RightOf
      <3> QED
        BY <3>1
    <2>2. CASE ~EnterNeighbour(i)
      <3>1. phase' = phase
        BY <2>2 DEF Step, ListEnd, LookForThief, MarkCurrent, LetThievesIn, AwaitDone,
           TakeLock, ReadLock, Produce, FileEnd, PublishEof, PublishMark, PublishDone,
           CloseSession
      <3>2. phase[i] > 1 /\ phase[i] # 1 /\ target(i)' = target(i) /\ stealing[i]
        BY <3>1 DEF target, Control
      <3>3. \A j \in 1 .. Num[target(i)] : <<target(i), j>> \in Chunk
        BY ChunkFacts
      <3>4. CASE ListEnd(i) \/ FileEnd(i)
        BY <3>4 DEF ListEnd, FileEnd, Goto, TypeOK
      <3>5. CASE AwaitDone(i)
        BY <1>2, <1>4, <3>2, <3>3, <3>5 DEF AwaitDone, Goto, TypeOK, Thief
      <3>6. CASE TakeLock(i)
        <4>1. HasChunk(i) /\ CreateLock(i, Current(i), "0") /\ k' = k
          BY <3>6 DEF TakeLock, Control
        <4>2. lock[Current(i)] = NoZnode => lock'[Current(i)] = Znode("0", i)
          BY <4>1, CreateLockFacts
        <4>3. Current(i)' = Current(i)
          BY <3>2, <4>1 DEF Current
        <4>4. pc'[i] = "produce" => lock[Current(i)] = NoZnode
          BY <3>6 DEF TakeLock, Goto, TypeOK, Absent
        <4> QED
          BY <1>2, <1>4, <3>2, <3>3, <3>6, <4>1, <4>2, <4>3, <4>4 DEF TakeLock, Thief
      <3>7. CASE ReadLock(i)
        <4>1. ~Absent(lock[Current(i)])
          BY <3>7 DEF ReadLock, Control, Absent
        <4>2. pc[i] = "conflict" /\ lock' = lock
          BY <3>7 DEF ReadLock, zk
        <4>3. CASE session[i] /\ lock[Current(i)].val = "1" /\ Goto(i, "fileEnd")
          BY <4>3 DEF Goto, TypeOK
        <4>4. CASE lock[Current(i)].val = "0" /\ Advance(i) /\ Goto(i, "loop")
          <5>1. k'[i] = k[i] - 1 /\ pc'[i] = "loop"
            BY <3>2, <4>4 DEF Advance, Goto, TypeOK
          <5>2. \A j \in 1 .. Num[target(i)] : j > k[i] => lock[<<target(i), j>>].val = "0"
            BY <1>4, <3>2, <4>2 DEF Thief
          <5>3. lock[<<target(i), k[i]>>].val = "0"
            BY <4>4 DEF Current
          <5>4. \A j \in 1 .. Num[target(i)] : j > k[i] - 1 => j > k[i] \/ j = k[i]
            OBVIOUS
          <5> QED
            BY <3>2, <4>2, <5>1, <5>2, <5>3, <5>4
        <4> QED
          BY <3>7, <4>1, <4>3, <4>4 DEF ReadLock
      <3>8. CASE Produce(i)
        <4>1. k'[i] = k[i] - 1 /\ pc'[i] = "loop" /\ lock' = lock
          BY <3>2, <3>8 DEF Produce, Advance, Goto, TypeOK, zk
        <4>2. \A j \in 1 .. Num[target(i)] : j > k[i] => lock[<<target(i), j>>].val = "0"
          BY <1>4, <3>2, <3>8 DEF Thief, Produce
        <4>3. lock[<<target(i), k[i]>>].val = "0"
          BY <1>1, <1>4, <3>2, <3>8 DEF Current, Thief, Produce
        <4>4. \A j \in 1 .. Num[target(i)] : j > k[i] - 1 => j > k[i] \/ j = k[i]
          OBVIOUS
        <4> QED
          BY <3>2, <4>1, <4>2, <4>3, <4>4
      <3>9. CASE LookForThief(i) \/ MarkCurrent(i) \/ LetThievesIn(i) \/ PublishEof(i)
                 \/ PublishMark(i) \/ PublishDone(i) \/ CloseSession(i)
        BY <3>2, <3>9 DEF LookForThief, MarkCurrent, LetThievesIn, PublishEof,
           PublishMark, PublishDone, CloseSession, Control, Busy
      <3> QED
        BY <2>2, <3>4, <3>5, <3>6, <3>7, <3>8, <3>9 DEF Step
    <2> QED
      BY <2>1, <2>2
  <1> QED
    BY <1>3, <1>4

\* What a worker claims of another node's list it holds a lock on.
LEMMA StolenStep ==
    ASSUME IInv, NEW i \in Node, Busy(i), Step(i), NEW c \in Chunk
    PROVE  Stolen(c)'
  <1> TypeOK /\ ProtocolInv /\ session[i] /\ phase[i] \in 1 .. 3 /\ k[i] \in Nat
      /\ target(i) \in Node /\ (HasChunk(i) => Current(i) \in Chunk /\ k[i] > 0)
    BY BusyFacts
  <1> TypeOK'
    BY BusyTypeOK
  <1> Control(i)
    BY DEF ProtocolInv
  <1> SUFFICES ASSUME NEW j \in Node, j \in claimed'[c], j # c[1]
               PROVE  lock'[c] = Znode("0", j)
    BY DEF Stolen, TypeOK
  <1>1. Znode("0", j) # NoZnode
    BY DEF Znode, NoZnode
  <1>2. lock[c] = Znode("0", j)
    <2>1. CASE j \in claimed[c]
      BY <2>1 DEF ProtocolInv, Stolen
    <2>2. CASE j \notin claimed[c]
      <3>1. Produce(i) /\ j = i /\ c = Current(i) /\ c[1] = target(i)
        BY <2>2, NewClaim
      <3>2. phase[i] > 1 /\ pc[i] = "produce"
        BY <3>1, OwnList DEF Produce
      <3> QED
        BY <3>1, <3>2 DEF ProtocolInv, Thief
    <2> QED
      BY <2>1, <2>2
  <1> QED
    BY <1>1, <1>2, Frame

\* Two workers never claim the same chunk.
LEMMA OnceStep ==
    ASSUME IInv, NEW i \in Node, Busy(i), Step(i)
    PROVE  AtMostOnce'
  <1> TypeOK /\ ProtocolInv /\ session[i] /\ phase[i] \in 1 .. 3 /\ k[i] \in Nat
      /\ target(i) \in Node /\ (HasChunk(i) => Current(i) \in Chunk /\ k[i] > 0)
    BY BusyFacts
  <1> TypeOK'
    BY BusyTypeOK
  <1> Control(i)
    BY DEF ProtocolInv
  <1>1. ASSUME NEW c \in Chunk, NEW j \in Node, NEW h \in Node, j # h,
               j \in claimed'[c], j \notin claimed[c], h \in claimed'[c]
        PROVE  FALSE
    <2>1. Produce(i) /\ HasChunk(i) /\ j = i /\ c = Current(i) /\ c[1] = target(i)
          /\ c[2] = k[i] /\ pc[i] = "produce"
      BY <1>1, NewClaim DEF Produce
    <2>2. h \in claimed[c]
      BY <1>1, <2>1, NewClaim
    <2>3. c[1] \in Node /\ c[2] \in 1 .. Num[c[1]] /\ c = <<c[1], c[2]>> /\ Num[c[1]] \in Nat
      BY ChunkFacts, NumAssumption
    <2>4. Owner(c[1]) /\ Stolen(c) /\ Thief(i)
      BY <2>3 DEF ProtocolInv
    <2>5. \A g, f \in Node : Znode("0", g).val = "0" /\ (Znode("0", g) = Znode("0", f) => g = f)
      BY DEF Znode
    <2>6. h # c[1] => lock[c] = Znode("0", h)
      BY <2>2, <2>4 DEF Stolen
    <2>7. ASSUME lock[c].val = "0"
          PROVE  \E m \in 1 .. Num[c[1]] : IsMark(c[1], m) /\ c[2] > m
      <3>1. Open(c[1])
        BY <2>3, <2>4, <2>7 DEF Owner
      <3>2. PICK m \in 1 .. Num[c[1]] : IsMark(c[1], m)
        BY <2>3, <2>4, <3>1 DEF Owner, Marked
      <3> QED
        BY <2>3, <2>7, <3>2 DEF IsMark
    <2>8. CASE target(i) = i
      <3>1. h # c[1] /\ lock[c] = Znode("0", h) /\ phase[i] = 1 /\ c[1] = i
        BY <1>1, <2>1, <2>6, <2>8, OwnList
      <3>2. PICK m \in 1 .. Num[i] : IsMark(i, m) /\ c[2] > m
        BY <2>5, <2>7, <3>1
      <3>3. lock[c] = Znode("0", i)
        BY <2>1, <2>3, <3>1, <3>2 DEF IsMark
      <3> QED
        BY <1>1, <2>1, <2>5, <3>1, <3>3
    <2>9. CASE target(i) # i
      <3>1. lock[c] = Znode("0", i)
        BY <2>1, <2>4, <2>9, OwnList DEF Thief
      <3>2. h = c[1]
        BY <1>1, <2>1, <2>5, <2>6, <3>1
      <3>3. PICK m \in 1 .. Num[c[1]] : IsMark(c[1], m) /\ c[2] > m
        BY <2>5, <2>7, <3>1
      <3>4. lock[c] = Znode("0", c[1])
        BY <2>2, <2>3, <3>2, <3>3 DEF IsMark
      <3> QED
        BY <1>1, <2>1, <2>3, <2>5, <3>1, <3>2, <3>4
    <2> QED
      BY <2>8, <2>9
  <1> SUFFICES ASSUME NEW c \in Chunk, NEW j \in Node, NEW h \in Node,
                      j \in claimed'[c], h \in claimed'[c]
               PROVE  j = h
    BY DEF AtMostOnce, TypeOK
  <1>2. CASE j \in claimed[c] /\ h \in claimed[c]
    BY <1>2 DEF IInv, AtMostOnce
  <1> QED
    BY <1>1, <1>2

\* A worker has moved past what it has claimed, and never moves back.
LEMMA BehindStep ==
    ASSUME IInv, NEW i \in Node, Busy(i), Step(i), NEW c \in Chunk, NEW j \in Node,
           j \in claimed'[c]
    PROVE  Behind(j, c)'
  <1> TypeOK /\ ProtocolInv /\ session[i] /\ phase[i] \in 1 .. 3 /\ k[i] \in Nat
      /\ target(i) \in Node /\ (HasChunk(i) => Current(i) \in Chunk /\ k[i] > 0)
    BY BusyFacts
  <1> TypeOK'
    BY BusyTypeOK
  <1> Control(i)
    BY DEF ProtocolInv
  <1> c[1] \in Node /\ c[2] \in Nat
    BY ChunkFacts, NumAssumption
  <1>1. CASE j # i
    <2>1. Behind(j, c)
      BY <1>1, NewClaim DEF IInv
    <2>2. phase'[j] = phase[j] /\ k'[j] = k[j]
      BY <1>1, Frame
    <2> QED
      BY <2>1, <2>2 DEF Behind
  <1>2. CASE j = i /\ Produce(i)
    <2>1. phase' = phase /\ HasChunk(i)
      BY <1>2 DEF Produce, Control
    <2>2. k'[i] = IF phase[i] = 1 THEN k[i] + 1 ELSE k[i] - 1
      BY <1>2 DEF Produce, Advance, TypeOK
    <2>3. CASE i \in claimed[c]
      <3>1. PICK p \in 1 .. phase[i] :
               /\ c[1] = Target(i, p)
               /\ p = phase[i] => IF p = 1 THEN c[2] < k[i] ELSE c[2] > k[i]
        BY <2>3 DEF IInv, Behind
      <3>2. p = phase[i] => IF p = 1 THEN c[2] < k'[i] ELSE c[2] > k'[i]
        BY <2>2, <3>1
      <3> QED
        BY <1>2, <2>1, <3>1, <3>2 DEF Behind
    <2>4. CASE i \notin claimed[c]
      <3>1. c[1] = Target(i, phase[i]) /\ c[2] = k[i]
        BY <1>2, <2>4, NewClaim DEF target
      <3>2. phase[i] \in 1 .. phase[i]
        OBVIOUS
      <3>3. IF phase[i] = 1 THEN c[2] < k'[i] ELSE c[2] > k'[i]
        BY <2>2, <3>1
      <3> QED
        BY <1>2, <2>1, <3>1, <3>2, <3>3 DEF Behind
    <2> QED
      BY <2>3, <2>4
  <1>3. CASE j = i /\ ~Produce(i)
    <2>1. PICK p \in 1 .. phase[i] :
             /\ c[1] = Target(i, p)
             /\ p = phase[i] => IF p = 1 THEN c[2] < k[i] ELSE c[2] > k[i]
      BY <1>3, NewClaim DEF IInv, Behind
    <2>2. CASE EnterNeighbour(i)
      <3>1. phase'[i] = phase[i] + 1
        BY <2>2 DEF EnterNeighbour, TypeOK
      <3>2. p \in 1 .. phase'[i] /\ p # phase'[i]
        BY <3>1
      <3> QED
        BY <1>3, <2>1, <3>2 DEF Behind
    <2>3. CASE ~EnterNeighbour(i)
      <3>1. phase' = phase
        BY <2>3 DEF Step, ListEnd, LookForThief, MarkCurrent, LetThievesIn, AwaitDone,
           TakeLock, ReadLock, Produce, FileEnd, PublishEof, PublishMark, PublishDone,
           CloseSession
      <3>2. k' = k \/ k'[i] = IF phase[i] = 1 THEN k[i] + 1 ELSE k[i] - 1
        BY <1>3, <2>3 DEF Step, ListEnd, LookForThief, MarkCurrent, LetThievesIn, AwaitDone,
           TakeLock, ReadLock, FileEnd, PublishEof, PublishMark, PublishDone,
           CloseSession, Advance, TypeOK
      <3>3. p = phase[i] => IF p = 1 THEN c[2] < k'[i] ELSE c[2] > k'[i]
        BY <2>1, <3>2
      <3> QED
        BY <1>3, <2>1, <3>1, <3>3 DEF Behind
    <2> QED
      BY <2>2, <2>3
  <1> QED
    BY <1>1, <1>2, <1>3

\* Once all workers have returned, nothing is claimed any more.
LEMMA DoneStep ==
    ASSUME IInv, NEW i \in Node, ~Busy(i), Step(i)
    PROVE  IInv'
  <1>1. CloseSession(i)
    BY DEF Busy, Step, ListEnd, LookForThief, MarkCurrent, LetThievesIn, AwaitDone,
       TakeLock, ReadLock, Produce, FileEnd, PublishEof, PublishMark, PublishDone,
       EnterNeighbour, CloseSession, IInv, TypeOK
  <1>2. TypeOK'
    BY <1>1 DEF CloseSession, DropEphemerals, Goto, IInv, TypeOK, Status
  <1>3. AllDone'
    BY <1>1 DEF CloseSession, AllDone, Goto, IInv, TypeOK
  <1>4. \A c \in Chunk : \A j \in claimed'[c] : Behind(j, c)'
    BY <1>1 DEF CloseSession, IInv, Behind
  <1>5. AtMostOnce'
    BY <1>1 DEF CloseSession, IInv, AtMostOnce
  <1> QED
    BY <1>2, <1>3, <1>4, <1>5 DEF IInv

\* The invariant holds when no worker has begun.
LEMMA InitIInv == Init => IInv
  <1> SUFFICES ASSUME Init PROVE IInv
    OBVIOUS
  <1>1. TypeOK
    BY DEF Init, TypeOK, Status
  <1>2. \A c \in Chunk : claimed[c] = {}
    BY DEF Init
  <1>3. \A i \in Node : Control(i)
    BY DEF Init, Control
  <1>4. \A n \in Node : Owner(n)
    BY ChunkFacts DEF Init, Owner, Open, Marked, NoZnode
  <1>5. \A t \in Node : Thief(t)
    BY DEF Init, Thief
  <1> QED
    BY <1>1, <1>2, <1>3, <1>4, <1>5 DEF IInv, AtMostOnce, ProtocolInv, Stolen

\* The invariant is inductive: every step of Next keeps it.
LEMMA NextIInv == IInv /\ [Next]_vars => IInv'
  <1> SUFFICES ASSUME IInv, [Next]_vars PROVE IInv'
    OBVIOUS
  <1>1. ASSUME NEW i \in Node, Step(i) PROVE IInv'
    <2>1. CASE Busy(i)
      <3>1. TypeOK'
        BY <1>1, <2>1, BusyTypeOK
      <3>2. \A c \in Chunk : \A j \in claimed'[c] : Behind(j, c)'
        BY <1>1, <2>1, <3>1, BehindStep DEF TypeOK
      <3>3. AtMostOnce'
        BY <1>1, <2>1, OnceStep
      <3>4. ProtocolInv'
        BY <1>1, <2>1, ControlStep, OwnerStep, ThiefStep, StolenStep DEF ProtocolInv
      <3> QED
        BY <3>1, <3>2, <3>3, <3>4 DEF IInv
    <2>2. CASE ~Busy(i)
      BY <1>1, <2>2, DoneStep
    <2> QED
      BY <2>1, <2>2
  <1>2. CASE UNCHANGED vars
    BY <1>2 DEF vars, IInv, TypeOK, Behind, AtMostOnce, AllDone, ProtocolInv, Control,
       Owner, Thief, Stolen, Open, Marked, IsMark, HasChunk, Current, target
  <1> QED
    BY <1>1, <1>2 DEF Next, Finished

\* The inductive invariant holds in every reachable state of task_worker's
\* protocol, for every ring and every distribution of chunks.
THEOREM Invariance == Spec => []IInv
  BY InitIInv, NextIInv, PTL DEF Spec

\* Types: no index leaves its list, no znode holds another value.
THEOREM TypeCorrect == Spec => []TypeOK
  <1>1. IInv => TypeOK
    BY DEF IInv
  <1> QED
    BY <1>1, Invariance, PTL

\* No chunk is handed to the application by two workers.
THEOREM NoChunkTwice == Spec => []AtMostOnce
  <1>1. IInv => AtMostOnce
    BY DEF IInv
  <1> QED
    BY <1>1, Invariance, PTL

\* A chunk about to be produced is still free: nobody else has it (OnceStep),
\* and the worker itself has not passed it.
LEMMA ProducedIsFree ==
    ASSUME IInv, NEW i \in Node, Produce(i)
    PROVE  /\ Current(i) \in Chunk /\ i \in HolderOf(Current(i))
           /\ claimed[Current(i)] = {}
  <1>1. Busy(i) /\ Step(i)
    BY DEF Produce, Busy, Step
  <1>2. TypeOK /\ ProtocolInv /\ phase[i] \in 1 .. 3 /\ k[i] \in Nat /\ target(i) \in Node
    BY <1>1, BusyFacts
  <1>3. HasChunk(i) /\ Current(i) \in Chunk
    BY <1>1, BusyFacts DEF Produce, ProtocolInv, Control
  <1>4. Current(i)[1] = target(i) /\ Current(i)[2] = k[i]
    BY DEF Current
  <1>5. claimed'[Current(i)] = claimed[Current(i)] \cup {i}
    BY <1>2, <1>3 DEF Produce, TypeOK
  <1>6. ASSUME NEW j \in claimed[Current(i)] PROVE j = i
    <2>1. AtMostOnce'
      BY <1>1, OnceStep
    <2> QED
      BY <1>3, <1>5, <1>6, <2>1 DEF AtMostOnce
  <1>7. i \notin claimed[Current(i)]
    <2> SUFFICES ASSUME i \in claimed[Current(i)] PROVE FALSE
      OBVIOUS
    <2>1. Behind(i, Current(i))
      BY <1>3 DEF IInv
    <2>2. PICK p \in 1 .. phase[i] :
             /\ target(i) = Target(i, p)
             /\ p = phase[i] => IF p = 1 THEN k[i] < k[i] ELSE k[i] > k[i]
      BY <1>4, <2>1 DEF Behind
    <2>3. p \in 1 .. 3 /\ p # phase[i]
      BY <1>2, <2>2
    <2> QED
      BY <1>2, <2>2, <2>3, TargetFacts DEF target
  <1>8. i \in HolderOf(Current(i))
    <2>1. target(i) \in {i, LeftOf(i), RightOf(i)}
      BY <1>2 DEF target, Target
    <2>2. RightOf(LeftOf(i)) = i /\ LeftOf(RightOf(i)) = i
      BY RingAssumption DEF Node, LeftOf, RightOf
    <2> QED
      BY <1>4, <2>1, <2>2 DEF HolderOf
  <1> QED
    BY <1>3, <1>6, <1>7, <1>8

\* Before any worker begins, no chunk is taken.
LEMMA ClaimsInit == Init => Claims!Init
  BY DEF Init, Claims!Init, TakerOf, TakerAmong

\* Every step takes one free chunk for a holder of it, or no chunk at all.
LEMMA ClaimsNext == IInv /\ [Next]_vars => [Claims!Next]_([c \in Chunk |-> TakerOf(c)])
  <1> DEFINE t == [c \in Chunk |-> TakerOf(c)]
  <1> SUFFICES ASSUME IInv, [Next]_vars, t' # t
               PROVE  Claims!Next
    OBVIOUS
  <1>1. claimed' # claimed
    BY DEF TakerOf
  <1>2. PICK i \in Node : Produce(i)
    BY <1>1 DEF Next, Finished, vars, Step, ListEnd, LookForThief, MarkCurrent,
       LetThievesIn, AwaitDone, TakeLock, ReadLock, FileEnd, PublishEof, PublishMark,
       PublishDone, EnterNeighbour, CloseSession
  <1>3. /\ Current(i) \in Chunk /\ i \in HolderOf(Current(i))
        /\ claimed[Current(i)] = {}
    BY <1>2, ProducedIsFree
  <1>4. claimed' = [claimed EXCEPT ![Current(i)] = {i}]
    BY <1>2, <1>3 DEF Produce
  <1>5. t[Current(i)] = NoNode
    BY <1>3 DEF TakerOf, TakerAmong
  <1>6. TakerAmong({i}) = i
    BY DEF TakerAmong
  <1>7. t' = [t EXCEPT ![Current(i)] = i]
    <2>1. claimed \in [Chunk -> SUBSET Node]
      BY DEF IInv, TypeOK
    <2>2. \A c \in Chunk : claimed'[c] = IF c = Current(i) THEN {i} ELSE claimed[c]
      BY <1>3, <1>4, <2>1
    <2>3. \A c \in Chunk : TakerOf(c)' = IF c = Current(i) THEN i ELSE TakerOf(c)
      BY <1>6, <2>2 DEF TakerOf
    <2> QED
      BY <1>3, <2>3
  <1> QED
    BY <1>3, <1>5, <1>7 DEF Claims!Next, Claims!Take

\* The znode protocol implements ChunkClaims: every step takes one free chunk
\* for one of the nodes that hold a copy of it, or changes no claim.
THEOREM Implementation == Spec => ClaimsSpec
  <1>1. Init => Claims!Init
    BY ClaimsInit
  <1> QED
    BY <1>1, ClaimsNext, Invariance, PTL DEF Spec, ClaimsSpec, Claims!Spec

-----------------------------------------------------------------------------
(***************************************************************************)
(* The owner of a list hands out its first chunks without a gap. It has to:*)
(* task_worker never seeks in its own file, so after a chunk that a thief  *)
(* took it would read the wrong bytes. It follows from the invariant above *)
(* and from what thieves leave behind in a list.                           *)
(***************************************************************************)

\* Behind a chunk that a thief took all chunks of the list are taken.
NoGap ==
    \A n \in Node : \A j, h \in 1 .. Num[n] :
        j < h /\ lock[<<n, j>>].val = "0" /\ lock[<<n, j>>].by # n =>
            lock[<<n, h>>].val = "0"

\* What an owner locked it has handed out, or is about to.
OwnLock ==
    \A n \in Node : \A j \in 1 .. Num[n] :
        lock[<<n, j>>] = Znode("0", n) =>
            n \in claimed[<<n, j>>] \/ (pc[n] = "produce" /\ phase[n] = 1 /\ k[n] = j)

\* What an owner did not hand out on its way, a thief had taken.
Passed ==
    \A n \in Node : \A j \in 1 .. Num[n] :
        phase[n] = 1 /\ j < k[n] =>
            n \in claimed[<<n, j>>] \/ (lock[<<n, j>>].val = "0" /\ lock[<<n, j>>].by # n)

\* An owner that is about to hand out a chunk has handed out all before it.
OwnerAt ==
    \A n \in Node : pc[n] = "produce" /\ phase[n] = 1 =>
        \A j \in 1 .. Num[n] : j < k[n] => n \in claimed[<<n, j>>]

OrderInv == OwnerReadsOn /\ (AllDone \/ (NoGap /\ OwnLock /\ Passed /\ OwnerAt))
-----------------------------------------------------------------------------
\* The facts every step lemma starts from.
LEMMA OrderFacts ==
    ASSUME IInv, OrderInv, NEW i \in Node, Busy(i)
    PROVE  NoGap /\ OwnLock /\ Passed /\ OwnerAt /\ OwnerReadsOn
BY DEF OrderInv, AllDone, Busy

\* Nothing handed out is taken back.
LEMMA ClaimsStay ==
    ASSUME IInv, NEW i \in Node, Busy(i), Step(i), NEW c \in Chunk
    PROVE  claimed[c] \subseteq claimed'[c]
<1>1. CASE Produce(i)
  BY <1>1 DEF Produce, IInv, TypeOK
<1>2. CASE UNCHANGED claimed
  BY <1>2
<1> QED
  BY <1>1, <1>2 DEF Step, ListEnd, LookForThief, MarkCurrent, LetThievesIn, AwaitDone,
     TakeLock, ReadLock, FileEnd, PublishEof, PublishMark, PublishDone,
     EnterNeighbour, CloseSession

\* A lock "0" stays.
LEMMA ZeroStays ==
    ASSUME IInv, NEW i \in Node, Busy(i), Step(i), NEW c \in Chunk, lock[c].val = "0"
    PROVE  lock'[c] = lock[c]
<1>1. lock[c] # NoZnode
  BY DEF NoZnode
<1> QED BY <1>1, Frame

\* No step of a worker breaks NoGap.
LEMMA NoGapStep ==
    ASSUME IInv, OrderInv, NEW i \in Node, Busy(i), Step(i)
    PROVE  NoGap'
<1> SUFFICES ASSUME NEW n \in Node, NEW j \in 1 .. Num[n], NEW h \in 1 .. Num[n], j < h,
                    lock'[<<n, j>>].val = "0", lock'[<<n, j>>].by # n
             PROVE  lock'[<<n, h>>].val = "0"
  BY DEF NoGap
<1>1. <<n, j>> \in Chunk /\ <<n, h>> \in Chunk
  BY ChunkFacts
<1>2. CASE lock[<<n, j>>].val = "0"
  <2>1. lock[<<n, h>>].val = "0"
    BY <1>1, <1>2, ZeroStays, OrderFacts DEF NoGap
  <2> QED BY <1>1, <2>1, ZeroStays
<1>3. CASE lock[<<n, j>>].val # "0"
  <2>1. TakeLock(i) /\ <<n, j>> = Current(i) /\ lock'[<<n, j>>] = Znode("0", i)
    BY <1>1, <1>3, NewZero
  <2>2. target(i) = n /\ k[i] = j /\ i # n
    BY <2>1 DEF Current, Znode
  <2>3. phase[i] > 1 /\ pc[i] = "lock"
    <3>1. phase[i] \in 1 .. 3
      BY BusyFacts
    <3>2. target(i) # i
      BY <2>2
    <3>3. phase[i] # 1
      BY <3>2, OwnList
    <3> QED BY <2>1, <3>1, <3>3 DEF TakeLock
  <2>4. Thief(i)
    BY BusyFacts DEF ProtocolInv
  <2>5. lock[<<n, h>>].val = "0"
    BY <2>2, <2>3, <2>4 DEF Thief
  <2> QED BY <1>1, <2>5, ZeroStays
<1> QED BY <1>2, <1>3

\* No step of a worker breaks OwnLock.
LEMMA OwnLockStep ==
    ASSUME IInv, OrderInv, NEW i \in Node, Busy(i), Step(i)
    PROVE  OwnLock'
<1> SUFFICES ASSUME NEW n \in Node, NEW j \in 1 .. Num[n], lock'[<<n, j>>] = Znode("0", n)
             PROVE  \/ n \in claimed'[<<n, j>>]
                    \/ pc'[n] = "produce" /\ phase'[n] = 1 /\ k'[n] = j
  BY DEF OwnLock
<1>1. <<n, j>> \in Chunk /\ lock'[<<n, j>>].val = "0" /\ lock'[<<n, j>>].by = n
  BY ChunkFacts DEF Znode
<1>2. CASE lock[<<n, j>>].val = "0"
  <2>1. lock[<<n, j>>] = Znode("0", n)
    BY <1>1, <1>2, ZeroStays
  <2>2. CASE n \in claimed[<<n, j>>]
    BY <1>1, <2>2, ClaimsStay
  <2>3. CASE pc[n] = "produce" /\ phase[n] = 1 /\ k[n] = j
    <3>1. CASE i # n
      BY <2>3, <3>1, Frame
    <3>2. CASE i = n
      <4>1. Produce(n)
        BY <2>3, <3>2 DEF Step, ListEnd, LookForThief, MarkCurrent, LetThievesIn,
           AwaitDone, TakeLock, ReadLock, FileEnd, PublishEof, PublishMark,
           PublishDone, EnterNeighbour, CloseSession
      <4>2. Current(n) = <<n, j>>
        BY <2>3, TargetFacts DEF Current, target
      <4> QED BY <1>1, <4>1, <4>2 DEF Produce, IInv, TypeOK
    <3> QED BY <3>1, <3>2
  <2> QED BY <2>1, <2>2, <2>3, OrderFacts DEF OwnLock
<1>3. CASE lock[<<n, j>>].val # "0"
  <2>1. /\ TakeLock(i) /\ <<n, j>> = Current(i) /\ lock[<<n, j>>] = NoZnode
        /\ lock'[<<n, j>>] = Znode("0", i)
    BY <1>1, <1>3, NewZero
  <2>2. target(i) = n /\ k[i] = j /\ i = n
    BY <1>1, <2>1 DEF Current, Znode
  <2>3. phase[n] = 1 /\ session[n]
    BY <2>2, OwnList, BusyFacts
  <2>4. pc'[n] = "produce" /\ phase' = phase /\ k' = k
    BY <2>1, <2>2, <2>3 DEF TakeLock, Goto, Absent, IInv, TypeOK
  <2> QED BY <2>2, <2>3, <2>4
<1> QED BY <1>2, <1>3

\* The step of an owner in its own list: where its position may go.
LEMMA OwnerMoves ==
    ASSUME IInv, NEW i \in Node, Busy(i), Step(i), phase'[i] = 1
    PROVE  /\ phase[i] = 1
           /\ k'[i] = k[i] \/ (k'[i] = k[i] + 1 /\ (Produce(i) \/ ReadLock(i)))
<1>1. phase[i] \in 1 .. 3 /\ phase \in [Node -> 1 .. 3] /\ k \in [Node -> Nat]
  BY DEF IInv, TypeOK
<1>2. CASE EnterNeighbour(i)
  BY <1>1, <1>2 DEF EnterNeighbour
<1>3. CASE Produce(i) \/ ReadLock(i)
  BY <1>1, <1>3 DEF Produce, ReadLock, Advance
<1>4. CASE UNCHANGED <<phase, k>>
  BY <1>4
<1> QED
  BY <1>2, <1>3, <1>4 DEF Step, ListEnd, LookForThief, MarkCurrent, LetThievesIn,
     AwaitDone, TakeLock, FileEnd, PublishEof, PublishMark, PublishDone, CloseSession

\* An owner has not handed out the chunk at hand.
LEMMA AtHandIsNew ==
    ASSUME IInv, NEW n \in Node, phase[n] = 1, NEW j \in 1 .. Num[n], k[n] = j
    PROVE  n \notin claimed[<<n, j>>]
<1> SUFFICES ASSUME n \in claimed[<<n, j>>] PROVE FALSE
  OBVIOUS
<1>1. Behind(n, <<n, j>>)
  BY ChunkFacts DEF IInv
<1>2. PICK p \in 1 .. phase[n] : p = phase[n] => IF p = 1 THEN j < k[n] ELSE j > k[n]
  BY <1>1 DEF Behind
<1>3. p = 1 /\ j \in Int
  BY <1>2
<1> QED BY <1>2, <1>3

\* No step of a worker breaks Passed.
LEMMA PassedStep ==
    ASSUME IInv, OrderInv, NEW i \in Node, Busy(i), Step(i)
    PROVE  Passed'
<1> SUFFICES ASSUME NEW n \in Node, NEW j \in 1 .. Num[n], phase'[n] = 1, j < k'[n]
             PROVE  \/ n \in claimed'[<<n, j>>]
                    \/ lock'[<<n, j>>].val = "0" /\ lock'[<<n, j>>].by # n
  BY DEF Passed
<1>1. <<n, j>> \in Chunk
  BY ChunkFacts
<1>2. CASE phase[n] = 1 /\ j < k[n]
  <2>1. n \in claimed[<<n, j>>] \/ (lock[<<n, j>>].val = "0" /\ lock[<<n, j>>].by # n)
    BY <1>2, OrderFacts DEF Passed
  <2> QED BY <1>1, <2>1, ClaimsStay, ZeroStays
<1>3. CASE ~(phase[n] = 1 /\ j < k[n])
  <2>1. i = n
    BY <1>3, Frame
  <2>2. phase[n] = 1 /\ k[n] = j /\ (Produce(n) \/ ReadLock(n)) /\ k'[n] = k[n] + 1
    <3>1. k[n] \in Nat /\ j \in Nat
      BY DEF IInv, TypeOK
    <3> QED BY <1>3, <2>1, <3>1, OwnerMoves
  <2>3. Current(n) = <<n, j>>
    BY <2>2, TargetFacts DEF Current, target
  <2>4. CASE Produce(n)
    BY <1>1, <2>3, <2>4 DEF Produce, IInv, TypeOK
  <2>5. CASE ReadLock(n)
    <3>1. pc[n] = "conflict" /\ lock[<<n, j>>].val = "0" /\ lock' = lock
      BY <2>2, <2>3, <2>5, BusyFacts DEF ReadLock, zk, IInv, TypeOK
    <3>2. lock[<<n, j>>].by # n
      <4> SUFFICES ASSUME lock[<<n, j>>].by = n PROVE FALSE
        OBVIOUS
      <4>1. lock[<<n, j>>] = Znode("0", n)
        <5>1. lock[<<n, j>>] \in [val : {"0", "1"}, by : Node]
          BY <1>1, <3>1 DEF IInv, TypeOK, NoZnode
        <5> QED BY <3>1, <5>1 DEF Znode
      <4>2. n \notin claimed[<<n, j>>]
        BY <2>2, AtHandIsNew
      <4> QED BY <3>1, <4>1, <4>2, OrderFacts, <2>1 DEF OwnLock
    <3> QED BY <3>1, <3>2
  <2> QED BY <2>2, <2>4, <2>5
<1> QED BY <1>2, <1>3

\* No step of a worker breaks OwnerAt.
LEMMA OwnerAtStep ==
    ASSUME IInv, OrderInv, NEW i \in Node, Busy(i), Step(i)
    PROVE  OwnerAt'
<1> SUFFICES ASSUME NEW n \in Node, pc'[n] = "produce", phase'[n] = 1,
                    NEW j \in 1 .. Num[n], j < k'[n]
             PROVE  n \in claimed'[<<n, j>>]
  BY DEF OwnerAt
<1>1. <<n, j>> \in Chunk
  BY ChunkFacts
<1>2. CASE i # n
  <2>1. pc[n] = "produce" /\ phase[n] = 1 /\ j < k[n]
    BY <1>2, Frame
  <2> QED BY <1>1, <2>1, ClaimsStay, OrderFacts DEF OwnerAt
<1>3. CASE i = n
  <2> TypeOK /\ ProtocolInv /\ session[n] /\ Control(n) /\ Owner(n)
    BY <1>3, BusyFacts DEF ProtocolInv
  <2>1. phase[n] = 1
    BY <1>3, OwnerMoves
  <2>2. \/ LookForThief(n) \/ LetThievesIn(n)
        \/ TakeLock(n) /\ Absent(lock[Current(n)])
        \/ ReadLock(n) /\ Absent(lock[Current(n)])
    BY <1>3 DEF Step, ListEnd, LookForThief, MarkCurrent, LetThievesIn, AwaitDone,
       TakeLock, ReadLock, Produce, FileEnd, PublishEof, PublishMark, PublishDone,
       EnterNeighbour, CloseSession, Goto, TypeOK
  <2>3. k' = k
    BY <2>2 DEF LookForThief, LetThievesIn, TakeLock, ReadLock, Advance, Goto, Absent,
       NoZnode, TypeOK, Control
  <2>4. n \in claimed[<<n, j>>] \/ (lock[<<n, j>>].val = "0" /\ lock[<<n, j>>].by # n)
    BY <1>3, <2>1, <2>3, OrderFacts DEF Passed
  <2>5. CASE LookForThief(n) \/ LetThievesIn(n)
    <3>1. ~Open(n)
      BY <2>5 DEF LookForThief, LetThievesIn, Control, Open
    <3>2. lock[<<n, j>>].val # "0"
      BY <3>1 DEF Owner
    <3> QED BY <1>1, <1>3, <2>4, <3>2, ClaimsStay
  <2>6. CASE TakeLock(n) /\ Absent(lock[Current(n)])
    <3>1. HasChunk(n) /\ target(n) = n
      BY <2>1, <2>6, TargetFacts DEF TakeLock, Control, target
    <3>2. k[n] \in 1 .. Num[n] /\ lock[<<n, k[n]>>].val # "0"
      BY <2>6, <3>1 DEF HasChunk, Absent, NoZnode, Current
    <3>3. ~(lock[<<n, j>>].val = "0" /\ lock[<<n, j>>].by # n)
      BY <1>3, <2>3, <3>2, OrderFacts DEF NoGap
    <3> QED BY <1>1, <1>3, <2>4, <3>3, ClaimsStay
  <2>7. CASE ReadLock(n) /\ Absent(lock[Current(n)])
    BY <2>7 DEF ReadLock, Control, Absent
  <2> QED BY <2>2, <2>5, <2>6, <2>7
<1> QED BY <1>2, <1>3

\* An owner that produces its next chunk has produced all before it.
LEMMA ReadsOnStep ==
    ASSUME IInv, OrderInv, NEW i \in Node, Busy(i), Step(i)
    PROVE  OwnerReadsOn'
<1> SUFFICES ASSUME NEW n \in Node, NEW j \in 1 .. Num[n], n \in claimed'[<<n, j>>],
                    NEW h \in 1 .. j - 1
             PROVE  n \in claimed'[<<n, h>>]
  BY DEF OwnerReadsOn
<1>1. Num[n] \in Nat /\ h \in 1 .. Num[n] /\ h < j
  BY NumAssumption
<1>2. <<n, j>> \in Chunk /\ <<n, h>> \in Chunk
  BY <1>1, ChunkFacts
<1>3. CASE n \in claimed[<<n, j>>]
  BY <1>2, <1>3, ClaimsStay, OrderFacts DEF OwnerReadsOn
<1>4. CASE n \notin claimed[<<n, j>>]
  <2>1. Produce(i) /\ n = i /\ target(i) = n /\ k[i] = j
    BY <1>2, <1>4, NewClaim
  <2>2. pc[n] = "produce" /\ phase[n] = 1
    BY <2>1, OwnList DEF Produce
  <2> QED BY <1>1, <1>2, <2>1, <2>2, ClaimsStay, OrderFacts DEF OwnerAt
<1> QED BY <1>3, <1>4

\* OrderInv holds when the job begins.
LEMMA InitOrder == Init => OrderInv
<1> SUFFICES ASSUME Init PROVE OrderInv
  OBVIOUS
<1>1. \A n \in Node : \A j \in 1 .. Num[n] :
         claimed[<<n, j>>] = {} /\ lock[<<n, j>>].val = "absent"
  BY ChunkFacts DEF Init, NoZnode
<1>2. OwnerReadsOn /\ NoGap
  BY <1>1 DEF OwnerReadsOn, NoGap
<1>3. OwnLock
  <2>1. \A n \in Node : Znode("0", n).val # "absent"
    BY DEF Znode
  <2>2. \A n \in Node : \A j \in 1 .. Num[n] : lock[<<n, j>>] # Znode("0", n)
    BY <1>1, <2>1
  <2> QED BY <2>2 DEF OwnLock
<1>4. Passed
  <2>1. \A n \in Node : k[n] = 1
    BY DEF Init
  <2> QED BY <2>1, NumAssumption DEF Passed
<1>5. OwnerAt
  BY DEF Init, OwnerAt
<1> QED BY <1>2, <1>3, <1>4, <1>5 DEF OrderInv

\* Every step keeps OrderInv; closing the last session gives the protocol up.
LEMMA NextOrder == IInv /\ OrderInv /\ [Next]_vars => OrderInv'
<1> SUFFICES ASSUME IInv, OrderInv, [Next]_vars PROVE OrderInv'
  OBVIOUS
<1>1. ASSUME NEW i \in Node, Step(i) PROVE OrderInv'
  <2>1. CASE Busy(i)
    BY <1>1, <2>1, NoGapStep, OwnLockStep, PassedStep, OwnerAtStep, ReadsOnStep DEF OrderInv
  <2>2. CASE ~Busy(i)
    <3>1. CloseSession(i)
      BY <1>1, <2>2 DEF Busy, Step, ListEnd, LookForThief, MarkCurrent, LetThievesIn,
         AwaitDone, TakeLock, ReadLock, Produce, FileEnd, PublishEof, PublishMark,
         PublishDone, EnterNeighbour, CloseSession
    <3>2. AllDone' /\ claimed' = claimed
      BY <3>1 DEF CloseSession, AllDone, Goto, IInv, TypeOK
    <3> QED BY <3>2 DEF OrderInv, OwnerReadsOn
  <2> QED BY <2>1, <2>2
<1>2. CASE UNCHANGED vars
  BY <1>2 DEF vars, OrderInv, OwnerReadsOn, AllDone, NoGap, OwnLock, Passed, OwnerAt
<1> QED BY <1>1, <1>2 DEF Next, Finished

\* For every ring and every distribution of chunks, an owner hands out the
\* first chunks of its list without a gap, so its stream never needs a seek.
THEOREM OwnerInOrder == Spec => []OwnerReadsOn
<1>1. OrderInv => OwnerReadsOn
  BY DEF OrderInv
<1> QED BY InitOrder, NextOrder, Invariance, <1>1, PTL DEF Spec
-----------------------------------------------------------------------------
(* Every chunk is handed out. The owner passes its whole list: a chunk it   *)
(* did not take bears the lock of a thief, and a thief produces what it     *)
(* locked. A node without own chunks breaks this, as its mark goes to any   *)
(* chunk (PublishMark), so every node has one here.                         *)

NoEmptyList == \A n \in Node : Num[n] > 0

\* Who locked a chunk has handed it out, or is about to.
LockKept ==
    \A c \in Chunk : lock[c].val = "0" =>
        \/ lock[c].by \in claimed[c]
        \/ pc[lock[c].by] = "produce" /\ Current(lock[c].by) = c

\* An owner meets no mark ahead of it: its own lies behind, or at the chunk at hand.
NoMarkAhead ==
    \A n \in Node : phase[n] = 1 /\ pc[n] \notin {"publishDone", "enter"} =>
        /\ k[n] >= 1
        /\ \A j \in 1 .. Num[n] : lock[<<n, j>>].val = "1" =>
              j < k[n] \/ (j = k[n] /\ pc[n] \in {"setDone", "produce"})
        /\ pc[n] = "setDone" => ~end[n]

\* So it leaves its list only at the end of it,
AtEnd ==
    \A n \in Node :
        phase[n] = 1 /\ pc[n] \in {"fileEnd", "publishEof", "publishMark", "publishDone",
                                   "enter", "done", "closed"} => k[n] > Num[n]

\* and what it left behind, a thief has.
LeftBehind ==
    \A n \in Node : phase[n] > 1 =>
        \A j \in 1 .. Num[n] :
            n \in claimed[<<n, j>>] \/ (lock[<<n, j>>].val = "0" /\ lock[<<n, j>>].by # n)

CoverInv == AllClaimed /\ (AllDone \/ (LockKept /\ NoMarkAhead /\ AtEnd /\ LeftBehind))

\* The facts every step lemma starts from.
LEMMA CoverFacts ==
    ASSUME IInv, CoverInv, NEW i \in Node, Busy(i)
    PROVE  LockKept /\ NoMarkAhead /\ AtEnd /\ LeftBehind
BY DEF CoverInv, AllDone, Busy

\* Where a mark comes from: the owner of the list, at the chunk at hand or at the end.
LEMMA NewMark ==
    ASSUME IInv, NoEmptyList, NEW i \in Node, Busy(i), Step(i), NEW c \in Chunk,
           lock'[c].val = "1", lock[c].val # "1"
    PROVE  (MarkCurrent(i) /\ c = <<i, k[i]>>) \/ (PublishMark(i) /\ c = <<i, Num[i]>>)
<1> TypeOK /\ ProtocolInv /\ session[i] /\ Control(i)
  BY BusyFacts DEF ProtocolInv
<1>1. CASE MarkCurrent(i)
  <2>1. HasChunk(i) /\ target(i) = i /\ Current(i) \in Chunk
    BY <1>1, OwnList, BusyFacts DEF MarkCurrent, Control
  <2>2. CreateLock(i, Current(i), "1")
    BY <1>1 DEF MarkCurrent
  <2>3. c = Current(i)
    BY <2>1, <2>2, CreateLockFacts
  <2> QED BY <1>1, <2>1, <2>3 DEF Current
<1>2. CASE TakeLock(i)
  <2>1. HasChunk(i) /\ Current(i) \in Chunk
    BY <1>2, BusyFacts DEF TakeLock, Control
  <2>2. CreateLock(i, Current(i), "0")
    BY <1>2 DEF TakeLock
  <2>3. lock'[c] = lock[c] \/ lock'[c] = Znode("0", i)
    BY <2>1, <2>2, CreateLockFacts
  <2> QED BY <2>3 DEF Znode
<1>3. CASE PublishMark(i)
  <2>1. Num[i] > 0 /\ <<i, Num[i]>> \in Chunk
    BY NumAssumption, ChunkFacts DEF NoEmptyList
  <2>2. <<i, Num[i]>> # NoChunk
    BY <2>1, NoChunkAssumption
  <2>3. CreateLock(i, <<i, Num[i]>>, "1")
    BY <1>3, <2>1, <2>2 DEF PublishMark
  <2>4. c = <<i, Num[i]>>
    BY <2>1, <2>3, CreateLockFacts
  <2> QED BY <1>3, <2>4
<1>4. CASE UNCHANGED lock
  BY <1>4
<1>5. ~CloseSession(i)
  BY DEF Busy, CloseSession
<1> QED
  BY <1>1, <1>2, <1>3, <1>4, <1>5 DEF Step, ListEnd, LookForThief, LetThievesIn, AwaitDone,
     ReadLock, Produce, FileEnd, PublishEof, PublishDone, EnterNeighbour, zk

\* Who takes a lock goes on to produce the chunk, and does not lose it before.
LEMMA LockKeptStep ==
    ASSUME IInv, CoverInv, NEW i \in Node, Busy(i), Step(i)
    PROVE  LockKept'
<1> SUFFICES ASSUME NEW c \in Chunk, lock'[c].val = "0",
                    NEW s, s = lock'[c].by
             PROVE  s \in claimed'[c] \/ (pc'[s] = "produce" /\ Current(s)' = c)
  BY DEF LockKept
<1>1. CASE lock[c].val = "0"
  <2>1. lock'[c] = lock[c] /\ s = lock[c].by
    BY <1>1, ZeroStays
  <2>2. s \in Node
    <3>1. lock[c] \in [val : {"0", "1"}, by : Node]
      BY <1>1 DEF IInv, TypeOK, NoZnode
    <3> QED BY <2>1, <3>1
  <2>3. CASE s \in claimed[c]
    BY <2>3, ClaimsStay
  <2>4. CASE pc[s] = "produce" /\ Current(s) = c
    <3>1. CASE i # s
      BY <2>2, <2>4, <3>1, Frame DEF Current, target
    <3>2. CASE i = s
      <4>1. Produce(s)
        BY <2>4, <3>2 DEF Step, ListEnd, LookForThief, MarkCurrent, LetThievesIn,
           AwaitDone, TakeLock, ReadLock, FileEnd, PublishEof, PublishMark,
           PublishDone, EnterNeighbour, CloseSession
      <4> QED BY <2>4, <4>1 DEF Produce, IInv, TypeOK
    <3> QED BY <3>1, <3>2
  <2> QED BY <1>1, <2>1, <2>3, <2>4, CoverFacts DEF LockKept
<1>2. CASE lock[c].val # "0"
  <2>1. /\ TakeLock(i) /\ c = Current(i) /\ lock[c] = NoZnode /\ lock'[c] = Znode("0", i)
    BY <1>2, NewZero
  <2>2. s = i
    BY <2>1 DEF Znode
  <2>3. pc'[i] = "produce" /\ phase' = phase /\ k' = k
    BY <2>1, BusyFacts DEF TakeLock, Goto, Absent, IInv, TypeOK
  <2> QED BY <2>1, <2>2, <2>3 DEF Current, target
<1> QED BY <1>1, <1>2

\* Before it has opened its list, an owner finds no lock at the chunk at hand.
LEMMA MarkIsFree ==
    ASSUME IInv, CoverInv, NEW i \in Node, Busy(i), pc[i] = "mark"
    PROVE  /\ target(i) = i /\ k[i] \in 1 .. Num[i] /\ phase[i] = 1
           /\ lock[<<i, k[i]>>] = NoZnode
<1> TypeOK /\ ProtocolInv /\ session[i] /\ Control(i) /\ Owner(i)
  BY BusyFacts DEF ProtocolInv
<1>1. target(i) = i /\ k[i] \in 1 .. Num[i] /\ phase[i] = 1 /\ ~stealing[i]
  BY OwnList DEF Control, HasChunk
<1>2. lock[<<i, k[i]>>].val # "0"
  BY <1>1 DEF Owner, Open
<1>3. lock[<<i, k[i]>>].val # "1"
  BY <1>1, CoverFacts DEF NoMarkAhead
<1>4. <<i, k[i]>> \in Chunk
  BY <1>1, ChunkFacts
<1>5. lock[<<i, k[i]>>] \in {NoZnode} \cup [val : {"0", "1"}, by : Node]
  BY <1>4 DEF TypeOK
<1> QED BY <1>1, <1>2, <1>3, <1>5

\* An owner that conflicts conflicts with a thief's lock, never with a mark.
LEMMA ConflictIsLock ==
    ASSUME IInv, CoverInv, NEW i \in Node, Busy(i), pc[i] = "conflict", phase[i] = 1
    PROVE  lock[Current(i)].val = "0"
<1> TypeOK /\ ProtocolInv /\ session[i] /\ Control(i)
  BY BusyFacts DEF ProtocolInv
<1>1. target(i) = i /\ k[i] \in 1 .. Num[i]
  BY OwnList DEF Control, HasChunk
<1>2. lock[<<i, k[i]>>].val # "1"
  BY <1>1, CoverFacts DEF NoMarkAhead
<1>3. <<i, k[i]>> \in Chunk /\ lock[<<i, k[i]>>] # NoZnode
  BY <1>1, ChunkFacts DEF Control, Current
<1>4. lock[<<i, k[i]>>] \in [val : {"0", "1"}, by : Node]
  BY <1>3 DEF TypeOK
<1> QED BY <1>1, <1>2, <1>4 DEF Current

\* No step of a worker puts a mark ahead of an owner, or moves an owner before one.
LEMMA NoMarkAheadStep ==
    ASSUME IInv, CoverInv, NoEmptyList, NEW i \in Node, Busy(i), Step(i)
    PROVE  NoMarkAhead'
<1> SUFFICES ASSUME NEW n \in Node, phase'[n] = 1, pc'[n] \notin {"publishDone", "enter"}
             PROVE  /\ k'[n] >= 1
                    /\ \A j \in 1 .. Num[n] : lock'[<<n, j>>].val = "1" =>
                          j < k'[n] \/ (j = k'[n] /\ pc'[n] \in {"setDone", "produce"})
                    /\ pc'[n] = "setDone" => ~end'[n]
  BY DEF NoMarkAhead
<1> TypeOK /\ ProtocolInv /\ session[i] /\ Control(i) /\ k[n] \in Nat
  BY BusyFacts DEF ProtocolInv, TypeOK
<1>1. CASE i # n
  <2>1. phase[n] = 1 /\ pc[n] \notin {"publishDone", "enter"} /\ k'[n] = k[n]
        /\ pc'[n] = pc[n] /\ end'[n] = end[n]
    BY <1>1, Frame
  <2>2. \A j \in 1 .. Num[n] : lock'[<<n, j>>].val = "1" => lock[<<n, j>>].val = "1"
    <3> SUFFICES ASSUME NEW j \in 1 .. Num[n], lock'[<<n, j>>].val = "1",
                        lock[<<n, j>>].val # "1"
                 PROVE  FALSE
      OBVIOUS
    <3>1. <<n, j>> = <<i, k[i]>> \/ <<n, j>> = <<i, Num[i]>>
      BY ChunkFacts, NewMark
    <3> QED BY <1>1, <3>1
  <2> QED BY <2>1, <2>2, CoverFacts, Zenon DEF NoMarkAhead
<1>2. CASE i = n
  <2>1. phase[n] = 1 /\ (k'[n] = k[n] \/ (k'[n] = k[n] + 1 /\ (Produce(n) \/ ReadLock(n))))
    BY <1>2, OwnerMoves
  <2>2. pc[n] \notin {"publishDone", "enter"}
    BY <1>2, <2>1 DEF Step, ListEnd, LookForThief, MarkCurrent, LetThievesIn,
       AwaitDone, TakeLock, ReadLock, Produce, FileEnd, PublishEof, PublishMark, PublishDone,
       EnterNeighbour, CloseSession, Goto, TypeOK
  <2>3. /\ k[n] >= 1
        /\ \A j \in 1 .. Num[n] : lock[<<n, j>>].val = "1" =>
              j < k[n] \/ (j = k[n] /\ pc[n] \in {"setDone", "produce"})
        /\ pc[n] = "setDone" => ~end[n]
    BY <1>2, <2>1, <2>2, CoverFacts DEF NoMarkAhead
  <2>4. CASE MarkCurrent(n)
    <3>1. lock[<<n, k[n]>>] = NoZnode /\ Current(n) = <<n, k[n]>>
      BY <1>2, <2>4, MarkIsFree DEF MarkCurrent, Current
    <3>2. ~end'[n] /\ pc'[n] = "setDone" /\ k' = k
      BY <1>2, <2>4, <3>1 DEF MarkCurrent, Goto, Absent, TypeOK
    <3>3. \A j \in 1 .. Num[n] : lock'[<<n, j>>].val = "1" =>
             lock[<<n, j>>].val = "1" \/ j = k[n]
      <4> SUFFICES ASSUME NEW j \in 1 .. Num[n], lock'[<<n, j>>].val = "1",
                          lock[<<n, j>>].val # "1"
                   PROVE  j = k[n]
        OBVIOUS
      <4>1. ~PublishMark(n)
        BY <2>4 DEF MarkCurrent, PublishMark
      <4>2. <<n, j>> = <<n, k[n]>>
        BY <1>2, <4>1, ChunkFacts, NewMark
      <4> QED BY <4>2
    <3> QED BY <2>3, <2>4, <3>2, <3>3 DEF MarkCurrent
  <2>5. CASE ~MarkCurrent(n)
    <3>1. ~PublishMark(n)
      BY <1>2 DEF PublishMark, Goto, TypeOK
    <3>2. \A j \in 1 .. Num[n] : lock'[<<n, j>>].val = "1" => lock[<<n, j>>].val = "1"
      BY <1>2, <2>5, <3>1, ChunkFacts, NewMark
    <3>3. pc'[n] # "setDone"
      BY <1>2, <2>5 DEF Step, ListEnd, LookForThief, LetThievesIn,
         AwaitDone, TakeLock, ReadLock, Produce, FileEnd, PublishEof, PublishMark, PublishDone,
         EnterNeighbour, CloseSession, Goto, TypeOK
    <3>4. CASE Produce(n)
      <4>1. k'[n] = k[n] + 1
        BY <2>1, <3>4 DEF Produce, Advance, TypeOK
      <4> QED BY <2>3, <3>2, <3>3, <4>1
    <3>5. CASE LetThievesIn(n)
      <4>1. pc'[n] = "produce" /\ k' = k
        BY <2>3, <3>5 DEF LetThievesIn, Goto, TypeOK
      <4> QED BY <2>3, <3>2, <3>3, <4>1
    <3>6. CASE ~Produce(n) /\ ~LetThievesIn(n)
      <4>1. pc[n] \notin {"setDone", "produce"}
        BY <1>2, <2>5, <3>6 DEF Step, ListEnd, LookForThief,
           AwaitDone, TakeLock, ReadLock, FileEnd, PublishEof, PublishMark, PublishDone,
           EnterNeighbour, CloseSession
      <4> QED BY <2>1, <2>3, <3>2, <3>3, <4>1
    <3> QED BY <3>4, <3>5, <3>6
  <2> QED BY <2>4, <2>5
<1> QED BY <1>1, <1>2

\* An owner leaves its list at the end only.
LEMMA AtEndStep ==
    ASSUME IInv, CoverInv, NEW i \in Node, Busy(i), Step(i)
    PROVE  AtEnd'
<1> DEFINE After == {"fileEnd", "publishEof", "publishMark", "publishDone", "enter", "done", "closed"}
<1> SUFFICES ASSUME NEW n \in Node, phase'[n] = 1, pc'[n] \in After
             PROVE  k'[n] > Num[n]
  BY DEF AtEnd
<1> TypeOK /\ ProtocolInv /\ session[i] /\ Control(i) /\ k[n] \in Nat /\ Num[n] \in Nat
  BY BusyFacts, NumAssumption DEF ProtocolInv, TypeOK
<1>1. CASE i # n
  BY <1>1, Frame, CoverFacts DEF AtEnd
<1>2. CASE i = n
  <2>1. phase[n] = 1 /\ (k'[n] = k[n] \/ (k'[n] = k[n] + 1 /\ (Produce(n) \/ ReadLock(n))))
    BY <1>2, OwnerMoves
  <2>2. CASE pc[n] \in After
    BY <1>2, <2>1, <2>2, CoverFacts DEF AtEnd
  <2>3. CASE pc[n] \notin After
    <3>1. ListEnd(n) \/ LetThievesIn(n) \/ ReadLock(n)
      BY <1>2, <2>3 DEF Step, ListEnd, LookForThief, MarkCurrent, LetThievesIn,
         AwaitDone, TakeLock, ReadLock, Produce, FileEnd, PublishEof, PublishMark, PublishDone,
         EnterNeighbour, CloseSession, Goto, TypeOK
    <3>2. CASE ListEnd(n)
      <4>1. k[n] >= 1
        BY <2>1, <3>2, <1>2, CoverFacts DEF NoMarkAhead, ListEnd
      <4>2. k[n] \notin 1 .. Num[n] /\ k' = k
        BY <1>2, <2>1, <3>2, OwnList DEF ListEnd, HasChunk
      <4> QED BY <4>1, <4>2
    <3>3. CASE LetThievesIn(n)
      <4>1. ~end[n]
        BY <1>2, <2>1, <3>3, CoverFacts DEF NoMarkAhead, LetThievesIn
      <4>2. pc'[n] = "produce"
        BY <3>3, <4>1 DEF LetThievesIn, Goto, TypeOK
      <4> QED BY <4>2
    <3>4. CASE ReadLock(n)
      <4>1. lock[Current(n)].val = "0" /\ session[n]
        BY <1>2, <2>1, <3>4, ConflictIsLock DEF ReadLock
      <4>2. pc'[n] \in {"produce", "loop"}
        BY <3>4, <4>1 DEF ReadLock, Goto, TypeOK
      <4> QED BY <4>2
    <3> QED BY <3>1, <3>2, <3>3, <3>4
  <2> QED BY <2>2, <2>3
<1> QED BY <1>1, <1>2

\* What an owner leaves behind stays handed out or locked by a thief.
LEMMA LeftBehindStep ==
    ASSUME IInv, OrderInv, CoverInv, NEW i \in Node, Busy(i), Step(i)
    PROVE  LeftBehind'
<1> SUFFICES ASSUME NEW n \in Node, phase'[n] > 1, NEW j \in 1 .. Num[n]
             PROVE  \/ n \in claimed'[<<n, j>>]
                    \/ lock'[<<n, j>>].val = "0" /\ lock'[<<n, j>>].by # n
  BY DEF LeftBehind
<1>1. <<n, j>> \in Chunk
  BY ChunkFacts
<1>2. n \in claimed[<<n, j>>] \/ (lock[<<n, j>>].val = "0" /\ lock[<<n, j>>].by # n)
  <2>1. CASE phase[n] > 1
    BY <2>1, CoverFacts DEF LeftBehind
  <2>2. CASE ~(phase[n] > 1)
    <3>1. phase[n] = 1 /\ phase'[n] # phase[n]
      BY <2>2 DEF IInv, TypeOK
    <3>2. i = n
      BY <3>1, Frame
    <3>3. pc[n] = "enter"
      BY <3>1, <3>2 DEF Step, ListEnd, LookForThief, MarkCurrent, LetThievesIn,
         AwaitDone, TakeLock, ReadLock, Produce, FileEnd, PublishEof, PublishMark,
         PublishDone, EnterNeighbour, CloseSession
    <3>4. k[n] > Num[n]
      BY <3>1, <3>3, CoverFacts DEF AtEnd
    <3>5. j < k[n]
      BY <3>4, NumAssumption DEF IInv, TypeOK
    <3> QED BY <3>1, <3>5, OrderFacts DEF Passed
  <2> QED BY <2>1, <2>2
<1> QED BY <1>1, <1>2, ClaimsStay, ZeroStays

\* When the last worker is through, every chunk was handed out.
LEMMA AllClaimedStep ==
    ASSUME IInv, OrderInv, CoverInv, NoEmptyList, NEW i \in Node, Busy(i), Step(i)
    PROVE  AllClaimed'
<1> SUFFICES ASSUME AllDone', NEW c \in Chunk PROVE claimed'[c] # {}
  BY DEF AllClaimed
<1>0. PICK n \in Node : n = c[1]
  BY ChunkFacts
<1>1. PICK j \in 1 .. Num[n] : c = <<n, j>>
  BY <1>0, ChunkFacts
<1>2. TypeOK' /\ Control(n)'
  BY BusyTypeOK, ControlStep
<1>3. pc'[n] \in {"done", "closed"}
  BY <1>2 DEF AllDone, Control
<1>4. n \in claimed'[c] \/ lock'[c].val = "0"
  <2>1. CASE phase'[n] = 1
    <3>1. AtEnd'
      BY AtEndStep
    <3>2. k'[n] > Num[n]
      BY <1>3, <2>1, <3>1 DEF AtEnd
    <3>3. j < k'[n]
      BY <1>2, <3>2, NumAssumption DEF TypeOK
    <3>4. Passed'
      BY PassedStep
    <3> QED BY <1>1, <2>1, <3>3, <3>4 DEF Passed
  <2>2. CASE phase'[n] > 1
    <3>1. LeftBehind'
      BY LeftBehindStep
    <3> QED BY <1>1, <2>2, <3>1 DEF LeftBehind
  <2>3. phase'[n] \in 1 .. 3
    BY <1>2 DEF TypeOK
  <2> QED BY <2>1, <2>2, <2>3
<1>5. CASE lock'[c].val = "0"
  <2>1. lock'[c] \in [val : {"0", "1"}, by : Node]
    BY <1>2, <1>5 DEF TypeOK, NoZnode
  <2>2. pc'[lock'[c].by] # "produce"
    BY <2>1 DEF AllDone
  <2>3. LockKept'
    BY LockKeptStep
  <2>4. lock'[c].by \in claimed'[c]
    BY <1>5, <2>2, <2>3 DEF LockKept
  <2> QED BY <2>4
<1> QED BY <1>4, <1>5

\* CoverInv holds when the job begins.
LEMMA InitCover == NoEmptyList /\ Init => CoverInv
<1> SUFFICES ASSUME NoEmptyList, Init PROVE CoverInv
  OBVIOUS
<1>1. \A c \in Chunk : lock[c].val = "absent"
  BY DEF Init, NoZnode
<1>2. ~AllDone
  BY RingAssumption DEF Init, AllDone, Node
<1>3. LockKept
  BY <1>1 DEF LockKept
<1>4. NoMarkAhead
  BY <1>1, ChunkFacts DEF Init, NoMarkAhead
<1>5. AtEnd /\ LeftBehind
  BY DEF Init, AtEnd, LeftBehind
<1> QED BY <1>2, <1>3, <1>4, <1>5 DEF CoverInv, AllClaimed

\* Every step keeps CoverInv; the closing of the sessions hands out nothing.
LEMMA NextCover == NoEmptyList /\ IInv /\ OrderInv /\ CoverInv /\ [Next]_vars => CoverInv'
<1> SUFFICES ASSUME NoEmptyList, IInv, OrderInv, CoverInv, [Next]_vars PROVE CoverInv'
  OBVIOUS
<1>1. ASSUME NEW i \in Node, Step(i) PROVE CoverInv'
  <2>1. CASE Busy(i)
    BY <1>1, <2>1, AllClaimedStep, LockKeptStep, NoMarkAheadStep, AtEndStep, LeftBehindStep
       DEF CoverInv
  <2>2. CASE ~Busy(i)
    <3>1. CloseSession(i)
      BY <1>1, <2>2 DEF Busy, Step, ListEnd, LookForThief, MarkCurrent, LetThievesIn,
         AwaitDone, TakeLock, ReadLock, Produce, FileEnd, PublishEof, PublishMark,
         PublishDone, EnterNeighbour, CloseSession
    <3>2. AllDone /\ AllDone' /\ claimed' = claimed
      BY <3>1 DEF CloseSession, AllDone, Goto, IInv, TypeOK
    <3> QED BY <3>2 DEF CoverInv, AllClaimed
  <2> QED BY <2>1, <2>2
<1>2. CASE UNCHANGED vars
  BY <1>2 DEF vars, CoverInv, AllClaimed, AllDone, LockKept, NoMarkAhead, AtEnd, LeftBehind,
     Current, target
<1> QED BY <1>1, <1>2 DEF Next, Finished

\* For every ring and every distribution that leaves no node without a chunk, a job
\* that is over has handed out every chunk: no mark, no conflict and no early end of a
\* list makes two workers leave a chunk to each other.
THEOREM NothingLeft ==
    ASSUME NoEmptyList
    PROVE  Spec => []AllClaimed
<1>1. Init => CoverInv
  BY InitCover
<1>2. IInv /\ OrderInv /\ CoverInv /\ [Next]_vars => CoverInv'
  BY NextCover
<1>3. CoverInv => AllClaimed
  BY DEF CoverInv
<1> QED BY <1>1, <1>2, <1>3, InitOrder, NextOrder, Invariance, PTL DEF Spec
=============================================================================
