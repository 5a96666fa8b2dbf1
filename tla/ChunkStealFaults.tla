-------------------------- MODULE ChunkStealFaults --------------------------
(***************************************************************************)
(* What is left of the stealing protocol when processes die and sessions   *)
(* expire: ZooKeeper then removes marks, locks and "Done" under the feet of*)
(* the other workers. Two workers may produce the same chunk (a thief's    *)
(* lock goes with its session), but between a live owner and a live thief  *)
(* the owner's mark keeps its meaning, for any number of faults.           *)
(***************************************************************************)
EXTENDS ChunkStealProofs

\* The owner's own mark: an ephemeral znode that stays while the owner lives.
MarkAt(n, h) == lock[<<n, h>>] = Znode("1", n)

\* Where a worker may be, faults or not.
Place(i) ==
    /\ phase[i] > 1 => stealing[i]
    /\ phase[i] = 3 => pc[i] # "enter"
    /\ pc[i] \in {"mark", "setDone"} => phase[i] = 1 /\ ~stealing[i]
    /\ pc[i] \in {"publishEof", "publishMark", "publishDone"} => phase[i] = 1
    /\ pc[i] \in {"mark", "setDone", "lock", "conflict", "produce"} => HasChunk(i)
    /\ pc[i] \in {"lock", "conflict"} => stealing[i]
    /\ pc[i] = "crashed" => ~session[i]
Places == \A i \in Node : Place(i)

\* A live owner that lets thieves in has a mark of its own.
MarkedByOwner ==
    \A n \in Node : session[n] /\ Marked(n) => \E h \in 1 .. Num[n] : MarkAt(n, h)

\* Before that nobody is past the wait for "Done", and no chunk is locked.
ShutBefore ==
    \A n \in Node : session[n] /\ ~Open(n) =>
        /\ eof[n].val # "Done"
        /\ \A j \in 1 .. Num[n] : lock[<<n, j>>].val # "0"
        /\ \A i \in Node : phase[i] > 1 /\ target(i) = n => pc[i] \notin {"lock", "conflict"}

\* Nobody else marks a list.
OwnMarks ==
    \A n \in Node : \A j \in 1 .. Num[n] :
        lock[<<n, j>>].val = "1" => lock[<<n, j>>].by = n

\* A live thief that goes through a live owner's list has a mark before it.
ThiefAhead ==
    \A i, n \in Node : session[i] /\ session[n] /\ phase[i] > 1 /\ target(i) = n =>
        /\ pc[i] = "loop" =>
              k[i] = Num[n] \/ \E h \in 1 .. Num[n] : MarkAt(n, h) /\ h <= k[i]
        /\ pc[i] \in {"lock", "conflict"} =>
              \E h \in 1 .. Num[n] : MarkAt(n, h) /\ h <= k[i]
        /\ pc[i] = "produce" => \E h \in 1 .. Num[n] : MarkAt(n, h) /\ h < k[i]

\* So what it took lies behind a mark.
LootAhead ==
    \A n, s \in Node : \A j \in 1 .. Num[n] :
        s \in claimed[<<n, j>>] /\ s # n /\ session[s] /\ session[n] =>
            \E h \in 1 .. j - 1 : MarkAt(n, h)

\* The inductive invariant under faults.
FaultInv ==
    /\ TypeOK /\ Places
    /\ MarkedByOwner /\ ShutBefore /\ OwnMarks /\ ThiefAhead /\ LootAhead
-----------------------------------------------------------------------------
\* The steps of a worker that leave its session alone.
Work(i) == Step(i) /\ ~CloseSession(i)

\* Who is where, and has what at hand.
LEMMA PlaceFacts ==
    ASSUME FaultInv, NEW i \in Node
    PROVE  /\ TypeOK /\ Place(i) /\ phase[i] \in 1 .. 3 /\ k[i] \in Nat
           /\ target(i) \in Node /\ Num[target(i)] \in Nat
           /\ HasChunk(i) => Current(i) \in Chunk /\ k[i] > 0
           /\ target(i) = i <=> phase[i] = 1
<1>1. TypeOK /\ Place(i)
  BY DEF FaultInv, Places
<1>2. phase[i] \in 1 .. 3 /\ k[i] \in Nat
  BY <1>1 DEF TypeOK
<1>3. target(i) \in Node /\ Num[target(i)] \in Nat
  BY <1>1, CurrentFacts, NumAssumption
<1>4. HasChunk(i) => Current(i) \in Chunk /\ k[i] > 0
  BY <1>1, <1>2, <1>3, CurrentFacts DEF HasChunk
<1>5. phase[i] = 1 \/ phase[i] \in 2 .. 3
  BY <1>2
<1> QED BY <1>1, <1>2, <1>3, <1>4, <1>5, TargetFacts DEF target

\* zoo_create with or without a session.
LEMMA CreateAny ==
    ASSUME TypeOK, NEW i \in Node, NEW c \in Chunk, NEW val \in {"0", "1"}, CreateLock(i, c, val)
    PROVE  /\ lock' \in [Chunk -> {NoZnode} \cup [val : {"0", "1"}, by : Node]]
           /\ \A d \in Chunk : \/ lock'[d] = lock[d]
                               \/ d = c /\ lock[d] = NoZnode /\ lock'[d] = Znode(val, i)
           /\ session[i] /\ lock[c] = NoZnode => lock'[c] = Znode(val, i)
<1>1. Znode(val, i) \in [val : {"0", "1"}, by : Node]
  BY DEF Znode
<1> QED BY <1>1 DEF CreateLock, Absent, TypeOK

\* Which locks a step may add: the owner's marks, or the lock of the chunk at hand.
LEMMA NewLock ==
    ASSUME FaultInv, NoEmptyList, NEW i \in Node, Work(i)
    PROVE  /\ lock' \in [Chunk -> {NoZnode} \cup [val : {"0", "1"}, by : Node]]
           /\ \A c \in Chunk :
                \/ lock'[c] = lock[c]
                \/ /\ lock[c] = NoZnode
                   /\ \/ MarkCurrent(i) /\ c = <<i, k[i]>> /\ lock'[c] = Znode("1", i)
                      \/ PublishMark(i) /\ c = <<i, Num[i]>> /\ lock'[c] = Znode("1", i)
                      \/ TakeLock(i) /\ c = Current(i) /\ lock'[c] = Znode("0", i)
<1> TypeOK /\ Place(i)
  BY PlaceFacts
<1>1. CASE MarkCurrent(i)
  <2>1. HasChunk(i) /\ target(i) = i /\ Current(i) \in Chunk /\ Current(i) = <<i, k[i]>>
    BY <1>1, PlaceFacts DEF MarkCurrent, Place, Current
  <2> QED BY <1>1, <2>1, CreateAny DEF MarkCurrent
<1>2. CASE TakeLock(i)
  <2>1. HasChunk(i) /\ Current(i) \in Chunk
    BY <1>2, PlaceFacts DEF TakeLock, Place
  <2> QED BY <1>2, <2>1, CreateAny DEF TakeLock
<1>3. CASE PublishMark(i)
  <2>1. Num[i] > 0 /\ <<i, Num[i]>> \in Chunk
    BY NumAssumption, ChunkFacts DEF NoEmptyList
  <2>2. <<i, Num[i]>> # NoChunk
    BY <2>1, NoChunkAssumption
  <2>3. CreateLock(i, <<i, Num[i]>>, "1")
    BY <1>3, <2>1, <2>2 DEF PublishMark
  <2> QED BY <1>3, <2>1, <2>3, CreateAny
<1>4. CASE UNCHANGED lock
  BY <1>4 DEF TypeOK
<1> QED
  BY <1>1, <1>2, <1>3, <1>4 DEF Work, Step, ListEnd, LookForThief, LetThievesIn, AwaitDone,
     ReadLock, Produce, FileEnd, PublishEof, PublishDone, EnterNeighbour, zk

\* What the others keep, and what happens to the eof znodes.
LEMMA WorkFrame ==
    ASSUME FaultInv, NEW i \in Node, Work(i)
    PROVE  /\ session' = session
           /\ \A j \in Node \ {i} :
                 /\ pc'[j] = pc[j] /\ phase'[j] = phase[j] /\ k'[j] = k[j]
                 /\ stealing'[j] = stealing[j]
           /\ eof' \in [Node -> {NoZnode} \cup [val : {"None", "Done"}, by : Node]]
           /\ \A n \in Node : eof'[n].val = "Done" /\ eof[n].val # "Done" =>
                 n = i /\ (LetThievesIn(i) \/ PublishDone(i))
<1> TypeOK /\ Place(i) /\ phase[i] \in 1 .. 3
  BY PlaceFacts
<1>1. session' = session
  BY DEF Work, Step, ListEnd, LookForThief, MarkCurrent, LetThievesIn, AwaitDone,
     TakeLock, ReadLock, Produce, FileEnd, PublishEof, PublishMark, PublishDone,
     EnterNeighbour, zk
<1>2. \A j \in Node \ {i} :
         /\ pc'[j] = pc[j] /\ phase'[j] = phase[j] /\ k'[j] = k[j]
         /\ stealing'[j] = stealing[j]
  BY DEF Work, Step, ListEnd, LookForThief, MarkCurrent, LetThievesIn, AwaitDone,
     TakeLock, ReadLock, Produce, FileEnd, PublishEof, PublishMark, PublishDone,
     EnterNeighbour, zk, Goto, Advance, TypeOK
<1>3. /\ eof' \in [Node -> {NoZnode} \cup [val : {"None", "Done"}, by : Node]]
      /\ \A n \in Node : eof'[n].val = "Done" /\ eof[n].val # "Done" =>
            n = i /\ (LetThievesIn(i) \/ PublishDone(i))
  <2>1. CASE LetThievesIn(i) \/ PublishDone(i)
    BY <2>1, SetDoneFacts DEF LetThievesIn, PublishDone
  <2>2. CASE PublishEof(i)
    BY <2>2, CreateEofFacts DEF PublishEof
  <2>3. CASE EnterNeighbour(i)
    <3>1. phase[i] + 1 \in 2 .. 3
      BY <2>3 DEF EnterNeighbour, Place
    <3>2. EofTarget(i, phase[i] + 1) \in Node
      BY <3>1, TargetFacts, RingFacts DEF EofTarget
    <3> QED BY <2>3, <3>2, CreateEofFacts DEF EnterNeighbour
  <2>4. CASE UNCHANGED eof
    BY <2>4 DEF TypeOK
  <2> QED
    BY <2>1, <2>2, <2>3, <2>4 DEF Work, Step, ListEnd, LookForThief, MarkCurrent,
       AwaitDone, TakeLock, ReadLock, Produce, FileEnd, PublishMark, zk
<1> QED BY <1>1, <1>2, <1>3

\* No step of a worker leaves the types.
LEMMA WorkTypes ==
    ASSUME FaultInv, NoEmptyList, NEW i \in Node, Work(i)
    PROVE  TypeOK'
<1> TypeOK /\ Place(i) /\ phase[i] \in 1 .. 3 /\ k[i] \in Nat
  /\ target(i) \in Node /\ (HasChunk(i) => Current(i) \in Chunk /\ k[i] > 0)
  BY PlaceFacts
<1>1. /\ lock' \in [Chunk -> {NoZnode} \cup [val : {"0", "1"}, by : Node]]
      /\ eof' \in [Node -> {NoZnode} \cup [val : {"None", "Done"}, by : Node]]
      /\ session' \in [Node -> BOOLEAN]
  BY NewLock, WorkFrame DEF TypeOK
<1>2. pc' \in [Node -> Status]
  BY DEF Work, Step, ListEnd, LookForThief, MarkCurrent, LetThievesIn, AwaitDone,
     TakeLock, ReadLock, Produce, FileEnd, PublishEof, PublishMark, PublishDone,
     EnterNeighbour, Goto, TypeOK, Status
<1>3. phase' \in [Node -> 1 .. 3]
  <2>1. CASE EnterNeighbour(i)
    <3>1. phase[i] + 1 \in 1 .. 3
      BY <2>1 DEF EnterNeighbour, Place
    <3> QED BY <2>1, <3>1 DEF EnterNeighbour, TypeOK
  <2>2. CASE UNCHANGED phase
    BY <2>2 DEF TypeOK
  <2> QED
    BY <2>1, <2>2 DEF Work, Step, ListEnd, LookForThief, MarkCurrent, LetThievesIn, AwaitDone,
       TakeLock, ReadLock, Produce, FileEnd, PublishEof, PublishMark, PublishDone
<1>4. k' \in [Node -> Nat]
  <2>1. CASE Produce(i) \/ ReadLock(i)
    <3>1. k[i] > 0
      BY <2>1 DEF Produce, ReadLock, Place
    <3> QED BY <2>1, <3>1 DEF Produce, ReadLock, Advance, TypeOK
  <2>2. CASE EnterNeighbour(i)
    <3>1. phase[i] + 1 \in 1 .. 3
      BY <2>2 DEF EnterNeighbour, Place
    <3>2. Num[Target(i, phase[i] + 1)] \in Nat
      BY <3>1, TargetFacts, NumAssumption
    <3> QED BY <2>2, <3>2 DEF EnterNeighbour, TypeOK
  <2>3. CASE UNCHANGED k
    BY <2>3 DEF TypeOK
  <2> QED
    BY <2>1, <2>2, <2>3 DEF Work, Step, ListEnd, LookForThief, MarkCurrent, LetThievesIn,
       AwaitDone, TakeLock, FileEnd, PublishEof, PublishMark, PublishDone
<1>5. stealing' \in [Node -> BOOLEAN] /\ end' \in [Node -> BOOLEAN]
  BY DEF Work, Step, ListEnd, LookForThief, MarkCurrent, LetThievesIn, AwaitDone,
     TakeLock, ReadLock, Produce, FileEnd, PublishEof, PublishMark, PublishDone,
     EnterNeighbour, TypeOK, Absent
<1>6. claimed' \in [Chunk -> SUBSET Node]
  <2>1. CASE Produce(i)
    BY <2>1 DEF Produce, Place, TypeOK
  <2>2. CASE UNCHANGED claimed
    BY <2>2 DEF TypeOK
  <2> QED
    BY <2>1, <2>2 DEF Work, Step, ListEnd, LookForThief, MarkCurrent, LetThievesIn, AwaitDone,
       TakeLock, ReadLock, FileEnd, PublishEof, PublishMark, PublishDone, EnterNeighbour
<1> QED BY <1>1, <1>2, <1>3, <1>4, <1>5, <1>6 DEF TypeOK

\* No step of a worker leads to a place its flags do not allow.
LEMMA WorkPlaces ==
    ASSUME FaultInv, NEW i \in Node, Work(i)
    PROVE  Places'
<1> TypeOK /\ Place(i) /\ phase[i] \in 1 .. 3 /\ k[i] \in Nat
  BY PlaceFacts
<1>1. ASSUME NEW j \in Node, j # i PROVE Place(j)'
  <2>1. Place(j)
    BY DEF FaultInv, Places
  <2>2. /\ pc'[j] = pc[j] /\ phase'[j] = phase[j] /\ k'[j] = k[j]
        /\ stealing'[j] = stealing[j] /\ session' = session
    BY <1>1, WorkFrame
  <2> QED BY <2>1, <2>2 DEF Place, HasChunk, target
<1>2. Place(i)'
  <2>1. CASE ListEnd(i)
    BY <2>1 DEF ListEnd, Goto, Place, HasChunk, target, TypeOK, zk
  <2>2. CASE LookForThief(i)
    BY <2>2 DEF LookForThief, Goto, Place, HasChunk, target, TypeOK, zk
  <2>3. CASE MarkCurrent(i)
    BY <2>3 DEF MarkCurrent, Goto, Place, HasChunk, target, TypeOK
  <2>4. CASE LetThievesIn(i)
    BY <2>4 DEF LetThievesIn, Goto, Place, HasChunk, target, TypeOK
  <2>5. CASE AwaitDone(i)
    BY <2>5 DEF AwaitDone, Goto, Place, HasChunk, target, TypeOK, zk
  <2>6. CASE TakeLock(i)
    BY <2>6 DEF TakeLock, Goto, Place, HasChunk, target, TypeOK
  <2>7. CASE ReadLock(i)
    BY <2>7 DEF ReadLock, Goto, Place, HasChunk, target, TypeOK, zk
  <2>8. CASE Produce(i)
    BY <2>8 DEF Produce, Goto, Place, HasChunk, target, TypeOK, zk
  <2>9. CASE FileEnd(i)
    BY <2>9 DEF FileEnd, Goto, Place, HasChunk, target, TypeOK, zk, Exhausted
  <2>10. CASE PublishEof(i)
    BY <2>10 DEF PublishEof, Goto, Place, HasChunk, target, TypeOK
  <2>11. CASE PublishMark(i)
    BY <2>11 DEF PublishMark, Goto, Place, HasChunk, target, TypeOK
  <2>12. CASE PublishDone(i)
    BY <2>12 DEF PublishDone, Goto, Place, HasChunk, target, TypeOK
  <2>13. CASE EnterNeighbour(i)
    BY <2>13 DEF EnterNeighbour, Goto, Place, HasChunk, target, TypeOK
  <2> QED
    BY <2>1, <2>2, <2>3, <2>4, <2>5, <2>6, <2>7, <2>8, <2>9, <2>10, <2>11, <2>12, <2>13
       DEF Work, Step
<1> QED BY <1>1, <1>2 DEF Places

\* A mark stays while its owner lives.
LEMMA MarkKept ==
    ASSUME FaultInv, NoEmptyList, NEW i \in Node, Work(i), NEW n \in Node, NEW h \in 1 .. Num[n],
           MarkAt(n, h)
    PROVE  MarkAt(n, h)'
<1>1. <<n, h>> \in Chunk /\ lock[<<n, h>>] # NoZnode
  BY ChunkFacts DEF MarkAt, Znode, NoZnode
<1> QED BY <1>1, NewLock DEF MarkAt, Znode

\* The owner that lets thieves in has marked the chunk at hand, or its last one.
LEMMA WorkMarked ==
    ASSUME FaultInv, NoEmptyList, NEW i \in Node, Work(i)
    PROVE  MarkedByOwner'
<1> SUFFICES ASSUME NEW n \in Node, session'[n], Marked(n)'
             PROVE  \E h \in 1 .. Num[n] : MarkAt(n, h)'
  BY DEF MarkedByOwner
<1> TypeOK /\ Place(n) /\ session[n]
  BY PlaceFacts, WorkFrame
<1>1. CASE Marked(n)
  <2>1. PICK h \in 1 .. Num[n] : MarkAt(n, h)
    BY <1>1 DEF FaultInv, MarkedByOwner
  <2> QED BY <2>1, MarkKept
<1>2. CASE ~Marked(n)
  <2>1. i = n
    BY <1>2, WorkFrame DEF Marked, Open
  <2>2. MarkCurrent(n) \/ PublishMark(n)
    BY <1>2, <2>1 DEF Work, Step, ListEnd, LookForThief, LetThievesIn, AwaitDone,
       TakeLock, ReadLock, Produce, FileEnd, PublishEof, PublishDone, EnterNeighbour,
       Marked, Open, Goto, TypeOK, Place, zk
  <2>3. PICK h \in 1 .. Num[n] : CreateLock(n, <<n, h>>, "1")
    <3>1. CASE MarkCurrent(n)
      <4>1. k[n] \in 1 .. Num[n] /\ Current(n) = <<n, k[n]>>
        BY <3>1, PlaceFacts DEF MarkCurrent, Place, HasChunk, Current
      <4> QED BY <3>1, <4>1 DEF MarkCurrent
    <3>2. CASE PublishMark(n)
      <4>1. Num[n] \in 1 .. Num[n] /\ <<n, Num[n]>> \in Chunk
        BY NumAssumption, ChunkFacts DEF NoEmptyList
      <4>2. <<n, Num[n]>> # NoChunk
        BY <4>1, NoChunkAssumption
      <4> QED BY <3>2, <4>1, <4>2 DEF PublishMark
    <3> QED BY <2>2, <3>1, <3>2
  <2>4. <<n, h>> \in Chunk
    BY ChunkFacts
  <2>5. lock[<<n, h>>].val # "0"
    BY <1>2 DEF FaultInv, ShutBefore, Marked
  <2>6. CASE lock[<<n, h>>] = NoZnode
    <3>1. lock'[<<n, h>>] = Znode("1", n)
      BY <2>3, <2>4, <2>6, CreateAny
    <3> QED BY <3>1 DEF MarkAt
  <2>7. CASE lock[<<n, h>>] # NoZnode
    <3>1. lock[<<n, h>>] \in [val : {"0", "1"}, by : Node]
      BY <2>4, <2>7 DEF TypeOK
    <3>2. lock[<<n, h>>].val = "1" /\ lock[<<n, h>>].by = n
      BY <2>5, <3>1 DEF FaultInv, OwnMarks
    <3>3. MarkAt(n, h)
      BY <3>1, <3>2 DEF MarkAt, Znode
    <3> QED BY <3>3, MarkKept
  <2> QED BY <2>6, <2>7
<1> QED BY <1>1, <1>2

\* Until then no step gets anybody past the wait.
LEMMA WorkShut ==
    ASSUME FaultInv, NoEmptyList, NEW i \in Node, Work(i)
    PROVE  ShutBefore'
<1> SUFFICES ASSUME NEW n \in Node, session'[n], ~Open(n)'
             PROVE  /\ eof'[n].val # "Done"
                    /\ \A j \in 1 .. Num[n] : lock'[<<n, j>>].val # "0"
                    /\ \A t \in Node : phase'[t] > 1 /\ target(t)' = n =>
                          pc'[t] \notin {"lock", "conflict"}
  BY DEF ShutBefore
<1> TypeOK /\ Place(i) /\ session[n]
  BY PlaceFacts, WorkFrame
<1>1. ~Open(n)
  <2>1. CASE i # n
    BY <2>1, WorkFrame DEF Open
  <2>2. CASE i = n
    BY <2>2 DEF Work, Step, ListEnd, LookForThief, MarkCurrent, LetThievesIn, AwaitDone,
       TakeLock, ReadLock, Produce, FileEnd, PublishEof, PublishMark, PublishDone,
       EnterNeighbour, Open, Goto, TypeOK
  <2> QED BY <2>1, <2>2
<1>2. /\ eof[n].val # "Done"
      /\ \A j \in 1 .. Num[n] : lock[<<n, j>>].val # "0"
      /\ \A t \in Node : phase[t] > 1 /\ target(t) = n => pc[t] \notin {"lock", "conflict"}
  BY <1>1 DEF FaultInv, ShutBefore
<1>3. eof'[n].val # "Done"
  <2> SUFFICES ASSUME eof'[n].val = "Done" PROVE FALSE
    OBVIOUS
  <2>1. n = i /\ (LetThievesIn(i) \/ PublishDone(i))
    BY <1>2, WorkFrame
  <2> QED BY <2>1 DEF LetThievesIn, PublishDone, Open, Goto, TypeOK
<1>4. ASSUME NEW j \in 1 .. Num[n], lock'[<<n, j>>].val = "0" PROVE FALSE
  <2>1. <<n, j>> \in Chunk /\ lock'[<<n, j>>] # lock[<<n, j>>]
    BY <1>2, <1>4, ChunkFacts
  <2>2. TakeLock(i) /\ Current(i) = <<n, j>>
    <3>1. PICK c \in Chunk : c = <<n, j>>
      BY <2>1
    <3>2. lock'[c].val = "0" /\ lock'[c] # lock[c] /\ Znode("1", i).val = "1"
      BY <1>4, <2>1, <3>1 DEF Znode
    <3>3. TakeLock(i) /\ c = Current(i)
      BY <3>2, NewLock
    <3> QED BY <3>1, <3>3
  <2>3. target(i) = n /\ pc[i] = "lock" /\ stealing[i]
    BY <2>2 DEF Current, TakeLock, Place
  <2>4. phase[i] = 1
    BY <1>2, <2>3, PlaceFacts
  <2>5. i = n
    BY <2>3, <2>4, PlaceFacts
  <2> QED BY <1>1, <2>3, <2>5 DEF Open
<1>5. ASSUME NEW t \in Node, phase'[t] > 1, target(t)' = n, pc'[t] \in {"lock", "conflict"}
      PROVE  FALSE
  <2>1. CASE t # i
    <3>1. phase[t] > 1 /\ target(t) = n /\ pc[t] \in {"lock", "conflict"}
      BY <1>5, <2>1, WorkFrame DEF target
    <3> QED BY <1>2, <3>1
  <2>2. CASE t = i
    <3>1. AwaitDone(i) \/ TakeLock(i)
      BY <1>5, <2>2 DEF Work, Step, ListEnd, LookForThief, MarkCurrent, LetThievesIn, AwaitDone,
         TakeLock, ReadLock, Produce, FileEnd, PublishEof, PublishMark, PublishDone,
         EnterNeighbour, Goto, TypeOK
    <3>2. phase' = phase
      BY <3>1 DEF AwaitDone, TakeLock
    <3>3. target(i) = n /\ phase[i] > 1
      BY <1>5, <2>2, <3>2 DEF target
    <3> QED BY <1>2, <3>1, <3>3 DEF AwaitDone, TakeLock
  <2> QED BY <2>1, <2>2
<1> QED BY <1>3, <1>4, <1>5

\* Only the owner puts marks into its list, and it has one to put them into.
LEMMA WorkOwnMarks ==
    ASSUME FaultInv, NoEmptyList, NEW i \in Node, Work(i)
    PROVE  OwnMarks'
<1> SUFFICES ASSUME NEW n \in Node, NEW j \in 1 .. Num[n], lock'[<<n, j>>].val = "1"
             PROVE  lock'[<<n, j>>].by = n
  BY DEF OwnMarks
<1>1. <<n, j>> \in Chunk
  BY ChunkFacts
<1>2. CASE lock'[<<n, j>>] = lock[<<n, j>>]
  BY <1>2 DEF FaultInv, OwnMarks
<1>3. CASE lock'[<<n, j>>] # lock[<<n, j>>]
  <2>1. (<<n, j>> = <<i, k[i]>> \/ <<n, j>> = <<i, Num[i]>>) /\ lock'[<<n, j>>] = Znode("1", i)
    <3>1. PICK c \in Chunk : c = <<n, j>>
      BY <1>1
    <3>2. lock'[c].val = "1" /\ lock'[c] # lock[c] /\ Znode("0", i).val = "0"
      BY <1>3, <3>1 DEF Znode
    <3>3. (c = <<i, k[i]>> \/ c = <<i, Num[i]>>) /\ lock'[c] = Znode("1", i)
      BY <3>2, NewLock
    <3> QED BY <3>1, <3>3
  <2> QED BY <2>1 DEF Znode
<1> QED BY <1>2, <1>3

\* A thief goes backwards and does not pass the mark.
LEMMA WorkThief ==
    ASSUME FaultInv, NoEmptyList, NEW i \in Node, Work(i)
    PROVE  ThiefAhead'
<1> SUFFICES ASSUME NEW t \in Node, NEW n \in Node, session'[t], session'[n],
                    phase'[t] > 1, target(t)' = n
             PROVE  /\ pc'[t] = "loop" =>
                          k'[t] = Num[n] \/ \E h \in 1 .. Num[n] : MarkAt(n, h)' /\ h <= k'[t]
                    /\ pc'[t] \in {"lock", "conflict"} =>
                          \E h \in 1 .. Num[n] : MarkAt(n, h)' /\ h <= k'[t]
                    /\ pc'[t] = "produce" =>
                          \E h \in 1 .. Num[n] : MarkAt(n, h)' /\ h < k'[t]
  BY DEF ThiefAhead
<1> TypeOK /\ Place(t) /\ session[t] /\ session[n] /\ k[t] \in Nat /\ phase[t] \in 1 .. 3
    /\ Num[n] \in Nat
  BY PlaceFacts, WorkFrame, NumAssumption
<1>1. ASSUME NEW h \in 1 .. Num[n], MarkAt(n, h) PROVE MarkAt(n, h)'
  BY <1>1, MarkKept
<1>2. CASE t # i
  <2>1. phase[t] > 1 /\ target(t) = n /\ pc'[t] = pc[t] /\ k'[t] = k[t]
    BY <1>2, WorkFrame DEF target
  <2>2. /\ pc[t] = "loop" =>
              k[t] = Num[n] \/ \E h \in 1 .. Num[n] : MarkAt(n, h) /\ h <= k[t]
        /\ pc[t] \in {"lock", "conflict"} =>
              \E h \in 1 .. Num[n] : MarkAt(n, h) /\ h <= k[t]
        /\ pc[t] = "produce" => \E h \in 1 .. Num[n] : MarkAt(n, h) /\ h < k[t]
    BY <2>1 DEF FaultInv, ThiefAhead
  <2> QED BY <1>1, <2>1, <2>2
<1>3. CASE t = i
  <2>1. CASE EnterNeighbour(t)
    <3>1. pc'[t] = "loop" /\ phase'[t] = phase[t] + 1 /\ k'[t] = Num[Target(t, phase[t] + 1)]
      BY <2>1 DEF EnterNeighbour, Goto, TypeOK
    <3> QED BY <3>1 DEF target
  <2>2. CASE ~EnterNeighbour(t)
    <3>1. phase'[t] = phase[t]
      BY <1>3, <2>2 DEF Work, Step, ListEnd, LookForThief, MarkCurrent, LetThievesIn, AwaitDone,
         TakeLock, ReadLock, Produce, FileEnd, PublishEof, PublishMark, PublishDone
    <3>2. phase[t] > 1 /\ target(t) = n /\ stealing[t]
      BY <3>1 DEF target, Place
    <3>3. /\ pc[t] = "loop" =>
                k[t] = Num[n] \/ \E h \in 1 .. Num[n] : MarkAt(n, h) /\ h <= k[t]
          /\ pc[t] \in {"lock", "conflict"} =>
                \E h \in 1 .. Num[n] : MarkAt(n, h) /\ h <= k[t]
          /\ pc[t] = "produce" => \E h \in 1 .. Num[n] : MarkAt(n, h) /\ h < k[t]
      BY <3>2 DEF FaultInv, ThiefAhead
    <3>4. CASE AwaitDone(t)
      <4>1. eof[n].val = "Done" /\ pc'[t] = "lock" /\ k' = k /\ pc[t] = "loop"
            /\ k[t] \in 1 .. Num[n]
        BY <3>2, <3>4 DEF AwaitDone, Goto, TypeOK, HasChunk
      <4>2. Marked(n)
        BY <4>1 DEF FaultInv, ShutBefore, Marked
      <4>3. PICK h \in 1 .. Num[n] : MarkAt(n, h)
        BY <4>2 DEF FaultInv, MarkedByOwner
      <4>4. \E g \in 1 .. Num[n] : MarkAt(n, g) /\ g <= k[t]
        <5>1. CASE k[t] = Num[n]
          BY <4>3, <5>1
        <5>2. CASE k[t] # Num[n]
          BY <3>3, <4>1, <5>2
        <5> QED BY <5>1, <5>2
      <4> QED BY <1>1, <4>1, <4>4
    <3>5. CASE TakeLock(t)
      <4>1. PICK h \in 1 .. Num[n] : MarkAt(n, h) /\ h <= k[t]
        BY <3>3, <3>5 DEF TakeLock
      <4>2. k' = k /\ pc'[t] = IF Absent(lock[Current(t)]) /\ session[t] THEN "produce" ELSE "conflict"
        BY <3>5 DEF TakeLock, Goto, TypeOK
      <4>3. Absent(lock[Current(t)]) => h # k[t]
        BY <3>2, <4>1 DEF Absent, Current, MarkAt, Znode, NoZnode
      <4>4. MarkAt(n, h)'
        BY <1>1, <4>1
      <4>5. Absent(lock[Current(t)]) => h < k[t]
        BY <4>1, <4>3
      <4> QED BY <4>1, <4>2, <4>4, <4>5
    <3>6. CASE ReadLock(t)
      <4>1. PICK h \in 1 .. Num[n] : MarkAt(n, h) /\ h <= k[t]
        BY <3>3, <3>6 DEF ReadLock
      <4>2. MarkAt(n, h)'
        BY <1>1, <4>1
      <4>3. h = k[t] => lock[Current(t)].val = "1" /\ ~Absent(lock[Current(t)])
        BY <3>2, <4>1 DEF Absent, Current, MarkAt, Znode, NoZnode
      <4>4. CASE Absent(lock[Current(t)]) /\ pc'[t] = "produce" /\ k' = k
        <5>1. h < k[t]
          BY <4>1, <4>3, <4>4
        <5> QED BY <4>2, <4>4, <5>1
      <4>5. CASE pc'[t] = "fileEnd"
        BY <4>5
      <4>6. CASE lock[Current(t)].val = "0" /\ pc'[t] = "loop" /\ k'[t] = k[t] - 1
        <5>1. h <= k[t] - 1
          BY <4>1, <4>3, <4>6
        <5> QED BY <4>2, <4>6, <5>1
      <4> QED BY <3>2, <3>6, <4>4, <4>5, <4>6 DEF ReadLock, Goto, Advance, TypeOK
    <3>7. CASE Produce(t)
      <4>1. PICK h \in 1 .. Num[n] : MarkAt(n, h) /\ h < k[t]
        BY <3>3, <3>7 DEF Produce
      <4>2. MarkAt(n, h)'
        BY <1>1, <4>1
      <4>3. pc'[t] = "loop" /\ k'[t] = k[t] - 1
        BY <3>2, <3>7 DEF Produce, Goto, Advance, TypeOK
      <4>4. h <= k[t] - 1
        BY <4>1
      <4> QED BY <4>2, <4>3, <4>4
    <3>8. CASE ~AwaitDone(t) /\ ~TakeLock(t) /\ ~ReadLock(t) /\ ~Produce(t)
      <4>1. pc'[t] \notin {"loop", "lock", "conflict", "produce"}
        BY <1>3, <2>2, <3>2, <3>8 DEF Work, Step, ListEnd, LookForThief, MarkCurrent,
           LetThievesIn, FileEnd, PublishEof, PublishMark, PublishDone, Goto, TypeOK, Place
      <4> QED BY <4>1
    <3> QED BY <3>4, <3>5, <3>6, <3>7, <3>8
  <2> QED BY <2>1, <2>2
<1> QED BY <1>2, <1>3

\* What a live thief produces next lies behind a mark of a live owner.
LEMMA WorkLoot ==
    ASSUME FaultInv, NoEmptyList, NEW i \in Node, Work(i)
    PROVE  LootAhead'
<1> SUFFICES ASSUME NEW n \in Node, NEW s \in Node, NEW j \in 1 .. Num[n],
                    s \in claimed'[<<n, j>>], s # n, session'[s], session'[n]
             PROVE  \E h \in 1 .. j - 1 : MarkAt(n, h)'
  BY DEF LootAhead
<1> TypeOK /\ session[s] /\ session[n] /\ Num[n] \in Nat
  BY PlaceFacts, WorkFrame, NumAssumption
<1>1. \E h \in 1 .. j - 1 : MarkAt(n, h)
  <2>1. CASE s \in claimed[<<n, j>>]
    BY <2>1 DEF FaultInv, LootAhead
  <2>2. CASE s \notin claimed[<<n, j>>]
    <3>1. <<n, j>> \in Chunk
      BY ChunkFacts
    <3>2. Produce(i) /\ s = i /\ Current(i) = <<n, j>>
      <4>1. claimed' # claimed
        BY <2>2
      <4>2. Produce(i)
        BY <4>1 DEF Work, Step, ListEnd, LookForThief, MarkCurrent, LetThievesIn, AwaitDone,
           TakeLock, ReadLock, FileEnd, PublishEof, PublishMark, PublishDone, EnterNeighbour
      <4> QED BY <2>2, <3>1, <4>2 DEF Produce, TypeOK
    <3>3. target(i) = n /\ k[i] = j /\ phase[i] > 1 /\ pc[i] = "produce"
      BY <3>2, PlaceFacts DEF Current, Produce
    <3>4. PICK h \in 1 .. Num[n] : MarkAt(n, h) /\ h < j
      BY <3>2, <3>3 DEF FaultInv, ThiefAhead
    <3> QED BY <3>4
  <2> QED BY <2>1, <2>2
<1>2. PICK h \in 1 .. j - 1 : MarkAt(n, h)
  BY <1>1
<1>3. h \in 1 .. Num[n]
  OBVIOUS
<1> QED BY <1>2, <1>3, MarkKept

\* Every step that leaves the session alone keeps the invariant.
LEMMA WorkStep ==
    ASSUME FaultInv, NoEmptyList, NEW i \in Node, Work(i)
    PROVE  FaultInv'
BY WorkTypes, WorkPlaces, WorkMarked, WorkShut, WorkOwnMarks, WorkThief, WorkLoot DEF FaultInv
-----------------------------------------------------------------------------
\* The end of a session, wanted or not.
LEMMA DropStep ==
    ASSUME FaultInv, NEW i \in Node, DropEphemerals(i),
           UNCHANGED <<phase, k, stealing, end, claimed>>,
           \/ UNCHANGED pc
           \/ \E where \in {"closed", "crashed"} : Goto(i, where)
    PROVE  FaultInv'
<1> TypeOK
  BY DEF FaultInv
<1>1. /\ \A n \in Node : session'[n] => n # i /\ session[n]
      /\ ~session'[i] /\ session' \in [Node -> BOOLEAN]
  BY DEF DropEphemerals, TypeOK
<1>2. /\ pc' \in [Node -> Status] /\ \A j \in Node : j # i => pc'[j] = pc[j]
      /\ pc'[i] \in {pc[i], "closed", "crashed"}
  BY DEF Goto, TypeOK, Status
<1>3. /\ lock' \in [Chunk -> {NoZnode} \cup [val : {"0", "1"}, by : Node]]
      /\ \A c \in Chunk : lock'[c] = lock[c] \/ lock'[c] = NoZnode
      /\ \A c \in Chunk : lock[c].by # i => lock'[c] = lock[c]
  BY DEF DropEphemerals, TypeOK
<1>4. /\ eof' \in [Node -> {NoZnode} \cup [val : {"None", "Done"}, by : Node]]
      /\ \A n \in Node : eof'[n].val = "Done" => eof[n].val = "Done"
  BY DEF DropEphemerals, TypeOK, NoZnode
<1>5. TypeOK'
  BY <1>1, <1>2, <1>3, <1>4 DEF TypeOK
<1>6. Places'
  <2> SUFFICES ASSUME NEW j \in Node PROVE Place(j)'
    BY DEF Places
  <2>1. Place(j)
    BY DEF FaultInv, Places
  <2>2. session'[j] => session[j]
    BY <1>1
  <2>3. pc'[j] = pc[j] \/ (j = i /\ pc'[j] \in {"closed", "crashed"})
    BY <1>2
  <2> QED BY <1>1, <2>1, <2>2, <2>3 DEF Place, HasChunk, target
<1>7. ASSUME NEW n \in Node, session'[n], NEW h \in 1 .. Num[n], MarkAt(n, h)
      PROVE  MarkAt(n, h)'
  <2>1. <<n, h>> \in Chunk /\ lock[<<n, h>>].by = n
    BY <1>7, ChunkFacts DEF MarkAt, Znode
  <2> QED BY <1>1, <1>3, <1>7, <2>1 DEF MarkAt, Znode
<1>8. MarkedByOwner'
  <2> SUFFICES ASSUME NEW n \in Node, session'[n], Marked(n)'
               PROVE  \E h \in 1 .. Num[n] : MarkAt(n, h)'
    BY DEF MarkedByOwner
  <2>1. session[n] /\ Marked(n)
    BY <1>1, <1>2 DEF Marked, Open
  <2>2. PICK h \in 1 .. Num[n] : MarkAt(n, h)
    BY <2>1 DEF FaultInv, MarkedByOwner
  <2> QED BY <1>7, <2>2
<1>9. ShutBefore'
  <2> SUFFICES ASSUME NEW n \in Node, session'[n], ~Open(n)'
               PROVE  /\ eof'[n].val # "Done"
                      /\ \A j \in 1 .. Num[n] : lock'[<<n, j>>].val # "0"
                      /\ \A t \in Node : phase'[t] > 1 /\ target(t)' = n =>
                            pc'[t] \notin {"lock", "conflict"}
    BY DEF ShutBefore
  <2>1. session[n] /\ ~Open(n)
    BY <1>1, <1>2 DEF Open
  <2>2. /\ eof[n].val # "Done"
        /\ \A j \in 1 .. Num[n] : lock[<<n, j>>].val # "0"
        /\ \A t \in Node : phase[t] > 1 /\ target(t) = n => pc[t] \notin {"lock", "conflict"}
    BY <2>1 DEF FaultInv, ShutBefore
  <2>3. \A j \in 1 .. Num[n] : lock'[<<n, j>>].val # "0"
    BY <1>3, <2>2, ChunkFacts DEF NoZnode
  <2>4. \A t \in Node : phase'[t] > 1 /\ target(t)' = n => pc'[t] \notin {"lock", "conflict"}
    BY <1>2, <2>2 DEF target
  <2> QED BY <1>4, <2>2, <2>3, <2>4
<1>10. OwnMarks'
  <2> SUFFICES ASSUME NEW n \in Node, NEW j \in 1 .. Num[n], lock'[<<n, j>>].val = "1"
               PROVE  lock'[<<n, j>>].by = n
    BY DEF OwnMarks
  <2>1. lock'[<<n, j>>] = lock[<<n, j>>]
    BY <1>3, ChunkFacts DEF NoZnode
  <2> QED BY <2>1 DEF FaultInv, OwnMarks
<1>11. ThiefAhead'
  <2> SUFFICES ASSUME NEW t \in Node, NEW n \in Node, session'[t], session'[n],
                      phase'[t] > 1, target(t)' = n
               PROVE  /\ pc'[t] = "loop" =>
                            k'[t] = Num[n] \/ \E h \in 1 .. Num[n] : MarkAt(n, h)' /\ h <= k'[t]
                      /\ pc'[t] \in {"lock", "conflict"} =>
                            \E h \in 1 .. Num[n] : MarkAt(n, h)' /\ h <= k'[t]
                      /\ pc'[t] = "produce" =>
                            \E h \in 1 .. Num[n] : MarkAt(n, h)' /\ h < k'[t]
    BY DEF ThiefAhead
  <2>1. session[t] /\ session[n] /\ phase[t] > 1 /\ target(t) = n /\ pc'[t] = pc[t] /\ k' = k
    BY <1>1, <1>2 DEF target
  <2>2. /\ pc[t] = "loop" =>
              k[t] = Num[n] \/ \E h \in 1 .. Num[n] : MarkAt(n, h) /\ h <= k[t]
        /\ pc[t] \in {"lock", "conflict"} =>
              \E h \in 1 .. Num[n] : MarkAt(n, h) /\ h <= k[t]
        /\ pc[t] = "produce" => \E h \in 1 .. Num[n] : MarkAt(n, h) /\ h < k[t]
    BY <2>1 DEF FaultInv, ThiefAhead
  <2> QED BY <1>7, <2>1, <2>2
<1>12. LootAhead'
  <2> SUFFICES ASSUME NEW n \in Node, NEW s \in Node, NEW j \in 1 .. Num[n],
                      s \in claimed'[<<n, j>>], s # n, session'[s], session'[n]
               PROVE  \E h \in 1 .. j - 1 : MarkAt(n, h)'
    BY DEF LootAhead
  <2>1. session[s] /\ session[n] /\ s \in claimed[<<n, j>>] /\ Num[n] \in Nat
    BY <1>1, NumAssumption
  <2>2. PICK h \in 1 .. j - 1 : MarkAt(n, h)
    BY <2>1 DEF FaultInv, LootAhead
  <2>3. h \in 1 .. Num[n]
    BY <2>1
  <2> QED BY <1>7, <2>2, <2>3
<1> QED BY <1>5, <1>6, <1>8, <1>9, <1>10, <1>11, <1>12 DEF FaultInv

\* The invariant holds when the job begins.
LEMMA InitFault == Init => FaultInv
<1> SUFFICES ASSUME Init PROVE FaultInv
  OBVIOUS
<1>1. IInv
  BY InitIInv
<1>2. TypeOK
  BY <1>1 DEF IInv
<1>3. \A c \in Chunk : lock[c].val = "absent" /\ claimed[c] = {}
  BY DEF Init, NoZnode
<1>4. \A n \in Node : /\ eof[n].val = "absent" /\ pc[n] = "loop" /\ phase[n] = 1
                      /\ ~stealing[n]
  BY DEF Init, NoZnode
<1>5. Places
  BY <1>4 DEF Places, Place
<1>6. MarkedByOwner /\ ThiefAhead
  BY <1>4 DEF MarkedByOwner, ThiefAhead, Marked, Open
<1>7. ShutBefore
  BY <1>3, <1>4, ChunkFacts DEF ShutBefore
<1>8. OwnMarks /\ LootAhead
  BY <1>3, ChunkFacts DEF OwnMarks, LootAhead
<1> QED BY <1>2, <1>5, <1>6, <1>7, <1>8 DEF FaultInv

\* Every step keeps it, faults included.
LEMMA NextFault == NoEmptyList /\ FaultInv /\ [FaultyNext]_vars => FaultInv'
<1> SUFFICES ASSUME NoEmptyList, FaultInv, [FaultyNext]_vars PROVE FaultInv'
  OBVIOUS
<1>1. ASSUME NEW i \in Node, Work(i) PROVE FaultInv'
  BY <1>1, WorkStep
<1>2. ASSUME NEW i \in Node, CloseSession(i) PROVE FaultInv'
  <2>1. Goto(i, "closed") /\ DropEphemerals(i) /\ UNCHANGED <<phase, k, stealing, end, claimed>>
    BY <1>2 DEF CloseSession
  <2>2. \E where \in {"closed", "crashed"} : Goto(i, where)
    BY <2>1
  <2> QED BY <2>1, <2>2, DropStep
<1>3. ASSUME NEW i \in Node, Crash(i) PROVE FaultInv'
  <2>1. Goto(i, "crashed") /\ DropEphemerals(i) /\ UNCHANGED <<phase, k, stealing, end, claimed>>
    BY <1>3 DEF Crash
  <2>2. \E where \in {"closed", "crashed"} : Goto(i, where)
    BY <2>1
  <2> QED BY <2>1, <2>2, DropStep
<1>4. ASSUME NEW i \in Node, Expire(i) PROVE FaultInv'
  BY <1>4, DropStep DEF Expire
<1>5. CASE UNCHANGED vars
  <2>1. /\ lock' = lock /\ eof' = eof /\ session' = session /\ pc' = pc /\ phase' = phase
        /\ k' = k /\ stealing' = stealing /\ end' = end /\ claimed' = claimed
    BY <1>5 DEF vars
  <2>2. TypeOK'
    BY <2>1 DEF FaultInv, TypeOK
  <2>3. Places'
    BY <2>1 DEF FaultInv, Places, Place, HasChunk, target
  <2>4. MarkedByOwner'
    BY <2>1 DEF FaultInv, MarkedByOwner, MarkAt, Marked, Open
  <2>5. ShutBefore'
    BY <2>1 DEF FaultInv, ShutBefore, Open, target
  <2>6. OwnMarks'
    BY <2>1 DEF FaultInv, OwnMarks
  <2>7. ThiefAhead'
    BY <2>1 DEF FaultInv, ThiefAhead, MarkAt, target
  <2>8. LootAhead'
    BY <2>1 DEF FaultInv, LootAhead, MarkAt
  <2> QED BY <2>2, <2>3, <2>4, <2>5, <2>6, <2>7, <2>8 DEF FaultInv
<1> QED BY <1>1, <1>2, <1>3, <1>4, <1>5 DEF FaultyNext, Next, Finished, Work

\* The invariant holds whatever crashes and expires, and however often.
THEOREM FaultInvariance ==
    ASSUME NoEmptyList
    PROVE  FaultySpec => []FaultInv
<1>1. Init => FaultInv
  BY InitFault
<1>2. FaultInv /\ [FaultyNext]_vars => FaultInv'
  BY NextFault
<1> QED BY <1>1, <1>2, PTL DEF FaultySpec

\* A thief that reads "Done" meets a mark of a live owner, whoever created the eof
\* znode and whatever went away in between.
THEOREM MarkFirst ==
    ASSUME NoEmptyList
    PROVE  FaultySpec => []MarkBeforeDone
<1>1. FaultInv => MarkBeforeDone
  <2> SUFFICES ASSUME FaultInv, NEW n \in Node, session[n], eof[n].val = "Done"
               PROVE  \E j \in 1 .. Num[n] : lock[<<n, j>>].val = "1"
    BY DEF MarkBeforeDone
  <2>1. Marked(n)
    BY DEF FaultInv, ShutBefore, Marked
  <2>2. PICK h \in 1 .. Num[n] : MarkAt(n, h)
    BY <2>1 DEF FaultInv, MarkedByOwner
  <2> QED BY <2>2 DEF MarkAt, Znode
<1> QED BY <1>1, FaultInvariance, PTL

\* What a live owner reads without a lock no live thief reads: a chunk that both of
\* them produced lies behind the owner's mark.
THEOREM LockFreeIsOwn ==
    ASSUME NoEmptyList
    PROVE  FaultySpec => []LockFreeRegionExclusive
<1>1. FaultInv => LockFreeRegionExclusive
  <2> SUFFICES ASSUME FaultInv, NEW c \in Chunk, NEW s \in claimed[c] \ {c[1]},
                      session[s], session[c[1]]
               PROVE  \E j \in 1 .. c[2] - 1 : lock[<<c[1], j>>].val = "1"
    BY DEF LockFreeRegionExclusive
  <2>1. c[1] \in Node /\ c[2] \in 1 .. Num[c[1]] /\ c = <<c[1], c[2]>>
    BY ChunkFacts
  <2>2. s \in Node /\ s # c[1] /\ s \in claimed[<<c[1], c[2]>>]
    BY <2>1 DEF FaultInv, TypeOK
  <2>3. PICK h \in 1 .. c[2] - 1 : MarkAt(c[1], h)
    BY <2>1, <2>2 DEF FaultInv, LootAhead
  <2> QED BY <2>3 DEF MarkAt, Znode
<1> QED BY <1>1, FaultInvariance, PTL
=============================================================================
