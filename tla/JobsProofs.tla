------------------------------ MODULE JobsProofs ------------------------------
(***************************************************************************)
(* Proofs about Jobs and the schedulers, for any number of nodes, chunks,  *)
(* cores and jobs.                                                         *)
(***************************************************************************)
EXTENDS Jobs, SequenceTheorems, FiniteSetTheorems, WellFoundedInduction, TLAPS

(* Induction along a loop, with a set in place of a predicate.             *)
LEMMA SetInduction ==
    ASSUME NEW S, 0 \in S, \A n \in Nat : n \in S => n + 1 \in S
    PROVE  Nat \subseteq S
<1> DEFINE T == {n \in Nat : n \notin S}
           R == OpToRel(<, Nat)
<1>1. IsWellFoundedOn(R, Nat)
  BY NatLessThanWellFounded
<1> SUFFICES ASSUME T # {} PROVE FALSE
  OBVIOUS
<1>2. PICK x \in T : \A y \in T : <<y, x>> \notin R
  <2> HIDE DEF T, R
  <2>1. T \subseteq Nat
    BY DEF T
  <2> QED BY <1>1, <2>1, WFMin, Zenon
<1>3. x # 0 /\ x \in Nat /\ x \notin S
  OBVIOUS
<1>4. x - 1 \in Nat /\ x - 1 \in S
  <2> SUFFICES x - 1 \notin T
    BY <1>3
  <2> SUFFICES <<x - 1, x>> \in R
    BY <1>2
  <2> QED BY <1>3 DEF OpToRel
<1> QED BY <1>3, <1>4

\* What holds before a loop of n rounds and is kept by each holds after it.
LEMMA UpTo ==
    ASSUME NEW n \in Nat, NEW T, 0 \in T, \A i \in 1 .. n : i - 1 \in T => i \in T
    PROVE  0 .. n \subseteq T
<1> DEFINE S == {k \in Nat : k <= n => k \in T}
<1>1. 0 \in S
  OBVIOUS
<1>2. ASSUME NEW k \in Nat, k \in S PROVE k + 1 \in S
  <2> SUFFICES ASSUME k + 1 <= n PROVE k + 1 \in T
    OBVIOUS
  <2>1. k \in T /\ k + 1 \in 1 .. n /\ (k + 1) - 1 = k
    BY <1>2
  <2> QED BY <2>1
<1> HIDE DEF S
<1>3. Nat \subseteq S
  BY <1>1, <1>2, SetInduction
<1> QED BY <1>3 DEF S

\* A loop of n rounds, each of which makes a state of S from one, runs through.
Steps(step, S, n) == step \in [S \X (1 .. n) -> S]
Run(g, base, step, S, n) ==
    g \in [0 .. n -> S] /\ g[0] = base /\ \A i \in 1 .. n : g[i] = step[<<g[i - 1], i>>]

\* A loop of which every round is defined has a run, built round by round.
LEMMA Loop ==
    ASSUME NEW S, NEW base \in S, NEW n \in Nat, NEW step, Steps(step, S, n)
    PROVE  \E g : Run(g, base, step, S, n)
<1> USE DEF Steps
<1> DEFINE Upto(k) == \E g \in [0 .. k -> S] :
               g[0] = base /\ \A i \in 1 .. k : g[i] = step[<<g[i - 1], i>>]
           T == {k \in Nat : Upto(k)}
<1>1. 0 \in T
  <2> DEFINE g == [i \in 0 .. 0 |-> base]
  <2>1. g \in [0 .. 0 -> S] /\ g[0] = base /\ \A i \in 1 .. 0 : g[i] = step[<<g[i - 1], i>>]
    OBVIOUS
  <2> HIDE DEF g
  <2> QED BY <2>1
<1>2. ASSUME NEW k \in 1 .. n, k - 1 \in T PROVE k \in T
  <2>1. PICK g \in [0 .. k - 1 -> S] :
               g[0] = base /\ \A i \in 1 .. k - 1 : g[i] = step[<<g[i - 1], i>>]
    BY <1>2
  <2> DEFINE h == [i \in 0 .. k |-> IF i = k THEN step[<<g[k - 1], k>>] ELSE g[i]]
  <2>2. step[<<g[k - 1], k>>] \in S
    OBVIOUS
  <2>3. h \in [0 .. k -> S] /\ h[0] = base
    BY <2>1, <2>2
  <2>4. ASSUME NEW i \in 1 .. k PROVE h[i] = step[<<h[i - 1], i>>]
    <3>1. CASE i = k
      <4>1. i - 1 \in 0 .. k /\ i - 1 # k /\ h[i - 1] = g[k - 1]
        BY <3>1
      <4>2. h[i] = step[<<g[k - 1], k>>]
        BY <3>1
      <4> HIDE DEF h
      <4> QED BY <3>1, <4>1, <4>2
    <3>2. CASE i # k
      <4>1. i \in 1 .. k - 1 /\ i - 1 \in 0 .. k - 1 /\ h[i] = g[i] /\ h[i - 1] = g[i - 1]
        BY <3>2
      <4> QED BY <2>1, <4>1
    <3> QED BY <3>1, <3>2
  <2> HIDE DEF h
  <2>5. Upto(k)
    BY <2>3, <2>4
  <2> HIDE DEF Upto
  <2> QED BY <2>5
<1> HIDE DEF T
<1>3. n \in T
  BY <1>1, <1>2, UpTo
<1> HIDE DEF Upto
<1>4. Upto(n)
  BY <1>3 DEF T
<1> QED BY <1>4 DEF Upto, Run
-----------------------------------------------------------------------------
(* The chunks of one node.                                                 *)
Item   == [chunk : Nat, node : Node]
LBlock == [host : Node, physical_blocks : Seq(Item), primary_chunk_num : Nat,
           replica_chunk_num : Seq(Nat)]

\* The neighbours of a node are two other nodes, left of it and right of it.
LEMMA Ring ==
    ASSUME NEW n \in Node
    PROVE  /\ LeftOf(n) \in Node /\ RightOf(n) \in Node
           /\ LeftOf(n) # n /\ RightOf(n) # n /\ LeftOf(n) # RightOf(n)
           /\ (LeftOf(n) + 1) % N = n /\ (RightOf(n) + 1) % N # n /\ (n + 1) % N # n
<1>1. LeftOf(n) \in Node /\ RightOf(n) \in Node
      /\ LeftOf(n) # n /\ RightOf(n) # n /\ LeftOf(n) # RightOf(n)
  BY RingAssumption DEF Node, LeftOf, RightOf
<1>2. \A m \in Node : (m + 1) % N = IF m = N - 1 THEN 0 ELSE m + 1
  BY RingAssumption DEF Node
<1> QED BY <1>1, <1>2, RingAssumption DEF Node, LeftOf, RightOf

\* A logical block without chunks is one.
LEMMA Empty == ASSUME NEW n \in Node PROVE LogicalBlock(n) \in LBlock
BY DEF LogicalBlock, LBlock

\* push_back puts the chunk at the end.
LEMMA Added ==
    ASSUME NEW b \in LBlock, NEW i \in Nat, NEW primary \in {0, 1}
    PROVE  /\ Add(b, i, primary) \in LBlock
           /\ Add(b, i, primary).host = b.host
           /\ Add(b, i, primary).primary_chunk_num = b.primary_chunk_num + primary
           /\ Add(b, i, primary).replica_chunk_num = b.replica_chunk_num
           /\ Len(Add(b, i, primary).physical_blocks) = Len(b.physical_blocks) + 1
           /\ DOMAIN Add(b, i, primary).physical_blocks = 1 .. Len(b.physical_blocks) + 1
           /\ \A p \in 1 .. Len(b.physical_blocks) :
                  Add(b, i, primary).physical_blocks[p] = b.physical_blocks[p]
           /\ Add(b, i, primary).physical_blocks[Len(b.physical_blocks) + 1]
                  = [chunk |-> i, node |-> b.host]
<1> DEFINE pb == b.physical_blocks
           x == [chunk |-> i, node |-> b.host]
<1>1. pb \in Seq(Item) /\ x \in Item /\ b.host \in Node
      /\ b.primary_chunk_num \in Nat /\ b.replica_chunk_num \in Seq(Nat)
  BY DEF LBlock, Item
<1>2. Add(b, i, primary) = [host |-> b.host, physical_blocks |-> Append(pb, x),
           primary_chunk_num |-> b.primary_chunk_num + primary,
           replica_chunk_num |-> b.replica_chunk_num]
  BY DEF Add
<1> HIDE DEF pb, x
<1>3. /\ Append(pb, x) \in Seq(Item) /\ Len(Append(pb, x)) = Len(pb) + 1
      /\ DOMAIN Append(pb, x) = 1 .. Len(pb) + 1
      /\ Append(pb, x)[Len(pb) + 1] = x
      /\ \A p \in 1 .. Len(pb) : Append(pb, x)[p] = pb[p]
  BY <1>1, AppendProperties
<1> QED BY <1>1, <1>2, <1>3 DEF LBlock, pb, x

\* OfNode is the last round of a loop over the chunks of the file.
LEMMA OfNodeLoop ==
    ASSUME NEW file \in Seq(Node), NEW n \in Node, NEW primary \in {0, 1}
    PROVE  \E g \in [0 .. Len(file) -> LBlock] :
              /\ g[0] = LogicalBlock(n)
              /\ \A i \in 1 .. Len(file) :
                     g[i] = IF file[i] = n THEN Add(g[i - 1], i, primary) ELSE g[i - 1]
              /\ OfNode(file, n, primary) = g[Len(file)]
<1> DEFINE len == Len(file)
           Next1(b, i) == IF file[i] = n THEN Add(b, i, primary) ELSE b
           step == [z \in LBlock \X (1 .. len) |-> Next1(z[1], z[2])]
<1>1. len \in Nat
  OBVIOUS
<1> HIDE DEF len
<1>2. ASSUME NEW b \in LBlock, NEW i \in 1 .. len PROVE Next1(b, i) \in LBlock
  <2>1. i \in Nat
    BY <1>1
  <2>2. Add(b, i, primary) \in LBlock
    BY <2>1, Added
  <2> QED BY <2>2
<1> HIDE DEF Next1
<1>3. step \in [LBlock \X (1 .. len) -> LBlock]
      /\ \A b \in LBlock : \A i \in 1 .. len : step[<<b, i>>] = Next1(b, i)
  BY <1>2
<1> HIDE DEF step
<1>4. LogicalBlock(n) \in LBlock
  BY Empty
<1>5. PICK g \in [0 .. len -> LBlock] :
          g[0] = LogicalBlock(n) /\ \A i \in 1 .. len : g[i] = step[<<g[i - 1], i>>]
  <2>1. Steps(step, LBlock, len)
    BY <1>3 DEF Steps
  <2>2. \E g : Run(g, LogicalBlock(n), step, LBlock, len)
    BY ONLY <1>1, <1>4, <2>1, Loop, Zenon
  <2> QED BY <2>2 DEF Run
<1> DEFINE Round(r) == [i \in 0 .. len |-> IF i = 0 THEN LogicalBlock(n) ELSE Next1(r[i - 1], i)]
           f == CHOOSE f : f = Round(f)
<1>6. g = Round(g)
  <2>1. ASSUME NEW i \in 0 .. len
        PROVE  g[i] = IF i = 0 THEN LogicalBlock(n) ELSE Next1(g[i - 1], i)
    <3>1. CASE i # 0
      <4>1. i \in 1 .. len /\ i - 1 \in 0 .. len
        BY <1>1, <3>1
      <4> QED BY <1>3, <1>5, <3>1, <4>1
    <3> QED BY <1>5, <3>1
  <2>2. g = [i \in 0 .. len |-> g[i]]
    OBVIOUS
  <2> QED BY <2>1, <2>2
<1>7. f = Round(f)
  <2> HIDE DEF Round
  <2> QED BY <1>6, Zenon
<1>8. OfNode(file, n, primary) = f[len]
  BY DEF OfNode, Next1, len
<1> HIDE DEF f
<1>9. f[0] = LogicalBlock(n) /\ \A i \in 1 .. len : f[i] = Next1(f[i - 1], i)
  <2> DEFINE base == LogicalBlock(n)
  <2> HIDE DEF base
  <2>1. f = [i \in 0 .. len |-> IF i = 0 THEN base ELSE Next1(f[i - 1], i)]
    BY <1>7 DEF base
  <2>2. f[0] = base
    BY <1>1, <2>1
  <2>3. ASSUME NEW i \in 1 .. len PROVE f[i] = Next1(f[i - 1], i)
    BY <1>1, <2>1
  <2> QED BY <2>2, <2>3 DEF base
<1>10. f = [i \in 0 .. len |-> f[i]]
  BY <1>7
<1> HIDE DEF Round
<1> DEFINE T == {i \in 0 .. len : f[i] \in LBlock}
<1>11. 0 .. len \subseteq T
  <2>1. 0 \in T
    BY <1>1, <1>4, <1>9
  <2>2. ASSUME NEW i \in 1 .. len, i - 1 \in T PROVE i \in T
    BY <1>1, <1>2, <1>9, <2>2
  <2> HIDE DEF T
  <2> QED BY <1>1, <2>1, <2>2, UpTo
<1>12. f \in [0 .. len -> LBlock]
  BY <1>10, <1>11
<1> QED BY <1>8, <1>9, <1>12 DEF Next1, len

\* Of the first i chunks, b has those of node n, each once.
Collects(b, file, n, primary, i) ==
    /\ b.host = n
    /\ b.primary_chunk_num = IF primary = 1 THEN Len(b.physical_blocks) ELSE 0
    /\ b.replica_chunk_num = <<>>
    /\ \A p \in 1 .. Len(b.physical_blocks) :
          /\ b.physical_blocks[p].node = n
          /\ b.physical_blocks[p].chunk \in 1 .. i
          /\ file[b.physical_blocks[p].chunk] = n
    /\ \A p, q \in 1 .. Len(b.physical_blocks) :
          p # q => b.physical_blocks[p].chunk # b.physical_blocks[q].chunk
    /\ \A j \in 1 .. i : file[j] = n =>
          \E p \in 1 .. Len(b.physical_blocks) : b.physical_blocks[p].chunk = j

\* OfNode collects the chunks of one node, each once.
LEMMA OfNodeFacts ==
    ASSUME NEW file \in Seq(Node), NEW n \in Node, NEW primary \in {0, 1}
    PROVE  /\ OfNode(file, n, primary) \in LBlock
           /\ Collects(OfNode(file, n, primary), file, n, primary, Len(file))
<1> DEFINE len == Len(file)
<1>1. len \in Nat
  OBVIOUS
<1>2. PICK g \in [0 .. len -> LBlock] :
              /\ g[0] = LogicalBlock(n)
              /\ \A i \in 1 .. len :
                     g[i] = IF file[i] = n THEN Add(g[i - 1], i, primary) ELSE g[i - 1]
              /\ OfNode(file, n, primary) = g[len]
  BY OfNodeLoop
<1> DEFINE T == {i \in 0 .. len : Collects(g[i], file, n, primary, i)}
<1>3. 0 \in T
  <2>1. Collects(LogicalBlock(n), file, n, primary, 0)
    BY DEF Collects, LogicalBlock
  <2> QED BY <1>1, <1>2, <2>1
<1>4. ASSUME NEW i \in 1 .. len, i - 1 \in T PROVE i \in T
  <2> DEFINE b == g[i - 1]
             k == Len(b.physical_blocks)
  <2>1. b \in LBlock /\ Collects(b, file, n, primary, i - 1) /\ i \in Nat
    BY <1>4
  <2>2. b.physical_blocks \in Seq(Item) /\ k \in Nat
    BY <2>1 DEF LBlock
  <2>3. CASE file[i] # n
    <3>1. g[i] = b
      BY <1>2, <2>3
    <3>2. \A j \in 1 .. i : file[j] = n => j \in 1 .. i - 1
      BY <2>3
    <3> HIDE DEF b
    <3>3. Collects(b, file, n, primary, i)
      BY <2>1, <2>2, <3>2 DEF Collects
    <3> QED BY <3>1, <3>3
  <2>4. CASE file[i] = n
    <3> DEFINE c == Add(b, i, primary)
    <3>1. g[i] = c
      BY <1>2, <2>4
    <3>2. /\ c.host = b.host /\ c.primary_chunk_num = b.primary_chunk_num + primary
          /\ c.replica_chunk_num = b.replica_chunk_num /\ Len(c.physical_blocks) = k + 1
          /\ \A p \in 1 .. k : c.physical_blocks[p] = b.physical_blocks[p]
          /\ c.physical_blocks[k + 1] = [chunk |-> i, node |-> b.host]
      BY <2>1, Added
    <3> HIDE DEF b, c, k
    <3>3. Collects(c, file, n, primary, i)
      <4>1. /\ c.host = n /\ c.replica_chunk_num = <<>>
            /\ c.primary_chunk_num = IF primary = 1 THEN Len(c.physical_blocks) ELSE 0
        BY <2>1, <2>2, <3>2 DEF Collects, k
      <4>2. \A p \in 1 .. k + 1 : p \in 1 .. k \/ p = k + 1
        BY <2>2
      <4>3. ASSUME NEW p \in 1 .. k + 1
            PROVE  /\ c.physical_blocks[p].node = n
                   /\ c.physical_blocks[p].chunk \in 1 .. i
                   /\ file[c.physical_blocks[p].chunk] = n
                   /\ p \in 1 .. k => c.physical_blocks[p] = b.physical_blocks[p]
                                      /\ c.physical_blocks[p].chunk # i
                   /\ p \notin 1 .. k => c.physical_blocks[p].chunk = i
        <5>1. CASE p \in 1 .. k
          <6>1. b.physical_blocks[p].node = n /\ b.physical_blocks[p].chunk \in 1 .. i - 1
                /\ file[b.physical_blocks[p].chunk] = n
            BY <2>1, <5>1 DEF Collects, k
          <6> QED BY <3>2, <5>1, <6>1
        <5>2. CASE p = k + 1
          <6>1. c.physical_blocks[p] = [chunk |-> i, node |-> n]
            BY <2>1, <3>2, <5>2 DEF Collects
          <6> QED BY <2>2, <2>4, <5>2, <6>1
        <5> QED BY <4>2, <5>1, <5>2
      <4>4. ASSUME NEW p \in 1 .. k + 1, NEW q \in 1 .. k + 1, p # q
            PROVE  c.physical_blocks[p].chunk # c.physical_blocks[q].chunk
        <5>1. CASE p \in 1 .. k /\ q \in 1 .. k
          <6>1. b.physical_blocks[p].chunk # b.physical_blocks[q].chunk
            BY <2>1, <4>4, <5>1 DEF Collects, k
          <6> QED BY <4>3, <5>1, <6>1
        <5>2. CASE p \notin 1 .. k
          BY <4>2, <4>3, <4>4, <5>2
        <5>3. CASE q \notin 1 .. k
          BY <4>2, <4>3, <4>4, <5>3
        <5> QED BY <5>1, <5>2, <5>3
      <4>5. ASSUME NEW j \in 1 .. i, file[j] = n
            PROVE  \E p \in 1 .. k + 1 : c.physical_blocks[p].chunk = j
        <5>1. CASE j = i
          BY <2>2, <3>2, <5>1
        <5>2. CASE j # i
          <6>1. j \in 1 .. i - 1
            BY <5>2
          <6>2. PICK p \in 1 .. k : b.physical_blocks[p].chunk = j
            BY <2>1, <4>5, <6>1 DEF Collects, k
          <6> QED BY <2>2, <3>2, <6>2
        <5> QED BY <5>1, <5>2
      <4> QED BY <3>2, <4>1, <4>3, <4>4, <4>5 DEF Collects
    <3> QED BY <3>1, <3>3
  <2> QED BY <2>3, <2>4
<1> HIDE DEF T
<1>5. len \in T
  BY <1>1, <1>3, <1>4, UpTo
<1> QED BY <1>1, <1>2, <1>5 DEF T
-----------------------------------------------------------------------------
(* scheduler_base.                                                         *)
LEMMA OwnFacts ==
    ASSUME NEW file \in Seq(Node), NEW n \in Node
    PROVE  /\ Own(file, n) \in LBlock
           /\ Own(file, n).physical_blocks \in Seq(Item)
           /\ Own(file, n).primary_chunk_num = Len(Own(file, n).physical_blocks)
           /\ Collects(Own(file, n), file, n, 1, Len(file))
<1>1. Own(file, n) \in LBlock /\ Collects(Own(file, n), file, n, 1, Len(file))
  BY OfNodeFacts DEF Own
<1>2. Own(file, n).primary_chunk_num = Len(Own(file, n).physical_blocks)
  BY <1>1 DEF Collects
<1> QED BY <1>1, <1>2 DEF LBlock

\* Two lists of chunks put together.
LEMMA Concat ==
    ASSUME NEW a \in Seq(Item), NEW b \in Seq(Item)
    PROVE  /\ a \o b \in Seq(Item) /\ Len(a \o b) = Len(a) + Len(b)
           /\ \A p \in 1 .. Len(a) : (a \o b)[p] = a[p]
           /\ \A p \in 1 .. Len(b) : (a \o b)[Len(a) + p] = b[p]
<1>1. /\ a \o b \in Seq(Item) /\ Len(a \o b) = Len(a) + Len(b)
      /\ \A i \in 1 .. Len(a) + Len(b) : (a \o b)[i] = IF i <= Len(a) THEN a[i] ELSE b[i - Len(a)]
  BY ConcatProperties
<1>2. Len(a) \in Nat /\ Len(b) \in Nat
  OBVIOUS
<1> DEFINE c == a \o b
<1> HIDE DEF c
<1>3. ASSUME NEW p \in 1 .. Len(a) PROVE c[p] = a[p]
  BY <1>1, <1>2 DEF c
<1>4. ASSUME NEW p \in 1 .. Len(b) PROVE c[Len(a) + p] = b[p]
  <2>1. Len(a) + p \in 1 .. Len(a) + Len(b) /\ ~(Len(a) + p <= Len(a)) /\ (Len(a) + p) - Len(a) = p
    BY <1>2
  <2> QED BY <1>1, <2>1 DEF c
<1> QED BY <1>1, <1>3, <1>4 DEF c

\* The three parts of a list of scheduler_base.
LEMMA ThreeParts ==
    ASSUME NEW a \in Seq(Item), NEW b \in Seq(Item), NEW c \in Seq(Item)
    PROVE  LET w == a \o (Reverse(b) \o Reverse(c))
           IN  /\ w \in Seq(Item) /\ Len(w) = Len(a) + Len(b) + Len(c)
               /\ \A p \in 1 .. Len(a) : w[p] = a[p]
               /\ \A p \in 1 .. Len(b) : w[Len(a) + p] = b[(Len(b) - p) + 1]
               /\ \A p \in 1 .. Len(c) : w[Len(a) + Len(b) + p] = c[(Len(c) - p) + 1]
<1> DEFINE rb == Reverse(b)
           rc == Reverse(c)
           w == a \o (rb \o rc)
<1>1. rb \in Seq(Item) /\ Len(rb) = Len(b) /\ \A p \in 1 .. Len(b) : rb[p] = b[(Len(b) - p) + 1]
  BY DEF Reverse
<1>2. rc \in Seq(Item) /\ Len(rc) = Len(c) /\ \A p \in 1 .. Len(c) : rc[p] = c[(Len(c) - p) + 1]
  BY DEF Reverse
<1>3. Len(a) \in Nat /\ Len(b) \in Nat /\ Len(c) \in Nat
  OBVIOUS
<1> HIDE DEF rb, rc
<1>4. /\ rb \o rc \in Seq(Item) /\ Len(rb \o rc) = Len(b) + Len(c)
      /\ \A p \in 1 .. Len(b) : (rb \o rc)[p] = rb[p]
      /\ \A p \in 1 .. Len(c) : (rb \o rc)[Len(b) + p] = rc[p]
  <2>1. /\ rb \o rc \in Seq(Item) /\ Len(rb \o rc) = Len(rb) + Len(rc)
        /\ \A p \in 1 .. Len(rb) : (rb \o rc)[p] = rb[p]
        /\ \A p \in 1 .. Len(rc) : (rb \o rc)[Len(rb) + p] = rc[p]
    <3>1. rb \in Seq(Item) /\ rc \in Seq(Item)
      BY <1>1, <1>2
    <3> QED BY ONLY <3>1, Concat
  <2> QED BY <1>1, <1>2, <2>1
<1>5. /\ w \in Seq(Item) /\ Len(w) = Len(a) + (Len(b) + Len(c))
      /\ \A p \in 1 .. Len(a) : w[p] = a[p]
      /\ \A p \in 1 .. Len(b) + Len(c) : w[Len(a) + p] = (rb \o rc)[p]
  <2> DEFINE d == rb \o rc
  <2>1. d \in Seq(Item) /\ Len(d) = Len(b) + Len(c)
    BY <1>4
  <2> HIDE DEF d
  <2>2. /\ a \o d \in Seq(Item) /\ Len(a \o d) = Len(a) + Len(d)
        /\ \A p \in 1 .. Len(a) : (a \o d)[p] = a[p]
        /\ \A p \in 1 .. Len(d) : (a \o d)[Len(a) + p] = d[p]
    BY <2>1, Concat
  <2> QED BY <2>1, <2>2 DEF d
<1> HIDE DEF w
<1>6. ASSUME NEW p \in 1 .. Len(b) PROVE w[Len(a) + p] = b[(Len(b) - p) + 1]
  <2>1. p \in 1 .. Len(b) + Len(c)
    BY <1>3
  <2> QED BY <1>1, <1>4, <1>5, <2>1
<1>7. ASSUME NEW p \in 1 .. Len(c) PROVE w[Len(a) + Len(b) + p] = c[(Len(c) - p) + 1]
  <2>1. Len(b) + p \in 1 .. Len(b) + Len(c) /\ Len(a) + Len(b) + p = Len(a) + (Len(b) + p)
    BY <1>3
  <2> QED BY <1>2, <1>4, <1>5, <2>1
<1>8. /\ w \in Seq(Item) /\ Len(w) = Len(a) + Len(b) + Len(c)
      /\ \A p \in 1 .. Len(a) : w[p] = a[p]
  BY <1>3, <1>5
<1>9. w = a \o (Reverse(b) \o Reverse(c))
  BY DEF w, rb, rc
<1> QED BY <1>6, <1>7, <1>8, <1>9

\* replica_chunk_num counts the left and the right neighbour's own chunks.
LEMMA ReplicaCounts ==
    ASSUME NEW file \in Seq(Node), NEW n \in Node
    PROVE  ReplicaChunkNum(file, n) = <<Own(file, LeftOf(n)).primary_chunk_num,
                                        Own(file, RightOf(n)).primary_chunk_num>>
<1> DEFINE num(id) == Own(file, id).primary_chunk_num
           Assign(pair, id) == [pair EXCEPT ![IF n = (id + 1) % N THEN 1 ELSE 2] = num(id)]
<1>1. ReplicaChunkNum(file, n) = Assign(Assign(Assign(<<0, 0>>, n), LeftOf(n)), RightOf(n))
  BY DEF ReplicaChunkNum
<1> HIDE DEF num
<1>2. n # (n + 1) % N /\ n = (LeftOf(n) + 1) % N /\ n # (RightOf(n) + 1) % N
  BY Ring
<1>3. Assign(<<0, 0>>, n) = <<0, num(n)>>
  BY <1>2
<1>4. Assign(<<0, num(n)>>, LeftOf(n)) = <<num(LeftOf(n)), num(n)>>
  BY <1>2
<1>5. Assign(<<num(LeftOf(n)), num(n)>>, RightOf(n)) = <<num(LeftOf(n)), num(RightOf(n))>>
  BY <1>2
<1> QED BY <1>1, <1>3, <1>4, <1>5 DEF num

\* A block of scheduler_base: its own chunks, then those of the left and right.
LEMMA BaseBlock ==
    ASSUME NEW file \in Seq(Node), NEW k \in 1 .. N
    PROVE  LET b == SchedulerBase(file)[k]
               n == k - 1
               own == Own(file, n)
               left == Own(file, LeftOf(n))
               right == Own(file, RightOf(n))
           IN  /\ n \in Node /\ b.host = n
               /\ b.physical_blocks = own.physical_blocks
                      \o (Reverse(left.physical_blocks) \o Reverse(right.physical_blocks))
               /\ b.primary_chunk_num = own.primary_chunk_num
               /\ b.replica_chunk_num = <<left.primary_chunk_num, right.primary_chunk_num>>
<1> DEFINE n == k - 1
           own == Own(file, n)
           others == Reverse(Own(file, LeftOf(n)).physical_blocks)
                     \o Reverse(Own(file, RightOf(n)).physical_blocks)
<1>1. n \in Node
  BY RingAssumption DEF Node
<1>2. SchedulerBase(file)[k] = [own EXCEPT !.physical_blocks = @ \o others,
                                           !.replica_chunk_num = ReplicaChunkNum(file, n)]
  BY DEF SchedulerBase
<1>3. own \in LBlock /\ own.host = n
  BY <1>1, OwnFacts DEF Collects
<1> HIDE DEF own, others
<1>4. /\ SchedulerBase(file)[k].host = own.host
      /\ SchedulerBase(file)[k].primary_chunk_num = own.primary_chunk_num
      /\ SchedulerBase(file)[k].physical_blocks = own.physical_blocks \o others
      /\ SchedulerBase(file)[k].replica_chunk_num = ReplicaChunkNum(file, n)
  BY <1>2, <1>3 DEF LBlock
<1> QED BY <1>1, <1>3, <1>4, ReplicaCounts DEF own, others

\* A block of scheduler_base: the node's own chunks, then those of its left and
\* its right neighbour, as many as replica_chunk_num says.
LEMMA BaseLists ==
    ASSUME NEW file \in Seq(Node), NEW k \in 1 .. N
    PROVE  LET b == SchedulerBase(file)[k]
               pb == b.physical_blocks
               own == b.primary_chunk_num
               left == b.replica_chunk_num[1]
               right == b.replica_chunk_num[2]
           IN  /\ b.host = k - 1 /\ k - 1 \in Node /\ pb \in Seq(Item)
               /\ own \in Nat /\ left \in Nat /\ right \in Nat /\ Len(pb) = own + left + right
               /\ \A p \in 1 .. own : pb[p] = Own(file, k - 1).physical_blocks[p]
               /\ \A p \in 1 .. left : pb[own + p].node = LeftOf(k - 1)
                                       /\ pb[own + p].chunk \in 1 .. Len(file)
               /\ \A p \in 1 .. right : pb[own + left + p].node = RightOf(k - 1)
                                        /\ pb[own + left + p].chunk \in 1 .. Len(file)
<1> DEFINE n == k - 1
           b == SchedulerBase(file)[k]
           x == Own(file, n).physical_blocks
           y == Own(file, LeftOf(n)).physical_blocks
           z == Own(file, RightOf(n)).physical_blocks
<1>1. /\ n \in Node /\ b.host = n /\ b.physical_blocks = x \o (Reverse(y) \o Reverse(z))
      /\ b.primary_chunk_num = Own(file, n).primary_chunk_num
      /\ b.replica_chunk_num = <<Own(file, LeftOf(n)).primary_chunk_num,
                                 Own(file, RightOf(n)).primary_chunk_num>>
  BY BaseBlock
<1>2. LeftOf(n) \in Node /\ RightOf(n) \in Node
  BY <1>1, Ring
<1>3. x \in Seq(Item) /\ Own(file, n).primary_chunk_num = Len(x)
  BY <1>1, OwnFacts
<1>4. /\ y \in Seq(Item) /\ Own(file, LeftOf(n)).primary_chunk_num = Len(y)
      /\ \A p \in 1 .. Len(y) : y[p].node = LeftOf(n) /\ y[p].chunk \in 1 .. Len(file)
  BY <1>2, OwnFacts DEF Collects
<1>5. /\ z \in Seq(Item) /\ Own(file, RightOf(n)).primary_chunk_num = Len(z)
      /\ \A p \in 1 .. Len(z) : z[p].node = RightOf(n) /\ z[p].chunk \in 1 .. Len(file)
  BY <1>2, OwnFacts DEF Collects
<1> HIDE DEF x, y, z
<1> DEFINE w == x \o (Reverse(y) \o Reverse(z))
<1>6. /\ w \in Seq(Item) /\ Len(w) = Len(x) + Len(y) + Len(z)
      /\ \A p \in 1 .. Len(x) : w[p] = x[p]
      /\ \A p \in 1 .. Len(y) : w[Len(x) + p] = y[(Len(y) - p) + 1]
      /\ \A p \in 1 .. Len(z) : w[Len(x) + Len(y) + p] = z[(Len(z) - p) + 1]
  BY <1>3, <1>4, <1>5, ThreeParts
<1>7. /\ b.primary_chunk_num = Len(x) /\ b.replica_chunk_num[1] = Len(y)
      /\ b.replica_chunk_num[2] = Len(z) /\ b.physical_blocks = w
  BY <1>1, <1>3, <1>4, <1>5
<1>8. Len(x) \in Nat /\ Len(y) \in Nat /\ Len(z) \in Nat
  BY <1>3, <1>4, <1>5
<1> HIDE DEF w, b
<1>9. ASSUME NEW p \in 1 .. Len(y)
      PROVE  w[Len(x) + p].node = LeftOf(n) /\ w[Len(x) + p].chunk \in 1 .. Len(file)
  <2>1. (Len(y) - p) + 1 \in 1 .. Len(y)
    BY <1>8
  <2> QED BY <1>4, <1>6, <2>1
<1>10. ASSUME NEW p \in 1 .. Len(z)
       PROVE  w[Len(x) + Len(y) + p].node = RightOf(n) /\ w[Len(x) + Len(y) + p].chunk \in 1 .. Len(file)
  <2>1. (Len(z) - p) + 1 \in 1 .. Len(z)
    BY <1>8
  <2> QED BY <1>5, <1>6, <2>1
<1>11. /\ b.host = n /\ n \in Node /\ b.physical_blocks \in Seq(Item)
       /\ Len(b.physical_blocks) = b.primary_chunk_num + b.replica_chunk_num[1] + b.replica_chunk_num[2]
       /\ \A p \in 1 .. Len(x) : b.physical_blocks[p] = x[p]
  BY <1>1, <1>6, <1>7
<1> QED BY <1>7, <1>8, <1>9, <1>10, <1>11 DEF b, x
-----------------------------------------------------------------------------
(* scheduler_simple and scheduler_score_based.                             *)
LEMMA InUseLoop ==
    ASSUME NEW file \in Seq(Node)
    PROVE  \E g \in [0 .. N -> Seq(Node)] :
              /\ g[0] = <<>>
              /\ \A i \in 1 .. N : g[i] = IF \E j \in DOMAIN file : file[j] = i - 1
                                             THEN Append(g[i - 1], i - 1)
                                             ELSE g[i - 1]
              /\ InUse(file) = g[N]
<1> DEFINE len == N
           Next1(b, i) == IF \E j \in DOMAIN file : file[j] = i - 1 THEN Append(b, i - 1) ELSE b
           step == [z \in Seq(Node) \X (1 .. len) |-> Next1(z[1], z[2])]
<1>1. len \in Nat
  BY RingAssumption
<1> HIDE DEF len
<1>2. ASSUME NEW b \in Seq(Node), NEW i \in 1 .. len PROVE Next1(b, i) \in Seq(Node)
  <2>1. i - 1 \in Node
    BY RingAssumption DEF len, Node
  <2> QED BY <2>1
<1> HIDE DEF Next1
<1>3. step \in [Seq(Node) \X (1 .. len) -> Seq(Node)]
      /\ \A b \in Seq(Node) : \A i \in 1 .. len : step[<<b, i>>] = Next1(b, i)
  BY <1>2
<1> HIDE DEF step
<1>4. <<>> \in Seq(Node)
  OBVIOUS
<1>5. PICK g \in [0 .. len -> Seq(Node)] :
          g[0] = <<>> /\ \A i \in 1 .. len : g[i] = step[<<g[i - 1], i>>]
  <2>1. Steps(step, Seq(Node), len)
    BY <1>3 DEF Steps
  <2>2. \E g : Run(g, <<>>, step, Seq(Node), len)
    BY ONLY <1>1, <1>4, <2>1, Loop, Zenon
  <2> QED BY <2>2 DEF Run
<1> DEFINE Round(r) == [i \in 0 .. len |-> IF i = 0 THEN <<>> ELSE Next1(r[i - 1], i)]
           f == CHOOSE f : f = Round(f)
<1>6. g = Round(g)
  <2>1. ASSUME NEW i \in 0 .. len
        PROVE  g[i] = IF i = 0 THEN <<>> ELSE Next1(g[i - 1], i)
    <3>1. CASE i # 0
      <4>1. i \in 1 .. len /\ i - 1 \in 0 .. len
        BY <1>1, <3>1
      <4> QED BY <1>3, <1>5, <3>1, <4>1
    <3> QED BY <1>5, <3>1
  <2>2. g = [i \in 0 .. len |-> g[i]]
    OBVIOUS
  <2> QED BY <2>1, <2>2
<1>7. f = Round(f)
  <2> HIDE DEF Round
  <2> QED BY <1>6, Zenon
<1>8. InUse(file) = f[len]
  BY DEF InUse, Next1, len
<1> HIDE DEF f
<1>9. f[0] = <<>> /\ \A i \in 1 .. len : f[i] = Next1(f[i - 1], i)
  <2> DEFINE base == <<>>
  <2> HIDE DEF base
  <2>1. f = [i \in 0 .. len |-> IF i = 0 THEN base ELSE Next1(f[i - 1], i)]
    BY <1>7 DEF base
  <2>2. f[0] = base
    BY <1>1, <2>1
  <2>3. ASSUME NEW i \in 1 .. len PROVE f[i] = Next1(f[i - 1], i)
    BY <1>1, <2>1
  <2> QED BY <2>2, <2>3 DEF base
<1>10. f = [i \in 0 .. len |-> f[i]]
  BY <1>7
<1> HIDE DEF Round
<1> DEFINE T == {i \in 0 .. len : f[i] \in Seq(Node)}
<1>11. 0 .. len \subseteq T
  <2>1. 0 \in T
    <3>1. f[0] \in Seq(Node)
      BY <1>4, <1>9
    <3> QED BY <1>1, <3>1
  <2>2. ASSUME NEW i \in 1 .. len, i - 1 \in T PROVE i \in T
    <3>1. f[i - 1] \in Seq(Node) /\ i \in 0 .. len
      BY <1>1, <2>2
    <3>2. Next1(f[i - 1], i) \in Seq(Node)
      BY <1>2, <3>1
    <3> QED BY <1>9, <3>1, <3>2
  <2> HIDE DEF T
  <2> QED BY <1>1, <2>1, <2>2, UpTo
<1>12. f \in [0 .. len -> Seq(Node)]
  BY <1>10, <1>11
<1> QED BY <1>8, <1>9, <1>12 DEF Next1, len

\* FirstUse is the last round of a loop over the chunks of the file.
LEMMA FirstUseLoop ==
    ASSUME NEW file \in Seq(Node)
    PROVE  \E g \in [0 .. Len(file) -> Seq(Node)] :
              /\ g[0] = <<>>
              /\ \A i \in 1 .. Len(file) : g[i] = IF \E j \in 1 .. i - 1 : file[j] = file[i]
                                                     THEN g[i - 1]
                                                     ELSE Append(g[i - 1], file[i])
              /\ FirstUse(file) = g[Len(file)]
<1> DEFINE len == Len(file)
           Next1(b, i) == IF \E j \in 1 .. i - 1 : file[j] = file[i] THEN b ELSE Append(b, file[i])
           step == [z \in Seq(Node) \X (1 .. len) |-> Next1(z[1], z[2])]
<1>1. len \in Nat
  OBVIOUS
<1> HIDE DEF len
<1>2. ASSUME NEW b \in Seq(Node), NEW i \in 1 .. len PROVE Next1(b, i) \in Seq(Node)
  <2>1. file[i] \in Node
    BY DEF len
  <2> QED BY <2>1
<1> HIDE DEF Next1
<1>3. step \in [Seq(Node) \X (1 .. len) -> Seq(Node)]
      /\ \A b \in Seq(Node) : \A i \in 1 .. len : step[<<b, i>>] = Next1(b, i)
  BY <1>2
<1> HIDE DEF step
<1>4. <<>> \in Seq(Node)
  OBVIOUS
<1>5. PICK g \in [0 .. len -> Seq(Node)] :
          g[0] = <<>> /\ \A i \in 1 .. len : g[i] = step[<<g[i - 1], i>>]
  <2>1. Steps(step, Seq(Node), len)
    BY <1>3 DEF Steps
  <2>2. \E g : Run(g, <<>>, step, Seq(Node), len)
    BY ONLY <1>1, <1>4, <2>1, Loop, Zenon
  <2> QED BY <2>2 DEF Run
<1> DEFINE Round(r) == [i \in 0 .. len |-> IF i = 0 THEN <<>> ELSE Next1(r[i - 1], i)]
           f == CHOOSE f : f = Round(f)
<1>6. g = Round(g)
  <2>1. ASSUME NEW i \in 0 .. len
        PROVE  g[i] = IF i = 0 THEN <<>> ELSE Next1(g[i - 1], i)
    <3>1. CASE i # 0
      <4>1. i \in 1 .. len /\ i - 1 \in 0 .. len
        BY <1>1, <3>1
      <4> QED BY <1>3, <1>5, <3>1, <4>1
    <3> QED BY <1>5, <3>1
  <2>2. g = [i \in 0 .. len |-> g[i]]
    OBVIOUS
  <2> QED BY <2>1, <2>2
<1>7. f = Round(f)
  <2> HIDE DEF Round
  <2> QED BY <1>6, Zenon
<1>8. FirstUse(file) = f[len]
  BY DEF FirstUse, Next1, len
<1> HIDE DEF f
<1>9. f[0] = <<>> /\ \A i \in 1 .. len : f[i] = Next1(f[i - 1], i)
  <2> DEFINE base == <<>>
  <2> HIDE DEF base
  <2>1. f = [i \in 0 .. len |-> IF i = 0 THEN base ELSE Next1(f[i - 1], i)]
    BY <1>7 DEF base
  <2>2. f[0] = base
    BY <1>1, <2>1
  <2>3. ASSUME NEW i \in 1 .. len PROVE f[i] = Next1(f[i - 1], i)
    BY <1>1, <2>1
  <2> QED BY <2>2, <2>3 DEF base
<1>10. f = [i \in 0 .. len |-> f[i]]
  BY <1>7
<1> HIDE DEF Round
<1> DEFINE T == {i \in 0 .. len : f[i] \in Seq(Node)}
<1>11. 0 .. len \subseteq T
  <2>1. 0 \in T
    <3>1. f[0] \in Seq(Node)
      BY <1>4, <1>9
    <3> QED BY <1>1, <3>1
  <2>2. ASSUME NEW i \in 1 .. len, i - 1 \in T PROVE i \in T
    <3>1. f[i - 1] \in Seq(Node) /\ i \in 0 .. len
      BY <1>1, <2>2
    <3>2. Next1(f[i - 1], i) \in Seq(Node)
      BY <1>2, <3>1
    <3> QED BY <1>9, <3>1, <3>2
  <2> HIDE DEF T
  <2> QED BY <1>1, <2>1, <2>2, UpTo
<1>12. f \in [0 .. len -> Seq(Node)]
  BY <1>10, <1>11
<1> QED BY <1>8, <1>9, <1>12 DEF Next1, len

\* The list s has the nodes in used, each once.
Lists(s, used) ==
    /\ s \in Seq(Node)
    /\ \A k, m \in 1 .. Len(s) : k # m => s[k] # s[m]
    /\ \A k \in 1 .. Len(s) : s[k] \in used
    /\ \A n \in used : \E k \in 1 .. Len(s) : s[k] = n

UsedNodes(file) == {file[j] : j \in 1 .. Len(file)}

\* Appending a node that is new keeps a list of nodes without repetition.
LEMMA Listed ==
    ASSUME NEW s, NEW used, Lists(s, used), NEW n \in Node, n \notin used
    PROVE  Lists(Append(s, n), used \cup {n})
<1> DEFINE t == Append(s, n)
<1>1. s \in Seq(Node) /\ Len(s) \in Nat
  BY DEF Lists
<1>2. /\ t \in Seq(Node) /\ Len(t) = Len(s) + 1 /\ t[Len(s) + 1] = n
      /\ \A k \in 1 .. Len(s) : t[k] = s[k]
  BY <1>1, AppendProperties
<1> HIDE DEF t
<1>3. \A k \in 1 .. Len(t) : k \in 1 .. Len(s) \/ k = Len(s) + 1
  BY <1>1, <1>2
<1>4. ASSUME NEW k \in 1 .. Len(t), NEW m \in 1 .. Len(t), k # m PROVE t[k] # t[m]
  <2>1. CASE k \in 1 .. Len(s) /\ m \in 1 .. Len(s)
    BY <1>2, <1>4, <2>1 DEF Lists
  <2>2. CASE k = Len(s) + 1
    BY <1>2, <1>3, <1>4, <2>2 DEF Lists
  <2>3. CASE m = Len(s) + 1
    BY <1>2, <1>3, <1>4, <2>3 DEF Lists
  <2> QED BY <1>3, <2>1, <2>2, <2>3
<1>5. ASSUME NEW k \in 1 .. Len(t) PROVE t[k] \in used \cup {n}
  BY <1>2, <1>3 DEF Lists
<1>6. ASSUME NEW m \in used \cup {n} PROVE \E k \in 1 .. Len(t) : t[k] = m
  <2>1. CASE m = n
    BY <1>1, <1>2, <2>1
  <2>2. CASE m \in used
    <3>1. PICK k \in 1 .. Len(s) : s[k] = m
      BY <2>2 DEF Lists
    <3> QED BY <1>1, <1>2, <3>1
  <2> QED BY <2>1, <2>2
<1>7. Lists(t, used \cup {n})
  BY <1>2, <1>4, <1>5, <1>6 DEF Lists
<1> QED BY <1>7 DEF t

\* scheduler_simple has a block for each node with a chunk, and for no other.
LEMMA InUseFacts ==
    ASSUME NEW file \in Seq(Node)
    PROVE  Lists(InUse(file), UsedNodes(file))
<1> USE DEF UsedNodes
<1> DEFINE used(k) == {n \in Node : n < k /\ \E j \in DOMAIN file : file[j] = n}
<1>1. PICK g \in [0 .. N -> Seq(Node)] :
          /\ g[0] = <<>>
          /\ \A i \in 1 .. N :
                 g[i] = IF \E j \in DOMAIN file : file[j] = i - 1 THEN Append(g[i - 1], i - 1)
                        ELSE g[i - 1]
          /\ InUse(file) = g[N]
  BY InUseLoop
<1> DEFINE T == {i \in 0 .. N : Lists(g[i], used(i))}
<1>2. 0 \in T
  <2>1. used(0) = {}
    BY DEF Node
  <2>2. Lists(<<>>, {})
    BY DEF Lists
  <2>3. 0 \in 0 .. N
    BY RingAssumption
  <2> HIDE DEF used
  <2>4. Lists(g[0], used(0))
    BY <1>1, <2>1, <2>2
  <2> QED BY <2>3, <2>4
<1>3. ASSUME NEW i \in 1 .. N, i - 1 \in T PROVE i \in T
  <2>1. Lists(g[i - 1], used(i - 1)) /\ i - 1 \in Node /\ i \in 0 .. N
    BY <1>3, RingAssumption DEF Node
  <2>2. CASE \E j \in DOMAIN file : file[j] = i - 1
    <3>1. used(i) = used(i - 1) \cup {i - 1}
      <4>1. \A n \in Node : n < i <=> n < i - 1 \/ n = i - 1
        BY <2>1 DEF Node
      <4> QED BY <2>1, <2>2, <4>1
    <3>2. i - 1 \notin used(i - 1)
      BY <2>1 DEF Node
    <3>3. g[i] = Append(g[i - 1], i - 1)
      BY <1>1, <2>2
    <3> HIDE DEF used
    <3>4. Lists(Append(g[i - 1], i - 1), used(i - 1) \cup {i - 1})
      BY <2>1, <3>2, Listed
    <3> QED BY <2>1, <3>1, <3>3, <3>4
  <2>3. CASE ~\E j \in DOMAIN file : file[j] = i - 1
    <3>1. used(i) = used(i - 1)
      BY <2>1, <2>3 DEF Node
    <3> HIDE DEF used
    <3> QED BY <1>1, <2>1, <2>3, <3>1
  <2> QED BY <2>2, <2>3
<1> HIDE DEF T
<1>4. N \in T
  <2>1. 0 .. N \subseteq T
    BY ONLY <1>2, <1>3, UpTo, RingAssumption
  <2> QED BY <2>1, RingAssumption
<1>5. used(N) = {file[j] : j \in 1 .. Len(file)}
  <2>1. \A j \in 1 .. Len(file) : file[j] \in Node /\ j \in DOMAIN file
    OBVIOUS
  <2>2. DOMAIN file = 1 .. Len(file)
    OBVIOUS
  <2>3. \A n \in Node : n < N
    BY RingAssumption DEF Node
  <2> QED BY <2>1, <2>2, <2>3
<1> QED BY <1>1, <1>4, <1>5 DEF T

\* So has scheduler_score_based, in another order.
LEMMA FirstUseFacts ==
    ASSUME NEW file \in Seq(Node)
    PROVE  Lists(FirstUse(file), UsedNodes(file))
<1> USE DEF UsedNodes
<1> DEFINE len == Len(file)
           used(i) == {file[j] : j \in 1 .. i}
<1>1. PICK g \in [0 .. len -> Seq(Node)] :
          /\ g[0] = <<>>
          /\ \A i \in 1 .. len :
                 g[i] = IF \E j \in 1 .. i - 1 : file[j] = file[i] THEN g[i - 1]
                        ELSE Append(g[i - 1], file[i])
          /\ FirstUse(file) = g[len]
  BY FirstUseLoop
<1>2. len \in Nat /\ \A i \in 1 .. len : file[i] \in Node
  OBVIOUS
<1> HIDE DEF len
<1> DEFINE T == {i \in 0 .. len : Lists(g[i], used(i))}
<1>3. 0 \in T
  <2>1. used(0) = {}
    OBVIOUS
  <2>2. Lists(<<>>, {})
    BY DEF Lists
  <2>3. 0 \in 0 .. len
    BY <1>2
  <2> HIDE DEF used
  <2>4. Lists(g[0], used(0))
    BY <1>1, <2>1, <2>2
  <2> QED BY <2>3, <2>4
<1>4. ASSUME NEW i \in 1 .. len, i - 1 \in T PROVE i \in T
  <2>1. Lists(g[i - 1], used(i - 1)) /\ file[i] \in Node /\ i \in 0 .. len
    BY <1>2, <1>4
  <2>2. used(i) = used(i - 1) \cup {file[i]}
    <3>1. 1 .. i = (1 .. i - 1) \cup {i}
      BY <1>2
    <3> QED BY <3>1
  <2>3. CASE \E j \in 1 .. i - 1 : file[j] = file[i]
    <3>1. file[i] \in used(i - 1)
      BY <2>3
    <3> HIDE DEF used
    <3>2. used(i) = used(i - 1)
      BY <2>2, <3>1
    <3> QED BY <1>1, <2>1, <2>3, <3>2
  <2>4. CASE ~\E j \in 1 .. i - 1 : file[j] = file[i]
    <3>1. file[i] \notin used(i - 1)
      BY <2>4
    <3> HIDE DEF used
    <3>2. Lists(Append(g[i - 1], file[i]), used(i - 1) \cup {file[i]})
      BY <2>1, <3>1, Listed
    <3> QED BY <1>1, <2>1, <2>2, <2>4, <3>2
  <2> QED BY <2>3, <2>4
<1> HIDE DEF T
<1>5. len \in T
  <2>1. 0 .. len \subseteq T
    BY ONLY <1>2, <1>3, <1>4, UpTo
  <2> QED BY <1>2, <2>1
<1> QED BY <1>1, <1>5 DEF T, len
-----------------------------------------------------------------------------
(* Where a chunk is, for the schedulers that do not balance.               *)
LEMMA OnePlace ==
    ASSUME NEW lists, NEW i, NEW k \in DOMAIN lists, NEW p \in DOMAIN lists[k], lists[k][p].chunk = i,
           \A l \in DOMAIN lists : \A q \in DOMAIN lists[l] :
               lists[l][q].chunk = i => l = k /\ q = p
    PROVE  Places(lists, i) = {<<k, p>>}
<1> DEFINE all == UNION {{l} \X DOMAIN lists[l] : l \in DOMAIN lists}
<1>1. <<k, p>> \in all
  OBVIOUS
<1>2. ASSUME NEW at \in all
      PROVE  at[1] \in DOMAIN lists /\ at[2] \in DOMAIN lists[at[1]] /\ at = <<at[1], at[2]>>
  <2>1. PICK l \in DOMAIN lists : at \in {l} \X DOMAIN lists[l]
    BY <1>2
  <2> QED BY <2>1
<1>3. Places(lists, i) = {at \in all : lists[at[1]][at[2]].chunk = i}
  BY DEF Places
<1> HIDE DEF all
<1> QED BY <1>1, <1>2, <1>3

\* Grouped: each chunk is in the list of its host.
LEMMA GroupedCovers ==
    ASSUME NEW file \in Seq(Node), NEW c \in Seq(Node), Len(c) = Len(file),
           \A i \in 1 .. Len(file) : c[i] \in Holders(file[i]),
           NEW order, Lists(order, UsedNodes(c)), NEW i \in 1 .. Len(file)
    PROVE  OnOneHolder(Grouped(order, c), Whole, file, i)
<1> USE DEF UsedNodes
<1> DEFINE blocks == Grouped(order, c)
           lists == [k \in DOMAIN blocks |-> blocks[k].physical_blocks]
<1>1. order \in Seq(Node) /\ DOMAIN order = 1 .. Len(order)
      /\ \A k \in 1 .. Len(order) : order[k] \in Node
  BY DEF Lists
<1>2. PICK k \in 1 .. Len(order) : order[k] = c[i]
  BY DEF Lists
<1>3. DOMAIN blocks = 1 .. Len(order) /\ DOMAIN lists = 1 .. Len(order)
  BY <1>1 DEF Grouped
<1>4. ASSUME NEW l \in 1 .. Len(order)
      PROVE  /\ lists[l] = blocks[l].physical_blocks /\ lists[l] \in Seq(Item)
             /\ Collects(blocks[l], c, order[l], 0, Len(file))
  <2>1. blocks[l] = OfNode(c, order[l], 0) /\ lists[l] = blocks[l].physical_blocks
    BY <1>1, <1>3 DEF Grouped
  <2>2. OfNode(c, order[l], 0) \in LBlock /\ Collects(OfNode(c, order[l], 0), c, order[l], 0, Len(c))
    BY <1>1, OfNodeFacts
  <2> HIDE DEF blocks, lists
  <2> QED BY <2>1, <2>2 DEF LBlock
<1> HIDE DEF blocks, lists
<1>5. PICK p \in 1 .. Len(lists[k]) : lists[k][p].chunk = i
  BY <1>2, <1>4 DEF Collects
<1>6. ASSUME NEW l \in DOMAIN lists, NEW q \in DOMAIN lists[l], lists[l][q].chunk = i
      PROVE  l = k /\ q = p
  <2>1. l \in 1 .. Len(order) /\ q \in 1 .. Len(lists[l])
    BY <1>3, <1>4
  <2>2. c[i] = order[l]
    BY <1>4, <1>6, <2>1 DEF Collects
  <2>3. l = k
    BY <1>2, <2>1, <2>2 DEF Lists
  <2>4. q = p
    BY <1>4, <1>5, <1>6, <2>1, <2>3 DEF Collects
  <2> QED BY <2>3, <2>4
<1>7. p \in DOMAIN lists[k] /\ k \in DOMAIN lists
  BY <1>3, <1>4, <1>5
<1>8. Places(lists, i) = {<<k, p>>}
  BY ONLY <1>5, <1>6, <1>7, OnePlace
<1>9. blocks[k].host \in Holders(file[i])
  BY <1>2, <1>4 DEF Collects
<1> QED BY <1>3, <1>7, <1>8, <1>9 DEF OnOneHolder, Whole, lists, blocks

\* KeptCoversFile for scheduler_base.
LEMMA BaseCovers ==
    ASSUME NEW file \in Seq(Node), NEW i \in 1 .. Len(file)
    PROVE  OnOneHolder(SchedulerBase(file), PrimaryPart, file, i)
<1> DEFINE blocks == SchedulerBase(file)
           lists == [k \in DOMAIN blocks |-> PrimaryPart(blocks[k])]
           own(k) == Own(file, k - 1)
<1>1. DOMAIN blocks = 1 .. N /\ DOMAIN lists = 1 .. N
  BY DEF SchedulerBase
<1>2. ASSUME NEW l \in 1 .. N
      PROVE  /\ l - 1 \in Node /\ blocks[l].host = l - 1
             /\ Collects(own(l), file, l - 1, 1, Len(file)) /\ own(l).physical_blocks \in Seq(Item)
             /\ DOMAIN lists[l] = 1 .. Len(own(l).physical_blocks)
             /\ \A p \in DOMAIN lists[l] : lists[l][p] = own(l).physical_blocks[p]
  <2>1. l - 1 \in Node /\ blocks[l].host = l - 1 /\ blocks[l].primary_chunk_num \in Nat
        /\ blocks[l].physical_blocks \in Seq(Item)
        /\ \A p \in 1 .. blocks[l].primary_chunk_num :
              blocks[l].physical_blocks[p] = own(l).physical_blocks[p]
    BY BaseLists
  <2>2. blocks[l].primary_chunk_num = own(l).primary_chunk_num
    BY BaseBlock
  <2>3. /\ Collects(own(l), file, l - 1, 1, Len(file)) /\ own(l).physical_blocks \in Seq(Item)
        /\ own(l).primary_chunk_num = Len(own(l).physical_blocks)
    BY <2>1, OwnFacts
  <2>4. lists[l] = SubSeq(blocks[l].physical_blocks, 1, blocks[l].primary_chunk_num)
    BY <1>1 DEF PrimaryPart
  <2> HIDE DEF blocks, lists, own
  <2>5. DOMAIN lists[l] = 1 .. blocks[l].primary_chunk_num
        /\ \A p \in 1 .. blocks[l].primary_chunk_num : lists[l][p] = blocks[l].physical_blocks[p]
    BY <2>1, <2>4
  <2> QED BY <2>1, <2>2, <2>3, <2>5
<1> DEFINE k == file[i] + 1
<1>3. k \in 1 .. N /\ k - 1 = file[i]
  BY RingAssumption DEF Node
<1> HIDE DEF blocks, lists, own, k
<1>4. PICK p \in 1 .. Len(own(k).physical_blocks) : own(k).physical_blocks[p].chunk = i
  BY <1>2, <1>3 DEF Collects
<1>5. p \in DOMAIN lists[k] /\ k \in DOMAIN lists /\ lists[k][p].chunk = i
  BY <1>1, <1>2, <1>3, <1>4
<1>6. ASSUME NEW l \in DOMAIN lists, NEW q \in DOMAIN lists[l], lists[l][q].chunk = i
      PROVE  l = k /\ q = p
  <2>1. l \in 1 .. N /\ q \in 1 .. Len(own(l).physical_blocks) /\ own(l).physical_blocks[q].chunk = i
    BY <1>1, <1>2, <1>6
  <2>2. file[i] = l - 1
    BY <1>2, <2>1 DEF Collects
  <2>3. l = k
    BY <1>3, <2>1, <2>2
  <2>4. q = p
    BY <1>2, <1>3, <1>4, <2>1, <2>3 DEF Collects
  <2> QED BY <2>3, <2>4
<1>7. Places(lists, i) = {<<k, p>>}
  BY ONLY <1>5, <1>6, OnePlace
<1>8. blocks[k].host \in Holders(file[i])
  BY <1>2, <1>3 DEF Holders
<1> QED BY <1>1, <1>3, <1>5, <1>7, <1>8 DEF OnOneHolder, lists, blocks
-----------------------------------------------------------------------------
(* The schedulers that balance: each node has several lists. Chunk j is to *)
(* be on the nodes in homes[j], once on each, and in the primary part      *)
(* where it is one of the first cut chunks.                                *)
Size(dist, n, s)     == Len(dist[n][s].physical_blocks)
Chunk(dist, n, s, p) == dist[n][s].physical_blocks[p].chunk

Holds(dist, homes, cut) ==
    /\ dist \in [Node -> Seq(LBlock)]
    /\ \A n \in Node : \A s \in 1 .. Len(dist[n]) :
          /\ dist[n][s].host = n
          /\ dist[n][s].primary_chunk_num <= Size(dist, n, s)
    /\ \A n \in Node : \A s \in 1 .. Len(dist[n]) : \A p \in 1 .. Size(dist, n, s) :
          /\ Chunk(dist, n, s, p) \in DOMAIN homes
          /\ n \in homes[Chunk(dist, n, s, p)]
          /\ p <= dist[n][s].primary_chunk_num <=> Chunk(dist, n, s, p) <= cut
    /\ \A n \in Node : \A s, r \in 1 .. Len(dist[n]) :
          \A p \in 1 .. Size(dist, n, s), q \in 1 .. Size(dist, n, r) :
              Chunk(dist, n, s, p) = Chunk(dist, n, r, q) => s = r /\ p = q
    /\ \A j \in DOMAIN homes : \A n \in homes[j] :
          \E s \in 1 .. Len(dist[n]) : \E p \in 1 .. Size(dist, n, s) : Chunk(dist, n, s, p) = j

\* What the lists of all nodes are made of.
LEMMA HoldsTypes ==
    ASSUME NEW dist \in [Node -> Seq(LBlock)], NEW n \in Node, NEW s \in 1 .. Len(dist[n])
    PROVE  /\ dist[n] \in Seq(LBlock) /\ dist[n][s] \in LBlock /\ Size(dist, n, s) \in Nat
           /\ dist[n][s].primary_chunk_num \in Nat /\ dist[n][s].physical_blocks \in Seq(Item)
           /\ \A p \in 1 .. Size(dist, n, s) : Chunk(dist, n, s, p) \in Nat
<1>1. dist[n] \in Seq(LBlock)
  OBVIOUS
<1>2. dist[n][s] \in LBlock
  BY <1>1
<1>3. dist[n][s].physical_blocks \in Seq(Item) /\ dist[n][s].primary_chunk_num \in Nat
  BY <1>2 DEF LBlock
<1>4. \A p \in 1 .. Len(dist[n][s].physical_blocks) : dist[n][s].physical_blocks[p] \in Item
  BY <1>3
<1>5. Size(dist, n, s) = Len(dist[n][s].physical_blocks) /\ Size(dist, n, s) \in Nat
  BY <1>3 DEF Size
<1>6. ASSUME NEW p \in 1 .. Size(dist, n, s) PROVE Chunk(dist, n, s, p) \in Nat
  <2>1. dist[n][s].physical_blocks[p] \in Item
    BY <1>4, <1>5
  <2>2. dist[n][s].physical_blocks[p].chunk \in Nat
    BY ONLY <2>1 DEF Item
  <2> QED BY ONLY <2>2 DEF Chunk
<1> QED BY ONLY <1>1, <1>2, <1>3, <1>5, <1>6

Grown(homes, i, n) == [homes EXCEPT ![i] = @ \cup {n}]

InPrimary(i, cut) == IF i <= cut THEN 1 ELSE 0

\* A node without chunk i, the chunks of the primary parts being the first.
Fits(M, homes, cut, i, n) ==
    /\ M \in Nat /\ homes \in [1 .. M -> SUBSET Node] /\ cut \in Nat
    /\ i \in 1 .. M /\ n \in Node /\ n \notin homes[i]
    /\ i <= cut => \A j \in 1 .. M : homes[j] # {} => j <= cut

\* The chunk goes to the end of list s.
Moved(dist, d2, n, s, i, primary) ==
    /\ s \in 1 .. Len(dist[n])
    /\ d2 \in [Node -> Seq(LBlock)]
    /\ \A m \in Node : m # n => d2[m] = dist[m]
    /\ Len(d2[n]) = Len(dist[n])
    /\ \A r \in 1 .. Len(dist[n]) : r # s => d2[n][r] = dist[n][r]
    /\ d2[n][s] = Add(dist[n][s], i, primary)

\* Adding a chunk to one list of a node adds that node to the homes of the chunk.
LEMMA AddTo ==
    ASSUME NEW M, NEW homes, NEW cut, NEW i, NEW n, Fits(M, homes, cut, i, n),
           NEW dist, Holds(dist, homes, cut),
           NEW d2, NEW s, Moved(dist, d2, n, s, i, InPrimary(i, cut))
    PROVE  Holds(d2, Grown(homes, i, n), cut)
<1> USE DEF Fits, Moved
<1> DEFINE h2 == [homes EXCEPT ![i] = @ \cup {n}]
           b == dist[n][s]
           primary == InPrimary(i, cut)
           last == Size(dist, n, s) + 1
<1>1. dist \in [Node -> Seq(LBlock)]
  BY DEF Holds
<1>2. b \in LBlock /\ Size(dist, n, s) \in Nat /\ b.primary_chunk_num \in Nat
  BY <1>1, HoldsTypes
<1>3. i \in Nat /\ primary \in {0, 1}
  BY DEF InPrimary
<1>4. /\ d2[n][s].host = b.host /\ d2[n][s].primary_chunk_num = b.primary_chunk_num + primary
      /\ Size(d2, n, s) = last /\ Chunk(d2, n, s, last) = i
      /\ \A p \in 1 .. last - 1 : Chunk(d2, n, s, p) = Chunk(dist, n, s, p)
  <2> DEFINE c == Add(b, i, primary)
  <2>1. /\ c.host = b.host /\ c.primary_chunk_num = b.primary_chunk_num + primary
        /\ Len(c.physical_blocks) = Len(b.physical_blocks) + 1
        /\ \A p \in 1 .. Len(b.physical_blocks) : c.physical_blocks[p] = b.physical_blocks[p]
        /\ c.physical_blocks[Len(b.physical_blocks) + 1] = [chunk |-> i, node |-> b.host]
    <3>1. b \in LBlock /\ i \in Nat /\ primary \in {0, 1}
      BY <1>2, <1>3
    <3> HIDE DEF b, primary
    <3> QED BY ONLY <3>1, Added
  <2>2. d2[n][s] = c
    OBVIOUS
  <2>3. Size(d2, n, s) = Len(c.physical_blocks) /\ Size(dist, n, s) = Len(b.physical_blocks)
        /\ \A p : /\ Chunk(d2, n, s, p) = c.physical_blocks[p].chunk
                  /\ Chunk(dist, n, s, p) = b.physical_blocks[p].chunk
    BY <2>2 DEF Size, Chunk
  <2> HIDE DEF c, primary, b
  <2>4. last = Len(b.physical_blocks) + 1 /\ last - 1 = Len(b.physical_blocks)
    BY <1>2, <2>3
  <2>5. c.physical_blocks[last].chunk = i
    BY <2>1, <2>4
  <2>6. Size(d2, n, s) = last
    BY <2>1, <2>3, <2>4
  <2>7. Chunk(d2, n, s, last) = i
    BY <2>3, <2>5
  <2>8. \A p \in 1 .. last - 1 : Chunk(d2, n, s, p) = Chunk(dist, n, s, p)
    BY <2>1, <2>3, <2>4
  <2> HIDE DEF last
  <2> QED BY <2>1, <2>2, <2>6, <2>7, <2>8
<1> HIDE DEF b, last, primary
<1>5. ASSUME NEW m \in Node, NEW r \in 1 .. Len(d2[m]), ~(m = n /\ r = s)
      PROVE  /\ r \in 1 .. Len(dist[m]) /\ d2[m][r] = dist[m][r] /\ Size(d2, m, r) = Size(dist, m, r)
             /\ \A p : Chunk(d2, m, r, p) = Chunk(dist, m, r, p)
  <2>1. r \in 1 .. Len(dist[m]) /\ d2[m][r] = dist[m][r]
    BY <1>5
  <2> QED BY <2>1 DEF Size, Chunk
<1>6. /\ h2 \in [1 .. M -> SUBSET Node] /\ DOMAIN homes = 1 .. M /\ DOMAIN h2 = 1 .. M
      /\ \A j \in 1 .. M : homes[j] \subseteq h2[j] /\ (j # i => h2[j] = homes[j])
      /\ h2[i] = homes[i] \cup {n}
  OBVIOUS
<1> HIDE DEF h2
<1>7. last \in Nat /\ \A p \in 1 .. last : p \in 1 .. last - 1 \/ p = last
  BY <1>2 DEF last
<1>8. \A p \in 1 .. last - 1 : /\ p \in 1 .. Size(dist, n, s) /\ Chunk(dist, n, s, p) # i
                               /\ Chunk(dist, n, s, p) \in 1 .. M /\ n \in homes[Chunk(dist, n, s, p)]
  BY <1>2, <1>6 DEF Holds, last
<1>9. primary = 1 => b.primary_chunk_num = last - 1
  <2> SUFFICES ASSUME i <= cut PROVE b.primary_chunk_num = last - 1
    BY DEF primary, InPrimary
  <2>1. \A p \in 1 .. last - 1 : Chunk(dist, n, s, p) <= cut
    BY <1>8
  <2>2. \A p \in 1 .. last - 1 : p <= b.primary_chunk_num
    BY <1>8, <2>1 DEF Holds, b
  <2>3. b.primary_chunk_num <= last - 1
    BY <1>2 DEF Holds, b, last
  <2> QED BY <1>2, <1>7, <2>2, <2>3
<1>10. ASSUME NEW m \in Node, NEW r \in 1 .. Len(d2[m])
       PROVE  d2[m][r].host = m /\ d2[m][r].primary_chunk_num <= Size(d2, m, r)
  <2>1. CASE m = n /\ r = s
    BY <1>2, <1>3, <1>4, <2>1 DEF Holds, b, last
  <2>2. CASE ~(m = n /\ r = s)
    BY <1>5, <2>2 DEF Holds
  <2> QED BY <2>1, <2>2
<1>11. ASSUME NEW m \in Node, NEW r \in 1 .. Len(d2[m]), NEW p \in 1 .. Size(d2, m, r)
       PROVE  /\ Chunk(d2, m, r, p) \in DOMAIN h2
              /\ m \in h2[Chunk(d2, m, r, p)]
              /\ p <= d2[m][r].primary_chunk_num <=> Chunk(d2, m, r, p) <= cut
  <2>1. CASE ~(m = n /\ r = s)
    <3>1. r \in 1 .. Len(dist[m]) /\ p \in 1 .. Size(dist, m, r) /\ d2[m][r] = dist[m][r]
          /\ Chunk(d2, m, r, p) = Chunk(dist, m, r, p)
      BY <1>5, <2>1
    <3>2. /\ Chunk(dist, m, r, p) \in DOMAIN homes /\ m \in homes[Chunk(dist, m, r, p)]
          /\ p <= dist[m][r].primary_chunk_num <=> Chunk(dist, m, r, p) <= cut
      BY <3>1 DEF Holds
    <3> QED BY <1>6, <3>1, <3>2
  <2>2. CASE m = n /\ r = s /\ p \in 1 .. last - 1
    <3>1. /\ Chunk(d2, n, s, p) = Chunk(dist, n, s, p)
          /\ p <= b.primary_chunk_num <=> Chunk(dist, n, s, p) <= cut
      BY <1>4, <1>8, <2>2 DEF Holds, b
    <3>2. p <= b.primary_chunk_num + primary <=> p <= b.primary_chunk_num
      BY <1>2, <1>3, <1>7, <1>9, <2>2
    <3> QED BY <1>4, <1>6, <1>8, <2>2, <3>1, <3>2
  <2>3. CASE m = n /\ r = s /\ p = last
    <3>1. last <= b.primary_chunk_num + primary <=> i <= cut
      <4>1. b.primary_chunk_num <= last - 1
        BY <1>2 DEF Holds, b, last
      <4> QED BY <1>2, <1>7, <1>9, <4>1 DEF primary, InPrimary
    <3> QED BY <1>4, <1>6, <2>3, <3>1
  <2> QED BY <1>4, <1>7, <2>1, <2>2, <2>3
<1>12. ASSUME NEW m \in Node, NEW r \in 1 .. Len(d2[m]), NEW t \in 1 .. Len(d2[m]),
              NEW p \in 1 .. Size(d2, m, r), NEW q \in 1 .. Size(d2, m, t),
              Chunk(d2, m, r, p) = Chunk(d2, m, t, q)
       PROVE  r = t /\ p = q
  <2>1. ASSUME NEW u \in 1 .. Len(d2[m]), NEW x \in 1 .. Size(d2, m, u), ~(m = n /\ u = s /\ x = last)
        PROVE  /\ u \in 1 .. Len(dist[m]) /\ x \in 1 .. Size(dist, m, u)
               /\ Chunk(d2, m, u, x) = Chunk(dist, m, u, x) /\ (m = n => Chunk(d2, m, u, x) # i)
    <3>1. CASE m = n /\ u = s
      BY <1>4, <1>7, <1>8, <2>1, <3>1
    <3>2. CASE ~(m = n /\ u = s)
      <4>1. u \in 1 .. Len(dist[m]) /\ x \in 1 .. Size(dist, m, u)
            /\ Chunk(d2, m, u, x) = Chunk(dist, m, u, x)
        BY <1>5, <3>2
      <4>2. m \in homes[Chunk(dist, m, u, x)]
        BY <4>1 DEF Holds
      <4> QED BY <4>1, <4>2
    <3> QED BY <3>1, <3>2
  <2>2. CASE m = n /\ r = s /\ p = last
    BY <1>4, <1>12, <2>1, <2>2
  <2>3. CASE m = n /\ t = s /\ q = last
    BY <1>4, <1>12, <2>1, <2>3
  <2>4. CASE ~(m = n /\ r = s /\ p = last) /\ ~(m = n /\ t = s /\ q = last)
    <3>1. /\ r \in 1 .. Len(dist[m]) /\ p \in 1 .. Size(dist, m, r)
          /\ t \in 1 .. Len(dist[m]) /\ q \in 1 .. Size(dist, m, t)
          /\ Chunk(dist, m, r, p) = Chunk(dist, m, t, q)
      BY <1>12, <2>1, <2>4
    <3> QED BY <3>1 DEF Holds
  <2> QED BY <2>2, <2>3, <2>4
<1>13. ASSUME NEW j \in DOMAIN h2, NEW m \in h2[j]
       PROVE  \E r \in 1 .. Len(d2[m]) : \E p \in 1 .. Size(d2, m, r) : Chunk(d2, m, r, p) = j
  <2>1. CASE j = i /\ m = n
    <3>1. s \in 1 .. Len(d2[m]) /\ last \in 1 .. Size(d2, m, s)
      BY <1>2, <1>4, <2>1 DEF last
    <3> QED BY <1>4, <2>1, <3>1
  <2>2. CASE ~(j = i /\ m = n)
    <3>1. m \in homes[j] /\ j \in 1 .. M /\ m \in Node
      BY <1>6, <2>2
    <3>2. PICK r \in 1 .. Len(dist[m]) : \E p \in 1 .. Size(dist, m, r) : Chunk(dist, m, r, p) = j
      BY <1>6, <3>1 DEF Holds
    <3>6. PICK p \in 1 .. Size(dist, m, r) : Chunk(dist, m, r, p) = j
      BY <3>2
    <3>3. r \in 1 .. Len(d2[m])
      BY <3>1
    <3>4. CASE m = n /\ r = s
      <4>1. p \in 1 .. last - 1 /\ p \in 1 .. last
        BY <1>2, <3>4 DEF last
      <4> QED BY <1>4, <3>3, <3>4, <3>6, <4>1
    <3>5. CASE ~(m = n /\ r = s)
      BY <1>5, <3>1, <3>3, <3>5, <3>6
    <3> QED BY <3>4, <3>5
  <2> QED BY <2>1, <2>2
<1>14. Holds(d2, h2, cut)
  BY <1>10, <1>11, <1>12, <1>13 DEF Holds
<1> QED BY <1>14 DEF h2, Grown
-----------------------------------------------------------------------------
(* The lists of all nodes as one.                                          *)
LEMMA FlattenedLoop ==
    ASSUME NEW dist \in [Node -> Seq(LBlock)]
    PROVE  \E f : /\ \A i \in 1 .. N : f[i] \in Seq(LBlock)
                  /\ f[1] = dist[0]
                  /\ \A i \in 2 .. N : f[i] = f[i - 1] \o dist[i - 1]
                  /\ Flattened(dist) = f[N]
<1> DEFINE seqs == [k \in 1 .. N |-> dist[k - 1]]
           step == [z \in Seq(LBlock) \X (1 .. N - 1) |-> z[1] \o seqs[z[2] + 1]]
<1>1. N - 1 \in Nat /\ N \in Nat /\ N # 0
  BY RingAssumption
<1>2. \A k \in 1 .. N : seqs[k] = dist[k - 1] /\ seqs[k] \in Seq(LBlock)
  <2>1. \A k \in 1 .. N : k - 1 \in Node
    BY <1>1 DEF Node
  <2> QED BY <2>1
<1>3. seqs \in Seq(Seq(LBlock)) /\ Len(seqs) = N
  BY <1>1, <1>2
<1>4. step \in [Seq(LBlock) \X (1 .. N - 1) -> Seq(LBlock)]
      /\ \A s \in Seq(LBlock) : \A i \in 1 .. N - 1 : step[<<s, i>>] = s \o seqs[i + 1]
  <2>1. ASSUME NEW s \in Seq(LBlock), NEW i \in 1 .. N - 1 PROVE s \o seqs[i + 1] \in Seq(LBlock)
    <3>1. seqs[i + 1] \in Seq(LBlock)
      <4>1. i + 1 \in 1 .. N
        BY <1>1
      <4> HIDE DEF seqs
      <4> QED BY <1>2, <4>1
    <3> HIDE DEF seqs
    <3> QED BY <3>1
  <2> HIDE DEF seqs
  <2> QED BY <2>1
<1>5. seqs[1] \in Seq(LBlock)
  BY <1>1, <1>2
<1> HIDE DEF step, seqs
<1>6. PICK g \in [0 .. N - 1 -> Seq(LBlock)] :
          g[0] = seqs[1] /\ \A i \in 1 .. N - 1 : g[i] = step[<<g[i - 1], i>>]
  <2>1. Steps(step, Seq(LBlock), N - 1)
    BY <1>4 DEF Steps
  <2>2. \E g : Run(g, seqs[1], step, Seq(LBlock), N - 1)
    BY ONLY <1>1, <1>5, <2>1, Loop, Zenon
  <2> QED BY <2>2 DEF Run
<1> DEFINE Round(r) == [i \in 1 .. N |-> IF i = 1 THEN seqs[i] ELSE r[i - 1] \o seqs[i]]
           f == CHOOSE f : f = Round(f)
           h == [i \in 1 .. N |-> g[i - 1]]
<1>7. h = Round(h)
  <2>1. ASSUME NEW i \in 1 .. N PROVE h[i] = IF i = 1 THEN seqs[i] ELSE h[i - 1] \o seqs[i]
    <3>1. CASE i = 1
      BY <1>6, <3>1
    <3>2. CASE i # 1
      <4>1. /\ i - 1 \in 1 .. N - 1 /\ i - 1 \in 1 .. N /\ (i - 1) - 1 \in 0 .. N - 1
            /\ (i - 1) + 1 = i
        BY <1>1, <3>2
      <4>2. g[i - 1] = g[(i - 1) - 1] \o seqs[i]
        BY <1>4, <1>6, <4>1
      <4>3. h[i] = g[i - 1] /\ h[i - 1] = g[(i - 1) - 1]
        BY <4>1
      <4> QED BY <3>2, <4>2, <4>3
    <3> QED BY <3>1, <3>2
  <2>2. h = [i \in 1 .. N |-> h[i]]
    OBVIOUS
  <2> HIDE DEF h
  <2> QED BY <2>1, <2>2
<1>8. f = Round(f)
  <2> HIDE DEF Round, h
  <2> QED BY <1>7, Zenon
<1>9. Flattened(dist) = f[N]
  <2>1. Flattened(dist) = FlattenSeq(seqs)
    BY DEF Flattened, seqs
  <2>2. FlattenSeq(seqs) = (CHOOSE r : r = [i \in 1 .. Len(seqs) |->
                               IF i = 1 THEN seqs[i] ELSE r[i - 1] \o seqs[i]])[Len(seqs)]
    <3>1. Len(seqs) # 0
      BY <1>1, <1>3
    <3> QED BY <3>1 DEF FlattenSeq
  <2> QED BY <1>3, <2>1, <2>2
<1> HIDE DEF f
<1>10. f[1] = seqs[1] /\ \A i \in 2 .. N : f[i] = f[i - 1] \o seqs[i]
  <2>1. 1 \in 1 .. N /\ \A i \in 2 .. N : i \in 1 .. N /\ i # 1
    BY <1>1
  <2> QED BY <1>8, <2>1
<1> HIDE DEF Round
<1> DEFINE T == {i \in 0 .. N - 1 : f[i + 1] \in Seq(LBlock)}
<1>11. 0 .. N - 1 \subseteq T
  <2>1. 0 \in T
    BY <1>1, <1>5, <1>10
  <2>2. ASSUME NEW i \in 1 .. N - 1, i - 1 \in T PROVE i \in T
    <3>1. i + 1 \in 2 .. N /\ (i + 1) - 1 = i /\ (i - 1) + 1 = i /\ i \in 0 .. N - 1 /\ i + 1 \in 1 .. N
      BY <1>1
    <3>2. f[i] \in Seq(LBlock) /\ f[i + 1] = f[i] \o seqs[i + 1] /\ seqs[i + 1] \in Seq(LBlock)
      BY <1>2, <1>10, <2>2, <3>1
    <3>3. f[i + 1] \in Seq(LBlock)
      BY <3>2
    <3> QED BY <3>1, <3>3
  <2> HIDE DEF T
  <2> QED BY ONLY <1>1, <2>1, <2>2, UpTo
<1>12. ASSUME NEW i \in 1 .. N PROVE f[i] \in Seq(LBlock)
  <2>1. i - 1 \in 0 .. N - 1 /\ (i - 1) + 1 = i
    BY <1>1
  <2> QED BY <1>11, <2>1
<1>13. \A i \in 2 .. N : i \in 1 .. N
  BY <1>1
<1>14. seqs[1] = dist[0] /\ \A i \in 2 .. N : seqs[i] = dist[i - 1]
  BY <1>1, <1>2, <1>13
<1> QED BY <1>9, <1>10, <1>12, <1>14

\* The block at place x of the flattened list is list at[x][2] of node at[x][1].
Mapped(w, at, dist, m) ==
    /\ w \in Seq(LBlock)
    /\ \A x \in 1 .. Len(w) :
          /\ at[x][1] \in 0 .. m - 1 /\ at[x][2] \in 1 .. Len(dist[at[x][1]])
          /\ w[x] = dist[at[x][1]][at[x][2]]
    /\ \A x, y \in 1 .. Len(w) : at[x][1] = at[y][1] /\ at[x][2] = at[y][2] => x = y
    /\ \A n \in 0 .. m - 1 : \A s \in 1 .. Len(dist[n]) :
          \E x \in 1 .. Len(w) : at[x][1] = n /\ at[x][2] = s

\* Appending the lists of one more node extends the map of places.
LEMMA MapMore ==
    ASSUME NEW dist \in [Node -> Seq(LBlock)], NEW m \in 1 .. N - 1,
           NEW w, NEW at, Mapped(w, at, dist, m)
    PROVE  \E a : Mapped(w \o dist[m], a, dist, m + 1)
<1> DEFINE v == dist[m]
           c == w \o v
           a == [x \in 1 .. Len(w) + Len(v) |-> IF x <= Len(w) THEN at[x] ELSE <<m, x - Len(w)>>]
<1>1. m \in Node /\ m \in Nat
  BY RingAssumption DEF Node
<1>2. w \in Seq(LBlock) /\ v \in Seq(LBlock) /\ Len(w) \in Nat /\ Len(v) \in Nat
  BY <1>1 DEF Mapped
<1> HIDE DEF v
<1>3. c \in Seq(LBlock) /\ Len(c) = Len(w) + Len(v)
      /\ \A x \in 1 .. Len(w) + Len(v) : c[x] = IF x <= Len(w) THEN w[x] ELSE v[x - Len(w)]
  BY <1>2, ConcatProperties
<1> HIDE DEF c
<1>4. ASSUME NEW x \in 1 .. Len(w) PROVE x \in 1 .. Len(c) /\ a[x] = at[x] /\ c[x] = w[x]
  BY <1>2, <1>3
<1>5. ASSUME NEW x \in 1 .. Len(c), x \notin 1 .. Len(w)
      PROVE  /\ a[x][1] = m /\ a[x][2] = x - Len(w) /\ x - Len(w) \in 1 .. Len(v)
             /\ c[x] = v[x - Len(w)]
  BY <1>2, <1>3, <1>5
<1> HIDE DEF a
<1>6. ASSUME NEW x \in 1 .. Len(c)
      PROVE  /\ a[x][1] \in 0 .. m /\ a[x][2] \in 1 .. Len(dist[a[x][1]])
             /\ c[x] = dist[a[x][1]][a[x][2]]
  <2>1. CASE x \in 1 .. Len(w)
    <3>1. a[x] = at[x] /\ c[x] = w[x]
      BY <1>4, <2>1
    <3>2. at[x][1] \in 0 .. m - 1 /\ at[x][2] \in 1 .. Len(dist[at[x][1]])
          /\ w[x] = dist[at[x][1]][at[x][2]]
      BY <2>1 DEF Mapped
    <3> QED BY <1>1, <3>1, <3>2
  <2>2. CASE x \notin 1 .. Len(w)
    BY <1>1, <1>5, <2>2 DEF v
  <2> QED BY <2>1, <2>2
<1>7. ASSUME NEW x \in 1 .. Len(c), NEW y \in 1 .. Len(c), a[x][1] = a[y][1], a[x][2] = a[y][2]
      PROVE  x = y
  <2>1. \A z \in 1 .. Len(w) : a[z] = at[z] /\ at[z][1] \in 0 .. m - 1
    BY <1>4 DEF Mapped
  <2>2. CASE x \in 1 .. Len(w) /\ y \in 1 .. Len(w)
    BY <1>7, <2>1, <2>2 DEF Mapped
  <2>3. CASE x \notin 1 .. Len(w) /\ y \notin 1 .. Len(w)
    BY <1>2, <1>3, <1>5, <1>7, <2>3
  <2>4. CASE x \in 1 .. Len(w) /\ y \notin 1 .. Len(w)
    BY <1>1, <1>5, <1>7, <2>1, <2>4
  <2>5. CASE x \notin 1 .. Len(w) /\ y \in 1 .. Len(w)
    BY <1>1, <1>5, <1>7, <2>1, <2>5
  <2> QED BY <2>2, <2>3, <2>4, <2>5
<1>8. ASSUME NEW n \in 0 .. m, NEW s \in 1 .. Len(dist[n])
      PROVE  \E x \in 1 .. Len(c) : a[x][1] = n /\ a[x][2] = s
  <2>1. CASE n = m
    <3>1. Len(w) + s \in 1 .. Len(c) /\ Len(w) + s \notin 1 .. Len(w) /\ (Len(w) + s) - Len(w) = s
      BY <1>2, <1>3, <2>1 DEF v
    <3> QED BY <1>5, <2>1, <3>1
  <2>2. CASE n # m
    <3>1. n \in 0 .. m - 1
      BY <1>1, <2>2
    <3>2. PICK x \in 1 .. Len(w) : at[x][1] = n /\ at[x][2] = s
      BY <3>1 DEF Mapped
    <3> QED BY <1>4, <3>2
  <2> QED BY <2>1, <2>2
<1>9. (m + 1) - 1 = m
  BY <1>1
<1>10. Mapped(c, a, dist, m + 1)
  BY <1>3, <1>6, <1>7, <1>8, <1>9 DEF Mapped
<1> QED BY <1>10 DEF c, v

\* Each block of the flattened list is one list of one node, and each list is there.
LEMMA FlattenedFacts ==
    ASSUME NEW dist \in [Node -> Seq(LBlock)]
    PROVE  \E at : Mapped(Flattened(dist), at, dist, N)
<1>1. PICK f : /\ f[1] = dist[0]
               /\ \A i \in 2 .. N : f[i] = f[i - 1] \o dist[i - 1]
               /\ Flattened(dist) = f[N]
  BY FlattenedLoop
<1>2. N - 1 \in Nat /\ 0 \in Node
  BY RingAssumption DEF Node
<1> DEFINE T == {i \in 0 .. N - 1 : \E at : Mapped(f[i + 1], at, dist, i + 1)}
<1>3. 0 \in T
  <2> DEFINE v == dist[0]
             a == [x \in 1 .. Len(v) |-> <<0, x>>]
  <2>1. v \in Seq(LBlock)
    BY <1>2
  <2>2. \A x \in 1 .. Len(v) : a[x][1] = 0 /\ a[x][2] = x
    OBVIOUS
  <2>3. \A n \in 0 .. 0 : n = 0
    OBVIOUS
  <2> HIDE DEF a
  <2>4. Mapped(v, a, dist, 1)
    <3> HIDE DEF v
    <3>1. v = dist[0]
      BY DEF v
    <3> QED BY <2>1, <2>2, <2>3, <3>1 DEF Mapped
  <2> QED BY <1>1, <1>2, <2>4
<1>4. ASSUME NEW i \in 1 .. N - 1, i - 1 \in T PROVE i \in T
  <2>1. (i - 1) + 1 = i /\ i + 1 \in 2 .. N /\ (i + 1) - 1 = i /\ i \in 0 .. N - 1
    BY RingAssumption
  <2>2. PICK at : Mapped(f[i], at, dist, i)
    BY <1>4, <2>1
  <2>3. f[i + 1] = f[i] \o dist[i]
    BY <1>1, <2>1
  <2>4. \E a : Mapped(f[i] \o dist[i], a, dist, i + 1)
    BY <2>2, MapMore
  <2> QED BY <2>1, <2>3, <2>4
<1> HIDE DEF T
<1>5. N - 1 \in T
  <2>1. 0 .. N - 1 \subseteq T
    BY ONLY <1>2, <1>3, <1>4, UpTo
  <2> QED BY <1>2, <2>1
<1>6. (N - 1) + 1 = N
  BY RingAssumption
<1> QED BY <1>1, <1>5, <1>6 DEF T

-----------------------------------------------------------------------------
(* Where a chunk is, for the schedulers that balance.                      *)
FlatLists(dist, part) == [x \in DOMAIN Flattened(dist) |-> part[Flattened(dist)[x]]]

\* Chunk i is at place p of list s of node n, and nowhere else.
Sole(dist, part, i, n, s, p) ==
    /\ n \in Node /\ s \in 1 .. Len(dist[n])
    /\ p \in DOMAIN part[dist[n][s]] /\ part[dist[n][s]][p].chunk = i
    /\ \A m \in Node : \A r \in 1 .. Len(dist[m]) : \A q \in DOMAIN part[dist[m][r]] :
           part[dist[m][r]][q].chunk = i => m = n /\ r = s /\ q = p

\* A chunk that is at one place in the lists is at one place when they are flattened.
LEMMA FlatPlace ==
    ASSUME NEW dist \in [Node -> Seq(LBlock)], NEW part, NEW i, NEW n, NEW s, NEW p,
           Sole(dist, part, i, n, s, p), NEW lists, lists = FlatLists(dist, part)
    PROVE  \E k \in DOMAIN lists : /\ Flattened(dist)[k] = dist[n][s] /\ p \in DOMAIN lists[k]
                                   /\ Places(lists, i) = {<<k, p>>}
<1> USE DEF Sole
<1> DEFINE w == Flattened(dist)
<1>1. PICK at : Mapped(w, at, dist, N)
  BY FlattenedFacts
<1>2. DOMAIN w = 1 .. Len(w) /\ DOMAIN lists = 1 .. Len(w)
  BY <1>1 DEF Mapped, FlatLists
<1>3. \A x \in 1 .. Len(w) : lists[x] = part[w[x]]
  BY <1>2 DEF FlatLists
<1> HIDE DEF w
<1>4. Node = 0 .. N - 1
  BY DEF Node
<1>5. PICK k \in 1 .. Len(w) : at[k][1] = n /\ at[k][2] = s
  BY <1>1, <1>4 DEF Mapped
<1>6. w[k] = dist[n][s] /\ lists[k] = part[dist[n][s]]
  BY <1>1, <1>3, <1>5 DEF Mapped
<1>7. ASSUME NEW l \in DOMAIN lists, NEW q \in DOMAIN lists[l], lists[l][q].chunk = i
      PROVE  l = k /\ q = p
  <2>1. l \in 1 .. Len(w)
    BY <1>2
  <2> DEFINE m == at[l][1]
             r == at[l][2]
  <2>2. m \in Node /\ r \in 1 .. Len(dist[m]) /\ w[l] = dist[m][r]
    BY <1>1, <1>4, <2>1 DEF Mapped
  <2>3. lists[l] = part[dist[m][r]]
    BY <1>3, <2>1, <2>2
  <2>4. m = n /\ r = s /\ q = p
    <3> HIDE DEF m, r
    <3>1. q \in DOMAIN part[dist[m][r]] /\ part[dist[m][r]][q].chunk = i
      BY <1>7, <2>3
    <3> QED BY <2>2, <3>1
  <2>5. l = k
    BY <1>1, <1>5, <2>1, <2>2, <2>4 DEF Mapped
  <2> QED BY <2>4, <2>5
<1>8. k \in DOMAIN lists /\ p \in DOMAIN lists[k] /\ lists[k][p].chunk = i
  BY <1>2, <1>6
<1>9. Places(lists, i) = {<<k, p>>}
  BY ONLY <1>7, <1>8, OnePlace
<1> QED BY <1>6, <1>8, <1>9 DEF w

Hosted(dist) ==
    /\ dist \in [Node -> Seq(LBlock)]
    /\ \A m \in Node : \A r \in 1 .. Len(dist[m]) :
           dist[m][r].host = m /\ dist[m][r].primary_chunk_num <= Size(dist, m, r)
SolePrimary(dist, i, n, s, p) ==
    /\ n \in Node /\ s \in 1 .. Len(dist[n])
    /\ p \in 1 .. dist[n][s].primary_chunk_num /\ Chunk(dist, n, s, p) = i
    /\ \A m \in Node : \A r \in 1 .. Len(dist[m]) : \A q \in 1 .. dist[m][r].primary_chunk_num :
           Chunk(dist, m, r, q) = i => m = n /\ r = s /\ q = p

\* A chunk that is in one primary part only.
LEMMA PrimaryCovers ==
    ASSUME NEW file, NEW dist, Hosted(dist), NEW i, NEW n, n \in Holders(file[i]),
           NEW s, NEW p, SolePrimary(dist, i, n, s, p)
    PROVE  OnOneHolder(Flattened(dist), PrimaryPart, file, i)
<1> USE DEF Hosted, SolePrimary
<1> DEFINE w == Flattened(dist)
           part == [b \in LBlock |-> PrimaryPart(b)]
           lists == [x \in DOMAIN w |-> part[w[x]]]
<1>1. ASSUME NEW m \in Node, NEW r \in 1 .. Len(dist[m])
      PROVE  /\ DOMAIN part[dist[m][r]] = 1 .. dist[m][r].primary_chunk_num
             /\ \A q \in 1 .. dist[m][r].primary_chunk_num :
                    part[dist[m][r]][q].chunk = Chunk(dist, m, r, q)
  <2> DEFINE b == dist[m][r]
  <2>1. b \in LBlock /\ b.primary_chunk_num \in Nat /\ b.physical_blocks \in Seq(Item)
        /\ b.primary_chunk_num <= Len(b.physical_blocks)
    BY HoldsTypes DEF Size
  <2> HIDE DEF b
  <2>2. part[b] = SubSeq(b.physical_blocks, 1, b.primary_chunk_num)
    BY <2>1 DEF PrimaryPart
  <2>3. DOMAIN part[b] = 1 .. b.primary_chunk_num
        /\ \A q \in 1 .. b.primary_chunk_num : part[b][q] = b.physical_blocks[q]
    BY <2>1, <2>2
  <2> QED BY <2>3 DEF b, Chunk
<1> HIDE DEF part
<1>2. p \in DOMAIN part[dist[n][s]] /\ part[dist[n][s]][p].chunk = i
  BY <1>1
<1>3. ASSUME NEW m \in Node, NEW r \in 1 .. Len(dist[m]), NEW q \in DOMAIN part[dist[m][r]],
             part[dist[m][r]][q].chunk = i
      PROVE  m = n /\ r = s /\ q = p
  <2>1. q \in 1 .. dist[m][r].primary_chunk_num /\ Chunk(dist, m, r, q) = i
    BY <1>1, <1>3
  <2> QED BY <2>1
<1>4. PICK k \in DOMAIN lists : /\ w[k] = dist[n][s] /\ p \in DOMAIN lists[k]
                                /\ Places(lists, i) = {<<k, p>>}
  <2>1. lists = FlatLists(dist, part)
    BY DEF FlatLists
  <2>2. Sole(dist, part, i, n, s, p)
    BY <1>2, <1>3 DEF Sole
  <2> HIDE DEF lists
  <2> QED BY <2>1, <2>2, FlatPlace
<1>5. \A x \in DOMAIN w : w[x] \in LBlock
  <2>1. w \in Seq(LBlock)
    BY FlattenedFacts DEF Mapped
  <2> HIDE DEF w
  <2> QED BY <2>1
<1> HIDE DEF w
<1>6. lists = [x \in DOMAIN w |-> PrimaryPart(w[x])]
  BY <1>5 DEF part
<1>7. k \in DOMAIN w /\ w[k].host \in Holders(file[i])
  BY <1>4
<1> HIDE DEF lists
<1> QED BY <1>4, <1>6, <1>7 DEF OnOneHolder, w

\* A home of a chunk has it at one place.
LEMMA OneHome ==
    ASSUME NEW dist, NEW homes, NEW cut, Holds(dist, homes, cut),
           NEW i \in DOMAIN homes, NEW n \in Node, n \in homes[i]
    PROVE  \E s \in 1 .. Len(dist[n]) : \E p \in 1 .. Size(dist, n, s) :
               /\ Chunk(dist, n, s, p) = i
               /\ \A r \in 1 .. Len(dist[n]) : \A q \in 1 .. Size(dist, n, r) :
                      Chunk(dist, n, r, q) = i => r = s /\ q = p
<1>1. PICK s \in 1 .. Len(dist[n]) : \E p \in 1 .. Size(dist, n, s) : Chunk(dist, n, s, p) = i
  BY DEF Holds
<1>2. PICK p \in 1 .. Size(dist, n, s) : Chunk(dist, n, s, p) = i
  BY <1>1
<1>3. ASSUME NEW r \in 1 .. Len(dist[n]), NEW q \in 1 .. Size(dist, n, r), Chunk(dist, n, r, q) = i
      PROVE  r = s /\ q = p
  BY <1>2, <1>3 DEF Holds
<1> QED BY <1>2, <1>3

\* A chunk with a single home is in one block, which a holder of it reads.
LEMMA WholeCovers ==
    ASSUME NEW file, NEW dist, NEW homes, NEW cut, Holds(dist, homes, cut),
           NEW i \in DOMAIN homes, NEW n \in Node, homes[i] = {n}, n \in Holders(file[i])
    PROVE  OnOneHolder(Flattened(dist), Whole, file, i)
<1> DEFINE w == Flattened(dist)
           part == [b \in LBlock |-> b.physical_blocks]
           lists == [x \in DOMAIN w |-> part[w[x]]]
<1>1. dist \in [Node -> Seq(LBlock)]
  BY DEF Holds
<1>2. ASSUME NEW m \in Node, NEW r \in 1 .. Len(dist[m])
      PROVE  /\ DOMAIN part[dist[m][r]] = 1 .. Size(dist, m, r)
             /\ \A q : part[dist[m][r]][q].chunk = Chunk(dist, m, r, q)
  <2> DEFINE b == dist[m][r]
  <2>1. b \in LBlock /\ b.physical_blocks \in Seq(Item)
    BY <1>1, HoldsTypes
  <2> HIDE DEF b
  <2>2. part[b] = b.physical_blocks /\ DOMAIN b.physical_blocks = 1 .. Len(b.physical_blocks)
    BY <2>1
  <2> QED BY <2>2 DEF b, Chunk, Size
<1>10. PICK s \in 1 .. Len(dist[n]) : \E p \in 1 .. Size(dist, n, s) :
               /\ Chunk(dist, n, s, p) = i
               /\ \A r \in 1 .. Len(dist[n]) : \A q \in 1 .. Size(dist, n, r) :
                      Chunk(dist, n, r, q) = i => r = s /\ q = p
  BY OneHome
<1>3. PICK p \in 1 .. Size(dist, n, s) :
               /\ Chunk(dist, n, s, p) = i
               /\ \A r \in 1 .. Len(dist[n]) : \A q \in 1 .. Size(dist, n, r) :
                      Chunk(dist, n, r, q) = i => r = s /\ q = p
  BY <1>10
<1> HIDE DEF part
<1>4. p \in DOMAIN part[dist[n][s]] /\ part[dist[n][s]][p].chunk = i
  BY <1>2, <1>3
<1>5. ASSUME NEW m \in Node, NEW r \in 1 .. Len(dist[m]), NEW q \in DOMAIN part[dist[m][r]],
             part[dist[m][r]][q].chunk = i
      PROVE  m = n /\ r = s /\ q = p
  <2>1. q \in 1 .. Size(dist, m, r) /\ Chunk(dist, m, r, q) = i
    BY <1>2, <1>5
  <2>2. m \in homes[i]
    BY <2>1 DEF Holds
  <2> QED BY <1>3, <2>1, <2>2
<1>6. PICK k \in DOMAIN lists : /\ w[k] = dist[n][s] /\ p \in DOMAIN lists[k]
                                /\ Places(lists, i) = {<<k, p>>}
  <2>1. lists = FlatLists(dist, part)
    BY DEF FlatLists
  <2>2. Sole(dist, part, i, n, s, p)
    BY <1>4, <1>5 DEF Sole
  <2> HIDE DEF lists
  <2> QED BY <1>1, <2>1, <2>2, FlatPlace
<1>7. \A x \in DOMAIN w : w[x] \in LBlock
  <2>1. w \in Seq(LBlock)
    BY <1>1, FlattenedFacts DEF Mapped
  <2> HIDE DEF w
  <2> QED BY <2>1
<1> HIDE DEF w
<1>8. lists = [x \in DOMAIN w |-> Whole(w[x])]
  BY <1>7 DEF part, Whole
<1>9. k \in DOMAIN w /\ w[k].host \in Holders(file[i])
  BY <1>6 DEF Holds
<1> HIDE DEF lists
<1> QED BY <1>6, <1>8, <1>9 DEF OnOneHolder, w

-----------------------------------------------------------------------------
(* scheduler_lean and scheduler_steal.                                     *)
Filling(slots) == [counter : [Node -> Nat], dist : [Node -> [1 .. slots -> LBlock]]]
Triples == {t \in [1 .. 3 -> Node] : t[1] # t[2] /\ t[1] # t[3] /\ t[2] # t[3]}

\* A fixed number of slots is a list of blocks.
LEMMA SlotsAreLists ==
    ASSUME NEW slots \in Nat, NEW dist \in [Node -> [1 .. slots -> LBlock]]
    PROVE  /\ dist \in [Node -> Seq(LBlock)]
           /\ \A n \in Node : Len(dist[n]) = slots
<1>1. ASSUME NEW n \in Node PROVE dist[n] \in Seq(LBlock) /\ Len(dist[n]) = slots
  <2>1. dist[n] \in [1 .. slots -> LBlock]
    OBVIOUS
  <2> QED BY <2>1
<1> QED BY <1>1

CanPlace(st, n, slots, i, primary) ==
    /\ slots \in Nat \ {0} /\ st \in Filling(slots)
    /\ n \in Node /\ i \in Nat /\ primary \in {0, 1}

\* The slot is one of the node's, and all others stay as they are.
LEMMA Placed ==
    ASSUME NEW slots, NEW st, NEW n, NEW i, NEW primary, CanPlace(st, n, slots, i, primary),
           NEW after, after = Place(st, n, slots, i, primary)
    PROVE  after \in Filling(slots) /\ \E s : Moved(st.dist, after.dist, n, s, i, primary)
<1> USE DEF CanPlace
<1> DEFINE counter == st.counter
           dist == st.dist
           s == (counter[n] % slots) + 1
           d2 == [dist EXCEPT ![n][s] = Add(@, i, primary)]
           c2 == [counter EXCEPT ![n] = @ + 1]
<1>1. counter \in [Node -> Nat] /\ dist \in [Node -> [1 .. slots -> LBlock]]
  BY DEF Filling
<1>2. s \in 1 .. slots
  <2>1. counter[n] \in Nat
    BY <1>1
  <2> HIDE DEF counter
  <2> QED BY <2>1
<1>3. Place(st, n, slots, i, primary) = [counter |-> c2, dist |-> d2]
  BY DEF Place
<1> HIDE DEF counter, dist, s
<1>4. c2 \in [Node -> Nat]
  BY <1>1
<1>5. dist[n] \in [1 .. slots -> LBlock]
  BY <1>1
<1>6. dist[n][s] \in LBlock
  BY <1>2, <1>5
<1> DEFINE x == Add(dist[n][s], i, primary)
<1>7. x \in LBlock
  BY <1>6, Added
<1>8. d2 = [dist EXCEPT ![n] = [dist[n] EXCEPT ![s] = x]]
  OBVIOUS
<1> HIDE DEF x, d2, c2
<1>9. d2 \in [Node -> [1 .. slots -> LBlock]]
  BY <1>1, <1>5, <1>7, <1>8
<1>10. /\ \A m \in Node : m # n => d2[m] = dist[m]
       /\ d2[n] = [dist[n] EXCEPT ![s] = x]
  BY <1>1, <1>8
<1>11. d2[n][s] = x /\ \A r \in 1 .. slots : r # s => d2[n][r] = dist[n][r]
  BY <1>2, <1>5, <1>10
<1>12. after \in Filling(slots) /\ after.dist = d2
  BY <1>3, <1>4, <1>9 DEF Filling
<1>13. d2 \in [Node -> Seq(LBlock)] /\ Len(dist[n]) = slots /\ Len(d2[n]) = slots
  BY <1>1, <1>9, SlotsAreLists
<1>14. Moved(dist, d2, n, s, i, primary)
  BY <1>2, <1>10, <1>11, <1>13 DEF Moved, x
<1> QED BY <1>12, <1>14 DEF dist

\* Place adds the node to the homes of the chunk.
LEMMA PlaceHolds ==
    ASSUME NEW slots, NEW st, slots \in Nat \ {0}, st \in Filling(slots),
           NEW M, NEW homes, NEW cut, NEW i, NEW n, Fits(M, homes, cut, i, n),
           Holds(st.dist, homes, cut),
           NEW after, after = Place(st, n, slots, i, InPrimary(i, cut))
    PROVE  after \in Filling(slots) /\ Holds(after.dist, Grown(homes, i, n), cut)
<1>1. CanPlace(st, n, slots, i, InPrimary(i, cut))
  BY DEF CanPlace, InPrimary, Fits
<1>2. after \in Filling(slots) /\ \E s : Moved(st.dist, after.dist, n, s, i, InPrimary(i, cut))
  BY <1>1, Placed, Zenon
<1>3. PICK s : Moved(st.dist, after.dist, n, s, i, InPrimary(i, cut))
  BY <1>2
<1>4. Holds(after.dist, Grown(homes, i, n), cut)
  BY <1>3, AddTo, Zenon
<1> QED BY <1>2, <1>4

\* The least loaded of three nodes is one of them.
LEMMA LeastIsOne ==
    ASSUME NEW counter \in [Node -> Nat], NEW t \in Triples
    PROVE  LeastLoaded(counter, t) \in {t[1], t[2], t[3]}
<1> DEFINE Least(k) == \A m \in DOMAIN t :
               counter[t[k]] < counter[t[m]] \/ (counter[t[k]] = counter[t[m]] /\ k <= m)
<1>1. DOMAIN t = 1 .. 3 /\ t[1] \in Node /\ t[2] \in Node /\ t[3] \in Node
  BY DEF Triples
<1>2. counter[t[1]] \in Nat /\ counter[t[2]] \in Nat /\ counter[t[3]] \in Nat
  BY <1>1
<1>3. \E k \in DOMAIN t : Least(k)
  <2>1. \A m \in DOMAIN t : m = 1 \/ m = 2 \/ m = 3
    BY <1>1
  <2>2. Least(1) \/ Least(2) \/ Least(3)
    BY <1>2, <2>1
  <2> QED BY <1>1, <2>2
<1>4. LeastLoaded(counter, t) = t[CHOOSE k \in DOMAIN t : Least(k)]
  BY DEF LeastLoaded
<1> HIDE DEF Least
<1> DEFINE k == CHOOSE k \in DOMAIN t : Least(k)
<1>5. k \in 1 .. 3
  BY <1>1, <1>3
<1>6. LeastLoaded(counter, t) = t[k]
  BY <1>4
<1> HIDE DEF k
<1> QED BY <1>5, <1>6

\* At the start the slots are empty blocks of their nodes.
LEMMA UnfilledType ==
    ASSUME NEW slots \in Nat \ {0}
    PROVE  /\ Unfilled(slots) \in Filling(slots)
           /\ \A n \in Node : \A s \in 1 .. slots : Unfilled(slots).dist[n][s] = LogicalBlock(n)
<1>1. \A n \in Node : Slots(n, slots) \in [1 .. slots -> LBlock]
  BY Empty DEF Slots
<1>2. Unfilled(slots) \in Filling(slots)
  BY <1>1 DEF Unfilled, Filling
<1>3. \A n \in Node : Unfilled(slots).dist[n] = Slots(n, slots)
  BY DEF Unfilled
<1> QED BY <1>2, <1>3 DEF Slots

\* The three placements of PlaceOnAll, one after the other.
LEMMA OnAllTypes ==
    ASSUME NEW slots, NEW st, slots \in Nat \ {0}, st \in Filling(slots),
           NEW t \in Triples, NEW i \in Nat
    PROVE  PlaceOnAll(st, t, slots, i) \in Filling(slots)
<1>1. t[1] \in Node /\ t[2] \in Node /\ t[3] \in Node
  BY DEF Triples
<1> DEFINE a == Place(st, t[1], slots, i, 0)
           b == Place(a, t[2], slots, i, 0)
           c == Place(b, t[3], slots, i, 0)
<1>2. a \in Filling(slots)
  <2>1. CanPlace(st, t[1], slots, i, 0)
    BY <1>1 DEF CanPlace
  <2> QED BY <2>1, Placed, Zenon
<1> HIDE DEF a
<1>3. b \in Filling(slots)
  <2>1. CanPlace(a, t[2], slots, i, 0)
    BY <1>1, <1>2 DEF CanPlace
  <2> QED BY <2>1, Placed, Zenon
<1> HIDE DEF b
<1>4. c \in Filling(slots)
  <2>1. CanPlace(b, t[3], slots, i, 0)
    BY <1>1, <1>3 DEF CanPlace
  <2> QED BY <2>1, Placed, Zenon
<1> QED BY <1>4 DEF PlaceOnAll, a, b

\* PlaceOnOne fills a slot of one of the three holders.
LEMMA OnOneTypes ==
    ASSUME NEW slots, NEW st, slots \in Nat \ {0}, st \in Filling(slots),
           NEW t \in Triples, NEW i \in Nat
    PROVE  PlaceOnOne(st, t, slots, i) \in Filling(slots)
           /\ \E k \in 1 .. 3 : LeastLoaded(st.counter, t) = t[k]
<1>1. t[1] \in Node /\ t[2] \in Node /\ t[3] \in Node /\ st.counter \in [Node -> Nat]
  BY DEF Triples, Filling
<1>2. LeastLoaded(st.counter, t) \in {t[1], t[2], t[3]}
  BY <1>1, LeastIsOne
<1>3. CanPlace(st, LeastLoaded(st.counter, t), slots, i, 1)
  BY <1>1, <1>2 DEF CanPlace
<1>4. Place(st, LeastLoaded(st.counter, t), slots, i, 1) \in Filling(slots)
  BY <1>3, Placed, Zenon
<1> QED BY <1>2, <1>4 DEF PlaceOnOne

\* Distributed is the last round of a loop over the chunks of the file.
LEMMA DistributedLoop ==
    ASSUME NEW ids \in Seq(Triples), NEW slots \in Nat \ {0}, NEW cut \in Nat
    PROVE  \E g \in [0 .. Len(ids) -> Filling(slots)] :
              /\ g[0] = Unfilled(slots)
              /\ \A i \in 1 .. Len(ids) : g[i] = IF i <= cut
                                                    THEN PlaceOnOne(g[i - 1], ids[i], slots, i)
                                                    ELSE PlaceOnAll(g[i - 1], ids[i], slots, i)
              /\ Distributed(ids, slots, cut) = g[Len(ids)].dist
<1> DEFINE len == Len(ids)
           Next1(b, i) == IF i <= cut THEN PlaceOnOne(b, ids[i], slots, i)
                          ELSE PlaceOnAll(b, ids[i], slots, i)
           step == [z \in Filling(slots) \X (1 .. len) |-> Next1(z[1], z[2])]
<1>1. len \in Nat
  OBVIOUS
<1> HIDE DEF len
<1>2. ASSUME NEW b \in Filling(slots), NEW i \in 1 .. len PROVE Next1(b, i) \in Filling(slots)
  <2>1. ids[i] \in Triples /\ i \in Nat
    BY <1>1 DEF len
  <2>2. slots \in Nat \ {0} /\ b \in Filling(slots)
    OBVIOUS
  <2>3. PlaceOnOne(b, ids[i], slots, i) \in Filling(slots)
    BY <2>1, <2>2, OnOneTypes, Zenon
  <2>4. PlaceOnAll(b, ids[i], slots, i) \in Filling(slots)
    BY <2>1, <2>2, OnAllTypes, Zenon
  <2> QED BY <2>3, <2>4
<1> HIDE DEF Next1
<1>3. step \in [Filling(slots) \X (1 .. len) -> Filling(slots)]
      /\ \A b \in Filling(slots) : \A i \in 1 .. len : step[<<b, i>>] = Next1(b, i)
  BY <1>2
<1> HIDE DEF step
<1>4. Unfilled(slots) \in Filling(slots)
  BY UnfilledType
<1>5. PICK g \in [0 .. len -> Filling(slots)] :
          g[0] = Unfilled(slots) /\ \A i \in 1 .. len : g[i] = step[<<g[i - 1], i>>]
  <2>1. Steps(step, Filling(slots), len)
    BY <1>3 DEF Steps
  <2>2. \E g : Run(g, Unfilled(slots), step, Filling(slots), len)
    BY ONLY <1>1, <1>4, <2>1, Loop, Zenon
  <2> QED BY <2>2 DEF Run
<1> DEFINE Round(r) == [i \in 0 .. len |-> IF i = 0 THEN Unfilled(slots) ELSE Next1(r[i - 1], i)]
           f == CHOOSE f : f = Round(f)
<1>6. g = Round(g)
  <2>1. ASSUME NEW i \in 0 .. len
        PROVE  g[i] = IF i = 0 THEN Unfilled(slots) ELSE Next1(g[i - 1], i)
    <3>1. CASE i # 0
      <4>1. i \in 1 .. len /\ i - 1 \in 0 .. len
        BY <1>1, <3>1
      <4> QED BY <1>3, <1>5, <3>1, <4>1
    <3> QED BY <1>5, <3>1
  <2>2. g = [i \in 0 .. len |-> g[i]]
    OBVIOUS
  <2> QED BY <2>1, <2>2
<1>7. f = Round(f)
  <2> HIDE DEF Round
  <2> QED BY <1>6, Zenon
<1>8. Distributed(ids, slots, cut) = f[len].dist
  BY DEF Distributed, Next1, len
<1> HIDE DEF f
<1>9. f[0] = Unfilled(slots) /\ \A i \in 1 .. len : f[i] = Next1(f[i - 1], i)
  <2> DEFINE base == Unfilled(slots)
  <2> HIDE DEF base
  <2>1. f = [i \in 0 .. len |-> IF i = 0 THEN base ELSE Next1(f[i - 1], i)]
    BY <1>7 DEF base
  <2>2. f[0] = base
    BY <1>1, <2>1
  <2>3. ASSUME NEW i \in 1 .. len PROVE f[i] = Next1(f[i - 1], i)
    BY <1>1, <2>1
  <2> QED BY <2>2, <2>3 DEF base
<1>10. f = [i \in 0 .. len |-> f[i]]
  BY <1>7
<1> HIDE DEF Round
<1> DEFINE T == {i \in 0 .. len : f[i] \in Filling(slots)}
<1>11. 0 .. len \subseteq T
  <2>1. 0 \in T
    <3>1. f[0] \in Filling(slots)
      BY <1>4, <1>9
    <3> QED BY <1>1, <3>1
  <2>2. ASSUME NEW i \in 1 .. len, i - 1 \in T PROVE i \in T
    <3>1. f[i - 1] \in Filling(slots) /\ i \in 0 .. len
      BY <1>1, <2>2
    <3>2. Next1(f[i - 1], i) \in Filling(slots)
      BY <1>2, <3>1
    <3> QED BY <1>9, <3>1, <3>2
  <2> HIDE DEF T
  <2> QED BY <1>1, <2>1, <2>2, UpTo
<1>12. f \in [0 .. len -> Filling(slots)]
  BY <1>10, <1>11
<1> QED BY <1>8, <1>9, <1>12 DEF Next1, len

\* Where the chunks go when each goes to one holder: cnt[i] is
\* node_chunks_counter after i chunks.
Loading(cnt, ids, home) ==
    /\ cnt \in [0 .. Len(ids) -> [Node -> Nat]] /\ \A n \in Node : cnt[0][n] = 0
    /\ home \in [1 .. Len(ids) -> Node]
    /\ \A i \in 1 .. Len(ids) :
          /\ home[i] = LeastLoaded(cnt[i - 1], ids[i])
          /\ home[i] \in {ids[i][1], ids[i][2], ids[i][3]}
          /\ \A n \in Node : cnt[i][n] = IF n = home[i] THEN cnt[i - 1][n] + 1 ELSE cnt[i - 1][n]

\* The homes that the counters decide, chunk by chunk, exist.
LEMMA LoadingExists ==
    ASSUME NEW ids \in Seq(Triples)
    PROVE  \E cnt, home : Loading(cnt, ids, home)
<1> DEFINE len == Len(ids)
           S == [Node -> Nat]
           Next1(c, i) == [n \in Node |-> IF n = LeastLoaded(c, ids[i]) THEN c[n] + 1 ELSE c[n]]
           step == [z \in S \X (1 .. len) |-> Next1(z[1], z[2])]
           base == [n \in Node |-> 0]
<1>1. len \in Nat /\ base \in S /\ \A n \in Node : base[n] = 0
  OBVIOUS
<1>2. \A c \in S : \A i : Next1(c, i) \in S /\ \A n \in Node :
          Next1(c, i)[n] = IF n = LeastLoaded(c, ids[i]) THEN c[n] + 1 ELSE c[n]
  OBVIOUS
<1> HIDE DEF Next1, S, base, len
<1>3. step \in [S \X (1 .. len) -> S]
      /\ \A c \in S : \A i \in 1 .. len : step[<<c, i>>] = Next1(c, i)
  BY <1>2
<1> HIDE DEF step
<1>4. \E g : Run(g, base, step, S, len)
  <2>1. Steps(step, S, len)
    BY <1>3 DEF Steps
  <2> QED BY ONLY <1>1, <2>1, Loop, Zenon
<1>5. PICK cnt : Run(cnt, base, step, S, len)
  BY <1>4
<1>6. /\ cnt \in [0 .. len -> S] /\ cnt[0] = base
      /\ \A i \in 1 .. len : cnt[i] = step[<<cnt[i - 1], i>>]
  BY <1>5 DEF Run
<1>7. ASSUME NEW i \in 1 .. len
      PROVE  /\ cnt[i - 1] \in S /\ ids[i] \in Triples
             /\ \A n \in Node : cnt[i][n] = IF n = LeastLoaded(cnt[i - 1], ids[i])
                                           THEN cnt[i - 1][n] + 1 ELSE cnt[i - 1][n]
  <2>1. i - 1 \in 0 .. len
    BY <1>1
  <2>2. cnt[i - 1] \in S
    BY <1>6, <2>1
  <2>3. cnt[i] = Next1(cnt[i - 1], i)
    BY <1>3, <1>6, <2>2
  <2> QED BY <1>2, <2>2, <2>3 DEF len
<1> DEFINE home == [i \in 1 .. len |-> LeastLoaded(cnt[i - 1], ids[i])]
<1>8. ASSUME NEW i \in 1 .. len
      PROVE  home[i] = LeastLoaded(cnt[i - 1], ids[i])
             /\ home[i] \in {ids[i][1], ids[i][2], ids[i][3]} /\ home[i] \in Node
  <2>1. LeastLoaded(cnt[i - 1], ids[i]) \in {ids[i][1], ids[i][2], ids[i][3]}
    BY <1>7, LeastIsOne DEF S
  <2>2. ids[i][1] \in Node /\ ids[i][2] \in Node /\ ids[i][3] \in Node
    BY <1>7 DEF Triples
  <2> QED BY <2>1, <2>2
<1>9. home = [i \in 1 .. len |-> home[i]]
  OBVIOUS
<1> HIDE DEF home
<1>10. Loading(cnt, ids, home)
  BY <1>1, <1>6, <1>7, <1>8, <1>9 DEF Loading, S, len
<1> QED BY <1>10

\* A chunk more does not change where the others went.
LEMMA LoadingMore ==
    ASSUME NEW ids \in Seq(Triples), NEW more \in Seq(Triples), Len(more) = Len(ids) + 1,
           \A i \in 1 .. Len(ids) : more[i] = ids[i],
           NEW cnt, NEW home, Loading(cnt, ids, home)
    PROVE  \E c2, h2 : Loading(c2, more, h2) /\ \A i \in 1 .. Len(ids) : h2[i] = home[i]
<1> DEFINE len == Len(ids)
<1>1. len \in Nat /\ len + 1 \in 1 .. len + 1
  OBVIOUS
<1>2. PICK c2, h2 : Loading(c2, more, h2)
  BY LoadingExists
<1> DEFINE T == {i \in 0 .. len : c2[i] = cnt[i] /\ (i # 0 => h2[i] = home[i])}
<1>3. /\ cnt \in [0 .. len -> [Node -> Nat]] /\ \A n \in Node : cnt[0][n] = 0
      /\ \A i \in 1 .. len :
            /\ home[i] = LeastLoaded(cnt[i - 1], ids[i])
            /\ \A n \in Node : cnt[i][n] = IF n = home[i] THEN cnt[i - 1][n] + 1 ELSE cnt[i - 1][n]
  BY DEF Loading
<1>4. /\ c2 \in [0 .. len + 1 -> [Node -> Nat]] /\ \A n \in Node : c2[0][n] = 0
      /\ \A i \in 1 .. len + 1 :
            /\ h2[i] = LeastLoaded(c2[i - 1], more[i])
            /\ \A n \in Node : c2[i][n] = IF n = h2[i] THEN c2[i - 1][n] + 1 ELSE c2[i - 1][n]
  BY <1>2 DEF Loading
<1> HIDE DEF len
<1>5. 0 \in T
  <2>1. cnt[0] \in [Node -> Nat] /\ c2[0] \in [Node -> Nat]
    BY <1>1, <1>3, <1>4
  <2>2. c2[0] = cnt[0]
    BY <1>3, <1>4, <2>1
  <2> QED BY <1>1, <2>2
<1>6. ASSUME NEW i \in 1 .. len, i - 1 \in T PROVE i \in T
  <2>1. c2[i - 1] = cnt[i - 1] /\ i \in 0 .. len /\ i \in 1 .. len + 1 /\ i \in 0 .. len + 1
    BY <1>1, <1>6
  <2>2. more[i] = ids[i]
    BY DEF len
  <2>3. h2[i] = home[i]
    BY <1>3, <1>4, <2>1, <2>2
  <2>4. cnt[i] \in [Node -> Nat] /\ c2[i] \in [Node -> Nat]
    BY <1>3, <1>4, <2>1
  <2>5. \A n \in Node : c2[i][n] = cnt[i][n]
    BY <1>3, <1>4, <2>1, <2>3
  <2>6. c2[i] = cnt[i]
    BY <2>4, <2>5
  <2> QED BY <2>1, <2>3, <2>6
<1> HIDE DEF T
<1>7. 0 .. len \subseteq T
  BY ONLY <1>1, <1>5, <1>6, UpTo
<1>8. ASSUME NEW i \in 1 .. len PROVE h2[i] = home[i]
  <2>1. i \in 0 .. len /\ i # 0
    BY <1>1
  <2> QED BY <1>7, <2>1 DEF T
<1> QED BY <1>2, <1>8 DEF len

\* After i chunks: the first cut of them on one holder each, the others on all.
Homed(homes, ids, home, cut, i) ==
    /\ homes \in [1 .. Len(ids) -> SUBSET Node]
    /\ \A j \in 1 .. Len(ids) :
          /\ j > i => homes[j] = {}
          /\ j <= i /\ j <= cut => homes[j] = {home[j]}
          /\ j <= i /\ j > cut => homes[j] = {ids[j][1], ids[j][2], ids[j][3]}

\* A chunk before the cut gets the home that the counters give it.
LEMMA OneMore ==
    ASSUME NEW ids \in Seq(Triples), NEW slots, slots \in Nat \ {0}, NEW cut \in Nat,
           NEW i \in 1 .. Len(ids), i <= cut, NEW st, st \in Filling(slots),
           NEW home, home[i] = LeastLoaded(st.counter, ids[i]),
           NEW homes, Homed(homes, ids, home, cut, i - 1), Holds(st.dist, homes, cut)
    PROVE  \E h : /\ Homed(h, ids, home, cut, i)
                  /\ Holds(PlaceOnOne(st, ids[i], slots, i).dist, h, cut)
<1> DEFINE M == Len(ids)
           n == LeastLoaded(st.counter, ids[i])
           h == Grown(homes, i, n)
<1>1. ids[i] \in Triples /\ M \in Nat /\ i \in 1 .. M /\ i \in Nat
  OBVIOUS
<1>2. PICK k \in 1 .. 3 : n = ids[i][k]
  <2>1. slots \in Nat \ {0} /\ st \in Filling(slots)
    OBVIOUS
  <2>2. \E k \in 1 .. 3 : LeastLoaded(st.counter, ids[i]) = ids[i][k]
    BY ONLY <1>1, <2>1, OnOneTypes, Zenon
  <2> QED BY <2>2
<1>3. n \in Node
  BY <1>1, <1>2 DEF Triples
<1>20. n = home[i]
  OBVIOUS
<1> HIDE DEF M, n
<1>4. /\ homes \in [1 .. M -> SUBSET Node] /\ homes[i] = {}
      /\ \A j \in 1 .. M : j > i - 1 => homes[j] = {}
  BY <1>1 DEF Homed, M
<1>5. Fits(M, homes, cut, i, n)
  <2>1. ASSUME NEW j \in 1 .. M, homes[j] # {} PROVE j <= cut
    <3>1. ~(j > i - 1)
      BY <1>4, <2>1
    <3> QED BY <1>1, <3>1
  <2> QED BY <1>1, <1>3, <1>4, <2>1 DEF Fits
<1>6. InPrimary(i, cut) = 1
  BY DEF InPrimary
<1>7. PlaceOnOne(st, ids[i], slots, i) = Place(st, n, slots, i, InPrimary(i, cut))
  BY <1>6 DEF PlaceOnOne, n
<1>8. slots \in Nat \ {0} /\ st \in Filling(slots)
  OBVIOUS
<1>9. Holds(PlaceOnOne(st, ids[i], slots, i).dist, h, cut)
  <2> HIDE DEF h
  <2>1. h = Grown(homes, i, n)
    BY DEF h
  <2> QED BY <1>5, <1>7, <1>8, <2>1, PlaceHolds, Zenon
<1>10. h \in [1 .. M -> SUBSET Node] /\ h[i] = {n} /\ \A j \in 1 .. M : j # i => h[j] = homes[j]
  BY <1>1, <1>3, <1>4 DEF Grown
<1> HIDE DEF h
<1>11. ASSUME NEW j \in 1 .. M
       PROVE  /\ j > i => h[j] = {}
              /\ j <= i /\ j <= cut => h[j] = {home[j]}
              /\ j <= i /\ j > cut => h[j] = {ids[j][1], ids[j][2], ids[j][3]}
  <2>1. CASE j = i
    BY <1>20, <1>10, <2>1
  <2>2. CASE j < i
    <3>1. h[j] = homes[j] /\ j <= i - 1
      BY <1>1, <1>10, <2>2
    <3>2. j <= cut
      BY <1>1, <2>2
    <3>3. homes[j] = {home[j]}
      BY <3>1, <3>2 DEF Homed, M
    <3> QED BY <2>2, <3>1, <3>2, <3>3
  <2>3. CASE j > i
    BY <1>1, <1>4, <1>10, <2>3
  <2> QED BY <1>1, <2>1, <2>2, <2>3
<1>12. Homed(h, ids, home, cut, i)
  BY <1>10, <1>11 DEF Homed, M
<1> QED BY <1>9, <1>12

\* A chunk behind the cut gets all three holders as homes.
LEMMA AllMore ==
    ASSUME NEW ids \in Seq(Triples), NEW slots, slots \in Nat \ {0}, NEW cut \in Nat,
           NEW i \in 1 .. Len(ids), ~(i <= cut), NEW st, st \in Filling(slots),
           NEW home, NEW homes, Homed(homes, ids, home, cut, i - 1), Holds(st.dist, homes, cut)
    PROVE  \E h : /\ Homed(h, ids, home, cut, i)
                  /\ Holds(PlaceOnAll(st, ids[i], slots, i).dist, h, cut)
<1> DEFINE M == Len(ids)
           t == ids[i]
           a == Place(st, t[1], slots, i, 0)
           b == Place(a, t[2], slots, i, 0)
           c == Place(b, t[3], slots, i, 0)
           ha == Grown(homes, i, t[1])
           hb == Grown(ha, i, t[2])
           h == Grown(hb, i, t[3])
<1>1. t \in Triples /\ M \in Nat /\ i \in 1 .. M /\ InPrimary(i, cut) = 0
  BY DEF InPrimary
<1>2. t[1] \in Node /\ t[2] \in Node /\ t[3] \in Node /\ t[1] # t[2] /\ t[1] # t[3] /\ t[2] # t[3]
  BY <1>1 DEF Triples
<1>3. PlaceOnAll(st, ids[i], slots, i) = c
  BY DEF PlaceOnAll
<1> HIDE DEF M, t
<1>4. /\ homes \in [1 .. M -> SUBSET Node] /\ homes[i] = {}
      /\ \A j \in 1 .. M : j > i - 1 => homes[j] = {}
  BY <1>1 DEF Homed, M
<1>5. ha \in [1 .. M -> SUBSET Node] /\ ha[i] = {t[1]} /\ \A j \in 1 .. M : j # i => ha[j] = homes[j]
  BY <1>1, <1>2, <1>4 DEF Grown
<1>6. hb \in [1 .. M -> SUBSET Node] /\ hb[i] = {t[1], t[2]} /\ \A j \in 1 .. M : j # i => hb[j] = homes[j]
  <2> HIDE DEF ha
  <2> QED BY <1>1, <1>2, <1>5 DEF Grown
<1>7. h \in [1 .. M -> SUBSET Node] /\ h[i] = {t[1], t[2], t[3]}
      /\ \A j \in 1 .. M : j # i => h[j] = homes[j]
  <2> HIDE DEF hb
  <2> QED BY <1>1, <1>2, <1>6 DEF Grown
<1>8. /\ Fits(M, homes, cut, i, t[1]) /\ Fits(M, ha, cut, i, t[2]) /\ Fits(M, hb, cut, i, t[3])
  <2> HIDE DEF ha, hb
  <2> QED BY <1>1, <1>2, <1>4, <1>5, <1>6 DEF Fits
<1> HIDE DEF a, b, c, ha, hb, h
<1>9. slots \in Nat \ {0} /\ st \in Filling(slots)
  OBVIOUS
<1>10. a \in Filling(slots) /\ Holds(a.dist, ha, cut)
  <2>1. a = Place(st, t[1], slots, i, InPrimary(i, cut)) /\ ha = Grown(homes, i, t[1])
    BY <1>1 DEF a, ha
  <2> QED BY <1>8, <1>9, <2>1, PlaceHolds, Zenon
<1>11. b \in Filling(slots) /\ Holds(b.dist, hb, cut)
  <2>1. b = Place(a, t[2], slots, i, InPrimary(i, cut)) /\ hb = Grown(ha, i, t[2])
    BY <1>1 DEF b, hb
  <2> QED BY <1>8, <1>9, <1>10, <2>1, PlaceHolds, Zenon
<1>12. c \in Filling(slots) /\ Holds(c.dist, h, cut)
  <2>1. c = Place(b, t[3], slots, i, InPrimary(i, cut)) /\ h = Grown(hb, i, t[3])
    BY <1>1 DEF c, h
  <2> QED BY <1>8, <1>9, <1>11, <2>1, PlaceHolds, Zenon
<1>13. ASSUME NEW j \in 1 .. M
       PROVE  /\ j > i => h[j] = {}
              /\ j <= i /\ j <= cut => h[j] = {home[j]}
              /\ j <= i /\ j > cut => h[j] = {ids[j][1], ids[j][2], ids[j][3]}
  <2>1. CASE j = i
    BY <1>1, <1>7, <2>1 DEF t
  <2>2. CASE j < i
    <3>1. h[j] = homes[j] /\ j <= i - 1
      BY <1>1, <1>7, <2>2
    <3>2. /\ j <= cut => homes[j] = {home[j]}
          /\ j > cut => homes[j] = {ids[j][1], ids[j][2], ids[j][3]}
      BY <3>1 DEF Homed, M
    <3> QED BY <1>1, <2>2, <3>1, <3>2
  <2>3. CASE j > i
    BY <1>1, <1>4, <1>7, <2>3
  <2> QED BY <1>1, <2>1, <2>2, <2>3
<1>14. Homed(h, ids, home, cut, i)
  BY <1>7, <1>13 DEF Homed, M
<1> QED BY <1>3, <1>12, <1>14

\* When Distributed ends each chunk has its homes and is nowhere else.
LEMMA DistributedFacts ==
    ASSUME NEW ids \in Seq(Triples), NEW slots \in Nat \ {0}, NEW cut \in Nat,
           NEW cnt, NEW home, Loading(cnt, ids, home)
    PROVE  /\ Distributed(ids, slots, cut) \in [Node -> [1 .. slots -> LBlock]]
           /\ \E homes : /\ Homed(homes, ids, home, cut, Len(ids))
                         /\ Holds(Distributed(ids, slots, cut), homes, cut)
<1> DEFINE M == Len(ids)
<1>1. PICK g \in [0 .. M -> Filling(slots)] :
          /\ g[0] = Unfilled(slots)
          /\ \A i \in 1 .. M : g[i] = IF i <= cut THEN PlaceOnOne(g[i - 1], ids[i], slots, i)
                                      ELSE PlaceOnAll(g[i - 1], ids[i], slots, i)
          /\ Distributed(ids, slots, cut) = g[M].dist
  BY DistributedLoop
<1>2. M \in Nat
  OBVIOUS
<1> DEFINE T == {i \in 0 .. M : /\ i <= cut => g[i].counter = cnt[i]
                              /\ \E h : Homed(h, ids, home, cut, i) /\ Holds(g[i].dist, h, cut)}
<1>7. /\ cnt \in [0 .. M -> [Node -> Nat]] /\ \A n \in Node : cnt[0][n] = 0
      /\ home \in [1 .. M -> Node]
      /\ \A i \in 1 .. M :
            /\ home[i] = LeastLoaded(cnt[i - 1], ids[i])
            /\ \A n \in Node : cnt[i][n] = IF n = home[i] THEN cnt[i - 1][n] + 1 ELSE cnt[i - 1][n]
  BY DEF Loading
<1>3. 0 \in T
  <2> DEFINE h == [j \in 1 .. M |-> {}]
             dist == Unfilled(slots).dist
  <2>1. Homed(h, ids, home, cut, 0)
    BY DEF Homed
  <2>2. /\ dist \in [Node -> [1 .. slots -> LBlock]]
        /\ \A n \in Node : \A s \in 1 .. slots : dist[n][s] = LogicalBlock(n)
    BY UnfilledType DEF Filling
  <2>3. DOMAIN h = 1 .. M /\ \A j \in 1 .. M : h[j] = {}
    OBVIOUS
  <2> HIDE DEF h, dist
  <2>4. dist \in [Node -> Seq(LBlock)] /\ \A n \in Node : Len(dist[n]) = slots
    BY <2>2, SlotsAreLists
  <2>5. ASSUME NEW n \in Node, NEW s \in 1 .. Len(dist[n])
        PROVE  dist[n][s].host = n /\ dist[n][s].primary_chunk_num = 0 /\ Size(dist, n, s) = 0
    <3>1. s \in 1 .. slots
      BY <2>4
    <3>2. dist[n][s] = LogicalBlock(n)
      BY <2>2, <3>1
    <3> QED BY <3>2 DEF LogicalBlock, Size
  <2>6. Holds(dist, h, cut)
    BY <2>3, <2>4, <2>5 DEF Holds
  <2>7. g[0].dist = dist
    BY <1>1 DEF dist
  <2>8. g[0].counter = cnt[0]
    <3>1. g[0].counter = [n \in Node |-> 0]
      BY <1>1 DEF Unfilled
    <3>2. cnt[0] \in [Node -> Nat]
      BY <1>2, <1>7
    <3> QED BY <1>7, <3>1, <3>2
  <2> QED BY <1>2, <2>1, <2>6, <2>7, <2>8
<1>4. ASSUME NEW i \in 1 .. M, i - 1 \in T PROVE i \in T
  <2>1. PICK h : Homed(h, ids, home, cut, i - 1) /\ Holds(g[i - 1].dist, h, cut)
    BY <1>4
  <2>2. i - 1 \in 0 .. M /\ i \in 0 .. M
    BY <1>2
  <2>3. g[i - 1] \in Filling(slots) /\ slots \in Nat \ {0}
    BY <1>1, <2>2
  <2>4. CASE i <= cut
    <3>3. g[i - 1].counter = cnt[i - 1]
      <4>1. i - 1 <= cut
        BY <1>2, <2>4
      <4> QED BY <1>4, <4>1
    <3>4. home[i] = LeastLoaded(g[i - 1].counter, ids[i])
      BY <1>7, <3>3
    <3>1. \E hh : /\ Homed(hh, ids, home, cut, i)
                  /\ Holds(PlaceOnOne(g[i - 1], ids[i], slots, i).dist, hh, cut)
      BY <2>1, <2>3, <2>4, <3>4, OneMore, Zenon
    <3>5. g[i].counter = cnt[i]
      <4> DEFINE c == cnt[i - 1]
      <4>1. PlaceOnOne(g[i - 1], ids[i], slots, i).counter = [g[i - 1].counter EXCEPT ![home[i]] = @ + 1]
        BY <3>4 DEF PlaceOnOne, Place
      <4>2. c \in [Node -> Nat] /\ cnt[i] \in [Node -> Nat]
        BY <1>7, <2>2
      <4>3. \A n \in Node : cnt[i][n] = IF n = home[i] THEN c[n] + 1 ELSE c[n]
        BY <1>7
      <4> HIDE DEF c
      <4>4. cnt[i] = [c EXCEPT ![home[i]] = @ + 1]
        BY <4>2, <4>3
      <4>5. g[i].counter = [c EXCEPT ![home[i]] = @ + 1]
        BY <1>1, <2>4, <3>3, <4>1 DEF c
      <4> QED BY <4>4, <4>5
    <3>2. g[i] = PlaceOnOne(g[i - 1], ids[i], slots, i)
      BY <1>1, <2>4
    <3> QED BY <2>2, <3>1, <3>2, <3>5
  <2>5. CASE ~(i <= cut)
    <3>1. \E hh : /\ Homed(hh, ids, home, cut, i)
                  /\ Holds(PlaceOnAll(g[i - 1], ids[i], slots, i).dist, hh, cut)
      BY <2>1, <2>3, <2>5, AllMore, Zenon
    <3>2. g[i] = PlaceOnAll(g[i - 1], ids[i], slots, i)
      BY <1>1, <2>5
    <3>3. ~(i <= cut)
      BY <2>5
    <3>4. \E hh : Homed(hh, ids, home, cut, i) /\ Holds(g[i].dist, hh, cut)
      BY <3>1, <3>2
    <3> QED BY <2>2, <3>3, <3>4
  <2> QED BY <2>4, <2>5
<1> HIDE DEF T
<1>5. M \in T
  <2>1. 0 .. M \subseteq T
    BY ONLY <1>2, <1>3, <1>4, UpTo
  <2> QED BY <1>2, <2>1
<1>6. g[M] \in Filling(slots)
  BY <1>1, <1>2
<1> QED BY <1>1, <1>5, <1>6 DEF T, Filling


\* The lists that the schedulers give to Distributed.
LEMMA HolderTriples ==
    ASSUME NEW file \in Seq(Node), NEW ids, DOMAIN ids = DOMAIN file,
           \A i \in DOMAIN file : ids[i] \in Triples
                                  /\ {ids[i][1], ids[i][2], ids[i][3]} = Holders(file[i]),
           ids = [i \in DOMAIN ids |-> ids[i]]
    PROVE  ids \in Seq(Triples) /\ Len(ids) = Len(file)
<1>1. DOMAIN file = 1 .. Len(file) /\ Len(file) \in Nat
  OBVIOUS
<1>2. ids \in [1 .. Len(file) -> Triples]
  BY <1>1
<1> QED BY <1>1, <1>2

\* A chunk of the primary parts that was given to one holder.
LEMMA HomeCovers ==
    ASSUME NEW file, NEW dist, NEW homes, NEW cut, Holds(dist, homes, cut),
           NEW i \in DOMAIN homes, i <= cut, NEW n \in Node, homes[i] = {n}, n \in Holders(file[i])
    PROVE  OnOneHolder(Flattened(dist), PrimaryPart, file, i)
<1>1. dist \in [Node -> Seq(LBlock)]
      /\ \A m \in Node : \A r \in 1 .. Len(dist[m]) :
             dist[m][r].host = m /\ dist[m][r].primary_chunk_num <= Size(dist, m, r)
  BY DEF Holds
<1>2. PICK s \in 1 .. Len(dist[n]) : \E p \in 1 .. Size(dist, n, s) :
               /\ Chunk(dist, n, s, p) = i
               /\ \A r \in 1 .. Len(dist[n]) : \A q \in 1 .. Size(dist, n, r) :
                      Chunk(dist, n, r, q) = i => r = s /\ q = p
  BY OneHome
<1>3. PICK p \in 1 .. Size(dist, n, s) :
               /\ Chunk(dist, n, s, p) = i
               /\ \A r \in 1 .. Len(dist[n]) : \A q \in 1 .. Size(dist, n, r) :
                      Chunk(dist, n, r, q) = i => r = s /\ q = p
  BY <1>2
<1>4. p \in 1 .. dist[n][s].primary_chunk_num
  <2>1. p <= dist[n][s].primary_chunk_num
    BY <1>3 DEF Holds
  <2> QED BY <1>1, <2>1, HoldsTypes
<1>5. ASSUME NEW m \in Node, NEW r \in 1 .. Len(dist[m]),
             NEW q \in 1 .. dist[m][r].primary_chunk_num, Chunk(dist, m, r, q) = i
      PROVE  m = n /\ r = s /\ q = p
  <2>1. q \in 1 .. Size(dist, m, r)
    BY <1>1, HoldsTypes
  <2>2. m \in homes[i]
    BY <1>5, <2>1 DEF Holds
  <2> QED BY <1>3, <1>5, <2>1, <2>2
<1>6. Hosted(dist)
  BY <1>1 DEF Hosted
<1>7. SolePrimary(dist, i, n, s, p)
  BY <1>3, <1>4, <1>5 DEF SolePrimary
<1> QED BY <1>6, <1>7, PrimaryCovers, Zenon

WholeLists(blocks) == [k \in DOMAIN blocks |-> Whole(blocks[k])]
HostsAt(blocks, places) == {blocks[at[1]].host : at \in places}

\* One offer on each of the three holders.
LEMMA AllHoldersCover ==
    ASSUME NEW file, NEW dist, NEW homes, NEW cut, Holds(dist, homes, cut), NEW i \in DOMAIN homes,
           NEW t \in Triples, homes[i] = {t[1], t[2], t[3]}, homes[i] = Holders(file[i]),
           NEW lists, lists = WholeLists(Flattened(dist))
    PROVE  /\ HostsAt(Flattened(dist), Places(lists, i)) = Holders(file[i])
           /\ Cardinality(Places(lists, i)) = 3
<1> USE DEF HostsAt, WholeLists
<1> DEFINE w == Flattened(dist)
           all == UNION {{k} \X DOMAIN lists[k] : k \in DOMAIN lists}
<1>1. dist \in [Node -> Seq(LBlock)]
  BY DEF Holds
<1>2. PICK at : Mapped(w, at, dist, N)
  BY <1>1, FlattenedFacts
<1>3. Node = 0 .. N - 1
  BY DEF Node
<1>4. w \in Seq(LBlock)
  BY <1>2 DEF Mapped
<1> HIDE DEF w
<1>5. DOMAIN lists = 1 .. Len(w) /\ \A x \in 1 .. Len(w) : lists[x] = w[x].physical_blocks
  BY <1>4 DEF w, Whole
<1>6. ASSUME NEW x \in 1 .. Len(w)
      PROVE  /\ at[x][1] \in Node /\ at[x][2] \in 1 .. Len(dist[at[x][1]]) /\ w[x].host = at[x][1]
             /\ DOMAIN lists[x] = 1 .. Size(dist, at[x][1], at[x][2])
             /\ \A p : lists[x][p].chunk = Chunk(dist, at[x][1], at[x][2], p)
  <2> DEFINE m == at[x][1]
             r == at[x][2]
  <2>1. m \in Node /\ r \in 1 .. Len(dist[m]) /\ w[x] = dist[m][r]
    BY <1>2, <1>3 DEF Mapped
  <2> HIDE DEF m, r
  <2>2. dist[m][r].physical_blocks \in Seq(Item) /\ dist[m][r].host = m
    BY <1>1, <2>1, HoldsTypes DEF Holds
  <2>3. DOMAIN lists[x] = 1 .. Size(dist, m, r) /\ \A p : lists[x][p].chunk = Chunk(dist, m, r, p)
    BY <1>5, <2>1, <2>2 DEF Size, Chunk
  <2> QED BY <2>1, <2>2, <2>3 DEF m, r
<1>7. ASSUME NEW n \in Holders(file[i])
      PROVE  \E x \in 1 .. Len(w) : \E p \in DOMAIN lists[x] :
                /\ at[x][1] = n /\ lists[x][p].chunk = i
                /\ \A y \in 1 .. Len(w) : \A q \in DOMAIN lists[y] :
                      at[y][1] = n /\ lists[y][q].chunk = i => y = x /\ q = p
  <2>1. n \in Node
    BY DEF Triples
  <2>2. PICK s \in 1 .. Len(dist[n]) : \E p \in 1 .. Size(dist, n, s) :
               /\ Chunk(dist, n, s, p) = i
               /\ \A r \in 1 .. Len(dist[n]) : \A q \in 1 .. Size(dist, n, r) :
                      Chunk(dist, n, r, q) = i => r = s /\ q = p
    BY <2>1, OneHome
  <2>3. PICK p \in 1 .. Size(dist, n, s) :
               /\ Chunk(dist, n, s, p) = i
               /\ \A r \in 1 .. Len(dist[n]) : \A q \in 1 .. Size(dist, n, r) :
                      Chunk(dist, n, r, q) = i => r = s /\ q = p
    BY <2>2
  <2>4. PICK x \in 1 .. Len(w) : at[x][1] = n /\ at[x][2] = s
    BY <1>2, <1>3, <2>1 DEF Mapped
  <2>5. p \in DOMAIN lists[x] /\ lists[x][p].chunk = i
    BY <1>6, <2>3, <2>4
  <2>6. ASSUME NEW y \in 1 .. Len(w), NEW q \in DOMAIN lists[y], at[y][1] = n, lists[y][q].chunk = i
        PROVE  y = x /\ q = p
    <3>1. at[y][2] \in 1 .. Len(dist[n]) /\ q \in 1 .. Size(dist, n, at[y][2])
          /\ Chunk(dist, n, at[y][2], q) = i
      BY <1>6, <2>6
    <3>2. at[y][2] = s /\ q = p
      BY <2>3, <3>1
    <3> QED BY <1>2, <2>4, <2>6, <3>2 DEF Mapped
  <2>7. \A y \in 1 .. Len(w) : \A q \in DOMAIN lists[y] :
           at[y][1] = n /\ lists[y][q].chunk = i => y = x /\ q = p
    BY <2>6
  <2>8. at[x][1] = n
    BY <2>4
  <2> HIDE DEF w
  <2> QED BY ONLY x \in 1 .. Len(w), <2>5, <2>7, <2>8, Zenon
<1>8. ASSUME NEW x \in 1 .. Len(w), NEW p \in DOMAIN lists[x], lists[x][p].chunk = i
      PROVE  at[x][1] \in Holders(file[i])
  <2>1. at[x][1] \in homes[i]
    <3> DEFINE m == at[x][1]
               r == at[x][2]
    <3>1. m \in Node /\ r \in 1 .. Len(dist[m]) /\ p \in 1 .. Size(dist, m, r)
          /\ Chunk(dist, m, r, p) = i
      BY <1>6, <1>8
    <3> HIDE DEF m, r
    <3>2. m \in homes[i]
      BY <3>1 DEF Holds
    <3> QED BY <3>2 DEF m
  <2> QED BY <2>1
<1>9. /\ \A z \in all : z[1] \in 1 .. Len(w) /\ z[2] \in DOMAIN lists[z[1]] /\ z = <<z[1], z[2]>>
      /\ \A x \in 1 .. Len(w) : \A p \in DOMAIN lists[x] : <<x, p>> \in all
  <2>1. ASSUME NEW z \in all
        PROVE  z[1] \in 1 .. Len(w) /\ z[2] \in DOMAIN lists[z[1]] /\ z = <<z[1], z[2]>>
    <3>1. PICK k \in DOMAIN lists : z \in {k} \X DOMAIN lists[k]
      BY <2>1
    <3> QED BY <1>5, <3>1
  <2>2. ASSUME NEW x \in 1 .. Len(w), NEW p \in DOMAIN lists[x] PROVE <<x, p>> \in all
    BY <1>5
  <2> HIDE DEF all
  <2> QED BY <2>1, <2>2
<1>10. Places(lists, i) = {z \in all : lists[z[1]][z[2]].chunk = i}
  BY DEF Places
<1> HIDE DEF all
<1> DEFINE Spot(n, z) == z \in Places(lists, i) /\ at[z[1]][1] = n
<1>11. ASSUME NEW n \in Holders(file[i])
       PROVE  \E z : Spot(n, z) /\ \A y : Spot(n, y) => y = z
  <2>1. PICK x \in 1 .. Len(w) : \E p \in DOMAIN lists[x] :
                /\ at[x][1] = n /\ lists[x][p].chunk = i
                /\ \A y \in 1 .. Len(w) : \A q \in DOMAIN lists[y] :
                      at[y][1] = n /\ lists[y][q].chunk = i => y = x /\ q = p
    BY <1>7
  <2>2. PICK p \in DOMAIN lists[x] :
                /\ at[x][1] = n /\ lists[x][p].chunk = i
                /\ \A y \in 1 .. Len(w) : \A q \in DOMAIN lists[y] :
                      at[y][1] = n /\ lists[y][q].chunk = i => y = x /\ q = p
    BY <2>1
  <2>3. Spot(n, <<x, p>>)
    BY <1>9, <1>10, <2>2
  <2>4. ASSUME NEW y, Spot(n, y) PROVE y = <<x, p>>
    <3>1. y \in all /\ lists[y[1]][y[2]].chunk = i /\ at[y[1]][1] = n
      BY <1>10, <2>4
    <3>2. y[1] \in 1 .. Len(w) /\ y[2] \in DOMAIN lists[y[1]] /\ y = <<y[1], y[2]>>
      BY <1>9, <3>1
    <3>3. y[1] = x /\ y[2] = p
      BY <2>2, <3>1, <3>2
    <3> QED BY <3>2, <3>3
  <2> QED BY <2>3, <2>4
<1>12. \A z \in Places(lists, i) : z[1] \in 1 .. Len(w) /\ w[z[1]].host = at[z[1]][1]
                                   /\ at[z[1]][1] \in Holders(file[i])
  BY <1>6, <1>8, <1>9, <1>10
<1>13. {w[z[1]].host : z \in Places(lists, i)} = Holders(file[i])
  BY <1>11, <1>12
<1>14. Cardinality(Places(lists, i)) = 3
  <2>1. t[1] \in Holders(file[i]) /\ t[2] \in Holders(file[i]) /\ t[3] \in Holders(file[i])
        /\ t[1] # t[2] /\ t[1] # t[3] /\ t[2] # t[3]
    BY DEF Triples
  <2>2. PICK a : Spot(t[1], a) /\ \A y : Spot(t[1], y) => y = a
    BY <1>11, <2>1
  <2>3. PICK b : Spot(t[2], b) /\ \A y : Spot(t[2], y) => y = b
    BY <1>11, <2>1
  <2>4. PICK c : Spot(t[3], c) /\ \A y : Spot(t[3], y) => y = c
    BY <1>11, <2>1
  <2>5. a # b /\ a # c /\ b # c
    BY <2>1, <2>2, <2>3, <2>4
  <2>6. Places(lists, i) = {a, b, c}
    BY <1>12, <2>2, <2>3, <2>4
  <2>7. Cardinality({a, b, c}) = 3
    <3>1. IsFiniteSet({}) /\ Cardinality({}) = 0
      BY FS_EmptySet
    <3>2. IsFiniteSet({a}) /\ Cardinality({a}) = 1
      BY FS_Singleton
    <3>3. IsFiniteSet({a} \cup {b}) /\ Cardinality({a} \cup {b}) = 2
      BY <2>5, <3>2, FS_AddElement
    <3>4. IsFiniteSet(({a} \cup {b}) \cup {c}) /\ Cardinality(({a} \cup {b}) \cup {c}) = 3
      <4> DEFINE S == {a} \cup {b}
      <4>1. c \notin S
        BY <2>5
      <4>2. IsFiniteSet(S) /\ Cardinality(S) = 2
        BY <3>3
      <4> HIDE DEF S
      <4>3. IsFiniteSet(S \cup {c}) /\ Cardinality(S \cup {c}) = 2 + 1
        BY ONLY <4>1, <4>2, FS_AddElement
      <4> QED BY ONLY <4>3 DEF S
    <3>5. ({a} \cup {b}) \cup {c} = {a, b, c}
      OBVIOUS
    <3> QED BY <3>4, <3>5
  <2> QED BY <2>6, <2>7
<1> QED BY <1>13, <1>14 DEF w


\* The holders of each chunk, in the order of scheduler_lean and of scheduler_steal.
LeanIds(file)  == [i \in DOMAIN file |-> <<LeftOf(file[i]), file[i], RightOf(file[i])>>]
StealIds(file) == [i \in DOMAIN file |-> <<file[i], LeftOf(file[i]), RightOf(file[i])>>]
AreHolders(ids, file) ==
    /\ ids \in Seq(Triples) /\ Len(ids) = Len(file)
    /\ \A i \in 1 .. Len(file) : {ids[i][1], ids[i][2], ids[i][3]} = Holders(file[i])

\* The nodes that lean and steal choose from are the holders of the chunk.
LEMMA IdsAreHolders ==
    ASSUME NEW file \in Seq(Node)
    PROVE  AreHolders(LeanIds(file), file) /\ AreHolders(StealIds(file), file)
<1>1. DOMAIN file = 1 .. Len(file) /\ \A i \in DOMAIN file : file[i] \in Node
  OBVIOUS
<1>2. AreHolders(LeanIds(file), file)
  <2> DEFINE ids == LeanIds(file)
  <2>5. ASSUME NEW h \in Node
        PROVE  LET t == <<LeftOf(h), h, RightOf(h)>> IN t \in Triples /\ {t[1], t[2], t[3]} = Holders(h)
    BY Ring DEF Triples, Holders
  <2>1. \A i \in DOMAIN file : ids[i] = <<LeftOf(file[i]), file[i], RightOf(file[i])>>
    BY DEF LeanIds
  <2>2. DOMAIN ids = DOMAIN file /\ ids = [i \in DOMAIN ids |-> ids[i]]
    BY DEF LeanIds
  <2> HIDE DEF ids
  <2>3. ASSUME NEW i \in DOMAIN file
        PROVE  ids[i] \in Triples /\ {ids[i][1], ids[i][2], ids[i][3]} = Holders(file[i])
    BY <1>1, <2>1, <2>5
  <2>4. ids \in Seq(Triples) /\ Len(ids) = Len(file)
    BY <2>2, <2>3, HolderTriples
  <2> QED BY <1>1, <2>3, <2>4 DEF AreHolders, ids
<1>3. AreHolders(StealIds(file), file)
  <2> DEFINE ids == StealIds(file)
  <2>5. ASSUME NEW h \in Node
        PROVE  LET t == <<h, LeftOf(h), RightOf(h)>> IN t \in Triples /\ {t[1], t[2], t[3]} = Holders(h)
    BY Ring DEF Triples, Holders
  <2>1. \A i \in DOMAIN file : ids[i] = <<file[i], LeftOf(file[i]), RightOf(file[i])>>
    BY DEF StealIds
  <2>2. DOMAIN ids = DOMAIN file /\ ids = [i \in DOMAIN ids |-> ids[i]]
    BY DEF StealIds
  <2> HIDE DEF ids
  <2>3. ASSUME NEW i \in DOMAIN file
        PROVE  ids[i] \in Triples /\ {ids[i][1], ids[i][2], ids[i][3]} = Holders(file[i])
    BY <1>1, <2>1, <2>5
  <2>4. ids \in Seq(Triples) /\ Len(ids) = Len(file)
    BY <2>2, <2>3, HolderTriples
  <2> QED BY <1>1, <2>3, <2>4 DEF AreHolders, ids
<1> QED BY <1>2, <1>3

\* What Distributed does for a file.
Spread(dist, homes, ids, home, file, cut) ==
    /\ Holds(dist, homes, cut) /\ DOMAIN homes = 1 .. Len(file)
    /\ \A i \in 1 .. Len(file) :
          /\ ids[i] \in Triples /\ {ids[i][1], ids[i][2], ids[i][3]} = Holders(file[i])
          /\ home[i] \in Node /\ home[i] \in Holders(file[i])
          /\ i <= cut => homes[i] = {home[i]}
          /\ i > cut => homes[i] = {ids[i][1], ids[i][2], ids[i][3]}

\* The same for the holders of the chunks of a file.
LEMMA SpreadFacts ==
    ASSUME NEW file \in Seq(Node), NEW slots \in Nat \ {0}, NEW cut \in Nat,
           NEW ids, AreHolders(ids, file), NEW cnt, NEW home, Loading(cnt, ids, home),
           NEW dist, dist = Distributed(ids, slots, cut)
    PROVE  dist \in [Node -> [1 .. slots -> LBlock]]
           /\ \E homes : Spread(dist, homes, ids, home, file, cut)
<1>1. /\ ids \in Seq(Triples) /\ Len(ids) = Len(file)
      /\ \A i \in 1 .. Len(file) : {ids[i][1], ids[i][2], ids[i][3]} = Holders(file[i])
  BY DEF AreHolders
<1>2. dist \in [Node -> [1 .. slots -> LBlock]]
      /\ \E homes : Homed(homes, ids, home, cut, Len(ids)) /\ Holds(dist, homes, cut)
  BY <1>1, DistributedFacts
<1>3. PICK homes : Homed(homes, ids, home, cut, Len(ids)) /\ Holds(dist, homes, cut)
  BY <1>2
<1>4. DOMAIN homes = 1 .. Len(file)
  BY <1>1, <1>3 DEF Homed
<1>5. ASSUME NEW i \in 1 .. Len(file)
      PROVE  /\ ids[i] \in Triples /\ home[i] \in Node /\ home[i] \in Holders(file[i])
             /\ i <= cut => homes[i] = {home[i]}
             /\ i > cut => homes[i] = {ids[i][1], ids[i][2], ids[i][3]}
  <2>4. {ids[i][1], ids[i][2], ids[i][3]} = Holders(file[i])
    BY <1>1
  <2>5. ids[i] \in Triples
    BY <1>1
  <2>1. ids[i] \in Triples /\ {ids[i][1], ids[i][2], ids[i][3]} = Holders(file[i])
    BY <2>4, <2>5
  <2>2. home[i] \in Node /\ home[i] \in {ids[i][1], ids[i][2], ids[i][3]}
    BY <1>1 DEF Loading
  <2>3. /\ i <= cut => homes[i] = {home[i]}
        /\ i > cut => homes[i] = {ids[i][1], ids[i][2], ids[i][3]}
    BY <1>1, <1>3 DEF Homed
  <2> QED BY <2>1, <2>2, <2>3
<1>6. Spread(dist, homes, ids, home, file, cut)
  BY <1>1, <1>3, <1>4, <1>5 DEF Spread
<1> QED BY <1>2, <1>6

LeanHomes(dist, homes, home, file, slots, cut) ==
    /\ dist \in [Node -> [1 .. slots -> LBlock]]
    /\ SchedulerLean(file, slots, cut) = Flattened(dist)
    /\ Spread(dist, homes, LeanIds(file), home, file, cut)

\* scheduler_lean flattens lists whose homes the counters decided.
LEMMA LeanFacts ==
    ASSUME NEW file \in Seq(Node), NEW slots \in Nat \ {0}, NEW cut \in Nat,
           NEW cnt, NEW home, Loading(cnt, LeanIds(file), home)
    PROVE  \E dist, homes : LeanHomes(dist, homes, home, file, slots, cut)
<1> DEFINE ids == LeanIds(file)
           dist == Distributed(ids, slots, cut)
<1>1. SchedulerLean(file, slots, cut) = Flattened(dist)
  BY DEF SchedulerLean, LeanIds
<1>2. AreHolders(ids, file)
  BY IdsAreHolders
<1>3. dist \in [Node -> [1 .. slots -> LBlock]]
      /\ \E homes : Spread(dist, homes, ids, home, file, cut)
  <2> HIDE DEF dist, ids
  <2>1. dist = Distributed(ids, slots, cut) /\ Loading(cnt, ids, home)
    BY DEF dist, ids
  <2> QED BY <1>2, <2>1, SpreadFacts
<1> HIDE DEF dist
<1>4. PICK homes : Spread(dist, homes, ids, home, file, cut)
  BY <1>3
<1>5. LeanHomes(dist, homes, home, file, slots, cut)
  BY <1>1, <1>3, <1>4 DEF LeanHomes
<1> QED BY <1>5

\* KeptCoversFile for scheduler_lean, before and behind its cut.
LEMMA LeanCovers ==
    ASSUME NEW file \in Seq(Node), NEW slots \in Nat \ {0}, NEW cut \in Nat, NEW i \in 1 .. Len(file),
           NEW blocks, blocks = SchedulerLean(file, slots, cut),
           NEW lists, lists = WholeLists(blocks)
    PROVE  /\ i <= cut => OnOneHolder(blocks, PrimaryPart, file, i)
           /\ i > cut => /\ HostsAt(blocks, Places(lists, i)) = Holders(file[i])
                         /\ Cardinality(Places(lists, i)) = 3
<1>7. AreHolders(LeanIds(file), file)
  BY IdsAreHolders
<1>8. PICK cnt, home : Loading(cnt, LeanIds(file), home)
  BY <1>7, LoadingExists DEF AreHolders
<1>9. PICK dist, homes : LeanHomes(dist, homes, home, file, slots, cut)
  BY <1>8, LeanFacts
<1> DEFINE ids == LeanIds(file)
           t == ids[i]
<1>1. blocks = Flattened(dist) /\ Spread(dist, homes, ids, home, file, cut)
  BY <1>9 DEF LeanHomes
<1> HIDE DEF ids
<1>2. /\ Holds(dist, homes, cut) /\ DOMAIN homes = 1 .. Len(file)
      /\ t \in Triples /\ {t[1], t[2], t[3]} = Holders(file[i])
      /\ home[i] \in Node /\ home[i] \in Holders(file[i])
      /\ i <= cut => homes[i] = {home[i]}
      /\ i > cut => homes[i] = {t[1], t[2], t[3]}
  BY <1>1 DEF Spread
<1> HIDE DEF t
<1>3. ASSUME i <= cut PROVE OnOneHolder(blocks, PrimaryPart, file, i)
  <2>1. homes[i] = {home[i]} /\ i \in DOMAIN homes
    BY <1>2, <1>3
  <2>2. OnOneHolder(Flattened(dist), PrimaryPart, file, i)
    BY <1>2, <1>3, <2>1, HomeCovers
  <2> QED BY <1>1, <2>2
<1>4. ASSUME i > cut
      PROVE  /\ HostsAt(blocks, Places(lists, i)) = Holders(file[i])
             /\ Cardinality(Places(lists, i)) = 3
  <2>1. homes[i] = {t[1], t[2], t[3]} /\ homes[i] = Holders(file[i]) /\ i \in DOMAIN homes
    BY <1>1, <1>2, <1>4
  <2>2. lists = WholeLists(Flattened(dist))
    BY <1>1
  <2>3. /\ HostsAt(Flattened(dist), Places(lists, i)) = Holders(file[i])
        /\ Cardinality(Places(lists, i)) = 3
    BY <1>2, <2>1, <2>2, AllHoldersCover
  <2> QED BY <1>1, <2>3
<1> QED BY <1>3, <1>4

\* What scheduler_steal appends leaves the primary parts alone.
Lengthened(dist, ext) ==
    \A n \in Node : \A s \in 1 .. Len(dist[n]) :
        /\ ext[n][s].host = dist[n][s].host
        /\ ext[n][s].primary_chunk_num = dist[n][s].primary_chunk_num
        /\ Size(dist, n, s) <= Size(ext, n, s)
        /\ \A p \in 1 .. Size(dist, n, s) : Chunk(ext, n, s, p) = Chunk(dist, n, s, p)
        /\ \A p \in 1 .. Size(ext, n, s) :
              \E m \in Node : \E q \in 1 .. Size(dist, m, s) : Chunk(ext, n, s, p) = Chunk(dist, m, s, q)

\* A block with two lists of chunks appended to it keeps its front.
LEMMA LongerBlock ==
    ASSUME NEW b \in LBlock, NEW x \in Seq(Item), NEW y \in Seq(Item)
    PROVE  LET c == [b EXCEPT !.physical_blocks = @ \o x \o y]
               pb == b.physical_blocks
           IN  /\ c \in LBlock /\ c.host = b.host /\ c.primary_chunk_num = b.primary_chunk_num
               /\ Len(c.physical_blocks) = Len(pb) + Len(x) + Len(y)
               /\ \A p \in 1 .. Len(pb) : c.physical_blocks[p] = pb[p]
               /\ \A p \in 1 .. Len(c.physical_blocks) :
                     \/ \E q \in 1 .. Len(pb) : c.physical_blocks[p] = pb[q]
                     \/ \E q \in 1 .. Len(x) : c.physical_blocks[p] = x[q]
                     \/ \E q \in 1 .. Len(y) : c.physical_blocks[p] = y[q]
<1> DEFINE pb == b.physical_blocks
           v == pb \o x
           w == v \o y
           c == [b EXCEPT !.physical_blocks = @ \o x \o y]
<1>1. pb \in Seq(Item)
  BY DEF LBlock
<1>2. c = [b EXCEPT !.physical_blocks = w]
  OBVIOUS
<1> HIDE DEF pb
<1>3. /\ v \in Seq(Item) /\ Len(v) = Len(pb) + Len(x)
      /\ \A p \in 1 .. Len(pb) + Len(x) : v[p] = IF p <= Len(pb) THEN pb[p] ELSE x[p - Len(pb)]
  BY <1>1, ConcatProperties
<1> HIDE DEF v
<1>4. /\ w \in Seq(Item) /\ Len(w) = Len(v) + Len(y)
      /\ \A p \in 1 .. Len(v) + Len(y) : w[p] = IF p <= Len(v) THEN v[p] ELSE y[p - Len(v)]
  <2>1. v \in Seq(Item)
    BY <1>3
  <2> QED BY ONLY <2>1, y \in Seq(Item), ConcatProperties
<1> HIDE DEF w, c
<1>5. c \in LBlock /\ c.host = b.host /\ c.primary_chunk_num = b.primary_chunk_num
      /\ c.physical_blocks = w
  BY <1>2, <1>4 DEF LBlock
<1>6. Len(pb) \in Nat /\ Len(x) \in Nat /\ Len(y) \in Nat
  BY <1>1
<1>7. ASSUME NEW p \in 1 .. Len(pb) PROVE w[p] = pb[p]
  <2>1. p \in 1 .. Len(pb) + Len(x) /\ p <= Len(pb) /\ p \in 1 .. Len(v) + Len(y) /\ p <= Len(v)
    BY <1>3, <1>6
  <2> QED BY <1>3, <1>4, <2>1
<1>8. ASSUME NEW p \in 1 .. Len(w)
      PROVE  \/ \E q \in 1 .. Len(pb) : w[p] = pb[q]
             \/ \E q \in 1 .. Len(x) : w[p] = x[q]
             \/ \E q \in 1 .. Len(y) : w[p] = y[q]
  <2>1. CASE p <= Len(pb)
    BY <1>6, <1>7, <2>1
  <2>2. CASE p > Len(pb) /\ p <= Len(v)
    <3>1. p \in 1 .. Len(pb) + Len(x) /\ p \in 1 .. Len(v) + Len(y) /\ p - Len(pb) \in 1 .. Len(x)
          /\ ~(p <= Len(pb))
      BY <1>3, <1>6, <2>2
    <3>2. w[p] = v[p] /\ v[p] = x[p - Len(pb)]
      BY <1>3, <1>4, <2>2, <3>1
    <3> QED BY <3>1, <3>2
  <2>3. CASE p > Len(v)
    <3>1. p \in 1 .. Len(v) + Len(y) /\ p - Len(v) \in 1 .. Len(y) /\ ~(p <= Len(v))
      BY <1>3, <1>4, <1>6, <2>3
    <3>2. w[p] = y[p - Len(v)]
      BY <1>4, <3>1
    <3> QED BY <3>1, <3>2
  <2> QED BY <1>3, <1>6, <2>1, <2>2, <2>3
<1>9. Len(w) = Len(pb) + Len(x) + Len(y)
  BY <1>3, <1>4
<1> QED BY <1>5, <1>7, <1>8, <1>9 DEF pb, c


Longer(dist, slots) ==
    [n \in Node |-> [s \in 1 .. slots |->
        [dist[n][s] EXCEPT !.physical_blocks =
            @ \o dist[LeftOf(n)][s].physical_blocks \o dist[RightOf(n)][s].physical_blocks]]]

\* scheduler_steal appends the chunks of the neighbours to each block.
LEMMA LongerFacts ==
    ASSUME NEW slots \in Nat, NEW dist \in [Node -> [1 .. slots -> LBlock]]
    PROVE  /\ Longer(dist, slots) \in [Node -> [1 .. slots -> LBlock]]
           /\ Lengthened(dist, Longer(dist, slots))
<1> DEFINE ext == Longer(dist, slots)
           pb(n, s) == dist[n][s].physical_blocks
<1>1. ASSUME NEW n \in Node, NEW s \in 1 .. slots
      PROVE  /\ ext[n][s] \in LBlock /\ ext[n][s].host = dist[n][s].host
             /\ ext[n][s].primary_chunk_num = dist[n][s].primary_chunk_num
             /\ Size(dist, n, s) <= Size(ext, n, s)
             /\ \A p \in 1 .. Size(dist, n, s) : Chunk(ext, n, s, p) = Chunk(dist, n, s, p)
             /\ \A p \in 1 .. Size(ext, n, s) :
                   \E m \in Node : \E q \in 1 .. Size(dist, m, s) :
                       Chunk(ext, n, s, p) = Chunk(dist, m, s, q)
  <2> DEFINE b == dist[n][s]
             x == pb(LeftOf(n), s)
             y == pb(RightOf(n), s)
             c == [b EXCEPT !.physical_blocks = @ \o x \o y]
  <2>1. LeftOf(n) \in Node /\ RightOf(n) \in Node
    BY Ring
  <2>2. b \in LBlock /\ x \in Seq(Item) /\ y \in Seq(Item) /\ b.physical_blocks \in Seq(Item)
    <3>1. \A m \in Node : dist[m] \in [1 .. slots -> LBlock]
      OBVIOUS
    <3>2. \A m \in Node : dist[m][s] \in LBlock
      BY <3>1
    <3> QED BY <2>1, <3>2 DEF LBlock
  <2>3. ext[n][s] = c
    BY DEF Longer
  <2>4. Size(dist, n, s) = Len(b.physical_blocks) /\ Size(dist, LeftOf(n), s) = Len(x)
        /\ Size(dist, RightOf(n), s) = Len(y) /\ Size(ext, n, s) = Len(ext[n][s].physical_blocks)
    BY DEF Size
  <2>5. \A p : /\ Chunk(dist, n, s, p) = b.physical_blocks[p].chunk
               /\ Chunk(dist, LeftOf(n), s, p) = x[p].chunk
               /\ Chunk(dist, RightOf(n), s, p) = y[p].chunk
               /\ Chunk(ext, n, s, p) = ext[n][s].physical_blocks[p].chunk
    BY DEF Chunk
  <2> HIDE DEF b, x, y, ext
  <2>6. /\ c \in LBlock /\ c.host = b.host /\ c.primary_chunk_num = b.primary_chunk_num
        /\ Len(c.physical_blocks) = Len(b.physical_blocks) + Len(x) + Len(y)
        /\ \A p \in 1 .. Len(b.physical_blocks) : c.physical_blocks[p] = b.physical_blocks[p]
        /\ \A p \in 1 .. Len(c.physical_blocks) :
              \/ \E q \in 1 .. Len(b.physical_blocks) : c.physical_blocks[p] = b.physical_blocks[q]
              \/ \E q \in 1 .. Len(x) : c.physical_blocks[p] = x[q]
              \/ \E q \in 1 .. Len(y) : c.physical_blocks[p] = y[q]
    BY <2>2, LongerBlock
  <2> HIDE DEF c
  <2>7. Size(dist, n, s) <= Size(ext, n, s)
    BY <2>2, <2>3, <2>4, <2>6
  <2>8. \A p \in 1 .. Size(dist, n, s) : Chunk(ext, n, s, p) = Chunk(dist, n, s, p)
    BY <2>3, <2>4, <2>5, <2>6
  <2>9. ASSUME NEW p \in 1 .. Size(ext, n, s)
        PROVE  \E m \in Node : \E q \in 1 .. Size(dist, m, s) : Chunk(ext, n, s, p) = Chunk(dist, m, s, q)
    <3>1. p \in 1 .. Len(c.physical_blocks) /\ Chunk(ext, n, s, p) = c.physical_blocks[p].chunk
      BY <2>3, <2>4, <2>5
    <3>2. CASE \E q \in 1 .. Len(b.physical_blocks) : c.physical_blocks[p] = b.physical_blocks[q]
      BY <2>4, <2>5, <3>1, <3>2
    <3>3. CASE \E q \in 1 .. Len(x) : c.physical_blocks[p] = x[q]
      BY <2>1, <2>4, <2>5, <3>1, <3>3
    <3>4. CASE \E q \in 1 .. Len(y) : c.physical_blocks[p] = y[q]
      BY <2>1, <2>4, <2>5, <3>1, <3>4
    <3> QED BY <2>6, <3>1, <3>2, <3>3, <3>4
  <2>10. ext[n][s] \in LBlock /\ ext[n][s].host = dist[n][s].host
         /\ ext[n][s].primary_chunk_num = dist[n][s].primary_chunk_num
    BY <2>3, <2>6 DEF b
  <2> QED BY <2>7, <2>8, <2>9, <2>10
<1>2. ext \in [Node -> [1 .. slots -> LBlock]]
  <2>1. ext = [n \in Node |-> [s \in 1 .. slots |-> ext[n][s]]]
    BY DEF Longer
  <2> HIDE DEF ext
  <2> QED BY <1>1, <2>1
<1>3. \A n \in Node : Len(dist[n]) = slots
  BY SlotsAreLists
<1> HIDE DEF ext
<1>4. Lengthened(dist, ext)
  BY <1>1, <1>3 DEF Lengthened
<1> QED BY <1>2, <1>4 DEF ext

StealHomes(dist, homes, home, slots, file, width) ==
    /\ slots \in Nat \ {0} /\ slots <= width /\ dist \in [Node -> [1 .. slots -> LBlock]]
    /\ SchedulerSteal(file, width) = Flattened(Longer(dist, slots))
    /\ Spread(dist, homes, StealIds(file), home, file, Len(file))

\* scheduler_steal flattens such lists.
LEMMA StealFacts ==
    ASSUME NEW file \in Seq(Node), NEW width \in Nat \ {0}, SchedulerStealDefined(file),
           NEW cnt, NEW home, Loading(cnt, StealIds(file), home)
    PROVE  \E dist, homes, slots : StealHomes(dist, homes, home, slots, file, width)
<1> DEFINE ids == StealIds(file)
           slots == StealSlots(file, width)
           cut == Len(file)
           dist == Distributed(ids, slots, cut)
<1>1. cut \in Nat
  OBVIOUS
<1>2. slots \in Nat \ {0} /\ slots <= width
  <2>1. N \in Nat \ {0} /\ cut >= N
    BY RingAssumption DEF SchedulerStealDefined
  <2>2. cut \div N \in Nat \ {0}
    <3> HIDE DEF cut
    <3> QED BY <1>1, <2>1
  <2> QED BY <2>2 DEF StealSlots
<1>3. SchedulerSteal(file, width) = Flattened(Longer(dist, slots))
  BY DEF SchedulerSteal, Longer, StealIds
<1>4. AreHolders(ids, file)
  BY IdsAreHolders
<1>5. dist \in [Node -> [1 .. slots -> LBlock]]
      /\ \E homes : Spread(dist, homes, ids, home, file, cut)
  <2> HIDE DEF dist, ids, slots, cut
  <2>1. dist = Distributed(ids, slots, cut) /\ Loading(cnt, ids, home)
    BY DEF dist, ids
  <2> QED BY <1>1, <1>2, <1>4, <2>1, SpreadFacts
<1> HIDE DEF dist, slots
<1>6. PICK homes : Spread(dist, homes, ids, home, file, cut)
  BY <1>5
<1>7. StealHomes(dist, homes, home, slots, file, width)
  BY <1>2, <1>3, <1>5, <1>6 DEF StealHomes
<1> QED BY <1>7

\* KeptCoversFile for scheduler_steal.
LEMMA StealCovers ==
    ASSUME NEW file \in Seq(Node), NEW width \in Nat \ {0}, SchedulerStealDefined(file),
           NEW i \in 1 .. Len(file)
    PROVE  OnOneHolder(SchedulerSteal(file, width), PrimaryPart, file, i)
<1>20. AreHolders(StealIds(file), file)
  BY IdsAreHolders
<1>21. PICK cnt, home : Loading(cnt, StealIds(file), home)
  BY <1>20, LoadingExists DEF AreHolders
<1>1. PICK dist, homes, slots : StealHomes(dist, homes, home, slots, file, width)
  BY <1>21, StealFacts
<1> DEFINE ext == Longer(dist, slots)
           cut == Len(file)
<1>22. slots \in Nat \ {0} /\ dist \in [Node -> [1 .. slots -> LBlock]]
      /\ SchedulerSteal(file, width) = Flattened(ext)
      /\ Spread(dist, homes, StealIds(file), home, file, cut)
  BY <1>1 DEF StealHomes
<1> HIDE DEF ext
<1>2. slots \in Nat \ {0} /\ dist \in [Node -> [1 .. slots -> LBlock]]
      /\ SchedulerSteal(file, width) = Flattened(ext)
      /\ Holds(dist, homes, cut) /\ i \in DOMAIN homes
  BY <1>22 DEF Spread
<1>3. PICK n \in Node : homes[i] = {n} /\ n \in Holders(file[i])
  <2>1. home[i] \in Node /\ homes[i] = {home[i]} /\ home[i] \in Holders(file[i])
    BY <1>22 DEF Spread
  <2> QED BY <2>1
<1> USE DEF ext
<1>4. ext \in [Node -> [1 .. slots -> LBlock]] /\ Lengthened(dist, ext)
  BY <1>2, LongerFacts
<1> HIDE DEF ext
<1>5. /\ dist \in [Node -> Seq(LBlock)] /\ ext \in [Node -> Seq(LBlock)]
      /\ \A m \in Node : Len(dist[m]) = slots /\ Len(ext[m]) = slots
  BY <1>2, <1>4, SlotsAreLists
<1>6. ASSUME NEW m \in Node, NEW r \in 1 .. Len(ext[m])
      PROVE  /\ r \in 1 .. Len(dist[m])
             /\ ext[m][r].host = m /\ ext[m][r].primary_chunk_num <= Size(ext, m, r)
             /\ ext[m][r].primary_chunk_num = dist[m][r].primary_chunk_num
             /\ \A q \in 1 .. dist[m][r].primary_chunk_num :
                   q \in 1 .. Size(dist, m, r) /\ Chunk(ext, m, r, q) = Chunk(dist, m, r, q)
  <2>1. r \in 1 .. Len(dist[m])
    BY <1>5
  <2>2. /\ dist[m][r].host = m /\ dist[m][r].primary_chunk_num <= Size(dist, m, r)
        /\ dist[m][r].primary_chunk_num \in Nat /\ Size(dist, m, r) \in Nat
    BY <1>2, <1>5, <2>1, HoldsTypes DEF Holds
  <2>3. Size(ext, m, r) \in Nat
    BY <1>5, HoldsTypes
  <2>4. /\ ext[m][r].host = dist[m][r].host
        /\ ext[m][r].primary_chunk_num = dist[m][r].primary_chunk_num
        /\ Size(dist, m, r) <= Size(ext, m, r)
        /\ \A p \in 1 .. Size(dist, m, r) : Chunk(ext, m, r, p) = Chunk(dist, m, r, p)
    BY <1>4, <2>1 DEF Lengthened
  <2> QED BY <2>1, <2>2, <2>3, <2>4
<1>7. PICK s \in 1 .. Len(dist[n]) : \E p \in 1 .. Size(dist, n, s) :
               /\ Chunk(dist, n, s, p) = i
               /\ \A r \in 1 .. Len(dist[n]) : \A q \in 1 .. Size(dist, n, r) :
                      Chunk(dist, n, r, q) = i => r = s /\ q = p
  <2>1. n \in homes[i] /\ i \in DOMAIN homes
    BY <1>2, <1>3
  <2>2. Holds(dist, homes, cut)
    BY <1>2
  <2> HIDE DEF cut
  <2> QED BY ONLY <2>1, <2>2, n \in Node, OneHome
<1>8. PICK p \in 1 .. Size(dist, n, s) :
               /\ Chunk(dist, n, s, p) = i
               /\ \A r \in 1 .. Len(dist[n]) : \A q \in 1 .. Size(dist, n, r) :
                      Chunk(dist, n, r, q) = i => r = s /\ q = p
  BY <1>7
<1>9. s \in 1 .. Len(ext[n])
  BY <1>5
<1>10. p \in 1 .. ext[n][s].primary_chunk_num
  <2>1. p <= dist[n][s].primary_chunk_num
    BY <1>2, <1>8 DEF Holds
  <2>2. dist[n][s].primary_chunk_num \in Nat
    BY <1>5, HoldsTypes
  <2> QED BY <1>6, <1>9, <2>1, <2>2
<1>11. Chunk(ext, n, s, p) = i
  BY <1>6, <1>8, <1>9, <1>10
<1>12. ASSUME NEW m \in Node, NEW r \in 1 .. Len(ext[m]),
              NEW q \in 1 .. ext[m][r].primary_chunk_num, Chunk(ext, m, r, q) = i
       PROVE  m = n /\ r = s /\ q = p
  <2>1. r \in 1 .. Len(dist[m]) /\ q \in 1 .. Size(dist, m, r) /\ Chunk(dist, m, r, q) = i
    BY <1>6, <1>12
  <2>2. m \in homes[i]
    BY <1>2, <2>1 DEF Holds
  <2> QED BY <1>3, <1>8, <2>1, <2>2
<1>13. OnOneHolder(Flattened(ext), PrimaryPart, file, i)
  <2>1. Hosted(ext)
    BY <1>5, <1>6 DEF Hosted
  <2>2. SolePrimary(ext, i, n, s, p)
    BY <1>9, <1>10, <1>11, <1>12 DEF SolePrimary
  <2> QED BY <1>3, <2>1, <2>2, PrimaryCovers, Zenon
<1> QED BY <1>2, <1>13

-----------------------------------------------------------------------------
(* scheduler_vlmb.                                                         *)
LEMMA SmallestIsOne ==
    ASSUME NEW lblocks \in Seq(LBlock), lblocks # <<>>
    PROVE  Smallest(lblocks) \in DOMAIN lblocks
<1> DEFINE L == Len(lblocks)
           size(k) == Len(lblocks[k].physical_blocks)
           Below(k, j) == size(k) < size(j) \/ (size(k) = size(j) /\ k <= j)
           T == {l \in 0 .. L : l = 0 \/ \E k \in 1 .. l : \A j \in 1 .. l : Below(k, j)}
<1>1. L \in Nat /\ L # 0 /\ DOMAIN lblocks = 1 .. L
  OBVIOUS
<1>2. \A k \in 1 .. L : size(k) \in Nat
  <2>1. \A k \in 1 .. L : lblocks[k] \in LBlock
    OBVIOUS
  <2> QED BY <2>1 DEF LBlock
<1>3. Smallest(lblocks) = CHOOSE k \in DOMAIN lblocks : \A j \in DOMAIN lblocks : Below(k, j)
  BY DEF Smallest
<1> HIDE DEF L, size
<1>4. 0 \in T
  BY <1>1
<1>5. ASSUME NEW l \in 1 .. L, l - 1 \in T PROVE l \in T
  <2>1. CASE l = 1
    BY <1>1, <1>2, <2>1
  <2>2. CASE l # 1
    <3>1. PICK k \in 1 .. l - 1 : \A j \in 1 .. l - 1 : Below(k, j)
      BY <1>5, <2>2
    <3>2. size(k) \in Nat /\ size(l) \in Nat /\ k \in 1 .. l /\ l \in 0 .. L
      BY <1>1, <1>2
    <3>3. \A j \in 1 .. l : j \in 1 .. l - 1 \/ j = l
      BY <1>1
    <3>4. CASE size(k) <= size(l)
      <4>1. Below(k, l)
        BY <3>2, <3>4
      <4> HIDE DEF Below
      <4>2. \A j \in 1 .. l : Below(k, j)
        BY <3>1, <3>3, <4>1
      <4> QED BY <3>2, <4>2
    <3>5. CASE ~(size(k) <= size(l))
      <4>1. \A j \in 1 .. l - 1 : j \in 1 .. L /\ size(j) \in Nat
        BY <1>1, <1>2
      <4>2. ASSUME NEW j \in 1 .. l PROVE Below(l, j)
        <5>1. CASE j = l
          BY <5>1, <3>2
        <5>2. CASE j \in 1 .. l - 1
          BY <3>1, <3>2, <3>5, <4>1, <5>2
        <5> QED BY <3>3, <5>1, <5>2
      <4> HIDE DEF Below
      <4>3. l \in 1 .. l
        BY <1>1
      <4> QED BY <3>2, <4>2, <4>3
    <3> QED BY <3>4, <3>5
  <2> QED BY <2>1, <2>2
<1> HIDE DEF T
<1>6. L \in T
  <2>1. 0 .. L \subseteq T
    BY ONLY <1>1, <1>4, <1>5, UpTo
  <2> QED BY <1>1, <2>1
<1> HIDE DEF Below
<1>7. \E k \in DOMAIN lblocks : \A j \in DOMAIN lblocks : Below(k, j)
  BY <1>1, <1>6 DEF T
<1> QED BY <1>3, <1>7

Replaced(lblocks, s, lblock) == [lblocks EXCEPT ![s] = lblock]

\* A new list for the chunk, or one that is there gets it.
LEMMA GrowFacts ==
    ASSUME NEW lblocks \in Seq(LBlock), NEW n \in Node, NEW i \in Nat,
           NEW most \in Nat \ {0}, NEW full
    PROVE  LET g == Grow(lblocks, n, i, most, full)
           IN  \/ g = Append(lblocks, Add(LogicalBlock(n), i, 0))
               \/ \E s \in 1 .. Len(lblocks) : g = Replaced(lblocks, s, Add(lblocks[s], i, 0))
<1> USE DEF Replaced
<1> DEFINE g == Grow(lblocks, n, i, most, full)
<1>1. Len(lblocks) \in Nat /\ DOMAIN lblocks = 1 .. Len(lblocks)
      /\ (lblocks = <<>> <=> Len(lblocks) = 0)
  OBVIOUS
<1>2. CASE Len(lblocks) < most /\ (lblocks = <<>> \/ Len(Last(lblocks).physical_blocks) >= full)
  BY <1>2 DEF Grow
<1>3. CASE Len(lblocks) < most /\ ~(lblocks = <<>> \/ Len(Last(lblocks).physical_blocks) >= full)
  <2>1. g = [lblocks EXCEPT ![Len(lblocks)] = Add(lblocks[Len(lblocks)], i, 0)]
    BY <1>3 DEF Grow
  <2>2. Len(lblocks) \in 1 .. Len(lblocks)
    BY <1>1, <1>3
  <2> QED BY <2>1, <2>2
<1>4. CASE ~(Len(lblocks) < most)
  <2>1. Smallest(lblocks) \in 1 .. Len(lblocks)
    <3>1. lblocks # <<>>
      BY <1>1, <1>4
    <3> QED BY <1>1, <3>1, SmallestIsOne
  <2>2. g = [lblocks EXCEPT ![Smallest(lblocks)] = Add(lblocks[Smallest(lblocks)], i, 0)]
    BY <1>4 DEF Grow
  <2> QED BY <2>1, <2>2
<1> QED BY <1>2, <1>3, <1>4

\* Grow makes a list of blocks from one.
LEMMA GrowType ==
    ASSUME NEW lblocks \in Seq(LBlock), NEW n \in Node, NEW i \in Nat,
           NEW most \in Nat \ {0}, NEW full
    PROVE  Grow(lblocks, n, i, most, full) \in Seq(LBlock)
<1> DEFINE g == Grow(lblocks, n, i, most, full)
<1> HIDE DEF g
<1>1. CASE g = Append(lblocks, Add(LogicalBlock(n), i, 0))
  <2>1. Add(LogicalBlock(n), i, 0) \in LBlock
    BY Empty, Added
  <2> QED BY <1>1, <2>1 DEF g
<1>2. ASSUME NEW s \in 1 .. Len(lblocks), g = Replaced(lblocks, s, Add(lblocks[s], i, 0))
      PROVE  g \in Seq(LBlock)
  <2>1. lblocks[s] \in LBlock
    OBVIOUS
  <2> DEFINE x == Add(lblocks[s], i, 0)
  <2>2. x \in LBlock
    BY <2>1, Added
  <2> HIDE DEF x
  <2>3. g = [lblocks EXCEPT ![s] = x]
    BY <1>2 DEF x, Replaced
  <2> QED BY <2>2, <2>3
<1> QED BY <1>1, <1>2, GrowFacts DEF g

Growing(g, choice, cpus, full) ==
    /\ g \in [0 .. Len(choice) -> [Node -> Seq(LBlock)]]
    /\ g[0] = [n \in Node |-> <<>>]
    /\ \A i \in 1 .. Len(choice) :
          g[i] = [g[i - 1] EXCEPT ![choice[i]] = Grow(@, choice[i], i, cpus[choice[i]], full)]
    /\ SchedulerVlmb(choice, cpus, full) = Flattened(g[Len(choice)])

\* SchedulerVlmb is the last round of a loop over the chunks of the file.
LEMMA VlmbLoop ==
    ASSUME NEW choice \in Seq(Node), NEW cpus \in [Node -> Nat],
           SchedulerVlmbDefined(choice, cpus), NEW full
    PROVE  \E g : Growing(g, choice, cpus, full)
<1> DEFINE len == Len(choice)
           Next1(b, i) == [b EXCEPT ![choice[i]] = Grow(@, choice[i], i, cpus[choice[i]], full)]
           step == [z \in [Node -> Seq(LBlock)] \X (1 .. len) |-> Next1(z[1], z[2])]
<1>1. len \in Nat
  OBVIOUS
<1> HIDE DEF len
<1>2. ASSUME NEW b \in [Node -> Seq(LBlock)], NEW i \in 1 .. len PROVE Next1(b, i) \in [Node -> Seq(LBlock)]
  <2>1. choice[i] \in Node /\ i \in Nat
    BY <1>1 DEF len
  <2>2. cpus[choice[i]] \in Nat \ {0} /\ b[choice[i]] \in Seq(LBlock)
    BY <1>1, <2>1 DEF SchedulerVlmbDefined, len
  <2>3. Grow(b[choice[i]], choice[i], i, cpus[choice[i]], full) \in Seq(LBlock)
    BY <2>1, <2>2, GrowType
  <2> QED BY <2>1, <2>3
<1> HIDE DEF Next1
<1>3. step \in [[Node -> Seq(LBlock)] \X (1 .. len) -> [Node -> Seq(LBlock)]]
      /\ \A b \in [Node -> Seq(LBlock)] : \A i \in 1 .. len : step[<<b, i>>] = Next1(b, i)
  BY <1>2
<1> HIDE DEF step
<1>4. [n \in Node |-> <<>>] \in [Node -> Seq(LBlock)]
  OBVIOUS
<1>5. PICK g \in [0 .. len -> [Node -> Seq(LBlock)]] :
          g[0] = [n \in Node |-> <<>>] /\ \A i \in 1 .. len : g[i] = step[<<g[i - 1], i>>]
  <2>1. Steps(step, [Node -> Seq(LBlock)], len)
    BY <1>3 DEF Steps
  <2>2. \E g : Run(g, [n \in Node |-> <<>>], step, [Node -> Seq(LBlock)], len)
    BY ONLY <1>1, <1>4, <2>1, Loop, Zenon
  <2> QED BY <2>2 DEF Run
<1> DEFINE Round(r) == [i \in 0 .. len |-> IF i = 0 THEN [n \in Node |-> <<>>] ELSE Next1(r[i - 1], i)]
           f == CHOOSE f : f = Round(f)
<1>6. g = Round(g)
  <2>1. ASSUME NEW i \in 0 .. len
        PROVE  g[i] = IF i = 0 THEN [n \in Node |-> <<>>] ELSE Next1(g[i - 1], i)
    <3>1. CASE i # 0
      <4>1. i \in 1 .. len /\ i - 1 \in 0 .. len
        BY <1>1, <3>1
      <4> QED BY <1>3, <1>5, <3>1, <4>1
    <3> QED BY <1>5, <3>1
  <2>2. g = [i \in 0 .. len |-> g[i]]
    OBVIOUS
  <2> QED BY <2>1, <2>2
<1>7. f = Round(f)
  <2> HIDE DEF Round
  <2> QED BY <1>6, Zenon
<1>8. SchedulerVlmb(choice, cpus, full) = Flattened(f[len])
  BY DEF SchedulerVlmb, Next1, len
<1> HIDE DEF f
<1>9. f[0] = [n \in Node |-> <<>>] /\ \A i \in 1 .. len : f[i] = Next1(f[i - 1], i)
  <2> DEFINE base == [n \in Node |-> <<>>]
  <2> HIDE DEF base
  <2>1. f = [i \in 0 .. len |-> IF i = 0 THEN base ELSE Next1(f[i - 1], i)]
    BY <1>7 DEF base
  <2>2. f[0] = base
    BY <1>1, <2>1
  <2>3. ASSUME NEW i \in 1 .. len PROVE f[i] = Next1(f[i - 1], i)
    BY <1>1, <2>1
  <2> QED BY <2>2, <2>3 DEF base
<1>10. f = [i \in 0 .. len |-> f[i]]
  BY <1>7
<1> HIDE DEF Round
<1> DEFINE T == {i \in 0 .. len : f[i] \in [Node -> Seq(LBlock)]}
<1>11. 0 .. len \subseteq T
  <2>1. 0 \in T
    <3>1. f[0] \in [Node -> Seq(LBlock)]
      BY <1>4, <1>9
    <3> QED BY <1>1, <3>1
  <2>2. ASSUME NEW i \in 1 .. len, i - 1 \in T PROVE i \in T
    <3>1. f[i - 1] \in [Node -> Seq(LBlock)] /\ i \in 0 .. len
      BY <1>1, <2>2
    <3>2. Next1(f[i - 1], i) \in [Node -> Seq(LBlock)]
      BY <1>2, <3>1
    <3> QED BY <1>9, <3>1, <3>2
  <2> HIDE DEF T
  <2> QED BY <1>1, <2>1, <2>2, UpTo
<1>12. f \in [0 .. len -> [Node -> Seq(LBlock)]]
  BY <1>10, <1>11
<1>13. Growing(f, choice, cpus, full)
  BY <1>8, <1>9, <1>12 DEF Next1, len, Growing
<1> QED BY <1>13

\* A list that has no chunks yet.
NewList(dist, d2, n) ==
    /\ d2 \in [Node -> Seq(LBlock)]
    /\ \A m \in Node : m # n => d2[m] = dist[m]
    /\ Len(d2[n]) = Len(dist[n]) + 1
    /\ \A r \in 1 .. Len(dist[n]) : d2[n][r] = dist[n][r]
    /\ d2[n][Len(dist[n]) + 1] = LogicalBlock(n)

\* A new list without chunks is no home of any.
LEMMA AddList ==
    ASSUME NEW dist, NEW homes, NEW cut, Holds(dist, homes, cut),
           \A j \in DOMAIN homes : homes[j] \subseteq Node,
           NEW n \in Node, NEW d2, NewList(dist, d2, n)
    PROVE  Holds(d2, homes, cut)
<1> USE DEF NewList
<1> DEFINE last == Len(dist[n]) + 1
<1>1. dist \in [Node -> Seq(LBlock)] /\ Len(dist[n]) \in Nat
  BY DEF Holds
<1>2. /\ d2[n][last].host = n /\ d2[n][last].primary_chunk_num = 0 /\ Size(d2, n, last) = 0
  BY DEF LogicalBlock, Size
<1>3. ASSUME NEW m \in Node, NEW s \in 1 .. Len(d2[m]), ~(m = n /\ s = last)
      PROVE  /\ s \in 1 .. Len(dist[m]) /\ d2[m][s] = dist[m][s]
             /\ Size(d2, m, s) = Size(dist, m, s)
             /\ \A p : Chunk(d2, m, s, p) = Chunk(dist, m, s, p)
  <2>1. CASE m # n
    BY <2>1 DEF Size, Chunk
  <2>2. CASE m = n
    <3>1. s \in 1 .. Len(dist[n])
      BY <1>1, <1>3, <2>2
    <3> QED BY <2>2, <3>1 DEF Size, Chunk
  <2> QED BY <2>1, <2>2
<1>4. ASSUME NEW m \in Node, NEW s \in 1 .. Len(d2[m]), NEW p \in 1 .. Size(d2, m, s)
      PROVE  /\ s \in 1 .. Len(dist[m]) /\ p \in 1 .. Size(dist, m, s)
             /\ d2[m][s] = dist[m][s] /\ Chunk(d2, m, s, p) = Chunk(dist, m, s, p)
  <2>1. ~(m = n /\ s = last)
    BY <1>2
  <2> QED BY <1>3, <2>1
<1>5. \A m \in Node : \A s \in 1 .. Len(dist[m]) :
          s \in 1 .. Len(d2[m]) /\ Size(d2, m, s) = Size(dist, m, s)
          /\ \A p : Chunk(d2, m, s, p) = Chunk(dist, m, s, p)
  <2> SUFFICES ASSUME NEW m \in Node, NEW s \in 1 .. Len(dist[m])
               PROVE  s \in 1 .. Len(d2[m]) /\ Size(d2, m, s) = Size(dist, m, s)
                      /\ \A p : Chunk(d2, m, s, p) = Chunk(dist, m, s, p)
    OBVIOUS
  <2>1. s \in 1 .. Len(d2[m]) /\ ~(m = n /\ s = last)
    BY <1>1
  <2> QED BY <1>3, <2>1
<1>6. \A m \in Node : \A s \in 1 .. Len(d2[m]) :
          d2[m][s].host = m /\ d2[m][s].primary_chunk_num <= Size(d2, m, s)
  <2> SUFFICES ASSUME NEW m \in Node, NEW s \in 1 .. Len(d2[m])
               PROVE  d2[m][s].host = m /\ d2[m][s].primary_chunk_num <= Size(d2, m, s)
    OBVIOUS
  <2>1. CASE m = n /\ s = last
    BY <1>2, <2>1
  <2>2. CASE ~(m = n /\ s = last)
    BY <1>3, <2>2 DEF Holds
  <2> QED BY <2>1, <2>2
<1>7. \A m \in Node : \A s \in 1 .. Len(d2[m]) : \A p \in 1 .. Size(d2, m, s) :
          /\ Chunk(d2, m, s, p) \in DOMAIN homes
          /\ m \in homes[Chunk(d2, m, s, p)]
          /\ p <= d2[m][s].primary_chunk_num <=> Chunk(d2, m, s, p) <= cut
  BY <1>4 DEF Holds
<1>8. \A m \in Node : \A s, r \in 1 .. Len(d2[m]) :
          \A p \in 1 .. Size(d2, m, s), q \in 1 .. Size(d2, m, r) :
              Chunk(d2, m, s, p) = Chunk(d2, m, r, q) => s = r /\ p = q
  BY <1>4 DEF Holds
<1>9. \A j \in DOMAIN homes : \A m \in homes[j] :
          \E s \in 1 .. Len(d2[m]) : \E p \in 1 .. Size(d2, m, s) : Chunk(d2, m, s, p) = j
  <2> SUFFICES ASSUME NEW j \in DOMAIN homes, NEW m \in homes[j]
               PROVE  \E s \in 1 .. Len(d2[m]) : \E p \in 1 .. Size(d2, m, s) : Chunk(d2, m, s, p) = j
    OBVIOUS
  <2>1. PICK s \in 1 .. Len(dist[m]) : \E p \in 1 .. Size(dist, m, s) : Chunk(dist, m, s, p) = j
    BY DEF Holds
  <2>2. PICK p \in 1 .. Size(dist, m, s) : Chunk(dist, m, s, p) = j
    BY <2>1
  <2> QED BY <1>5, <2>2
<1> QED BY <1>6, <1>7, <1>8, <1>9 DEF Holds

\* Where the chunks up to i have gone.
Chosen(choice, i) == [j \in 1 .. Len(choice) |-> IF j <= i THEN {choice[j]} ELSE {}]

\* A round of scheduler_vlmb gives the chunk its chosen node as home.
LEMMA VlmbStep ==
    ASSUME NEW choice \in Seq(Node), NEW i \in 1 .. Len(choice),
           NEW dist, Holds(dist, Chosen(choice, i - 1), 0),
           NEW most \in Nat \ {0}, NEW full, NEW d2 \in [Node -> Seq(LBlock)],
           d2 = [dist EXCEPT ![choice[i]] = Grow(@, choice[i], i, most, full)]
    PROVE  Holds(d2, Chosen(choice, i), 0)
<1> DEFINE n == choice[i]
           M == Len(choice)
           before == Chosen(choice, i - 1)
           g == Grow(dist[n], n, i, most, full)
<1>1. n \in Node /\ M \in Nat /\ i \in Nat
  OBVIOUS
<1>2. dist \in [Node -> Seq(LBlock)]
  BY DEF Holds
<1>3. dist[n] \in Seq(LBlock) /\ Len(dist[n]) \in Nat
  BY <1>1, <1>2
<1>4. Fits(M, before, 0, i, n)
  <2>1. before \in [1 .. M -> SUBSET Node]
    BY DEF Chosen
  <2>2. n \notin before[i]
    BY DEF Chosen
  <2> QED BY <1>1, <2>1, <2>2 DEF Fits
<1>5. Grown(before, i, n) = Chosen(choice, i)
  <2>1. \A j \in 1 .. M : Grown(before, i, n)[j] = Chosen(choice, i)[j]
    <3> SUFFICES ASSUME NEW j \in 1 .. M PROVE Grown(before, i, n)[j] = Chosen(choice, i)[j]
      OBVIOUS
    <3>1. before = [k \in 1 .. M |-> IF k <= i - 1 THEN {choice[k]} ELSE {}]
          /\ Chosen(choice, i)[j] = IF j <= i THEN {choice[j]} ELSE {}
      BY DEF Chosen
    <3>2. before[j] = IF j <= i - 1 THEN {choice[j]} ELSE {}
      BY <3>1
    <3>3. CASE j = i
      <4>1. Grown(before, i, n)[j] = before[i] \cup {n}
        BY <3>1, <3>3 DEF Grown
      <4> HIDE DEF before
      <4> QED BY <1>1, <3>1, <3>2, <3>3, <4>1
    <3>4. CASE j # i
      <4>1. Grown(before, i, n)[j] = before[j]
        BY <3>1, <3>4 DEF Grown
      <4>2. j <= i - 1 <=> j <= i
        BY <1>1, <3>4
      <4> HIDE DEF before
      <4> QED BY <3>1, <3>2, <4>1, <4>2
    <3> QED BY <3>3, <3>4
  <2>2. DOMAIN Grown(before, i, n) = 1 .. M /\ DOMAIN Chosen(choice, i) = 1 .. M
    BY DEF Chosen, Grown
  <2>3. Grown(before, i, n) = [j \in 1 .. M |-> Grown(before, i, n)[j]]
    BY DEF Chosen, Grown
  <2>4. Chosen(choice, i) = [j \in 1 .. M |-> Chosen(choice, i)[j]]
    BY DEF Chosen
  <2> QED BY <2>1, <2>3, <2>4
<1>6. InPrimary(i, 0) = 0
  BY <1>1 DEF InPrimary
<1>7. d2[n] = g /\ \A m \in Node : m # n => d2[m] = dist[m]
  BY <1>1, <1>2
<1>8. \/ g = Append(dist[n], Add(LogicalBlock(n), i, 0))
      \/ \E s \in 1 .. Len(dist[n]) : g = Replaced(dist[n], s, Add(dist[n][s], i, 0))
  BY <1>1, <1>3, GrowFacts
<1> HIDE DEF g, before, M
<1>9. CASE g = Append(dist[n], Add(LogicalBlock(n), i, 0))
  <2> DEFINE e == [dist EXCEPT ![n] = Append(dist[n], LogicalBlock(n))]
             last == Len(dist[n]) + 1
  <2>1. LogicalBlock(n) \in LBlock
    BY <1>1, Empty
  <2>2. e \in [Node -> Seq(LBlock)]
    BY <1>1, <1>2, <1>3, <2>1
  <2>3. e[n] = Append(dist[n], LogicalBlock(n)) /\ \A m \in Node : m # n => e[m] = dist[m]
    BY <1>1, <1>2
  <2> HIDE DEF e
  <2>4. Len(e[n]) = last /\ e[n][last] = LogicalBlock(n)
        /\ \A r \in 1 .. Len(dist[n]) : e[n][r] = dist[n][r]
    BY <1>3, <2>1, <2>3
  <2>5. NewList(dist, e, n)
    BY <2>2, <2>3, <2>4 DEF NewList
  <2>6. Holds(e, before, 0)
    <3>1. \A j \in DOMAIN before : before[j] \subseteq Node
      BY <1>1 DEF before, Chosen
    <3>2. Holds(dist, before, 0)
      BY DEF before
    <3> QED BY <1>1, <2>5, <3>1, <3>2, AddList
  <2> DEFINE x == Add(LogicalBlock(n), i, 0)
  <2>7. x \in LBlock
    BY <1>1, <2>1, Added
  <2>8. Len(g) = last /\ g[last] = x /\ \A r \in 1 .. Len(dist[n]) : g[r] = dist[n][r]
    <3> HIDE DEF x
    <3> QED BY <1>3, <1>9, <2>7 DEF x
  <2>9. Moved(e, d2, n, last, i, InPrimary(i, 0))
    <3>1. last \in 1 .. Len(e[n])
      BY <1>3, <2>4
    <3>2. \A r \in 1 .. Len(e[n]) : r # last => d2[n][r] = e[n][r]
      BY <1>3, <1>7, <2>4, <2>8
    <3>3. d2[n][last] = Add(e[n][last], i, InPrimary(i, 0))
      BY <1>6, <1>7, <2>4, <2>8
    <3>4. Len(d2[n]) = Len(e[n])
      BY <1>7, <2>4, <2>8
    <3>5. \A m \in Node : m # n => d2[m] = e[m]
      BY <1>7, <2>3
    <3> HIDE DEF last
    <3> QED BY <3>1, <3>2, <3>3, <3>4, <3>5 DEF Moved
  <2>10. Holds(d2, Grown(before, i, n), 0)
    BY ONLY <1>4, <2>6, <2>9, AddTo, Zenon
  <2> QED BY <1>5, <2>10
<1>10. CASE \E s \in 1 .. Len(dist[n]) : g = Replaced(dist[n], s, Add(dist[n][s], i, 0))
  <2>1. PICK s \in 1 .. Len(dist[n]) : g = Replaced(dist[n], s, Add(dist[n][s], i, 0))
    BY <1>10
  <2> DEFINE x == Add(dist[n][s], i, 0)
  <2>2. Len(g) = Len(dist[n]) /\ g[s] = x /\ \A r \in 1 .. Len(dist[n]) : r # s => g[r] = dist[n][r]
    <3>1. g = [dist[n] EXCEPT ![s] = x]
      BY <2>1 DEF Replaced
    <3> HIDE DEF x
    <3> QED BY <1>3, <3>1
  <2>3. Moved(dist, d2, n, s, i, InPrimary(i, 0))
    BY <1>6, <1>7, <2>2 DEF Moved
  <2>4. Holds(dist, before, 0)
    BY DEF before
  <2>5. Holds(d2, Grown(before, i, n), 0)
    BY ONLY <1>4, <2>3, <2>4, AddTo, Zenon
  <2> QED BY <1>5, <2>5
<1> QED BY <1>8, <1>9, <1>10

\* When scheduler_vlmb ends each chunk has its chosen node as its only home.
LEMMA VlmbHolds ==
    ASSUME NEW choice \in Seq(Node), NEW cpus \in [Node -> Nat],
           SchedulerVlmbDefined(choice, cpus), NEW full
    PROVE  \E dist : /\ SchedulerVlmb(choice, cpus, full) = Flattened(dist)
                     /\ Holds(dist, Chosen(choice, Len(choice)), 0)
<1> DEFINE len == Len(choice)
<1>1. len \in Nat
  OBVIOUS
<1>0. PICK g : Growing(g, choice, cpus, full)
  BY VlmbLoop
<1>2. /\ g \in [0 .. len -> [Node -> Seq(LBlock)]]
      /\ g[0] = [n \in Node |-> <<>>]
      /\ \A i \in 1 .. len :
          g[i] = [g[i - 1] EXCEPT ![choice[i]] = Grow(@, choice[i], i, cpus[choice[i]], full)]
      /\ SchedulerVlmb(choice, cpus, full) = Flattened(g[len])
  BY <1>0 DEF Growing
<1> DEFINE T == {i \in 0 .. len : Holds(g[i], Chosen(choice, i), 0)}
<1>3. 0 \in T
  <2>1. g[0] \in [Node -> Seq(LBlock)] /\ \A n \in Node : Len(g[0][n]) = 0
    BY <1>1, <1>2
  <2>2. DOMAIN Chosen(choice, 0) = 1 .. len /\ \A j \in 1 .. len : Chosen(choice, 0)[j] = {}
    BY DEF Chosen
  <2> DEFINE d == g[0]
             homes == Chosen(choice, 0)
  <2>3. \A n \in Node : \A s \in 1 .. Len(d[n]) : FALSE
    BY <2>1
  <2>4. d \in [Node -> Seq(LBlock)] /\ \A j \in DOMAIN homes : homes[j] = {}
    BY <2>1, <2>2
  <2> HIDE DEF d, homes
  <2>5. Holds(d, homes, 0)
    BY <2>3, <2>4 DEF Holds
  <2> QED BY <1>1, <2>5 DEF d, homes
<1>4. ASSUME NEW i \in 1 .. len, i - 1 \in T PROVE i \in T
  <2>1. Holds(g[i - 1], Chosen(choice, i - 1), 0) /\ i \in 0 .. len
    BY <1>1, <1>4
  <2>2. g[i] = [g[i - 1] EXCEPT ![choice[i]] = Grow(@, choice[i], i, cpus[choice[i]], full)]
    BY <1>2
  <2>3. g[i] \in [Node -> Seq(LBlock)] /\ cpus[choice[i]] \in Nat \ {0}
    BY <1>1, <1>2, <2>1 DEF SchedulerVlmbDefined
  <2>4. Holds(g[i], Chosen(choice, i), 0)
    BY <2>1, <2>2, <2>3, VlmbStep
  <2> QED BY <2>1, <2>4
<1> HIDE DEF T
<1>5. len \in T
  <2>1. 0 .. len \subseteq T
    BY ONLY <1>1, <1>3, <1>4, UpTo
  <2> QED BY <1>1, <2>1
<1> QED BY <1>2, <1>5 DEF T

\* KeptCoversFile for scheduler_vlmb.
LEMMA VlmbCovers ==
    ASSUME NEW file \in Seq(Node), NEW choice \in Seq(Node), Len(choice) = Len(file),
           NEW cpus \in [Node -> Nat], SchedulerVlmbDefined(choice, cpus), NEW full,
           NEW i \in 1 .. Len(file), choice[i] \in Holders(file[i])
    PROVE  OnOneHolder(SchedulerVlmb(choice, cpus, full), Whole, file, i)
<1> DEFINE homes == Chosen(choice, Len(choice))
<1>1. PICK dist : /\ SchedulerVlmb(choice, cpus, full) = Flattened(dist)
                  /\ Holds(dist, homes, 0)
  BY VlmbHolds
<1>2. i \in DOMAIN homes /\ homes[i] = {choice[i]} /\ choice[i] \in Node
  BY DEF Chosen
<1> HIDE DEF homes
<1>3. OnOneHolder(Flattened(dist), Whole, file, i)
  BY <1>1, <1>2, WholeCovers
<1> QED BY <1>1, <1>3

-----------------------------------------------------------------------------
(* What is kept was arranged for the file as it is.                        *)
Policies == {"base", "simple", "score", "lean", "steal", "vlmb"}
IInv ==
    /\ policy \in Policies /\ cores \in 1 .. MaxCores
    /\ hosts \in Seq(Node) /\ Len(hosts) \in 1 .. MaxChunks
    /\ kept = NoArrangement \/ kept \in Arrangements

\* Nothing is kept at first.
LEMMA IInvInit == Init => IInv
<1> SUFFICES ASSUME Init PROVE IInv
  OBVIOUS
<1>1. PICK len \in 1 .. MaxChunks : hosts \in [1 .. len -> Node]
  BY LayoutsAssumption DEF Init
<1>2. hosts \in Seq(Node) /\ Len(hosts) = len
  BY <1>1, ChunksAssumption
<1> QED BY <1>2 DEF Init, IInv, Policies

\* Only file_update changes the file, and it drops the arrangement.
LEMMA IInvStep == IInv /\ [Next]_vars => IInv'
<1> SUFFICES ASSUME IInv, [Next]_vars PROVE IInv'
  OBVIOUS
<1>1. ASSUME UNCHANGED <<policy, cores, hosts>>, kept' = kept \/ kept' \in Arrangements
      PROVE  IInv'
  <2>1. Arrangements' = Arrangements
    BY <1>1 DEF Arrangements, Cut, HolderChoices, VlmbInputs, FreeCpus
  <2>2. kept' = NoArrangement \/ kept' \in Arrangements
    BY <1>1 DEF IInv
  <2> QED BY <1>1, <2>1, <2>2 DEF IInv
<1>2. CASE UNCHANGED vars
  BY <1>1, <1>2 DEF vars
<1>3. ASSUME NEW j \in Job, Generate(j) PROVE IInv'
  BY <1>1, <1>3 DEF Generate, Start, Config
<1>4. ASSUME NEW j \in Job, ReadKept(j) PROVE IInv'
  BY <1>1, <1>4 DEF ReadKept, Start, Config
<1>5. ASSUME NEW m \in inits, TaskInit(m) PROVE IInv'
  BY <1>1, <1>5 DEF TaskInit, Config
<1>6. ASSUME NEW h \in Node, FileUpdate(h) PROVE IInv'
  <2>1. hosts' = Append(hosts, h) /\ Len(hosts) < MaxChunks /\ kept' = NoArrangement
        /\ policy' = policy /\ cores' = cores
    BY <1>6 DEF FileUpdate, Config
  <2>2. hosts' \in Seq(Node) /\ Len(hosts') = Len(hosts) + 1
    BY <2>1 DEF IInv
  <2>3. Len(hosts') \in 1 .. MaxChunks
    BY <2>1, <2>2, ChunksAssumption DEF IInv
  <2> QED BY <2>1, <2>2, <2>3 DEF IInv
<1> QED BY <1>2, <1>3, <1>4, <1>5, <1>6 DEF Next

\* What is kept is always an arrangement of the file as it is.
LEMMA IInvAlways == Spec => []IInv
BY IInvInit, IInvStep, PTL DEF Spec

\* StealingWalksLists for every file on every ring: in a block of
\* scheduler_base the counts in replica_chunk_num are the lengths of the
\* neighbours' parts of the list, in the order in which task_worker walks them.
THEOREM StealingWalksListsAlways == Spec => []StealingWalksLists
<1>1. ASSUME IInv PROVE StealingWalksLists
  <2> SUFFICES ASSUME policy = "base", kept # NoArrangement, NEW k \in DOMAIN kept
               PROVE  LET own == kept[k].primary_chunk_num
                          left == kept[k].replica_chunk_num[1]
                          right == kept[k].replica_chunk_num[2]
                      IN  /\ own + left + right = Len(kept[k].physical_blocks)
                          /\ Range(Segment(kept[k], own, left)) \subseteq {LeftOf(kept[k].host)}
                          /\ Range(Segment(kept[k], own + left, right)) \subseteq {RightOf(kept[k].host)}
    BY DEF StealingWalksLists
  <2>1. kept = SchedulerBase(hosts) /\ hosts \in Seq(Node)
    BY <1>1 DEF IInv, Arrangements
  <2>2. k \in 1 .. N
    BY <2>1 DEF SchedulerBase
  <2> DEFINE b == kept[k]
             pb == b.physical_blocks
             own == b.primary_chunk_num
             left == b.replica_chunk_num[1]
             right == b.replica_chunk_num[2]
  <2>3. /\ b.host = k - 1
        /\ own \in Nat /\ left \in Nat /\ right \in Nat /\ Len(pb) = own + left + right
        /\ \A p \in 1 .. left : pb[own + p].node = LeftOf(k - 1)
        /\ \A p \in 1 .. right : pb[own + left + p].node = RightOf(k - 1)
    BY <2>1, <2>2, BaseLists
  <2> HIDE DEF b
  <2>4. Range(Segment(b, own, left)) \subseteq {LeftOf(b.host)}
    BY <2>3 DEF Segment, Range
  <2>5. Range(Segment(b, own + left, right)) \subseteq {RightOf(b.host)}
    BY <2>3 DEF Segment, Range
  <2> QED BY <2>3, <2>4, <2>5 DEF b
<1> QED BY <1>1, IInvAlways, PTL

\* The choice of a node for each chunk is a list as long as the file.
LEMMA ChoiceIsList ==
    ASSUME NEW file \in Seq(Node), NEW c \in [DOMAIN file -> Node]
    PROVE  c \in Seq(Node) /\ Len(c) = Len(file)
<1>1. DOMAIN file = 1 .. Len(file) /\ Len(file) \in Nat
  OBVIOUS
<1> QED BY <1>1

\* What a kept arrangement was made from.
LEMMA Adopted ==
    ASSUME IInv, kept # NoArrangement, NEW i \in DOMAIN hosts
    PROVE  /\ hosts \in Seq(Node) /\ i \in 1 .. Len(hosts) /\ policy \in Policies
           /\ cores \in Nat \ {0} /\ kept \in Arrangements
<1>1. hosts \in Seq(Node) /\ DOMAIN hosts = 1 .. Len(hosts)
  BY DEF IInv
<1>2. cores \in Nat \ {0}
  BY CoresAssumption DEF IInv
<1> QED BY <1>1, <1>2 DEF IInv

\* KeptCoversFile, scheduler by scheduler: simple,
LEMMA SimpleCase ==
    ASSUME IInv, kept # NoArrangement, NEW i \in DOMAIN hosts, policy = "simple"
    PROVE  OnOneHolder(kept, Whole, hosts, i)
<1>1. hosts \in Seq(Node) /\ i \in 1 .. Len(hosts) /\ kept \in Arrangements
  BY Adopted
<1>2. kept = Grouped(InUse(hosts), hosts)
  BY <1>1 DEF Arrangements, SchedulerSimple
<1>3. \A j \in 1 .. Len(hosts) : hosts[j] \in Holders(hosts[j])
  BY DEF Holders
<1>4. Lists(InUse(hosts), UsedNodes(hosts))
  BY <1>1, InUseFacts
<1>5. OnOneHolder(Grouped(InUse(hosts), hosts), Whole, hosts, i)
  BY <1>1, <1>3, <1>4, GroupedCovers
<1> QED BY <1>2, <1>5

\* score,
LEMMA ScoreCase ==
    ASSUME IInv, kept # NoArrangement, NEW i \in DOMAIN hosts, policy = "score"
    PROVE  OnOneHolder(kept, Whole, hosts, i)
<1>1. hosts \in Seq(Node) /\ i \in 1 .. Len(hosts) /\ kept \in Arrangements
      /\ DOMAIN hosts = 1 .. Len(hosts)
  BY Adopted
<1>2. PICK c \in HolderChoices : kept = SchedulerScoreBased(c)
  BY <1>1 DEF Arrangements
<1>3. c \in [DOMAIN hosts -> Node] /\ \A j \in 1 .. Len(hosts) : c[j] \in Holders(hosts[j])
  BY <1>1 DEF HolderChoices
<1>4. c \in Seq(Node) /\ Len(c) = Len(hosts)
  BY <1>1, <1>3, ChoiceIsList
<1>5. Lists(FirstUse(c), UsedNodes(c))
  BY <1>4, FirstUseFacts
<1>6. OnOneHolder(Grouped(FirstUse(c), c), Whole, hosts, i)
  BY <1>1, <1>3, <1>4, <1>5, GroupedCovers
<1> QED BY <1>2, <1>6 DEF SchedulerScoreBased

\* vlmb,
LEMMA VlmbCase ==
    ASSUME IInv, kept # NoArrangement, NEW i \in DOMAIN hosts, policy = "vlmb"
    PROVE  OnOneHolder(kept, Whole, hosts, i)
<1>1. hosts \in Seq(Node) /\ i \in 1 .. Len(hosts) /\ kept \in Arrangements
      /\ DOMAIN hosts = 1 .. Len(hosts) /\ cores \in Nat \ {0}
  BY Adopted
<1>2. PICK in \in VlmbInputs : kept = SchedulerVlmb(in[1], in[2], Full)
  BY <1>1 DEF Arrangements
<1> DEFINE c == in[1]
           cpus == in[2]
<1>3. cpus \in [Node -> Nat] /\ SchedulerVlmbDefined(c, cpus)
  BY CoresAssumption DEF VlmbInputs, FreeCpus
<1>4. c \in HolderChoices /\ kept = SchedulerVlmb(c, cpus, Full)
  BY <1>2 DEF VlmbInputs
<1> HIDE DEF c, cpus
<1>5. c \in [DOMAIN hosts -> Node] /\ c[i] \in Holders(hosts[i])
  BY <1>1, <1>4 DEF HolderChoices
<1>6. c \in Seq(Node) /\ Len(c) = Len(hosts)
  BY <1>1, <1>5, ChoiceIsList
<1>7. OnOneHolder(SchedulerVlmb(c, cpus, Full), Whole, hosts, i)
  BY <1>1, <1>3, <1>5, <1>6, VlmbCovers
<1> QED BY <1>4, <1>7

\* base,
LEMMA BaseCase ==
    ASSUME IInv, kept # NoArrangement, NEW i \in DOMAIN hosts, policy = "base"
    PROVE  OnOneHolder(kept, PrimaryPart, hosts, i)
<1>1. hosts \in Seq(Node) /\ i \in 1 .. Len(hosts) /\ kept \in Arrangements
  BY Adopted
<1>2. kept = SchedulerBase(hosts)
  BY <1>1 DEF Arrangements
<1>3. OnOneHolder(SchedulerBase(hosts), PrimaryPart, hosts, i)
  BY <1>1, BaseCovers
<1> QED BY <1>2, <1>3

\* steal,
LEMMA StealCase ==
    ASSUME IInv, kept # NoArrangement, NEW i \in DOMAIN hosts, policy = "steal"
    PROVE  OnOneHolder(kept, PrimaryPart, hosts, i)
<1>1. hosts \in Seq(Node) /\ i \in 1 .. Len(hosts) /\ kept \in Arrangements /\ cores \in Nat \ {0}
  BY Adopted
<1>2. SchedulerStealDefined(hosts) /\ kept = SchedulerSteal(hosts, cores)
  BY <1>1 DEF Arrangements
<1>3. OnOneHolder(SchedulerSteal(hosts, cores), PrimaryPart, hosts, i)
  BY <1>1, <1>2, StealCovers
<1> QED BY <1>2, <1>3

\* lean.
LEMMA LeanCase ==
    ASSUME IInv, kept # NoArrangement, NEW i \in DOMAIN hosts, policy = "lean"
    PROVE  /\ i <= Cut => OnOneHolder(kept, PrimaryPart, hosts, i)
           /\ i > Cut => OnAllHolders(kept, i)
<1>1. hosts \in Seq(Node) /\ i \in 1 .. Len(hosts) /\ kept \in Arrangements /\ cores \in Nat \ {0}
  BY Adopted
<1>2. kept = SchedulerLean(hosts, cores, Cut)
  BY <1>1 DEF Arrangements
<1>3. Cut \in Nat
  BY <1>1 DEF Cut
<1> DEFINE lists == WholeLists(kept)
<1>4. /\ i <= Cut => OnOneHolder(kept, PrimaryPart, hosts, i)
      /\ i > Cut => /\ HostsAt(kept, Places(lists, i)) = Holders(hosts[i])
                    /\ Cardinality(Places(lists, i)) = 3
  <2> HIDE DEF lists
  <2>1. lists = WholeLists(kept)
    BY DEF lists
  <2> QED BY <1>1, <1>2, <1>3, <2>1, LeanCovers
<1>5. ASSUME i > Cut PROVE OnAllHolders(kept, i)
  <2>1. /\ HostsAt(kept, Places(lists, i)) = Holders(hosts[i])
        /\ Cardinality(Places(lists, i)) = 3
    BY <1>4, <1>5
  <2> QED BY <2>1 DEF OnAllHolders, HostsAt, WholeLists
<1> QED BY <1>4, <1>5

\* KeptCoversFile for every number of chunks and each of the six schedulers: the
\* arrangement that the leader hands out is one of the file as it is, and
\* assigns each of its chunks once to a node that holds a copy of it (the lean
\* scheduler those behind its cut to all three).
THEOREM KeptCoversFileAlways == Spec => []KeptCoversFile
<1>1. ASSUME IInv PROVE KeptCoversFile
  <2> SUFFICES ASSUME kept # NoArrangement, NEW i \in DOMAIN hosts
               PROVE  CASE policy \in {"base", "steal"}           -> OnOneHolder(kept, PrimaryPart, hosts, i)
                        [] policy \in {"simple", "score", "vlmb"} -> OnOneHolder(kept, Whole, hosts, i)
                        [] policy = "lean" -> IF i <= Cut THEN OnOneHolder(kept, PrimaryPart, hosts, i)
                                              ELSE OnAllHolders(kept, i)
    BY DEF KeptCoversFile
  <2>1. CASE policy \in {"base", "steal"}
    <3>1. OnOneHolder(kept, PrimaryPart, hosts, i)
      BY <1>1, <2>1, BaseCase, StealCase
    <3> QED BY <2>1, <3>1
  <2>2. CASE policy \in {"simple", "score", "vlmb"}
    <3>1. OnOneHolder(kept, Whole, hosts, i)
      BY <1>1, <2>2, SimpleCase, ScoreCase, VlmbCase
    <3> QED BY <2>2, <3>1
  <2>3. CASE policy = "lean"
    <3>1. Cut \in Nat /\ i \in Nat
      BY <1>1, Adopted DEF Cut
    <3>2. IF i <= Cut THEN OnOneHolder(kept, PrimaryPart, hosts, i) ELSE OnAllHolders(kept, i)
      BY <1>1, <2>3, <3>1, LeanCase
    <3> QED BY <2>3, <3>2
  <2> QED BY <1>1, <2>1, <2>2, <2>3 DEF IInv, Policies
<1> QED BY <1>1, IInvAlways, PTL
-----------------------------------------------------------------------------
(* The blocks that the task managers get are about chunks of the file.     *)
Sound(b, file) ==
    /\ b.host \in Node /\ b.physical_blocks \in Seq(Item)
    /\ b.primary_chunk_num \in 0 .. Len(b.physical_blocks)
    /\ \A p \in 1 .. Len(b.physical_blocks) : b.physical_blocks[p].chunk \in 1 .. Len(file)

\* Blocks of scheduler_base are sound.
LEMMA BaseSound ==
    ASSUME NEW file \in Seq(Node), NEW k \in DOMAIN SchedulerBase(file)
    PROVE  k \in Nat \ {0} /\ Sound(SchedulerBase(file)[k], file)
<1> DEFINE b == SchedulerBase(file)[k]
           pb == b.physical_blocks
           own == b.primary_chunk_num
           left == b.replica_chunk_num[1]
           right == b.replica_chunk_num[2]
           x == Own(file, k - 1).physical_blocks
<1>1. k \in 1 .. N
  BY DEF SchedulerBase
<1>2. /\ b.host = k - 1 /\ k - 1 \in Node /\ pb \in Seq(Item)
      /\ own \in Nat /\ left \in Nat /\ right \in Nat /\ Len(pb) = own + left + right
      /\ \A p \in 1 .. own : pb[p] = x[p]
      /\ \A p \in 1 .. left : pb[own + p].chunk \in 1 .. Len(file)
      /\ \A p \in 1 .. right : pb[own + left + p].chunk \in 1 .. Len(file)
  BY <1>1, BaseLists
<1>3. own = Len(x) /\ \A p \in 1 .. Len(x) : x[p].chunk \in 1 .. Len(file)
  <2>1. own = Own(file, k - 1).primary_chunk_num
    BY <1>1, BaseBlock
  <2> QED BY <1>2, <2>1, OwnFacts DEF Collects
<1> HIDE DEF b, x
<1>4. ASSUME NEW p \in 1 .. Len(pb) PROVE pb[p].chunk \in 1 .. Len(file)
  <2>1. CASE p <= own
    BY <1>2, <1>3, <2>1
  <2>2. CASE p > own /\ p <= own + left
    <3>1. p - own \in 1 .. left /\ own + (p - own) = p
      BY <1>2, <2>2
    <3> QED BY <1>2, <3>1
  <2>3. CASE p > own + left
    <3>1. p - (own + left) \in 1 .. right /\ own + left + (p - (own + left)) = p
      BY <1>2, <2>3
    <3> QED BY <1>2, <3>1
  <2> QED BY <1>2, <2>1, <2>2, <2>3
<1> QED BY <1>1, <1>2, <1>4 DEF Sound, b

\* Flattening the lists keeps the blocks as they are.
LEMMA FlatSound ==
    ASSUME NEW file, NEW dist \in [Node -> Seq(LBlock)],
           \A n \in Node : \A s \in 1 .. Len(dist[n]) : Sound(dist[n][s], file),
           NEW k \in DOMAIN Flattened(dist)
    PROVE  k \in Nat \ {0} /\ Sound(Flattened(dist)[k], file)
<1> DEFINE w == Flattened(dist)
<1>1. PICK at : Mapped(w, at, dist, N)
  BY FlattenedFacts
<1>2. /\ w \in Seq(LBlock)
      /\ \A x \in 1 .. Len(w) : /\ at[x][1] \in Node /\ at[x][2] \in 1 .. Len(dist[at[x][1]])
                                /\ w[x] = dist[at[x][1]][at[x][2]]
  BY <1>1 DEF Mapped, Node
<1> HIDE DEF w
<1>3. k \in 1 .. Len(w)
  BY <1>2 DEF w
<1>4. Sound(w[k], file)
  BY <1>2, <1>3
<1> QED BY <1>3, <1>4 DEF w

\* A list of the balancing schedulers is sound.
LEMMA HeldSound ==
    ASSUME NEW file \in Seq(Node), NEW dist, NEW homes, NEW cut, Holds(dist, homes, cut),
           DOMAIN homes = 1 .. Len(file), NEW n \in Node, NEW s \in 1 .. Len(dist[n])
    PROVE  Sound(dist[n][s], file)
<1>1. dist \in [Node -> Seq(LBlock)]
  BY DEF Holds
<1>2. dist[n][s].physical_blocks \in Seq(Item) /\ dist[n][s].primary_chunk_num \in Nat
      /\ Size(dist, n, s) \in Nat
  BY <1>1, HoldsTypes
<1>3. /\ dist[n][s].host = n /\ dist[n][s].primary_chunk_num <= Size(dist, n, s)
      /\ \A p \in 1 .. Size(dist, n, s) : Chunk(dist, n, s, p) \in 1 .. Len(file)
  BY DEF Holds
<1> QED BY <1>2, <1>3 DEF Sound, Size, Chunk

\* So the blocks of scheduler_lean are,
LEMMA LeanSound ==
    ASSUME NEW file \in Seq(Node), NEW slots \in Nat \ {0}, NEW cut \in Nat,
           NEW blocks, blocks = SchedulerLean(file, slots, cut), NEW k \in DOMAIN blocks
    PROVE  k \in Nat \ {0} /\ Sound(blocks[k], file)
<1>0. PICK cnt, home : Loading(cnt, LeanIds(file), home)
  BY IdsAreHolders, LoadingExists DEF AreHolders
<1>1. PICK dist, homes : LeanHomes(dist, homes, home, file, slots, cut)
  BY <1>0, LeanFacts
<1>2. blocks = Flattened(dist) /\ Holds(dist, homes, cut) /\ DOMAIN homes = 1 .. Len(file)
  BY <1>1 DEF LeanHomes, Spread
<1>3. \A n \in Node : \A s \in 1 .. Len(dist[n]) : Sound(dist[n][s], file)
  BY <1>2, HeldSound
<1> QED BY <1>2, <1>3, FlatSound DEF Holds

\* and those of scheduler_steal, though chunks were appended to them.
LEMMA StealSound ==
    ASSUME NEW file \in Seq(Node), NEW width \in Nat \ {0}, SchedulerStealDefined(file),
           NEW blocks, blocks = SchedulerSteal(file, width), NEW k \in DOMAIN blocks
    PROVE  k \in Nat \ {0} /\ Sound(blocks[k], file)
<1>0. PICK cnt, home : Loading(cnt, StealIds(file), home)
  BY IdsAreHolders, LoadingExists DEF AreHolders
<1>1. PICK dist, homes, slots : StealHomes(dist, homes, home, slots, file, width)
  BY <1>0, StealFacts
<1> DEFINE ext == Longer(dist, slots)
           cut == Len(file)
<1>2. slots \in Nat \ {0} /\ dist \in [Node -> [1 .. slots -> LBlock]]
      /\ blocks = Flattened(ext) /\ Holds(dist, homes, cut) /\ DOMAIN homes = 1 .. Len(file)
  BY <1>1 DEF StealHomes, Spread
<1>3. ext \in [Node -> [1 .. slots -> LBlock]] /\ Lengthened(dist, ext)
  BY <1>2, LongerFacts
<1> HIDE DEF ext, cut
<1>4. /\ dist \in [Node -> Seq(LBlock)] /\ ext \in [Node -> Seq(LBlock)]
      /\ \A m \in Node : Len(dist[m]) = slots /\ Len(ext[m]) = slots
  BY <1>2, <1>3, SlotsAreLists
<1>5. ASSUME NEW n \in Node, NEW s \in 1 .. Len(ext[n]) PROVE Sound(ext[n][s], file)
  <2>1. s \in 1 .. Len(dist[n]) /\ \A m \in Node : s \in 1 .. Len(dist[m])
    BY <1>4
  <2>2. \A m \in Node : Sound(dist[m][s], file)
    BY <1>2, <2>1, HeldSound
  <2>3. \A m \in Node : \A q \in 1 .. Size(dist, m, s) : Chunk(dist, m, s, q) \in 1 .. Len(file)
    BY <2>2 DEF Sound, Size, Chunk
  <2>4. /\ ext[n][s].host = dist[n][s].host
        /\ ext[n][s].primary_chunk_num = dist[n][s].primary_chunk_num
        /\ Size(dist, n, s) <= Size(ext, n, s)
        /\ \A p \in 1 .. Size(ext, n, s) :
              \E m \in Node : \E q \in 1 .. Size(dist, m, s) : Chunk(ext, n, s, p) = Chunk(dist, m, s, q)
    BY <1>3, <2>1 DEF Lengthened
  <2>5. \A p \in 1 .. Size(ext, n, s) : Chunk(ext, n, s, p) \in 1 .. Len(file)
    BY <2>3, <2>4
  <2>6. dist[n][s].host \in Node /\ dist[n][s].primary_chunk_num \in 0 .. Size(dist, n, s)
    BY <2>2 DEF Sound, Size
  <2>7. ext[n][s].physical_blocks \in Seq(Item) /\ Size(ext, n, s) \in Nat /\ Size(dist, n, s) \in Nat
    BY <1>4, <2>1, HoldsTypes
  <2>8. ext[n][s].primary_chunk_num \in 0 .. Size(ext, n, s)
    BY <2>4, <2>6, <2>7
  <2> QED BY <2>4, <2>5, <2>6, <2>7, <2>8 DEF Sound, Size, Chunk
<1> QED BY <1>2, <1>4, <1>5, FlatSound

\* All blocks that a job may get are sound.
LEMMA ArrangedSound ==
    ASSUME NEW blocks \in Arrangements, policy \in {"base", "lean", "steal"},
           hosts \in Seq(Node), cores \in 1 .. MaxCores, NEW k \in DOMAIN blocks
    PROVE  k \in Nat \ {0} /\ Sound(blocks[k], hosts)
<1>1. cores \in Nat \ {0}
  BY CoresAssumption
<1>2. CASE policy = "base"
  <2>1. blocks = SchedulerBase(hosts)
    BY <1>2 DEF Arrangements
  <2> QED BY <2>1, BaseSound
<1>3. CASE policy = "lean"
  <2>1. blocks = SchedulerLean(hosts, cores, Cut)
    BY <1>3 DEF Arrangements
  <2>2. Cut \in Nat
    BY DEF Cut
  <2> QED BY <1>1, <2>1, <2>2, LeanSound
<1>4. CASE policy = "steal"
  <2>1. SchedulerStealDefined(hosts) /\ blocks = SchedulerSteal(hosts, cores)
    BY <1>4 DEF Arrangements
  <2> QED BY <1>1, <2>1, StealSound
<1> QED BY <1>2, <1>3, <1>4

Blocks ==
    /\ job \in [Job -> {"idle", "sent", "undefined"}]
    /\ \A m \in inits : /\ m.job \in Job /\ job[m.job] # "idle"
                        /\ Sound(m.lblock, hosts) /\ HasName(m.lblock)
    /\ DOMAIN tasks = Node
    /\ \A n \in Node : \A b \in DOMAIN tasks[n] :
          /\ Sound(tasks[n][b], hosts) /\ HasName(tasks[n][b])
          /\ tasks[n][b].host = n /\ TaskName(tasks[n][b]) = b

\* A block has a first chunk, which is one of the file.
LEMMA FirstChunk ==
    ASSUME NEW file, NEW b, Sound(b, file), HasName(b)
    PROVE  /\ 1 \in 1 .. Len(b.physical_blocks)
           /\ b.physical_blocks[1].chunk \in 1 .. Len(file)
<1>1. b.physical_blocks \in Seq(Item) /\ b.physical_blocks # <<>>
  BY DEF Sound, HasName
<1>2. 1 \in 1 .. Len(b.physical_blocks)
  BY <1>1
<1> QED BY <1>2 DEF Sound

\* A sound block stays sound when the file grows.
LEMMA SoundMore ==
    ASSUME NEW file \in Seq(Node), NEW h \in Node, NEW b, Sound(b, file)
    PROVE  Sound(b, Append(file, h))
<1>1. Len(file) \in Nat /\ Len(Append(file, h)) = Len(file) + 1
  OBVIOUS
<1>2. 1 .. Len(file) \subseteq 1 .. Len(Append(file, h))
  BY <1>1
<1> QED BY <1>2 DEF Sound

\* The tables are empty at first, and no TASK_INIT is under way.
LEMMA InitBlocks == Init => Blocks
BY DEF Init, Blocks

\* The messages of a start are about blocks of an arrangement for the file.
LEMMA StartBlocks ==
    ASSUME IInv, Blocks, NEW j \in Job, NEW lblocks,
           lblocks = <<>> \/ lblocks \in Arrangements, Start(j, lblocks)
    PROVE  Blocks'
<1>1. hosts' = hosts /\ tasks' = tasks
  BY DEF Start
<1>2. job' \in [Job -> {"idle", "sent", "undefined"}] /\ job'[j] # "idle"
      /\ \A i \in Job : i # j => job'[i] = job[i]
  BY DEF Start, Blocks
<1>3. ASSUME NEW m \in inits'
      PROVE  /\ m.job \in Job /\ job'[m.job] # "idle"
             /\ Sound(m.lblock, hosts) /\ HasName(m.lblock)
  <2>1. CASE m \in inits
    <3>1. m.job \in Job /\ job[m.job] # "idle" /\ Sound(m.lblock, hosts) /\ HasName(m.lblock)
      BY <2>1 DEF Blocks
    <3> QED BY <1>2, <3>1
  <2>2. CASE m \in Inits(j, lblocks)
    <3>1. policy \in {"base", "lean", "steal"}
      BY <2>2 DEF Inits
    <3>2. PICK k \in DOMAIN lblocks : /\ \A i \in 1 .. k : HasName(lblocks[i])
                                      /\ m = [job |-> j, lblock |-> lblocks[k]]
      BY <2>2, <3>1 DEF Inits
    <3>3. lblocks \in Arrangements
      BY <3>2
    <3>4. k \in Nat \ {0} /\ Sound(lblocks[k], hosts)
      BY <3>1, <3>2, <3>3, ArrangedSound DEF IInv
    <3>5. HasName(lblocks[k])
      <4>1. k \in 1 .. k
        BY <3>4
      <4> QED BY <3>2, <4>1
    <3> QED BY <1>2, <3>2, <3>4, <3>5
  <2> QED BY <2>1, <2>2 DEF Start
<1> QED BY <1>1, <1>2, <1>3 DEF Blocks, TaskName, PrimaryFile

\* The entry that is there stays, and keeps the name that it had.
LEMMA TaskBlocks ==
    ASSUME IInv, Blocks, NEW m \in inits, TaskInit(m) PROVE Blocks'
<1> DEFINE n == m.lblock.host
<1>1. hosts' = hosts /\ job' = job /\ inits' = inits \ {m}
      /\ tasks' = [tasks EXCEPT ![n] = Entered(@, m.lblock)]
  BY DEF TaskInit
<1>2. n \in Node /\ Sound(m.lblock, hosts) /\ HasName(m.lblock)
  BY DEF Blocks, Sound
<1>3. DOMAIN tasks = Node
  BY DEF Blocks
<1>4. DOMAIN tasks' = Node /\ tasks'[n] = Entered(tasks[n], m.lblock)
      /\ \A x \in Node : x # n => tasks'[x] = tasks[x]
  BY <1>1, <1>2, <1>3
<1>5. ASSUME NEW x \in Node, NEW b \in DOMAIN tasks'[x]
      PROVE  \/ b \in DOMAIN tasks[x] /\ tasks'[x][b] = tasks[x][b]
             \/ x = n /\ b = TaskName(m.lblock) /\ tasks'[x][b] = m.lblock
  BY <1>4 DEF Entered
<1>6. ASSUME NEW x \in Node, NEW b \in DOMAIN tasks'[x]
      PROVE  /\ Sound(tasks'[x][b], hosts) /\ HasName(tasks'[x][b])
             /\ tasks'[x][b].host = x /\ TaskName(tasks'[x][b]) = b
  BY <1>2, <1>5 DEF Blocks
<1>7. job' \in [Job -> {"idle", "sent", "undefined"}]
  BY <1>1 DEF Blocks
<1>8. \A x \in inits' : /\ x.job \in Job /\ job'[x.job] # "idle"
                       /\ Sound(x.lblock, hosts) /\ HasName(x.lblock)
  BY <1>1 DEF Blocks
<1>9. hosts' = hosts /\ DOMAIN tasks' = Node
  BY <1>1, <1>4
<1> QED BY ONLY <1>6, <1>7, <1>8, <1>9 DEF Blocks, TaskName, PrimaryFile, HasName

\* A file that grows keeps the nodes of the chunks that it has.
LEMMA UpdateBlocks ==
    ASSUME IInv, Blocks, NEW h \in Node, FileUpdate(h) PROVE Blocks'
<1>1. hosts' = Append(hosts, h) /\ UNCHANGED <<job, inits, tasks>> /\ hosts \in Seq(Node)
  BY DEF FileUpdate, Nodes, IInv
<1>2. \A i \in 1 .. Len(hosts) : hosts'[i] = hosts[i]
  BY <1>1
<1>3. ASSUME NEW b, Sound(b, hosts), HasName(b)
      PROVE  Sound(b, hosts') /\ hosts'[b.physical_blocks[1].chunk] = hosts[b.physical_blocks[1].chunk]
  <2>1. Sound(b, Append(hosts, h))
    BY <1>1, <1>3, SoundMore
  <2>2. b.physical_blocks[1].chunk \in 1 .. Len(hosts)
    BY <1>3, FirstChunk
  <2> QED BY <1>1, <1>2, <2>1, <2>2
<1>4. ASSUME NEW m \in inits'
      PROVE  /\ m.job \in Job /\ job'[m.job] # "idle"
             /\ Sound(m.lblock, hosts') /\ HasName(m.lblock)
  BY <1>1, <1>3 DEF Blocks
<1>5. ASSUME NEW n \in Node, NEW b \in DOMAIN tasks'[n]
      PROVE  /\ Sound(tasks'[n][b], hosts') /\ HasName(tasks'[n][b])
             /\ tasks'[n][b].host = n
             /\ hosts'[tasks'[n][b].physical_blocks[1].chunk] = b
  <2>1. /\ Sound(tasks[n][b], hosts) /\ HasName(tasks[n][b])
        /\ tasks[n][b].host = n /\ hosts[tasks[n][b].physical_blocks[1].chunk] = b
    BY <1>1 DEF Blocks, TaskName, PrimaryFile
  <2> QED BY <1>1, <1>3, <2>1
<1> QED BY <1>1, <1>4, <1>5 DEF Blocks, TaskName, PrimaryFile, HasName

\* No step puts a wrong block into a table or a message.
LEMMA BlocksStep == IInv /\ Blocks /\ [Next]_vars => Blocks'
<1> SUFFICES ASSUME IInv, Blocks, [Next]_vars PROVE Blocks'
  OBVIOUS
<1>1. CASE UNCHANGED vars
  BY <1>1 DEF vars, Blocks, TaskName, PrimaryFile, HasName
<1>2. ASSUME NEW j \in Job, Generate(j) PROVE Blocks'
  <2>1. PICK lblocks \in Arrangements : kept' = lblocks
    BY <1>2 DEF Generate
  <2>2. Start(j, lblocks)
    BY <1>2, <2>1 DEF Generate
  <2> QED BY <2>1, <2>2, StartBlocks
<1>3. ASSUME NEW j \in Job, ReadKept(j) PROVE Blocks'
  <2> DEFINE lblocks == IF kept = NoArrangement THEN <<>> ELSE kept
  <2>1. lblocks = <<>> \/ lblocks \in Arrangements
    BY DEF IInv
  <2>2. Start(j, lblocks)
    BY <1>3 DEF ReadKept
  <2> HIDE DEF lblocks
  <2> QED BY <2>1, <2>2, StartBlocks
<1>4. ASSUME NEW m \in inits, TaskInit(m) PROVE Blocks'
  BY <1>4, TaskBlocks
<1>5. ASSUME NEW h \in Node, FileUpdate(h) PROVE Blocks'
  BY <1>5, UpdateBlocks
<1> QED BY <1>1, <1>2, <1>3, <1>4, <1>5 DEF Next

\* The tables and the messages have sound blocks only.
LEMMA BlocksAlways == Spec => [](IInv /\ Blocks)
BY IInvInit, IInvStep, InitBlocks, BlocksStep, PTL DEF Spec

\* JobsTypeOK: a task manager holds only blocks of its own node, each under the
\* name of its own first chunk, however jobs and updates of the file mix.
THEOREM JobsTypeCorrect == Spec => []JobsTypeOK
<1>1. ASSUME IInv, Blocks PROVE JobsTypeOK
  <2>1. /\ cores \in 1 .. MaxCores /\ Len(hosts) \in 1 .. MaxChunks
        /\ \A i \in DOMAIN hosts : hosts[i] \in Node
    BY <1>1 DEF IInv
  <2>2. \A m \in inits : m.job \in Job /\ job[m.job] \in {"sent", "undefined"}
    BY <1>1 DEF Blocks
  <2>3. ASSUME NEW n \in Node, NEW b \in DOMAIN tasks[n]
        PROVE  /\ tasks[n][b].host = n
               /\ PrimaryFile(tasks[n][b].physical_blocks[1].chunk) = b
               /\ tasks[n][b].primary_chunk_num \in 0 .. Len(tasks[n][b].physical_blocks)
    BY <1>1 DEF Blocks, Sound, TaskName
  <2> QED BY <2>1, <2>2, <2>3 DEF JobsTypeOK
<1> QED BY <1>1, BlocksAlways, PTL
-----------------------------------------------------------------------------
(* Which node produces a chunk does not depend on the arrangement: home[i] *)
(* is decided by the chunks up to i.                                       *)
Owning(home, file, pol) ==
    /\ home \in [1 .. Len(file) -> Node]
    /\ pol = "base" => \A i \in 1 .. Len(file) : home[i] = file[i]
    /\ pol = "lean" => \E cnt : Loading(cnt, LeanIds(file), home)
    /\ pol = "steal" => \E cnt : Loading(cnt, StealIds(file), home)

\* Each chunk of the file has a home.
LEMMA OwningExists ==
    ASSUME NEW file \in Seq(Node), NEW pol
    PROVE  \E home : Owning(home, file, pol)
<1>1. file \in [1 .. Len(file) -> Node]
  OBVIOUS
<1>2. PICK c1, h1 : Loading(c1, LeanIds(file), h1)
  BY IdsAreHolders, LoadingExists DEF AreHolders
<1>3. PICK c2, h2 : Loading(c2, StealIds(file), h2)
  BY IdsAreHolders, LoadingExists DEF AreHolders
<1>4. h1 \in [1 .. Len(file) -> Node] /\ h2 \in [1 .. Len(file) -> Node]
  BY <1>2, <1>3, IdsAreHolders DEF AreHolders, Loading
<1>5. CASE pol = "lean"
  <2>1. Owning(h1, file, pol)
    BY <1>2, <1>4, <1>5 DEF Owning
  <2> QED BY <2>1
<1>6. CASE pol = "steal"
  <2>1. Owning(h2, file, pol)
    BY <1>3, <1>4, <1>6 DEF Owning
  <2> QED BY <2>1
<1>7. CASE pol \notin {"lean", "steal"}
  <2>1. Owning(file, file, pol)
    BY <1>1, <1>7 DEF Owning
  <2> QED BY <2>1
<1> QED BY <1>5, <1>6, <1>7

HomesMore(ids, more, cnt, home, len) ==
    /\ ids \in Seq(Triples) /\ more \in Seq(Triples) /\ Len(ids) = len /\ Len(more) = len + 1
    /\ \A i \in 1 .. len : more[i] = ids[i]
    /\ Loading(cnt, ids, home)

\* The counters give a file with one more chunk the same homes and one more.
LEMMA HomeStays ==
    ASSUME NEW ids, NEW more, NEW cnt, NEW home, NEW len, HomesMore(ids, more, cnt, home, len)
    PROVE  \E c2, h2 : /\ Loading(c2, more, h2) /\ h2 \in [1 .. len + 1 -> Node]
                       /\ \A i \in 1 .. len : h2[i] = home[i]
<1>1. /\ ids \in Seq(Triples) /\ more \in Seq(Triples) /\ Len(ids) = len /\ Len(more) = Len(ids) + 1
      /\ \A i \in 1 .. Len(ids) : more[i] = ids[i]
      /\ Loading(cnt, ids, home)
  BY DEF HomesMore
<1>2. PICK c2, h2 : Loading(c2, more, h2) /\ \A i \in 1 .. Len(ids) : h2[i] = home[i]
  BY <1>1, LoadingMore
<1>3. h2 \in [1 .. len + 1 -> Node]
  BY <1>1, <1>2 DEF Loading
<1> QED BY <1>1, <1>2, <1>3

Extends(file, h, more) == file \in Seq(Node) /\ h \in Node /\ more = Append(file, h)
SameHomes(h2, home, file) == \A i \in 1 .. Len(file) : h2[i] = home[i]

\* Growing the file moves no chunk.
LEMMA OwningMore ==
    ASSUME NEW file, NEW h, NEW more, Extends(file, h, more), NEW pol,
           NEW home, Owning(home, file, pol)
    PROVE  \E h2 : Owning(h2, more, pol) /\ SameHomes(h2, home, file)
<1> USE DEF Extends, SameHomes
<1>1. /\ more \in Seq(Node) /\ Len(more) = Len(file) + 1 /\ Len(file) \in Nat
      /\ \A i \in 1 .. Len(file) : more[i] = file[i] /\ i \in DOMAIN file /\ i \in DOMAIN more
  OBVIOUS
<1>3. CASE pol = "lean"
  <2>1. \A i \in 1 .. Len(file) : LeanIds(more)[i] = LeanIds(file)[i]
    BY <1>1 DEF LeanIds
  <2>2. PICK cnt : Loading(cnt, LeanIds(file), home)
    BY <1>3 DEF Owning
  <2>3. AreHolders(LeanIds(file), file) /\ AreHolders(LeanIds(more), more)
    BY <1>1, IdsAreHolders
  <2>6. HomesMore(LeanIds(file), LeanIds(more), cnt, home, Len(file))
    BY <1>1, <2>1, <2>2, <2>3 DEF HomesMore, AreHolders
  <2>4. PICK c2, h2 : Loading(c2, LeanIds(more), h2) /\ h2 \in [1 .. Len(more) -> Node]
                      /\ \A i \in 1 .. Len(file) : h2[i] = home[i]
    BY <1>1, <2>6, HomeStays
  <2>5. Owning(h2, more, pol)
    BY <1>3, <2>4 DEF Owning
  <2> QED BY <2>4, <2>5
<1>4. CASE pol = "steal"
  <2>1. \A i \in 1 .. Len(file) : StealIds(more)[i] = StealIds(file)[i]
    BY <1>1 DEF StealIds
  <2>2. PICK cnt : Loading(cnt, StealIds(file), home)
    BY <1>4 DEF Owning
  <2>3. AreHolders(StealIds(file), file) /\ AreHolders(StealIds(more), more)
    BY <1>1, IdsAreHolders
  <2>6. HomesMore(StealIds(file), StealIds(more), cnt, home, Len(file))
    BY <1>1, <2>1, <2>2, <2>3 DEF HomesMore, AreHolders
  <2>4. PICK c2, h2 : Loading(c2, StealIds(more), h2) /\ h2 \in [1 .. Len(more) -> Node]
                      /\ \A i \in 1 .. Len(file) : h2[i] = home[i]
    BY <1>1, <2>6, HomeStays
  <2>5. Owning(h2, more, pol)
    BY <1>4, <2>4 DEF Owning
  <2> QED BY <2>4, <2>5
<1>5. CASE pol = "base"
  <2>1. \A i \in 1 .. Len(file) : home[i] = file[i]
    BY <1>5 DEF Owning
  <2>2. more \in [1 .. Len(more) -> Node]
    BY ONLY <1>1
  <2>3. Owning(more, more, pol)
    BY <1>5, <2>2 DEF Owning
  <2> QED BY <1>1, <2>1, <2>3
<1>6. CASE pol \notin {"base", "lean", "steal"}
  <2> DEFINE h2 == [i \in 1 .. Len(more) |-> IF i <= Len(file) THEN home[i] ELSE h]
  <2>1. home \in [1 .. Len(file) -> Node]
    BY DEF Owning
  <2>2. h2 \in [1 .. Len(more) -> Node] /\ \A i \in 1 .. Len(file) : h2[i] = home[i]
    BY <1>1, <2>1
  <2> HIDE DEF h2
  <2>3. Owning(h2, more, pol)
    BY <1>6, <2>2 DEF Owning
  <2> QED BY <2>2, <2>3
<1> QED BY <1>3, <1>4, <1>5, <1>6

\* The primary part of b has chunks of its node only, each once.
Mine(b, home) ==
    /\ \A p \in 1 .. b.primary_chunk_num : home[b.physical_blocks[p].chunk] = b.host
    /\ \A p, q \in 1 .. b.primary_chunk_num :
          b.physical_blocks[p].chunk = b.physical_blocks[q].chunk => p = q

\* The blocks of scheduler_base have their nodes' chunks, one block a node.
LEMMA BaseMine ==
    ASSUME NEW file \in Seq(Node), NEW home, Owning(home, file, "base"),
           NEW k \in DOMAIN SchedulerBase(file), NEW l \in DOMAIN SchedulerBase(file)
    PROVE  /\ Mine(SchedulerBase(file)[k], home)
           /\ SchedulerBase(file)[k].host = SchedulerBase(file)[l].host => k = l
<1> DEFINE b == SchedulerBase(file)[k]
           x == Own(file, k - 1)
<1>1. k \in 1 .. N /\ l \in 1 .. N
  BY DEF SchedulerBase
<1>2. SchedulerBase(file)[l].host = l - 1
  BY <1>1, BaseBlock
<1>3. /\ b.host = k - 1 /\ k - 1 \in Node /\ b.primary_chunk_num \in Nat
      /\ \A p \in 1 .. b.primary_chunk_num : b.physical_blocks[p] = x.physical_blocks[p]
  BY <1>1, BaseLists
<1>4. b.primary_chunk_num = x.primary_chunk_num
  BY <1>1, BaseBlock
<1>5. x.primary_chunk_num = Len(x.physical_blocks) /\ Collects(x, file, k - 1, 1, Len(file))
  BY <1>3, OwnFacts
<1> HIDE DEF b, x
<1>6. \A p \in 1 .. b.primary_chunk_num :
          /\ x.physical_blocks[p].chunk \in 1 .. Len(file)
          /\ file[x.physical_blocks[p].chunk] = k - 1
          /\ \A q \in 1 .. b.primary_chunk_num :
                p # q => x.physical_blocks[p].chunk # x.physical_blocks[q].chunk
  BY <1>4, <1>5 DEF Collects
<1>7. Mine(b, home)
  BY <1>3, <1>6 DEF Mine, Owning
<1>8. b.host = l - 1 => k = l
  BY <1>1, <1>3
<1> QED BY <1>2, <1>7, <1>8 DEF b

\* Flattening one list of each node makes one block a node.
LEMMA FlatMine ==
    ASSUME NEW dist \in [Node -> Seq(LBlock)], NEW home,
           \A n \in Node : Len(dist[n]) = 1 /\ dist[n][1].host = n /\ Mine(dist[n][1], home),
           NEW w, w = Flattened(dist), NEW k \in DOMAIN w, NEW l \in DOMAIN w
    PROVE  Mine(w[k], home) /\ (w[k].host = w[l].host => k = l)
<1>1. PICK at : Mapped(w, at, dist, N)
  BY FlattenedFacts
<1>2. /\ w \in Seq(LBlock)
      /\ \A x \in 1 .. Len(w) : /\ at[x][1] \in Node /\ at[x][2] \in 1 .. Len(dist[at[x][1]])
                                /\ w[x] = dist[at[x][1]][at[x][2]]
      /\ \A x, y \in 1 .. Len(w) : at[x][1] = at[y][1] /\ at[x][2] = at[y][2] => x = y
  BY <1>1 DEF Mapped, Node
<1>3. k \in 1 .. Len(w) /\ l \in 1 .. Len(w)
  BY <1>2
<1>4. ASSUME NEW x \in 1 .. Len(w)
      PROVE  at[x][2] = 1 /\ w[x].host = at[x][1] /\ Mine(w[x], home)
  <2>1. at[x][1] \in Node /\ at[x][2] \in 1 .. Len(dist[at[x][1]])
        /\ w[x] = dist[at[x][1]][at[x][2]]
    BY <1>2
  <2>2. Len(dist[at[x][1]]) = 1
    BY <2>1
  <2>3. at[x][2] = 1
    BY <2>1, <2>2
  <2> QED BY <2>1, <2>3
<1> QED BY <1>2, <1>3, <1>4

\* The primary parts of what Distributed makes.
LEMMA SpreadMine ==
    ASSUME NEW file \in Seq(Node), NEW cut, NEW dist, NEW homes, NEW ids, NEW home,
           Spread(dist, homes, ids, home, file, cut), NEW n \in Node, NEW s \in 1 .. Len(dist[n])
    PROVE  dist[n][s].host = n /\ Mine(dist[n][s], home)
<1> DEFINE b == dist[n][s]
<1>1. Holds(dist, homes, cut) /\ DOMAIN homes = 1 .. Len(file)
      /\ \A i \in 1 .. Len(file) : i <= cut => homes[i] = {home[i]}
  BY DEF Spread
<1>2. b.primary_chunk_num \in Nat /\ Size(dist, n, s) \in Nat
  BY <1>1, HoldsTypes DEF Holds
<1>3. b.host = n /\ b.primary_chunk_num <= Size(dist, n, s)
  BY <1>1 DEF Holds
<1>4. ASSUME NEW p \in 1 .. b.primary_chunk_num
      PROVE  /\ home[Chunk(dist, n, s, p)] = n
             /\ \A q \in 1 .. b.primary_chunk_num :
                   Chunk(dist, n, s, p) = Chunk(dist, n, s, q) => p = q
  <2>1. p \in 1 .. Size(dist, n, s) /\ p <= b.primary_chunk_num
    BY <1>2, <1>3
  <2>2. Chunk(dist, n, s, p) \in 1 .. Len(file) /\ Chunk(dist, n, s, p) <= cut
        /\ n \in homes[Chunk(dist, n, s, p)]
    BY <1>1, <2>1 DEF Holds
  <2>3. home[Chunk(dist, n, s, p)] = n
    BY <1>1, <2>2
  <2>4. ASSUME NEW q \in 1 .. b.primary_chunk_num, Chunk(dist, n, s, p) = Chunk(dist, n, s, q)
        PROVE  p = q
    <3>1. q \in 1 .. Size(dist, n, s)
      BY <1>2, <1>3
    <3> QED BY <1>1, <2>1, <2>4, <3>1 DEF Holds
  <2> QED BY <2>3, <2>4
<1> QED BY <1>3, <1>4 DEF Mine, Chunk

\* With one slot scheduler_lean has one block a node, of chunks at home there,
LEMMA LeanMine ==
    ASSUME NEW file \in Seq(Node), NEW cut \in Nat, NEW home, Owning(home, file, "lean"),
           NEW blocks, blocks = SchedulerLean(file, 1, cut),
           NEW k \in DOMAIN blocks, NEW l \in DOMAIN blocks
    PROVE  Mine(blocks[k], home) /\ (blocks[k].host = blocks[l].host => k = l)
<1>1. PICK cnt : Loading(cnt, LeanIds(file), home)
  BY DEF Owning
<1>2. PICK dist, homes : LeanHomes(dist, homes, home, file, 1, cut)
  BY <1>1, LeanFacts
<1>3. /\ dist \in [Node -> [1 .. 1 -> LBlock]] /\ blocks = Flattened(dist)
      /\ Spread(dist, homes, LeanIds(file), home, file, cut)
  BY <1>2 DEF LeanHomes
<1>4. dist \in [Node -> Seq(LBlock)] /\ \A n \in Node : Len(dist[n]) = 1
  BY <1>3, SlotsAreLists
<1>5. \A n \in Node : Len(dist[n]) = 1 /\ dist[n][1].host = n /\ Mine(dist[n][1], home)
  <2> SUFFICES ASSUME NEW n \in Node PROVE dist[n][1].host = n /\ Mine(dist[n][1], home)
    BY <1>4
  <2>1. 1 \in 1 .. Len(dist[n])
    <3>1. Len(dist[n]) = 1
      BY <1>4
    <3> QED BY ONLY <3>1
  <2> QED BY <1>3, <2>1, SpreadMine
<1> QED BY <1>3, <1>4, <1>5, FlatMine

\* and so has scheduler_steal.
LEMMA StealMine ==
    ASSUME NEW file \in Seq(Node), SchedulerStealDefined(file), NEW home, Owning(home, file, "steal"),
           NEW blocks, blocks = SchedulerSteal(file, 1),
           NEW k \in DOMAIN blocks, NEW l \in DOMAIN blocks
    PROVE  Mine(blocks[k], home) /\ (blocks[k].host = blocks[l].host => k = l)
<1>1. PICK cnt : Loading(cnt, StealIds(file), home)
  BY DEF Owning
<1>2. PICK dist, homes, slots : StealHomes(dist, homes, home, slots, file, 1)
  BY <1>1, StealFacts
<1> DEFINE ext == Longer(dist, slots)
           cut == Len(file)
<1>3. /\ slots \in Nat \ {0} /\ slots <= 1 /\ dist \in [Node -> [1 .. slots -> LBlock]]
      /\ blocks = Flattened(ext)
      /\ Spread(dist, homes, StealIds(file), home, file, cut)
  BY <1>2 DEF StealHomes
<1>4. ext \in [Node -> [1 .. slots -> LBlock]] /\ Lengthened(dist, ext)
  BY <1>3, LongerFacts
<1> HIDE DEF ext, cut
<1>5. slots = 1
  BY <1>3
<1>6. /\ dist \in [Node -> Seq(LBlock)] /\ ext \in [Node -> Seq(LBlock)]
      /\ \A m \in Node : Len(dist[m]) = 1 /\ Len(ext[m]) = 1
  BY <1>3, <1>4, <1>5, SlotsAreLists
<1>7. ASSUME NEW n \in Node PROVE ext[n][1].host = n /\ Mine(ext[n][1], home)
  <2>1. 1 \in 1 .. Len(dist[n])
    <3>1. Len(dist[n]) = 1
      BY <1>6
    <3> QED BY ONLY <3>1
  <2>2. dist[n][1].host = n /\ Mine(dist[n][1], home)
    BY <1>3, <2>1, SpreadMine
  <2>3. dist[n][1].primary_chunk_num <= Size(dist, n, 1)
        /\ dist[n][1].primary_chunk_num \in Nat /\ Size(dist, n, 1) \in Nat
    BY <1>3, <1>6, <2>1, HoldsTypes DEF Spread, Holds
  <2>4. /\ ext[n][1].host = dist[n][1].host
        /\ ext[n][1].primary_chunk_num = dist[n][1].primary_chunk_num
        /\ \A p \in 1 .. Size(dist, n, 1) : Chunk(ext, n, 1, p) = Chunk(dist, n, 1, p)
    BY <1>4, <2>1 DEF Lengthened
  <2>5. \A p \in 1 .. dist[n][1].primary_chunk_num :
            ext[n][1].physical_blocks[p].chunk = dist[n][1].physical_blocks[p].chunk
    BY <2>3, <2>4 DEF Chunk
  <2> QED BY <2>2, <2>4, <2>5 DEF Mine
<1>8. \A n \in Node : Len(ext[n]) = 1 /\ ext[n][1].host = n /\ Mine(ext[n][1], home)
  BY <1>6, <1>7
<1> QED BY <1>3, <1>6, <1>8, FlatMine

\* So has every arrangement that JobReadsOnce is about.
LEMMA ArrangedMine ==
    ASSUME NEW blocks \in Arrangements, policy \in {"base", "lean", "steal"},
           policy = "base" \/ cores = 1, hosts \in Seq(Node),
           NEW home, Owning(home, hosts, policy), NEW k \in DOMAIN blocks, NEW l \in DOMAIN blocks
    PROVE  Mine(blocks[k], home) /\ (blocks[k].host = blocks[l].host => k = l)
<1>1. CASE policy = "base"
  <2>1. blocks = SchedulerBase(hosts)
    BY <1>1 DEF Arrangements
  <2> QED BY <1>1, <2>1, BaseMine
<1>2. CASE policy = "lean"
  <2>1. blocks = SchedulerLean(hosts, 1, Cut)
    BY <1>2 DEF Arrangements
  <2>2. Cut \in Nat
    BY DEF Cut
  <2> QED BY <1>2, <2>1, <2>2, LeanMine
<1>3. CASE policy = "steal"
  <2>1. SchedulerStealDefined(hosts) /\ blocks = SchedulerSteal(hosts, 1)
    BY <1>3 DEF Arrangements
  <2> QED BY <1>3, <2>1, StealMine
<1> QED BY <1>1, <1>2, <1>3

Count(b, i) == Cardinality({p \in DOMAIN ReadBy(b) : ReadBy(b)[p].chunk = i})

\* Who has produced what, and what is still to come.
ReadsHome(home) ==
    /\ Owning(home, hosts, policy)
    /\ produced \in [Job -> [1 .. MaxChunks -> {0, 1}]]
    /\ \A m \in inits : Mine(m.lblock, home)
    /\ \A m, l \in inits : m.job = l.job /\ m.lblock.host = l.lblock.host => m = l
    /\ \A n \in Node : \A b \in DOMAIN tasks[n] : Mine(tasks[n][b], home)
    /\ \A j \in Job : job[j] = "idle" => \A i \in 1 .. MaxChunks : produced[j][i] = 0
    /\ \A j \in Job : \A i \in 1 .. MaxChunks :
          produced[j][i] # 0 =>
              i \in 1 .. Len(hosts) /\ \A m \in inits : m.job = j => m.lblock.host # home[i]

Once == policy = "base" \/ cores = 1 => \E home : ReadsHome(home)

\* A worker gets from a block the chunks of its primary part, each once.
LEMMA CountFacts ==
    ASSUME NEW file, NEW b, Sound(b, file), NEW home, Mine(b, home), NEW i
    PROVE  /\ Count(b, i) \in {0, 1}
           /\ Count(b, i) = 1 <=> \E p \in 1 .. b.primary_chunk_num : b.physical_blocks[p].chunk = i
           /\ Count(b, i) = 1 => i \in 1 .. Len(file) /\ home[i] = b.host
<1> DEFINE S == {p \in DOMAIN ReadBy(b) : ReadBy(b)[p].chunk = i}
<1>1. /\ b.physical_blocks \in Seq(Item) /\ b.primary_chunk_num \in 0 .. Len(b.physical_blocks)
      /\ \A p \in 1 .. Len(b.physical_blocks) : b.physical_blocks[p].chunk \in 1 .. Len(file)
  BY DEF Sound
<1>2. ReadBy(b) = SubSeq(b.physical_blocks, 1, b.primary_chunk_num)
  BY DEF ReadBy, PrimaryPart
<1>3. DOMAIN ReadBy(b) = 1 .. b.primary_chunk_num
      /\ \A p \in 1 .. b.primary_chunk_num : ReadBy(b)[p] = b.physical_blocks[p]
  BY <1>1, <1>2
<1>4. \A p : p \in S <=> p \in 1 .. b.primary_chunk_num /\ b.physical_blocks[p].chunk = i
  BY <1>3
<1>5. Count(b, i) = Cardinality(S)
  BY DEF Count
<1> HIDE DEF S
<1>6. CASE S = {}
  <2>1. Count(b, i) = 0
    BY <1>5, <1>6, FS_EmptySet
  <2> QED BY <1>4, <1>6, <2>1
<1>7. CASE S # {}
  <2>1. PICK p : p \in S
    BY <1>7
  <2>2. \A q \in S : q = p
    BY <1>4, <2>1 DEF Mine
  <2>3. S = {p}
    BY <2>1, <2>2
  <2>4. Count(b, i) = 1
    BY <1>5, <2>3, FS_Singleton
  <2>5. p \in 1 .. b.primary_chunk_num /\ b.physical_blocks[p].chunk = i
    BY <1>4, <2>1
  <2>6. p \in 1 .. Len(b.physical_blocks)
    BY <1>1, <2>5
  <2>7. i \in 1 .. Len(file) /\ home[i] = b.host
    BY <1>1, <2>5, <2>6 DEF Mine
  <2> QED BY <2>4, <2>5, <2>7
<1> QED BY <1>6, <1>7

\* Nothing has been produced at first.
LEMMA InitOnce == Init => Once
<1> SUFFICES ASSUME Init PROVE Once
  OBVIOUS
<1>1. IInv
  BY IInvInit
<1>2. PICK home : Owning(home, hosts, policy)
  BY <1>1, OwningExists DEF IInv
<1>3. /\ inits = {} /\ tasks = [n \in Node |-> <<>>]
      /\ produced = [j \in Job |-> [i \in 1 .. MaxChunks |-> 0]]
  BY DEF Init
<1>4. /\ produced \in [Job -> [1 .. MaxChunks -> {0, 1}]]
      /\ \A j \in Job : \A i \in 1 .. MaxChunks : produced[j][i] = 0
      /\ \A n \in Node : DOMAIN tasks[n] = {}
  BY <1>3
<1>5. ReadsHome(home)
  BY <1>2, <1>3, <1>4 DEF ReadsHome
<1> QED BY <1>5 DEF Once

\* The messages of a job are for different nodes, and it has none before.
LEMMA StartOnce ==
    ASSUME IInv, Blocks, policy = "base" \/ cores = 1, NEW home, ReadsHome(home),
           NEW j \in Job, job[j] = "idle", NEW lblocks,
           lblocks = <<>> \/ lblocks \in Arrangements, Start(j, lblocks)
    PROVE  ReadsHome(home)'
<1>1. /\ policy' = policy /\ hosts' = hosts /\ tasks' = tasks /\ produced' = produced
      /\ inits' = inits \cup Inits(j, lblocks)
  BY DEF Start, Config
<1>2. job' \in [Job -> {"idle", "sent", "undefined"}]
      /\ \A i \in Job : job'[i] = "idle" => job[i] = "idle"
  BY DEF Start, Blocks
<1>3. \A m \in inits : m.job # j
  BY DEF Blocks
<1>4. ASSUME NEW m \in Inits(j, lblocks)
      PROVE  /\ policy \in {"base", "lean", "steal"} /\ lblocks \in Arrangements
             /\ \E k \in DOMAIN lblocks : m = [job |-> j, lblock |-> lblocks[k]]
  BY DEF Inits
<1>5. ASSUME NEW m \in Inits(j, lblocks), NEW l \in Inits(j, lblocks)
      PROVE  m.job = j /\ Mine(m.lblock, home) /\ (m.lblock.host = l.lblock.host => m = l)
  <2>1. PICK k \in DOMAIN lblocks : m = [job |-> j, lblock |-> lblocks[k]]
    BY <1>4
  <2>2. PICK x \in DOMAIN lblocks : l = [job |-> j, lblock |-> lblocks[x]]
    BY <1>4
  <2>3. Mine(lblocks[k], home) /\ (lblocks[k].host = lblocks[x].host => k = x)
    BY <1>4, ArrangedMine DEF IInv, ReadsHome
  <2> QED BY <2>1, <2>2, <2>3
<1>6. \A m \in inits' : Mine(m.lblock, home)
  BY <1>1, <1>5 DEF ReadsHome
<1>7. ASSUME NEW m \in inits', NEW l \in inits', m.job = l.job, m.lblock.host = l.lblock.host
      PROVE  m = l
  <2>1. CASE m \in inits /\ l \in inits
    BY <1>7, <2>1 DEF ReadsHome
  <2>2. CASE m \in Inits(j, lblocks) /\ l \in Inits(j, lblocks)
    BY <1>5, <1>7, <2>2
  <2>3. CASE m \in inits /\ l \in Inits(j, lblocks)
    BY <1>3, <1>5, <1>7, <2>3
  <2>4. CASE m \in Inits(j, lblocks) /\ l \in inits
    BY <1>3, <1>5, <1>7, <2>4
  <2> QED BY <1>1, <2>1, <2>2, <2>3, <2>4
<1>8. ASSUME NEW x \in Job, NEW i \in 1 .. MaxChunks, produced[x][i] # 0
      PROVE  i \in 1 .. Len(hosts) /\ \A m \in inits' : m.job = x => m.lblock.host # home[i]
  <2>1. x # j
    BY <1>8 DEF ReadsHome
  <2> QED BY <1>1, <1>5, <1>8, <2>1 DEF ReadsHome
<1>9. \A x \in Job : job'[x] = "idle" => \A i \in 1 .. MaxChunks : produced[x][i] = 0
  BY <1>2 DEF ReadsHome
<1>10. Owning(home, hosts, policy) /\ produced \in [Job -> [1 .. MaxChunks -> {0, 1}]]
       /\ \A n \in Node : \A b \in DOMAIN tasks[n] : Mine(tasks[n][b], home)
  BY DEF ReadsHome
<1> QED BY <1>1, <1>6, <1>7, <1>8, <1>9, <1>10 DEF ReadsHome

\* The entry that the worker reads from: of this node, and sound.
LEMMA ReadFrom ==
    ASSUME IInv, Blocks, NEW m \in inits, TaskInit(m),
           NEW t, t = tasks'[m.lblock.host][TaskName(m.lblock)]
    PROVE  /\ Sound(t, hosts) /\ t.host = m.lblock.host
           /\ t = m.lblock \/ \E b \in DOMAIN tasks[m.lblock.host] : t = tasks[m.lblock.host][b]
<1> DEFINE n == m.lblock.host
           name == TaskName(m.lblock)
<1>1. n \in Node /\ Sound(m.lblock, hosts) /\ DOMAIN tasks = Node
  BY DEF Blocks, Sound
<1>2. tasks'[n] = Entered(tasks[n], m.lblock)
  BY <1>1 DEF TaskInit
<1>3. t = m.lblock \/ (name \in DOMAIN tasks[n] /\ t = tasks[n][name])
  BY <1>2 DEF Entered
<1> QED BY <1>1, <1>3 DEF Blocks

\* The job gets the chunks of the node, and no other message brings them.
LEMMA TaskOnce ==
    ASSUME IInv, Blocks, NEW home, ReadsHome(home), NEW m \in inits, TaskInit(m),
           NEW t, t = tasks'[m.lblock.host][TaskName(m.lblock)]
    PROVE  /\ ReadsHome(home)' /\ Mine(t, home)
           /\ \A j \in Job : \A i \in 1 .. MaxChunks :
                 produced'[j][i] = IF j = m.job THEN produced[j][i] + Count(t, i) ELSE produced[j][i]
<1> DEFINE n == m.lblock.host
<1>1. /\ UNCHANGED <<policy, hosts, job>> /\ inits' = inits \ {m}
      /\ tasks' = [tasks EXCEPT ![n] = Entered(@, m.lblock)]
      /\ produced' = [produced EXCEPT ![m.job] = [i \in DOMAIN @ |-> @[i] + Count(t, i)]]
  BY DEF TaskInit, Config, Count
<1>2. n \in Node /\ m.job \in Job /\ DOMAIN tasks = Node
      /\ produced \in [Job -> [1 .. MaxChunks -> {0, 1}]]
  BY DEF Blocks, Sound, ReadsHome
<1>3. /\ Sound(t, hosts) /\ t.host = n
      /\ t = m.lblock \/ \E b \in DOMAIN tasks[n] : t = tasks[n][b]
  BY ReadFrom
<1>4. Mine(t, home)
  BY <1>2, <1>3 DEF ReadsHome
<1>5. \A i : /\ Count(t, i) \in {0, 1}
             /\ Count(t, i) = 1 => i \in 1 .. Len(hosts) /\ home[i] = n
  BY <1>3, <1>4, CountFacts
<1>6. ASSUME NEW i \in 1 .. MaxChunks, Count(t, i) = 1 PROVE produced[m.job][i] = 0
  BY <1>2, <1>5, <1>6 DEF ReadsHome
<1> DEFINE row == [i \in 1 .. MaxChunks |-> produced[m.job][i] + Count(t, i)]
<1>7. DOMAIN produced[m.job] = 1 .. MaxChunks
  BY <1>2
<1>8. produced' = [produced EXCEPT ![m.job] = row]
  BY <1>1, <1>7
<1>9. ASSUME NEW i \in 1 .. MaxChunks
      PROVE  row[i] = produced[m.job][i] + Count(t, i) /\ row[i] \in {0, 1}
  <2>1. produced[m.job][i] \in {0, 1}
    BY <1>2
  <2> QED BY <1>5, <1>6, <2>1
<1>10. row \in [1 .. MaxChunks -> {0, 1}]
  BY <1>9
<1> HIDE DEF row
<1>11. produced' \in [Job -> [1 .. MaxChunks -> {0, 1}]]
  BY <1>2, <1>8, <1>10
<1>12. \A j \in Job : \A i \in 1 .. MaxChunks :
           produced'[j][i] = IF j = m.job THEN produced[j][i] + Count(t, i) ELSE produced[j][i]
  BY <1>2, <1>8, <1>9
<1>13. \A x \in Node : \A b \in DOMAIN tasks'[x] : Mine(tasks'[x][b], home)
  <2> SUFFICES ASSUME NEW x \in Node, NEW b \in DOMAIN tasks'[x] PROVE Mine(tasks'[x][b], home)
    OBVIOUS
  <2>1. tasks'[n] = Entered(tasks[n], m.lblock) /\ \A y \in Node : y # n => tasks'[y] = tasks[y]
    BY <1>1, <1>2
  <2>2. \/ b \in DOMAIN tasks[x] /\ tasks'[x][b] = tasks[x][b]
        \/ tasks'[x][b] = m.lblock
    BY <2>1 DEF Entered
  <2> QED BY <2>2 DEF ReadsHome
<1>14. \A j \in Job : job'[j] = "idle" => \A i \in 1 .. MaxChunks : produced'[j][i] = 0
  <2> SUFFICES ASSUME NEW j \in Job, job[j] = "idle", NEW i \in 1 .. MaxChunks
               PROVE  produced'[j][i] = 0
    BY <1>1
  <2>1. j # m.job
    BY DEF Blocks
  <2> QED BY <1>12, <2>1 DEF ReadsHome
<1>15. ASSUME NEW j \in Job, NEW i \in 1 .. MaxChunks, produced'[j][i] # 0
       PROVE  i \in 1 .. Len(hosts) /\ \A l \in inits' : l.job = j => l.lblock.host # home[i]
  <2>1. CASE produced[j][i] # 0
    BY <1>1, <2>1 DEF ReadsHome
  <2>2. CASE produced[j][i] = 0
    <3>1. j = m.job /\ Count(t, i) = 1
      BY <1>5, <1>12, <1>15, <2>2
    <3>2. i \in 1 .. Len(hosts) /\ home[i] = n
      BY <1>5, <3>1
    <3>3. ASSUME NEW l \in inits', l.job = j PROVE l.lblock.host # n
      BY <1>1, <3>1, <3>3 DEF ReadsHome
    <3> QED BY <3>2, <3>3
  <2> QED BY <2>1, <2>2
<1>16. /\ Owning(home, hosts, policy) /\ \A l \in inits' : Mine(l.lblock, home)
       /\ \A l, k \in inits' : l.job = k.job /\ l.lblock.host = k.lblock.host => l = k
  BY <1>1 DEF ReadsHome
<1>17. ReadsHome(home)'
  BY <1>1, <1>11, <1>13, <1>14, <1>15, <1>16 DEF ReadsHome
<1> QED BY <1>4, <1>12, <1>17

\* A new chunk has its own home; the others keep theirs.
LEMMA UpdateOnce ==
    ASSUME IInv, Blocks, NEW home, ReadsHome(home), NEW h \in Node, FileUpdate(h)
    PROVE  \E h2 : ReadsHome(h2)'
<1>1. /\ hosts' = Append(hosts, h) /\ hosts \in Seq(Node)
      /\ UNCHANGED <<policy, job, inits, tasks, produced>>
  BY DEF FileUpdate, Nodes, Config, IInv
<1>2. PICK h2 : Owning(h2, hosts', policy) /\ \A i \in 1 .. Len(hosts) : h2[i] = home[i]
  <2>1. Owning(home, hosts, policy) /\ Extends(hosts, h, hosts')
    BY <1>1 DEF ReadsHome, Extends
  <2>2. \E h2 : Owning(h2, hosts', policy) /\ SameHomes(h2, home, hosts)
    BY <2>1, OwningMore, Zenon
  <2> QED BY <2>2 DEF SameHomes
<1>3. ASSUME NEW b, Sound(b, hosts), Mine(b, home) PROVE Mine(b, h2)
  <2>1. \A p \in 1 .. b.primary_chunk_num : b.physical_blocks[p].chunk \in 1 .. Len(hosts)
    BY <1>3 DEF Sound
  <2> QED BY <1>2, <1>3, <2>1 DEF Mine
<1>4. (\A m \in inits : Mine(m.lblock, h2))
      /\ \A n \in Node : \A b \in DOMAIN tasks[n] : Mine(tasks[n][b], h2)
  BY <1>3 DEF Blocks, ReadsHome
<1>5. Len(hosts') = Len(hosts) + 1 /\ Len(hosts) \in Nat
  BY <1>1
<1>6. ASSUME NEW j \in Job, NEW i \in 1 .. MaxChunks, produced[j][i] # 0
      PROVE  i \in 1 .. Len(hosts') /\ \A m \in inits : m.job = j => m.lblock.host # h2[i]
  <2>1. i \in 1 .. Len(hosts) /\ \A m \in inits : m.job = j => m.lblock.host # home[i]
    BY <1>6 DEF ReadsHome
  <2> QED BY <1>2, <1>5, <2>1
<1>7. /\ produced \in [Job -> [1 .. MaxChunks -> {0, 1}]]
      /\ \A m, l \in inits : m.job = l.job /\ m.lblock.host = l.lblock.host => m = l
      /\ \A j \in Job : job[j] = "idle" => \A i \in 1 .. MaxChunks : produced[j][i] = 0
  BY DEF ReadsHome
<1>8. ReadsHome(h2)'
  BY <1>1, <1>2, <1>4, <1>6, <1>7 DEF ReadsHome
<1> QED BY <1>8

\* The settings do not change.
LEMMA ConfigStays == [Next]_vars => UNCHANGED <<policy, cores>>
BY DEF Next, vars, Generate, ReadKept, Start, TaskInit, FileUpdate, Config

\* No step gives a chunk to a job again.
LEMMA OnceStep == IInv /\ Blocks /\ Once /\ [Next]_vars => Once'
<1> SUFFICES ASSUME IInv, Blocks, Once, [Next]_vars, (policy = "base" \/ cores = 1)'
             PROVE  \E home : ReadsHome(home)'
  BY DEF Once
<1>1. UNCHANGED <<policy, cores>>
  BY ConfigStays
<1>2. policy = "base" \/ cores = 1
  BY <1>1
<1>3. PICK home : ReadsHome(home)
  BY <1>2 DEF Once
<1>4. CASE UNCHANGED vars
  <2>1. ReadsHome(home)'
    BY <1>3, <1>4 DEF vars, ReadsHome
  <2> QED BY <2>1
<1>5. ASSUME NEW j \in Job, Generate(j) PROVE \E h2 : ReadsHome(h2)'
  <2>1. PICK lblocks \in Arrangements : kept' = lblocks
    BY <1>5 DEF Generate
  <2>2. Start(j, lblocks) /\ job[j] = "idle"
    BY <1>5, <2>1 DEF Generate
  <2>3. ReadsHome(home)'
    BY <1>2, <1>3, <2>1, <2>2, StartOnce
  <2> QED BY <2>3
<1>6. ASSUME NEW j \in Job, ReadKept(j) PROVE \E h2 : ReadsHome(h2)'
  <2> DEFINE lblocks == IF kept = NoArrangement THEN <<>> ELSE kept
  <2>1. lblocks = <<>> \/ lblocks \in Arrangements
    BY DEF IInv
  <2>2. Start(j, lblocks) /\ job[j] = "idle"
    BY <1>6 DEF ReadKept
  <2> HIDE DEF lblocks
  <2>3. ReadsHome(home)'
    BY <1>2, <1>3, <2>1, <2>2, StartOnce
  <2> QED BY <2>3
<1>7. ASSUME NEW m \in inits, TaskInit(m) PROVE \E h2 : ReadsHome(h2)'
  <2>1. PICK t : t = tasks'[m.lblock.host][TaskName(m.lblock)]
    OBVIOUS
  <2>2. ReadsHome(home)'
    BY <1>3, <1>7, <2>1, TaskOnce
  <2> QED BY <2>2
<1>8. ASSUME NEW h \in Node, FileUpdate(h) PROVE \E h2 : ReadsHome(h2)'
  BY <1>3, <1>8, UpdateOnce
<1> QED BY <1>4, <1>5, <1>6, <1>7, <1>8 DEF Next

\* With scheduler_base, as long as the file does not grow: whatever a task
\* manager has or gets is the block of its node, and a job that was started
\* with blocks has or will get every chunk.
OfBase(b) == b.host \in Node /\ b = SchedulerBase(hosts)[b.host + 1]
Complete ==
    policy = "base" /\ ~edited =>
        /\ \A m \in inits : OfBase(m.lblock)
        /\ \A n \in Node : \A b \in DOMAIN tasks[n] : OfBase(tasks[n][b])
        /\ \A j \in Job : job[j] = "sent" =>
              \/ /\ \A i \in 1 .. MaxChunks : produced[j][i] = 0
                 /\ \A m \in inits : m.job # j
              \/ \A i \in 1 .. Len(hosts) :
                    produced[j][i] = 1 \/ \E m \in inits : m.job = j /\ m.lblock.host = hosts[i]

\* No job has started at first.
LEMMA InitComplete == Init => Complete
BY DEF Init, Complete

\* The node's own chunks are the primary part of its block.
LEMMA BaseReads ==
    ASSUME NEW file \in Seq(Node), NEW i \in 1 .. Len(file)
    PROVE  \E p \in 1 .. SchedulerBase(file)[file[i] + 1].primary_chunk_num :
               SchedulerBase(file)[file[i] + 1].physical_blocks[p].chunk = i
<1> DEFINE n == file[i]
           b == SchedulerBase(file)[n + 1]
           x == Own(file, n)
<1>1. n \in Node
  OBVIOUS
<1>2. n + 1 \in 1 .. N /\ (n + 1) - 1 = n
  BY <1>1, RingAssumption DEF Node
<1>3. \A p \in 1 .. b.primary_chunk_num : b.physical_blocks[p] = x.physical_blocks[p]
  BY <1>2, BaseLists
<1>4. b.primary_chunk_num = x.primary_chunk_num
  BY <1>2, BaseBlock
<1>5. x.primary_chunk_num = Len(x.physical_blocks) /\ Collects(x, file, n, 1, Len(file))
  BY <1>1, OwnFacts
<1> HIDE DEF b, x
<1>6. PICK p \in 1 .. Len(x.physical_blocks) : x.physical_blocks[p].chunk = i
  BY <1>5 DEF Collects
<1>7. p \in 1 .. b.primary_chunk_num /\ b.physical_blocks[p].chunk = i
  BY <1>3, <1>4, <1>5, <1>6
<1> QED BY <1>7 DEF b

\* A job starts with TASK_INITs for all blocks of the arrangement,
LEMMA StartComplete ==
    ASSUME IInv, Blocks, Complete, NEW home, ReadsHome(home),
           NEW j \in Job, job[j] = "idle", NEW lblocks,
           lblocks = <<>> \/ lblocks \in Arrangements, Start(j, lblocks)
    PROVE  Complete'
<1>1. /\ policy' = policy /\ hosts' = hosts /\ edited' = edited /\ tasks' = tasks
      /\ produced' = produced /\ inits' = inits \cup Inits(j, lblocks)
  BY DEF Start, Config
<1> SUFFICES ASSUME policy = "base", ~edited PROVE Complete'
  BY <1>1 DEF Complete
<1>2. /\ \A m \in inits : OfBase(m.lblock)
      /\ \A n \in Node : \A b \in DOMAIN tasks[n] : OfBase(tasks[n][b])
      /\ \A x \in Job : job[x] = "sent" =>
            \/ /\ \A i \in 1 .. MaxChunks : produced[x][i] = 0
               /\ \A m \in inits : m.job # x
            \/ \A i \in 1 .. Len(hosts) :
                  produced[x][i] = 1 \/ \E m \in inits : m.job = x /\ m.lblock.host = hosts[i]
  BY DEF Complete
<1>3. hosts \in Seq(Node) /\ \A m \in inits : m.job # j
  BY DEF IInv, Blocks
<1>4. lblocks = <<>> \/ lblocks = SchedulerBase(hosts)
  BY DEF Arrangements
<1>5. DOMAIN SchedulerBase(hosts) = 1 .. N
      /\ \A k \in 1 .. N : SchedulerBase(hosts)[k].host = k - 1 /\ k - 1 \in Node
  <2>1. DOMAIN SchedulerBase(hosts) = 1 .. N
    BY DEF SchedulerBase
  <2> QED BY <1>3, <2>1, BaseBlock
<1>6. ASSUME NEW m \in Inits(j, lblocks) PROVE m.job = j /\ OfBase(m.lblock)
  <2>1. PICK k \in DOMAIN lblocks : m = [job |-> j, lblock |-> lblocks[k]]
    BY DEF Inits
  <2>2. lblocks = SchedulerBase(hosts) /\ k \in 1 .. N
    <3>1. lblocks = <<>> => DOMAIN lblocks = {}
      BY ONLY TRUE
    <3>2. lblocks # <<>>
      BY <2>1, <3>1
    <3> QED BY <1>4, <1>5, <2>1, <3>2
  <2>3. m.lblock = SchedulerBase(hosts)[k] /\ m.lblock.host = k - 1 /\ k - 1 \in Node
    BY <1>5, <2>1, <2>2
  <2>4. m.lblock.host + 1 = k
    BY <2>2, <2>3
  <2> QED BY <2>1, <2>3, <2>4 DEF OfBase
<1>7. ASSUME job'[j] = "sent"
      PROVE  \/ /\ \A i \in 1 .. MaxChunks : produced[j][i] = 0
                /\ \A m \in inits' : m.job # j
             \/ \A i \in 1 .. Len(hosts) : \E m \in inits' : m.job = j /\ m.lblock.host = hosts[i]
  <2>1. CASE lblocks = <<>>
    <3>1. Inits(j, lblocks) = {}
      BY <2>1 DEF Inits
    <3> QED BY <1>1, <1>3, <3>1 DEF ReadsHome
  <2>2. CASE lblocks = SchedulerBase(hosts)
    <3>1. \A k \in DOMAIN lblocks : HasName(lblocks[k])
      BY <1>7 DEF Start, Blocks
    <3>2. ASSUME NEW i \in 1 .. Len(hosts)
          PROVE  \E m \in inits' : m.job = j /\ m.lblock.host = hosts[i]
      <4> DEFINE k == hosts[i] + 1
                 m == [job |-> j, lblock |-> lblocks[k]]
      <4>1. hosts[i] \in Node
        BY <1>3
      <4>2. k \in 1 .. N /\ k - 1 = hosts[i]
        BY <4>1, RingAssumption DEF Node
      <4>3. \A x \in 1 .. k : x \in DOMAIN lblocks
        BY <1>5, <2>2, <4>2, RingAssumption
      <4>4. k \in DOMAIN lblocks /\ \A x \in 1 .. k : HasName(lblocks[x])
        BY <1>5, <2>2, <3>1, <4>2, <4>3
      <4>5. m \in Inits(j, lblocks)
        BY <4>4 DEF Inits
      <4>6. m.job = j /\ m.lblock.host = hosts[i]
        BY <1>5, <2>2, <4>2
      <4> HIDE DEF m
      <4> QED BY <1>1, <4>5, <4>6
    <3> QED BY <3>2
  <2> QED BY <1>4, <2>1, <2>2
<1>8. ASSUME NEW x \in Job, job'[x] = "sent"
      PROVE  \/ /\ \A i \in 1 .. MaxChunks : produced[x][i] = 0
                /\ \A m \in inits' : m.job # x
             \/ \A i \in 1 .. Len(hosts) :
                   produced[x][i] = 1 \/ \E m \in inits' : m.job = x /\ m.lblock.host = hosts[i]
  <2>1. CASE x = j
    BY <1>7, <1>8, <2>1
  <2>2. CASE x # j
    <3>1. job[x] = "sent"
      BY <1>8, <2>2 DEF Start, Blocks
    <3>2. inits \subseteq inits' /\ \A m \in inits' : m.job = x => m \in inits
      BY <1>1, <1>6, <2>2
    <3> QED BY <1>2, <3>1, <3>2
  <2> QED BY <2>1, <2>2
<1>9. \A m \in inits' : OfBase(m.lblock)
  BY <1>1, <1>2, <1>6
<1> QED BY <1>1, <1>2, <1>8, <1>9 DEF Complete, OfBase

\* and a TASK_INIT gives the chunks of its block to the job.
LEMMA TaskComplete ==
    ASSUME IInv, Blocks, Complete, NEW home, ReadsHome(home), NEW m \in inits, TaskInit(m)
    PROVE  Complete'
<1> DEFINE n == m.lblock.host
<1>1. PICK t : t = tasks'[n][TaskName(m.lblock)]
  OBVIOUS
<1>2. /\ UNCHANGED <<policy, hosts, edited, job>> /\ inits' = inits \ {m}
      /\ tasks' = [tasks EXCEPT ![n] = Entered(@, m.lblock)]
  BY DEF TaskInit, Config
<1> SUFFICES ASSUME policy = "base", ~edited PROVE Complete'
  BY <1>2 DEF Complete
<1>3. /\ \A l \in inits : OfBase(l.lblock)
      /\ \A x \in Node : \A b \in DOMAIN tasks[x] : OfBase(tasks[x][b])
      /\ \A j \in Job : job[j] = "sent" =>
            \/ /\ \A i \in 1 .. MaxChunks : produced[j][i] = 0
               /\ \A l \in inits : l.job # j
            \/ \A i \in 1 .. Len(hosts) :
                  produced[j][i] = 1 \/ \E l \in inits : l.job = j /\ l.lblock.host = hosts[i]
  BY DEF Complete
<1>4. n \in Node /\ m.job \in Job /\ DOMAIN tasks = Node /\ hosts \in Seq(Node)
      /\ Len(hosts) \in 1 .. MaxChunks
  BY DEF Blocks, Sound, IInv
<1>5. /\ Sound(t, hosts) /\ t.host = n
      /\ t = m.lblock \/ \E b \in DOMAIN tasks[n] : t = tasks[n][b]
  BY <1>1, ReadFrom
<1>6. /\ ReadsHome(home)' /\ Mine(t, home)
      /\ \A j \in Job : \A i \in 1 .. MaxChunks :
            produced'[j][i] = IF j = m.job THEN produced[j][i] + Count(t, i) ELSE produced[j][i]
  BY <1>1, TaskOnce
<1>7. t = SchedulerBase(hosts)[n + 1]
  BY <1>3, <1>4, <1>5 DEF OfBase
<1>8. ASSUME NEW i \in 1 .. Len(hosts), hosts[i] = n PROVE Count(t, i) = 1
  <2>1. \E p \in 1 .. t.primary_chunk_num : t.physical_blocks[p].chunk = i
    BY <1>4, <1>7, <1>8, BaseReads
  <2> QED BY <1>5, <1>6, <2>1, CountFacts
<1>9. produced \in [Job -> [1 .. MaxChunks -> {0, 1}]]
      /\ produced' \in [Job -> [1 .. MaxChunks -> {0, 1}]]
  BY <1>6 DEF ReadsHome
<1>10. \A i : Count(t, i) \in {0, 1}
  BY <1>5, <1>6, CountFacts
<1>11. \A i \in 1 .. Len(hosts) : i \in 1 .. MaxChunks
  BY <1>4, ChunksAssumption
<1>12. ASSUME NEW j \in Job, job[j] = "sent"
       PROVE  \/ /\ \A i \in 1 .. MaxChunks : produced'[j][i] = 0
                 /\ \A l \in inits' : l.job # j
              \/ \A i \in 1 .. Len(hosts) :
                    produced'[j][i] = 1 \/ \E l \in inits' : l.job = j /\ l.lblock.host = hosts[i]
  <2>1. CASE j # m.job
    <3>1. \A i \in 1 .. MaxChunks : produced'[j][i] = produced[j][i]
      BY <1>6, <2>1
    <3>2. \A l \in inits : l.job = j => l \in inits'
      BY <1>2, <2>1
    <3> QED BY <1>2, <1>3, <1>11, <1>12, <3>1, <3>2
  <2>2. CASE j = m.job
    <3>1. \A i \in 1 .. Len(hosts) :
              produced[j][i] = 1 \/ \E l \in inits : l.job = j /\ l.lblock.host = hosts[i]
      BY <1>3, <1>12, <2>2
    <3>2. ASSUME NEW i \in 1 .. Len(hosts)
          PROVE  produced'[j][i] = 1 \/ \E l \in inits' : l.job = j /\ l.lblock.host = hosts[i]
      <4>1. produced'[j][i] = produced[j][i] + Count(t, i) /\ produced'[j][i] \in {0, 1}
            /\ produced[j][i] \in {0, 1} /\ Count(t, i) \in {0, 1}
        BY <1>6, <1>9, <1>10, <1>11, <2>2
      <4>2. CASE produced[j][i] = 1
        BY <4>1, <4>2
      <4>3. CASE \E l \in inits : l.job = j /\ l.lblock.host = hosts[i]
        <5>1. PICK l \in inits : l.job = j /\ l.lblock.host = hosts[i]
          BY <4>3
        <5>2. CASE l = m
          <6>1. Count(t, i) = 1
            BY <1>8, <5>1, <5>2
          <6> QED BY <4>1, <6>1
        <5>3. CASE l # m
          BY <1>2, <5>1, <5>3
        <5> QED BY <5>2, <5>3
      <4> QED BY <3>1, <4>2, <4>3
    <3> QED BY <3>2
  <2> QED BY <2>1, <2>2
<1>13. \A x \in Node : \A b \in DOMAIN tasks'[x] : OfBase(tasks'[x][b])
  <2> SUFFICES ASSUME NEW x \in Node, NEW b \in DOMAIN tasks'[x] PROVE OfBase(tasks'[x][b])
    OBVIOUS
  <2>1. tasks'[n] = Entered(tasks[n], m.lblock) /\ \A y \in Node : y # n => tasks'[y] = tasks[y]
    BY <1>2, <1>4
  <2>2. \/ b \in DOMAIN tasks[x] /\ tasks'[x][b] = tasks[x][b]
        \/ tasks'[x][b] = m.lblock
    BY <2>1 DEF Entered
  <2> QED BY <1>3, <2>2
<1>14. \A l \in inits' : OfBase(l.lblock)
  BY <1>2, <1>3
<1> QED BY <1>2, <1>12, <1>13, <1>14 DEF Complete, OfBase

\* While the file does not grow nothing that a job is to get is lost.
LEMMA CompleteStep == IInv /\ Blocks /\ Once /\ Complete /\ [Next]_vars => Complete'
<1> SUFFICES ASSUME IInv, Blocks, Once, Complete, [Next]_vars PROVE Complete'
  OBVIOUS
<1> SUFFICES ASSUME policy = "base" PROVE Complete'
  BY ConfigStays DEF Complete
<1>1. PICK home : ReadsHome(home)
  BY DEF Once
<1>2. CASE UNCHANGED vars
  BY <1>2 DEF vars, Complete, OfBase
<1>3. ASSUME NEW j \in Job, Generate(j) PROVE Complete'
  <2>1. PICK lblocks \in Arrangements : kept' = lblocks
    BY <1>3 DEF Generate
  <2>2. Start(j, lblocks) /\ job[j] = "idle"
    BY <1>3, <2>1 DEF Generate
  <2> QED BY <1>1, <2>1, <2>2, StartComplete
<1>4. ASSUME NEW j \in Job, ReadKept(j) PROVE Complete'
  <2> DEFINE lblocks == IF kept = NoArrangement THEN <<>> ELSE kept
  <2>1. lblocks = <<>> \/ lblocks \in Arrangements
    BY DEF IInv
  <2>2. Start(j, lblocks) /\ job[j] = "idle"
    BY <1>4 DEF ReadKept
  <2> HIDE DEF lblocks
  <2> QED BY <1>1, <2>1, <2>2, StartComplete
<1>5. ASSUME NEW m \in inits, TaskInit(m) PROVE Complete'
  BY <1>1, <1>5, TaskComplete
<1>6. ASSUME NEW h \in Node, FileUpdate(h) PROVE Complete'
  BY <1>6 DEF FileUpdate, Complete
<1> QED BY <1>2, <1>3, <1>4, <1>5, <1>6 DEF Next

\* The invariant of JobReadsOnce.
LEMMA ReadsAlways == Spec => [](IInv /\ Blocks /\ Once /\ Complete)
<1>1. Init => IInv /\ Blocks /\ Once /\ Complete
  BY IInvInit, InitBlocks, InitOnce, InitComplete
<1>2. IInv /\ Blocks /\ Once /\ Complete /\ [Next]_vars => (IInv /\ Blocks /\ Once /\ Complete)'
  BY IInvStep, BlocksStep, OnceStep, CompleteStep
<1> QED BY <1>1, <1>2, PTL DEF Spec

\* JobReadsOnce for every number of jobs: each chunk has one home, decided by the
\* chunks up to it alone, so growing the file moves none that a table knows of.
THEOREM JobReadsOnceAlways == Spec => []JobReadsOnce
<1>1. ASSUME IInv, Blocks, Once, Complete PROVE JobReadsOnce
  <2> SUFFICES ASSUME policy = "base" \/ cores = 1, NEW j \in Job, NEW i \in DOMAIN hosts
               PROVE  /\ produced[j][i] <= 1
                      /\ policy = "base" /\ Finished(j) /\ HasTasks(j) /\ ~edited => produced[j][i] = 1
    BY DEF JobReadsOnce
  <2>1. PICK home : ReadsHome(home)
    BY <1>1 DEF Once
  <2>2. DOMAIN hosts = 1 .. Len(hosts) /\ Len(hosts) \in 1 .. MaxChunks
    BY <1>1 DEF IInv
  <2>3. \A x \in DOMAIN hosts : x \in 1 .. MaxChunks
    BY <2>2, ChunksAssumption
  <2>4. produced \in [Job -> [1 .. MaxChunks -> {0, 1}]]
    BY <2>1 DEF ReadsHome
  <2>5. produced[j][i] \in {0, 1}
    BY <2>3, <2>4
  <2>6. ASSUME policy = "base", Finished(j), HasTasks(j), ~edited PROVE produced[j][i] = 1
    <3>1. PICK x \in DOMAIN hosts : produced[j][x] > 0
      BY <2>6 DEF HasTasks
    <3>2. produced[j][x] # 0 /\ x \in 1 .. MaxChunks
      BY <2>3, <3>1
    <3>3. job[j] = "sent" /\ \A m \in inits : m.job # j
      BY <2>6 DEF Finished
    <3>4. \/ (\A y \in 1 .. MaxChunks : produced[j][y] = 0) /\ \A m \in inits : m.job # j
          \/ \A y \in 1 .. Len(hosts) :
                produced[j][y] = 1 \/ \E m \in inits : m.job = j /\ m.lblock.host = hosts[y]
      BY <1>1, <2>6, <3>3 DEF Complete
    <3> QED BY <2>2, <3>2, <3>3, <3>4
  <2> QED BY <2>5, <2>6
<1> QED BY <1>1, ReadsAlways, PTL
=============================================================================
