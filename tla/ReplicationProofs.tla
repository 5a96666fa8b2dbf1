-------------------------- MODULE ReplicationProofs --------------------------
(***************************************************************************)
(* What of a replica can be relied on, for every number of nodes, every    *)
(* placement of the files, every length of the links and every order in    *)
(* which a neighbour handles what is under way. A replica is compared with *)
(* its primary after all that is still under way has been handled, so the  *)
(* proof is an induction over what links carry.                            *)
(***************************************************************************)
EXTENDS Replication, SequenceTheorems, WellFoundedInduction, TLAPS

\* What a node may hold, and what may be under way from it.
FileMap   == UNION {[S -> Contents] : S \in SUBSET Block}
MsgOf(n)  == UNION {Requests(b) : b \in {c \in Block : Primary[c] = n}}
Msg       == UNION {Requests(b) : b \in Block}

\* Induction over the naturals, with a set in place of a predicate.
LEMMA SetInduction ==
    ASSUME NEW S, 0 \in S, \A n \in Nat : n \in S => n + 1 \in S
    PROVE  Nat \subseteq S
<1> DEFINE T == {n \in Nat : n \notin S}
           R == OpToRel(<, Nat)
<1>1. IsWellFoundedOn(R, Nat)
  BY NatLessThanWellFounded
<1> SUFFICES ASSUME T # {} PROVE FALSE
  OBVIOUS
<1>2. PICK x \in T : \A y \in T : <<y, x>> \notin R
  <2> HIDE DEF T, R
  <2>1. T \subseteq Nat
    BY DEF T
  <2> QED BY <1>1, <2>1, WFMin, Zenon
<1>3. x # 0 /\ x \in Nat /\ x \notin S
  OBVIOUS
<1>4. x - 1 \in Nat /\ x - 1 \in S
  <2> SUFFICES x - 1 \notin T
    BY <1>3
  <2> SUFFICES <<x - 1, x>> \in R
    BY <1>2
  <2> QED BY <1>3 DEF OpToRel
<1> QED BY <1>3, <1>4
-----------------------------------------------------------------------------
\* g lists what a node holds after each of the first n messages.
Run(g, files, msgs, n) ==
    g = [i \in 0 .. n |-> IF i = 0 THEN files ELSE Applied(g[i - 1], msgs[i])]

\* Handling messages one by one is well defined, however many there are.
LEMMA RunExists ==
    ASSUME NEW files, NEW msgs, NEW n \in Nat
    PROVE  \E g : Run(g, files, msgs, n)
<1> DEFINE S == {k \in Nat : \E g : Run(g, files, msgs, k)}
<1>1. 0 \in S
  <2> DEFINE g == [i \in 0 .. 0 |-> files]
  <2>1. g = [i \in 0 .. 0 |-> IF i = 0 THEN files ELSE Applied(g[i - 1], msgs[i])]
    OBVIOUS
  <2> HIDE DEF g
  <2>2. Run(g, files, msgs, 0)
    BY <2>1 DEF Run
  <2> QED BY <2>2
<1>2. ASSUME NEW k \in Nat, k \in S PROVE k + 1 \in S
  <2>1. PICK g : Run(g, files, msgs, k)
    BY <1>2
  <2> DEFINE h == [i \in 0 .. k + 1 |-> IF i = k + 1 THEN Applied(g[k], msgs[k + 1]) ELSE g[i]]
  <2>2. ASSUME NEW i \in 0 .. k + 1
        PROVE  h[i] = IF i = 0 THEN files ELSE Applied(h[i - 1], msgs[i])
    <3>1. CASE i = k + 1
      <4>1. h[i - 1] = g[k] /\ h[i] = Applied(g[k], msgs[k + 1]) /\ i # 0
        BY <3>1
      <4> QED BY <3>1, <4>1
    <3>2. CASE i = 0
      BY <2>1, <3>2 DEF Run
    <3>3. CASE i # 0 /\ i # k + 1
      <4>1. i \in 0 .. k /\ i - 1 \in 0 .. k /\ h[i] = g[i] /\ h[i - 1] = g[i - 1]
        BY <3>3
      <4> HIDE DEF h
      <4>2. g[i] = Applied(g[i - 1], msgs[i])
        BY <2>1, <3>3, <4>1 DEF Run
      <4> QED BY <3>3, <4>1, <4>2
    <3> QED BY <3>1, <3>2, <3>3
  <2>3. h = [i \in 0 .. k + 1 |-> h[i]]
    OBVIOUS
  <2> HIDE DEF h
  <2>4. h = [i \in 0 .. k + 1 |-> IF i = 0 THEN files ELSE Applied(h[i - 1], msgs[i])]
    BY <2>2, <2>3
  <2> QED BY <2>4 DEF Run
<1> HIDE DEF S
<1>3. n \in S
  BY <1>1, <1>2, SetInduction
<1> QED BY <1>3 DEF S

\* and has one outcome: what local_io does depends on the files and the message.
LEMMA RunUnique ==
    ASSUME NEW files, NEW msgs, NEW n \in Nat, NEW g, NEW h,
           Run(g, files, msgs, n), Run(h, files, msgs, n)
    PROVE  g[n] = h[n]
<1> DEFINE S == {k \in Nat : k <= n => g[k] = h[k]}
<1>1. 0 \in S
  BY DEF Run
<1>2. ASSUME NEW k \in Nat, k \in S PROVE k + 1 \in S
  <2> SUFFICES ASSUME k + 1 <= n PROVE g[k + 1] = h[k + 1]
    OBVIOUS
  <2>1. g[k] = h[k] /\ k + 1 \in 0 .. n /\ k + 1 # 0 /\ (k + 1) - 1 = k
    BY <1>2
  <2>2. g[k + 1] = Applied(g[k], msgs[k + 1])
    BY <2>1 DEF Run
  <2>3. h[k + 1] = Applied(h[k], msgs[k + 1])
    BY <2>1 DEF Run
  <2> QED BY <2>1, <2>2, <2>3
<1> HIDE DEF S
<1>3. n \in S
  BY <1>1, <1>2, SetInduction
<1> QED BY <1>3 DEF S

\* Replayed is that outcome.
LEMMA ReplayedIs ==
    ASSUME NEW files, NEW msgs, Len(msgs) \in Nat, NEW g, Run(g, files, msgs, Len(msgs))
    PROVE  Replayed(files, msgs) = g[Len(msgs)]
<1> DEFINE f == CHOOSE f : f = [i \in 0 .. Len(msgs) |->
                                   IF i = 0 THEN files ELSE Applied(f[i - 1], msgs[i])]
<1>1. g = [i \in 0 .. Len(msgs) |-> IF i = 0 THEN files ELSE Applied(g[i - 1], msgs[i])]
  BY DEF Run
<1>2. f = [i \in 0 .. Len(msgs) |-> IF i = 0 THEN files ELSE Applied(f[i - 1], msgs[i])]
  BY <1>1, Zenon
<1>3. Replayed(files, msgs) = f[Len(msgs)]
  BY DEF Replayed
<1> HIDE DEF f
<1>4. Run(f, files, msgs, Len(msgs))
  BY <1>2 DEF Run
<1> QED BY <1>3, <1>4, RunUnique
-----------------------------------------------------------------------------
\* The larger of two lengths.
LEMMA MaxOfTwo ==
    ASSUME NEW a \in Nat, NEW b \in Nat
    PROVE  Max({a, b}) \in {a, b} /\ a <= Max({a, b}) /\ b <= Max({a, b})
<1>1. \E x \in {a, b} : \A y \in {a, b} : x >= y
  OBVIOUS
<1> QED BY <1>1 DEF Max

\* What the three operations of a client carry.
LEMMA MsgFields ==
    ASSUME NEW m \in Msg
    PROVE  /\ m.op \in {"INSERT", "UPDATE", "DELETE"} /\ m.name \in Block
           /\ m.op = "INSERT" => m.data \in Contents
           /\ m.op = "UPDATE" => m.pos \in 0 .. 1 /\ m.data \in [1 .. 1 -> Cell]
<1>1. PICK b \in Block : m \in Requests(b)
  BY DEF Msg
<1>2. CASE \E x \in Cell : m = Message("INSERT", b, 0, <<x>>)
  <2>1. PICK x \in Cell : m = Message("INSERT", b, 0, <<x>>)
    BY <1>2
  <2>2. <<x>> \in [1 .. 1 -> Cell \cup {Zero}]
    OBVIOUS
  <2> QED BY <2>1, <2>2 DEF Message, Contents
<1>3. CASE \E pos \in 0 .. 1, x \in Cell : m = Message("UPDATE", b, pos, <<x>>)
  <2>1. PICK pos \in 0 .. 1, x \in Cell : m = Message("UPDATE", b, pos, <<x>>)
    BY <1>3
  <2>2. <<x>> \in [1 .. 1 -> Cell]
    OBVIOUS
  <2> QED BY <2>1, <2>2 DEF Message
<1>4. CASE m = Message("DELETE", b, 0, <<>>)
  BY <1>4 DEF Message
<1>5. \/ \E x \in Cell : m = Message("INSERT", b, 0, <<x>>)
      \/ \E pos \in 0 .. 1, x \in Cell : m = Message("UPDATE", b, pos, <<x>>)
      \/ m = Message("DELETE", b, 0, <<>>)
  <2> HIDE DEF Message
  <2>1. CASE m \in {Message("INSERT", b, 0, <<x>>) : x \in Cell}
    BY <2>1
  <2>2. CASE m \in {Message("UPDATE", b, pos, <<x>>) : pos \in 0 .. 1, x \in Cell}
    BY <2>2
  <2> QED BY <1>1, <2>1, <2>2 DEF Requests
<1> QED BY <1>2, <1>3, <1>4, <1>5, Zenon

\* Local_io::update writes within the two cells of a file.
LEMMA PatchedContents ==
    ASSUME NEW data \in Contents, NEW pos \in 0 .. 1, NEW new \in [1 .. 1 -> Cell]
    PROVE  Patched(data, pos, new) \in Contents
<1>1. PICK l \in 0 .. 2 : data \in [1 .. l -> Cell \cup {Zero}]
  BY DEF Contents
<1>2. Len(data) = l /\ Len(new) = 1
  BY <1>1
<1> DEFINE top == Max({pos + Len(new), Len(data)})
<1>3. top \in 0 .. 2
  BY <1>2, MaxOfTwo
<1> HIDE DEF top
<1>4. Patched(data, pos, new) =
        [i \in 1 .. top |-> IF i \in pos + 1 .. pos + Len(new) THEN new[i - pos]
                            ELSE IF i <= Len(data) THEN data[i] ELSE Zero]
  BY DEF Patched, top
<1>5. \A i \in 1 .. top : (IF i \in pos + 1 .. pos + Len(new) THEN new[i - pos]
                            ELSE IF i <= Len(data) THEN data[i] ELSE Zero) \in Cell \cup {Zero}
  BY <1>1, <1>2, <1>3
<1>6. Patched(data, pos, new) \in [1 .. top -> Cell \cup {Zero}]
  BY <1>4, <1>5
<1> QED BY <1>3, <1>6 DEF Contents

\* No operation leaves anything but files of at most two cells.
LEMMA AppliedFile ==
    ASSUME NEW files \in FileMap, NEW m \in Msg
    PROVE  Applied(files, m) \in FileMap
<1>1. PICK S \in SUBSET Block : files \in [S -> Contents]
  BY DEF FileMap
<1>2. CASE m.op = "INSERT"
  <2>1. Applied(files, m) \in [S \cup {m.name} -> Contents]
    BY <1>1, <1>2, MsgFields DEF Applied, Written
  <2> QED BY <2>1, MsgFields DEF FileMap
<1>3. CASE m.op = "UPDATE"
  <2>1. Applied(files, m) = Updated(files, m.name, m.pos, m.data)
    BY <1>3 DEF Applied
  <2>2. m.name \in S => Patched(files[m.name], m.pos, m.data) \in Contents
    BY <1>1, <1>3, MsgFields, PatchedContents
  <2>3. Updated(files, m.name, m.pos, m.data) \in [S -> Contents]
    BY <1>1, <2>2 DEF Updated
  <2> QED BY <2>1, <2>3 DEF FileMap
<1>4. CASE m.op = "DELETE"
  <2>1. Applied(files, m) \in [S \ {m.name} -> Contents]
    BY <1>1, <1>4 DEF Applied, Removed, Restrict
  <2> QED BY <2>1 DEF FileMap
<1> QED BY <1>2, <1>3, <1>4, MsgFields

\* An operation leaves all other files alone.
LEMMA AppliedElsewhere ==
    ASSUME NEW files \in FileMap, NEW m \in Msg, NEW b, b # m.name
    PROVE  FileIn(Applied(files, m), b) = FileIn(files, b)
<1>1. PICK S \in SUBSET Block : files \in [S -> Contents]
  BY DEF FileMap
<1>2. CASE m.op = "INSERT"
  BY <1>1, <1>2 DEF Applied, Written, FileIn
<1>3. CASE m.op = "UPDATE"
  BY <1>1, <1>3 DEF Applied, Updated, FileIn
<1>4. CASE m.op = "DELETE"
  BY <1>1, <1>4 DEF Applied, Removed, Restrict, FileIn
<1> QED BY <1>2, <1>3, <1>4, MsgFields

\* What an operation makes of a file depends on that file only.
LEMMA AppliedHere ==
    ASSUME NEW files \in FileMap, NEW other \in FileMap, NEW m \in Msg,
           FileIn(files, m.name) = FileIn(other, m.name)
    PROVE  FileIn(Applied(files, m), m.name) = FileIn(Applied(other, m), m.name)
<1> DEFINE b == m.name
<1>1. PICK S \in SUBSET Block : files \in [S -> Contents]
  BY DEF FileMap
<1>2. PICK T \in SUBSET Block : other \in [T -> Contents]
  BY DEF FileMap
<1>3. (b \in S <=> b \in T) /\ (b \in S => files[b] = other[b])
  <2>1. b \in S => FileIn(files, b) = <<files[b]>>
    BY <1>1 DEF FileIn
  <2>2. b \notin S => FileIn(files, b) = <<>>
    BY <1>1 DEF FileIn
  <2>3. b \in T => FileIn(other, b) = <<other[b]>>
    BY <1>2 DEF FileIn
  <2>4. b \notin T => FileIn(other, b) = <<>>
    BY <1>2 DEF FileIn
  <2> HIDE DEF b
  <2>5. <<files[b]>> # <<>> /\ <<other[b]>> # <<>>
    OBVIOUS
  <2>6. <<files[b]>> = <<other[b]>> => files[b] = other[b]
    OBVIOUS
  <2>7. FileIn(files, b) = FileIn(other, b)
    BY DEF b
  <2> QED BY <2>1, <2>2, <2>3, <2>4, <2>5, <2>6, <2>7, Zenon
<1>4. CASE m.op = "INSERT"
  BY <1>1, <1>2, <1>4 DEF Applied, Written, FileIn
<1>5. CASE m.op = "UPDATE"
  <2>1. FileIn(Applied(files, m), b) =
          IF b \in S THEN <<Patched(files[b], m.pos, m.data)>> ELSE <<>>
    BY <1>1, <1>5 DEF Applied, Updated, FileIn
  <2>2. FileIn(Applied(other, m), b) =
          IF b \in T THEN <<Patched(other[b], m.pos, m.data)>> ELSE <<>>
    BY <1>2, <1>5 DEF Applied, Updated, FileIn
  <2> HIDE DEF b
  <2> QED BY <1>3, <2>1, <2>2 DEF b
<1>6. CASE m.op = "DELETE"
  BY <1>1, <1>2, <1>6 DEF Applied, Removed, Restrict, FileIn
<1> QED BY <1>4, <1>5, <1>6, MsgFields

\* So nodes that agree on a file agree on it after the same operation.
LEMMA AppliedAgree ==
    ASSUME NEW files \in FileMap, NEW other \in FileMap, NEW m \in Msg, NEW b,
           FileIn(files, b) = FileIn(other, b)
    PROVE  FileIn(Applied(files, m), b) = FileIn(Applied(other, m), b)
<1>1. CASE b = m.name
  BY <1>1, AppliedHere
<1>2. CASE b # m.name
  BY <1>2, AppliedElsewhere
<1> QED BY <1>1, <1>2

\* Writing the same cells at the same place again changes nothing.
LEMMA PatchedTwice ==
    ASSUME NEW data \in Contents, NEW pos \in 0 .. 1, NEW new \in [1 .. 1 -> Cell]
    PROVE  Patched(Patched(data, pos, new), pos, new) = Patched(data, pos, new)
<1>1. PICK l \in 0 .. 2 : data \in [1 .. l -> Cell \cup {Zero}]
  BY DEF Contents
<1>2. Len(data) = l /\ Len(new) = 1
  BY <1>1
<1> DEFINE top == Max({pos + 1, l})
           once == Patched(data, pos, new)
<1>3. top \in 0 .. 2 /\ pos + 1 <= top /\ l <= top
  BY MaxOfTwo
<1>4. Max({pos + 1, top}) = top
  <2> HIDE DEF top
  <2> QED BY <1>3, MaxOfTwo
<1>5. once = [i \in 1 .. top |-> IF i \in pos + 1 .. pos + 1 THEN new[i - pos]
                                 ELSE IF i <= l THEN data[i] ELSE Zero]
  BY <1>2 DEF Patched
<1> HIDE DEF top, once
<1>6. Len(once) = top
  BY <1>3, <1>5
<1>7. Patched(once, pos, new) =
        [i \in 1 .. top |-> IF i \in pos + 1 .. pos + 1 THEN new[i - pos]
                            ELSE IF i <= top THEN once[i] ELSE Zero]
  BY <1>2, <1>4, <1>6 DEF Patched
<1>8. ASSUME NEW i \in 1 .. top
      PROVE  (IF i \in pos + 1 .. pos + 1 THEN new[i - pos]
              ELSE IF i <= top THEN once[i] ELSE Zero) =
             (IF i \in pos + 1 .. pos + 1 THEN new[i - pos]
              ELSE IF i <= l THEN data[i] ELSE Zero)
  BY <1>3, <1>5
<1>9. Patched(once, pos, new) = once
  BY <1>5, <1>7, <1>8
<1> QED BY <1>9 DEF once

\* An operation handled twice in a row leaves what it left at first. Of two nodes
\* each is the right and the left neighbour of the other and gets every message twice.
LEMMA AppliedTwice ==
    ASSUME NEW files \in FileMap, NEW m \in Msg
    PROVE  FileIn(Applied(Applied(files, m), m), m.name) = FileIn(Applied(files, m), m.name)
<1>1. PICK S \in SUBSET Block : files \in [S -> Contents]
  BY DEF FileMap
<1>2. CASE m.op = "INSERT"
  BY <1>1, <1>2 DEF Applied, Written, FileIn
<1>3. CASE m.op = "UPDATE"
  <2>1. CASE m.name \notin S
    BY <1>1, <1>3, <2>1 DEF Applied, Updated, FileIn
  <2>2. CASE m.name \in S
    <3>1. Patched(Patched(files[m.name], m.pos, m.data), m.pos, m.data)
            = Patched(files[m.name], m.pos, m.data)
      BY <1>1, <1>3, <2>2, MsgFields, PatchedTwice
    <3>2. Applied(files, m) = [files EXCEPT ![m.name] = Patched(@, m.pos, m.data)]
      BY <1>1, <1>3, <2>2 DEF Applied, Updated
    <3>3. FileIn(Applied(files, m), m.name) = <<Patched(files[m.name], m.pos, m.data)>>
      BY <1>1, <2>2, <3>2 DEF FileIn
    <3>4. FileIn(Applied(Applied(files, m), m), m.name)
            = <<Patched(Patched(files[m.name], m.pos, m.data), m.pos, m.data)>>
      BY <1>1, <1>3, <2>2, <3>2 DEF FileIn, Applied, Updated
    <3> QED BY <3>1, <3>3, <3>4
  <2> QED BY <2>1, <2>2
<1>4. CASE m.op = "DELETE"
  BY <1>1, <1>4 DEF Applied, Removed, Restrict, FileIn
<1> QED BY <1>2, <1>3, <1>4, MsgFields
-----------------------------------------------------------------------------
\* Every replay has its list of intermediate stores.
LEMMA ReplayedByRun ==
    ASSUME NEW files, NEW msgs, Len(msgs) \in Nat
    PROVE  \E g : Run(g, files, msgs, Len(msgs)) /\ Replayed(files, msgs) = g[Len(msgs)]
<1>1. PICK g : Run(g, files, msgs, Len(msgs))
  BY RunExists
<1> QED BY <1>1, ReplayedIs

\* The stores of a run, one by one.
LEMMA RunStep ==
    ASSUME NEW files, NEW msgs, NEW n \in Nat, NEW g, Run(g, files, msgs, n)
    PROVE  /\ g[0] = files
           /\ \A i \in 1 .. n : g[i] = Applied(g[i - 1], msgs[i])
BY DEF Run

\* Nothing under way: nothing changes.
LEMMA ReplayedEmpty ==
    ASSUME NEW files
    PROVE  Replayed(files, <<>>) = files
<1>1. Len(<<>>) = 0
  OBVIOUS
<1>2. PICK g : Run(g, files, <<>>, 0) /\ Replayed(files, <<>>) = g[0]
  BY <1>1, ReplayedByRun
<1> QED BY <1>2, RunStep

\* send_and_replicate appends to the link: the new message is handled last.
LEMMA ReplayedAppend ==
    ASSUME NEW files, NEW msgs \in Seq(Msg), NEW m \in Msg
    PROVE  Replayed(files, Append(msgs, m)) = Applied(Replayed(files, msgs), m)
<1> DEFINE more == Append(msgs, m)
           n == Len(msgs)
<1>1. n \in Nat /\ Len(more) = n + 1 /\ more[n + 1] = m /\ \A i \in 1 .. n : more[i] = msgs[i]
  OBVIOUS
<1> HIDE DEF more, n
<1>2. PICK g : Run(g, files, more, n + 1) /\ Replayed(files, more) = g[n + 1]
  BY <1>1, ReplayedByRun
<1> DEFINE h == [i \in 0 .. n |-> g[i]]
<1>3. \A i \in 0 .. n : h[i] = IF i = 0 THEN files ELSE Applied(h[i - 1], msgs[i])
  <2>1. g[0] = files
    BY <1>1, <1>2, RunStep
  <2>2. ASSUME NEW i \in 1 .. n PROVE g[i] = Applied(g[i - 1], msgs[i])
    <3>1. i \in 1 .. n + 1 /\ more[i] = msgs[i]
      BY <1>1
    <3>2. g[i] = Applied(g[i - 1], more[i])
      BY <1>1, <1>2, <3>1, RunStep
    <3> QED BY <3>1, <3>2
  <2> QED BY <1>1, <2>1, <2>2
<1>4. h = [i \in 0 .. n |-> h[i]]
  OBVIOUS
<1>5. h[n] = g[n]
  BY <1>1
<1> HIDE DEF h
<1>6. Run(h, files, msgs, n)
  BY <1>3, <1>4 DEF Run
<1>7. Replayed(files, msgs) = h[n]
  BY <1>1, <1>6, ReplayedIs DEF n
<1>8. g[n + 1] = Applied(g[n], m)
  <2>1. n + 1 \in 1 .. n + 1 /\ (n + 1) - 1 = n
    BY <1>1
  <2>2. g[n + 1] = Applied(g[(n + 1) - 1], more[n + 1])
    BY <1>1, <1>2, <2>1, RunStep
  <2> QED BY <1>1, <2>1, <2>2
<1> QED BY <1>2, <1>5, <1>7, <1>8 DEF more

\* A node that handles a link holds files.
LEMMA ReplayedFile ==
    ASSUME NEW files \in FileMap, NEW msgs \in Seq(Msg)
    PROVE  Replayed(files, msgs) \in FileMap
<1> DEFINE n == Len(msgs)
<1>1. n \in Nat
  OBVIOUS
<1>2. PICK g : Run(g, files, msgs, n) /\ Replayed(files, msgs) = g[n]
  BY <1>1, ReplayedByRun
<1> DEFINE S == {i \in Nat : i <= n => g[i] \in FileMap}
<1>3. 0 \in S
  BY <1>1, <1>2, RunStep
<1>4. ASSUME NEW i \in Nat, i \in S PROVE i + 1 \in S
  <2> SUFFICES ASSUME i + 1 <= n PROVE g[i + 1] \in FileMap
    OBVIOUS
  <2>1. i + 1 \in 1 .. n /\ (i + 1) - 1 = i /\ g[i] \in FileMap /\ msgs[i + 1] \in Msg
    BY <1>1, <1>4
  <2>2. g[i + 1] = Applied(g[i], msgs[i + 1])
    <3> HIDE DEF n
    <3>1. \A j \in 1 .. n : g[j] = Applied(g[j - 1], msgs[j])
      BY <1>1, <1>2, RunStep
    <3> QED BY <2>1, <3>1
  <2> QED BY <2>1, <2>2, AppliedFile
<1> HIDE DEF S, n
<1>5. n \in S
  BY <1>1, <1>3, <1>4, SetInduction
<1> QED BY <1>1, <1>2, <1>5 DEF S

\* Nodes that agree on a file agree on it after the same messages, whatever else
\* they hold: a neighbour holds other primaries and other replicas, too.
LEMMA ReplayedAgree ==
    ASSUME NEW files \in FileMap, NEW other \in FileMap, NEW msgs \in Seq(Msg), NEW b,
           FileIn(files, b) = FileIn(other, b)
    PROVE  FileIn(Replayed(files, msgs), b) = FileIn(Replayed(other, msgs), b)
<1> DEFINE n == Len(msgs)
<1>1. n \in Nat
  OBVIOUS
<1>2. PICK g : Run(g, files, msgs, n) /\ Replayed(files, msgs) = g[n]
  BY <1>1, ReplayedByRun
<1>3. PICK h : Run(h, other, msgs, n) /\ Replayed(other, msgs) = h[n]
  BY <1>1, ReplayedByRun
<1> DEFINE S == {i \in Nat : i <= n => /\ g[i] \in FileMap /\ h[i] \in FileMap
                                       /\ FileIn(g[i], b) = FileIn(h[i], b)}
<1>4. 0 \in S
  <2> HIDE DEF n
  <2>1. g[0] = files
    BY <1>1, <1>2, RunStep
  <2>2. h[0] = other
    BY <1>1, <1>3, RunStep
  <2> QED BY <2>1, <2>2
<1>5. ASSUME NEW i \in Nat, i \in S PROVE i + 1 \in S
  <2> SUFFICES ASSUME i + 1 <= n
               PROVE  /\ g[i + 1] \in FileMap /\ h[i + 1] \in FileMap
                      /\ FileIn(g[i + 1], b) = FileIn(h[i + 1], b)
    OBVIOUS
  <2>1. /\ i + 1 \in 1 .. n /\ (i + 1) - 1 = i /\ msgs[i + 1] \in Msg
        /\ g[i] \in FileMap /\ h[i] \in FileMap /\ FileIn(g[i], b) = FileIn(h[i], b)
    BY <1>1, <1>5
  <2>2. g[i + 1] = Applied(g[i], msgs[i + 1]) /\ h[i + 1] = Applied(h[i], msgs[i + 1])
    <3> HIDE DEF n
    <3>1. \A j \in 1 .. n : g[j] = Applied(g[j - 1], msgs[j])
      BY <1>1, <1>2, RunStep
    <3>2. \A j \in 1 .. n : h[j] = Applied(h[j - 1], msgs[j])
      BY <1>1, <1>3, RunStep
    <3> QED BY <2>1, <3>1, <3>2
  <2> QED BY <2>1, <2>2, AppliedFile, AppliedAgree
<1> HIDE DEF S, n
<1>6. n \in S
  BY <1>1, <1>4, <1>5, SetInduction
<1> QED BY <1>1, <1>2, <1>3, <1>6 DEF S

\* The same for every file.
LEMMA AppliedAgain ==
    ASSUME NEW files \in FileMap, NEW m \in Msg, NEW b
    PROVE  FileIn(Applied(Applied(files, m), m), b) = FileIn(Applied(files, m), b)
<1>1. Applied(files, m) \in FileMap
  BY AppliedFile
<1>2. CASE b = m.name
  BY <1>2, AppliedTwice
<1>3. CASE b # m.name
  BY <1>1, <1>3, AppliedElsewhere
<1> QED BY <1>2, <1>3
\* What an INSERT or a DELETE leaves of its file depends on no earlier contents.
LEMMA RenewedAlike ==
    ASSUME NEW files \in FileMap, NEW other \in FileMap, NEW m \in Msg, Renews(m)
    PROVE  FileIn(Applied(files, m), m.name) = FileIn(Applied(other, m), m.name)
<1>1. PICK S \in SUBSET Block : files \in [S -> Contents]
  BY DEF FileMap
<1>2. PICK T \in SUBSET Block : other \in [T -> Contents]
  BY DEF FileMap
<1>3. CASE m.op = "INSERT"
  BY <1>1, <1>2, <1>3 DEF Applied, Written, FileIn
<1>4. CASE m.op = "DELETE"
  BY <1>1, <1>2, <1>4 DEF Applied, Removed, Restrict, FileIn
<1> QED BY <1>3, <1>4, MsgFields DEF Renews

\* A message taken out of the middle of what is under way.
LEMMA RemoveAtFacts ==
    ASSUME NEW S, NEW l \in Seq(S), NEW i \in 1 .. Len(l)
    PROVE  /\ RemoveAt(l, i) \in Seq(S) /\ Len(RemoveAt(l, i)) = Len(l) - 1
           /\ \A j \in 1 .. i - 1 : RemoveAt(l, i)[j] = l[j]
           /\ \A j \in i .. Len(l) - 1 : RemoveAt(l, i)[j] = l[j + 1]
<1> DEFINE before == SubSeq(l, 1, i - 1)
           behind == SubSeq(l, i + 1, Len(l))
<1>1. i \in Nat /\ Len(l) \in Nat /\ 1 <= i /\ i <= Len(l)
  OBVIOUS
<1>2. before \in Seq(S) /\ Len(before) = i - 1 /\ \A j \in 1 .. i - 1 : before[j] = l[j]
  BY <1>1
<1>3. /\ behind \in Seq(S) /\ Len(behind) = Len(l) - i
      /\ \A j \in 1 .. Len(l) - i : behind[j] = l[i + j]
  BY <1>1
<1>4. RemoveAt(l, i) = before \o behind
  BY DEF RemoveAt
<1> HIDE DEF before, behind
<1>5. /\ before \o behind \in Seq(S) /\ Len(before \o behind) = Len(before) + Len(behind)
      /\ \A j \in 1 .. Len(before) + Len(behind) :
            (before \o behind)[j] = IF j <= Len(before) THEN before[j] ELSE behind[j - Len(before)]
  BY ONLY <1>2, <1>3, ConcatProperties
<1>6. ASSUME NEW j \in 1 .. i - 1 PROVE (before \o behind)[j] = l[j]
  <2>1. j \in 1 .. Len(before) + Len(behind) /\ j <= Len(before)
    BY <1>1, <1>2, <1>3
  <2> QED BY <1>2, <1>5, <2>1
<1>7. ASSUME NEW j \in i .. Len(l) - 1 PROVE (before \o behind)[j] = l[j + 1]
  <2>1. /\ j \in 1 .. Len(before) + Len(behind) /\ ~(j <= Len(before))
        /\ j - Len(before) \in 1 .. Len(l) - i /\ i + (j - Len(before)) = j + 1
    BY <1>1, <1>2, <1>3
  <2>2. (before \o behind)[j] = behind[j - Len(before)]
    BY <1>5, <2>1
  <2>3. behind[j - Len(before)] = l[i + (j - Len(before))]
    BY <1>3, <2>1
  <2> QED BY <2>1, <2>2, <2>3
<1>8. Len(before \o behind) = Len(l) - 1
  BY <1>1, <1>2, <1>3, <1>5
<1> QED BY <1>4, <1>5, <1>6, <1>7, <1>8

\* The stores of a run over messages of clients are files.
LEMMA RunFiles ==
    ASSUME NEW files \in FileMap, NEW msgs \in Seq(Msg), NEW g, Run(g, files, msgs, Len(msgs))
    PROVE  /\ \A i \in 0 .. Len(msgs) : g[i] \in FileMap
           /\ \A i \in 1 .. Len(msgs) : msgs[i] \in Msg /\ g[i] = Applied(g[i - 1], msgs[i])
<1> DEFINE n == Len(msgs)
           S == {i \in Nat : i <= n => g[i] \in FileMap}
<1>1. n \in Nat /\ \A i \in 1 .. n : msgs[i] \in Msg
  OBVIOUS
<1> HIDE DEF n
<1>2. g[0] = files /\ \A i \in 1 .. n : g[i] = Applied(g[i - 1], msgs[i])
  BY <1>1, RunStep DEF n
<1>3. 0 \in S
  BY <1>1, <1>2
<1>4. ASSUME NEW i \in Nat, i \in S PROVE i + 1 \in S
  <2> SUFFICES ASSUME i + 1 <= n PROVE g[i + 1] \in FileMap
    OBVIOUS
  <2>1. i + 1 \in 1 .. n /\ (i + 1) - 1 = i /\ g[i] \in FileMap
    BY <1>1, <1>4
  <2>2. g[i + 1] = Applied(g[i], msgs[i + 1]) /\ msgs[i + 1] \in Msg
    BY <1>1, <1>2, <2>1
  <2> QED BY <2>1, <2>2, AppliedFile
<1> HIDE DEF S
<1>5. Nat \subseteq S
  BY <1>3, <1>4, SetInduction
<1>6. \A i \in 0 .. n : g[i] \in FileMap
  BY <1>1, <1>5 DEF S
<1> QED BY <1>1, <1>2, <1>6 DEF n

\* Messages that are not about b, from the one behind x to the one at y, leave the
\* copy of b alone.
LEMMA RunElsewhere ==
    ASSUME NEW files \in FileMap, NEW msgs \in Seq(Msg), NEW g, Run(g, files, msgs, Len(msgs)),
           NEW b, NEW y \in 0 .. Len(msgs), \A i \in 1 .. y : msgs[i].name # b
    PROVE  FileIn(g[y], b) = FileIn(files, b)
<1> DEFINE S == {i \in Nat : i <= y => FileIn(g[i], b) = FileIn(files, b)}
<1>1. /\ y \in Nat /\ Len(msgs) \in Nat /\ y <= Len(msgs)
      /\ \A i \in 0 .. Len(msgs) : g[i] \in FileMap
      /\ \A i \in 1 .. Len(msgs) : msgs[i] \in Msg /\ g[i] = Applied(g[i - 1], msgs[i])
  BY RunFiles
<1>2. 0 \in S
  BY RunStep
<1>3. ASSUME NEW i \in Nat, i \in S PROVE i + 1 \in S
  <2> SUFFICES ASSUME i + 1 <= y PROVE FileIn(g[i + 1], b) = FileIn(files, b)
    OBVIOUS
  <2>1. /\ i + 1 \in 1 .. Len(msgs) /\ i + 1 \in 1 .. y /\ (i + 1) - 1 = i /\ i \in 0 .. Len(msgs)
        /\ FileIn(g[i], b) = FileIn(files, b)
    BY <1>1, <1>3
  <2>2. g[i + 1] = Applied(g[i], msgs[i + 1]) /\ msgs[i + 1] \in Msg /\ g[i] \in FileMap
    BY <1>1, <2>1
  <2>3. b # msgs[i + 1].name
    BY <2>1
  <2> QED BY <2>1, <2>2, <2>3, AppliedElsewhere
<1> HIDE DEF S
<1>4. Nat \subseteq S
  BY <1>2, <1>3, SetInduction
<1> QED BY <1>1, <1>4 DEF S

\* A run over messages of clients.
Handled(g, files, msgs) ==
    files \in FileMap /\ msgs \in Seq(Msg) /\ Run(g, files, msgs, Len(msgs))
\* From its t-th message on the run over msgs has the messages of the other, and the
\* two agree on b there.
Meeting(g, msgs, h, rest, t, b) ==
    /\ Len(msgs) = Len(rest) + 1 /\ t \in 1 .. Len(msgs)
    /\ \A j \in t .. Len(rest) : rest[j] = msgs[j + 1]
    /\ FileIn(g[t], b) = FileIn(h[t - 1], b)
AtEnd(g, msgs, b) == FileIn(g[Len(msgs)], b)

\* Such runs agree on b at the end.
LEMMA RunsMeet ==
    ASSUME NEW files, NEW msgs, NEW g, Handled(g, files, msgs),
           NEW other, NEW rest, NEW h, Handled(h, other, rest),
           NEW t, NEW b, Meeting(g, msgs, h, rest, t, b)
    PROVE  AtEnd(g, msgs, b) = AtEnd(h, rest, b)
<1> DEFINE n == Len(rest)
           S == {i \in Nat : t <= i + 1 /\ i <= n => FileIn(g[i + 1], b) = FileIn(h[i], b)}
<1>0. /\ files \in FileMap /\ msgs \in Seq(Msg) /\ Run(g, files, msgs, Len(msgs))
      /\ other \in FileMap /\ rest \in Seq(Msg) /\ Run(h, other, rest, Len(rest))
  BY DEF Handled
<1>1. n \in Nat /\ Len(msgs) = n + 1 /\ t \in Nat /\ 1 <= t /\ t <= n + 1
  BY <1>0 DEF Meeting
<1>2. /\ \A i \in 0 .. n + 1 : g[i] \in FileMap
      /\ \A i \in 1 .. n + 1 : msgs[i] \in Msg /\ g[i] = Applied(g[i - 1], msgs[i])
  BY <1>0, <1>1, RunFiles
<1>3. /\ \A i \in 0 .. n : h[i] \in FileMap
      /\ \A i \in 1 .. n : rest[i] \in Msg /\ h[i] = Applied(h[i - 1], rest[i])
  BY <1>0, RunFiles
<1>4. (\A j \in t .. n : rest[j] = msgs[j + 1]) /\ FileIn(g[t], b) = FileIn(h[t - 1], b)
  BY DEF Meeting
<1> HIDE DEF n
<1>5. 0 \in S
  <2> SUFFICES ASSUME t <= 0 + 1 PROVE FileIn(g[0 + 1], b) = FileIn(h[0], b)
    OBVIOUS
  <2>1. t = 1 /\ t - 1 = 0 /\ 0 + 1 = 1
    BY <1>1
  <2> QED BY <1>4, <2>1
<1>6. ASSUME NEW i \in Nat, i \in S PROVE i + 1 \in S
  <2> SUFFICES ASSUME t <= (i + 1) + 1, i + 1 <= n
               PROVE  FileIn(g[(i + 1) + 1], b) = FileIn(h[i + 1], b)
    OBVIOUS
  <2>1. CASE t = (i + 1) + 1
    <3>1. t - 1 = i + 1
      BY <2>1
    <3> QED BY <1>4, <2>1, <3>1
  <2>2. CASE t <= i + 1
    <3>1. /\ i + 1 \in 1 .. n /\ i + 1 \in t .. n /\ (i + 1) - 1 = i /\ i \in 0 .. n
          /\ (i + 1) + 1 \in 1 .. n + 1 /\ ((i + 1) + 1) - 1 = i + 1 /\ i + 1 \in 0 .. n + 1
      BY <1>1, <2>2
    <3>2. FileIn(g[i + 1], b) = FileIn(h[i], b)
      BY <1>1, <1>6, <2>2, <3>1
    <3>3. h[i + 1] = Applied(h[i], rest[i + 1]) /\ h[i] \in FileMap
      BY <1>3, <3>1
    <3>4. g[(i + 1) + 1] = Applied(g[i + 1], msgs[(i + 1) + 1]) /\ g[i + 1] \in FileMap
          /\ msgs[(i + 1) + 1] \in Msg
      BY <1>2, <3>1
    <3>5. rest[i + 1] = msgs[(i + 1) + 1]
      BY <1>4, <3>1
    <3> DEFINE x == g[i + 1]
               y == h[i]
               m == msgs[(i + 1) + 1]
    <3>6. x \in FileMap /\ y \in FileMap /\ m \in Msg /\ FileIn(x, b) = FileIn(y, b)
      BY <3>2, <3>3, <3>4
    <3> HIDE DEF x, y, m
    <3>7. FileIn(Applied(x, m), b) = FileIn(Applied(y, m), b)
      BY ONLY <3>6, AppliedAgree
    <3> QED BY <3>3, <3>4, <3>5, <3>7 DEF x, y, m
  <2> QED BY <1>1, <2>1, <2>2
<1> HIDE DEF S
<1>7. n \in S
  BY <1>1, <1>5, <1>6, SetInduction
<1> QED BY <1>1, <1>7 DEF S, n, AtEnd

\* A replica handles message i of those under way. It makes no difference to its copy
\* of b, once all is handled, unless it overtakes another change of b and no change
\* behind it makes b anew.
LEMMA ReplayedWithout ==
    ASSUME NEW files \in FileMap, NEW l \in Seq(Msg), NEW i \in 1 .. Len(l), NEW b,
           l[i].name = b => ~Disorders(l, i)
    PROVE  FileIn(Replayed(Applied(files, l[i]), RemoveAt(l, i)), b) = FileIn(Replayed(files, l), b)
<1> DEFINE m == l[i]
           other == Applied(files, m)
           rest == RemoveAt(l, i)
           n == Len(rest)
<1>1. /\ rest \in Seq(Msg) /\ Len(l) = n + 1 /\ n \in Nat /\ i \in Nat /\ 1 <= i /\ i <= n + 1
      /\ \A j \in 1 .. i - 1 : rest[j] = l[j]
      /\ \A j \in i .. n : rest[j] = l[j + 1]
  <2>1. /\ rest \in Seq(Msg) /\ Len(rest) = Len(l) - 1
        /\ \A j \in 1 .. i - 1 : rest[j] = l[j]
        /\ \A j \in i .. Len(l) - 1 : rest[j] = l[j + 1]
    BY RemoveAtFacts
  <2>2. Len(l) \in Nat /\ i \in Nat /\ 1 <= i /\ i <= Len(l)
    OBVIOUS
  <2> HIDE DEF rest
  <2> QED BY <2>1, <2>2
<1>2. m \in Msg /\ other \in FileMap
  BY AppliedFile
<1> HIDE DEF rest, other
<1>3. PICK g : Run(g, files, l, Len(l)) /\ Replayed(files, l) = g[Len(l)]
  BY <1>1, ReplayedByRun
<1>4. PICK h : Run(h, other, rest, n) /\ Replayed(other, rest) = h[n]
  BY <1>1, ReplayedByRun
<1>5. /\ g[0] = files
      /\ \A j \in 0 .. n + 1 : g[j] \in FileMap
      /\ \A j \in 1 .. n + 1 : l[j] \in Msg /\ g[j] = Applied(g[j - 1], l[j])
  BY <1>1, <1>3, RunFiles, RunStep
<1>6. /\ h[0] = other
      /\ \A j \in 0 .. n : h[j] \in FileMap
      /\ \A j \in 1 .. n : rest[j] \in Msg /\ h[j] = Applied(h[j - 1], rest[j])
  BY <1>1, <1>2, <1>4, RunFiles, RunStep
<1>7. g[i] = Applied(g[i - 1], m) /\ g[i - 1] \in FileMap /\ h[i - 1] \in FileMap
  <2>1. i \in 1 .. n + 1 /\ i - 1 \in 0 .. n + 1 /\ i - 1 \in 0 .. n
    BY <1>1
  <2> QED BY <1>5, <1>6, <2>1
<1>8. \A t \in i .. n + 1 : FileIn(g[t], b) = FileIn(h[t - 1], b) => FileIn(g[n + 1], b) = FileIn(h[n], b)
  <2> SUFFICES ASSUME NEW t \in i .. n + 1, FileIn(g[t], b) = FileIn(h[t - 1], b)
               PROVE  FileIn(g[n + 1], b) = FileIn(h[n], b)
    OBVIOUS
  <2>1. t \in 1 .. Len(l) /\ \A j \in t .. Len(rest) : rest[j] = l[j + 1]
    BY <1>1
  <2>2. FileIn(g[Len(l)], b) = FileIn(h[Len(rest)], b)
    <3>1. Handled(g, files, l) /\ Handled(h, other, rest)
      BY <1>1, <1>2, <1>3, <1>4 DEF Handled
    <3>2. Meeting(g, l, h, rest, t, b)
      BY <1>1, <2>1 DEF Meeting
    <3>3. AtEnd(g, l, b) = AtEnd(h, rest, b)
      BY ONLY <3>1, <3>2, RunsMeet
    <3> QED BY <3>3 DEF AtEnd
  <2> QED BY <1>1, <2>2
<1>9. \E t \in i .. n + 1 : FileIn(g[t], b) = FileIn(h[t - 1], b)
  <2>1. CASE m.name # b
    <3>1. FileIn(h[i - 1], b) = FileIn(g[i - 1], b)
      <4> DEFINE S == {j \in Nat : j <= i - 1 => FileIn(h[j], b) = FileIn(g[j], b)}
      <4>1. 0 \in S
        BY <1>2, <1>5, <1>6, <2>1, AppliedElsewhere DEF other
      <4>2. ASSUME NEW j \in Nat, j \in S PROVE j + 1 \in S
        <5> SUFFICES ASSUME j + 1 <= i - 1 PROVE FileIn(h[j + 1], b) = FileIn(g[j + 1], b)
          OBVIOUS
        <5>1. /\ j + 1 \in 1 .. i - 1 /\ j + 1 \in 1 .. n /\ j + 1 \in 1 .. n + 1 /\ (j + 1) - 1 = j
              /\ j \in 0 .. n /\ j \in 0 .. n + 1 /\ FileIn(h[j], b) = FileIn(g[j], b)
          BY <1>1, <4>2
        <5> DEFINE x == h[j]
                   y == g[j]
                   w == l[j + 1]
        <5>2. x \in FileMap /\ y \in FileMap /\ w \in Msg /\ FileIn(x, b) = FileIn(y, b)
          BY <1>5, <1>6, <5>1
        <5>3. h[j + 1] = Applied(x, w) /\ g[j + 1] = Applied(y, w)
          BY <1>1, <1>5, <1>6, <5>1
        <5> HIDE DEF x, y, w
        <5>4. FileIn(Applied(x, w), b) = FileIn(Applied(y, w), b)
          BY ONLY <5>2, AppliedAgree
        <5> QED BY <5>3, <5>4
      <4> HIDE DEF S
      <4>3. Nat \subseteq S
        BY <4>1, <4>2, SetInduction
      <4>4. i - 1 \in Nat
        BY <1>1
      <4> QED BY <4>3, <4>4 DEF S
    <3>2. FileIn(g[i], b) = FileIn(g[i - 1], b)
      BY <1>2, <1>7, <2>1, AppliedElsewhere
    <3> QED BY <1>1, <3>1, <3>2
  <2>2. CASE m.name = b /\ \A j \in 1 .. i - 1 : l[j].name # b
    <3>1. FileIn(g[i - 1], b) = FileIn(files, b)
      <4>1. i - 1 \in 0 .. Len(l)
        BY <1>1
      <4> QED BY <1>3, <2>2, <4>1, RunElsewhere
    <3>2. FileIn(h[i - 1], b) = FileIn(other, b)
      <4>1. i - 1 \in 0 .. Len(rest) /\ \A j \in 1 .. i - 1 : rest[j].name # b
        BY <1>1, <2>2
      <4> QED BY <1>1, <1>2, <1>4, <4>1, RunElsewhere
    <3> DEFINE x == g[i - 1]
    <3>3. x \in FileMap /\ FileIn(x, b) = FileIn(files, b)
      BY <1>7, <3>1
    <3> HIDE DEF x
    <3>4. FileIn(Applied(x, m), b) = FileIn(Applied(files, m), b)
      BY <1>2, <3>3, AppliedAgree
    <3>5. FileIn(g[i], b) = FileIn(h[i - 1], b)
      BY <1>7, <3>2, <3>4 DEF x, other
    <3> QED BY <1>1, <3>5
  <2>3. CASE m.name = b /\ \E k \in i + 1 .. Len(l) : l[k].name = b /\ Renews(l[k])
    <3>1. PICK k \in i + 1 .. Len(l) : l[k].name = b /\ Renews(l[k])
      BY <2>3
    <3>2. /\ k \in 1 .. n + 1 /\ k - 1 \in 1 .. n /\ k - 1 \in i .. n /\ (k - 1) + 1 = k
          /\ k \in i .. n + 1 /\ k - 1 \in 0 .. n + 1 /\ (k - 1) - 1 \in 0 .. n
      BY <1>1
    <3> DEFINE w == l[k]
               x == g[k - 1]
               y == h[(k - 1) - 1]
    <3>3. x \in FileMap /\ y \in FileMap /\ w \in Msg /\ Renews(w) /\ w.name = b
      BY <1>5, <1>6, <3>1, <3>2
    <3>4. g[k] = Applied(x, w) /\ h[k - 1] = Applied(y, w)
      BY <1>1, <1>5, <1>6, <3>2
    <3> HIDE DEF w, x, y
    <3>5. FileIn(Applied(x, w), b) = FileIn(Applied(y, w), b)
      BY <3>3, RenewedAlike
    <3> QED BY <3>2, <3>4, <3>5
  <2> QED BY <2>1, <2>2, <2>3 DEF Disorders
<1> QED BY <1>1, <1>3, <1>4, <1>8, <1>9 DEF other, rest

-----------------------------------------------------------------------------
\* The nodes that hold the replicas of n.
Beside(n) == {LeftOf(n), RightOf(n)}

\* The modular steps of replicate_message: with two nodes or more no node is its own
\* neighbour.
LEMMA Ring ==
    ASSUME NEW n \in Node
    PROVE  /\ LeftOf(n) \in Node /\ LeftOf(n) # n
           /\ RightOf(n) \in Node /\ RightOf(n) # n
<1>1. N \in Nat /\ N >= 2 /\ n \in Nat /\ n < N
  BY NodesAssumption, RingAssumption DEF Node
<1>2. RightOf(n) = IF n + 1 = N THEN 0 ELSE n + 1
  BY <1>1 DEF RightOf
<1>3. LeftOf(n) = IF n = 0 THEN N - 1 ELSE n - 1
  BY <1>1 DEF LeftOf
<1> QED BY <1>1, <1>2, <1>3 DEF Node

\* Only the primary of a file sends operations on it.
LinksFromPrimary ==
    \A m, n \in Node : link[<<m, n>>] \in Seq(MsgOf(m))
\* No node replicates to itself.
NoLinkToItself == \A n \in Node : link[<<n, n>>] = <<>>

\* The inductive invariant. Without NoLinkToItself a primary could handle its own
\* replica message late, without LinksFromPrimary a third node could change a replica.
IInv ==
    /\ disk \in [Node -> FileMap]
    /\ link \in [Node \X Node -> Seq(Msg)]
    /\ LinksFromPrimary
    /\ NoLinkToItself
    /\ ops \in 0 .. MaxOps
    /\ disordered \subseteq Block \X Node
    /\ ReplicaCatchesUp

\* A message of n is about a file whose primary is n.
LEMMA MsgOfFacts ==
    ASSUME NEW n \in Node, NEW m \in MsgOf(n)
    PROVE  m \in Msg /\ m.name \in Block /\ Primary[m.name] = n
<1>1. PICK b \in Block : Primary[b] = n /\ m \in Requests(b)
  BY DEF MsgOf
<1>2. m.name = b
  BY <1>1 DEF Requests, Message
<1> QED BY <1>1, <1>2 DEF Msg

\* Empty disks and links.
LEMMA InitIInv == Init => IInv
<1> SUFFICES ASSUME Init PROVE IInv
  OBVIOUS
<1>1. NoFiles \in FileMap
  <2>1. NoFiles \in [{} -> Contents]
    BY DEF NoFiles
  <2> QED BY <2>1 DEF FileMap
<1>2. disk \in [Node -> FileMap] /\ link \in [Node \X Node -> Seq(Msg)]
  BY <1>1 DEF Init, BlockInit
<1>3. \A m, n \in Node : link[<<m, n>>] = <<>>
  BY DEF Init, BlockInit
<1>4. LinksFromPrimary /\ NoLinkToItself
  <2>1. \A m \in Node : <<>> \in Seq(MsgOf(m))
    OBVIOUS
  <2> QED BY <1>3, <2>1, Zenon DEF LinksFromPrimary, NoLinkToItself
<1>5. ops \in 0 .. MaxOps /\ disordered \subseteq Block \X Node
  BY MaxOpsAssumption DEF Init
<1>6. ReplicaCatchesUp
  <2> SUFFICES ASSUME NEW b \in Block, NEW v \in Beside(Primary[b]) PROVE Catches(b, v)
    BY DEF ReplicaCatchesUp, Beside
  <2>1. Primary[b] \in Node /\ v \in Node
    BY PrimaryAssumption, Ring DEF Beside
  <2>2. link[<<Primary[b], v>>] = <<>> /\ disk[v] = disk[Primary[b]]
    BY <1>3, <2>1 DEF Init, BlockInit
  <2> QED BY <2>2, ReplayedEmpty DEF Catches, FileOf
<1> QED BY <1>2, <1>4, <1>5, <1>6 DEF IInv

\* send_and_replicate touches the links to the neighbours only, and puts the message
\* on each of them once, or twice if they are the same node.
LEMMA SentFacts ==
    ASSUME link \in [Node \X Node -> Seq(Msg)], NEW n \in Node, NEW m \in Msg
    PROVE  /\ Sent(link, n, m) \in [Node \X Node -> Seq(Msg)]
           /\ \A s, v \in Node : s # n \/ v \notin Beside(n) =>
                  Sent(link, n, m)[<<s, v>>] = link[<<s, v>>]
           /\ \A v \in Beside(n) :
                  Sent(link, n, m)[<<n, v>>] \in
                     {Append(link[<<n, v>>], m), Append(Append(link[<<n, v>>], m), m)}
<1>1. <<n, LeftOf(n)>> \in Node \X Node /\ <<n, RightOf(n)>> \in Node \X Node
  BY Ring
<1> DEFINE once == [link EXCEPT ![<<n, RightOf(n)>>] = Append(@, m)]
           twice == [once EXCEPT ![<<n, LeftOf(n)>>] = Append(@, m)]
<1>2. Sent(link, n, m) = twice
  BY DEF Sent
<1>3. once \in [Node \X Node -> Seq(Msg)]
  BY <1>1
<1>4. twice \in [Node \X Node -> Seq(Msg)]
  <2> HIDE DEF once
  <2> QED BY <1>1, <1>3
<1>5. ASSUME NEW s \in Node, NEW v \in Node, s # n \/ v \notin Beside(n)
      PROVE  twice[<<s, v>>] = link[<<s, v>>]
  <2>1. <<s, v>> # <<n, RightOf(n)>> /\ <<s, v>> # <<n, LeftOf(n)>>
    BY <1>5 DEF Beside
  <2>2. <<s, v>> \in Node \X Node
    OBVIOUS
  <2>3. once[<<s, v>>] = link[<<s, v>>]
    BY <2>1, <2>2
  <2> HIDE DEF once
  <2> QED BY <1>3, <2>1, <2>2, <2>3
<1>6. ASSUME NEW v \in Beside(n)
      PROVE  twice[<<n, v>>] \in {Append(link[<<n, v>>], m), Append(Append(link[<<n, v>>], m), m)}
  <2>1. <<n, v>> \in Node \X Node
    BY Ring DEF Beside
  <2>2. once[<<n, v>>] = IF v = RightOf(n) THEN Append(link[<<n, v>>], m) ELSE link[<<n, v>>]
    BY <1>1, <2>1
  <2>3. twice[<<n, v>>] = IF v = LeftOf(n) THEN Append(once[<<n, v>>], m) ELSE once[<<n, v>>]
    <3> HIDE DEF once
    <3> QED BY <1>1, <1>3, <2>1
  <2> HIDE DEF once, twice
  <2> QED BY <2>2, <2>3 DEF Beside
<1> HIDE DEF once, twice
<1> QED BY <1>2, <1>4, <1>5, <1>6

\* A primary that changes a file and sends the change.
LEMMA ServeStep ==
    ASSUME IInv, Serve
    PROVE  IInv'
<1>0. PICK c \in Block : \E m \in Requests(c) : Request(c, m)
  BY DEF Serve
<1>1. PICK m \in Requests(c) : Request(c, m)
  BY <1>0
<1> DEFINE n == Primary[c]
<1>2. n \in Node /\ m \in MsgOf(n) /\ m \in Msg
  BY PrimaryAssumption DEF MsgOf, Msg
<1>3. /\ disk' = [disk EXCEPT ![n] = Applied(@, m)] /\ link' = Sent(link, n, m)
      /\ disordered' = IF Renews(m) THEN disordered \ ({c} \X Node) ELSE disordered
  BY <1>1 DEF Request, HandleBlock
<1>4. m.name = c /\ Primary[c] = n
  BY DEF Requests, Message
<1> HIDE DEF n
<1>5. disk' \in [Node -> FileMap]
  BY <1>2, <1>3, AppliedFile DEF IInv
<1>6. /\ link' \in [Node \X Node -> Seq(Msg)]
      /\ \A s, v \in Node : s # n \/ v \notin Beside(n) => link'[<<s, v>>] = link[<<s, v>>]
      /\ \A v \in Beside(n) :
            link'[<<n, v>>] \in {Append(link[<<n, v>>], m), Append(Append(link[<<n, v>>], m), m)}
  <2>1. link \in [Node \X Node -> Seq(Msg)]
    BY DEF IInv
  <2> DEFINE out == Sent(link, n, m)
  <2>2. /\ out \in [Node \X Node -> Seq(Msg)]
        /\ \A s, v \in Node : s # n \/ v \notin Beside(n) => out[<<s, v>>] = link[<<s, v>>]
        /\ \A v \in Beside(n) :
              out[<<n, v>>] \in {Append(link[<<n, v>>], m), Append(Append(link[<<n, v>>], m), m)}
    BY ONLY <1>2, <2>1, SentFacts
  <2>3. link' = out
    BY <1>3
  <2> HIDE DEF out
  <2> QED BY <2>2, <2>3
<1>7. LinksFromPrimary'
  <2> SUFFICES ASSUME NEW s \in Node, NEW v \in Node PROVE link'[<<s, v>>] \in Seq(MsgOf(s))
    BY DEF LinksFromPrimary
  <2>1. link[<<s, v>>] \in Seq(MsgOf(s))
    BY DEF IInv, LinksFromPrimary
  <2>2. CASE s = n /\ v \in Beside(n)
    <3>1. /\ Append(link[<<s, v>>], m) \in Seq(MsgOf(s))
          /\ Append(Append(link[<<s, v>>], m), m) \in Seq(MsgOf(s))
      BY <1>2, <2>1, <2>2
    <3>2. link'[<<s, v>>] \in {Append(link[<<s, v>>], m), Append(Append(link[<<s, v>>], m), m)}
      BY <1>6, <2>2
    <3> QED BY <3>1, <3>2
  <2>3. CASE ~(s = n /\ v \in Beside(n))
    <3>1. link'[<<s, v>>] = link[<<s, v>>]
      BY <1>6, <2>3
    <3> QED BY <2>1, <3>1
  <2> QED BY <2>2, <2>3
<1>8. NoLinkToItself'
  <2> SUFFICES ASSUME NEW v \in Node PROVE link'[<<v, v>>] = <<>>
    BY DEF NoLinkToItself
  <2>1. v # n \/ v \notin Beside(n)
    BY <1>2, Ring DEF Beside
  <2> QED BY <1>6, <2>1 DEF IInv, NoLinkToItself
<1>9. ops' \in 0 .. MaxOps /\ disordered' \subseteq Block \X Node
  BY <1>3, MaxOpsAssumption DEF Serve, IInv
<1>10. ReplicaCatchesUp'
  <2> SUFFICES ASSUME NEW b \in Block, NEW v \in Beside(Primary[b]), <<b, v>> \notin disordered'
               PROVE  FileIn(Replayed(disk'[v], link'[<<Primary[b], v>>]), b) = FileIn(disk'[Primary[b]], b)
    BY DEF ReplicaCatchesUp, Catches, FileOf, Beside, LeftOf, RightOf
  <2> DEFINE p == Primary[b]
             l == link[<<p, v>>]
  <2>1. p \in Node /\ v \in Node /\ v # p
    BY PrimaryAssumption, Ring DEF Beside
  <2>2. l \in Seq(Msg) /\ disk[v] \in FileMap /\ disk[p] \in FileMap
    BY <2>1 DEF IInv
  <2>3. (b = c /\ Renews(m)) \/ FileIn(Replayed(disk[v], l), b) = FileIn(disk[p], b)
    <3>1. ASSUME ~(b = c /\ Renews(m)) PROVE <<b, v>> \notin disordered
      BY <1>3, <2>1, <3>1
    <3> QED BY <3>1 DEF IInv, ReplicaCatchesUp, Catches, FileOf, Beside
  <2>4. v \in Beside(p)
    OBVIOUS
  <2> HIDE DEF p
  <2>5. CASE p = n
    <3>1. disk'[v] = disk[v] /\ disk'[p] = Applied(disk[p], m)
      BY <1>2, <1>3, <2>1, <2>5 DEF IInv
    <3> DEFINE X == Replayed(disk[v], l)
    <3>2. X \in FileMap
      BY <2>2, ReplayedFile
    <3>3. link'[<<p, v>>] \in {Append(l, m), Append(Append(l, m), m)}
      BY <1>6, <2>4, <2>5
    <3>4. Replayed(disk[v], Append(l, m)) = Applied(X, m)
      BY <1>2, <2>2, ReplayedAppend
    <3>5. Replayed(disk[v], Append(Append(l, m), m)) = Applied(Applied(X, m), m)
      <4>1. Append(l, m) \in Seq(Msg)
        BY <1>2, <2>2
      <4> QED BY <1>2, <3>4, <4>1, ReplayedAppend
    <3>6. FileIn(Applied(X, m), b) = FileIn(Applied(disk[p], m), b)
      <4>1. CASE b = c /\ Renews(m)
        <5> HIDE DEF X
        <5> QED BY <1>2, <1>4, <2>2, <3>2, <4>1, RenewedAlike
      <4>2. CASE FileIn(Replayed(disk[v], l), b) = FileIn(disk[p], b)
        BY <1>2, <2>2, <3>2, <4>2, AppliedAgree DEF X
      <4> QED BY <2>3, <4>1, <4>2
    <3> HIDE DEF X
    <3>7. FileIn(Applied(Applied(X, m), m), b) = FileIn(Applied(X, m), b)
      BY <1>2, <3>2, AppliedAgain
    <3> HIDE DEF l
    <3> QED BY <3>1, <3>3, <3>4, <3>5, <3>6, <3>7 DEF p
  <2>6. CASE p # n
    <3>1. link'[<<p, v>>] = l /\ disk'[p] = disk[p]
      BY <1>2, <1>3, <1>6, <2>1, <2>6 DEF IInv
    <3>2. disk'[v] = IF v = n THEN Applied(disk[v], m) ELSE disk[v]
      BY <1>2, <1>3, <2>1 DEF IInv
    <3>3. m.name # b /\ b # c
      BY <1>4, <2>6 DEF p
    <3>4. FileIn(disk'[v], b) = FileIn(disk[v], b)
      BY <1>2, <2>2, <3>2, <3>3, AppliedElsewhere
    <3>5. disk'[v] \in FileMap
      BY <1>5, <2>1
    <3> HIDE DEF l
    <3>6. FileIn(Replayed(disk'[v], l), b) = FileIn(Replayed(disk[v], l), b)
      BY <2>2, <3>4, <3>5, ReplayedAgree
    <3> QED BY <2>3, <3>1, <3>3, <3>6 DEF p
  <2> QED BY <2>5, <2>6
<1> QED BY <1>5, <1>6, <1>7, <1>8, <1>9, <1>10 DEF IInv

\* A replica that handles any one of the messages under way.
LEMMA DeliverStep ==
    ASSUME IInv, Deliver
    PROVE  IInv'
<1>0. PICK s \in Node, r \in Node : \E i \in DOMAIN link[<<s, r>>] : DeliverOne(s, r, i)
  BY DEF Deliver
<1>1. PICK i \in DOMAIN link[<<s, r>>] : DeliverOne(s, r, i)
  BY <1>0
<1> DEFINE l == link[<<s, r>>]
           m == l[i]
           rest == RemoveAt(l, i)
<1>2. /\ i \in 1 .. Len(l) /\ l \in Seq(Msg) /\ l \in Seq(MsgOf(s)) /\ s # r
  <2>1. l \in Seq(Msg) /\ l \in Seq(MsgOf(s))
    BY DEF IInv, LinksFromPrimary
  <2>2. i \in 1 .. Len(l)
    BY <2>1
  <2>3. l # <<>>
    BY <2>2
  <2> QED BY <2>1, <2>2, <2>3 DEF IInv, NoLinkToItself
<1>3. /\ disk' = [disk EXCEPT ![r] = Applied(@, m)] /\ link' = [link EXCEPT ![<<s, r>>] = RemoveAt(@, i)]
      /\ disordered' = IF Disorders(l, i) THEN disordered \cup {<<m.name, r>>} ELSE disordered
      /\ ops' = ops
  BY <1>1 DEF DeliverOne, ReceiveReplica
<1> HIDE DEF l, rest
<1>4. m \in Msg /\ m \in MsgOf(s) /\ rest \in Seq(Msg) /\ rest \in Seq(MsgOf(s))
  BY <1>2, RemoveAtFacts DEF rest
<1>5. m.name \in Block /\ Primary[m.name] = s
  BY <1>4, MsgOfFacts
<1> HIDE DEF m
<1>6. /\ disk' \in [Node -> FileMap] /\ disk'[r] = Applied(disk[r], m)
      /\ \A x \in Node : x # r => disk'[x] = disk[x]
  BY <1>3, <1>4, AppliedFile DEF IInv
<1>7. /\ link' \in [Node \X Node -> Seq(Msg)]
      /\ link'[<<s, r>>] = rest
      /\ \A x, y \in Node : x # s \/ y # r => link'[<<x, y>>] = link[<<x, y>>]
  <2>1. link \in [Node \X Node -> Seq(Msg)] /\ <<s, r>> \in Node \X Node
    BY DEF IInv
  <2>2. link' = [link EXCEPT ![<<s, r>>] = rest]
    BY <1>3, <2>1 DEF l, rest
  <2>3. link' \in [Node \X Node -> Seq(Msg)] /\ link'[<<s, r>>] = rest
    BY <1>4, <2>1, <2>2
  <2>4. ASSUME NEW x \in Node, NEW y \in Node, x # s \/ y # r
        PROVE  link'[<<x, y>>] = link[<<x, y>>]
    <3>1. <<x, y>> # <<s, r>> /\ <<x, y>> \in Node \X Node
      BY <2>4
    <3> QED BY <2>1, <2>2, <3>1
  <2> QED BY <2>3, <2>4
<1>8. LinksFromPrimary'
  <2> SUFFICES ASSUME NEW x \in Node, NEW y \in Node PROVE link'[<<x, y>>] \in Seq(MsgOf(x))
    BY DEF LinksFromPrimary
  <2>1. link[<<x, y>>] \in Seq(MsgOf(x))
    BY DEF IInv, LinksFromPrimary
  <2>2. CASE x = s /\ y = r
    BY <1>4, <1>7, <2>2
  <2>3. CASE ~(x = s /\ y = r)
    <3>1. link'[<<x, y>>] = link[<<x, y>>]
      BY <1>7, <2>3
    <3> QED BY <2>1, <3>1
  <2> QED BY <2>2, <2>3
<1>9. NoLinkToItself'
  BY <1>2, <1>7 DEF NoLinkToItself, IInv
<1>10. ops' \in 0 .. MaxOps /\ disordered' \subseteq Block \X Node
  BY <1>3, <1>5 DEF IInv
<1>11. ReplicaCatchesUp'
  <2> SUFFICES ASSUME NEW b \in Block, NEW v \in Beside(Primary[b]), <<b, v>> \notin disordered'
               PROVE  FileIn(Replayed(disk'[v], link'[<<Primary[b], v>>]), b) = FileIn(disk'[Primary[b]], b)
    BY DEF ReplicaCatchesUp, Catches, FileOf, Beside, LeftOf, RightOf
  <2> DEFINE p == Primary[b]
             k == link[<<p, v>>]
  <2>1. p \in Node /\ v \in Node /\ v # p
    BY PrimaryAssumption, Ring DEF Beside
  <2>2. k \in Seq(Msg) /\ disk[v] \in FileMap /\ disk[p] \in FileMap /\ disk'[v] \in FileMap
    BY <1>6, <2>1 DEF IInv
  <2>3. FileIn(Replayed(disk[v], k), b) = FileIn(disk[p], b)
    <3>1. <<b, v>> \notin disordered
      BY <1>3
    <3> QED BY <3>1 DEF IInv, ReplicaCatchesUp, Catches, FileOf, Beside
  <2> HIDE DEF p, k
  <2>4. CASE s = p /\ r = v
    <3>1. k = l
      BY <2>4 DEF k, l
    <3>2. FileIn(Replayed(disk[v], k), b) = FileIn(Replayed(disk'[v], link'[<<p, v>>]), b)
      <4>1. m.name = b => ~Disorders(l, i)
        BY <1>3, <2>4
      <4>2. FileIn(Replayed(Applied(disk[v], m), rest), b) = FileIn(Replayed(disk[v], l), b)
        BY <1>2, <2>2, <4>1, ReplayedWithout DEF m, rest
      <4>3. disk'[v] = Applied(disk[v], m) /\ link'[<<p, v>>] = rest
        BY <1>6, <1>7, <2>4
      <4> QED BY <3>1, <4>2, <4>3
    <3>3. disk'[p] = disk[p]
      BY <1>2, <1>6, <2>1, <2>4
    <3> QED BY <2>3, <3>2, <3>3 DEF p
  <2>5. CASE s = p /\ r # v
    <3>1. disk'[p] = disk[p] /\ disk'[v] = disk[v] /\ link'[<<p, v>>] = k
      BY <1>2, <1>6, <1>7, <2>1, <2>5 DEF k
    <3> QED BY <2>3, <3>1 DEF p
  <2>6. CASE s # p
    <3>1. m.name # b
      BY <1>5, <2>6 DEF p
    <3>2. link'[<<p, v>>] = k
      BY <1>7, <2>1, <2>6 DEF k
    <3>3. FileIn(disk'[v], b) = FileIn(disk[v], b) /\ FileIn(disk'[p], b) = FileIn(disk[p], b)
      BY <1>4, <1>6, <2>1, <2>2, <3>1, AppliedElsewhere
    <3>4. FileIn(Replayed(disk'[v], k), b) = FileIn(Replayed(disk[v], k), b)
      BY <2>2, <3>3, ReplayedAgree
    <3> QED BY <2>3, <3>2, <3>3, <3>4 DEF p
  <2> QED BY <2>4, <2>5, <2>6
<1> QED BY <1>6, <1>7, <1>8, <1>9, <1>10, <1>11 DEF IInv

\* Nothing happens.
LEMMA IdleStep ==
    ASSUME IInv, UNCHANGED vars
    PROVE  IInv'
BY DEF IInv, vars, LinksFromPrimary, NoLinkToItself, ReplicaCatchesUp, Catches, FileOf, FileIn

\* Every step keeps the inductive invariant.
LEMMA StepIInv == IInv /\ [Next]_vars => IInv'
<1> SUFFICES ASSUME IInv, [Next]_vars PROVE IInv'
  OBVIOUS
<1>1. CASE Serve
  BY <1>1, ServeStep
<1>2. CASE Deliver
  BY <1>2, DeliverStep
<1>3. CASE Idle
  BY <1>3, IdleStep DEF Idle
<1>4. CASE UNCHANGED vars
  BY <1>4, IdleStep
<1> QED BY <1>1, <1>2, <1>3, <1>4 DEF Next

\* The inductive invariant holds in every reachable state of the block nodes.
THEOREM Invariance == Spec => []IInv
<1>1. Init => IInv
  BY InitIInv
<1>2. IInv /\ [Next]_vars => IInv'
  BY StepIInv
<1> QED BY <1>1, <1>2, PTL DEF Spec

\* Type correctness: disks hold files of at most two cells, links carry the three
\* operations of io_operation, and the operations are counted.
THEOREM TypeCorrect == Spec => []TypeOK
<1>1. IInv => TypeOK
  <2> SUFFICES ASSUME IInv PROVE TypeOK
    OBVIOUS
  <2>1. ASSUME NEW n \in Node
        PROVE  DOMAIN disk[n] \subseteq Block /\ \A b \in DOMAIN disk[n] : disk[n][b] \in Contents
    <3>1. disk[n] \in FileMap
      BY DEF IInv
    <3>2. PICK S \in SUBSET Block : disk[n] \in [S -> Contents]
      BY <3>1 DEF FileMap
    <3> QED BY <3>2
  <2>2. ASSUME NEW e \in Node \X Node, NEW i \in DOMAIN link[e]
        PROVE  link[e][i].op \in {"INSERT", "UPDATE", "DELETE"} /\ link[e][i].name \in Block
    <3>1. link[e] \in Seq(Msg)
      BY DEF IInv
    <3>2. link[e][i] \in Msg
      BY <3>1
    <3> QED BY <3>2, MsgFields
  <2> QED BY <2>1, <2>2 DEF TypeOK, IInv
<1> QED BY <1>1, Invariance, PTL

\* A neighbour that has handled no change of a file too late is behind its primary by
\* exactly what is still under way, in whatever order the rest has come; an INSERT or
\* a DELETE brings a neighbour back that has.
THEOREM CatchesUp == Spec => []ReplicaCatchesUp
<1>1. IInv => ReplicaCatchesUp
  BY DEF IInv
<1> QED BY <1>1, Invariance, PTL

\* Such a replica equals its primary as soon as nothing is under way to it.
THEOREM QuietIsEqual ==
    Spec => [](\A b \in Block : \A v \in Beside(Primary[b]) :
                   link[<<Primary[b], v>>] = <<>> /\ <<b, v>> \notin disordered
                       => FileOf(v, b) = FileOf(Primary[b], b))
<1> DEFINE Quiet == \A b \in Block : \A v \in Beside(Primary[b]) :
                       link[<<Primary[b], v>>] = <<>> /\ <<b, v>> \notin disordered
                           => FileOf(v, b) = FileOf(Primary[b], b)
<1>1. IInv => Quiet
  BY ReplayedEmpty DEF IInv, ReplicaCatchesUp, Catches, FileOf, Beside
<1> HIDE DEF Quiet
<1>2. Spec => []Quiet
  BY <1>1, Invariance, PTL
<1> QED BY <1>2 DEF Quiet
==============================================================================
