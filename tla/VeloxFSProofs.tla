----------------------------- MODULE VeloxFSProofs -----------------------------
(***************************************************************************)
(* Proofs about VeloxFS, for any number of nodes, files, clients, calls,   *)
(* chunks and crashes: what the operators on the tables compute, then what *)
(* a description says of a removed file, what is kept of arrangements,     *)
(* types, what a download reads, and what a removal leaves on the disks.   *)
(***************************************************************************)
EXTENDS VeloxFS, SequenceTheorems, FiniteSetTheorems, WellFoundedInduction, TLAPS

(* Loops.                                                                  *)

\* Induction, with a set in place of a predicate.
LEMMA SetInduction ==
    ASSUME NEW S, 0 \in S, \A n \in Nat : n \in S => n + 1 \in S
    PROVE  Nat \subseteq S
<1> DEFINE T == {n \in Nat : n \notin S}
           R == OpToRel(<, Nat)
<1>1. IsWellFoundedOn(R, Nat)
  BY NatLessThanWellFounded
<1> SUFFICES ASSUME T # {} PROVE FALSE
  OBVIOUS
<1>2. PICK x \in T : \A y \in T : <<y, x>> \notin R
  <2> HIDE DEF T, R
  <2>1. T \subseteq Nat
    BY DEF T
  <2> QED BY <1>1, <2>1, WFMin, Zenon
<1>3. x # 0 /\ x \in Nat /\ x \notin S
  OBVIOUS
<1>4. x - 1 \in Nat /\ x - 1 \in S
  <2> SUFFICES x - 1 \notin T
    BY <1>3
  <2> SUFFICES <<x - 1, x>> \in R
    BY <1>2
  <2> QED BY <1>3 DEF OpToRel
<1> QED BY <1>3, <1>4

\* What holds before a loop of n rounds and is kept by each holds after it.
LEMMA UpTo ==
    ASSUME NEW n \in Nat, NEW T, 0 \in T, \A i \in 1 .. n : i - 1 \in T => i \in T
    PROVE  0 .. n \subseteq T
<1> DEFINE S == {k \in Nat : k <= n => k \in T}
<1>1. 0 \in S
  OBVIOUS
<1>2. ASSUME NEW k \in Nat, k \in S PROVE k + 1 \in S
  <2> SUFFICES ASSUME k + 1 <= n PROVE k + 1 \in T
    OBVIOUS
  <2>1. k \in T /\ k + 1 \in 1 .. n /\ (k + 1) - 1 = k
    BY <1>2
  <2> QED BY <2>1
<1> HIDE DEF S
<1>3. Nat \subseteq S
  BY <1>1, <1>2, SetInduction
<1> QED BY <1>3 DEF S

\* A loop of n rounds, each of which makes a state of S from one.
Rounds(step, S, n) == step \in [S \X (1 .. n) -> S]
Run(g, base, step, S, n) ==
    g \in [0 .. n -> S] /\ g[0] = base /\ \A i \in 1 .. n : g[i] = step[<<g[i - 1], i>>]

\* A loop of which every round is defined runs through.
LEMMA Loop ==
    ASSUME NEW S, NEW base \in S, NEW n \in Nat, NEW step, Rounds(step, S, n)
    PROVE  \E g : Run(g, base, step, S, n)
<1> USE DEF Rounds
<1> DEFINE Upto(k) == \E g \in [0 .. k -> S] :
               g[0] = base /\ \A i \in 1 .. k : g[i] = step[<<g[i - 1], i>>]
           T == {k \in Nat : Upto(k)}
<1>1. 0 \in T
  <2> DEFINE g == [i \in 0 .. 0 |-> base]
  <2>1. g \in [0 .. 0 -> S] /\ g[0] = base /\ \A i \in 1 .. 0 : g[i] = step[<<g[i - 1], i>>]
    OBVIOUS
  <2> HIDE DEF g
  <2> QED BY <2>1
<1>2. ASSUME NEW k \in 1 .. n, k - 1 \in T PROVE k \in T
  <2>1. PICK g \in [0 .. k - 1 -> S] :
               g[0] = base /\ \A i \in 1 .. k - 1 : g[i] = step[<<g[i - 1], i>>]
    BY <1>2
  <2> DEFINE h == [i \in 0 .. k |-> IF i = k THEN step[<<g[k - 1], k>>] ELSE g[i]]
  <2>2. step[<<g[k - 1], k>>] \in S
    OBVIOUS
  <2>3. h \in [0 .. k -> S] /\ h[0] = base
    BY <2>1, <2>2
  <2>4. ASSUME NEW i \in 1 .. k PROVE h[i] = step[<<h[i - 1], i>>]
    <3>1. CASE i = k
      <4>1. i - 1 \in 0 .. k /\ i - 1 # k /\ h[i - 1] = g[k - 1]
        BY <3>1
      <4>2. h[i] = step[<<g[k - 1], k>>]
        BY <3>1
      <4> HIDE DEF h
      <4> QED BY <3>1, <4>1, <4>2
    <3>2. CASE i # k
      <4>1. i \in 1 .. k - 1 /\ i - 1 \in 0 .. k - 1 /\ h[i] = g[i] /\ h[i - 1] = g[i - 1]
        BY <3>2
      <4> QED BY <2>1, <4>1
    <3> QED BY <3>1, <3>2
  <2> HIDE DEF h
  <2>5. Upto(k)
    BY <2>3, <2>4
  <2> HIDE DEF Upto
  <2> QED BY <2>5
<1> HIDE DEF T
<1>3. n \in T
  BY <1>1, <1>2, UpTo
<1> HIDE DEF Upto
<1>4. Upto(n)
  BY <1>3 DEF T
<1> QED BY <1>4 DEF Upto, Run
-----------------------------------------------------------------------------
(* What a WHERE leaves.                                                    *)

\* The rounds of Only: one more row is looked at in each.
Looked(g, rows, S, T) ==
    /\ g \in [0 .. Len(rows) -> Seq(T)] /\ g[0] = <<>>
    /\ \A i \in 1 .. Len(rows) :
           g[i] = IF rows[i] \in S THEN Append(g[i - 1], rows[i]) ELSE g[i - 1]

\* What Only computes is what its rounds compute.
LEMMA OnlyLoop ==
    ASSUME NEW T, NEW rows \in Seq(T), NEW S
    PROVE  \E g : Looked(g, rows, S, T) /\ Only(rows, S) = g[Len(rows)]
<1> DEFINE len == Len(rows)
           Next1(b, i) == IF rows[i] \in S THEN Append(b, rows[i]) ELSE b
           step == [z \in Seq(T) \X (1 .. len) |-> Next1(z[1], z[2])]
<1>1. len \in Nat /\ \A i \in 1 .. len : rows[i] \in T
  OBVIOUS
<1> HIDE DEF len
<1>2. ASSUME NEW b \in Seq(T), NEW i \in 1 .. len PROVE Next1(b, i) \in Seq(T)
  BY <1>1
<1> HIDE DEF Next1
<1>3. step \in [Seq(T) \X (1 .. len) -> Seq(T)]
      /\ \A b \in Seq(T) : \A i \in 1 .. len : step[<<b, i>>] = Next1(b, i)
  BY <1>2
<1> HIDE DEF step
<1>4. <<>> \in Seq(T)
  OBVIOUS
<1>5. PICK g \in [0 .. len -> Seq(T)] :
          g[0] = <<>> /\ \A i \in 1 .. len : g[i] = step[<<g[i - 1], i>>]
  <2>1. Rounds(step, Seq(T), len)
    BY <1>3 DEF Rounds
  <2>2. \E g : Run(g, <<>>, step, Seq(T), len)
    BY ONLY <1>1, <1>4, <2>1, Loop, Zenon
  <2> QED BY <2>2 DEF Run
<1> DEFINE Round(r) == [i \in 0 .. len |-> IF i = 0 THEN <<>> ELSE Next1(r[i - 1], i)]
           f == CHOOSE f : f = Round(f)
<1>6. g = Round(g)
  <2>1. ASSUME NEW i \in 0 .. len
        PROVE  g[i] = IF i = 0 THEN <<>> ELSE Next1(g[i - 1], i)
    <3>1. CASE i # 0
      <4>1. i \in 1 .. len /\ i - 1 \in 0 .. len
        BY <1>1, <3>1
      <4> QED BY <1>3, <1>5, <3>1, <4>1
    <3> QED BY <1>5, <3>1
  <2>2. g = [i \in 0 .. len |-> g[i]]
    OBVIOUS
  <2> QED BY <2>1, <2>2
<1>7. f = Round(f)
  <2> HIDE DEF Round
  <2> QED BY <1>6, Zenon
<1>8. Only(rows, S) = f[len]
  BY DEF Only, Next1, len
<1> HIDE DEF f
<1>9. \A i \in 0 .. len : f[i] = g[i]
  <2> DEFINE U == {i \in 0 .. len : f[i] = g[i]}
  <2>1. 0 \in U
    BY <1>1, <1>5, <1>7
  <2>2. ASSUME NEW i \in 1 .. len, i - 1 \in U PROVE i \in U
    <3>1. i \in 0 .. len /\ i # 0
      BY <1>1
    <3>2. f[i] = Next1(f[i - 1], i) /\ g[i] = Next1(g[i - 1], i)
      <4>1. f[i] = Next1(f[i - 1], i)
        BY <1>7, <3>1
      <4>2. g[i] = Next1(g[i - 1], i)
        BY <1>6, <3>1
      <4> QED BY <4>1, <4>2
    <3> QED BY <2>2, <3>1, <3>2
  <2> HIDE DEF U
  <2>3. 0 .. len \subseteq U
    BY ONLY <1>1, <2>1, <2>2, UpTo
  <2> QED BY <2>3 DEF U
<1>10. Looked(g, rows, S, T)
  <2>1. \A i \in 1 .. len : g[i] = Next1(g[i - 1], i)
    <3> SUFFICES ASSUME NEW i \in 1 .. len PROVE g[i] = Next1(g[i - 1], i)
      OBVIOUS
    <3>1. i \in 0 .. len /\ i # 0
      BY <1>1
    <3> QED BY <1>6, <3>1
  <2> QED BY <1>5, <2>1 DEF Looked, len, Next1
<1>11. Only(rows, S) = g[len]
  BY <1>1, <1>8, <1>9
<1> QED BY <1>10, <1>11 DEF len

\* Nothing is left of an empty table.
LEMMA OnlyOfNone == ASSUME NEW S PROVE Only(<<>>, S) = <<>>
<1> DEFINE T == {}
<1>1. <<>> \in Seq(T) /\ Len(<<>>) = 0
  OBVIOUS
<1> HIDE DEF T
<1>2. PICK g : Looked(g, <<>>, S, T) /\ Only(<<>>, S) = g[Len(<<>>)]
  BY ONLY <1>1, OnlyLoop
<1> QED BY <1>1, <1>2 DEF Looked

\* What is left of a table depends on which of its rows are asked for.
LEMMA OnlySame ==
    ASSUME NEW T, NEW rows \in Seq(T), NEW S, NEW Q,
           \A x \in 1 .. Len(rows) : rows[x] \in S <=> rows[x] \in Q
    PROVE  Only(rows, S) = Only(rows, Q)
<1>1. PICK g : Looked(g, rows, S, T) /\ Only(rows, S) = g[Len(rows)]
  BY OnlyLoop
<1>2. PICK h : Looked(h, rows, Q, T) /\ Only(rows, Q) = h[Len(rows)]
  BY OnlyLoop
<1> DEFINE U == {i \in 0 .. Len(rows) : g[i] = h[i]}
<1>3. 0 \in U
  BY <1>1, <1>2 DEF Looked
<1>4. ASSUME NEW i \in 1 .. Len(rows), i - 1 \in U PROVE i \in U
  BY <1>1, <1>2, <1>4 DEF Looked
<1>5. Len(rows) \in Nat
  OBVIOUS
<1> HIDE DEF U
<1>6. 0 .. Len(rows) \subseteq U
  BY ONLY <1>3, <1>4, <1>5, UpTo
<1> QED BY <1>1, <1>2, <1>5, <1>6 DEF U

\* One more row.
LEMMA OnlyAppend ==
    ASSUME NEW T, NEW rows \in Seq(T), NEW r \in T, NEW S
    PROVE  Only(Append(rows, r), S) =
               IF r \in S THEN Append(Only(rows, S), r) ELSE Only(rows, S)
<1> DEFINE more == Append(rows, r)
           n == Len(rows)
<1>1. /\ more \in Seq(T) /\ n \in Nat /\ Len(more) = n + 1 /\ more[n + 1] = r
      /\ \A i \in 1 .. n : more[i] = rows[i] /\ i \in 1 .. n + 1
  OBVIOUS
<1> HIDE DEF more
<1>2. PICK g : Looked(g, rows, S, T) /\ Only(rows, S) = g[Len(rows)]
  BY OnlyLoop
<1>3. PICK h : Looked(h, more, S, T) /\ Only(more, S) = h[Len(more)]
  BY <1>1, OnlyLoop
<1> DEFINE U == {i \in 0 .. n : g[i] = h[i]}
<1>4. 0 \in U
  BY <1>1, <1>2, <1>3 DEF Looked
<1>5. ASSUME NEW i \in 1 .. n, i - 1 \in U PROVE i \in U
  <2>1. h[i] = IF more[i] \in S THEN Append(h[i - 1], more[i]) ELSE h[i - 1]
    BY <1>1, <1>3 DEF Looked
  <2>2. g[i] = IF rows[i] \in S THEN Append(g[i - 1], rows[i]) ELSE g[i - 1]
    BY <1>2 DEF Looked
  <2> QED BY <1>1, <1>5, <2>1, <2>2
<1> HIDE DEF U
<1>6. 0 .. n \subseteq U
  BY ONLY <1>1, <1>4, <1>5, UpTo
<1>7. g[n] = h[n]
  BY <1>1, <1>6 DEF U
<1> HIDE DEF n
<1>8. h[n + 1] = IF r \in S THEN Append(h[n], r) ELSE h[n]
  <2>1. n + 1 \in 1 .. Len(more) /\ (n + 1) - 1 = n
    BY <1>1
  <2> QED BY <1>1, <1>3, <2>1 DEF Looked
<1> QED BY <1>1, <1>2, <1>3, <1>7, <1>8 DEF n, more

\* The rows that are left, and what is left of those by a second WHERE.
LEMMA OnlyFacts ==
    ASSUME NEW T, NEW rows \in Seq(T), NEW S
    PROVE  /\ Only(rows, S) \in Seq(T)
           /\ \A r : r \in Range(Only(rows, S)) <=> r \in Range(rows) /\ r \in S
           /\ \A Q : Only(Only(rows, S), Q) = Only(rows, S \cap Q)
<1>1. PICK g : Looked(g, rows, S, T) /\ Only(rows, S) = g[Len(rows)]
  BY OnlyLoop
<1> DEFINE n == Len(rows)
<1>2. n \in Nat /\ \A i \in 1 .. n : rows[i] \in T
  OBVIOUS
<1>3. Only(rows, S) \in Seq(T)
  BY <1>1, <1>2 DEF Looked
<1>4. \A r : r \in Range(Only(rows, S)) <=> r \in Range(rows) /\ r \in S
  <2> DEFINE U == {i \in 0 .. n : \A r : r \in Range(g[i]) <=> r \in S /\ \E y \in 1 .. i : rows[y] = r}
  <2>1. 0 \in U
    BY <1>1 DEF Looked, Range
  <2>2. ASSUME NEW i \in 1 .. n, i - 1 \in U PROVE i \in U
    <3>1. g[i - 1] \in Seq(T) /\ i - 1 \in 0 .. n /\ rows[i] \in T
          /\ g[i] = IF rows[i] \in S THEN Append(g[i - 1], rows[i]) ELSE g[i - 1]
      BY <1>1, <1>2 DEF Looked
    <3>2. \A r : r \in Range(Append(g[i - 1], rows[i])) <=> r \in Range(g[i - 1]) \/ r = rows[i]
      <4> DEFINE s == g[i - 1]
                 m == Len(s)
      <4>1. m \in Nat /\ DOMAIN s = 1 .. m /\ DOMAIN Append(s, rows[i]) = 1 .. m + 1
            /\ (\A x \in 1 .. m : Append(s, rows[i])[x] = s[x]) /\ Append(s, rows[i])[m + 1] = rows[i]
        BY <3>1
      <4> HIDE DEF m, s
      <4>2. \A x \in 1 .. m + 1 : x \in 1 .. m \/ x = m + 1
        BY <4>1
      <4>3. \A x \in 1 .. m : x \in 1 .. m + 1
        BY <4>1
      <4>4. m + 1 \in 1 .. m + 1
        BY <4>1
      <4> QED BY <4>1, <4>2, <4>3, <4>4 DEF Range, s
    <3>3. \A r : (\E y \in 1 .. i : rows[y] = r) <=> (\E y \in 1 .. i - 1 : rows[y] = r) \/ rows[i] = r
      OBVIOUS
    <3>4. \A r : r \in Range(g[i - 1]) <=> r \in S /\ \E y \in 1 .. i - 1 : rows[y] = r
      BY <2>2
    <3>5. \A r : r \in Range(g[i]) <=> r \in S /\ \E y \in 1 .. i : rows[y] = r
      BY <3>1, <3>2, <3>3, <3>4
    <3> QED BY <3>5
  <2> HIDE DEF U
  <2>3. 0 .. n \subseteq U
    BY ONLY <1>2, <2>1, <2>2, UpTo
  <2>4. n \in U
    BY <1>2, <2>3
  <2>5. DOMAIN rows = 1 .. n
    OBVIOUS
  <2> HIDE DEF n
  <2> QED BY <1>1, <2>4, <2>5 DEF U, Range, n
<1>5. ASSUME NEW Q PROVE Only(Only(rows, S), Q) = Only(rows, S \cap Q)
  <2>1. PICK h : Looked(h, rows, S \cap Q, T) /\ Only(rows, S \cap Q) = h[Len(rows)]
    BY OnlyLoop
  <2> DEFINE U == {i \in 0 .. n : Only(g[i], Q) = h[i]}
  <2>2. 0 \in U
    BY <1>1, <2>1, OnlyOfNone DEF Looked
  <2>3. ASSUME NEW i \in 1 .. n, i - 1 \in U PROVE i \in U
    <3>1. g[i - 1] \in Seq(T) /\ rows[i] \in T /\ i \in 0 .. n
          /\ g[i] = IF rows[i] \in S THEN Append(g[i - 1], rows[i]) ELSE g[i - 1]
      BY <1>1, <1>2 DEF Looked
    <3>2. h[i] = IF rows[i] \in S \cap Q THEN Append(h[i - 1], rows[i]) ELSE h[i - 1]
      BY <2>1 DEF Looked
    <3>3. Only(g[i - 1], Q) = h[i - 1]
      BY <2>3
    <3>4. Only(Append(g[i - 1], rows[i]), Q) =
              IF rows[i] \in Q THEN Append(Only(g[i - 1], Q), rows[i]) ELSE Only(g[i - 1], Q)
      <4> DEFINE s == g[i - 1]
                 r == rows[i]
      <4>1. s \in Seq(T) /\ r \in T
        BY <3>1
      <4> HIDE DEF s, r
      <4>2. Only(Append(s, r), Q) = IF r \in Q THEN Append(Only(s, Q), r) ELSE Only(s, Q)
        BY ONLY <4>1, OnlyAppend
      <4> QED BY <4>2 DEF s, r
    <3> QED BY <3>1, <3>2, <3>3, <3>4
  <2> HIDE DEF U
  <2>4. 0 .. n \subseteq U
    BY ONLY <1>2, <2>2, <2>3, UpTo
  <2>5. n \in U
    BY <1>2, <2>4
  <2> QED BY <1>1, <2>1, <2>5 DEF U
<1> QED BY <1>3, <1>4, <1>5
-----------------------------------------------------------------------------
(* Tables of rows: T is what a row can be.                                 *)
OfFileIn(T, f)    == {r \in T : r.file = f}
InPrimary(T, p)   == {r \in T : r.primary = p}
NamedOtherwise(T, name) == {r \in T : r.name # name}

\* The rows of a file and the others, as sets of what a row can be.
LEMMA WhereFile ==
    ASSUME NEW T, NEW rows \in Seq(T), NEW f
    PROVE  /\ OfFile(rows, f) = Only(rows, OfFileIn(T, f))
           /\ NotOfFile(rows, f) = Only(rows, T \ OfFileIn(T, f))
<1>1. \A x \in 1 .. Len(rows) : rows[x] \in T /\ rows[x] \in Range(rows)
  BY DEF Range
<1>2. \A x \in 1 .. Len(rows) :
          rows[x] \in {r \in Range(rows) : r.file = f} <=> rows[x] \in OfFileIn(T, f)
  BY <1>1 DEF OfFileIn
<1>3. \A x \in 1 .. Len(rows) :
          rows[x] \in {r \in Range(rows) : r.file # f} <=> rows[x] \in T \ OfFileIn(T, f)
  BY <1>1 DEF OfFileIn
<1>4. OfFile(rows, f) = Only(rows, OfFileIn(T, f))
  BY <1>2, OnlySame DEF OfFile
<1>5. NotOfFile(rows, f) = Only(rows, T \ OfFileIn(T, f))
  BY <1>3, OnlySame DEF NotOfFile
<1> QED BY <1>4, <1>5

\* The chunks in a primary file, likewise.
LEMMA WherePrimary ==
    ASSUME NEW T, NEW rows \in Seq(T), NEW p
    PROVE  ChunksOf(rows, p) = Only(rows, InPrimary(T, p))
<1>1. \A x \in 1 .. Len(rows) : rows[x] \in T /\ rows[x] \in Range(rows)
  BY DEF Range
<1>2. \A x \in 1 .. Len(rows) :
          rows[x] \in {r \in Range(rows) : r.primary = p} <=> rows[x] \in InPrimary(T, p)
  BY <1>1 DEF InPrimary
<1> QED BY <1>2, OnlySame DEF ChunksOf

\* The rows of other names, likewise.
LEMMA WhereNot ==
    ASSUME NEW T, NEW rows \in Seq(T), NEW name
    PROVE  NotNamed(rows, name) = Only(rows, NamedOtherwise(T, name))
<1>1. \A x \in 1 .. Len(rows) : rows[x] \in T /\ rows[x] \in Range(rows)
  BY DEF Range
<1>2. \A x \in 1 .. Len(rows) :
          rows[x] \in {r \in Range(rows) : r.name # name} <=> rows[x] \in NamedOtherwise(T, name)
  BY <1>1 DEF NamedOtherwise
<1> QED BY <1>2, OnlySame DEF NotNamed

\* The rounds of InsertAll: one row is inserted in each.
Inserting(g, rows, new, P) ==
    /\ g \in [0 .. Len(new) -> P] /\ g[0] = rows
    /\ \A i \in 1 .. Len(new) : g[i] = Replace(g[i - 1], new[i])

\* What InsertAll computes is what its rounds compute, if each of them keeps
\* the table in P.
LEMMA InsertAllRun ==
    ASSUME NEW P, NEW rows \in P, NEW T, NEW new \in Seq(T),
           \A t \in P : \A j \in 1 .. Len(new) : Replace(t, new[j]) \in P
    PROVE  \E g : Inserting(g, rows, new, P) /\ InsertAll(rows, new) = g[Len(new)]
<1> DEFINE len == Len(new)
           Next1(b, i) == Replace(b, new[i])
           step == [z \in P \X (1 .. len) |-> Next1(z[1], z[2])]
<1>1. len \in Nat
  OBVIOUS
<1>2. ASSUME NEW b \in P, NEW i \in 1 .. len PROVE Next1(b, i) \in P
  OBVIOUS
<1> HIDE DEF len, Next1
<1>3. step \in [P \X (1 .. len) -> P]
      /\ \A b \in P : \A i \in 1 .. len : step[<<b, i>>] = Next1(b, i)
  BY <1>2
<1> HIDE DEF step
<1>5. PICK g \in [0 .. len -> P] :
          g[0] = rows /\ \A i \in 1 .. len : g[i] = step[<<g[i - 1], i>>]
  <2>1. Rounds(step, P, len)
    BY <1>3 DEF Rounds
  <2>2. \E g : Run(g, rows, step, P, len)
    BY ONLY <1>1, rows \in P, <2>1, Loop, Zenon
  <2> QED BY <2>2 DEF Run
<1> DEFINE Round(r) == [i \in 0 .. len |-> IF i = 0 THEN rows ELSE Next1(r[i - 1], i)]
           f == CHOOSE f : f = Round(f)
<1>6. g = Round(g)
  <2>1. ASSUME NEW i \in 0 .. len
        PROVE  g[i] = IF i = 0 THEN rows ELSE Next1(g[i - 1], i)
    <3>1. CASE i # 0
      <4>1. i \in 1 .. len /\ i - 1 \in 0 .. len
        BY <1>1, <3>1
      <4> QED BY <1>3, <1>5, <3>1, <4>1
    <3> QED BY <1>5, <3>1
  <2>2. g = [i \in 0 .. len |-> g[i]]
    OBVIOUS
  <2> QED BY <2>1, <2>2
<1>7. f = Round(f)
  <2> HIDE DEF Round
  <2> QED BY <1>6, Zenon
<1>8. InsertAll(rows, new) = f[len]
  BY DEF InsertAll, Next1, len
<1> HIDE DEF f
<1>9. \A i \in 0 .. len : f[i] = g[i]
  <2> DEFINE U == {i \in 0 .. len : f[i] = g[i]}
  <2>1. 0 \in U
    BY <1>1, <1>5, <1>7
  <2>2. ASSUME NEW i \in 1 .. len, i - 1 \in U PROVE i \in U
    <3>1. i \in 0 .. len /\ i # 0
      BY <1>1
    <3>2. f[i] = Next1(f[i - 1], i)
      BY <1>7, <3>1
    <3>3. g[i] = Next1(g[i - 1], i)
      BY <1>6, <3>1
    <3> QED BY <2>2, <3>1, <3>2, <3>3
  <2> HIDE DEF U
  <2>3. 0 .. len \subseteq U
    BY ONLY <1>1, <2>1, <2>2, UpTo
  <2> QED BY <2>3 DEF U
<1>10. Inserting(g, rows, new, P)
  <2>1. \A i \in 1 .. len : g[i] = Next1(g[i - 1], i)
    <3> SUFFICES ASSUME NEW i \in 1 .. len PROVE g[i] = Next1(g[i - 1], i)
      OBVIOUS
    <3>1. i \in 0 .. len /\ i # 0
      BY <1>1
    <3> QED BY <1>6, <3>1
  <2> QED BY <1>5, <2>1 DEF Inserting, len, Next1
<1>11. InsertAll(rows, new) = g[len]
  BY <1>1, <1>8, <1>9
<1> QED BY <1>10, <1>11 DEF len

\* What all rows of a list keep that are inserted one by one, the list keeps.
LEMMA InsertAllIn ==
    ASSUME NEW P, NEW rows \in P, NEW T, NEW new \in Seq(T),
           \A t \in P : \A j \in 1 .. Len(new) : Replace(t, new[j]) \in P
    PROVE  InsertAll(rows, new) \in P
<1> PICK g : Inserting(g, rows, new, P) /\ InsertAll(rows, new) = g[Len(new)]
  BY InsertAllRun
<1>1. Len(new) \in 0 .. Len(new)
  OBVIOUS
<1> QED BY <1>1 DEF Inserting

\* Rows of other names than those that are inserted stay as they are.
LEMMA InsertAllElsewhere ==
    ASSUME NEW T, NEW rows \in Seq(T), NEW new \in Seq(T), NEW Q,
           \A j \in 1 .. Len(new) : new[j] \notin Q /\ \A r \in Q : r.name # new[j].name
    PROVE  /\ InsertAll(rows, new) \in Seq(T)
           /\ Only(InsertAll(rows, new), Q) = Only(rows, Q)
<1> DEFINE P == {t \in Seq(T) : Only(t, Q) = Only(rows, Q)}
<1>1. ASSUME NEW t \in P, NEW j \in 1 .. Len(new) PROVE Replace(t, new[j]) \in P
  <2> DEFINE S == NamedOtherwise(T, new[j].name)
  <2>1. t \in Seq(T) /\ new[j] \in T /\ new[j] \notin Q /\ Only(t, Q) = Only(rows, Q)
    OBVIOUS
  <2>2. Replace(t, new[j]) = Append(Only(t, S), new[j]) /\ Only(t, S) \in Seq(T)
    BY <2>1, WhereNot, OnlyFacts DEF Replace
  <2>3. Only(Append(Only(t, S), new[j]), Q) = Only(Only(t, S), Q)
    BY <2>1, <2>2, OnlyAppend
  <2>4. Only(Only(t, S), Q) = Only(t, S \cap Q)
    BY <2>1, OnlyFacts
  <2>5. Only(t, S \cap Q) = Only(t, Q)
    <3>1. \A x \in 1 .. Len(t) : t[x] \in S \cap Q <=> t[x] \in Q
      BY <2>1 DEF NamedOtherwise
    <3> HIDE DEF S
    <3> QED BY <2>1, <3>1, OnlySame
  <2> QED BY <2>1, <2>2, <2>3, <2>4, <2>5
<1>2. rows \in P
  OBVIOUS
<1> HIDE DEF P
<1>3. InsertAll(rows, new) \in P
  BY ONLY <1>1, <1>2, new \in Seq(T), InsertAllIn
<1> QED BY <1>3 DEF P
-----------------------------------------------------------------------------
(* The rows that clients send: each names the file it belongs to, and the  *)
(* names of different files differ.                                        *)
ChunkNames(f) == {ChunkName(f, s) : s \in Nat} \cup {<<"Chunk", f, s>> : s \in Nat}

BRow == {r \in [name : UNION {NameOf(g) : g \in File}, file : File, seq : Int, key : Node,
                node : Node] : r.name \in NameOf(r.file)}
CRow == {r \in [name : UNION {ChunkNames(g) : g \in File}, file : File,
                primary : UNION {NameOf(g) : g \in File}, seq : Int, offset : Int,
                primary_seq : Int, size : Int] :
            r.name \in ChunkNames(r.file) /\ r.primary \in NameOf(r.file)}

\* A primary file is of one file (Home and server are in its name).
LEMMA OneFileOfName ==
    ASSUME NEW f, NEW g, NEW x, x \in NameOf(f), x \in NameOf(g) PROVE f = g
BY DEF NameOf, PrimaryName, TouchName

\* So is a chunk: a name of two parts is not one of three.
LEMMA OneFileOfChunk ==
    ASSUME NEW f, NEW g, NEW x, x \in ChunkNames(f), x \in ChunkNames(g) PROVE f = g
<1>1. \A a, s, t, b : <<a, s>> # <<t, b, s>> /\ \A u : <<a, s>> # <<t, b, u>>
  <2> SUFFICES ASSUME NEW a, NEW s, NEW t, NEW b, NEW u, <<a, s>> = <<t, b, u>> PROVE FALSE
    OBVIOUS
  <2>1. Len(<<a, s>>) = 2 /\ Len(<<t, b, u>>) = 3
    OBVIOUS
  <2> QED BY <2>1
<1> QED BY <1>1 DEF ChunkNames, ChunkName

\* Sequences over a set, one behind the other, are one over it.
LEMMA FlattenIn ==
    ASSUME NEW T, NEW seqs, seqs \in Seq(Seq(T)) PROVE FlattenSeq(seqs) \in Seq(T)
<1> DEFINE n == Len(seqs)
           Round(r) == [i \in 1 .. n |-> IF i = 1 THEN seqs[i] ELSE r[i - 1] \o seqs[i]]
           f == CHOOSE f : f = Round(f)
           step == [z \in Seq(T) \X (1 .. n - 1) |-> z[1] \o seqs[z[2] + 1]]
<1>1. CASE n = 0
  BY <1>1 DEF FlattenSeq
<1>2. CASE n # 0
  <2>1. n \in Nat /\ n - 1 \in Nat /\ \A i \in 1 .. n : seqs[i] \in Seq(T)
    BY <1>2
  <2>2. FlattenSeq(seqs) = f[n]
    BY <1>2 DEF FlattenSeq
  <2> HIDE DEF n
  <2>3. /\ step \in [Seq(T) \X (1 .. n - 1) -> Seq(T)]
        /\ \A s \in Seq(T) : \A i \in 1 .. n - 1 : step[<<s, i>>] = s \o seqs[i + 1]
    <3>1. ASSUME NEW s \in Seq(T), NEW i \in 1 .. n - 1 PROVE s \o seqs[i + 1] \in Seq(T)
      <4>1. i + 1 \in 1 .. n
        BY <2>1
      <4>2. seqs[i + 1] \in Seq(T)
        BY <2>1, <4>1
      <4> QED BY <4>2
    <3> QED BY <3>1
  <2> HIDE DEF step
  <2>4. seqs[1] \in Seq(T)
    BY <2>1
  <2>5. PICK g \in [0 .. n - 1 -> Seq(T)] :
            g[0] = seqs[1] /\ \A i \in 1 .. n - 1 : g[i] = step[<<g[i - 1], i>>]
    <3>1. Rounds(step, Seq(T), n - 1)
      BY <2>3 DEF Rounds
    <3>2. \E g : Run(g, seqs[1], step, Seq(T), n - 1)
      BY ONLY <2>1, <2>4, <3>1, Loop, Zenon
    <3> QED BY <3>2 DEF Run
  <2> DEFINE h == [i \in 1 .. n |-> g[i - 1]]
  <2>6. h = Round(h)
    <3>1. ASSUME NEW i \in 1 .. n PROVE h[i] = IF i = 1 THEN seqs[i] ELSE h[i - 1] \o seqs[i]
      <4>1. CASE i = 1
        BY <2>5, <4>1
      <4>2. CASE i # 1
        <5>1. /\ i - 1 \in 1 .. n - 1 /\ i - 1 \in 1 .. n /\ (i - 1) - 1 \in 0 .. n - 1
              /\ (i - 1) + 1 = i
          BY <2>1, <4>2
        <5>2. g[i - 1] = g[(i - 1) - 1] \o seqs[i]
          BY <2>3, <2>5, <5>1
        <5>3. h[i] = g[i - 1] /\ h[i - 1] = g[(i - 1) - 1]
          BY <5>1
        <5> QED BY <4>2, <5>2, <5>3
      <4> QED BY <4>1, <4>2
    <3>2. h = [i \in 1 .. n |-> h[i]]
      OBVIOUS
    <3> HIDE DEF h
    <3> QED BY <3>1, <3>2
  <2>7. f = Round(f)
    <3> HIDE DEF Round, h
    <3> QED BY <2>6, Zenon
  <2> HIDE DEF f
  <2> DEFINE U == {i \in 0 .. n - 1 : f[i + 1] = h[i + 1]}
  <2>8. 0 \in U
    <3>1. 0 \in 0 .. n - 1 /\ 0 + 1 = 1 /\ 1 \in 1 .. n
      BY <2>1, <1>2 DEF n
    <3> HIDE DEF h
    <3>2. f[1] = seqs[1]
      BY <2>7, <3>1
    <3>3. h[1] = seqs[1]
      BY <2>6, <3>1
    <3> QED BY <3>1, <3>2, <3>3
  <2>9. ASSUME NEW i \in 1 .. n - 1, i - 1 \in U PROVE i \in U
    <3>1. /\ i + 1 \in 1 .. n /\ i + 1 # 1 /\ (i + 1) - 1 = i /\ (i - 1) + 1 = i
          /\ i \in 0 .. n - 1 /\ i \in 1 .. n
      BY <2>1
    <3>2. f[i] = h[i]
      BY <2>9, <3>1
    <3> HIDE DEF h
    <3>3. f[i + 1] = f[i] \o seqs[i + 1]
      BY <2>7, <3>1
    <3>4. h[i + 1] = h[i] \o seqs[i + 1]
      BY <2>6, <3>1
    <3> QED BY <3>1, <3>2, <3>3, <3>4
  <2> HIDE DEF U
  <2>10. 0 .. n - 1 \subseteq U
    BY ONLY <2>1, <2>8, <2>9, UpTo
  <2>11. n - 1 \in U /\ (n - 1) + 1 = n /\ n - 1 \in 0 .. n - 1 /\ n \in 1 .. n
    BY <2>1, <2>10
  <2>12. f[n] = g[n - 1]
    BY <2>11 DEF U
  <2> QED BY <2>2, <2>5, <2>11, <2>12
<1> QED BY <1>1, <1>2
-----------------------------------------------------------------------------
\* The servers of an upload, and the chunks on one of them.
LEMMA UsedServers ==
    ASSUME NEW c \in Client, NEW f \in File
    PROVE  /\ UsedInOrder(c, f) \in Seq(Node)
           /\ \A s : s \in Range(UsedInOrder(c, f)) <=> s \in Used(c, f)
           /\ Used(c, f) \subseteq Node
<1> DEFINE all == [x \in 1 .. N |-> x - 1]
<1>1. all \in Seq(Node) /\ \A s : s \in Range(all) <=> s \in Node
  <2>1. \A s \in Node : s + 1 \in 1 .. N /\ all[s + 1] = s
    BY NodesAssumption DEF Node
  <2>2. all \in Seq(Node)
    BY NodesAssumption DEF Node
  <2>3. \A x \in 1 .. N : all[x] \in Node
    BY NodesAssumption DEF Node
  <2>4. DOMAIN all = 1 .. N
    OBVIOUS
  <2> HIDE DEF all
  <2> QED BY <2>1, <2>2, <2>3, <2>4 DEF Range
<1>2. Used(c, f) \subseteq Node
  BY NodesAssumption, HomeAssumption, ChunksAssumption DEF Used, Server, Node
<1> HIDE DEF all
<1>3. /\ Only(all, Used(c, f)) \in Seq(Node)
      /\ \A s : s \in Range(Only(all, Used(c, f))) <=> s \in Range(all) /\ s \in Used(c, f)
  BY <1>1, OnlyFacts
<1> QED BY <1>1, <1>2, <1>3 DEF UsedInOrder, all

\* The chunks that an upload puts on a server.
LEMMA ChunksOnServer ==
    ASSUME NEW c \in Client, NEW f, NEW s
    PROVE  /\ ChunksOn(c, f, s) \in Seq(Nat)
           /\ \A q : q \in Range(ChunksOn(c, f, s)) <=> q \in 0 .. Chunks[c] - 1 /\ Server(f, q) = s
<1> DEFINE all == [x \in 1 .. Chunks[c] |-> x - 1]
           here == {seq \in 0 .. Chunks[c] - 1 : Server(f, seq) = s}
<1>1. all \in Seq(Nat) /\ \A q : q \in Range(all) <=> q \in 0 .. Chunks[c] - 1
  <2>1. \A q \in 0 .. Chunks[c] - 1 : q + 1 \in 1 .. Chunks[c] /\ all[q + 1] = q
    BY ChunksAssumption
  <2>2. all \in Seq(Nat)
    BY ChunksAssumption
  <2>3. \A x \in 1 .. Chunks[c] : all[x] \in 0 .. Chunks[c] - 1
    BY ChunksAssumption
  <2>4. DOMAIN all = 1 .. Chunks[c]
    OBVIOUS
  <2> HIDE DEF all
  <2> QED BY <2>1, <2>2, <2>3, <2>4 DEF Range
<1> HIDE DEF all
<1>2. /\ Only(all, here) \in Seq(Nat)
      /\ \A q : q \in Range(Only(all, here)) <=> q \in Range(all) /\ q \in here
  BY <1>1, OnlyFacts
<1> QED BY <1>1, <1>2 DEF ChunksOn, all

\* The keys that an upload draws for its servers.
Keyed(c, f) == loc[c].key \in [Used(c, f) -> Node]

BRowOf(f) == {r \in BRow : r.file = f}
CRowOf(f) == {r \in CRow : r.file = f}
UploadedRow(f) == {r \in CRowOf(f) : \E s \in Nat : r.name = ChunkName(f, s)}

\* What a client sends of a primary file is a row of that file.
LEMMA BlockRowIs ==
    ASSUME NEW name, NEW f \in File, name \in NameOf(f), NEW q \in Int, NEW k \in Node, NEW s \in Node
    PROVE  BlockRow(name, f, q, k, s) \in BRowOf(f)
BY DEF BlockRow, BRowOf, BRow

\* What a client sends of a chunk is a row of its file.
LEMMA ChunkRowIs ==
    ASSUME NEW name, NEW f \in File, name \in ChunkNames(f), NEW p, p \in NameOf(f),
           NEW q \in Int, NEW o \in Int, NEW ps \in Int, NEW z \in Int
    PROVE  ChunkRow(name, f, p, q, o, ps, z) \in CRowOf(f)
BY DEF ChunkRow, CRowOf, CRow

\* The blocks_metadata of an upload is rows of its file (DFS::upload).
LEMMA UploadBlockRowsAre ==
    ASSUME NEW c \in Client, NEW f \in File, Keyed(c, f)
    PROVE  UploadBlockRows(c, f) \in Seq(BRowOf(f))
<1> DEFINE used == UsedInOrder(c, f)
<1>1. /\ used \in Seq(Node) /\ \A x \in 1 .. Len(used) : used[x] \in Used(c, f) /\ used[x] \in Node
      /\ DOMAIN used = 1 .. Len(used) /\ Len(used) \in Nat
  BY UsedServers DEF Range
<1> HIDE DEF used
<1>2. ASSUME NEW x \in 1 .. Len(used)
      PROVE  BlockRow(PrimaryName(used[x], f), f, Order(used[x], f), loc[c].key[used[x]], used[x])
                 \in BRowOf(f)
  <2>1. used[x] \in Node /\ loc[c].key[used[x]] \in Node
    BY <1>1 DEF Keyed
  <2>2. Order(used[x], f) \in Int
    BY <2>1, HomeAssumption, NodesAssumption DEF Order, Node
  <2>3. PrimaryName(used[x], f) \in NameOf(f)
    BY <2>1 DEF NameOf
  <2> QED BY <2>1, <2>2, <2>3, BlockRowIs
<1> QED BY <1>1, <1>2 DEF UploadBlockRows, used

\* So are its chunks.
LEMMA UploadChunkRowsAre ==
    ASSUME NEW c \in Client, NEW f \in File
    PROVE  UploadChunkRows(c, f) \in Seq(UploadedRow(f))
<1> DEFINE used == UsedInOrder(c, f)
           Row(s, q, x) == ChunkRow(ChunkName(f, q), f, PrimaryName(s, f), q, x - 1, Order(s, f), 1)
           RowsAt(j) == [x \in DOMAIN ChunksOn(c, f, used[j]) |->
                           Row(used[j], ChunksOn(c, f, used[j])[x], x)]
           lists == [j \in DOMAIN used |-> RowsAt(j)]
<1>1. /\ used \in Seq(Node) /\ \A x \in 1 .. Len(used) : used[x] \in Node
      /\ DOMAIN used = 1 .. Len(used) /\ Len(used) \in Nat
  BY UsedServers
<1>2. UploadChunkRows(c, f) = FlattenSeq(lists)
  BY DEF UploadChunkRows
<1> HIDE DEF used
<1>3. ASSUME NEW s \in Node, NEW q \in Nat, NEW x \in Nat PROVE Row(s, q, x) \in UploadedRow(f)
  <2>1. Order(s, f) \in Int /\ PrimaryName(s, f) \in NameOf(f) /\ ChunkName(f, q) \in ChunkNames(f)
    BY HomeAssumption, NodesAssumption DEF Order, Node, NameOf, ChunkNames
  <2>2. Row(s, q, x) \in CRowOf(f)
    BY <2>1, ChunkRowIs
  <2>3. Row(s, q, x).name = ChunkName(f, q)
    BY DEF ChunkRow
  <2> QED BY <2>2, <2>3 DEF UploadedRow
<1> HIDE DEF Row
<1>4. ASSUME NEW j \in 1 .. Len(used) PROVE RowsAt(j) \in Seq(UploadedRow(f))
  <2> DEFINE on == ChunksOn(c, f, used[j])
  <2>1. on \in Seq(Nat) /\ DOMAIN on = 1 .. Len(on) /\ Len(on) \in Nat
        /\ \A x \in 1 .. Len(on) : on[x] \in Nat
    BY ChunksOnServer
  <2> HIDE DEF on
  <2>2. \A x \in 1 .. Len(on) : Row(used[j], on[x], x) \in UploadedRow(f)
    BY <1>1, <1>3, <2>1
  <2>3. [x \in 1 .. Len(on) |-> Row(used[j], on[x], x)] \in Seq(UploadedRow(f))
    BY <2>1, <2>2
  <2> QED BY <2>1, <2>3 DEF on
<1> HIDE DEF RowsAt
<1>5. lists \in Seq(Seq(UploadedRow(f)))
  BY <1>1, <1>4
<1> HIDE DEF lists
<1> QED BY <1>2, <1>5, FlattenIn

\* And those of put_idv, under the names of their own files.
LEMMA IdvChunkRowsAre ==
    ASSUME NEW c \in Client, NEW f \in File
    PROVE  IdvChunkRows(c, f) \in Seq(CRowOf(f))
<1> DEFINE rows == UploadChunkRows(c, f)
<1> DEFINE Renamed(r) == [r EXCEPT !.name = IdvName(f, @[2]), !.offset = 0]
<1>1. /\ rows \in Seq(UploadedRow(f)) /\ Len(rows) \in Nat /\ DOMAIN rows = 1 .. Len(rows)
      /\ \A x \in 1 .. Len(rows) : rows[x] \in UploadedRow(f)
  BY UploadChunkRowsAre
<1>2. IdvChunkRows(c, f) = [x \in DOMAIN rows |-> Renamed(rows[x])]
  BY DEF IdvChunkRows
<1> HIDE DEF rows
<1>3. ASSUME NEW r \in UploadedRow(f) PROVE Renamed(r) \in CRowOf(f)
  <2>1. PICK s \in Nat : r.name = ChunkName(f, s)
    BY DEF UploadedRow
  <2> DEFINE n == IdvName(f, r.name[2])
  <2>2. n \in ChunkNames(f)
    BY <2>1 DEF IdvName, ChunkName, ChunkNames
  <2>3. Renamed(r) = [r EXCEPT !.name = n, !.offset = 0]
    OBVIOUS
  <2> HIDE DEF n, Renamed
  <2>4. /\ r.file = f /\ r.primary \in NameOf(f)
        /\ r \in [name : UNION {ChunkNames(g) : g \in File}, file : File,
                  primary : UNION {NameOf(g) : g \in File}, seq : Int, offset : Int,
                  primary_seq : Int, size : Int]
    BY DEF UploadedRow, CRowOf, CRow
  <2>5. /\ Renamed(r) \in [name : UNION {ChunkNames(g) : g \in File}, file : File,
                  primary : UNION {NameOf(g) : g \in File}, seq : Int, offset : Int,
                  primary_seq : Int, size : Int]
        /\ Renamed(r).name = n /\ Renamed(r).file = f /\ Renamed(r).primary = r.primary
    <3>1. n \in UNION {ChunkNames(g) : g \in File} /\ 0 \in Int
      BY <2>2
    <3>2. Renamed(r) = [name |-> n, file |-> r.file, primary |-> r.primary, seq |-> r.seq,
                        offset |-> 0, primary_seq |-> r.primary_seq, size |-> r.size]
      BY <2>3, <2>4
    <3> QED BY <2>4, <3>1, <3>2
  <2> QED BY <2>2, <2>4, <2>5 DEF CRowOf, CRow
<1> HIDE DEF Renamed
<1>4. [x \in 1 .. Len(rows) |-> Renamed(rows[x])] \in Seq(CRowOf(f))
  BY <1>1, <1>3
<1> QED BY <1>1, <1>2, <1>4
-----------------------------------------------------------------------------
(* What a description says of a file depends on the rows of that file.     *)
Tables(d) == d.block \in Seq(BRow) /\ d.chunk \in Seq(CRow)

SameRows(a, b, g) ==
    /\ g \in DOMAIN a.file <=> g \in DOMAIN b.file
    /\ g \in DOMAIN a.file => a.file[g] = b.file[g]
    /\ OfFile(a.block, g) = OfFile(b.block, g)
    /\ \A p \in NameOf(g) : ChunksOf(a.chunk, p) = ChunksOf(b.chunk, p)

\* With gives its operator the value: the blocks of a description, without it.
LEMMA BlocksAre ==
    ASSUME NEW rows, NEW chunks
    PROVE  Blocks(rows, chunks) = ArrangedFrom(rows, ListsOf(chunks, rows))
BY DEF Blocks, With

\* A description, without With.
LEMMA DescribedIs ==
    ASSUME NEW d, NEW f
    PROVE  Described(d, f) =
              [uploading |-> 0, is_input |-> d.file[f].is_input, size |-> d.file[f].size,
               num_block |-> d.file[f].num_block, num_primary |-> Len(OfFile(d.block, f)),
               blocks |-> IF d.file[f].num_block = 0 THEN <<>>
                          ELSE Blocks(OfFile(d.block, f), d.chunk)]
<1>1. With(OfFile(d.block, f), LAMBDA rows : Blocks(rows, d.chunk)) = Blocks(OfFile(d.block, f), d.chunk)
  BY DEF With
<1> QED BY <1>1 DEF Described

\* The rows of a file in the table of blocks have its names.
LEMMA RowsOfFile ==
    ASSUME NEW d, Tables(d), NEW g
    PROVE  OfFile(d.block, g) \in Seq(BRowOf(g))
<1>1. OfFile(d.block, g) = Only(d.block, OfFileIn(BRow, g))
  BY WhereFile DEF Tables
<1> DEFINE rows == Only(d.block, OfFileIn(BRow, g))
<1>2. rows \in Seq(BRow) /\ \A r : r \in Range(rows) => r \in OfFileIn(BRow, g)
  BY OnlyFacts DEF Tables
<1> HIDE DEF rows
<1>3. \A x \in 1 .. Len(rows) : rows[x] \in BRowOf(g)
  BY <1>2 DEF Range, OfFileIn, BRowOf
<1>4. rows \in Seq(BRowOf(g))
  BY <1>2, <1>3
<1> QED BY <1>1, <1>4 DEF rows

\* The same rows, the same description.
LEMMA SameDescription ==
    ASSUME NEW a, NEW b, Tables(a), Tables(b), NEW g, SameRows(a, b, g)
    PROVE  Description(a, g) = Description(b, g)
<1> DEFINE rows == OfFile(a.block, g)
<1>1. rows = OfFile(b.block, g) /\ rows \in Seq(BRowOf(g))
  BY RowsOfFile DEF SameRows
<1>2. \A x \in DOMAIN rows : ChunksOf(a.chunk, rows[x].name) = ChunksOf(b.chunk, rows[x].name)
  <2> SUFFICES ASSUME NEW x \in DOMAIN rows PROVE rows[x].name \in NameOf(g)
    BY DEF SameRows
  <2>1. rows[x] \in BRowOf(g)
    BY <1>1
  <2> QED BY <2>1 DEF BRowOf, BRow
<1> HIDE DEF rows
<1>3. ListsOf(a.chunk, rows) = ListsOf(b.chunk, rows)
  BY <1>2 DEF ListsOf
<1>4. Blocks(rows, a.chunk) = Blocks(rows, b.chunk)
  BY <1>3, BlocksAre
<1>5. FileTableExists(a, g) = FileTableExists(b, g)
  BY DEF SameRows, FileTableExists
<1>6. FileTableExists(a, g) => Described(a, g) = Described(b, g)
  <2> SUFFICES ASSUME FileTableExists(a, g) PROVE Described(a, g) = Described(b, g)
    OBVIOUS
  <2>1. a.file[g] = b.file[g]
    BY DEF SameRows, FileTableExists
  <2> QED BY <1>1, <1>4, <2>1, DescribedIs DEF rows
<1> QED BY <1>5, <1>6 DEF Description

\* file_insert leaves the row of a file alone that has one.
LEMMA InsertedSame ==
    ASSUME NEW d, Tables(d), NEW f, NEW row, NEW g, g # f \/ g \in DOMAIN d.file
    PROVE  Tables(Inserted(d, f, row)) /\ SameRows(d, Inserted(d, f, row), g)
BY DEF Inserted, Tables, SameRows, FileTableInsert, WithRow

\* file_insert_confirm touches rows of one file only.
LEMMA ConfirmedSame ==
    ASSUME NEW d, Tables(d), NEW f \in File, NEW num,
           NEW blockRows \in Seq(BRowOf(f)), NEW chunkRows \in Seq(CRowOf(f))
    PROVE  /\ Tables(Confirmed(d, f, num, blockRows, chunkRows))
           /\ \A g : g # f => SameRows(d, Confirmed(d, f, num, blockRows, chunkRows), g)
<1> DEFINE e == Confirmed(d, f, num, blockRows, chunkRows)
<1>1. e.block = InsertAll(d.block, blockRows) /\ e.chunk = InsertAll(d.chunk, chunkRows)
      /\ e.file = FileTableConfirm(d.file, f, num, Len(blockRows))
  BY DEF Confirmed
<1>2. blockRows \in Seq(BRow) /\ \A j \in 1 .. Len(blockRows) : blockRows[j] \in BRowOf(f)
  BY DEF BRowOf
<1>3. chunkRows \in Seq(CRow) /\ \A j \in 1 .. Len(chunkRows) : chunkRows[j] \in CRowOf(f)
  BY DEF CRowOf
<1> HIDE DEF e
<1>4. ASSUME NEW Q, Q \subseteq BRow, \A r \in Q : r.file # f
      PROVE  e.block \in Seq(BRow) /\ Only(e.block, Q) = Only(d.block, Q)
  <2>1. \A r \in Q : r.name \in NameOf(r.file) /\ r.file # f
    BY <1>4 DEF BRow
  <2>2. ASSUME NEW j \in 1 .. Len(blockRows)
        PROVE  blockRows[j] \notin Q /\ \A r \in Q : r.name # blockRows[j].name
    <3>1. blockRows[j].file = f /\ blockRows[j].name \in NameOf(f)
      BY <1>2 DEF BRowOf, BRow
    <3> QED BY <2>1, <3>1, OneFileOfName
  <2>3. d.block \in Seq(BRow) /\ blockRows \in Seq(BRow)
    BY <1>2 DEF Tables
  <2>4. \A j \in 1 .. Len(blockRows) :
            blockRows[j] \notin Q /\ \A r \in Q : r.name # blockRows[j].name
    BY <2>2
  <2>5. /\ InsertAll(d.block, blockRows) \in Seq(BRow)
        /\ Only(InsertAll(d.block, blockRows), Q) = Only(d.block, Q)
    BY ONLY <2>3, <2>4, InsertAllElsewhere
  <2> QED BY <1>1, <2>5
<1>5. ASSUME NEW Q, Q \subseteq CRow, \A r \in Q : r.file # f
      PROVE  e.chunk \in Seq(CRow) /\ Only(e.chunk, Q) = Only(d.chunk, Q)
  <2>1. \A r \in Q : r.name \in ChunkNames(r.file) /\ r.file # f
    BY <1>5 DEF CRow
  <2>2. ASSUME NEW j \in 1 .. Len(chunkRows)
        PROVE  chunkRows[j] \notin Q /\ \A r \in Q : r.name # chunkRows[j].name
    <3>1. chunkRows[j].file = f /\ chunkRows[j].name \in ChunkNames(f)
      BY <1>3 DEF CRowOf, CRow
    <3> QED BY <2>1, <3>1, OneFileOfChunk
  <2>3. d.chunk \in Seq(CRow) /\ chunkRows \in Seq(CRow)
    BY <1>3 DEF Tables
  <2>4. \A j \in 1 .. Len(chunkRows) :
            chunkRows[j] \notin Q /\ \A r \in Q : r.name # chunkRows[j].name
    BY <2>2
  <2>5. /\ InsertAll(d.chunk, chunkRows) \in Seq(CRow)
        /\ Only(InsertAll(d.chunk, chunkRows), Q) = Only(d.chunk, Q)
    BY ONLY <2>3, <2>4, InsertAllElsewhere
  <2> QED BY <1>1, <2>5
<1>6. e.block \in Seq(BRow) /\ e.chunk \in Seq(CRow)
  <2> DEFINE Q == BRow \ OfFileIn(BRow, f)
             R == CRow \ OfFileIn(CRow, f)
  <2>1. /\ Q \subseteq BRow /\ \A r \in Q : r.file # f
        /\ R \subseteq CRow /\ \A r \in R : r.file # f
    BY DEF OfFileIn
  <2> HIDE DEF Q, R
  <2>2. e.block \in Seq(BRow)
    BY <1>4, <2>1
  <2>3. e.chunk \in Seq(CRow)
    BY <1>5, <2>1
  <2> QED BY <2>2, <2>3
<1>7. ASSUME NEW g, g # f PROVE SameRows(d, e, g)
  <2>1. OfFile(d.block, g) = OfFile(e.block, g)
    <3> DEFINE Q == OfFileIn(BRow, g)
    <3>1. Q \subseteq BRow /\ \A r \in Q : r.file # f
      BY <1>7 DEF OfFileIn
    <3>2. OfFile(d.block, g) = Only(d.block, Q) /\ OfFile(e.block, g) = Only(e.block, Q)
      BY <1>6, WhereFile DEF Tables
    <3> HIDE DEF Q
    <3> QED BY <1>4, <3>1, <3>2
  <2>2. ASSUME NEW p \in NameOf(g) PROVE ChunksOf(d.chunk, p) = ChunksOf(e.chunk, p)
    <3> DEFINE Q == InPrimary(CRow, p)
    <3>1. Q \subseteq CRow /\ \A r \in Q : r.file # f
      BY <1>7, OneFileOfName DEF InPrimary, CRow
    <3>2. ChunksOf(d.chunk, p) = Only(d.chunk, Q) /\ ChunksOf(e.chunk, p) = Only(e.chunk, Q)
      BY <1>6, WherePrimary DEF Tables
    <3> HIDE DEF Q
    <3> QED BY <1>5, <3>1, <3>2
  <2>3. /\ g \in DOMAIN d.file <=> g \in DOMAIN e.file
        /\ g \in DOMAIN d.file => d.file[g] = e.file[g]
    BY <1>1, <1>7 DEF FileTableConfirm
  <2> QED BY <2>1, <2>2, <2>3 DEF SameRows
<1> QED BY <1>6, <1>7 DEF Tables, e

\* So does file_delete.
LEMMA DeletedSame ==
    ASSUME NEW d, Tables(d), NEW f
    PROVE  /\ Tables(Deleted(d, f))
           /\ \A g : g # f => SameRows(d, Deleted(d, f), g)
<1> DEFINE e == Deleted(d, f)
           B == BRow \ OfFileIn(BRow, f)
           C == CRow \ OfFileIn(CRow, f)
<1>1. e.block = Only(d.block, B) /\ e.chunk = Only(d.chunk, C) /\ e.file = FileTableDelete(d.file, f)
  BY WhereFile DEF Deleted, Tables
<1> HIDE DEF e
<1>2. /\ e.block \in Seq(BRow) /\ e.chunk \in Seq(CRow)
      /\ \A Q : Only(e.block, Q) = Only(d.block, B \cap Q)
      /\ \A Q : Only(e.chunk, Q) = Only(d.chunk, C \cap Q)
  <2> HIDE DEF B, C
  <2>1. d.block \in Seq(BRow) /\ d.chunk \in Seq(CRow)
    BY DEF Tables
  <2>2. /\ Only(d.block, B) \in Seq(BRow)
        /\ \A Q : Only(Only(d.block, B), Q) = Only(d.block, B \cap Q)
    BY ONLY <2>1, OnlyFacts
  <2>3. /\ Only(d.chunk, C) \in Seq(CRow)
        /\ \A Q : Only(Only(d.chunk, C), Q) = Only(d.chunk, C \cap Q)
    BY ONLY <2>1, OnlyFacts
  <2> QED BY <1>1, <2>2, <2>3
<1>3. ASSUME NEW g, g # f PROVE SameRows(d, e, g)
  <2>1. OfFile(d.block, g) = OfFile(e.block, g)
    <3> DEFINE Q == OfFileIn(BRow, g)
    <3>1. B \cap Q = Q
      BY <1>3 DEF OfFileIn
    <3>2. OfFile(d.block, g) = Only(d.block, Q) /\ OfFile(e.block, g) = Only(e.block, Q)
      <4>1. d.block \in Seq(BRow) /\ e.block \in Seq(BRow)
        BY <1>2 DEF Tables
      <4> QED BY ONLY <4>1, WhereFile, Zenon
    <3> HIDE DEF Q, B
    <3> QED BY <1>2, <3>1, <3>2
  <2>2. ASSUME NEW p \in NameOf(g) PROVE ChunksOf(d.chunk, p) = ChunksOf(e.chunk, p)
    <3> DEFINE Q == InPrimary(CRow, p)
    <3>1. C \cap Q = Q
      BY <1>3, OneFileOfName DEF InPrimary, CRow, OfFileIn
    <3>2. ChunksOf(d.chunk, p) = Only(d.chunk, Q) /\ ChunksOf(e.chunk, p) = Only(e.chunk, Q)
      <4>1. d.chunk \in Seq(CRow) /\ e.chunk \in Seq(CRow)
        BY <1>2 DEF Tables
      <4> QED BY ONLY <4>1, WherePrimary, Zenon
    <3> HIDE DEF Q, C
    <3> QED BY <1>2, <3>1, <3>2
  <2>3. /\ g \in DOMAIN d.file <=> g \in DOMAIN e.file
        /\ g \in DOMAIN d.file => d.file[g] = e.file[g]
    BY <1>1, <1>3 DEF FileTableDelete, Restrict
  <2> QED BY <2>1, <2>2, <2>3 DEF SameRows
<1> QED BY <1>2, <1>3 DEF Tables, e
-----------------------------------------------------------------------------
\* What a returned removal promises needs calls that change a file to wait for
\* each other, as they do for one user, and no job that asks for arrangements
\* next to a format, which leaves them where they are (FileLeader::format).
Changes == {"put", "write_file", "put_idv", "touch", "rm", "format"}
OneAtATime == Free \cap Changes = {}
FormatsAlone == \A j, k \in Job : ~(j.op = "format" /\ k.op = "arrange")

Active(c) == pc[c] \notin {"idle", "crashed"}

Shape ==
    /\ pc \in [Client -> {"idle", "insert", "await", "describe", "read", "delete",
                          "format", "crashed"}]
    /\ job \in [Client -> Job \cup {NoJob}]
    /\ DOMAIN loc = Client /\ DOMAIN promise = File
    /\ DOMAIN cache = Node /\ DOMAIN db = Node
    /\ \A n \in Node :
          db[n] = [file |-> db[n].file, block |-> db[n].block, chunk |-> db[n].chunk]

InCall == \A c \in Client :
    /\ Active(c) => job[c] \in Job
    /\ pc[c] \in {"insert", "await"} => job[c].op \in {"put", "write_file", "put_idv", "touch"}
    /\ pc[c] \in {"describe", "read"} => job[c].op = "get"
    /\ pc[c] = "delete" => job[c].op = "rm"
    /\ pc[c] = "format" => job[c].op = "format"
    /\ pc[c] = "idle" => loc[c] = NoLocals /\ job[c] = NoJob

\* Of two calls on one file, one may overlap any other.
TakeTurns == \A c, d \in Client :
    c # d /\ Active(c) /\ Active(d) /\ FilesOf(job[c]) \cap FilesOf(job[d]) # {}
        => job[c].op \in Free \/ job[d].op \in Free

Exists(f) == FileTableExists(db[Home[f]], f)
Kept(f)   == f \in DOMAIN cache[Home[f]]

GoneForGood == \A f \in File : promise[f] = Gone => ~Exists(f) /\ ~Kept(f)

\* Nothing is promised about a file whose upload will be confirmed.
Unpromised == \A c \in Client : pc[c] = "await" => promise[F(c)] = NoOne

\* The nodes that a format has been to have no file.
Formatted == \A c \in Client : pc[c] = "format" =>
    \E k \in 1 .. N + 1 : /\ loc[c] = [NoLocals EXCEPT !.i = k]
                          /\ \A f \in File : Home[f] + 1 < k => ~Exists(f)

NothingKept == (\A j \in Job : j.op # "arrange") => \A f \in File : ~Kept(f)

RemovalInv ==
    Shape /\ InCall /\ TakeTurns /\ GoneForGood /\ Unpromised /\ Formatted /\ NothingKept
-----------------------------------------------------------------------------
(* What the handlers of a file leader do to the files that exist and to    *)
(* the arrangements that are kept.                                         *)

\* A row about to be uploaded does not make a file exist.
LEMMA InsertEffect ==
    ASSUME Shape, NEW n \in Node, NEW f, NEW row, row.uploading = 1, FileInsert(n, f, row)
    PROVE  /\ UNCHANGED cache /\ DOMAIN db' = Node
           /\ \A m \in Node : db'[m] = [file |-> db'[m].file, block |-> db'[m].block,
                                        chunk |-> db'[m].chunk]
           /\ \A m \in Node : \A g : FileTableExists(db'[m], g) => FileTableExists(db[m], g)
<1>1. db' = [db EXCEPT ![n] = Inserted(@, f, row)] /\ UNCHANGED cache
  BY DEF FileInsert
<1> QED BY <1>1 DEF Shape, Inserted, FileTableInsert, WithRow, FileTableExists

\* A confirmed upload concerns one file.
LEMMA ConfirmEffect ==
    ASSUME Shape, NEW n \in Node, NEW f, NEW num, NEW blockRows, NEW chunkRows,
           FileInsertConfirm(n, f, num, blockRows, chunkRows)
    PROVE  /\ UNCHANGED cache /\ DOMAIN db' = Node
           /\ \A m \in Node : db'[m] = [file |-> db'[m].file, block |-> db'[m].block,
                                        chunk |-> db'[m].chunk]
           /\ \A m \in Node : \A g : g # f => (FileTableExists(db'[m], g) <=> FileTableExists(db[m], g))
<1>1. db' = [db EXCEPT ![n] = Confirmed(@, f, num, blockRows, chunkRows)] /\ UNCHANGED cache
  BY DEF FileInsertConfirm
<1> QED BY <1>1 DEF Shape, Confirmed, FileTableConfirm, FileTableExists

\* A deleted file exists no more and has no arrangement.
LEMMA DeleteEffect ==
    ASSUME Shape, NEW n \in Node, NEW f, FileDelete(n, f)
    PROVE  /\ DOMAIN db' = Node /\ DOMAIN cache' = Node
           /\ \A m \in Node : db'[m] = [file |-> db'[m].file, block |-> db'[m].block,
                                        chunk |-> db'[m].chunk]
           /\ \A m \in Node : \A g :
                /\ FileTableExists(db'[m], g) => FileTableExists(db[m], g)
                /\ g \in DOMAIN cache'[m] => g \in DOMAIN cache[m]
           /\ ~FileTableExists(db'[n], f) /\ f \notin DOMAIN cache'[n]
<1>1. db' = [db EXCEPT ![n] = Deleted(@, f)] /\ cache' = [cache EXCEPT ![n] = Forget(@, f)]
  BY DEF FileDelete
<1> QED BY <1>1 DEF Shape, Deleted, FileTableDelete, FileTableExists, Forget, Restrict

\* Only an arrangement of a file that exists is kept.
LEMMA RequestEffect ==
    ASSUME Shape, NEW n \in Node, NEW f, NEW generate \in BOOLEAN, FileRequest(n, f, generate)
    PROVE  /\ UNCHANGED db /\ DOMAIN cache' = Node
           /\ ~generate => UNCHANGED cache
           /\ \A m \in Node : \A g : g \in DOMAIN cache'[m] =>
                g \in DOMAIN cache[m] \/ (generate /\ m = n /\ g = f /\ FileTableExists(db[n], f))
<1> DEFINE fd == FileReply(n, f, generate)
<1>1. generate /\ fd.uploading = 0 => FileTableExists(db[n], f)
  BY DEF FileReply, Description, NoDescription
<1>2. /\ UNCHANGED db
      /\ cache' = IF generate /\ fd.uploading = 0 /\ fd.is_input
                  THEN [cache EXCEPT ![n] = WithRow(@, f, fd)] ELSE cache
  BY DEF FileRequest
<1> HIDE DEF fd
<1> QED BY <1>1, <1>2 DEF Shape, WithRow

\* A formatted node has no file; its arrangements stay (FileLeader::format).
LEMMA FormatEffect ==
    ASSUME Shape, NEW n \in Node, Format(n)
    PROVE  /\ UNCHANGED cache /\ DOMAIN db' = Node
           /\ \A m \in Node : db'[m] = [file |-> db'[m].file, block |-> db'[m].block,
                                        chunk |-> db'[m].chunk]
           /\ \A m \in Node : \A g :
                FileTableExists(db'[m], g) => FileTableExists(db[m], g) /\ m # n
<1>1. db' = [db EXCEPT ![n] = EmptyDb] /\ UNCHANGED cache
  BY DEF Format
<1> QED BY <1>1 DEF Shape, EmptyDb, FileTableExists
-----------------------------------------------------------------------------
(* The steps of a client.                                                  *)

\* The file that a call is about, and its leader.
LEMMA OwnFile ==
    ASSUME Shape, InCall, NEW c \in Client, Active(c), pc[c] # "format"
    PROVE  /\ F(c) \in File /\ F(c) \in FilesOf(job[c]) /\ Home[F(c)] \in Node /\ L(c) = Home[F(c)]
           /\ job[c].op # "format"
<1>1. job[c] \in Job /\ job[c].op # "format" /\ job[c] # NoJob
  BY JobAssumption DEF Shape, InCall, Active
<1>2. "file" \in DOMAIN job[c] /\ job[c].file \in File
  BY <1>1, JobAssumption
<1> QED BY <1>1, <1>2, HomeAssumption DEF F, L, FilesOf

\* Two calls that change a file are not under way together.
LEMMA OneChanges ==
    ASSUME OneAtATime, Shape, InCall, TakeTurns, NEW c \in Client, NEW d \in Client, NEW f \in File,
           pc[c] \in {"insert", "await", "delete", "format"},
           pc[d] \in {"insert", "await", "delete", "format"},
           f \in FilesOf(job[c]), f \in FilesOf(job[d])
    PROVE  c = d
<1>1. Active(c) /\ Active(d)
  BY DEF Active
<1>2. job[c].op \in Changes /\ job[d].op \in Changes
  BY DEF InCall, Changes
<1> QED BY <1>1, <1>2 DEF OneAtATime, TakeTurns

\* Calls that end, or go on, leave the others their turns.
LEMMA TurnsStay ==
    ASSUME Shape, TakeTurns, NEW c \in Client,
           \A d \in Client \ {c} : pc'[d] = pc[d] /\ job'[d] = job[d],
           Active(c)' => Active(c) /\ job'[c] = job[c]
    PROVE  TakeTurns'
BY DEF TakeTurns, Active, FilesOf

\* A call begins when those on its file allow it.
LEMMA TurnsBegin ==
    ASSUME Shape, TakeTurns, NEW c \in Client, NEW j \in Job, Calls(c, j), job'[c] = j,
           \A d \in Client \ {c} : pc'[d] = pc[d] /\ job'[d] = job[d]
    PROVE  TakeTurns'
<1>1. ASSUME NEW d \in Client \ {c}, Active(d), FilesOf(job[d]) \cap FilesOf(j) # {}
      PROVE  job[d].op \in Free \/ j.op \in Free
  BY <1>1 DEF Calls, Quiet, Active
<1> QED BY <1>1 DEF TakeTurns, Active, FilesOf

\* A step that leaves the tables, the arrangements and the promises alone.
LEMMA Elsewhere ==
    ASSUME RemovalInv, UNCHANGED <<db, cache, promise>>, Shape', InCall', TakeTurns',
           \A d \in Client : pc'[d] = "await" => pc[d] = "await" /\ job'[d] = job[d],
           \A d \in Client : pc'[d] = "format" => pc[d] = "format" /\ loc'[d] = loc[d]
    PROVE  RemovalInv'
<1>1. GoneForGood' /\ NothingKept'
  BY DEF RemovalInv, GoneForGood, NothingKept, Exists, Kept
<1>2. Unpromised'
  BY DEF RemovalInv, Unpromised, F
<1>3. Formatted'
  BY DEF RemovalInv, Formatted, Exists
<1> QED BY <1>1, <1>2, <1>3 DEF RemovalInv

\* exists() before an upload.
LEMMA UploadExistsKeeps ==
    ASSUME RemovalInv, NEW c \in Client, NEW j \in Job, UploadExists(c, j) PROVE RemovalInv'
<1> USE DEF RemovalInv
<1>1. UNCHANGED <<db, cache, promise, loc>> /\ Calls(c, j) /\ pc[c] = "idle"
      /\ j.op \in {"put", "write_file", "put_idv", "touch"}
  BY DEF UploadExists, Calls, servers
<1>2. CASE UNCHANGED <<pc, job>>
  <2>1. Shape' /\ InCall' /\ TakeTurns'
    BY <1>1, <1>2 DEF Shape, InCall, TakeTurns, Active
  <2> QED BY <1>1, <1>2, <2>1, Elsewhere
<1>3. CASE pc' = [pc EXCEPT ![c] = "insert"] /\ job' = [job EXCEPT ![c] = j]
  <2>1. Shape' /\ InCall'
    BY <1>1, <1>3 DEF Shape, InCall, Active
  <2>2. TakeTurns'
    BY <1>1, <1>3, TurnsBegin DEF Shape
  <2> QED BY <1>1, <1>3, <2>1, <2>2, Elsewhere DEF Shape
<1> QED BY <1>2, <1>3 DEF UploadExists, Enter, Goto

\* The row of a new upload; what was promised about the file is so no more.
LEMMA SendKeeps ==
    ASSUME RemovalInv, OneAtATime, NEW c \in Client, NEW row, row.uploading = 1,
           pc[c] = "insert", pc' = [pc EXCEPT ![c] = "await"], UNCHANGED job,
           FileInsert(L(c), F(c), row), promise' = [promise EXCEPT ![F(c)] = NoOne],
           DOMAIN loc' = Client, \A d \in Client \ {c} : loc'[d] = loc[d]
    PROVE  RemovalInv'
<1> USE DEF RemovalInv
<1>1. Active(c)
  BY DEF Active
<1> PICK f \in File : f = F(c) /\ f \in FilesOf(job[c]) /\ Home[f] \in Node /\ L(c) = Home[f]
  BY <1>1, OwnFile
<1>2. FileInsert(Home[f], f, row) /\ promise' = [promise EXCEPT ![f] = NoOne]
  OBVIOUS
<1>3. /\ UNCHANGED cache /\ DOMAIN db' = Node
      /\ \A m \in Node : db'[m] = [file |-> db'[m].file, block |-> db'[m].block,
                                   chunk |-> db'[m].chunk]
      /\ \A m \in Node : \A g : FileTableExists(db'[m], g) => FileTableExists(db[m], g)
  BY <1>2, InsertEffect
<1>4. Shape' /\ InCall'
  BY <1>2, <1>3 DEF Shape, InCall, Active
<1>5. TakeTurns'
  BY <1>1, TurnsStay DEF Shape
<1>6. \A g \in File : (Exists(g)' => Exists(g)) /\ (Kept(g)' <=> Kept(g))
  BY <1>3, HomeAssumption DEF Exists, Kept
<1>7. GoneForGood' /\ NothingKept'
  BY <1>2, <1>6, MarksAssumption DEF GoneForGood, NothingKept, Shape
<1>8. Unpromised'
  <2> SUFFICES ASSUME NEW d \in Client, pc'[d] = "await" PROVE promise'[F(d)] = NoOne
    BY DEF Unpromised, F
  <2>1. d = c \/ promise[F(d)] = NoOne
    BY DEF Unpromised, Shape
  <2> QED BY <1>2, <2>1 DEF Shape
<1>9. Formatted'
  BY <1>6 DEF Formatted, Shape
<1> QED BY <1>4, <1>5, <1>7, <1>8, <1>9

\* A file that is confirmed exists from then on, and its promise is no longer
\* that it is gone.
LEMMA ConfirmKeeps ==
    ASSUME RemovalInv, OneAtATime, NEW c \in Client, NEW num, NEW blockRows, NEW chunkRows,
           NEW contents, contents # Gone, pc[c] = "await",
           Confirm(c, num, blockRows, chunkRows, contents)
    PROVE  RemovalInv'
<1> USE DEF RemovalInv
<1>1. /\ pc' = [pc EXCEPT ![c] = "idle"] /\ job' = [job EXCEPT ![c] = NoJob]
      /\ loc' = [loc EXCEPT ![c] = NoLocals] /\ Active(c)
  BY DEF Confirm, Return, Goto, Active
<1> PICK f \in File : f = F(c) /\ f \in FilesOf(job[c]) /\ Home[f] \in Node /\ L(c) = Home[f]
  BY <1>1, OwnFile
<1>2. FileInsertConfirm(Home[f], f, num, blockRows, chunkRows)
      /\ promise' = [promise EXCEPT ![f] = contents]
  BY DEF Confirm
<1>3. /\ UNCHANGED cache /\ DOMAIN db' = Node
      /\ \A m \in Node : db'[m] = [file |-> db'[m].file, block |-> db'[m].block,
                                   chunk |-> db'[m].chunk]
      /\ \A m \in Node : \A g : g # f =>
            (FileTableExists(db'[m], g) <=> FileTableExists(db[m], g))
  BY <1>2, ConfirmEffect
<1>4. Shape' /\ InCall'
  BY <1>1, <1>2, <1>3 DEF Shape, InCall, Active
<1>5. TakeTurns'
  BY <1>1, TurnsStay DEF Shape, Active
<1>6. \A g \in File : (g # f => (Exists(g)' <=> Exists(g))) /\ (Kept(g)' <=> Kept(g))
  BY <1>3, HomeAssumption DEF Exists, Kept
<1>7. GoneForGood' /\ NothingKept'
  BY <1>2, <1>6 DEF GoneForGood, NothingKept, Shape
<1>8. Unpromised'
  <2> SUFFICES ASSUME NEW d \in Client, pc'[d] = "await" PROVE promise'[F(d)'] = NoOne
    BY DEF Unpromised
  <2>1. d # c /\ pc[d] = "await" /\ F(d)' = F(d)
    BY <1>1 DEF Shape, F
  <2>2. Active(d)
    BY <2>1 DEF Active
  <2>3. F(d) # f
    BY <2>1, <2>2, OwnFile, OneChanges
  <2> QED BY <1>2, <2>1, <2>2, <2>3, OwnFile DEF Unpromised, Shape
<1>9. Formatted'
  <2> SUFFICES ASSUME NEW d \in Client, pc'[d] = "format"
               PROVE  \E k \in 1 .. N + 1 :
                          /\ loc'[d] = [NoLocals EXCEPT !.i = k]
                          /\ \A g \in File : Home[g] + 1 < k => ~Exists(g)'
    BY DEF Formatted
  <2>1. d # c /\ pc[d] = "format" /\ loc'[d] = loc[d]
    BY <1>1 DEF Shape
  <2>2. f \in FilesOf(job[d])
    BY <2>1, JobAssumption DEF InCall, FilesOf, Active
  <2> QED BY <2>1, <2>2, OneChanges
<1> QED BY <1>4, <1>5, <1>7, <1>8, <1>9

\* exists() before a download.
LEMMA GetExistsKeeps ==
    ASSUME RemovalInv, NEW c \in Client, NEW j \in Job, DownloadExists(c, j) PROVE RemovalInv'
<1> USE DEF RemovalInv
<1>1. UNCHANGED <<db, cache, promise, loc>> /\ Calls(c, j) /\ pc[c] = "idle" /\ j.op = "get"
  BY DEF DownloadExists, Calls, servers
<1>2. CASE UNCHANGED <<pc, job>>
  <2>1. Shape' /\ InCall' /\ TakeTurns'
    BY <1>1, <1>2 DEF Shape, InCall, TakeTurns, Active
  <2> QED BY <1>1, <1>2, <2>1, Elsewhere
<1>3. CASE pc' = [pc EXCEPT ![c] = "describe"] /\ job' = [job EXCEPT ![c] = j]
  <2>1. Shape' /\ InCall'
    BY <1>1, <1>3 DEF Shape, InCall, Active
  <2>2. TakeTurns'
    BY <1>1, <1>3, TurnsBegin DEF Shape
  <2> QED BY <1>1, <1>3, <2>1, <2>2, Elsewhere DEF Shape
<1> QED BY <1>2, <1>3 DEF DownloadExists, Enter, Goto

\* Steps within a call, and its end, that have to do with blocks only.
LEMMA WithinKeeps ==
    ASSUME RemovalInv, NEW c \in Client, UNCHANGED <<db, cache, promise, job>>,
           Active(c), DOMAIN loc' = Client, \A d \in Client \ {c} : loc'[d] = loc[d],
           \/ UNCHANGED pc /\ (pc[c] = "format" => loc'[c] = loc[c])
           \/ pc' = [pc EXCEPT ![c] = "read"] /\ pc[c] = "describe"
           \/ pc' = [pc EXCEPT ![c] = "crashed"]
    PROVE  RemovalInv'
<1> USE DEF RemovalInv
<1>1. Shape' /\ InCall'
  BY DEF Shape, InCall, Active
<1>2. TakeTurns'
  BY TurnsStay DEF Shape, Active
<1> QED BY <1>1, <1>2, Elsewhere DEF Shape

\* A download that returns.
LEMMA GetReturnKeeps ==
    ASSUME RemovalInv, NEW c \in Client, DownloadReturn(c) PROVE RemovalInv'
<1> USE DEF RemovalInv
<1>1. /\ pc' = [pc EXCEPT ![c] = "idle"] /\ job' = [job EXCEPT ![c] = NoJob]
      /\ loc' = [loc EXCEPT ![c] = NoLocals] /\ pc[c] = "read"
      /\ UNCHANGED <<db, cache, promise>>
  BY DEF DownloadReturn, Return, Goto, servers
<1>2. Shape' /\ InCall'
  BY <1>1 DEF Shape, InCall, Active
<1>3. TakeTurns'
  BY <1>1, TurnsStay DEF Shape, Active
<1> QED BY <1>1, <1>2, <1>3, Elsewhere DEF Shape

\* The description that a download works from.
LEMMA DescribeKeeps ==
    ASSUME RemovalInv, NEW c \in Client, DownloadDescribe(c) PROVE RemovalInv'
<1> USE DEF RemovalInv
<1>1. /\ Active(c) /\ pc[c] = "describe" /\ pc' = [pc EXCEPT ![c] = "read"] /\ UNCHANGED <<job, promise>>
      /\ DOMAIN loc' = Client /\ \A d \in Client \ {c} : loc'[d] = loc[d]
  BY DEF DownloadDescribe, Goto, Active, Shape
<1> PICK f \in File : f = F(c) /\ Home[f] \in Node /\ L(c) = Home[f]
  BY <1>1, OwnFile
<1>2. UNCHANGED <<db, cache>>
  BY RequestEffect DEF DownloadDescribe
<1> QED BY <1>1, <1>2, WithinKeeps
-----------------------------------------------------------------------------
(* Removals, arrangements and formats.                                     *)

\* A removal takes back what was promised about the file.
LEMMA RemoveDescribeKeeps ==
    ASSUME RemovalInv, NEW c \in Client, NEW j \in Job, RemoveDescribe(c, j) PROVE RemovalInv'
<1> USE DEF RemovalInv
<1> PICK f \in File : f = j.file /\ Home[f] \in Node
  BY JobAssumption, HomeAssumption DEF RemoveDescribe
<1>1. /\ Calls(c, j) /\ pc[c] = "idle" /\ j.op = "rm"
      /\ pc' = [pc EXCEPT ![c] = "delete"] /\ job' = [job EXCEPT ![c] = j]
      /\ promise' = [promise EXCEPT ![f] = NoOne]
      /\ DOMAIN loc' = Client /\ \A d \in Client \ {c} : loc'[d] = loc[d]
  BY DEF RemoveDescribe, Calls, Enter, Goto, Shape
<1>2. UNCHANGED <<db, cache>>
  BY RequestEffect DEF RemoveDescribe
<1>3. Shape' /\ InCall'
  BY <1>1, <1>2 DEF Shape, InCall, Active
<1>4. TakeTurns'
  BY <1>1, TurnsBegin DEF Shape
<1>5. GoneForGood' /\ NothingKept'
  BY <1>1, <1>2, MarksAssumption DEF GoneForGood, NothingKept, Exists, Kept, Shape
<1>6. Unpromised'
  BY <1>1 DEF Unpromised, Shape, F
<1>7. Formatted'
  BY <1>1, <1>2 DEF Formatted, Exists, Shape
<1> QED BY <1>3, <1>4, <1>5, <1>6, <1>7

\* A removed file has neither a row nor an arrangement.
LEMMA RemoveFileKeeps ==
    ASSUME RemovalInv, OneAtATime, NEW c \in Client, RemoveFile(c) PROVE RemovalInv'
<1> USE DEF RemovalInv
<1>1. /\ pc' = [pc EXCEPT ![c] = "idle"] /\ job' = [job EXCEPT ![c] = NoJob]
      /\ loc' = [loc EXCEPT ![c] = NoLocals] /\ pc[c] = "delete" /\ Active(c)
  BY DEF RemoveFile, Return, Goto, Active
<1> PICK f \in File : f = F(c) /\ f \in FilesOf(job[c]) /\ Home[f] \in Node /\ L(c) = Home[f]
  BY <1>1, OwnFile
<1>2. CASE FileDelete(Home[f], f) /\ promise' = [promise EXCEPT ![f] = Gone]
  <2>1. /\ DOMAIN db' = Node /\ DOMAIN cache' = Node
        /\ \A m \in Node : db'[m] = [file |-> db'[m].file, block |-> db'[m].block,
                                     chunk |-> db'[m].chunk]
        /\ \A m \in Node : \A g :
             /\ FileTableExists(db'[m], g) => FileTableExists(db[m], g)
             /\ g \in DOMAIN cache'[m] => g \in DOMAIN cache[m]
        /\ ~FileTableExists(db'[Home[f]], f) /\ f \notin DOMAIN cache'[Home[f]]
    BY <1>2, DeleteEffect
  <2>2. /\ \A g \in File : (Exists(g)' => Exists(g)) /\ (Kept(g)' => Kept(g))
        /\ ~Exists(f)' /\ ~Kept(f)'
    BY <2>1, HomeAssumption DEF Exists, Kept
  <2>3. Shape' /\ InCall'
    BY <1>1, <1>2, <2>1 DEF Shape, InCall, Active
  <2>4. TakeTurns'
    BY <1>1, TurnsStay DEF Shape, Active
  <2>5. GoneForGood' /\ NothingKept'
    BY <1>2, <2>2 DEF GoneForGood, NothingKept, Shape
  <2>6. Unpromised'
    <3> SUFFICES ASSUME NEW d \in Client, pc'[d] = "await" PROVE promise'[F(d)'] = NoOne
      BY DEF Unpromised
    <3>1. d # c /\ pc[d] = "await" /\ F(d)' = F(d)
      BY <1>1 DEF Shape, F
    <3>2. Active(d)
      BY <3>1 DEF Active
    <3>3. F(d) # f
      BY <1>1, <3>1, <3>2, OwnFile, OneChanges
    <3> QED BY <1>2, <3>1, <3>2, <3>3, OwnFile DEF Unpromised, Shape
  <2>7. Formatted'
    BY <1>1, <2>2 DEF Formatted, Shape
  <2> QED BY <2>3, <2>4, <2>5, <2>6, <2>7
<1>3. CASE UNCHANGED <<servers, promise>>
  <2>1. UNCHANGED <<db, cache, promise>>
    BY <1>3 DEF servers
  <2>2. Shape' /\ InCall'
    BY <1>1, <2>1 DEF Shape, InCall, Active
  <2>3. TakeTurns'
    BY <1>1, TurnsStay DEF Shape, Active
  <2> QED BY <1>1, <2>1, <2>2, <2>3, Elsewhere DEF Shape
<1> QED BY <1>2, <1>3 DEF RemoveFile

\* An arrangement is kept of a file that exists.
LEMMA ArrangeKeeps ==
    ASSUME RemovalInv, FormatsAlone, NEW c \in Client, NEW j \in Job, Arrange(c, j)
    PROVE  RemovalInv'
<1> USE DEF RemovalInv
<1> PICK f \in File : f = j.file /\ Home[f] \in Node
  BY JobAssumption, HomeAssumption DEF Arrange
<1>1. UNCHANGED <<pc, job, loc, promise>> /\ j.op = "arrange" /\ FileRequest(Home[f], f, TRUE)
  BY DEF Arrange
<1>2. /\ UNCHANGED db /\ DOMAIN cache' = Node
      /\ \A m \in Node : \A g : g \in DOMAIN cache'[m] =>
           g \in DOMAIN cache[m] \/ (m = Home[f] /\ g = f /\ FileTableExists(db[Home[f]], f))
  BY <1>1, RequestEffect
<1>3. \A g \in File : (Exists(g)' <=> Exists(g)) /\ (Kept(g)' => Kept(g) \/ Exists(g))
  BY <1>2, HomeAssumption DEF Exists, Kept
<1>4. Shape' /\ InCall' /\ TakeTurns' /\ Unpromised'
  BY <1>1, <1>2 DEF Shape, InCall, TakeTurns, Active, Unpromised, F
<1>5. GoneForGood'
  BY <1>1, <1>3 DEF GoneForGood
<1>6. NothingKept'
  BY <1>1 DEF NothingKept
<1>7. Formatted'
  BY <1>1, <1>3 DEF Formatted
<1> QED BY <1>4, <1>5, <1>6, <1>7

\* A format takes back every promise.
LEMMA FormatBeginKeeps ==
    ASSUME RemovalInv, NEW c \in Client, NEW j \in Job, FormatBegin(c, j) PROVE RemovalInv'
<1> USE DEF RemovalInv
<1>1. /\ Calls(c, j) /\ pc[c] = "idle" /\ j.op = "format" /\ UNCHANGED <<db, cache, loc>>
      /\ pc' = [pc EXCEPT ![c] = "format"] /\ job' = [job EXCEPT ![c] = j]
      /\ promise' = [f \in File |-> NoOne]
  BY DEF FormatBegin, Calls, Enter, Goto, servers
<1>2. Shape' /\ InCall'
  BY <1>1 DEF Shape, InCall, Active
<1>3. TakeTurns'
  BY <1>1, TurnsBegin DEF Shape
<1>4. GoneForGood' /\ NothingKept'
  BY <1>1, MarksAssumption DEF GoneForGood, NothingKept, Exists, Kept
<1>5. Unpromised'
  <2> SUFFICES ASSUME NEW d \in Client, pc'[d] = "await" PROVE promise'[F(d)'] = NoOne
    BY DEF Unpromised
  <2>1. pc[d] = "await" /\ F(d)' = F(d) /\ Active(d)
    BY <1>1 DEF Shape, F, Active
  <2> QED BY <1>1, <2>1, OwnFile
<1>6. Formatted'
  <2> SUFFICES ASSUME NEW d \in Client, pc'[d] = "format"
               PROVE  \E k \in 1 .. N + 1 :
                          /\ loc[d] = [NoLocals EXCEPT !.i = k]
                          /\ \A g \in File : Home[g] + 1 < k => ~Exists(g)'
    BY <1>1 DEF Formatted
  <2>1. CASE d = c
    <3>1. loc[d] = [NoLocals EXCEPT !.i = 1]
      BY <1>1, <2>1 DEF InCall, NoLocals
    <3>2. \A g \in File : ~(Home[g] + 1 < 1)
      BY HomeAssumption, NodesAssumption DEF Node
    <3>3. 1 \in 1 .. N + 1
      BY NodesAssumption
    <3> QED BY <3>1, <3>2, <3>3
  <2>2. CASE d # c
    BY <1>1, <2>2 DEF Formatted, Exists, Shape
  <2> QED BY <2>1, <2>2
<1> QED BY <1>2, <1>3, <1>4, <1>5, <1>6

\* One more node has no file.
LEMMA FormatNodeKeeps ==
    ASSUME RemovalInv, NEW c \in Client, FormatNode(c) PROVE RemovalInv'
<1> USE DEF RemovalInv
<1>1. /\ pc[c] = "format" /\ UNCHANGED <<pc, job, promise>> /\ loc[c].i <= N
      /\ Format(loc[c].i - 1) /\ loc' = [loc EXCEPT ![c].i = @ + 1]
  BY DEF FormatNode
<1>2. PICK k \in 1 .. N + 1 : /\ loc[c] = [NoLocals EXCEPT !.i = k]
                              /\ \A g \in File : Home[g] + 1 < k => ~Exists(g)
  BY <1>1 DEF Formatted
<1>3. loc[c].i = k /\ loc' = [loc EXCEPT ![c] = [NoLocals EXCEPT !.i = k + 1]]
  BY <1>1, <1>2 DEF NoLocals, Shape
<1>4. PICK n \in Node : n = k - 1 /\ Format(n)
  BY <1>1, <1>3, NodesAssumption DEF Node
<1>5. /\ UNCHANGED cache /\ DOMAIN db' = Node
      /\ \A m \in Node : db'[m] = [file |-> db'[m].file, block |-> db'[m].block,
                                   chunk |-> db'[m].chunk]
      /\ \A m \in Node : \A g :
           FileTableExists(db'[m], g) => FileTableExists(db[m], g) /\ m # n
  BY <1>4, FormatEffect
<1>6. \A g \in File : (Exists(g)' => Exists(g) /\ Home[g] # n) /\ (Kept(g)' <=> Kept(g))
  BY <1>5, HomeAssumption DEF Exists, Kept
<1>7. Shape' /\ InCall' /\ TakeTurns' /\ Unpromised'
  BY <1>1, <1>3, <1>5 DEF Shape, InCall, TakeTurns, Active, Unpromised, F
<1>8. GoneForGood' /\ NothingKept'
  BY <1>1, <1>6 DEF GoneForGood, NothingKept
<1>9. Formatted'
  <2> SUFFICES ASSUME NEW d \in Client, pc[d] = "format"
               PROVE  \E l \in 1 .. N + 1 :
                          /\ loc'[d] = [NoLocals EXCEPT !.i = l]
                          /\ \A g \in File : Home[g] + 1 < l => ~Exists(g)'
    BY <1>1 DEF Formatted
  <2>1. CASE d = c
    <3>1. k + 1 \in 1 .. N + 1
      BY <1>1, <1>3, NodesAssumption
    <3>2. \A g \in File : Home[g] + 1 < k + 1 => ~Exists(g)'
      BY <1>2, <1>4, <1>6, HomeAssumption, NodesAssumption DEF Node
    <3> QED BY <1>3, <2>1, <3>1, <3>2 DEF Shape
  <2>2. CASE d # c
    BY <1>3, <1>6, <2>2 DEF Formatted, Shape
  <2> QED BY <2>1, <2>2
<1> QED BY <1>7, <1>8, <1>9

\* All nodes have been formatted, and nobody has uploaded meanwhile.
LEMMA FormatReturnKeeps ==
    ASSUME RemovalInv, OneAtATime, FormatsAlone, NEW c \in Client, FormatReturn(c)
    PROVE  RemovalInv'
<1> USE DEF RemovalInv
<1>1. /\ pc' = [pc EXCEPT ![c] = "idle"] /\ job' = [job EXCEPT ![c] = NoJob]
      /\ loc' = [loc EXCEPT ![c] = NoLocals] /\ pc[c] = "format" /\ loc[c].i > N
      /\ UNCHANGED <<db, cache>> /\ promise' = [f \in File |-> Gone]
  BY DEF FormatReturn, Return, Goto, servers
<1>2. \A g \in File : ~Exists(g)
  <2>1. PICK k \in 1 .. N + 1 : /\ loc[c] = [NoLocals EXCEPT !.i = k]
                                /\ \A g \in File : Home[g] + 1 < k => ~Exists(g)
    BY <1>1 DEF Formatted
  <2>2. k = N + 1
    BY <1>1, <2>1, NodesAssumption DEF NoLocals
  <2> QED BY <2>1, <2>2, HomeAssumption, NodesAssumption DEF Node
<1>3. \A g \in File : ~Kept(g)
  BY <1>1 DEF InCall, Active, FormatsAlone, NothingKept
<1>4. Shape' /\ InCall'
  BY <1>1 DEF Shape, InCall, Active
<1>5. TakeTurns'
  BY <1>1, TurnsStay DEF Shape, Active
<1>6. GoneForGood' /\ NothingKept'
  BY <1>1, <1>2, <1>3 DEF GoneForGood, NothingKept, Exists, Kept
<1>7. Unpromised'
  <2> SUFFICES ASSUME NEW d \in Client, pc'[d] = "await" PROVE FALSE
    BY DEF Unpromised
  <2>1. d # c /\ pc[d] = "await" /\ Active(d)
    BY <1>1 DEF Shape, Active
  <2>2. F(d) \in FilesOf(job[c])
    BY <1>1, <2>1, OwnFile, JobAssumption DEF InCall, Active, FilesOf
  <2> QED BY <1>1, <2>1, <2>2, OwnFile, OneChanges
<1>8. Formatted'
  BY <1>1 DEF Formatted, Exists, Shape
<1> QED BY <1>4, <1>5, <1>6, <1>7, <1>8
-----------------------------------------------------------------------------
(* The files that are gone.                                                *)

\* Every step keeps the invariant.
LEMMA StepKeeps ==
    ASSUME OneAtATime, FormatsAlone, RemovalInv, [Next]_vars PROVE RemovalInv'
<1> USE DEF RemovalInv
<1>1. ASSUME NEW c \in Client, NEW j \in Job, Call(c, j) PROVE RemovalInv'
  BY <1>1, UploadExistsKeeps, GetExistsKeeps, RemoveDescribeKeeps, ArrangeKeeps,
     FormatBeginKeeps DEF Call
<1>2. ASSUME NEW c \in Client, NEW op, SendChunks(c, op) PROVE RemovalInv'
  <2>1. FileRow(Chunks[c], TRUE).uploading = 1
    BY DEF FileRow
  <2>2. DOMAIN loc' = Client /\ \A d \in Client \ {c} : loc'[d] = loc[d]
    BY <1>2 DEF SendChunks, Shape
  <2> QED BY <1>2, <2>1, <2>2, SendKeeps DEF SendChunks, Goto
<1>3. ASSUME NEW c \in Client, IdvInsert(c) PROVE RemovalInv'
  <2>1. FileRow(Chunks[c], TRUE).uploading = 1
    BY DEF FileRow
  <2>2. DOMAIN loc' = Client /\ \A d \in Client \ {c} : loc'[d] = loc[d]
    BY <1>3 DEF IdvInsert, Shape
  <2> QED BY <1>3, <2>1, <2>2, SendKeeps DEF IdvInsert, Goto
<1>4. ASSUME NEW c \in Client, TouchInsert(c) PROVE RemovalInv'
  <2>1. FileRow(0, FALSE).uploading = 1
    BY DEF FileRow
  <2>2. DOMAIN loc' = Client /\ \A d \in Client \ {c} : loc'[d] = loc[d]
    BY <1>4 DEF TouchInsert, Shape
  <2> QED BY <1>4, <2>1, <2>2, SendKeeps DEF TouchInsert, Goto
<1>5. ASSUME NEW c \in Client,
             UploadConfirm(c) \/ WriteFileConfirm(c) \/ IdvConfirm(c) \/ TouchConfirm(c)
      PROVE  RemovalInv'
  <2>1. Content(c) # Gone /\ Apart # Gone /\ <<>> # Gone
    BY MarksAssumption
  <2> QED BY <1>5, <2>1, ConfirmKeeps
          DEF UploadConfirm, WriteFileConfirm, ConfirmChunks, IdvConfirm, TouchConfirm
<1>6. ASSUME NEW c \in Client, ServeBlock(c) PROVE RemovalInv'
  <2>1. UNCHANGED <<db, cache, promise, pc, job, loc>>
    BY <1>6 DEF ServeBlock
  <2>2. Shape' /\ InCall' /\ TakeTurns'
    BY <2>1 DEF Shape, InCall, TakeTurns, Active
  <2> QED BY <2>1, <2>2, Elsewhere
<1>7. ASSUME NEW c \in Client, DownloadBlock(c) \/ RemoveBlock(c) PROVE RemovalInv'
  <2>1. /\ UNCHANGED <<db, cache, promise, pc, job>> /\ pc[c] \in {"read", "delete"}
        /\ DOMAIN loc' = Client /\ \A d \in Client \ {c} : loc'[d] = loc[d]
    BY <1>7 DEF DownloadBlock, RemoveBlock, servers, Shape
  <2> QED BY <2>1, WithinKeeps DEF Active
<1>8. ASSUME NEW c \in Client, DownloadDies(c) \/ Crash(c) PROVE RemovalInv'
  <2>1. /\ UNCHANGED <<db, cache, promise, job>> /\ pc' = [pc EXCEPT ![c] = "crashed"] /\ Active(c)
        /\ DOMAIN loc' = Client /\ \A d \in Client \ {c} : loc'[d] = loc[d]
    BY <1>8 DEF Crash, DownloadDies, Dies, Goto, servers, Shape, Active
  <2> QED BY <2>1, WithinKeeps
<1>9. CASE Replicate \/ UNCHANGED vars
  <2>1. UNCHANGED <<db, cache, promise, pc, job, loc>>
    BY <1>9 DEF Replicate, client, vars, servers
  <2>2. Shape' /\ InCall' /\ TakeTurns'
    BY <2>1 DEF Shape, InCall, TakeTurns, Active
  <2> QED BY <2>1, <2>2, Elsewhere
<1>10. ASSUME NEW c \in Client, Step(c) PROVE RemovalInv'
  BY <1>10, <1>1, <1>2, <1>3, <1>4, <1>5, <1>6, <1>7, <1>8, DescribeKeeps, GetReturnKeeps,
     RemoveFileKeeps, FormatNodeKeeps, FormatReturnKeeps DEF Step, UploadInsert, WriteFileInsert
<1> QED BY <1>8, <1>9, <1>10 DEF Next

\* At the start every file is gone.
LEMMA InitRemoval == Init => RemovalInv
<1> SUFFICES ASSUME Init PROVE RemovalInv
  OBVIOUS
<1>1. /\ pc = [c \in Client |-> "idle"] /\ job = [c \in Client |-> NoJob]
      /\ loc = [c \in Client |-> NoLocals] /\ promise = [f \in File |-> Gone]
      /\ db = [n \in Node |-> EmptyDb] /\ cache = [n \in Node |-> <<>>]
  BY DEF Init, LeaderInit
<1>2. Shape
  BY <1>1 DEF Shape, EmptyDb
<1>3. InCall /\ TakeTurns /\ Unpromised /\ Formatted
  BY <1>1 DEF InCall, TakeTurns, Active, Unpromised, Formatted
<1>4. GoneForGood /\ NothingKept
  BY <1>1, HomeAssumption DEF GoneForGood, NothingKept, Exists, Kept, EmptyDb, FileTableExists
<1> QED BY <1>2, <1>3, <1>4 DEF RemovalInv

\* Where calls that change files wait for each other and nobody formats next to
\* jobs, a file that a returned rm or format has taken away is not described
\* to anybody, whoever died in the middle of a call before (DFS::remove,
\* FileLeader::file_delete and file_request).
THEOREM RemovedForGood ==
    ASSUME OneAtATime, FormatsAlone PROVE Spec => []RemovedStaysRemoved
<1>1. Init => RemovalInv
  BY InitRemoval
<1>2. RemovalInv /\ [Next]_vars => RemovalInv'
  BY StepKeeps
<1>3. RemovalInv => RemovedStaysRemoved
  BY DEF RemovalInv, GoneForGood, RemovedStaysRemoved, FileReply, Description, Exists, Kept
<1> QED BY <1>1, <1>2, <1>3, PTL DEF Spec
-----------------------------------------------------------------------------
(* Kept arrangements.                                                      *)
LocShape == \A c \in Client : DOMAIN loc[c] = DOMAIN NoLocals

Typed == \A n \in Node : Tables(db[n])

\* The keys that the rows of an upload will be written with.
KeysDrawn == \A c \in Client : pc[c] = "await" =>
    IF job[c].op = "touch" THEN loc[c].key[L(c)] \in Node ELSE Keyed(c, F(c))

\* A file that is being uploaded does not exist: its arrangement is not kept.
Unborn == \A c \in Client : pc[c] \in {"insert", "await"} => ~Exists(F(c))

KeptFresh == \A n \in Node : \A f \in DOMAIN cache[n] :
    /\ f \in File /\ Home[f] = n /\ Exists(f)
    /\ cache[n][f] = Description(db[n], f)

ArrangementInv == LocShape /\ Typed /\ KeysDrawn /\ Unborn /\ KeptFresh

\* A step that leaves the tables and the arrangements alone.
LEMMA TablesAlone ==
    ASSUME ArrangementInv, UNCHANGED <<db, cache>>, LocShape',
           \A d \in Client : pc'[d] = "await" =>
               pc[d] = "await" /\ job'[d] = job[d] /\ loc'[d].key = loc[d].key,
           \A d \in Client : pc'[d] \in {"insert", "await"} =>
               \/ pc[d] \in {"insert", "await"} /\ job'[d] = job[d]
               \/ ~Exists(job'[d].file)
    PROVE  ArrangementInv'
<1>1. Typed' /\ KeptFresh'
  BY DEF ArrangementInv, Typed, KeptFresh, Exists
<1>2. KeysDrawn'
  BY DEF ArrangementInv, KeysDrawn, L, F, Keyed
<1>3. Unborn'
  BY DEF ArrangementInv, Unborn, F, Exists
<1> QED BY <1>1, <1>2, <1>3 DEF ArrangementInv

\* A step of one client that leaves the tables and the arrangements alone, and
\* does not begin an upload.
LEMMA TablesAloneStep ==
    ASSUME ArrangementInv, Shape, UNCHANGED <<db, cache>>, NEW c \in Client,
           \A d \in Client \ {c} : pc'[d] = pc[d] /\ job'[d] = job[d] /\ loc'[d] = loc[d],
           DOMAIN loc'[c] = DOMAIN NoLocals, pc'[c] \notin {"insert", "await"}
    PROVE  ArrangementInv'
<1>1. LocShape'
  BY DEF ArrangementInv, LocShape
<1> QED BY <1>1, TablesAlone

\* A file that an upload begins with did not exist.
LEMMA UploadExistsArr ==
    ASSUME ArrangementInv, RemovalInv, NEW c \in Client, NEW j \in Job, UploadExists(c, j)
    PROVE  ArrangementInv'
<1>1. UNCHANGED <<db, cache, loc>> /\ Shape
  BY DEF UploadExists, servers, RemovalInv
<1>2. LocShape'
  BY <1>1 DEF ArrangementInv, LocShape
<1>3. CASE UNCHANGED <<pc, job>>
  BY <1>1, <1>2, <1>3, TablesAlone
<1>4. CASE ~FileTableExists(db[Home[j.file]], j.file) /\ pc' = [pc EXCEPT ![c] = "insert"]
           /\ job' = [job EXCEPT ![c] = j]
  BY <1>1, <1>2, <1>4, TablesAlone DEF Shape, Exists
<1> QED BY <1>3, <1>4 DEF UploadExists, Enter, Goto

\* The row of a new upload changes no description.
LEMMA SendArr ==
    ASSUME ArrangementInv, RemovalInv, NEW c \in Client, NEW row, row.uploading = 1,
           pc[c] = "insert", pc' = [pc EXCEPT ![c] = "await"], UNCHANGED job,
           FileInsert(L(c), F(c), row), DOMAIN loc' = Client,
           \A d \in Client \ {c} : loc'[d] = loc[d], DOMAIN loc'[c] = DOMAIN NoLocals,
           IF job[c].op = "touch" THEN loc'[c].key[L(c)] \in Node
           ELSE loc'[c].key \in [Used(c, F(c)) -> Node]
    PROVE  ArrangementInv'
<1>1. Shape /\ InCall /\ Active(c)
  BY DEF RemovalInv, Active
<1> PICK f \in File : f = F(c) /\ Home[f] \in Node /\ L(c) = Home[f]
  BY <1>1, OwnFile
<1> DEFINE n == Home[f]
<1>2. db' = [db EXCEPT ![n] = Inserted(@, f, row)] /\ UNCHANGED cache
  BY DEF FileInsert
<1>3. /\ DOMAIN db' = Node
      /\ \A m \in Node : \A g : FileTableExists(db'[m], g) => FileTableExists(db[m], g)
  BY <1>1, InsertEffect
<1>4. LocShape'
  BY DEF ArrangementInv, LocShape
<1>5. \A m \in Node : Tables(db[m]) /\ (m # n => db'[m] = db[m])
  BY <1>1, <1>2 DEF ArrangementInv, Typed, Shape
<1>6. db'[n] = Inserted(db[n], f, row)
  BY <1>1, <1>2 DEF Shape
<1>7. Typed'
  BY <1>5, <1>6, InsertedSame DEF Typed
<1>8. KeysDrawn'
  <2> SUFFICES ASSUME NEW d \in Client, pc'[d] = "await"
               PROVE  IF job[d].op = "touch" THEN loc'[d].key[L(d)] \in Node
                      ELSE loc'[d].key \in [Used(d, F(d)) -> Node]
    BY DEF KeysDrawn, Keyed, L, F
  <2>1. CASE d = c
    BY <2>1
  <2>2. CASE d # c
    BY <1>1, <2>2 DEF ArrangementInv, KeysDrawn, Keyed, Shape
  <2> QED BY <2>1, <2>2
<1>9. \A g \in File : Exists(g)' => Exists(g)
  BY <1>3, HomeAssumption DEF Exists
<1>10. Unborn'
  <2> SUFFICES ASSUME NEW d \in Client, pc'[d] \in {"insert", "await"} PROVE ~Exists(F(d))'
    BY DEF Unborn, F
  <2>1. pc[d] \in {"insert", "await"} /\ ~Exists(F(d)) /\ F(d)' = F(d)
    BY <1>1 DEF ArrangementInv, Unborn, Shape, F
  <2>2. F(d) \in File
    BY <1>1, <2>1, OwnFile DEF Active
  <2> QED BY <1>9, <2>1, <2>2 DEF Exists
<1>11. KeptFresh'
  <2> SUFFICES ASSUME NEW m \in Node, NEW g \in DOMAIN cache[m]
               PROVE  /\ g \in File /\ Home[g] = m /\ Exists(g)'
                      /\ cache[m][g] = Description(db'[m], g)
    BY <1>2 DEF KeptFresh
  <2>1. g \in File /\ Home[g] = m /\ Exists(g) /\ cache[m][g] = Description(db[m], g)
    BY DEF ArrangementInv, KeptFresh
  <2>2. CASE m = n
    <3>1. g \in DOMAIN db[n].file
      BY <2>1, <2>2 DEF Exists, FileTableExists
    <3>2. Tables(db'[n]) /\ SameRows(db[n], db'[n], g)
      BY <1>5, <1>6, <3>1, InsertedSame
    <3>3. Description(db[n], g) = Description(db'[n], g)
      BY <1>5, <3>2, SameDescription
    <3>4. Exists(g)'
      BY <2>1, <2>2, <3>2 DEF Exists, SameRows, FileTableExists
    <3> QED BY <2>1, <2>2, <3>3, <3>4
  <2>3. CASE m # n
    BY <1>5, <2>1, <2>3 DEF Exists
  <2> QED BY <2>2, <2>3
<1> QED BY <1>4, <1>7, <1>8, <1>10, <1>11 DEF ArrangementInv

\* A confirmed upload: the file did not exist, so that it has no arrangement.
LEMMA ConfirmArr ==
    ASSUME ArrangementInv, RemovalInv, OneAtATime, NEW c \in Client, NEW num,
           NEW blockRows \in Seq(BRowOf(F(c))), NEW chunkRows \in Seq(CRowOf(F(c))),
           NEW contents, pc[c] = "await", Confirm(c, num, blockRows, chunkRows, contents)
    PROVE  ArrangementInv'
<1>1. /\ pc' = [pc EXCEPT ![c] = "idle"] /\ job' = [job EXCEPT ![c] = NoJob]
      /\ loc' = [loc EXCEPT ![c] = NoLocals] /\ Active(c) /\ Shape /\ InCall /\ TakeTurns
  BY DEF Confirm, Return, Goto, Active, RemovalInv
<1> PICK f \in File : f = F(c) /\ f \in FilesOf(job[c]) /\ Home[f] \in Node /\ L(c) = Home[f]
  BY <1>1, OwnFile
<1> DEFINE n == Home[f]
<1>2. FileInsertConfirm(n, f, num, blockRows, chunkRows)
  BY DEF Confirm
<1>3. db' = [db EXCEPT ![n] = Confirmed(@, f, num, blockRows, chunkRows)] /\ UNCHANGED cache
  BY <1>2 DEF FileInsertConfirm
<1>4. LocShape'
  BY <1>1 DEF ArrangementInv, LocShape, Shape
<1>5. \A m \in Node : Tables(db[m]) /\ (m # n => db'[m] = db[m])
  BY <1>1, <1>3 DEF ArrangementInv, Typed, Shape
<1>6. db'[n] = Confirmed(db[n], f, num, blockRows, chunkRows)
  BY <1>1, <1>3 DEF Shape
<1>7. Tables(db'[n]) /\ \A g : g # f => SameRows(db[n], db'[n], g)
  <2>1. Tables(db[n]) /\ blockRows \in Seq(BRowOf(f)) /\ chunkRows \in Seq(CRowOf(f))
    BY <1>5
  <2> QED BY <1>6, <2>1, ConfirmedSame
<1>8. Typed'
  BY <1>5, <1>7 DEF Typed
<1>9. KeysDrawn'
  <2> SUFFICES ASSUME NEW d \in Client, pc'[d] = "await"
               PROVE  IF job'[d].op = "touch" THEN loc'[d].key[L(d)'] \in Node
                      ELSE loc'[d].key \in [Used(d, F(d)') -> Node]
    BY DEF KeysDrawn, Keyed
  <2>1. d # c /\ pc[d] = "await" /\ job'[d] = job[d] /\ loc'[d] = loc[d] /\ F(d)' = F(d) /\ L(d)' = L(d)
    BY <1>1 DEF Shape, F, L
  <2> QED BY <2>1 DEF ArrangementInv, KeysDrawn, Keyed
<1>10. \A g \in File : g # f => (Exists(g)' <=> Exists(g))
  <2>1. \A m \in Node : \A g : g # f => (FileTableExists(db'[m], g) <=> FileTableExists(db[m], g))
    BY <1>1, <1>2, ConfirmEffect
  <2> QED BY <2>1, HomeAssumption DEF Exists
<1>11. Unborn'
  <2> SUFFICES ASSUME NEW d \in Client, pc'[d] \in {"insert", "await"} PROVE ~Exists(F(d))'
    BY DEF Unborn
  <2>1. d # c /\ pc[d] \in {"insert", "await"} /\ F(d)' = F(d)
    BY <1>1 DEF Shape, F
  <2>2. Active(d)
    BY <2>1 DEF Active
  <2>3. F(d) \in File /\ F(d) # f
    BY <1>1, <2>1, <2>2, OwnFile, OneChanges
  <2> QED BY <1>10, <2>1, <2>3 DEF ArrangementInv, Unborn
<1>12. KeptFresh'
  <2> SUFFICES ASSUME NEW m \in Node, NEW g \in DOMAIN cache[m]
               PROVE  /\ g \in File /\ Home[g] = m /\ Exists(g)'
                      /\ cache[m][g] = Description(db'[m], g)
    BY <1>3 DEF KeptFresh
  <2>1. g \in File /\ Home[g] = m /\ Exists(g) /\ cache[m][g] = Description(db[m], g)
    BY DEF ArrangementInv, KeptFresh
  <2>2. g # f
    BY <2>1 DEF ArrangementInv, Unborn
  <2>3. Description(db[m], g) = Description(db'[m], g)
    <3>1. CASE m = n
      BY <1>5, <1>7, <2>2, <3>1, SameDescription
    <3>2. CASE m # n
      BY <1>5, <3>2
    <3> QED BY <3>1, <3>2
  <2> QED BY <1>10, <2>1, <2>2, <2>3
<1> QED BY <1>4, <1>8, <1>9, <1>11, <1>12 DEF ArrangementInv

\* With its rows goes the arrangement of a file.
LEMMA RemoveFileArr ==
    ASSUME ArrangementInv, RemovalInv, NEW c \in Client, RemoveFile(c)
    PROVE  ArrangementInv'
<1>1. /\ pc' = [pc EXCEPT ![c] = "idle"] /\ job' = [job EXCEPT ![c] = NoJob] /\ pc[c] = "delete"
      /\ loc' = [loc EXCEPT ![c] = NoLocals] /\ Active(c) /\ Shape /\ InCall
  BY DEF RemoveFile, Return, Goto, Active, RemovalInv
<1>2. \A d \in Client \ {c} : pc'[d] = pc[d] /\ job'[d] = job[d] /\ loc'[d] = loc[d]
  BY <1>1 DEF Shape
<1>3. pc'[c] = "idle" /\ loc'[c] = NoLocals
  BY <1>1 DEF Shape
<1> PICK f \in File : f = F(c) /\ Home[f] \in Node /\ L(c) = Home[f]
  BY <1>1, OwnFile
<1> DEFINE n == Home[f]
<1>4. CASE UNCHANGED servers
  BY <1>1, <1>2, <1>3, <1>4, TablesAloneStep DEF servers
<1>5. CASE FileDelete(n, f)
  <2>1. db' = [db EXCEPT ![n] = Deleted(@, f)] /\ cache' = [cache EXCEPT ![n] = Forget(@, f)]
    BY <1>5 DEF FileDelete
  <2>2. \A m \in Node : Tables(db[m]) /\ (m # n => db'[m] = db[m] /\ cache'[m] = cache[m])
    BY <1>1, <2>1 DEF ArrangementInv, Typed, Shape
  <2>3. db'[n] = Deleted(db[n], f) /\ cache'[n] = Forget(cache[n], f)
    BY <1>1, <2>1 DEF Shape
  <2>4. Tables(db'[n]) /\ \A g : g # f => SameRows(db[n], db'[n], g)
    BY <2>2, <2>3, DeletedSame
  <2>5. LocShape' /\ Typed'
    BY <1>2, <1>3, <2>2, <2>4 DEF ArrangementInv, LocShape, Typed
  <2>6. KeysDrawn'
    BY <1>2, <1>3 DEF ArrangementInv, KeysDrawn, Keyed, F, L
  <2>7. \A g \in File : Exists(g)' => Exists(g)
    BY <1>1, <1>5, DeleteEffect, HomeAssumption DEF Exists
  <2>8. Unborn'
    <3> SUFFICES ASSUME NEW d \in Client, pc'[d] \in {"insert", "await"} PROVE ~Exists(F(d))'
      BY DEF Unborn
    <3>1. d # c /\ pc[d] \in {"insert", "await"} /\ F(d)' = F(d) /\ Active(d)
      BY <1>2, <1>3 DEF F, Active
    <3>2. F(d) \in File /\ ~Exists(F(d))
      BY <1>1, <3>1, OwnFile DEF ArrangementInv, Unborn
    <3> QED BY <2>7, <3>1, <3>2 DEF Exists
  <2>9. KeptFresh'
    <3> SUFFICES ASSUME NEW m \in Node, NEW g \in DOMAIN cache'[m]
                 PROVE  /\ g \in File /\ Home[g] = m /\ Exists(g)'
                        /\ cache'[m][g] = Description(db'[m], g)
      BY DEF KeptFresh
    <3>1. CASE m # n
      BY <2>2, <3>1 DEF ArrangementInv, KeptFresh, Exists
    <3>2. CASE m = n
      <4>1. g \in DOMAIN cache[n] /\ g # f /\ cache'[n][g] = cache[n][g]
        BY <2>3, <3>2 DEF Forget, Restrict
      <4>2. g \in File /\ Home[g] = n /\ Exists(g) /\ cache[n][g] = Description(db[n], g)
        BY <4>1 DEF ArrangementInv, KeptFresh
      <4>3. Description(db[n], g) = Description(db'[n], g)
        BY <2>2, <2>4, <4>1, SameDescription
      <4>4. Exists(g)'
        BY <2>4, <4>1, <4>2 DEF Exists, SameRows, FileTableExists
      <4> QED BY <3>2, <4>1, <4>2, <4>3, <4>4
    <3> QED BY <3>1, <3>2
  <2> QED BY <2>5, <2>6, <2>8, <2>9 DEF ArrangementInv
<1> QED BY <1>4, <1>5 DEF RemoveFile

\* An arrangement that is kept is what the tables say at that moment.
LEMMA ArrangeArr ==
    ASSUME ArrangementInv, RemovalInv, NEW c \in Client, NEW j \in Job, Arrange(c, j)
    PROVE  ArrangementInv'
<1> PICK f \in File : f = j.file /\ Home[f] \in Node
  BY JobAssumption, HomeAssumption DEF Arrange
<1> DEFINE n == Home[f]
           fd == FileReply(n, f, TRUE)
<1>1. UNCHANGED <<pc, job, loc, db>> /\ Shape
      /\ cache' = IF fd.uploading = 0 /\ fd.is_input
                  THEN [cache EXCEPT ![n] = WithRow(@, f, fd)] ELSE cache
  BY DEF Arrange, FileRequest, RemovalInv
<1>2. fd = Description(db[n], f)
  BY DEF FileReply
<1> HIDE DEF fd
<1>3. LocShape' /\ Typed' /\ KeysDrawn' /\ Unborn'
  BY <1>1 DEF ArrangementInv, LocShape, Typed, KeysDrawn, Unborn, Keyed, L, F, Exists
<1>4. CASE UNCHANGED cache
  BY <1>1, <1>3, <1>4 DEF ArrangementInv, KeptFresh, Exists
<1>5. CASE cache' = [cache EXCEPT ![n] = WithRow(@, f, fd)] /\ fd.uploading = 0
  <2>1. Exists(f)
    BY <1>2, <1>5 DEF Description, NoDescription, Exists
  <2>2. \A m \in Node : cache'[m] = IF m = n THEN WithRow(cache[n], f, fd) ELSE cache[m]
    BY <1>1, <1>5 DEF Shape
  <2>3. KeptFresh'
    <3> SUFFICES ASSUME NEW m \in Node, NEW g \in DOMAIN cache'[m]
                 PROVE  /\ g \in File /\ Home[g] = m /\ Exists(g)
                        /\ cache'[m][g] = Description(db[m], g)
      BY <1>1 DEF KeptFresh, Exists
    <3>1. CASE m = n /\ g = f
      BY <1>2, <2>1, <2>2, <3>1 DEF WithRow
    <3>2. CASE ~(m = n /\ g = f)
      <4>1. CASE m = n
        <5>1. cache'[n] = WithRow(cache[n], f, fd) /\ g \in DOMAIN cache'[n] /\ g # f
          BY <2>2, <3>2, <4>1
        <5>2. g \in DOMAIN cache[n] /\ cache'[n][g] = cache[n][g]
          BY ONLY <5>1 DEF WithRow
        <5>3. g \in File /\ Home[g] = n /\ Exists(g) /\ cache[n][g] = Description(db[n], g)
          BY <5>2 DEF ArrangementInv, KeptFresh
        <5> QED BY <4>1, <5>2, <5>3
      <4>2. CASE m # n
        <5>1. cache'[m] = cache[m]
          BY <2>2, <4>2
        <5> QED BY <5>1 DEF ArrangementInv, KeptFresh
      <4> QED BY <4>1, <4>2
    <3> QED BY <3>1, <3>2
  <2> QED BY <1>3, <2>3 DEF ArrangementInv
<1> QED BY <1>1, <1>4, <1>5

\* Where somebody formats, nobody has asked for an arrangement.
LEMMA FormatNodeArr ==
    ASSUME ArrangementInv, RemovalInv, FormatsAlone, NEW c \in Client, FormatNode(c)
    PROVE  ArrangementInv'
<1>1. /\ pc[c] = "format" /\ UNCHANGED <<pc, job>> /\ loc[c].i <= N
      /\ Format(loc[c].i - 1) /\ loc' = [loc EXCEPT ![c].i = @ + 1] /\ Shape /\ InCall
  BY DEF FormatNode, RemovalInv
<1>2. PICK n \in Node : n = loc[c].i - 1
  <2>1. PICK k \in 1 .. N + 1 : loc[c] = [NoLocals EXCEPT !.i = k]
    BY <1>1 DEF RemovalInv, Formatted
  <2>2. loc[c].i = k
    BY <2>1 DEF NoLocals
  <2> QED BY <1>1, <2>2, NodesAssumption DEF Node
<1>3. db' = [db EXCEPT ![n] = EmptyDb] /\ UNCHANGED cache
  BY <1>1, <1>2 DEF Format
<1>4. \A d \in Client : DOMAIN loc'[d] = DOMAIN loc[d] /\ (d # c => loc'[d] = loc[d])
  BY <1>1 DEF Shape
<1>5. LocShape' /\ KeysDrawn'
  BY <1>1, <1>4 DEF ArrangementInv, LocShape, KeysDrawn, Keyed, F, L
<1>6. Typed'
  <2>1. Tables(EmptyDb)
    BY DEF Tables, EmptyDb
  <2>2. \A m \in Node : db'[m] = IF m = n THEN EmptyDb ELSE db[m]
    BY <1>1, <1>3 DEF Shape
  <2> QED BY <2>1, <2>2 DEF ArrangementInv, Typed
<1>7. Unborn'
  <2> SUFFICES ASSUME NEW d \in Client, pc[d] \in {"insert", "await"} PROVE ~Exists(F(d))'
    BY <1>1 DEF Unborn
  <2>1. F(d) \in File /\ ~Exists(F(d)) /\ F(d)' = F(d)
    BY <1>1, OwnFile DEF ArrangementInv, Unborn, Active, F
  <2>2. Exists(F(d))' => Exists(F(d))
    <3>1. \A m \in Node : \A g : FileTableExists(db'[m], g) => FileTableExists(db[m], g)
      BY <1>1, <1>2, FormatEffect
    <3> QED BY <2>1, <3>1, HomeAssumption DEF Exists
  <2> QED BY <2>1, <2>2
<1>8. KeptFresh'
  <2>1. \A m \in Node : DOMAIN cache[m] = {}
    <3>1. \A j \in Job : j.op # "arrange"
      BY <1>1 DEF InCall, Active, FormatsAlone
    <3>2. \A g \in File : g \notin DOMAIN cache[Home[g]]
      BY <3>1 DEF RemovalInv, NothingKept, Kept
    <3> QED BY <3>2 DEF ArrangementInv, KeptFresh
  <2> QED BY <1>3, <2>1 DEF KeptFresh
<1> QED BY <1>5, <1>6, <1>7, <1>8 DEF ArrangementInv

\* Nothing is kept at the start.
LEMMA InitArr == Init => ArrangementInv
<1> SUFFICES ASSUME Init PROVE ArrangementInv
  OBVIOUS
<1>1. /\ pc = [c \in Client |-> "idle"] /\ loc = [c \in Client |-> NoLocals]
      /\ db = [n \in Node |-> EmptyDb] /\ cache = [n \in Node |-> <<>>]
  BY DEF Init, LeaderInit
<1>2. LocShape /\ KeysDrawn /\ Unborn /\ KeptFresh
  BY <1>1 DEF LocShape, KeysDrawn, Unborn, KeptFresh
<1>3. Tables(EmptyDb)
  BY DEF Tables, EmptyDb
<1> QED BY <1>1, <1>2, <1>3 DEF ArrangementInv, Typed

\* Every step keeps the invariant.
LEMMA StepArr ==
    ASSUME OneAtATime, FormatsAlone, RemovalInv, ArrangementInv, [Next]_vars PROVE ArrangementInv'
<1>1. Shape /\ InCall /\ LocShape
  BY DEF RemovalInv, ArrangementInv
<1>2. ASSUME NEW c \in Client, NEW j \in Job, Call(c, j) PROVE ArrangementInv'
  <2>1. ASSUME DownloadExists(c, j) \/ RemoveDescribe(c, j) \/ FormatBegin(c, j)
        PROVE  ArrangementInv'
    <3>1. UNCHANGED <<db, cache>>
      <4>1. CASE DownloadExists(c, j) \/ FormatBegin(c, j)
        BY <4>1 DEF DownloadExists, FormatBegin, servers
      <4>2. CASE RemoveDescribe(c, j)
        BY <1>1, <4>2, RequestEffect, JobAssumption, HomeAssumption DEF RemoveDescribe
      <4> QED BY <2>1, <4>1, <4>2
    <3>2. /\ \A d \in Client \ {c} : pc'[d] = pc[d] /\ job'[d] = job[d] /\ loc'[d] = loc[d]
          /\ DOMAIN loc'[c] = DOMAIN NoLocals /\ pc'[c] \notin {"insert", "await"}
      BY <1>1, <2>1 DEF Shape, LocShape, DownloadExists, RemoveDescribe, FormatBegin, Calls, Enter, Goto
    <3> QED BY <1>1, <3>1, <3>2, TablesAloneStep
  <2> QED BY <1>2, <2>1, UploadExistsArr, ArrangeArr DEF Call
<1>3. ASSUME NEW c \in Client, NEW op, op # "touch", SendChunks(c, op) \/ IdvInsert(c)
      PROVE  ArrangementInv'
  <2>1. FileRow(Chunks[c], TRUE).uploading = 1
    BY DEF FileRow
  <2>2. /\ pc[c] = "insert" /\ pc' = [pc EXCEPT ![c] = "await"] /\ UNCHANGED job
        /\ FileInsert(L(c), F(c), FileRow(Chunks[c], TRUE)) /\ job[c].op # "touch"
    BY <1>3 DEF SendChunks, IdvInsert, Goto
  <2>3. PICK k \in [Used(c, F(c)) -> Node] : loc' = [loc EXCEPT ![c].key = k]
    BY <1>3 DEF SendChunks, IdvInsert
  <2>4. /\ DOMAIN loc' = Client /\ \A d \in Client \ {c} : loc'[d] = loc[d]
        /\ DOMAIN loc'[c] = DOMAIN NoLocals /\ loc'[c].key = k
    BY <1>1, <2>3 DEF Shape, LocShape, NoLocals
  <2> DEFINE row == FileRow(Chunks[c], TRUE)
  <2>5. row.uploading = 1 /\ FileInsert(L(c), F(c), row)
    BY <2>1, <2>2
  <2> HIDE DEF row
  <2>6. loc'[c].key \in [Used(c, F(c)) -> Node]
    BY <2>4
  <2> QED BY ONLY ArrangementInv, RemovalInv, <2>2, <2>4, <2>5, <2>6, SendArr
<1>4. ASSUME NEW c \in Client, TouchInsert(c) PROVE ArrangementInv'
  <2>1. FileRow(0, FALSE).uploading = 1
    BY DEF FileRow
  <2>2. /\ pc[c] = "insert" /\ pc' = [pc EXCEPT ![c] = "await"] /\ UNCHANGED job
        /\ FileInsert(L(c), F(c), FileRow(0, FALSE)) /\ job[c].op = "touch"
    BY <1>4 DEF TouchInsert, Goto
  <2>3. PICK k \in Key[L(c)] : loc' = [loc EXCEPT ![c].key = [s \in {L(c)} |-> k]]
    BY <1>4 DEF TouchInsert
  <2>4. /\ DOMAIN loc' = Client /\ \A d \in Client \ {c} : loc'[d] = loc[d]
        /\ DOMAIN loc'[c] = DOMAIN NoLocals /\ loc'[c].key = [s \in {L(c)} |-> k]
    BY <1>1, <2>3 DEF Shape, LocShape, NoLocals
  <2>5. loc'[c].key[L(c)] \in Node
    <3>1. L(c) \in Node
      BY <1>1, <2>2, OwnFile DEF Active
    <3> QED BY <2>3, <2>4, <3>1, KeyAssumption
  <2> QED BY <2>1, <2>2, <2>4, <2>5, SendArr
<1>5. ASSUME NEW c \in Client, NEW op, op # "touch", ConfirmChunks(c, op) \/ IdvConfirm(c)
      PROVE  ArrangementInv'
  <2>1. /\ pc[c] = "await" /\ job[c].op # "touch"
    BY <1>5 DEF ConfirmChunks, IdvConfirm
  <2>2. F(c) \in File /\ Keyed(c, F(c))
    BY <1>1, <2>1, OwnFile DEF Active, ArrangementInv, KeysDrawn
  <2>3. /\ UploadBlockRows(c, F(c)) \in Seq(BRowOf(F(c)))
        /\ UploadChunkRows(c, F(c)) \in Seq(CRowOf(F(c)))
        /\ IdvChunkRows(c, F(c)) \in Seq(CRowOf(F(c)))
    <3>1. UploadedRow(F(c)) \subseteq CRowOf(F(c))
      BY DEF UploadedRow
    <3>2. UploadChunkRows(c, F(c)) \in Seq(CRowOf(F(c)))
      BY <2>2, <3>1, UploadChunkRowsAre
    <3> QED BY <2>2, <3>2, UploadBlockRowsAre, IdvChunkRowsAre
  <2> QED BY <1>5, <2>1, <2>3, ConfirmArr DEF ConfirmChunks, IdvConfirm
<1>6. ASSUME NEW c \in Client, TouchConfirm(c) PROVE ArrangementInv'
  <2>1. pc[c] = "await" /\ job[c].op = "touch"
    BY <1>6 DEF TouchConfirm
  <2>2. F(c) \in File /\ L(c) \in Node /\ loc[c].key[L(c)] \in Node
    BY <1>1, <2>1, OwnFile DEF Active, ArrangementInv, KeysDrawn
  <2>3. TouchName(F(c)) \in NameOf(F(c)) /\ ChunkName(F(c), 0) \in ChunkNames(F(c))
    BY DEF NameOf, ChunkNames
  <2> DEFINE b == BlockRow(TouchName(F(c)), F(c), 0, loc[c].key[L(c)], L(c))
             r == ChunkRow(ChunkName(F(c), 0), F(c), TouchName(F(c)), 0, 0, 0, 0)
  <2>4. b \in BRowOf(F(c)) /\ r \in CRowOf(F(c))
    BY <2>2, <2>3, BlockRowIs, ChunkRowIs
  <2>5. Confirm(c, 1, <<b>>, <<r>>, <<>>)
    BY <1>6 DEF TouchConfirm
  <2> HIDE DEF b, r
  <2>6. <<b>> \in Seq(BRowOf(F(c))) /\ <<r>> \in Seq(CRowOf(F(c)))
    BY <2>4
  <2> QED BY <2>1, <2>5, <2>6, ConfirmArr
<1>7. ASSUME NEW c \in Client, DownloadDescribe(c) \/ DownloadBlock(c) \/ DownloadReturn(c)
                                \/ RemoveBlock(c) \/ FormatReturn(c) \/ DownloadDies(c) \/ Crash(c)
      PROVE  ArrangementInv'
  <2>1. UNCHANGED <<db, cache>>
    <3>1. CASE DownloadDescribe(c)
      <4>1. L(c) \in Node
        BY <1>1, <3>1, OwnFile DEF DownloadDescribe, Active
      <4> QED BY <1>1, <3>1, <4>1, RequestEffect DEF DownloadDescribe
    <3>2. CASE ~DownloadDescribe(c)
      BY <1>7, <3>2 DEF DownloadBlock, DownloadReturn, RemoveBlock, FormatReturn, Crash, DownloadDies, Dies, servers
    <3> QED BY <3>1, <3>2
  <2>2. /\ \A d \in Client \ {c} : pc'[d] = pc[d] /\ job'[d] = job[d] /\ loc'[d] = loc[d]
        /\ DOMAIN loc'[c] = DOMAIN NoLocals /\ pc'[c] \notin {"insert", "await"}
    BY <1>1, <1>7 DEF Shape, LocShape, DownloadDescribe, DownloadBlock, DownloadReturn, RemoveBlock,
                      FormatReturn, Crash, DownloadDies, Dies, Goto, Return
  <2> QED BY <1>1, <2>1, <2>2, TablesAloneStep
<1>8. ASSUME UNCHANGED <<db, cache, pc, job, loc>> PROVE ArrangementInv'
  BY <1>1, <1>8, TablesAlone DEF LocShape
<1>9. ASSUME NEW c \in Client, Step(c) PROVE ArrangementInv'
  <2>1. ServeBlock(c) => UNCHANGED <<db, cache, pc, job, loc>>
    BY DEF ServeBlock
  <2>2. "put" # "touch" /\ "write_file" # "touch"
    OBVIOUS
  <2> QED BY <1>2, <1>3, <1>4, <1>5, <1>6, <1>7, <1>8, <1>9, <2>1, <2>2, RemoveFileArr, FormatNodeArr
          DEF Step, UploadInsert, WriteFileInsert, UploadConfirm, WriteFileConfirm
<1>10. CASE Replicate \/ UNCHANGED vars
  BY <1>8, <1>10 DEF Replicate, client, vars, servers
<1> QED BY <1>7, <1>9, <1>10 DEF Next

\* Where calls that change files wait for each other and nobody formats next to
\* jobs, an arrangement that the leader hands out again says what the tables
\* say, whatever files are uploaded and removed and whoever dies in between
\* (FileLeader::file_request, file_insert_confirm, file_delete).
THEOREM ArrangementsFresh ==
    ASSUME OneAtATime, FormatsAlone PROVE Spec => []CacheFresh
<1>1. Init => RemovalInv /\ ArrangementInv
  BY InitRemoval, InitArr
<1>2. RemovalInv /\ ArrangementInv /\ [Next]_vars => (RemovalInv /\ ArrangementInv)'
  BY StepKeeps, StepArr
<1>3. ArrangementInv => CacheFresh
  BY DEF ArrangementInv, KeptFresh, CacheFresh
<1> QED BY <1>1, <1>2, <1>3, PTL DEF Spec
-----------------------------------------------------------------------------
(* How long a description is.                                              *)

\* Of finitely many numbers one is the largest.
LEMMA MaxIs ==
    ASSUME NEW n \in Nat, NEW len, \A p \in 1 .. n : len[p] \in Nat
    PROVE  /\ Max({0} \cup {len[p] : p \in 1 .. n}) \in Nat
           /\ \A q \in 1 .. n : Max({0} \cup {len[p] : p \in 1 .. n}) >= len[q]
<1> DEFINE S(k) == {0} \cup {len[p] : p \in 1 .. k}
           Top(k, x) == x \in S(k) /\ \A y \in S(k) : x >= y
           U == {k \in 0 .. n : \E x \in Nat : Top(k, x)}
<1>1. 0 \in U
  BY Top(0, 0)
<1>2. ASSUME NEW k \in 1 .. n, k - 1 \in U PROVE k \in U
  <2>1. PICK x \in Nat : Top(k - 1, x)
    BY <1>2
  <2>2. S(k) = S(k - 1) \cup {len[k]}
    OBVIOUS
  <2>3. len[k] \in Nat /\ k \in 0 .. n
    OBVIOUS
  <2> HIDE DEF S
  <2>4. Top(k, IF len[k] > x THEN len[k] ELSE x)
    BY <2>1, <2>2, <2>3
  <2> QED BY <2>3, <2>4
<1> HIDE DEF U
<1>3. 0 .. n \subseteq U
  BY ONLY <1>1, <1>2, n \in Nat, UpTo
<1>4. n \in U
  BY <1>3
<1> HIDE DEF Top
<1>5. PICK x \in Nat : Top(n, x)
  BY <1>4 DEF U
<1> USE DEF Top
<1> HIDE DEF S
<1>6. Top(n, Max(S(n)))
  BY <1>5, Zenon DEF Max
<1>7. S(n) \subseteq Nat /\ \A p \in 1 .. n : len[p] \in S(n)
  BY DEF S
<1> QED BY <1>6, <1>7 DEF S

\* An arrangement is a sequence.
LEMMA ArrangedSeq ==
    ASSUME NEW rows, NEW n \in Nat, DOMAIN rows = 1 .. n, Len(rows) = n, NEW lists,
           DOMAIN lists = 1 .. n, \A p \in 1 .. n : Len(lists[p]) \in Nat, NEW start
    PROVE  Len(Arranged(rows, lists, start)) \in Nat
<1> DEFINE Entry(p, i) ==
            [chunk |-> lists[p][i].name, primary |-> rows[p].name, key |-> rows[p].key,
             node |-> rows[p].node, offset |-> lists[p][i].offset, seq |-> lists[p][i].seq,
             primary_seq |-> lists[p][i].primary_seq, size |-> lists[p][i].size]
           Turn(p, i) == IF i > Len(lists[p]) \/ Ended(lists, i - 1) THEN <<>> ELSE <<Entry(p, i)>>
           At(j) == ((start + j - 2) % Len(rows)) + 1
           Round(i) == FlattenSeq([j \in DOMAIN rows |-> Turn(At(j), i)])
           len == [p \in 1 .. n |-> Len(lists[p])]
           max == Max({0} \cup {len[p] : p \in 1 .. n})
           T == {Entry(At(j), i) : j \in 1 .. n, i \in 1 .. max}
<1>1. Arranged(rows, lists, start) = FlattenSeq([i \in 1 .. max |-> Round(i)])
  <2>1. {Len(lists[p]) : p \in DOMAIN lists} = {len[p] : p \in 1 .. n}
    <3>1. \A p \in 1 .. n : len[p] = Len(lists[p])
      OBVIOUS
    <3> HIDE DEF len
    <3> QED BY <3>1
  <2> HIDE DEF len
  <2> QED BY <2>1 DEF Arranged
<1>2. max \in Nat
  <2>1. \A p \in 1 .. n : len[p] \in Nat
    OBVIOUS
  <2> HIDE DEF len
  <2> QED BY ONLY n \in Nat, <2>1, MaxIs
<1> HIDE DEF max
<1>3. ASSUME NEW i \in 1 .. max PROVE Round(i) \in Seq(T)
  <2> HIDE DEF Entry, At
  <2>1. \A j \in 1 .. n : Entry(At(j), i) \in T
    OBVIOUS
  <2> HIDE DEF T
  <2>2. \A j \in 1 .. n : Turn(At(j), i) \in Seq(T)
    BY <2>1
  <2> HIDE DEF Turn
  <2> DEFINE seqs == [j \in 1 .. n |-> Turn(At(j), i)]
  <2>3. seqs \in Seq(Seq(T))
    BY <2>2
  <2>4. Round(i) = FlattenSeq(seqs)
    OBVIOUS
  <2> HIDE DEF seqs, Round
  <2> QED BY ONLY <2>3, <2>4, FlattenIn
<1> HIDE DEF T, Round
<1> DEFINE all == [i \in 1 .. max |-> Round(i)]
<1>4. all \in Seq(Seq(T))
  BY <1>2, <1>3
<1> HIDE DEF all
<1>5. FlattenSeq(all) \in Seq(T)
  BY ONLY <1>4, FlattenIn
<1> QED BY <1>1, <1>5 DEF all

\* So what a leader answers has some number of blocks.
LEMMA DescriptionSeq ==
    ASSUME NEW d, Tables(d), NEW f PROVE Len(Description(d, f).blocks) \in Nat
<1> DEFINE rows == OfFile(d.block, f)
           lists == ListsOf(d.chunk, rows)
           n == Len(rows)
<1>1. n \in Nat /\ DOMAIN rows = 1 .. n
  <2>1. rows \in Seq(BRowOf(f))
    BY RowsOfFile
  <2> QED BY <2>1
<1> HIDE DEF rows
<1>2. DOMAIN lists = 1 .. n /\ \A p \in 1 .. n : Len(lists[p]) \in Nat
  <2>1. ASSUME NEW p \in 1 .. n PROVE Len(ChunksOf(d.chunk, rows[p].name)) \in Nat
    <3>1. Only(d.chunk, InPrimary(CRow, rows[p].name)) \in Seq(CRow)
      BY OnlyFacts DEF Tables
    <3>2. ChunksOf(d.chunk, rows[p].name) \in Seq(CRow)
      BY <3>1, WherePrimary DEF Tables
    <3> QED BY <3>2
  <2> QED BY <1>1, <2>1 DEF ListsOf
<1> HIDE DEF n
<1>3. Len(ArrangedFrom(rows, lists)) \in Nat
  <2>1. ArrangedFrom(rows, lists) = Arranged(rows, lists, StartIndex(rows, lists))
    BY DEF ArrangedFrom, With
  <2> DEFINE start == StartIndex(rows, lists)
  <2> HIDE DEF start, lists
  <2>2. Len(Arranged(rows, lists, start)) \in Nat
    BY <1>1, <1>2, ArrangedSeq DEF n
  <2> QED BY <2>1, <2>2 DEF start
<1>4. Blocks(rows, d.chunk) = ArrangedFrom(rows, lists)
  BY BlocksAre
<1>5. Len(Described(d, f).blocks) \in Nat
  BY <1>3, <1>4, DescribedIs DEF rows
<1> QED BY <1>5 DEF Description, NoDescription
-----------------------------------------------------------------------------
(* At most one row has a name.                                             *)
Unique(rows) == \A x, y \in 1 .. Len(rows) : rows[x].name = rows[y].name => x = y

\* A WHERE leaves each row at most once.
LEMMA OnlyUnique ==
    ASSUME NEW T, NEW rows \in Seq(T), Unique(rows), NEW S PROVE Unique(Only(rows, S))
<1>1. PICK g : Looked(g, rows, S, T) /\ Only(rows, S) = g[Len(rows)]
  BY OnlyLoop
<1> DEFINE n == Len(rows)
           U == {i \in 0 .. n : /\ Unique(g[i])
                                /\ \A x \in 1 .. Len(g[i]) : \E y \in 1 .. i : g[i][x] = rows[y]}
<1>2. n \in Nat /\ \A i \in 1 .. n : rows[i] \in T
  OBVIOUS
<1>3. 0 \in U
  BY <1>1 DEF Looked, Unique
<1>4. ASSUME NEW i \in 1 .. n, i - 1 \in U PROVE i \in U
  <2> DEFINE s == g[i - 1]
             m == Len(s)
  <2>1. s \in Seq(T) /\ m \in Nat /\ i - 1 \in 0 .. n /\ i \in 0 .. n
        /\ g[i] = IF rows[i] \in S THEN Append(s, rows[i]) ELSE s
    BY <1>1, <1>2 DEF Looked
  <2>2. Unique(s) /\ \A x \in 1 .. m : \E y \in 1 .. i - 1 : s[x] = rows[y]
    BY <1>4
  <2> HIDE DEF s
  <2>3. CASE rows[i] \in S
    <3>1. /\ Len(g[i]) = m + 1 /\ g[i][m + 1] = rows[i]
          /\ \A x \in 1 .. m + 1 : x \in 1 .. m \/ x = m + 1
          /\ \A x \in 1 .. m : g[i][x] = s[x]
      BY <2>1, <2>3
    <3>2. \A x \in 1 .. m : s[x].name # rows[i].name
      <4> SUFFICES ASSUME NEW x \in 1 .. m PROVE s[x].name # rows[i].name
        OBVIOUS
      <4>1. PICK y \in 1 .. i - 1 : s[x] = rows[y]
        BY <2>2
      <4>2. y \in 1 .. n /\ y # i
        BY <1>2
      <4> QED BY <4>1, <4>2 DEF Unique
    <3>3. Unique(g[i])
      BY <2>2, <3>1, <3>2 DEF Unique
    <3>4. \A x \in 1 .. m + 1 : \E y \in 1 .. i : g[i][x] = rows[y]
      <4>1. i \in 1 .. i /\ \A y \in 1 .. i - 1 : y \in 1 .. i
        OBVIOUS
      <4> QED BY <2>2, <3>1, <4>1
    <3> QED BY <2>1, <3>1, <3>3, <3>4
  <2>4. CASE rows[i] \notin S
    <3>1. \A y \in 1 .. i - 1 : y \in 1 .. i
      OBVIOUS
    <3> QED BY <2>1, <2>2, <2>4, <3>1
  <2> QED BY <2>3, <2>4
<1> HIDE DEF U
<1>5. 0 .. n \subseteq U
  BY ONLY <1>2, <1>3, <1>4, UpTo
<1>6. n \in U
  BY <1>2, <1>5
<1> QED BY <1>1, <1>6 DEF U

\* INSERT OR REPLACE keeps it so.
LEMMA InsertAllUnique ==
    ASSUME NEW T, NEW rows \in Seq(T), Unique(rows), NEW new \in Seq(T)
    PROVE  InsertAll(rows, new) \in Seq(T) /\ Unique(InsertAll(rows, new))
<1> DEFINE P == {t \in Seq(T) : Unique(t)}
<1>1. ASSUME NEW t \in P, NEW j \in 1 .. Len(new) PROVE Replace(t, new[j]) \in P
  <2> DEFINE S == NamedOtherwise(T, new[j].name)
             s == Only(t, S)
             m == Len(s)
  <2>1. t \in Seq(T) /\ new[j] \in T /\ Unique(t)
    OBVIOUS
  <2>2. s \in Seq(T) /\ m \in Nat /\ \A r : r \in Range(s) => r \in S
    BY <2>1, OnlyFacts
  <2>3. Replace(t, new[j]) = Append(s, new[j])
    BY <2>1, WhereNot DEF Replace
  <2>4. Unique(s)
    <3> HIDE DEF S
    <3> QED BY <2>1, OnlyUnique
  <2>5. \A x \in 1 .. m : s[x].name # new[j].name
    <3>1. \A x \in 1 .. m : s[x] \in S
      BY <2>2 DEF Range
    <3> QED BY <3>1 DEF NamedOtherwise
  <2> HIDE DEF s
  <2>6. Unique(Append(s, new[j]))
    <3>1. /\ Len(Append(s, new[j])) = m + 1 /\ Append(s, new[j])[m + 1] = new[j]
          /\ \A x \in 1 .. m + 1 : x \in 1 .. m \/ x = m + 1
          /\ \A x \in 1 .. m : Append(s, new[j])[x] = s[x]
      BY <2>2
    <3> QED BY <2>4, <2>5, <3>1 DEF Unique
  <2> QED BY <2>1, <2>2, <2>3, <2>6
<1>2. rows \in P
  OBVIOUS
<1> HIDE DEF P
<1>3. InsertAll(rows, new) \in P
  BY ONLY <1>1, <1>2, new \in Seq(T), InsertAllIn
<1> QED BY <1>3 DEF P
-----------------------------------------------------------------------------
(* Types.                                                                  *)
BlockFiles == Names \cup {MetaReplica(m) : m \in Node}

\* Only an INSERT makes a file on a disk.
MessageOK(m) == /\ m.op \in {"INSERT", "UPDATE", "DELETE"}
                /\ m.op = "INSERT" => m.name \in BlockFiles
Queue(s) == \E T : s \in Seq(T) /\ \A m \in T : MessageOK(m)

Stored ==
    /\ DOMAIN disk = Node /\ \A n \in Node : DOMAIN disk[n] \subseteq BlockFiles
    /\ DOMAIN link = Node \X Node /\ \A e \in Node \X Node : Queue(link[e])
    /\ DOMAIN sent = Client
    /\ \A c \in Client : \A s \in sent[c] : s.to \in Node /\ MessageOK(s.msg)

FileRows == [uploading : {0, 1}, num_block : Int, num_primary : Int, size : Int, is_input : BOOLEAN]

RowsIn(d, n) ==
    /\ Tables(d) /\ Unique(d.block) /\ Unique(d.chunk)
    /\ DOMAIN d.file \subseteq {f \in File : Home[f] = n}
    /\ \A f \in DOMAIN d.file : d.file[f] \in FileRows

Catalog == \A n \in Node : RowsIn(db[n], n)

Listed == \A n \in Node : \A f \in DOMAIN cache[n] : Len(cache[n][f].blocks) \in Nat

\* What can be said of one client.
Local(c) ==
    /\ DOMAIN loc[c] = DOMAIN NoLocals /\ Len(loc[c].fd.blocks) \in Nat
    /\ calls[c] \in 0 .. MaxJobs[c]
    /\ pc[c] # "idle" => job[c] \in Job
    /\ pc[c] \in {"insert", "await"} => job[c].op \in {"put", "write_file", "put_idv", "touch"}
    /\ pc[c] \in {"describe", "read"} => job[c].op = "get"
    /\ pc[c] = "delete" => job[c].op = "rm"
    /\ pc[c] = "format" => job[c].op = "format" /\ loc[c].i \in 1 .. N + 1
    /\ pc[c] = "idle" => loc[c] = NoLocals /\ job[c] = NoJob
    /\ pc[c] = "describe" => loc[c].i = 1
    /\ pc[c] \in {"read", "delete"} => loc[c].i \in 1 .. Len(loc[c].fd.blocks) + 1
    /\ pc[c] = "await" => IF job[c].op = "touch"
                          THEN DOMAIN loc[c].key = {L(c)} /\ loc[c].key[L(c)] \in Node
                          ELSE Keyed(c, F(c))

TypeInv == /\ Shape /\ DOMAIN calls = Client /\ (\A c \in Client : Local(c))
           /\ Stored /\ Catalog /\ Listed

\* What the invariant says gives the parts that the lemmas above ask for.
LEMMA LocalShape ==
    ASSUME TypeInv
    PROVE  Shape /\ InCall /\ DOMAIN calls = Client /\ \A c \in Client : Local(c)
BY DEF TypeInv, InCall, Local, Active

\* A step of one client.
Others(c) == \A d \in Client \ {c} :
    pc'[d] = pc[d] /\ job'[d] = job[d] /\ loc'[d] = loc[d] /\ calls'[d] = calls[d]

\* Enough to show of a step of client c: its own state and that of the servers.
LEMMA OwnStep ==
    ASSUME TypeInv, NEW c \in Client, Others(c), Shape', DOMAIN calls' = Client, Local(c)',
           Stored', Catalog', Listed'
    PROVE  TypeInv'
<1>1. ASSUME NEW d \in Client \ {c} PROVE Local(d)'
  BY DEF Others, TypeInv, Local, Keyed, L, F
<1> QED BY <1>1 DEF TypeInv
-----------------------------------------------------------------------------
(* Disks and links.                                                        *)
\* A message that is handled leaves files of known names.
LEMMA AppliedFiles ==
    ASSUME NEW files, DOMAIN files \subseteq BlockFiles, NEW m, MessageOK(m)
    PROVE  DOMAIN Applied(files, m) \subseteq BlockFiles
BY DEF MessageOK, Applied, Written, Updated, Removed, Restrict

\* A link stays a queue of messages when one is sent,
LEMMA QueueAppend ==
    ASSUME NEW s, Queue(s), NEW m, MessageOK(m) PROVE Queue(Append(s, m))
<1>1. PICK T : s \in Seq(T) /\ \A t \in T : MessageOK(t)
  BY DEF Queue
<1> DEFINE R == T \cup {m}
<1>2. Append(s, m) \in Seq(R)
  <2>1. s \in Seq(R) /\ m \in R
    BY <1>1
  <2> HIDE DEF R
  <2> QED BY <2>1
<1>3. \A t \in R : MessageOK(t)
  BY <1>1
<1> QED BY <1>2, <1>3 DEF Queue

\* and when one is received.
LEMMA RemoveAtSeq ==
    ASSUME NEW T, NEW s \in Seq(T), NEW i \in DOMAIN s PROVE s[i] \in T /\ RemoveAt(s, i) \in Seq(T)
<1> DEFINE before == SubSeq(s, 1, i - 1)
           behind == SubSeq(s, i + 1, Len(s))
<1>1. i \in 1 .. Len(s) /\ Len(s) \in Nat
  OBVIOUS
<1>2. before \in Seq(T) /\ behind \in Seq(T)
  BY <1>1
<1>3. RemoveAt(s, i) = before \o behind
  BY DEF RemoveAt
<1> HIDE DEF before, behind
<1>4. before \o behind \in Seq(T)
  BY ONLY <1>2, ConcatProperties
<1> QED BY <1>1, <1>3, <1>4

LEMMA QueueRemove ==
    ASSUME NEW s, Queue(s), NEW i \in DOMAIN s PROVE MessageOK(s[i]) /\ Queue(RemoveAt(s, i))
<1>1. PICK T : s \in Seq(T) /\ \A t \in T : MessageOK(t)
  BY DEF Queue
<1>2. s[i] \in T /\ RemoveAt(s, i) \in Seq(T)
  BY <1>1, RemoveAtSeq
<1> QED BY <1>1, <1>2 DEF Queue

Linked(links) == DOMAIN links = Node \X Node /\ \A e \in Node \X Node : Queue(links[e])

\* send_and_replicate leaves queues of messages on both links.
LEMMA SentLinks ==
    ASSUME NEW links, Linked(links), NEW n, NEW m, MessageOK(m) PROVE Linked(Sent(links, n, m))
<1>1. ASSUME NEW l, Linked(l), NEW e PROVE Linked([l EXCEPT ![e] = Append(@, m)])
  <2> DEFINE k == [l EXCEPT ![e] = Append(@, m)]
  <2>1. DOMAIN k = Node \X Node
    BY <1>1 DEF Linked
  <2>2. ASSUME NEW x \in Node \X Node PROVE Queue(k[x])
    <3>1. k[x] = IF x = e THEN Append(l[x], m) ELSE l[x]
      BY <1>1 DEF Linked
    <3>2. Queue(l[x])
      BY <1>1 DEF Linked
    <3> QED BY <3>1, <3>2, QueueAppend
  <2> QED BY <2>1, <2>2 DEF Linked
<1> DEFINE once == [links EXCEPT ![<<n, RightOf(n)>>] = Append(@, m)]
<1>2. Linked(once)
  BY <1>1
<1>3. Sent(links, n, m) = [once EXCEPT ![<<n, LeftOf(n)>>] = Append(@, m)]
  BY DEF Sent
<1> HIDE DEF once
<1> QED BY <1>1, <1>2, <1>3

\* A block node's handler.
LEMMA HandleBlockStore ==
    ASSUME Stored, NEW n, NEW m, MessageOK(m), HandleBlock(n, m)
    PROVE  /\ DOMAIN disk' = Node /\ \A x \in Node : DOMAIN disk'[x] \subseteq BlockFiles
           /\ Linked(link')
<1>1. Linked(link')
  BY SentLinks DEF Stored, Linked, HandleBlock
<1>2. \A x \in Node : disk'[x] = IF x = n THEN Applied(disk[x], m) ELSE disk[x]
  BY DEF HandleBlock, Stored
<1>3. \A x \in Node : DOMAIN disk'[x] \subseteq BlockFiles
  BY <1>2, AppliedFiles DEF Stored
<1> QED BY <1>1, <1>3 DEF HandleBlock, Stored

\* The same for a neighbour that handles a replica message.
LEMMA ReplicateStore ==
    ASSUME Stored, Replicate PROVE Stored'
<1> PICK m \in Node, n \in Node : \E i \in DOMAIN link[<<m, n>>] : ReceiveReplica(m, n, i)
  BY DEF Replicate
<1> PICK i \in DOMAIN link[<<m, n>>] : ReceiveReplica(m, n, i)
  OBVIOUS
<1>1. UNCHANGED sent
  BY DEF Replicate, client
<1> DEFINE e == <<m, n>>
           h == link[e][i]
<1>2. e \in Node \X Node /\ i \in DOMAIN link[e] /\ Queue(link[e])
  BY DEF Stored
<1>3. MessageOK(h) /\ Queue(RemoveAt(link[e], i))
  BY <1>2, QueueRemove
<1>4. disk' = [disk EXCEPT ![n] = Applied(@, h)] /\ link' = [link EXCEPT ![e] = RemoveAt(@, i)]
  BY DEF ReceiveReplica
<1> HIDE DEF h, e
<1>5. \A x \in Node : DOMAIN disk'[x] \subseteq BlockFiles
  <2>1. \A x \in Node : disk'[x] = IF x = n THEN Applied(disk[x], h) ELSE disk[x]
    BY <1>4 DEF Stored
  <2> QED BY <1>3, <2>1, AppliedFiles DEF Stored
<1>6. \A x \in Node \X Node : Queue(link'[x])
  <2>1. \A x \in Node \X Node : link'[x] = IF x = e THEN RemoveAt(link[e], i) ELSE link[x]
    BY <1>4 DEF Stored
  <2> QED BY <1>3, <2>1 DEF Stored
<1> QED BY <1>1, <1>4, <1>5, <1>6 DEF Stored
-----------------------------------------------------------------------------
(* Tables.                                                                 *)
\* file_insert keeps the tables well formed,
LEMMA InsertedRows ==
    ASSUME NEW n, NEW d, RowsIn(d, n), NEW f \in File, Home[f] = n, NEW row \in FileRows
    PROVE  RowsIn(Inserted(d, f, row), n)
BY DEF RowsIn, Inserted, Tables, FileTableInsert, WithRow

\* and file_insert_confirm, whose rows replace those of the same names,
LEMMA ConfirmedRows ==
    ASSUME NEW n, NEW d, RowsIn(d, n), NEW f \in File, NEW num \in Int,
           NEW blockRows \in Seq(BRowOf(f)), NEW chunkRows \in Seq(CRowOf(f))
    PROVE  RowsIn(Confirmed(d, f, num, blockRows, chunkRows), n)
<1> DEFINE e == Confirmed(d, f, num, blockRows, chunkRows)
<1>1. e.block = InsertAll(d.block, blockRows) /\ e.chunk = InsertAll(d.chunk, chunkRows)
      /\ e.file = FileTableConfirm(d.file, f, num, Len(blockRows))
  BY DEF Confirmed
<1>2. blockRows \in Seq(BRow) /\ chunkRows \in Seq(CRow) /\ Len(blockRows) \in Nat
  BY DEF BRowOf, CRowOf
<1> HIDE DEF e
<1>3. Tables(e) /\ Unique(e.block) /\ Unique(e.chunk)
  <2>1. e.block \in Seq(BRow) /\ Unique(e.block)
    BY <1>1, <1>2, InsertAllUnique DEF RowsIn, Tables
  <2>2. e.chunk \in Seq(CRow) /\ Unique(e.chunk)
    BY <1>1, <1>2, InsertAllUnique DEF RowsIn, Tables
  <2> QED BY <2>1, <2>2 DEF Tables
<1>4. DOMAIN e.file = DOMAIN d.file /\ \A g \in DOMAIN d.file : e.file[g] \in FileRows
  <2> DEFINE k == Len(blockRows)
  <2>1. k \in Int
    BY <1>2
  <2> HIDE DEF k
  <2>2. CASE f \in DOMAIN d.file
    <3>1. e.file = [d.file EXCEPT ![f].uploading = 0, ![f].num_block = num, ![f].num_primary = k]
      BY <1>1, <2>2 DEF FileTableConfirm, k
    <3>2. d.file[f] \in FileRows
      BY <2>2 DEF RowsIn
    <3>3. DOMAIN e.file = DOMAIN d.file /\ \A g \in DOMAIN d.file : g # f => e.file[g] = d.file[g]
      BY <3>1
    <3>4. e.file[f] = [uploading |-> 0, num_block |-> num, num_primary |-> k,
                       size |-> d.file[f].size, is_input |-> d.file[f].is_input]
      BY <2>2, <3>1, <3>2 DEF FileRows
    <3>5. e.file[f] \in FileRows
      BY <2>1, <3>2, <3>4 DEF FileRows
    <3> QED BY <3>3, <3>5 DEF RowsIn
  <2>3. CASE f \notin DOMAIN d.file
    BY <1>1, <2>3 DEF FileTableConfirm, RowsIn
  <2> QED BY <2>2, <2>3
<1> QED BY <1>3, <1>4 DEF RowsIn, e

\* and file_delete;
LEMMA DeletedRows ==
    ASSUME NEW n, NEW d, RowsIn(d, n), NEW f PROVE RowsIn(Deleted(d, f), n)
<1> DEFINE e == Deleted(d, f)
           B == BRow \ OfFileIn(BRow, f)
           C == CRow \ OfFileIn(CRow, f)
<1>1. d.block \in Seq(BRow) /\ d.chunk \in Seq(CRow)
  BY DEF RowsIn, Tables
<1>2. e.block = Only(d.block, B) /\ e.chunk = Only(d.chunk, C) /\ e.file = FileTableDelete(d.file, f)
  BY <1>1, WhereFile DEF Deleted
<1> HIDE DEF e, B, C
<1>3. e.block \in Seq(BRow) /\ Unique(e.block)
  BY <1>1, <1>2, OnlyFacts, OnlyUnique DEF RowsIn
<1>4. e.chunk \in Seq(CRow) /\ Unique(e.chunk)
  BY <1>1, <1>2, OnlyFacts, OnlyUnique DEF RowsIn
<1>5. DOMAIN e.file \subseteq DOMAIN d.file /\ \A g \in DOMAIN e.file : e.file[g] = d.file[g]
  BY <1>2 DEF FileTableDelete, Restrict
<1> QED BY <1>3, <1>4, <1>5 DEF RowsIn, Tables, e

\* so are the tables of a node that was formatted.
LEMMA EmptyRows == ASSUME NEW n PROVE RowsIn(EmptyDb, n)
BY DEF RowsIn, EmptyDb, Tables, Unique

\* What a leader answers has some number of blocks.
LEMMA ReplySeq ==
    ASSUME Catalog, Listed, NEW n \in Node, NEW f, NEW generate
    PROVE  Len(FileReply(n, f, generate).blocks) \in Nat
<1>1. Tables(db[n])
  BY DEF Catalog, RowsIn
<1> QED BY <1>1, DescriptionSeq DEF FileReply, Listed
-----------------------------------------------------------------------------
(* The steps, one by one.                                                  *)

\* The count of calls is incremented below its bound.
LEMMA CallsTypes ==
    ASSUME DOMAIN calls = Client, NEW c \in Client, calls[c] \in 0 .. MaxJobs[c], NEW j, Calls(c, j)
    PROVE  calls'[c] \in 0 .. MaxJobs[c]
<1>1. calls'[c] = calls[c] + 1 /\ calls[c] < MaxJobs[c]
  BY DEF Calls
<1>2. MaxJobs[c] \in Nat
  BY BoundAssumption
<1> DEFINE k == calls[c]
           m == MaxJobs[c]
<1>3. k \in 0 .. m /\ k < m /\ m \in Nat /\ calls'[c] = k + 1
  BY <1>1, <1>2
<1> HIDE DEF k, m
<1>4. calls'[c] \in 0 .. m
  BY <1>3
<1> QED BY <1>4 DEF m

\* exists() before an upload or a download, and the beginning of a format.
LEMMA BeginTypes ==
    ASSUME TypeInv, NEW c \in Client, NEW j \in Job,
           UploadExists(c, j) \/ DownloadExists(c, j) \/ FormatBegin(c, j)
    PROVE  TypeInv'
<1>1. Shape /\ InCall /\ DOMAIN calls = Client /\ Local(c)
  BY LocalShape
<1>2. /\ UNCHANGED <<db, cache, disk, link, loc, sent>> /\ Calls(c, j) /\ pc[c] = "idle"
      /\ \/ UNCHANGED <<pc, job>>
         \/ /\ job' = [job EXCEPT ![c] = j]
            /\ \/ pc' = [pc EXCEPT ![c] = "insert"] /\ j.op \in {"put", "write_file", "put_idv", "touch"}
               \/ pc' = [pc EXCEPT ![c] = "describe"] /\ j.op = "get"
               \/ pc' = [pc EXCEPT ![c] = "format"] /\ j.op = "format"
      /\ DOMAIN promise' = File
  BY <1>1 DEF UploadExists, DownloadExists, FormatBegin, Enter, Goto, servers, Calls, Shape
<1>3. Shape' /\ Others(c) /\ DOMAIN calls' = Client
  BY <1>1, <1>2 DEF Shape, Others, Calls
<1>4. Local(c)'
  <2>1. calls'[c] \in 0 .. MaxJobs[c]
    BY <1>1, <1>2, CallsTypes DEF Local
  <2>2. loc'[c] = NoLocals /\ NoLocals.i = 1 /\ Len(NoLocals.fd.blocks) \in Nat /\ 1 \in 1 .. N + 1
    BY <1>1, <1>2, NodesAssumption DEF Local, NoLocals, NoDescription
  <2>3. CASE UNCHANGED <<pc, job>>
    BY <1>1, <1>2, <2>1, <2>3 DEF Local
  <2>4. CASE job'[c] = j /\ pc'[c] \in {"insert", "describe", "format"}
    BY <1>1, <1>2, <2>1, <2>2, <2>4 DEF Local, Shape
  <2> QED BY <1>1, <1>2, <2>3, <2>4 DEF Shape
<1>5. Stored' /\ Catalog' /\ Listed'
  BY <1>2 DEF TypeInv, Stored, Catalog, Listed
<1> QED BY <1>3, <1>4, <1>5, OwnStep

\* The row of a new upload, the keys drawn for it and its blocks.
LEMMA SendTypes ==
    ASSUME TypeInv, NEW c \in Client, NEW row \in FileRows, pc[c] = "insert",
           pc' = [pc EXCEPT ![c] = "await"], UNCHANGED <<job, calls>>,
           FileInsert(L(c), F(c), row), promise' = [promise EXCEPT ![F(c)] = NoOne],
           NEW k, loc' = [loc EXCEPT ![c].key = k],
           IF job[c].op = "touch" THEN DOMAIN k = {L(c)} /\ k[L(c)] \in Node
           ELSE k \in [Used(c, F(c)) -> Node],
           NEW S, sent' = [sent EXCEPT ![c] = S], \A s \in S : s.to \in Node /\ MessageOK(s.msg)
    PROVE  TypeInv'
<1>1. Shape /\ InCall /\ DOMAIN calls = Client /\ Local(c) /\ Active(c)
  BY LocalShape DEF Active
<1> PICK f \in File : f = F(c) /\ Home[f] \in Node /\ L(c) = Home[f]
  BY <1>1, OwnFile
<1> DEFINE n == Home[f]
<1>2. /\ db' = [db EXCEPT ![n] = Inserted(@, f, row)] /\ UNCHANGED <<cache, disk, link>>
      /\ promise' = [promise EXCEPT ![f] = NoOne]
  BY DEF FileInsert
<1>3. \A m \in Node : db'[m] = IF m = n THEN Inserted(db[n], f, row) ELSE db[m]
  BY <1>1, <1>2 DEF Shape
<1>4. Catalog' /\ Listed'
  BY <1>2, <1>3, InsertedRows DEF TypeInv, Catalog, Listed
<1>5. Shape' /\ Others(c)
  BY <1>1, <1>2, <1>3 DEF Shape, Others, Inserted
<1>6. /\ DOMAIN loc'[c] = DOMAIN NoLocals /\ loc'[c].key = k /\ loc'[c].fd = loc[c].fd
      /\ pc'[c] = "await" /\ job'[c] = job[c]
  BY <1>1 DEF Shape, Local, NoLocals
<1>7. Local(c)'
  BY <1>1, <1>6 DEF Local, Keyed, F, L
<1>8. Stored'
  BY <1>2 DEF TypeInv, Stored
<1> QED BY <1>1, <1>4, <1>5, <1>7, <1>8, OwnStep

\* The name of a block that an upload sends is that of a file on a disk.
LEMMA SentNames ==
    ASSUME NEW c \in Client, NEW f \in File, NEW seq \in 0 .. Chunks[c] - 1
    PROVE  /\ MessageOK(BlockMessage(c, f, seq))
           /\ IdvName(f, seq) \in BlockFiles
           /\ Server(f, seq) \in Used(c, f) /\ Used(c, f) \subseteq Node
<1>1. Server(f, seq) \in Used(c, f) /\ Used(c, f) \subseteq Node
  BY UsedServers DEF Used
<1>2. PrimaryName(Server(f, seq), f) \in BlockFiles
  BY <1>1 DEF BlockFiles, Names, NameOf
<1>3. IdvName(f, seq) \in BlockFiles
  <2>1. seq \in UNION {0 .. Chunks[d] - 1 : d \in Client}
    OBVIOUS
  <2> QED BY <2>1 DEF BlockFiles, Names, IdvNames
<1>4. MessageOK(BlockMessage(c, f, seq))
  BY <1>2 DEF MessageOK, BlockMessage, Message
<1> QED BY <1>1, <1>3, <1>4

\* The insertions of all operations that upload.
LEMMA InsertTypes ==
    ASSUME TypeInv, NEW c \in Client,
           UploadInsert(c) \/ WriteFileInsert(c) \/ IdvInsert(c) \/ TouchInsert(c)
    PROVE  TypeInv'
<1>1. Shape /\ InCall /\ pc[c] = "insert" /\ Active(c)
  BY LocalShape DEF UploadInsert, WriteFileInsert, SendChunks, IdvInsert, TouchInsert, Active
<1> PICK f \in File : f = F(c) /\ Home[f] \in Node /\ L(c) = Home[f]
  BY <1>1, OwnFile
<1>2. Chunks[c] \in Nat
  BY ChunksAssumption
<1>3. ASSUME NEW op, op # "touch", SendChunks(c, op) PROVE TypeInv'
  <2>1. FileRow(Chunks[c], TRUE) \in FileRows
    BY <1>2 DEF FileRow, FileRows
  <2> DEFINE row == FileRow(Chunks[c], TRUE)
             To(k) == {[to |-> k[Server(f, seq)], msg |-> BlockMessage(c, f, seq)] :
                          seq \in 0 .. Chunks[c] - 1}
  <2>2. PICK k \in [Used(c, f) -> Node] :
            loc' = [loc EXCEPT ![c].key = k] /\ sent' = [sent EXCEPT ![c] = To(k)]
    <3>1. PICK k \in [Used(c, F(c)) -> Node] :
              /\ loc' = [loc EXCEPT ![c].key = k]
              /\ sent' = [sent EXCEPT ![c] =
                    {[to |-> k[Server(F(c), seq)], msg |-> BlockMessage(c, F(c), seq)] :
                        seq \in 0 .. Chunks[c] - 1}]
      BY <1>3, Zenon DEF SendChunks
    <3> WITNESS k \in [Used(c, f) -> Node]
    <3> QED BY <3>1, Zenon
  <2>3. \A s \in To(k) : s.to \in Node /\ MessageOK(s.msg)
    BY SentNames
  <2>4. /\ pc' = [pc EXCEPT ![c] = "await"] /\ UNCHANGED <<job, calls>> /\ job[c].op # "touch"
        /\ FileInsert(L(c), F(c), row) /\ promise' = [promise EXCEPT ![F(c)] = NoOne]
    BY <1>3 DEF SendChunks, Goto
  <2> DEFINE S == To(k)
  <2>5. sent' = [sent EXCEPT ![c] = S] /\ \A s \in S : s.to \in Node /\ MessageOK(s.msg)
    BY <2>2, <2>3
  <2> HIDE DEF row, S
  <2>6. IF job[c].op = "touch" THEN DOMAIN k = {L(c)} /\ k[L(c)] \in Node
        ELSE k \in [Used(c, F(c)) -> Node]
    BY <2>4
  <2>7. loc' = [loc EXCEPT ![c].key = k] /\ row \in FileRows
    BY <2>1, <2>2 DEF row
  <2> QED BY ONLY TypeInv, c \in Client, <1>1, <2>4, <2>5, <2>6, <2>7, SendTypes
<1>4. CASE IdvInsert(c)
  <2>1. FileRow(Chunks[c], TRUE) \in FileRows
    BY <1>2 DEF FileRow, FileRows
  <2> DEFINE row == FileRow(Chunks[c], TRUE)
             To(k) == {[to  |-> k[Server(f, seq)],
                        msg |-> Message("INSERT", IdvName(f, seq), 0, <<Cell(c, seq)>>)] :
                          seq \in 0 .. Chunks[c] - 1}
  <2>2. PICK k \in [Used(c, f) -> Node] :
            loc' = [loc EXCEPT ![c].key = k] /\ sent' = [sent EXCEPT ![c] = To(k)]
    <3>1. PICK k \in [Used(c, F(c)) -> Node] :
              /\ loc' = [loc EXCEPT ![c].key = k]
              /\ sent' = [sent EXCEPT ![c] =
                    {[to  |-> k[Server(F(c), seq)],
                      msg |-> Message("INSERT", IdvName(F(c), seq), 0, <<Cell(c, seq)>>)] :
                        seq \in 0 .. Chunks[c] - 1}]
      BY <1>4, Zenon DEF IdvInsert
    <3> WITNESS k \in [Used(c, f) -> Node]
    <3> QED BY <3>1, Zenon
  <2>3. \A s \in To(k) : s.to \in Node /\ MessageOK(s.msg)
    BY SentNames DEF MessageOK, Message
  <2>4. /\ pc' = [pc EXCEPT ![c] = "await"] /\ UNCHANGED <<job, calls>> /\ job[c].op # "touch"
        /\ FileInsert(L(c), F(c), row) /\ promise' = [promise EXCEPT ![F(c)] = NoOne]
    BY <1>4 DEF IdvInsert, Goto
  <2> DEFINE S == To(k)
  <2>5. sent' = [sent EXCEPT ![c] = S] /\ \A s \in S : s.to \in Node /\ MessageOK(s.msg)
    BY <2>2, <2>3
  <2> HIDE DEF row, S
  <2>6. IF job[c].op = "touch" THEN DOMAIN k = {L(c)} /\ k[L(c)] \in Node
        ELSE k \in [Used(c, F(c)) -> Node]
    BY <2>4
  <2>7. loc' = [loc EXCEPT ![c].key = k] /\ row \in FileRows
    BY <2>1, <2>2 DEF row
  <2> QED BY ONLY TypeInv, c \in Client, <1>1, <2>4, <2>5, <2>6, <2>7, SendTypes
<1>5. CASE TouchInsert(c)
  <2>1. FileRow(0, FALSE) \in FileRows
    BY DEF FileRow, FileRows
  <2> DEFINE row == FileRow(0, FALSE)
  <2>2. PICK k \in Key[L(c)] :
            /\ loc' = [loc EXCEPT ![c].key = [s \in {L(c)} |-> k]]
            /\ sent' = [sent EXCEPT ![c] =
                  {[to |-> k, msg |-> Message("INSERT", TouchName(F(c)), 0, <<>>)]}]
    BY <1>5 DEF TouchInsert
  <2>3. k \in Node
    BY KeyAssumption
  <2>4. /\ pc' = [pc EXCEPT ![c] = "await"] /\ UNCHANGED <<job, calls>> /\ job[c].op = "touch"
        /\ FileInsert(L(c), F(c), row) /\ promise' = [promise EXCEPT ![F(c)] = NoOne]
    BY <1>5 DEF TouchInsert, Goto
  <2> DEFINE S == {[to |-> k, msg |-> Message("INSERT", TouchName(F(c)), 0, <<>>)]}
             key == [s \in {L(c)} |-> k]
  <2>5. sent' = [sent EXCEPT ![c] = S] /\ \A s \in S : s.to \in Node /\ MessageOK(s.msg)
    <3>1. TouchName(f) \in BlockFiles
      BY DEF BlockFiles, Names, NameOf
    <3> QED BY <2>2, <2>3, <3>1 DEF MessageOK, Message
  <2>6. IF job[c].op = "touch" THEN DOMAIN key = {L(c)} /\ key[L(c)] \in Node
        ELSE key \in [Used(c, F(c)) -> Node]
    BY <2>3, <2>4
  <2>7. loc' = [loc EXCEPT ![c].key = key] /\ row \in FileRows
    BY <2>1, <2>2
  <2> HIDE DEF row, S, key
  <2> QED BY ONLY TypeInv, c \in Client, <1>1, <2>4, <2>5, <2>6, <2>7, SendTypes
<1> QED BY <1>3, <1>4, <1>5 DEF UploadInsert, WriteFileInsert

\* A block message is handled.
LEMMA ServeTypes == ASSUME TypeInv, NEW c \in Client, ServeBlock(c) PROVE TypeInv'
<1>1. PICK s \in sent[c] : /\ HandleBlock(s.to, s.msg) /\ sent' = [sent EXCEPT ![c] = @ \ {s}]
                           /\ UNCHANGED <<db, cache, pc, job, calls, loc, promise>>
  BY DEF ServeBlock
<1>2. MessageOK(s.msg) /\ Stored
  BY DEF TypeInv, Stored
<1>3. Stored'
  BY <1>1, <1>2, HandleBlockStore DEF Stored, Linked
<1>4. Shape' /\ Others(c) /\ Local(c)' /\ Catalog' /\ Listed' /\ DOMAIN calls' = Client
  BY <1>1 DEF TypeInv, Shape, Others, Local, Keyed, L, F, Catalog, Listed
<1> QED BY <1>3, <1>4, OwnStep

\* The rows of a finished upload.
LEMMA FinishTypes ==
    ASSUME TypeInv, NEW c \in Client, NEW num \in Int, NEW blockRows \in Seq(BRowOf(F(c))),
           NEW chunkRows \in Seq(CRowOf(F(c))), NEW contents, pc[c] = "await",
           Confirm(c, num, blockRows, chunkRows, contents)
    PROVE  TypeInv'
<1>1. Shape /\ InCall /\ DOMAIN calls = Client /\ Local(c) /\ Active(c)
  BY LocalShape DEF Active
<1> PICK f \in File : f = F(c) /\ Home[f] \in Node /\ L(c) = Home[f]
  BY <1>1, OwnFile
<1> DEFINE n == Home[f]
<1>2. /\ db' = [db EXCEPT ![n] = Confirmed(@, f, num, blockRows, chunkRows)]
      /\ UNCHANGED <<cache, disk, link, calls, sent>>
      /\ pc' = [pc EXCEPT ![c] = "idle"] /\ job' = [job EXCEPT ![c] = NoJob]
      /\ loc' = [loc EXCEPT ![c] = NoLocals] /\ promise' = [promise EXCEPT ![f] = contents]
  BY DEF Confirm, FileInsertConfirm, Return, Goto
<1>3. \A m \in Node : db'[m] = IF m = n THEN Confirmed(db[n], f, num, blockRows, chunkRows) ELSE db[m]
  BY <1>1, <1>2 DEF Shape
<1>4. Catalog'
  <2>1. RowsIn(db[n], n) /\ blockRows \in Seq(BRowOf(f)) /\ chunkRows \in Seq(CRowOf(f))
    BY DEF TypeInv, Catalog
  <2>2. RowsIn(Confirmed(db[n], f, num, blockRows, chunkRows), n)
    BY <2>1, ConfirmedRows
  <2> QED BY <1>3, <2>2 DEF TypeInv, Catalog
<1>5. Shape' /\ Others(c)
  BY <1>1, <1>2, <1>3 DEF Shape, Others, Confirmed
<1>6. Local(c)'
  BY <1>1, <1>2 DEF Local, Shape, NoLocals, NoDescription
<1>7. Stored' /\ Listed'
  BY <1>2 DEF TypeInv, Stored, Listed
<1> QED BY <1>1, <1>2, <1>4, <1>5, <1>6, <1>7, OwnStep

\* The confirmations of all operations that upload.
LEMMA ConfirmTypes ==
    ASSUME TypeInv, NEW c \in Client,
           UploadConfirm(c) \/ WriteFileConfirm(c) \/ IdvConfirm(c) \/ TouchConfirm(c)
    PROVE  TypeInv'
<1>1. Shape /\ InCall /\ Local(c) /\ pc[c] = "await" /\ Active(c)
  BY LocalShape DEF UploadConfirm, WriteFileConfirm, ConfirmChunks, IdvConfirm, TouchConfirm, Active
<1>2. F(c) \in File /\ L(c) \in Node /\ Chunks[c] - 1 \in Int /\ 1 \in Int
  BY <1>1, OwnFile, ChunksAssumption
<1>3. ASSUME NEW op, op # "touch", ConfirmChunks(c, op) \/ IdvConfirm(c) PROVE TypeInv'
  <2>1. job[c].op # "touch"
    BY <1>3 DEF ConfirmChunks, IdvConfirm
  <2>2. Keyed(c, F(c))
    BY <1>1, <2>1 DEF Local
  <2>3. /\ UploadBlockRows(c, F(c)) \in Seq(BRowOf(F(c)))
        /\ UploadChunkRows(c, F(c)) \in Seq(CRowOf(F(c)))
        /\ IdvChunkRows(c, F(c)) \in Seq(CRowOf(F(c)))
    <3>1. UploadedRow(F(c)) \subseteq CRowOf(F(c))
      BY DEF UploadedRow
    <3>2. UploadChunkRows(c, F(c)) \in Seq(CRowOf(F(c)))
      BY <1>2, <3>1, UploadChunkRowsAre
    <3> QED BY <1>2, <2>2, <3>2, UploadBlockRowsAre, IdvChunkRowsAre
  <2> QED BY <1>1, <1>2, <1>3, <2>3, FinishTypes DEF ConfirmChunks, IdvConfirm
<1>4. CASE TouchConfirm(c)
  <2>1. loc[c].key[L(c)] \in Node
    BY <1>1, <1>4 DEF Local, TouchConfirm
  <2>2. TouchName(F(c)) \in NameOf(F(c)) /\ ChunkName(F(c), 0) \in ChunkNames(F(c))
    BY DEF NameOf, ChunkNames
  <2> DEFINE b == BlockRow(TouchName(F(c)), F(c), 0, loc[c].key[L(c)], L(c))
             r == ChunkRow(ChunkName(F(c), 0), F(c), TouchName(F(c)), 0, 0, 0, 0)
  <2>3. b \in BRowOf(F(c)) /\ r \in CRowOf(F(c))
    BY <1>2, <2>1, <2>2, BlockRowIs, ChunkRowIs
  <2>4. Confirm(c, 1, <<b>>, <<r>>, <<>>)
    BY <1>4 DEF TouchConfirm
  <2> HIDE DEF b, r
  <2>5. <<b>> \in Seq(BRowOf(F(c))) /\ <<r>> \in Seq(CRowOf(F(c)))
    BY <2>3
  <2> QED BY <1>1, <1>2, <2>4, <2>5, FinishTypes
<1>5. "put" # "touch" /\ "write_file" # "touch"
  OBVIOUS
<1> QED BY <1>3, <1>4, <1>5 DEF UploadConfirm, WriteFileConfirm

\* The description that a download works from.
LEMMA DescribeTypes == ASSUME TypeInv, NEW c \in Client, DownloadDescribe(c) PROVE TypeInv'
<1>1. Shape /\ InCall /\ DOMAIN calls = Client /\ Local(c) /\ Active(c) /\ pc[c] = "describe"
  BY LocalShape DEF Active, DownloadDescribe
<1> PICK f \in File : f = F(c) /\ Home[f] \in Node /\ L(c) = Home[f]
  BY <1>1, OwnFile
<1> DEFINE fd == FileReply(L(c), F(c), FALSE)
<1>2. /\ UNCHANGED <<db, cache, disk, link, job, calls, sent, promise>>
      /\ pc' = [pc EXCEPT ![c] = "read"] /\ loc' = [loc EXCEPT ![c].fd = fd]
  BY DEF DownloadDescribe, FileRequest, Goto
<1>3. Len(fd.blocks) \in Nat
  BY ReplySeq DEF TypeInv
<1> HIDE DEF fd
<1>4. Shape' /\ Others(c) /\ Stored' /\ Catalog' /\ Listed' /\ DOMAIN calls' = Client
  BY <1>1, <1>2 DEF TypeInv, Shape, Others, Stored, Catalog, Listed
<1>5. Local(c)'
  <2>1. /\ DOMAIN loc'[c] = DOMAIN NoLocals /\ loc'[c].fd = fd /\ loc'[c].i = 1
        /\ pc'[c] = "read" /\ job'[c] = job[c]
    BY <1>1, <1>2 DEF Shape, Local, NoLocals
  <2> QED BY <1>1, <1>2, <1>3, <2>1 DEF Local
<1> QED BY <1>4, <1>5, OwnStep

\* One block of a download, or of a removal.
LEMMA BlockTypes == ASSUME TypeInv, NEW c \in Client, DownloadBlock(c) \/ RemoveBlock(c) PROVE TypeInv'
<1>1. Shape /\ InCall /\ DOMAIN calls = Client /\ Local(c) /\ pc[c] \in {"read", "delete"} /\ ~Finished(c)
  BY LocalShape DEF DownloadBlock, RemoveBlock
<1>2. UNCHANGED <<db, cache, pc, job, calls, sent, promise>>
  BY DEF DownloadBlock, RemoveBlock, servers
<1>3. /\ DOMAIN loc' = Client /\ \A d \in Client \ {c} : loc'[d] = loc[d]
      /\ DOMAIN loc'[c] = DOMAIN NoLocals /\ loc'[c].fd = loc[c].fd /\ loc'[c].i = loc[c].i + 1
  <2>1. CASE DownloadBlock(c)
    <3> DEFINE more == loc[c].got \o ReadBlock(loc[c].fd.blocks[loc[c].i])
    <3>1. loc' = [loc EXCEPT ![c].i = @ + 1, ![c].got = more]
      BY <2>1 DEF DownloadBlock, NextBlock
    <3> HIDE DEF more
    <3> QED BY <1>1, <3>1 DEF Shape, Local, NoLocals
  <2>2. CASE RemoveBlock(c)
    <3>1. loc' = [loc EXCEPT ![c].i = @ + 1]
      BY <2>2 DEF RemoveBlock
    <3> QED BY <1>1, <3>1 DEF Shape, Local, NoLocals
  <2> QED BY <2>1, <2>2
<1>4. Shape' /\ Others(c) /\ Catalog' /\ Listed' /\ DOMAIN calls' = Client
  BY <1>1, <1>2, <1>3 DEF TypeInv, Shape, Others, Catalog, Listed
<1>5. Local(c)'
  BY <1>1, <1>2, <1>3 DEF Local, Finished
<1>6. Stored'
  <2>1. CASE DownloadBlock(c)
    BY <1>2, <2>1 DEF DownloadBlock, servers, TypeInv, Stored
  <2>2. CASE RemoveBlock(c)
    <3> DEFINE b == loc[c].fd.blocks[loc[c].i]
               m == Message("DELETE", b.primary, 0, <<>>)
               n == b.key
    <3>1. HandleBlock(n, m) /\ MessageOK(m)
      BY <2>2 DEF RemoveBlock, NextBlock, MessageOK, Message
    <3> HIDE DEF m, n
    <3> QED BY <1>2, <3>1, HandleBlockStore DEF Stored, Linked, TypeInv
  <2> QED BY <2>1, <2>2
<1> QED BY <1>4, <1>5, <1>6, OwnStep

\* Calls that return without a change, and clients that die.
LEMMA EndTypes ==
    ASSUME TypeInv, NEW c \in Client, DownloadReturn(c) \/ FormatReturn(c) \/ DownloadDies(c) \/ Crash(c)
    PROVE  TypeInv'
<1>1. Shape /\ InCall /\ DOMAIN calls = Client /\ Local(c)
  BY LocalShape
<1>2. /\ UNCHANGED <<db, cache, disk, link, calls>> /\ loc' = [loc EXCEPT ![c] = NoLocals]
      /\ DOMAIN promise' = File /\ DOMAIN sent' = Client
      /\ \A d \in Client : sent'[d] \subseteq sent[d]
      /\ \/ pc' = [pc EXCEPT ![c] = "idle"] /\ job' = [job EXCEPT ![c] = NoJob]
         \/ pc' = [pc EXCEPT ![c] = "crashed"] /\ UNCHANGED job /\ pc[c] # "idle"
  BY <1>1 DEF DownloadReturn, FormatReturn, Crash, DownloadDies, Dies, Return, Goto, servers, Shape, TypeInv, Stored
<1>3. Shape' /\ Others(c) /\ Catalog' /\ Listed' /\ DOMAIN calls' = Client
  BY <1>1, <1>2 DEF TypeInv, Shape, Others, Catalog, Listed
<1>4. Local(c)'
  BY <1>1, <1>2 DEF Local, Shape, NoLocals, NoDescription
<1>5. Stored'
  BY <1>2 DEF TypeInv, Stored
<1> QED BY <1>3, <1>4, <1>5, OwnStep

\* The description that a removal works from.
LEMMA RemoveDescribeTypes ==
    ASSUME TypeInv, NEW c \in Client, NEW j \in Job, RemoveDescribe(c, j) PROVE TypeInv'
<1>1. Shape /\ InCall /\ DOMAIN calls = Client /\ Local(c) /\ pc[c] = "idle"
  BY LocalShape DEF RemoveDescribe, Calls
<1> PICK f \in File : f = j.file /\ Home[f] \in Node
  BY JobAssumption, HomeAssumption DEF RemoveDescribe
<1> DEFINE fd == FileReply(Home[j.file], j.file, FALSE)
<1>2. /\ UNCHANGED <<db, cache, disk, link, sent>> /\ Calls(c, j) /\ j.op = "rm"
      /\ pc' = [pc EXCEPT ![c] = "delete"] /\ job' = [job EXCEPT ![c] = j]
      /\ loc' = [loc EXCEPT ![c].fd = fd] /\ promise' = [promise EXCEPT ![f] = NoOne]
  BY DEF RemoveDescribe, FileRequest, Enter, Goto
<1>3. Len(fd.blocks) \in Nat
  BY ReplySeq DEF TypeInv
<1> HIDE DEF fd
<1>4. Shape' /\ Others(c) /\ Stored' /\ Catalog' /\ Listed' /\ DOMAIN calls' = Client
  BY <1>1, <1>2 DEF TypeInv, Shape, Others, Stored, Catalog, Listed, Calls
<1>5. Local(c)'
  <2>1. /\ DOMAIN loc'[c] = DOMAIN NoLocals /\ loc'[c].fd = fd /\ loc'[c].i = 1
        /\ pc'[c] = "delete" /\ job'[c] = j
    BY <1>1, <1>2 DEF Shape, Local, NoLocals
  <2>2. calls'[c] \in 0 .. MaxJobs[c]
    BY <1>1, <1>2, CallsTypes DEF Local
  <2> QED BY <1>2, <1>3, <2>1, <2>2 DEF Local
<1> QED BY <1>4, <1>5, OwnStep

\* FileDel.
LEMMA RemoveFileTypes == ASSUME TypeInv, NEW c \in Client, RemoveFile(c) PROVE TypeInv'
<1>1. Shape /\ InCall /\ DOMAIN calls = Client /\ Local(c) /\ pc[c] = "delete" /\ Active(c)
  BY LocalShape DEF RemoveFile, Active
<1> PICK f \in File : f = F(c) /\ Home[f] \in Node /\ L(c) = Home[f]
  BY <1>1, OwnFile
<1> DEFINE n == Home[f]
<1>2. /\ UNCHANGED <<calls, sent>> /\ pc' = [pc EXCEPT ![c] = "idle"]
      /\ job' = [job EXCEPT ![c] = NoJob] /\ loc' = [loc EXCEPT ![c] = NoLocals]
  BY DEF RemoveFile, Return, Goto
<1>3. Others(c) /\ Local(c)' /\ DOMAIN calls' = Client
  BY <1>1, <1>2 DEF Others, Local, Shape, NoLocals, NoDescription
<1>4. CASE UNCHANGED <<servers, promise>>
  <2>1. Shape' /\ Stored' /\ Catalog' /\ Listed'
    BY <1>1, <1>2, <1>4 DEF servers, TypeInv, Shape, Stored, Catalog, Listed
  <2> QED BY <1>3, <2>1, OwnStep
<1>5. CASE FileDelete(n, f) /\ promise' = [promise EXCEPT ![f] = Gone]
  <2>1. /\ db' = [db EXCEPT ![n] = Deleted(@, f)] /\ cache' = [cache EXCEPT ![n] = Forget(@, f)]
        /\ ReplicateMetadata(n, Deleted(db[n], f)) /\ UNCHANGED disk
    BY <1>5 DEF FileDelete
  <2>2. \A m \in Node : /\ db'[m] = IF m = n THEN Deleted(db[n], f) ELSE db[m]
                        /\ cache'[m] = IF m = n THEN Forget(cache[n], f) ELSE cache[m]
    BY <1>1, <2>1 DEF Shape
  <2>3. Shape'
    BY <1>1, <1>2, <1>5, <2>1, <2>2 DEF Shape, Deleted
  <2>4. Catalog'
    BY <2>2, DeletedRows DEF TypeInv, Catalog
  <2>5. Listed'
    BY <2>2 DEF TypeInv, Listed, Forget, Restrict
  <2>6. Stored'
    <3> DEFINE m == Message("INSERT", MetaReplica(n), 0, <<Deleted(db[n], f)>>)
    <3>1. link' = Sent(link, n, m)
      BY <2>1 DEF ReplicateMetadata
    <3>2. MessageOK(m)
      BY DEF MessageOK, Message, BlockFiles
    <3> HIDE DEF m
    <3>3. Linked(link')
      BY <3>1, <3>2, SentLinks DEF TypeInv, Stored, Linked
    <3> QED BY <1>2, <2>1, <3>3 DEF TypeInv, Stored, Linked
  <2> QED BY <1>3, <2>3, <2>4, <2>5, <2>6, OwnStep
<1> QED BY <1>4, <1>5 DEF RemoveFile

\* A job's arrangement.
LEMMA ArrangeTypes ==
    ASSUME TypeInv, NEW c \in Client, NEW j \in Job, Arrange(c, j) PROVE TypeInv'
<1>1. Shape /\ InCall /\ DOMAIN calls = Client /\ Local(c)
  BY LocalShape
<1> PICK f \in File : f = j.file /\ Home[f] \in Node
  BY JobAssumption, HomeAssumption DEF Arrange
<1> DEFINE n == Home[f]
           fd == FileReply(n, f, TRUE)
<1>2. /\ UNCHANGED <<pc, job, loc, sent, promise, db, disk, link>> /\ Calls(c, j)
      /\ cache' = IF fd.uploading = 0 /\ fd.is_input
                  THEN [cache EXCEPT ![n] = WithRow(@, f, fd)] ELSE cache
  BY DEF Arrange, FileRequest
<1>3. Len(fd.blocks) \in Nat
  BY ReplySeq DEF TypeInv
<1> HIDE DEF fd
<1>4. DOMAIN cache' = Node /\ Listed'
  <2>1. CASE UNCHANGED cache
    BY <1>1, <2>1 DEF TypeInv, Listed, Shape
  <2>2. CASE cache' = [cache EXCEPT ![n] = WithRow(@, f, fd)]
    <3>1. \A m \in Node : cache'[m] = IF m = n THEN WithRow(cache[n], f, fd) ELSE cache[m]
      BY <1>1, <2>2 DEF Shape
    <3>2. \A g \in DOMAIN WithRow(cache[n], f, fd) :
              Len(WithRow(cache[n], f, fd)[g].blocks) \in Nat
      BY <1>3 DEF TypeInv, Listed, WithRow
    <3>3. Listed'
      BY <3>1, <3>2 DEF TypeInv, Listed
    <3> QED BY <1>1, <2>2, <3>3 DEF Shape
  <2> QED BY <1>2, <2>1, <2>2
<1>5. calls'[c] \in 0 .. MaxJobs[c]
  BY <1>1, <1>2, CallsTypes DEF Local
<1>6. Shape' /\ Others(c) /\ Stored' /\ Catalog' /\ DOMAIN calls' = Client
  BY <1>1, <1>2, <1>4 DEF TypeInv, Shape, Others, Stored, Catalog, Calls
<1>7. Local(c)'
  BY <1>1, <1>2, <1>5 DEF Local, Keyed, L, F
<1> QED BY <1>4, <1>6, <1>7, OwnStep

\* One more node is formatted.
LEMMA FormatTypes == ASSUME TypeInv, NEW c \in Client, FormatNode(c) PROVE TypeInv'
<1>1. Shape /\ InCall /\ DOMAIN calls = Client /\ Local(c) /\ pc[c] = "format"
  BY LocalShape DEF FormatNode
<1> DEFINE n == loc[c].i - 1
<1>2. /\ UNCHANGED <<cache, link, pc, job, calls, sent, promise>> /\ loc[c].i <= N
      /\ disk' = [disk EXCEPT ![n] = NoFiles] /\ db' = [db EXCEPT ![n] = EmptyDb]
      /\ loc' = [loc EXCEPT ![c].i = @ + 1]
  BY DEF FormatNode, Format, WipeDisk
<1> HIDE DEF n
<1>3. \A m \in Node : db'[m] = IF m = n THEN EmptyDb ELSE db[m]
  BY <1>1, <1>2 DEF Shape
<1>4. Catalog' /\ Listed'
  BY <1>2, <1>3, EmptyRows DEF TypeInv, Catalog, Listed
<1>5. Stored'
  BY <1>2 DEF TypeInv, Stored, NoFiles
<1>6. Shape' /\ Others(c)
  BY <1>1, <1>2, <1>3 DEF Shape, Others, EmptyDb
<1>7. Local(c)'
  <2>1. DOMAIN loc'[c] = DOMAIN NoLocals /\ loc'[c].i = loc[c].i + 1 /\ loc'[c].fd = loc[c].fd
    BY <1>1, <1>2 DEF Shape, Local, NoLocals
  <2>2. loc'[c].i \in 1 .. N + 1
    BY <1>1, <1>2, <2>1, NodesAssumption DEF Local
  <2>3. pc'[c] = "format" /\ job'[c] = job[c] /\ calls'[c] = calls[c]
    BY <1>1, <1>2
  <2> QED BY <1>1, <2>1, <2>2, <2>3 DEF Local
<1> QED BY <1>1, <1>2, <1>4, <1>5, <1>6, <1>7, OwnStep

\* A node that has no rows.
LEMMA InitTypes == Init => TypeInv
<1> SUFFICES ASSUME Init PROVE TypeInv
  OBVIOUS
<1>1. /\ pc = [c \in Client |-> "idle"] /\ job = [c \in Client |-> NoJob]
      /\ loc = [c \in Client |-> NoLocals] /\ promise = [f \in File |-> Gone]
      /\ db = [n \in Node |-> EmptyDb] /\ cache = [n \in Node |-> <<>>]
      /\ calls = [c \in Client |-> 0] /\ sent = [c \in Client |-> {}]
      /\ disk = [n \in Node |-> NoFiles] /\ link = [e \in Node \X Node |-> <<>>]
  BY DEF Init, LeaderInit, BlockInit
<1>2. Shape
  BY <1>1 DEF Shape, EmptyDb
<1>3. Catalog /\ Listed
  BY <1>1, EmptyRows DEF Catalog, Listed
<1>4. ASSUME NEW c \in Client PROVE Local(c)
  BY <1>1, BoundAssumption DEF Local, NoLocals, NoDescription
<1>5. Stored
  <2>1. Queue(<<>>)
    <3> DEFINE T == {}
    <3>1. <<>> \in Seq(T) /\ \A m \in T : MessageOK(m)
      OBVIOUS
    <3> HIDE DEF T
    <3> QED BY <3>1 DEF Queue
  <2> QED BY <1>1, <2>1 DEF Stored, NoFiles
<1> QED BY <1>1, <1>2, <1>3, <1>4, <1>5 DEF TypeInv

\* Every step keeps the types.
LEMMA StepTypes == ASSUME TypeInv, [Next]_vars PROVE TypeInv'
<1>1. ASSUME NEW c \in Client, NEW j \in Job, Call(c, j) PROVE TypeInv'
  BY <1>1, BeginTypes, RemoveDescribeTypes, ArrangeTypes DEF Call
<1>2. ASSUME NEW c \in Client, Step(c) PROVE TypeInv'
  BY <1>1, <1>2, InsertTypes, ServeTypes, ConfirmTypes, DescribeTypes, BlockTypes, EndTypes,
     RemoveFileTypes, FormatTypes DEF Step
<1>3. CASE Replicate
  <2>1. UNCHANGED <<db, cache, pc, job, calls, loc, promise>>
    BY <1>3 DEF Replicate, client
  <2>2. Stored'
    BY <1>3, ReplicateStore DEF TypeInv
  <2> QED BY <2>1, <2>2 DEF TypeInv, Shape, Local, Keyed, L, F, Catalog, Listed
<1>4. CASE UNCHANGED vars
  BY <1>4 DEF vars, servers, client, TypeInv, Shape, Local, Keyed, L, F, Catalog, Listed, Stored
<1> QED BY <1>2, <1>3, <1>4, EndTypes DEF Next

\* In every state the rows in the tables are about known files and nodes, each
\* name has one row, disks hold files of known names only, and clients are where
\* their calls can be (class Directory, DFS).
THEOREM TypeCorrect == Spec => []TypeOK
<1>1. Init => TypeInv
  BY InitTypes
<1>2. TypeInv /\ [Next]_vars => TypeInv'
  BY StepTypes
<1>3. TypeInv => TypeOK
  <2> SUFFICES ASSUME TypeInv PROVE TypeOK
    OBVIOUS
  <2>1. ASSUME NEW n \in Node
        PROVE  /\ DOMAIN disk[n] \subseteq Names \cup {MetaReplica(m) : m \in Node}
               /\ DOMAIN db[n].file \subseteq {f \in File : Home[f] = n}
               /\ \A f \in DOMAIN db[n].file : db[n].file[f].uploading \in {0, 1}
    BY DEF TypeInv, Stored, BlockFiles, Catalog, RowsIn, FileRows
  <2>2. ASSUME NEW n \in Node
        PROVE  /\ IsInjective([x \in DOMAIN db[n].block |-> db[n].block[x].name])
               /\ IsInjective([x \in DOMAIN db[n].chunk |-> db[n].chunk[x].name])
               /\ \A x \in DOMAIN db[n].block : db[n].block[x].key \in Node
    <3>1. db[n].block \in Seq(BRow) /\ db[n].chunk \in Seq(CRow)
          /\ Unique(db[n].block) /\ Unique(db[n].chunk)
      BY DEF TypeInv, Catalog, RowsIn, Tables
    <3>2. DOMAIN db[n].block = 1 .. Len(db[n].block) /\ DOMAIN db[n].chunk = 1 .. Len(db[n].chunk)
          /\ \A x \in DOMAIN db[n].block : db[n].block[x] \in BRow
      BY <3>1
    <3> QED BY <3>1, <3>2 DEF Unique, IsInjective, BRow
  <2>3. ASSUME NEW c \in Client
        PROVE  /\ calls[c] \in 0 .. MaxJobs[c]
               /\ pc[c] \in {"idle", "insert", "await", "describe", "read", "delete",
                             "format", "crashed"}
               /\ (pc[c] = "idle") = (job[c] = NoJob)
               /\ pc[c] \in {"read", "delete"} => loc[c].i \in 1 .. Len(loc[c].fd.blocks) + 1
               /\ pc[c] = "await" => DOMAIN loc[c].key \subseteq Node
    <3>1. Shape /\ InCall /\ Local(c)
      BY LocalShape
    <3>2. (pc[c] = "idle") = (job[c] = NoJob)
      BY <3>1, JobAssumption DEF Local
    <3>3. pc[c] = "await" => DOMAIN loc[c].key \subseteq Node
      <4> SUFFICES ASSUME pc[c] = "await" PROVE DOMAIN loc[c].key \subseteq Node
        OBVIOUS
      <4>1. F(c) \in File /\ L(c) \in Node
        BY <3>1, OwnFile DEF Active
      <4> QED BY <3>1, <4>1, UsedServers DEF Local, Keyed
    <3> QED BY <3>1, <3>2, <3>3 DEF Local, Shape
  <2> QED BY <2>1, <2>2, <2>3 DEF TypeOK
<1> QED BY <1>1, <1>2, <1>3, PTL DEF Spec
-----------------------------------------------------------------------------
(* What an upload leaves, piece by piece.                                  *)

\* The rounds of FlattenSeq.
Chained(h, seqs, T) ==
    /\ h \in [1 .. Len(seqs) -> Seq(T)] /\ h[1] = seqs[1]
    /\ \A i \in 2 .. Len(seqs) : h[i] = h[i - 1] \o seqs[i]

\* What FlattenSeq computes is what its rounds compute.
LEMMA FlattenRun ==
    ASSUME NEW T, NEW seqs, seqs \in Seq(Seq(T)), Len(seqs) # 0
    PROVE  \E h : Chained(h, seqs, T) /\ FlattenSeq(seqs) = h[Len(seqs)]
<1> DEFINE n == Len(seqs)
           Round(r) == [i \in 1 .. n |-> IF i = 1 THEN seqs[i] ELSE r[i - 1] \o seqs[i]]
           f == CHOOSE f : f = Round(f)
           step == [z \in Seq(T) \X (1 .. n - 1) |-> z[1] \o seqs[z[2] + 1]]
<1>1. n \in Nat /\ n - 1 \in Nat /\ n >= 1 /\ \A i \in 1 .. n : seqs[i] \in Seq(T)
  OBVIOUS
<1>2. FlattenSeq(seqs) = f[n]
  BY DEF FlattenSeq
<1> HIDE DEF n
<1>3. /\ step \in [Seq(T) \X (1 .. n - 1) -> Seq(T)]
      /\ \A s \in Seq(T) : \A i \in 1 .. n - 1 : step[<<s, i>>] = s \o seqs[i + 1]
  <2>1. ASSUME NEW s \in Seq(T), NEW i \in 1 .. n - 1 PROVE s \o seqs[i + 1] \in Seq(T)
    <3>1. i + 1 \in 1 .. n
      BY <1>1
    <3>2. seqs[i + 1] \in Seq(T)
      BY <1>1, <3>1
    <3> QED BY <3>2
  <2> QED BY <2>1
<1> HIDE DEF step
<1>4. seqs[1] \in Seq(T)
  BY <1>1
<1>5. PICK g \in [0 .. n - 1 -> Seq(T)] :
          g[0] = seqs[1] /\ \A i \in 1 .. n - 1 : g[i] = step[<<g[i - 1], i>>]
  <2>1. Rounds(step, Seq(T), n - 1)
    BY <1>3 DEF Rounds
  <2>2. \E g : Run(g, seqs[1], step, Seq(T), n - 1)
    BY ONLY <1>1, <1>4, <2>1, Loop, Zenon
  <2> QED BY <2>2 DEF Run
<1> DEFINE h == [i \in 1 .. n |-> g[i - 1]]
<1>6. /\ h \in [1 .. n -> Seq(T)] /\ h[1] = seqs[1]
      /\ \A i \in 2 .. n : h[i] = h[i - 1] \o seqs[i]
  <2>1. h \in [1 .. n -> Seq(T)] /\ h[1] = seqs[1]
    BY <1>1, <1>5
  <2>2. ASSUME NEW i \in 2 .. n PROVE h[i] = h[i - 1] \o seqs[i]
    <3>1. /\ i - 1 \in 1 .. n - 1 /\ i - 1 \in 1 .. n /\ (i - 1) - 1 \in 0 .. n - 1
          /\ (i - 1) + 1 = i /\ i \in 1 .. n
      BY <1>1
    <3>2. g[i - 1] = g[(i - 1) - 1] \o seqs[i]
      BY <1>3, <1>5, <3>1
    <3>3. h[i] = g[i - 1] /\ h[i - 1] = g[(i - 1) - 1]
      BY <3>1
    <3> QED BY <3>2, <3>3
  <2> QED BY <2>1, <2>2
<1> HIDE DEF h
<1>7. h = Round(h)
  <2>1. h = [i \in 1 .. n |-> h[i]]
    BY <1>6
  <2>2. ASSUME NEW i \in 1 .. n PROVE h[i] = IF i = 1 THEN seqs[i] ELSE h[i - 1] \o seqs[i]
    <3>1. i = 1 \/ i \in 2 .. n
      BY <1>1
    <3> QED BY <1>6, <3>1
  <2> QED BY <2>1, <2>2
<1>8. f = Round(f)
  <2> HIDE DEF Round
  <2> QED BY <1>7, Zenon
<1> HIDE DEF f
<1> DEFINE U == {i \in 0 .. n - 1 : f[i + 1] = h[i + 1]}
<1>9. 0 \in U
  <2>1. 0 \in 0 .. n - 1 /\ 0 + 1 = 1 /\ 1 \in 1 .. n
    BY <1>1
  <2> QED BY <1>6, <1>8, <2>1
<1>10. ASSUME NEW i \in 1 .. n - 1, i - 1 \in U PROVE i \in U
  <2>1. /\ i + 1 \in 1 .. n /\ i + 1 # 1 /\ (i + 1) - 1 = i /\ (i - 1) + 1 = i
        /\ i \in 0 .. n - 1 /\ i \in 1 .. n /\ i + 1 \in 2 .. n
    BY <1>1
  <2>2. f[i] = h[i]
    BY <1>10, <2>1
  <2>3. f[i + 1] = f[i] \o seqs[i + 1]
    BY <1>8, <2>1
  <2>4. h[i + 1] = h[i] \o seqs[i + 1]
    BY <1>6, <2>1
  <2> QED BY <2>1, <2>2, <2>3, <2>4
<1> HIDE DEF U
<1>11. 0 .. n - 1 \subseteq U
  BY ONLY <1>1, <1>9, <1>10, UpTo
<1>12. f[n] = h[n]
  <2>1. n - 1 \in 0 .. n - 1 /\ (n - 1) + 1 = n
    BY <1>1
  <2> QED BY <1>11, <2>1 DEF U
<1>13. Chained(h, seqs, T)
  BY <1>6 DEF Chained, n
<1> QED BY <1>2, <1>12, <1>13 DEF n

\* Lists of one element each, one behind the other.
LEMMA FlattenSingles ==
    ASSUME NEW n \in Nat \ {0}, NEW T, NEW e \in [1 .. n -> T], NEW seqs,
           seqs = [j \in 1 .. n |-> <<e[j]>>]
    PROVE  FlattenSeq(seqs) = e
<1>1. seqs \in Seq(Seq(T)) /\ Len(seqs) = n /\ n >= 1 /\ Len(seqs) # 0 /\ n \in Nat
      /\ \A j \in 1 .. n : seqs[j] = <<e[j]>> /\ e[j] \in T
  OBVIOUS
<1>2. PICK h \in [1 .. n -> Seq(T)] :
          /\ FlattenSeq(seqs) = h[n] /\ h[1] = seqs[1]
          /\ \A i \in 2 .. n : h[i] = h[i - 1] \o seqs[i]
  <2>1. \E h : Chained(h, seqs, T) /\ FlattenSeq(seqs) = h[Len(seqs)]
    BY ONLY <1>1, FlattenRun, Zenon
  <2> QED BY <1>1, <2>1 DEF Chained
<1> DEFINE First(s, i) == Len(s) = i /\ \A j \in 1 .. i : s[j] = e[j]
           U == {i \in 0 .. n - 1 : First(h[i + 1], i + 1)}
<1>3. 0 \in U
  <2>1. h[1] = <<e[1]>>
    BY <1>1, <1>2
  <2>2. \A x : Len(<<x>>) = 1 /\ <<x>>[1] = x
    OBVIOUS
  <2>3. First(h[1], 1)
    BY <2>1, <2>2
  <2> HIDE DEF First
  <2>4. 0 + 1 = 1 /\ 0 \in 0 .. n - 1
    OBVIOUS
  <2> QED BY <2>3, <2>4
<1>4. ASSUME NEW i \in 1 .. n - 1, i - 1 \in U PROVE i \in U
  <2>1. (i - 1) + 1 = i /\ i + 1 \in 2 .. n /\ (i + 1) - 1 = i /\ i + 1 \in 1 .. n /\ i \in 1 .. n
        /\ i \in 0 .. n - 1 /\ i \in Nat
    OBVIOUS
  <2>2. First(h[i], i)
    BY <1>4, <2>1
  <2>3. h[i + 1] = h[i] \o <<e[i + 1]>> /\ h[i] \in Seq(T) /\ e[i + 1] \in T
    BY <1>1, <1>2, <2>1
  <2> DEFINE s == h[i]
             x == e[i + 1]
  <2>4. s \in Seq(T) /\ x \in T /\ Len(s) = i /\ \A j \in 1 .. i : s[j] = e[j]
    BY <2>2, <2>3
  <2> HIDE DEF s, x
  <2>5. Len(s \o <<x>>) = i + 1 /\ \A j \in 1 .. i + 1 : (s \o <<x>>)[j] = IF j = i + 1 THEN x ELSE s[j]
    BY <2>1, <2>4
  <2>6. \A j \in 1 .. i + 1 : (s \o <<x>>)[j] = e[j]
    <3>1. \A j \in 1 .. i + 1 : j = i + 1 \/ (j # i + 1 /\ j \in 1 .. i)
      BY <2>1
    <3> QED BY <2>4, <2>5, <3>1 DEF x
  <2>7. First(h[i + 1], i + 1)
    BY <2>3, <2>5, <2>6 DEF s, x
  <2> HIDE DEF First
  <2> QED BY <2>1, <2>7
<1> HIDE DEF U
<1>5. n - 1 \in Nat /\ n - 1 \in 0 .. n - 1 /\ (n - 1) + 1 = n
  OBVIOUS
<1>6. 0 .. n - 1 \subseteq U
  BY ONLY <1>3, <1>4, <1>5, UpTo
<1>7. First(h[n], n)
  <2> HIDE DEF First
  <2> QED BY <1>5, <1>6 DEF U
<1>8. h[n] \in Seq(T)
  BY <1>1, <1>2
<1>9. e \in Seq(T) /\ Len(e) = n
  OBVIOUS
<1>10. h[n] = e
  <2> DEFINE s == h[n]
  <2>1. s \in Seq(T) /\ Len(s) = n /\ \A j \in 1 .. n : s[j] = e[j]
    BY <1>7, <1>8
  <2> HIDE DEF s
  <2>2. s = e
    BY <1>9, <2>1
  <2> QED BY <2>2 DEF s
<1> QED BY <1>2, <1>10

\* One row is asked for.
LEMMA OnlyOne ==
    ASSUME NEW T, NEW rows \in Seq(T), NEW S, NEW k \in 1 .. Len(rows),
           \A x \in 1 .. Len(rows) : rows[x] \in S <=> x = k
    PROVE  Only(rows, S) = <<rows[k]>>
<1>1. PICK g : Looked(g, rows, S, T) /\ Only(rows, S) = g[Len(rows)]
  BY OnlyLoop
<1> DEFINE n == Len(rows)
           U == {i \in 0 .. n : g[i] = IF i < k THEN <<>> ELSE <<rows[k]>>}
<1>2. n \in Nat /\ k \in 1 .. n
  OBVIOUS
<1>3. 0 \in U
  BY <1>1 DEF Looked
<1>4. ASSUME NEW i \in 1 .. n, i - 1 \in U PROVE i \in U
  <2>1. g[i] = IF rows[i] \in S THEN Append(g[i - 1], rows[i]) ELSE g[i - 1]
    BY <1>1 DEF Looked
  <2>2. g[i - 1] = IF i - 1 < k THEN <<>> ELSE <<rows[k]>>
    BY <1>4
  <2>3. Append(<<>>, rows[k]) = <<rows[k]>>
    OBVIOUS
  <2> HIDE DEF n
  <2>4. CASE i < k
    BY <1>2, <2>1, <2>2, <2>4 DEF n
  <2>5. CASE i = k
    <3>1. i - 1 < k /\ ~(i < k) /\ rows[i] = rows[k] /\ rows[i] \in S
      BY <1>2, <2>5 DEF n
    <3>2. g[i] = <<rows[k]>>
      BY <2>1, <2>2, <2>3, <3>1
    <3> QED BY <1>2, <3>1, <3>2 DEF n
  <2>6. CASE i > k
    <3>1. ~(i - 1 < k) /\ i # k
      BY <1>2, <2>6
    <3> QED BY <2>1, <2>2, <3>1 DEF n
  <2> QED BY <1>2, <2>4, <2>5, <2>6
<1> HIDE DEF U
<1>5. 0 .. n \subseteq U
  BY ONLY <1>2, <1>3, <1>4, UpTo
<1>6. n \in U
  BY <1>2, <1>5
<1> QED BY <1>1, <1>2, <1>6 DEF U

\* In the first round no list is exhausted that has a chunk.
LEMMA NeverEnded ==
    ASSUME NEW n \in Nat \ {0}, NEW lists, Len(lists) = n, \A p \in 1 .. n : Len(lists[p]) = 1
    PROVE  ~Ended(lists, 0)
<1> DEFINE Round(r) == [p \in 0 .. n |-> IF p = 0 THEN 0
                ELSE r[p - 1] + (IF 0 > Len(lists[p]) THEN 0 - Len(lists[p]) ELSE 0)]
           f == CHOOSE f : f = Round(f)
           z == [p \in 0 .. n |-> 0]
<1>1. z = Round(z)
  <2>1. ASSUME NEW p \in 0 .. n
        PROVE  0 = IF p = 0 THEN 0 ELSE z[p - 1] + (IF 0 > Len(lists[p]) THEN 0 - Len(lists[p]) ELSE 0)
    <3>1. p # 0 => p \in 1 .. n /\ p - 1 \in 0 .. n
      OBVIOUS
    <3> QED BY <3>1
  <2> QED BY <2>1
<1>2. f = Round(f)
  <2> HIDE DEF Round, z
  <2> QED BY <1>1, Zenon
<1>3. Ended(lists, 0) <=> f[n] >= n
  BY DEF Ended
<1> HIDE DEF f
<1> DEFINE U == {p \in 0 .. n : f[p] = 0}
<1>4. 0 \in U
  BY <1>2
<1>5. ASSUME NEW p \in 1 .. n, p - 1 \in U PROVE p \in U
  BY <1>2, <1>5
<1>6. n \in Nat
  OBVIOUS
<1> HIDE DEF U
<1>7. 0 .. n \subseteq U
  BY ONLY <1>4, <1>5, <1>6, UpTo
<1>8. f[n] = 0
  BY <1>6, <1>7 DEF U
<1>9. ~(0 >= n)
  OBVIOUS
<1> QED BY <1>3, <1>8, <1>9

\* What a description says of a chunk, from its row and that of its primary file.
EntryOf(r, k) ==
    [chunk |-> k.name, primary |-> r.name, key |-> r.key, node |-> r.node, offset |-> k.offset,
     seq |-> k.seq, primary_seq |-> k.primary_seq, size |-> k.size]

\* Lists of one chunk each, and the turns that a round takes through them.
Singles(e, n) == [p \in 1 .. n |-> <<e[p]>>]
Turns(rows, e, start, n) ==
    [j \in 1 .. n |-> EntryOf(rows[((start + j - 2) % n) + 1], e[((start + j - 2) % n) + 1])]

\* With one chunk in each primary file, the arrangement is one round.
LEMMA ArrangedSingles ==
    ASSUME NEW n \in Nat \ {0}, NEW rows, DOMAIN rows = 1 .. n, Len(rows) = n, NEW e,
           NEW lists, lists = Singles(e, n), NEW start \in Nat \ {0}
    PROVE  Arranged(rows, lists, start) = Turns(rows, e, start, n)
<1> DEFINE Entry(p, i) ==
            [chunk |-> lists[p][i].name, primary |-> rows[p].name, key |-> rows[p].key,
             node |-> rows[p].node, offset |-> lists[p][i].offset, seq |-> lists[p][i].seq,
             primary_seq |-> lists[p][i].primary_seq, size |-> lists[p][i].size]
           Turn(p, i) == IF i > Len(lists[p]) \/ Ended(lists, i - 1) THEN <<>> ELSE <<Entry(p, i)>>
           At(j) == ((start + j - 2) % Len(rows)) + 1
           Round(i) == FlattenSeq([j \in DOMAIN rows |-> Turn(At(j), i)])
           max == Max({0} \cup {Len(lists[p]) : p \in DOMAIN lists})
           all == [j \in 1 .. n |-> EntryOf(rows[At(j)], e[At(j)])]
<1>1. Arranged(rows, lists, start) = FlattenSeq([i \in 1 .. max |-> Round(i)])
  BY DEF Arranged
<1>2. /\ DOMAIN lists = 1 .. n /\ Len(lists) = n
      /\ \A p \in 1 .. n : Len(lists[p]) = 1 /\ lists[p][1] = e[p]
  BY DEF Singles
<1>3. \A j \in 1 .. n : At(j) \in 1 .. n
  OBVIOUS
<1>4. max = 1
  <2>1. {Len(lists[p]) : p \in DOMAIN lists} = {1}
    <3>1. 1 \in DOMAIN lists /\ \A p \in DOMAIN lists : Len(lists[p]) = 1
      BY <1>2
    <3> QED BY ONLY <3>1
  <2>2. Max({0} \cup {1}) = 1
    BY DEF Max
  <2> QED BY <2>1, <2>2
<1>5. \A p \in 1 .. n : Turn(p, 1) = <<EntryOf(rows[p], e[p])>>
  <2>1. ~Ended(lists, 1 - 1)
    <3>1. ~Ended(lists, 0)
      BY <1>2, NeverEnded
    <3> QED BY <3>1
  <2> QED BY <1>2, <2>1 DEF EntryOf
<1> HIDE DEF Turn, max
<1>6. Round(1) = all
  <2> DEFINE seqs == [j \in DOMAIN rows |-> Turn(At(j), 1)]
             E(j) == EntryOf(rows[At(j)], e[At(j)])
             T == {E(j) : j \in 1 .. n}
  <2>1. \A j \in 1 .. n : Turn(At(j), 1) = <<E(j)>> /\ E(j) \in T
    BY <1>3, <1>5
  <2> HIDE DEF E, At
  <2>2. [j \in 1 .. n |-> E(j)] \in [1 .. n -> T]
    BY <2>1
  <2> DEFINE g == [j \in 1 .. n |-> E(j)]
  <2>3. seqs = [j \in 1 .. n |-> <<g[j]>>]
    BY <2>1
  <2> HIDE DEF g, seqs, T
  <2>4. FlattenSeq(seqs) = g
    BY <2>2, <2>3, FlattenSingles DEF g
  <2> QED BY <2>4 DEF seqs, g, E
<1> HIDE DEF Round
<1>7. FlattenSeq([i \in 1 .. max |-> Round(i)]) = Round(1)
  <2> DEFINE seqs == [i \in 1 .. max |-> Round(i)]
             T == Range(all)
  <2>1. all \in Seq(T)
    <3>1. \A j \in 1 .. n : all[j] \in Range(all)
      BY DEF Range
    <3> HIDE DEF At
    <3> QED BY <3>1
  <2> HIDE DEF T, all
  <2>2. seqs \in Seq(Seq(T)) /\ Len(seqs) = 1 /\ seqs[1] = Round(1) /\ Len(seqs) # 0
    BY <1>4, <1>6, <2>1
  <2> HIDE DEF seqs
  <2>3. \E h : Chained(h, seqs, T) /\ FlattenSeq(seqs) = h[Len(seqs)]
    BY ONLY <2>2, FlattenRun, Zenon
  <2> QED BY <2>2, <2>3 DEF Chained, seqs
<1>8. all = Turns(rows, e, start, n)
  BY DEF Turns
<1> QED BY <1>1, <1>6, <1>7, <1>8
-----------------------------------------------------------------------------
(* The servers of an upload of no more chunks than there are nodes.        *)

\* The remainder of a number less than twice the divisor.
LEMMA ModOnce ==
    ASSUME NEW n \in Nat \ {0}, NEW x \in 0 .. 2 * n - 1
    PROVE  x % n = IF x < n THEN x ELSE x - n
<1>1. CASE x < n
  BY <1>1
<1>2. CASE x >= n
  <2> DEFINE y == x - n
  <2>1. y \in 0 .. n - 1 /\ x = y + n
    BY <1>2
  <2> QED BY <2>1, <1>2
<1> QED BY <1>1, <1>2

\* How many of them come before the home node, and the j-th of them by number.
Wrapped(c, f) == IF Home[f] + Chunks[c] > N THEN Home[f] + Chunks[c] - N ELSE 0
Nth(c, f, j) == IF j <= Wrapped(c, f) THEN j - 1 ELSE Home[f] + j - Wrapped(c, f) - 1

Few(c, f) == Home[f] \in Node /\ N \in Nat /\ Chunks[c] \in 1 .. N

\* The server of a chunk comes after the home node, or is counted from the first node on.
LEMMA ServerIs ==
    ASSUME NEW c, NEW f, Few(c, f), NEW q \in 0 .. Chunks[c] - 1
    PROVE  Server(f, q) = IF Home[f] + q < N THEN Home[f] + q ELSE Home[f] + q - N
<1> DEFINE h == Home[f]
           C == Chunks[c]
           x == h + q
<1>1. h \in 0 .. N - 1 /\ N \in Nat \ {0} /\ C \in 1 .. N /\ q \in 0 .. C - 1
  BY DEF Few, Node
<1>2. Server(f, q) = x % N
  BY DEF Server
<1> HIDE DEF h, C
<1>3. x \in 0 .. 2 * N - 1
  BY <1>1
<1> HIDE DEF x
<1>4. x % N = IF x < N THEN x ELSE x - N
  BY ONLY <1>1, <1>3, ModOnce
<1>5. Server(f, q) = IF x < N THEN x ELSE x - N
  BY <1>2, <1>4
<1>6. x = Home[f] + q
  BY DEF x, h
<1>7. Home[f] \in Int /\ q \in Int /\ N \in Int
  BY <1>1 DEF h
<1> QED BY <1>5, <1>6, <1>7

\* So the servers are those below Wrapped and those from the home node on.
LEMMA NthIs ==
    ASSUME NEW c, NEW f, Few(c, f)
    PROVE  /\ Wrapped(c, f) \in 0 .. Chunks[c] - 1 /\ Wrapped(c, f) <= Home[f]
           /\ \A s : s \in Used(c, f) <=>
                 s \in Node /\ (s < Wrapped(c, f) \/ (Home[f] <= s /\ s < Home[f] + Chunks[c]))
           /\ Home[f] + Chunks[c] - Wrapped(c, f) <= N
           /\ Wrapped(c, f) > 0 => Home[f] + Chunks[c] - Wrapped(c, f) = N
<1> DEFINE h == Home[f]
           C == Chunks[c]
           w == Wrapped(c, f)
<1>1. h \in 0 .. N - 1 /\ N \in Nat \ {0} /\ C \in 1 .. N
  BY DEF Few, Node
<1>2. w = IF h + C > N THEN h + C - N ELSE 0
  BY DEF Wrapped
<1>3. \A q \in 0 .. C - 1 : Server(f, q) = IF h + q < N THEN h + q ELSE h + q - N
  BY ServerIs
<1>4. \A s : s \in Used(c, f) <=> \E q \in 0 .. C - 1 : s = Server(f, q)
  BY DEF Used
<1> HIDE DEF h, C, w
<1>5. w \in 0 .. C - 1 /\ w <= h /\ h + C - w <= N /\ (w > 0 => h + C - w = N)
  BY <1>1, <1>2
<1>6. ASSUME NEW s
      PROVE  s \in Used(c, f) <=> s \in 0 .. N - 1 /\ (s < w \/ (h <= s /\ s < h + C))
  <2>1. ASSUME s \in Used(c, f) PROVE s \in 0 .. N - 1 /\ (s < w \/ (h <= s /\ s < h + C))
    <3>1. PICK q \in 0 .. C - 1 : s = IF h + q < N THEN h + q ELSE h + q - N
      BY <1>3, <1>4, <2>1
    <3> QED BY <1>1, <1>2, <3>1
  <2>2. ASSUME s \in 0 .. N - 1, s < w PROVE s \in Used(c, f)
    <3> DEFINE q == s + N - h
    <3>1. q \in 0 .. C - 1 /\ ~(h + q < N) /\ h + q - N = s
      BY <1>1, <1>2, <2>2
    <3> HIDE DEF q
    <3> QED BY <1>3, <1>4, <3>1
  <2>3. ASSUME s \in 0 .. N - 1, h <= s, s < h + C PROVE s \in Used(c, f)
    <3> DEFINE q == s - h
    <3>1. q \in 0 .. C - 1 /\ h + q < N /\ h + q = s
      BY <1>1, <1>2, <2>3
    <3> HIDE DEF q
    <3> QED BY <1>3, <1>4, <3>1
  <2> QED BY <2>1, <2>2, <2>3
<1> QED BY <1>5, <1>6 DEF h, C, w, Node

\* used_servers in the order of a map.
LEMMA UsedOrder ==
    ASSUME NEW c, NEW f, Few(c, f)
    PROVE  UsedInOrder(c, f) = [j \in 1 .. Chunks[c] |-> Nth(c, f, j)]
<1> DEFINE h == Home[f]
           C == Chunks[c]
           w == Wrapped(c, f)
           all == [x \in 1 .. N |-> x - 1]
           S == Used(c, f)
           Count(i) == IF i <= w THEN i ELSE IF i <= h THEN w
                       ELSE IF i <= h + C - w THEN w + i - h ELSE C
           Nths(i) == [j \in 1 .. Count(i) |-> Nth(c, f, j)]
<1>1. h \in 0 .. N - 1 /\ N \in Nat \ {0} /\ C \in 1 .. N
      /\ w \in 0 .. C - 1 /\ w <= h /\ h + C - w <= N /\ (w > 0 => h + C - w = N)
  BY NthIs DEF Few, Node
<1>2. \A s \in 0 .. N - 1 : s \in S <=> s < w \/ (h <= s /\ s < h + C)
  BY NthIs DEF Node
<1>3. \A j : Nth(c, f, j) = IF j <= w THEN j - 1 ELSE h + j - w - 1
  BY DEF Nth
<1>4. all \in Seq(Nat) /\ Len(all) = N /\ \A i \in 1 .. N : all[i] = i - 1
  BY <1>1
<1>5. UsedInOrder(c, f) = Only(all, S)
  BY DEF UsedInOrder
<1> HIDE DEF all, S, h, C, w
<1>6. PICK g : Looked(g, all, S, Nat) /\ Only(all, S) = g[Len(all)]
  BY <1>4, OnlyLoop
<1> DEFINE Is(s, i) == Len(s) = Count(i) /\ \A j \in 1 .. Count(i) : s[j] = Nth(c, f, j)
           U == {i \in 0 .. N : Is(g[i], i)}
<1>7. 0 \in U
  <2>1. g[0] = <<>>
    BY <1>6 DEF Looked
  <2>2. Count(0) = 0 /\ 0 \in 0 .. N
    BY <1>1
  <2> HIDE DEF Count
  <2> QED BY <2>1, <2>2
<1>8. ASSUME NEW i \in 1 .. N, i - 1 \in U PROVE i \in U
  <2>1. g[i] = IF all[i] \in S THEN Append(g[i - 1], all[i]) ELSE g[i - 1]
    BY <1>4, <1>6 DEF Looked
  <2>2. all[i] = i - 1 /\ i - 1 \in 0 .. N - 1 /\ i \in 0 .. N /\ i - 1 \in Nat
    BY <1>1, <1>4
  <2>3. Is(g[i - 1], i - 1) /\ g[i - 1] \in Seq(Nat)
    <3>1. i - 1 \in 0 .. Len(all)
      BY <1>1, <1>4
    <3> QED BY <1>6, <1>8, <3>1 DEF Looked
  <2>4. Count(i - 1) \in Nat
    BY <1>1
  <2>5. CASE all[i] \notin S
    <3>1. Count(i) = Count(i - 1)
      BY <1>1, <1>2, <2>2, <2>5
    <3> HIDE DEF Count
    <3> QED BY <2>1, <2>2, <2>3, <2>5, <3>1
  <2>6. CASE all[i] \in S
    <3>1. Count(i) = Count(i - 1) + 1 /\ Nth(c, f, Count(i)) = i - 1
      BY <1>1, <1>2, <1>3, <2>2, <2>6
    <3> HIDE DEF Count
    <3> DEFINE s == g[i - 1]
               k == Count(i - 1)
    <3>2. s \in Seq(Nat) /\ Len(s) = k /\ k \in Nat /\ \A j \in 1 .. k : s[j] = Nth(c, f, j)
      BY <2>3, <2>4
    <3>3. g[i] = Append(s, i - 1) /\ Count(i) = k + 1 /\ Nth(c, f, k + 1) = i - 1
      BY <2>1, <2>2, <2>6, <3>1
    <3> HIDE DEF s, k
    <3>4. Len(Append(s, i - 1)) = k + 1
          /\ \A j \in 1 .. k + 1 : Append(s, i - 1)[j] = IF j = k + 1 THEN i - 1 ELSE s[j]
      BY <2>2, <3>2
    <3>5. \A j \in 1 .. k + 1 : j = k + 1 \/ j \in 1 .. k
      BY <3>2
    <3> QED BY <2>2, <3>2, <3>3, <3>4, <3>5
  <2> QED BY <2>5, <2>6
<1> HIDE DEF U
<1>9. N \in Nat
  BY <1>1
<1>10. 0 .. N \subseteq U
  BY ONLY <1>7, <1>8, <1>9, UpTo
<1>11. Is(g[N], N) /\ g[N] \in Seq(Nat)
  <2>1. N \in 0 .. N
    BY <1>1
  <2> QED BY <1>4, <1>6, <1>10, <2>1 DEF U, Looked
<1>12. Count(N) = C
  BY <1>1
<1> HIDE DEF Count
<1> DEFINE s == g[N]
<1>13. s \in Seq(Nat) /\ Len(s) = C /\ \A j \in 1 .. C : s[j] = Nth(c, f, j)
  BY <1>11, <1>12
<1> HIDE DEF s
<1>14. s = [j \in 1 .. C |-> Nth(c, f, j)]
  BY <1>13
<1> QED BY <1>4, <1>5, <1>6, <1>14 DEF s, C

\* When Nth goes through the servers, Order says in which chunk each has.
LEMMA OrderIs ==
    ASSUME NEW c, NEW f, Few(c, f), NEW j \in 1 .. Chunks[c]
    PROVE  /\ Nth(c, f, j) \in Node /\ Nth(c, f, j) \in Used(c, f)
           /\ Order(Nth(c, f, j), f) = IF j <= Wrapped(c, f) THEN Chunks[c] - Wrapped(c, f) + j - 1
                                       ELSE j - Wrapped(c, f) - 1
           /\ \A q \in 0 .. Chunks[c] - 1 : Server(f, q) = Nth(c, f, j) <=> q = Order(Nth(c, f, j), f)
           /\ \A k \in 1 .. Chunks[c] : Nth(c, f, k) = Nth(c, f, j) => k = j
<1> DEFINE h == Home[f]
           C == Chunks[c]
           w == Wrapped(c, f)
           s == Nth(c, f, j)
<1>1. h \in 0 .. N - 1 /\ N \in Nat \ {0} /\ C \in 1 .. N /\ j \in 1 .. C
      /\ w \in 0 .. C - 1 /\ w <= h /\ h + C - w <= N /\ (w > 0 => h + C - w = N)
  BY NthIs DEF Few, Node
<1>2. \A k \in 1 .. C : Nth(c, f, k) = IF k <= w THEN k - 1 ELSE h + k - w - 1
  BY DEF Nth
<1>3. \A q \in 0 .. C - 1 : Server(f, q) = IF h + q < N THEN h + q ELSE h + q - N
  BY ServerIs
<1>4. \A x \in 0 .. N - 1 : x \in Used(c, f) <=> x < w \/ (h <= x /\ x < h + C)
  BY NthIs DEF Node
<1> DEFINE y == s - h + N
<1>5. Order(s, f) = y % N
  BY DEF Order
<1> HIDE DEF h, C, w, s
<1>6. s = IF j <= w THEN j - 1 ELSE h + j - w - 1
  BY <1>1, <1>2 DEF s
<1>7. y \in 0 .. 2 * N - 1 /\ s \in 0 .. N - 1
  BY <1>1, <1>6
<1>8. y = s - h + N
  OBVIOUS
<1> HIDE DEF y
<1>9. y % N = IF y < N THEN y ELSE y - N
  BY ONLY <1>1, <1>7, ModOnce
<1>10. Order(s, f) = IF j <= w THEN C - w + j - 1 ELSE j - w - 1
  BY <1>1, <1>5, <1>6, <1>7, <1>8, <1>9
<1>11. s \in Used(c, f)
  BY <1>1, <1>4, <1>6, <1>7
<1>12. ASSUME NEW q \in 0 .. C - 1 PROVE Server(f, q) = s <=> q = Order(s, f)
  BY <1>1, <1>3, <1>6, <1>10
<1>13. ASSUME NEW k \in 1 .. C, Nth(c, f, k) = s PROVE k = j
  BY <1>1, <1>2, <1>6, <1>13
<1> QED BY <1>7, <1>10, <1>11, <1>12, <1>13 DEF h, C, w, s, Node

\* Such an upload puts one chunk on each server,
LEMMA ChunkIsOne ==
    ASSUME NEW c \in Client, NEW f, Few(c, f), NEW j \in 1 .. Chunks[c]
    PROVE  ChunksOn(c, f, Nth(c, f, j)) = <<Order(Nth(c, f, j), f)>>
<1> DEFINE s == Nth(c, f, j)
           C == Chunks[c]
           all == [x \in 1 .. C |-> x - 1]
           S == {q \in 0 .. C - 1 : Server(f, q) = s}
           o == Order(s, f)
<1>1. C \in Nat /\ o \in 0 .. C - 1
  <2>1. Wrapped(c, f) \in 0 .. C - 1 /\ C \in Nat
    BY NthIs DEF Few
  <2>2. o = IF j <= Wrapped(c, f) THEN C - Wrapped(c, f) + j - 1 ELSE j - Wrapped(c, f) - 1
    BY OrderIs
  <2> HIDE DEF o, C
  <2>3. j \in 1 .. C
    BY DEF C
  <2> QED BY <2>1, <2>2, <2>3
<1>2. \A q \in 0 .. C - 1 : Server(f, q) = s <=> q = o
  BY OrderIs
<1> HIDE DEF s, C, o
<1>3. all \in Seq(Nat) /\ Len(all) = C /\ o + 1 \in 1 .. C /\ all[o + 1] = o
      /\ \A x \in 1 .. C : all[x] = x - 1 /\ x - 1 \in 0 .. C - 1
  BY <1>1
<1> HIDE DEF all
<1>4. \A x \in 1 .. C : all[x] \in S <=> x = o + 1
  BY <1>1, <1>2, <1>3
<1> HIDE DEF S
<1> DEFINE k == o + 1
<1>5. k \in 1 .. Len(all) /\ \A x \in 1 .. Len(all) : all[x] \in S <=> x = k
  BY <1>3, <1>4
<1> HIDE DEF k
<1>6. Only(all, S) = <<all[k]>>
  BY ONLY <1>3, <1>5, OnlyOne
<1> QED BY <1>3, <1>6 DEF ChunksOn, all, S, C, s, o, k

\* whose row and its primary file's are these.
BRowOn(s, f) == BlockRow(PrimaryName(s, f), f, Order(s, f), s, s)
CRowOn(s, f) ==
    ChunkRow(ChunkName(f, Order(s, f)), f, PrimaryName(s, f), Order(s, f), 0, Order(s, f), 1)

\* Keys are drawn that their servers serve.
KeysOwn(c, f) == \A s \in Used(c, f) : loc[c].key[s] = s

\* An upload's rows of primary files,
LEMMA BlockRowsAre ==
    ASSUME NEW c \in Client, NEW f, Few(c, f), KeysOwn(c, f)
    PROVE  UploadBlockRows(c, f) = [j \in 1 .. Chunks[c] |-> BRowOn(Nth(c, f, j), f)]
<1> DEFINE used == UsedInOrder(c, f)
<1>1. DOMAIN used = 1 .. Chunks[c] /\ \A j \in 1 .. Chunks[c] : used[j] = Nth(c, f, j)
  BY UsedOrder
<1>2. \A j \in 1 .. Chunks[c] : loc[c].key[Nth(c, f, j)] = Nth(c, f, j)
  BY OrderIs DEF KeysOwn
<1> HIDE DEF used
<1> QED BY <1>1, <1>2 DEF UploadBlockRows, used, BRowOn

\* and its rows of chunks.
LEMMA ChunkRowsAre ==
    ASSUME NEW c \in Client, NEW f, Few(c, f)
    PROVE  UploadChunkRows(c, f) = [j \in 1 .. Chunks[c] |-> CRowOn(Nth(c, f, j), f)]
<1> DEFINE used == UsedInOrder(c, f)
           n == Chunks[c]
           RowsAt(j) == LET seqs == ChunksOn(c, f, used[j])
                        IN  [x \in DOMAIN seqs |->
                    ChunkRow(ChunkName(f, seqs[x]), f, PrimaryName(used[j], f),
                             seqs[x], x - 1, Order(used[j], f), 1)]
           lists == [j \in DOMAIN used |-> RowsAt(j)]
           E(j) == CRowOn(Nth(c, f, j), f)
           g == [j \in 1 .. n |-> E(j)]
           T == {E(j) : j \in 1 .. n}
<1>1. DOMAIN used = 1 .. n /\ \A j \in 1 .. n : used[j] = Nth(c, f, j)
  BY UsedOrder
<1>2. n \in Nat \ {0}
  BY DEF Few
<1>3. UploadChunkRows(c, f) = FlattenSeq(lists)
  BY DEF UploadChunkRows
<1> HIDE DEF used, n
<1>4. ASSUME NEW j \in 1 .. n PROVE RowsAt(j) = <<E(j)>>
  <2> DEFINE seqs == ChunksOn(c, f, used[j])
             o == Order(Nth(c, f, j), f)
             Row(q, x) == ChunkRow(ChunkName(f, q), f, PrimaryName(used[j], f), q, x - 1,
                                   Order(used[j], f), 1)
  <2>1. seqs = <<o>>
    BY <1>1, ChunkIsOne DEF n
  <2>2. Row(o, 1) = E(j)
    BY <1>1 DEF CRowOn
  <2>3. RowsAt(j) = [x \in DOMAIN seqs |-> Row(seqs[x], x)]
    OBVIOUS
  <2> HIDE DEF seqs, o, Row, E, RowsAt
  <2>4. DOMAIN seqs = {1} /\ seqs[1] = o
    BY <2>1
  <2>5. RowsAt(j) = [x \in {1} |-> E(j)]
    BY <2>2, <2>3, <2>4
  <2>6. 1 .. 1 = {1}
    OBVIOUS
  <2>7. \A e : [x \in {1} |-> e] = <<e>>
    BY <2>6
  <2> QED BY <2>5, <2>7
<1> HIDE DEF RowsAt, E
<1>5. g \in [1 .. n -> T]
  OBVIOUS
<1>6. lists = [j \in 1 .. n |-> <<g[j]>>]
  BY <1>1, <1>4
<1> HIDE DEF lists, g, T
<1>7. FlattenSeq(lists) = g
  BY ONLY <1>2, <1>5, <1>6, FlattenSingles
<1> QED BY <1>3, <1>7 DEF g, E, n

\* The round-robin begins at the home node and takes the servers as the upload did.
LEMMA TurnIs ==
    ASSUME NEW c, NEW f, Few(c, f), NEW j \in 1 .. Chunks[c]
    PROVE  LET p == ((Wrapped(c, f) + 1 + j - 2) % Chunks[c]) + 1
           IN  p \in 1 .. Chunks[c] /\ Nth(c, f, p) = Server(f, j - 1)
<1> DEFINE h == Home[f]
           C == Chunks[c]
           w == Wrapped(c, f)
           x == w + 1 + j - 2
           p == (x % C) + 1
<1>1. h \in 0 .. N - 1 /\ N \in Nat \ {0} /\ C \in 1 .. N /\ j \in 1 .. C /\ C \in Nat \ {0}
      /\ w \in 0 .. C - 1 /\ w <= h /\ h + C - w <= N /\ (w > 0 => h + C - w = N)
  BY NthIs DEF Few, Node
<1>2. \A k \in 1 .. C : Nth(c, f, k) = IF k <= w THEN k - 1 ELSE h + k - w - 1
  BY DEF Nth
<1>3. \A q \in 0 .. C - 1 : Server(f, q) = IF h + q < N THEN h + q ELSE h + q - N
  BY ServerIs
<1> HIDE DEF h, C, w
<1>4. x \in 0 .. 2 * C - 1 /\ x = w + j - 1
  BY <1>1
<1>5. p = (x % C) + 1
  OBVIOUS
<1> HIDE DEF x, p
<1>6. x % C = IF x < C THEN x ELSE x - C
  BY ONLY <1>1, <1>4, ModOnce
<1>7. p = IF w + j - 1 < C THEN w + j ELSE w + j - C
  BY <1>1, <1>4, <1>5, <1>6
<1>8. p \in 1 .. C
  BY <1>1, <1>7
<1>9. j - 1 \in 0 .. C - 1
  BY <1>1
<1>10. Nth(c, f, p) = IF p <= w THEN p - 1 ELSE h + p - w - 1
  BY <1>2, <1>8
<1>11. Server(f, j - 1) = IF h + (j - 1) < N THEN h + (j - 1) ELSE h + (j - 1) - N
  BY <1>3, <1>9
<1>12. Nth(c, f, p) = Server(f, j - 1)
  BY <1>1, <1>7, <1>10, <1>11
<1> QED BY <1>8, <1>12 DEF p, x, w, C

\* A row's fields.
LEMMA RowFields ==
    ASSUME NEW s, NEW f
    PROVE  /\ BRowOn(s, f).name = PrimaryName(s, f) /\ BRowOn(s, f).key = s
           /\ CRowOn(s, f).name = ChunkName(f, Order(s, f)) /\ CRowOn(s, f).offset = 0
           /\ CRowOn(s, f).size = 1 /\ CRowOn(s, f).seq = Order(s, f)
           /\ CRowOn(s, f).primary = PrimaryName(s, f)
BY DEF BRowOn, CRowOn, BlockRow, ChunkRow

\* What is described of an upload that is confirmed: its chunks in their order.
BlockOn(s, f) == EntryOf(BRowOn(s, f), CRowOn(s, f))

SentRows(c, f) == [j \in 1 .. Chunks[c] |-> BRowOn(Nth(c, f, j), f)]
InPlace(chunks, c, f) == \A j \in 1 .. Chunks[c] :
    ChunksOf(chunks, PrimaryName(Nth(c, f, j), f)) = <<CRowOn(Nth(c, f, j), f)>>
InOrder(c, f) == [j \in 1 .. Chunks[c] |-> BlockOn(Server(f, j - 1), f)]

\* From these rows an arrangement takes the chunks in the order they were sent in.
LEMMA UploadedBlocks ==
    ASSUME NEW c \in Client, NEW f \in File, Few(c, f),
           NEW rows, rows = SentRows(c, f), NEW chunks, InPlace(chunks, c, f)
    PROVE  Blocks(rows, chunks) = InOrder(c, f)
<1> DEFINE n == Chunks[c]
           w == Wrapped(c, f)
           e == [p \in 1 .. n |-> CRowOn(Nth(c, f, p), f)]
           lists == ListsOf(chunks, rows)
           start == w + 1
<1>1. n \in Nat \ {0} /\ w \in 0 .. n - 1
  BY NthIs DEF Few
<1>2. DOMAIN rows = 1 .. n /\ Len(rows) = n /\ \A p \in 1 .. n : rows[p] = BRowOn(Nth(c, f, p), f)
  BY <1>1 DEF SentRows
<1>3. lists = Singles(e, n)
  BY <1>2, RowFields DEF ListsOf, Singles, InPlace
<1>4. \A p \in 1 .. n : e[p] = CRowOn(Nth(c, f, p), f)
  OBVIOUS
<1>5. StartIndex(rows, lists) = start
  <2> DEFINE first == {p \in DOMAIN rows : lists[p] # <<>> /\ lists[p][1].seq = 0}
  <2>1. \A p \in 1 .. n : lists[p] # <<>> /\ lists[p][1].seq = Order(Nth(c, f, p), f)
    <3>1. \A x : <<x>> # <<>> /\ <<x>>[1] = x
      OBVIOUS
    <3>2. \A p \in 1 .. n : lists[p] = <<e[p]>>
      BY <1>3 DEF Singles
    <3> HIDE DEF lists, e
    <3>3. \A p \in 1 .. n : e[p].seq = Order(Nth(c, f, p), f)
      BY <1>4, RowFields
    <3> QED BY <3>1, <3>2, <3>3
  <2>2. \A p \in 1 .. n : Order(Nth(c, f, p), f) = IF p <= w THEN n - w + p - 1 ELSE p - w - 1
    BY OrderIs
  <2>3. start \in 1 .. n
    BY <1>1
  <2>4. \A p \in 1 .. n : (IF p <= w THEN n - w + p - 1 ELSE p - w - 1) = 0 <=> p = start
    <3> HIDE DEF n, w
    <3> QED BY <1>1
  <2> HIDE DEF n, w, lists, start
  <2>5. first = {start}
    BY <1>2, <2>1, <2>2, <2>3, <2>4
  <2> DEFINE same == {p \in DOMAIN rows : rows[p].key = rows[Max(first)].key}
  <2>6. Max(first) = start
    BY <2>5, <2>3 DEF Max
  <2>7. same = {start}
    <3>1. \A p \in 1 .. n : rows[p].key = Nth(c, f, p)
      BY <1>2, RowFields
    <3>2. \A p \in 1 .. n : Nth(c, f, p) = Nth(c, f, start) => p = start
      BY <2>3, OrderIs DEF n
    <3> HIDE DEF first
    <3> QED BY <1>2, <2>3, <2>6, <3>1, <3>2
  <2>8. Min({start}) = start
    BY <2>3 DEF Min
  <2>9. first # {}
    BY <2>5
  <2>10. StartIndex(rows, lists) = IF first = {} THEN 1 ELSE Min(same)
    BY DEF StartIndex
  <2> HIDE DEF first, same
  <2> QED BY <2>7, <2>8, <2>9, <2>10
<1>6. start \in Nat \ {0}
  BY <1>1
<1>7. Blocks(rows, chunks) = Arranged(rows, lists, start)
  <2>1. ArrangedFrom(rows, lists) = Arranged(rows, lists, StartIndex(rows, lists))
    BY DEF ArrangedFrom, With
  <2> QED BY <1>5, <2>1, BlocksAre
<1> HIDE DEF lists, e, start, n, w
<1>8. Arranged(rows, lists, start) = Turns(rows, e, start, n)
  BY ONLY <1>1, <1>2, <1>3, <1>6, ArrangedSingles
<1>9. ASSUME NEW j \in 1 .. n
      PROVE  EntryOf(rows[((start + j - 2) % n) + 1], e[((start + j - 2) % n) + 1])
                 = BlockOn(Server(f, j - 1), f)
  <2> DEFINE p == ((start + j - 2) % n) + 1
  <2>1. p \in 1 .. n /\ Nth(c, f, p) = Server(f, j - 1)
    BY TurnIs DEF start, w, n
  <2> HIDE DEF p
  <2>2. rows[p] = BRowOn(Server(f, j - 1), f) /\ e[p] = CRowOn(Server(f, j - 1), f)
    BY <1>2, <1>4, <2>1
  <2> QED BY <2>2 DEF p, BlockOn
<1>10. Arranged(rows, lists, start) = [j \in 1 .. n |-> BlockOn(Server(f, j - 1), f)]
  BY <1>8, <1>9 DEF Turns
<1> QED BY <1>7, <1>10 DEF n, InOrder

\* So of one empty block, as touch leaves it.
LEMMA TouchedBlocks ==
    ASSUME NEW b, NEW r, r.seq = 0, NEW chunks, ChunksOf(chunks, b.name) = <<r>>
    PROVE  Blocks(<<b>>, chunks) = <<EntryOf(b, r)>>
<1> DEFINE rows == <<b>>
           lists == ListsOf(chunks, rows)
           e == [p \in 1 .. 1 |-> r]
<1>1. DOMAIN rows = 1 .. 1 /\ Len(rows) = 1 /\ rows[1] = b /\ 1 \in 1 .. 1 /\ e[1] = r
      /\ \A p \in 1 .. 1 : p = 1
  OBVIOUS
<1>2. lists = Singles(e, 1) /\ lists[1] = <<r>> /\ DOMAIN lists = 1 .. 1
  BY <1>1 DEF ListsOf, Singles
<1> HIDE DEF rows, lists, e
<1>3. StartIndex(rows, lists) = 1
  <2> DEFINE first == {p \in DOMAIN rows : lists[p] # <<>> /\ lists[p][1].seq = 0}
             same == {p \in DOMAIN rows : rows[p].key = rows[Max(first)].key}
  <2>1. first = {1}
    BY <1>1, <1>2
  <2>2. Max({1}) = 1 /\ Min({1}) = 1
    BY DEF Max, Min
  <2>3. StartIndex(rows, lists) = IF first = {} THEN 1 ELSE Min(same)
    BY DEF StartIndex
  <2>4. Max(first) = 1
    BY <2>1, <2>2
  <2> HIDE DEF first
  <2>5. same = {1}
    BY <1>1, <2>4
  <2> HIDE DEF same
  <2> QED BY <2>1, <2>2, <2>3, <2>5
<1>4. Blocks(rows, chunks) = Arranged(rows, lists, 1)
  <2>1. ArrangedFrom(rows, lists) = Arranged(rows, lists, StartIndex(rows, lists))
    BY DEF ArrangedFrom, With
  <2> QED BY <1>3, <2>1, BlocksAre DEF lists
<1>5. Arranged(rows, lists, 1) = Turns(rows, e, 1, 1)
  <2> DEFINE n == 1
             start == 1
  <2>1. /\ n \in Nat \ {0} /\ start \in Nat \ {0}
        /\ DOMAIN rows = 1 .. n /\ Len(rows) = n /\ lists = Singles(e, n)
    BY <1>1, <1>2
  <2> HIDE DEF n, start
  <2>2. Arranged(rows, lists, start) = Turns(rows, e, start, n)
    BY ONLY <2>1, ArrangedSingles
  <2> QED BY <2>2 DEF n, start
<1>6. ((1 + 1 - 2) % 1) + 1 = 1
  OBVIOUS
<1>7. Turns(rows, e, 1, 1) = [j \in 1 .. 1 |-> EntryOf(b, r)]
  BY <1>1, <1>6 DEF Turns
<1>8. \A x : [j \in 1 .. 1 |-> x] = <<x>>
  OBVIOUS
<1> QED BY <1>4, <1>5, <1>7, <1>8 DEF rows
-----------------------------------------------------------------------------
(* What is inserted.                                                       *)

\* Where no row is in Q, those in Q are the inserted ones, if these have
\* different names.
LEMMA InsertAllOwn ==
    ASSUME NEW T, NEW rows \in Seq(T), NEW new \in Seq(T), NEW Q, Only(rows, Q) = <<>>,
           \A j \in 1 .. Len(new) : new[j] \in Q,
           \A j, k \in 1 .. Len(new) : new[j].name = new[k].name => j = k
    PROVE  /\ InsertAll(rows, new) \in Seq(T)
           /\ Only(InsertAll(rows, new), Q) = new
<1> DEFINE n == Len(new)
           P == Seq(T)
<1>1. ASSUME NEW t \in P, NEW j \in 1 .. n
      PROVE  Replace(t, new[j]) = Append(NotNamed(t, new[j].name), new[j]) /\ new[j] \in T
             /\ NotNamed(t, new[j].name) = Only(t, NamedOtherwise(T, new[j].name))
             /\ NotNamed(t, new[j].name) \in Seq(T)
  BY <1>1, WhereNot, OnlyFacts DEF Replace
<1>2. \A t \in P : \A j \in 1 .. n : Replace(t, new[j]) \in P
  <2> SUFFICES ASSUME NEW t \in P, NEW j \in 1 .. n PROVE Replace(t, new[j]) \in P
    OBVIOUS
  <2> DEFINE u == NotNamed(t, new[j].name)
  <2>1. Replace(t, new[j]) = Append(u, new[j]) /\ new[j] \in T /\ u \in Seq(T)
    BY <1>1
  <2> HIDE DEF u
  <2> QED BY <2>1
<1>3. rows \in P /\ n \in Nat
  OBVIOUS
<1> HIDE DEF P
<1>4. PICK g : Inserting(g, rows, new, P) /\ InsertAll(rows, new) = g[n]
  BY ONLY <1>2, <1>3, new \in Seq(T), InsertAllRun DEF n
<1> DEFINE First(s, i) == /\ s \in Seq(T) /\ Len(s) = i
                          /\ \A x \in 1 .. i : s[x] = new[x]
           U == {i \in 0 .. n : First(Only(g[i], Q), i)}
<1>5. 0 \in U
  <2>1. Only(g[0], Q) = <<>>
    BY <1>4 DEF Inserting
  <2>2. First(<<>>, 0) /\ 0 \in 0 .. n
    BY <1>3
  <2> HIDE DEF First
  <2> QED BY <2>1, <2>2
<1>6. ASSUME NEW i \in 1 .. n, i - 1 \in U PROVE i \in U
  <2> DEFINE r == new[i]
             t == g[i - 1]
             S == NamedOtherwise(T, r.name)
             u == Only(t, S)
             s == Only(t, Q)
  <2>1. /\ t \in Seq(T) /\ r \in T /\ r \in Q /\ First(s, i - 1) /\ i - 1 \in 0 .. n
        /\ g[i] = Replace(t, r)
    <3>1. i - 1 \in 0 .. n /\ First(s, i - 1)
      BY <1>6
    <3>2. t \in Seq(T) /\ g[i] = Replace(t, r)
      BY <1>4, <3>1 DEF Inserting, P
    <3>3. r \in T /\ r \in Q
      BY <1>3
    <3> QED BY <3>1, <3>2, <3>3
  <2>2. g[i] = Append(u, r) /\ u \in Seq(T)
    BY <1>1, <2>1 DEF P
  <2>3. Only(u, Q) = Only(t, S \cap Q)
    BY <2>1, OnlyFacts
  <2>4. Only(t, S \cap Q) = s
    <3>1. ASSUME NEW x \in 1 .. Len(t), t[x] \in Q PROVE t[x] \in S
      <4>1. t[x] \in Range(s)
        <5>1. t[x] \in Range(t)
          BY <2>1 DEF Range
        <5> HIDE DEF t
        <5> QED BY <2>1, <3>1, <5>1, OnlyFacts
      <4>2. PICK y \in 1 .. i - 1 : t[x] = new[y]
        BY <2>1, <4>1 DEF Range
      <4>3. y \in 1 .. n /\ y # i
        BY <1>3
      <4> QED BY <2>1, <4>2, <4>3 DEF NamedOtherwise
    <3>2. \A x \in 1 .. Len(t) : t[x] \in S \cap Q <=> t[x] \in Q
      BY <3>1
    <3> HIDE DEF S, t
    <3> QED BY <2>1, <3>2, OnlySame
  <2>5. Only(g[i], Q) = Append(s, r)
    <3> HIDE DEF u, r, s, t
    <3>1. u \in Seq(T) /\ r \in T /\ r \in Q
      BY <2>1, <2>2
    <3>2. Only(Append(u, r), Q) = Append(Only(u, Q), r)
      BY ONLY <3>1, OnlyAppend
    <3> QED BY ONLY <3>2, <2>2, <2>3, <2>4
  <2>6. First(Append(s, r), i)
    <3> HIDE DEF s
    <3> QED BY <2>1
  <2>7. First(Only(g[i], Q), i)
    <3> HIDE DEF First, s, r
    <3> QED BY <2>5, <2>6
  <2>8. i \in 0 .. n
    BY <1>3
  <2> QED BY <2>7, <2>8
<1> HIDE DEF U
<1>7. 0 .. n \subseteq U
  BY ONLY <1>3, <1>5, <1>6, UpTo
<1>8. First(Only(g[n], Q), n)
  BY <1>3, <1>7 DEF U
<1>9. g[n] \in Seq(T)
  BY <1>3, <1>4 DEF Inserting, P
<1> DEFINE s == Only(g[n], Q)
<1>10. s = new
  <2> HIDE DEF s
  <2> QED BY <1>8 DEF s
<1> QED BY <1>4, <1>9, <1>10
-----------------------------------------------------------------------------
(* What is described of a file after its upload.                           *)

NamesDiffer(rows) == \A j, k \in 1 .. Len(rows) : rows[j].name = rows[k].name => j = k

\* A file without rows.
NoRows(d, f) == OfFile(d.block, f) = <<>> /\ Only(d.chunk, OfFileIn(CRow, f)) = <<>>

\* The rows of a file that had none are those that are confirmed.
LEMMA ConfirmedOwn ==
    ASSUME NEW d, Tables(d), NEW f \in File, f \in DOMAIN d.file, NoRows(d, f), NEW num, num # 0,
           NEW blockRows \in Seq(BRowOf(f)), NEW chunkRows \in Seq(CRowOf(f)),
           NamesDiffer(blockRows), NamesDiffer(chunkRows),
           NEW e, e = Confirmed(d, f, num, blockRows, chunkRows)
    PROVE  /\ Description(e, f).blocks = Blocks(blockRows, e.chunk)
           /\ \A p \in NameOf(f) : ChunksOf(e.chunk, p) = Only(chunkRows, InPrimary(CRow, p))
<1>1. /\ e.block = InsertAll(d.block, blockRows) /\ e.chunk = InsertAll(d.chunk, chunkRows)
      /\ e.file = FileTableConfirm(d.file, f, num, Len(blockRows))
  BY DEF Confirmed
<1>2. Tables(e)
  BY ConfirmedSame
<1>3. blockRows \in Seq(BRow) /\ \A j \in 1 .. Len(blockRows) : blockRows[j] \in OfFileIn(BRow, f)
  BY DEF BRowOf, OfFileIn
<1>4. chunkRows \in Seq(CRow) /\ \A j \in 1 .. Len(chunkRows) : chunkRows[j] \in OfFileIn(CRow, f)
  BY DEF CRowOf, OfFileIn
<1>5. OfFile(e.block, f) = blockRows
  <2> DEFINE Q == OfFileIn(BRow, f)
  <2>1. d.block \in Seq(BRow) /\ Only(d.block, Q) = <<>>
    BY WhereFile DEF Tables, NoRows
  <2>2. OfFile(e.block, f) = Only(e.block, Q)
    BY <1>2, WhereFile DEF Tables
  <2>3. \A j \in 1 .. Len(blockRows) : blockRows[j] \in Q
    BY <1>3
  <2> HIDE DEF Q
  <2>4. \A j, k \in 1 .. Len(blockRows) : blockRows[j].name = blockRows[k].name => j = k
    BY DEF NamesDiffer
  <2>5. Only(InsertAll(d.block, blockRows), Q) = blockRows
    BY ONLY <1>3, <2>1, <2>3, <2>4, InsertAllOwn
  <2> QED BY <1>1, <2>2, <2>5
<1>6. Only(e.chunk, OfFileIn(CRow, f)) = chunkRows
  <2> DEFINE Q == OfFileIn(CRow, f)
  <2>1. d.chunk \in Seq(CRow) /\ Only(d.chunk, Q) = <<>>
    BY DEF Tables, NoRows
  <2>2. \A j \in 1 .. Len(chunkRows) : chunkRows[j] \in Q
    BY <1>4
  <2> HIDE DEF Q
  <2>3. \A j, k \in 1 .. Len(chunkRows) : chunkRows[j].name = chunkRows[k].name => j = k
    BY DEF NamesDiffer
  <2>4. Only(InsertAll(d.chunk, chunkRows), Q) = chunkRows
    BY ONLY <1>4, <2>1, <2>2, <2>3, InsertAllOwn
  <2> QED BY <1>1, <2>4 DEF Q
<1>7. ASSUME NEW p \in NameOf(f) PROVE ChunksOf(e.chunk, p) = Only(chunkRows, InPrimary(CRow, p))
  <2> DEFINE Q == OfFileIn(CRow, f)
             P == InPrimary(CRow, p)
  <2>1. Q \cap P = P
    BY <1>7, OneFileOfName DEF InPrimary, OfFileIn, CRow
  <2>2. ChunksOf(e.chunk, p) = Only(e.chunk, P) /\ e.chunk \in Seq(CRow)
    BY <1>2, WherePrimary DEF Tables
  <2> HIDE DEF P, Q
  <2>3. Only(Only(e.chunk, Q), P) = Only(e.chunk, Q \cap P)
    BY <2>2, OnlyFacts
  <2> QED BY <1>6, <2>1, <2>2, <2>3 DEF P, Q
<1>8. FileTableExists(e, f) /\ e.file[f].num_block = num
  BY <1>1 DEF FileTableExists, FileTableConfirm
<1>9. Description(e, f).blocks = Blocks(OfFile(e.block, f), e.chunk)
  BY <1>8, DescribedIs DEF Description
<1> QED BY <1>5, <1>7, <1>9

\* An upload of a chunk for each of some nodes, with keys of their own, is
\* described as it was sent.
LEMMA UploadDescribed ==
    ASSUME NEW c \in Client, NEW f \in File, Few(c, f), Chunks[c] # 1, KeysOwn(c, f),
           NEW d, Tables(d), f \in DOMAIN d.file, NoRows(d, f),
           NEW e, e = Confirmed(d, f, Chunks[c] - 1, UploadBlockRows(c, f), UploadChunkRows(c, f))
    PROVE  Description(e, f).blocks = InOrder(c, f)
<1> DEFINE n == Chunks[c]
           num == n - 1
           blockRows == UploadBlockRows(c, f)
           chunkRows == UploadChunkRows(c, f)
<1>1. n \in Nat /\ num # 0
  BY DEF Few
<1>2. blockRows = [j \in 1 .. n |-> BRowOn(Nth(c, f, j), f)]
  BY BlockRowsAre
<1>3. chunkRows = [j \in 1 .. n |-> CRowOn(Nth(c, f, j), f)]
  BY ChunkRowsAre
<1>4. blockRows \in Seq(BRowOf(f)) /\ chunkRows \in Seq(CRowOf(f))
  <2>1. \A j \in 1 .. n : Nth(c, f, j) \in Node /\ Order(Nth(c, f, j), f) \in Nat
    <3>1. Wrapped(c, f) \in 0 .. n - 1
      BY NthIs
    <3> QED BY <1>1, <3>1, OrderIs
  <2>2. ASSUME NEW j \in 1 .. n
        PROVE  BRowOn(Nth(c, f, j), f) \in BRowOf(f) /\ CRowOn(Nth(c, f, j), f) \in CRowOf(f)
    <3> DEFINE s == Nth(c, f, j)
               o == Order(s, f)
    <3>1. s \in Node /\ o \in Nat /\ o \in Int
      BY <2>1
    <3> HIDE DEF o, s
    <3>2. PrimaryName(s, f) \in NameOf(f) /\ ChunkName(f, o) \in ChunkNames(f)
      BY <3>1 DEF NameOf, ChunkNames
    <3>3. BRowOn(s, f) \in BRowOf(f) /\ CRowOn(s, f) \in CRowOf(f)
      BY <3>1, <3>2, BlockRowIs, ChunkRowIs DEF BRowOn, CRowOn, o
    <3> QED BY <3>3 DEF s
  <2> QED BY <1>1, <1>2, <1>3, <2>2
<1>5. NamesDiffer(blockRows) /\ NamesDiffer(chunkRows)
  <2>1. Len(blockRows) = n /\ Len(chunkRows) = n
    BY <1>1, <1>2, <1>3
  <2>2. ASSUME NEW j \in 1 .. n, NEW k \in 1 .. n
        PROVE  /\ blockRows[j].name = blockRows[k].name => j = k
               /\ chunkRows[j].name = chunkRows[k].name => j = k
    <3> DEFINE s == Nth(c, f, j)
               t == Nth(c, f, k)
    <3>1. blockRows[j] = BRowOn(s, f) /\ blockRows[k] = BRowOn(t, f)
      BY <1>2
    <3>2. chunkRows[j] = CRowOn(s, f) /\ chunkRows[k] = CRowOn(t, f)
      BY <1>3
    <3>3. s = t => j = k
      BY OrderIs
    <3>4. Order(s, f) = Order(t, f) => j = k
      <4>2. Wrapped(c, f) \in 0 .. n - 1
        BY NthIs
      <4> QED BY <1>1, <4>2, OrderIs
    <3> HIDE DEF s, t, blockRows, chunkRows
    <3> QED BY <3>1, <3>2, <3>3, <3>4, RowFields DEF PrimaryName, ChunkName
  <2> QED BY <2>1, <2>2 DEF NamesDiffer
<1> HIDE DEF num, blockRows, chunkRows
<1>6. e = Confirmed(d, f, num, blockRows, chunkRows)
  BY DEF num, blockRows, chunkRows
<1>7. /\ Description(e, f).blocks = Blocks(blockRows, e.chunk)
      /\ \A p \in NameOf(f) : ChunksOf(e.chunk, p) = Only(chunkRows, InPrimary(CRow, p))
  BY <1>1, <1>4, <1>5, <1>6, ConfirmedOwn
<1>8. ASSUME NEW j \in 1 .. n
      PROVE  ChunksOf(e.chunk, PrimaryName(Nth(c, f, j), f)) = <<CRowOn(Nth(c, f, j), f)>>
  <2> DEFINE p == PrimaryName(Nth(c, f, j), f)
             S == InPrimary(CRow, p)
  <2>1. p \in NameOf(f)
    BY OrderIs DEF NameOf
  <2>2. chunkRows \in Seq(CRow) /\ Len(chunkRows) = n /\ j \in 1 .. Len(chunkRows)
        /\ \A x \in 1 .. n : chunkRows[x] = CRowOn(Nth(c, f, x), f) /\ chunkRows[x] \in CRow
    BY <1>1, <1>3, <1>4 DEF CRowOf
  <2>3. ASSUME NEW x \in 1 .. Len(chunkRows) PROVE chunkRows[x] \in S <=> x = j
    <3>1. x \in 1 .. n
      BY <2>2
    <3>2. Nth(c, f, x) = Nth(c, f, j) <=> x = j
      BY <3>1, OrderIs
    <3>3. chunkRows[x].primary = PrimaryName(Nth(c, f, x), f)
      BY <2>2, <3>1, RowFields
    <3>4. chunkRows[x].primary = p <=> Nth(c, f, x) = Nth(c, f, j)
      BY <3>3 DEF PrimaryName
    <3> QED BY <2>2, <3>1, <3>2, <3>4 DEF InPrimary
  <2> HIDE DEF S
  <2>4. Only(chunkRows, S) = <<chunkRows[j]>>
    BY <2>2, <2>3, OnlyOne
  <2> QED BY <1>7, <2>1, <2>2, <2>4 DEF S
<1>9. Blocks(blockRows, e.chunk) = InOrder(c, f)
  <2> DEFINE chunks == e.chunk
  <2>1. InPlace(chunks, c, f)
    BY <1>8 DEF InPlace
  <2>2. blockRows = SentRows(c, f)
    BY <1>2 DEF SentRows
  <2> HIDE DEF chunks
  <2>3. Blocks(blockRows, chunks) = InOrder(c, f)
    BY <2>1, <2>2, UploadedBlocks
  <2> QED BY <2>3 DEF chunks
<1> QED BY <1>7, <1>9

\* So is an empty file.
TouchRow(f, s) == BlockRow(TouchName(f), f, 0, s, Home[f])
TouchChunk(f)  == ChunkRow(ChunkName(f, 0), f, TouchName(f), 0, 0, 0, 0)

\* What is described of touch's file: its empty block.
LEMMA TouchDescribed ==
    ASSUME NEW f \in File, NEW s \in Node, NEW d, Tables(d), f \in DOMAIN d.file, NoRows(d, f),
           NEW e, e = Confirmed(d, f, 1, <<TouchRow(f, s)>>, <<TouchChunk(f)>>)
    PROVE  Description(e, f).blocks = <<EntryOf(TouchRow(f, s), TouchChunk(f))>>
<1> DEFINE b == TouchRow(f, s)
           r == TouchChunk(f)
           num == 1
           blockRows == <<b>>
           chunkRows == <<r>>
           p == TouchName(f)
<1>1. p \in NameOf(f) /\ ChunkName(f, 0) \in ChunkNames(f) /\ Home[f] \in Node
  BY HomeAssumption DEF NameOf, ChunkNames
<1>2. b \in BRowOf(f) /\ r \in CRowOf(f) /\ b.name = p /\ r.primary = p /\ r.seq = 0
  <2>1. b \in BRowOf(f) /\ r \in CRowOf(f)
    BY <1>1, BlockRowIs, ChunkRowIs DEF TouchRow, TouchChunk
  <2> QED BY <2>1 DEF TouchRow, TouchChunk, BlockRow, ChunkRow
<1> HIDE DEF b, r, p
<1>3. /\ blockRows \in Seq(BRowOf(f)) /\ chunkRows \in Seq(CRowOf(f)) /\ num # 0
      /\ NamesDiffer(blockRows) /\ NamesDiffer(chunkRows)
      /\ chunkRows \in Seq(CRow) /\ Len(chunkRows) = 1 /\ chunkRows[1] = r
  BY <1>2 DEF NamesDiffer, CRowOf
<1>4. e = Confirmed(d, f, num, blockRows, chunkRows)
  BY DEF b, r
<1> HIDE DEF num, chunkRows
<1>5. /\ Description(e, f).blocks = Blocks(blockRows, e.chunk)
      /\ \A q \in NameOf(f) : ChunksOf(e.chunk, q) = Only(chunkRows, InPrimary(CRow, q))
  <2> HIDE DEF blockRows
  <2> QED BY ONLY Tables(d), f \in File, f \in DOMAIN d.file, NoRows(d, f), <1>3, <1>4, ConfirmedOwn
<1>6. Only(chunkRows, InPrimary(CRow, p)) = <<r>>
  <2> DEFINE S == InPrimary(CRow, p)
             k == 1
  <2>1. k \in 1 .. Len(chunkRows) /\ \A x \in 1 .. Len(chunkRows) : chunkRows[x] \in S <=> x = k
    BY <1>2, <1>3 DEF InPrimary, CRowOf
  <2> HIDE DEF S, k
  <2>2. Only(chunkRows, S) = <<chunkRows[k]>>
    BY ONLY <1>3, <2>1, OnlyOne
  <2> QED BY <1>3, <2>2 DEF S, k
<1>7. ChunksOf(e.chunk, b.name) = <<r>>
  BY <1>1, <1>2, <1>5, <1>6
<1>8. Blocks(<<b>>, e.chunk) = <<EntryOf(b, r)>>
  <2> DEFINE chunks == e.chunk
  <2>1. ChunksOf(chunks, b.name) = <<r>>
    BY <1>7
  <2> HIDE DEF chunks
  <2>2. Blocks(<<b>>, chunks) = <<EntryOf(b, r)>>
    BY <1>2, <2>1, TouchedBlocks
  <2> QED BY <2>2 DEF chunks
<1> QED BY <1>5, <1>8 DEF b, r
-----------------------------------------------------------------------------
(* What is described of any file: primary files of it.                     *)

\* A set of finitely many numbers has a first and a last one.
LEMMA MinMax ==
    ASSUME NEW n \in Nat, NEW S, S \subseteq 1 .. n, S # {}
    PROVE  Min(S) \in S /\ Max(S) \in S
<1> DEFINE Low(k)  == \E x \in S : x <= k /\ \A y \in S : y <= k => x <= y
           High(k) == \E x \in S : x <= k /\ \A y \in S : y <= k => x >= y
           U == {k \in 0 .. n : (\A y \in S : ~(y <= k)) \/ (Low(k) /\ High(k))}
<1>1. 0 \in U
  OBVIOUS
<1>2. ASSUME NEW k \in 1 .. n, k - 1 \in U PROVE k \in U
  <2>1. \A y \in S : y \in Int /\ (y <= k <=> y <= k - 1 \/ y = k)
    OBVIOUS
  <2>2. CASE k \in S
    <3>1. CASE \A y \in S : ~(y <= k - 1)
      BY <2>1, <2>2, <3>1
    <3>2. CASE Low(k - 1) /\ High(k - 1)
      <4>1. PICK x \in S : x <= k - 1 /\ \A y \in S : y <= k - 1 => x <= y
        BY <3>2
      <4>2. Low(k)
        <5>1. x <= k /\ \A y \in S : y <= k => x <= y
          BY <2>1, <4>1
        <5> QED BY <5>1
      <4>3. High(k)
        <5>1. k <= k /\ \A y \in S : y <= k => k >= y
          BY <2>1
        <5> QED BY <2>2, <5>1
      <4> HIDE DEF Low, High
      <4> QED BY <4>2, <4>3
    <3> QED BY <1>2, <3>1, <3>2
  <2>3. CASE k \notin S
    <3>1. \A y \in S : y <= k <=> y <= k - 1
      BY <2>1, <2>3
    <3>2. Low(k - 1) <=> Low(k)
      BY <3>1
    <3>3. High(k - 1) <=> High(k)
      BY <3>1
    <3> HIDE DEF Low, High
    <3> QED BY <1>2, <3>1, <3>2, <3>3
  <2> QED BY <2>2, <2>3
<1> HIDE DEF U
<1>3. 0 .. n \subseteq U
  BY ONLY n \in Nat, <1>1, <1>2, UpTo
<1>4. Low(n) /\ High(n)
  <2>1. \E y \in S : y <= n
    <3>1. PICK y \in S : TRUE
      OBVIOUS
    <3>2. y \in 1 .. n
      OBVIOUS
    <3> QED BY <3>2
  <2> HIDE DEF Low, High
  <2> QED BY <1>3, <2>1 DEF U
<1>5. \E x \in S : \A y \in S : x <= y
  BY ONLY S \subseteq 1 .. n, n \in Nat, <1>4
<1>6. \E x \in S : \A y \in S : x >= y
  <2>1. PICK x \in S : \A y \in S : y <= n => x >= y
    BY <1>4
  <2>2. \A y \in S : y <= n
    OBVIOUS
  <2> QED BY ONLY <2>1, <2>2
<1>7. Min(S) \in S
  BY <1>5, Zenon DEF Min
<1>8. Max(S) \in S
  BY <1>6, Zenon DEF Max
<1> QED BY <1>7, <1>8

\* Where the round-robin begins.
LEMMA StartIs ==
    ASSUME NEW n \in Nat, NEW rows, DOMAIN rows = 1 .. n, NEW lists
    PROVE  StartIndex(rows, lists) \in Nat \ {0}
<1> DEFINE first == {p \in DOMAIN rows : lists[p] # <<>> /\ lists[p][1].seq = 0}
           same == {p \in DOMAIN rows : rows[p].key = rows[Max(first)].key}
<1>1. StartIndex(rows, lists) = IF first = {} THEN 1 ELSE Min(same)
  BY DEF StartIndex
<1>2. first \subseteq 1 .. n
  OBVIOUS
<1> HIDE DEF first
<1>3. first # {} => Max(first) \in 1 .. n
  BY <1>2, MinMax
<1>4. same \subseteq 1 .. n /\ (first # {} => same # {})
  BY <1>3
<1> HIDE DEF same
<1>5. first # {} => Min(same) \in 1 .. n
  BY <1>4, MinMax
<1> QED BY <1>1, <1>5

\* What stands in an arrangement comes from the rows.
FromRows(bs, rows, n) ==
    /\ Len(bs) \in Nat
    /\ \A x \in 1 .. Len(bs) : \E p \in 1 .. n :
           bs[x].primary = rows[p].name /\ bs[x].key = rows[p].key

\* Every block of an arrangement has the name and the key of one of the rows.
LEMMA ArrangedFromRows ==
    ASSUME NEW rows, NEW n \in Nat, DOMAIN rows = 1 .. n, Len(rows) = n, NEW lists,
           DOMAIN lists = 1 .. n, \A p \in 1 .. n : Len(lists[p]) \in Nat, NEW start \in Nat \ {0}
    PROVE  FromRows(Arranged(rows, lists, start), rows, n)
<1> DEFINE Entry(p, i) ==
            [chunk |-> lists[p][i].name, primary |-> rows[p].name, key |-> rows[p].key,
             node |-> rows[p].node, offset |-> lists[p][i].offset, seq |-> lists[p][i].seq,
             primary_seq |-> lists[p][i].primary_seq, size |-> lists[p][i].size]
           Turn(p, i) == IF i > Len(lists[p]) \/ Ended(lists, i - 1) THEN <<>> ELSE <<Entry(p, i)>>
           At(j) == ((start + j - 2) % Len(rows)) + 1
           Round(i) == FlattenSeq([j \in DOMAIN rows |-> Turn(At(j), i)])
           len == [p \in 1 .. n |-> Len(lists[p])]
           max == Max({0} \cup {len[p] : p \in 1 .. n})
           T == {Entry(At(j), i) : j \in 1 .. n, i \in 1 .. max}
<1>1. Arranged(rows, lists, start) = FlattenSeq([i \in 1 .. max |-> Round(i)])
  <2>1. {Len(lists[p]) : p \in DOMAIN lists} = {len[p] : p \in 1 .. n}
    <3>1. \A p \in 1 .. n : len[p] = Len(lists[p])
      OBVIOUS
    <3> HIDE DEF len
    <3> QED BY <3>1
  <2> HIDE DEF len
  <2> QED BY <2>1 DEF Arranged
<1>2. max \in Nat
  <2>1. \A p \in 1 .. n : len[p] \in Nat
    OBVIOUS
  <2> HIDE DEF len
  <2> QED BY ONLY n \in Nat, <2>1, MaxIs
<1> HIDE DEF max
<1>3. ASSUME NEW i \in 1 .. max PROVE Round(i) \in Seq(T)
  <2> HIDE DEF Entry, At
  <2>1. \A j \in 1 .. n : Entry(At(j), i) \in T
    OBVIOUS
  <2> HIDE DEF T
  <2>2. \A j \in 1 .. n : Turn(At(j), i) \in Seq(T)
    BY <2>1
  <2> HIDE DEF Turn
  <2> DEFINE seqs == [j \in 1 .. n |-> Turn(At(j), i)]
  <2>3. seqs \in Seq(Seq(T))
    BY <2>2
  <2>4. Round(i) = FlattenSeq(seqs)
    OBVIOUS
  <2> HIDE DEF seqs, Round
  <2> QED BY ONLY <2>3, <2>4, FlattenIn
<1>6. ASSUME NEW t \in T PROVE \E p \in 1 .. n : t.primary = rows[p].name /\ t.key = rows[p].key
  <2>1. PICK j \in 1 .. n, i \in 1 .. max : t = Entry(At(j), i)
    BY <1>6
  <2>2. At(j) \in 1 .. n
    <3>1. (start + j - 2) % n \in 0 .. n - 1
      OBVIOUS
    <3> QED BY <3>1
  <2> HIDE DEF At
  <2>3. t.primary = rows[At(j)].name /\ t.key = rows[At(j)].key
    BY <2>1
  <2> QED BY <2>2, <2>3
<1> HIDE DEF T, Round
<1> DEFINE all == [i \in 1 .. max |-> Round(i)]
<1>4. all \in Seq(Seq(T))
  BY <1>2, <1>3
<1> HIDE DEF all
<1>5. FlattenSeq(all) \in Seq(T)
  BY ONLY <1>4, FlattenIn
<1> DEFINE bs == Arranged(rows, lists, start)
<1>7. bs \in Seq(T)
  BY <1>1, <1>5 DEF all
<1> HIDE DEF bs
<1>8. Len(bs) \in Nat /\ \A x \in 1 .. Len(bs) : bs[x] \in T
  BY <1>7
<1> QED BY <1>6, <1>8 DEF bs, FromRows


OwnRow == {r \in BRow : r.key = r.name[2]}
OwnBlocks(bs, f) == \A x \in 1 .. Len(bs) :
    bs[x].primary \in NameOf(f) /\ bs[x].key \in Node /\ bs[x].key = bs[x].primary[2]

\* The primary files that are described are the file's own, on their own nodes.
LEMMA DescribedOwn ==
    ASSUME NEW d, Tables(d), d.block \in Seq(OwnRow), NEW f
    PROVE  Len(Description(d, f).blocks) \in Nat /\ OwnBlocks(Description(d, f).blocks, f)
<1> DEFINE rows == OfFile(d.block, f)
           lists == ListsOf(d.chunk, rows)
           n == Len(rows)
           start == StartIndex(rows, lists)
<1>1. n \in Nat /\ DOMAIN rows = 1 .. n
      /\ \A p \in 1 .. n : rows[p].name \in NameOf(f) /\ rows[p].key \in Node
                           /\ rows[p].key = rows[p].name[2]
  <2>1. rows \in Seq(BRowOf(f))
    BY RowsOfFile
  <2>2. rows \in Seq(OwnRow)
    <3>1. OfFile(d.block, f) = Only(d.block, OfFileIn(OwnRow, f))
      BY WhereFile
    <3> QED BY <3>1, OnlyFacts
  <2> HIDE DEF rows
  <2>3. \A p \in 1 .. n : rows[p] \in BRowOf(f) /\ rows[p] \in OwnRow
    BY <2>1, <2>2
  <2> QED BY <2>1, <2>3 DEF BRowOf, BRow, OwnRow
<1> HIDE DEF rows
<1>2. DOMAIN lists = 1 .. n /\ \A p \in 1 .. n : Len(lists[p]) \in Nat
  <2>1. ASSUME NEW p \in 1 .. n PROVE Len(ChunksOf(d.chunk, rows[p].name)) \in Nat
    <3>1. Only(d.chunk, InPrimary(CRow, rows[p].name)) \in Seq(CRow)
      BY OnlyFacts DEF Tables
    <3>2. ChunksOf(d.chunk, rows[p].name) \in Seq(CRow)
      BY <3>1, WherePrimary DEF Tables
    <3> QED BY <3>2
  <2> QED BY <1>1, <2>1 DEF ListsOf
<1>3. start \in Nat \ {0}
  BY <1>1, StartIs
<1>9. Len(rows) = n
  OBVIOUS
<1> HIDE DEF start, lists, n
<1>4. FromRows(Arranged(rows, lists, start), rows, n)
  BY ONLY <1>1, <1>2, <1>3, <1>9, ArrangedFromRows
<1>5. Blocks(rows, d.chunk) = Arranged(rows, lists, start)
  <2>1. ArrangedFrom(rows, lists) = Arranged(rows, lists, StartIndex(rows, lists))
    BY DEF ArrangedFrom, With
  <2> QED BY <2>1, BlocksAre DEF lists, start
<1> DEFINE bs == Blocks(rows, d.chunk)
<1>6. Len(bs) \in Nat /\ OwnBlocks(bs, f)
  BY <1>1, <1>4, <1>5 DEF OwnBlocks, FromRows
<1> HIDE DEF bs
<1>7. Len(<<>>) \in Nat /\ OwnBlocks(<<>>, f)
  BY DEF OwnBlocks
<1>8. Description(d, f).blocks \in {<<>>, bs}
  BY DescribedIs DEF Description, NoDescription, rows, bs
<1> QED BY <1>6, <1>7, <1>8
-----------------------------------------------------------------------------
(* Who may be about to change a file. A client that died may still have    *)
(* messages under way.                                                     *)

Busy(c)     == Active(c) \/ sent[c] # {}
Changing(c) == pc[c] \in {"insert", "await", "delete", "format"} \/ sent[c] # {}
Pending(c)  == pc[c] \in {"await", "delete", "format"} \/ sent[c] # {}
Target(c)   == IF job[c].op = "format" THEN File ELSE {F(c)}

BusyTurns == \A c, d \in Client :
    c # d /\ Busy(c) /\ Busy(d) /\ FilesOf(job[c]) \cap FilesOf(job[d]) # {}
        => job[c].op \in Free \/ job[d].op \in Free

\* An upload's messages create blocks of its own file, each on its own node.
OwnPost(s, f) == /\ s.msg.op = "INSERT"
                 /\ \A g \in File : s.msg.name \in NameOf(g) => g = f /\ s.to = s.msg.name[2]
Posting == \A c \in Client : sent[c] # {} =>
    /\ pc[c] \in {"await", "crashed"} /\ job[c] \in Job
    /\ job[c].op \in {"put", "write_file", "put_idv", "touch"}
    /\ \A s \in sent[c] : OwnPost(s, F(c))

NothingPending == \A c \in Client : Pending(c) => \A f \in Target(c) : promise[f] = NoOne

TurnInv == BusyTurns /\ Posting /\ NothingPending

\* The files that a client may change are those of its call.
LEMMA TargetIs ==
    ASSUME Shape, InCall, Posting, NEW c \in Client, Changing(c)
    PROVE  /\ Target(c) \subseteq File /\ Target(c) \subseteq FilesOf(job[c])
           /\ job[c].op \in Changes /\ Busy(c)
           /\ pc[c] # "format" => F(c) \in File /\ Target(c) = {F(c)}
<1>1. job[c] \in Job /\ job[c].op \in Changes /\ Busy(c)
  BY DEF InCall, Posting, Changing, Changes, Busy, Active
<1>2. job[c] # NoJob /\ (job[c].op = "format" \/ ("file" \in DOMAIN job[c] /\ job[c].file \in File))
  BY <1>1, JobAssumption
<1>3. pc[c] # "format" => job[c].op # "format"
  BY DEF InCall, Posting, Changing
<1> QED BY <1>1, <1>2, <1>3 DEF Target, F, FilesOf

\* Two clients do not change one file at a time.
LEMMA OneTarget ==
    ASSUME OneAtATime, Shape, InCall, BusyTurns, Posting, NEW c \in Client, NEW d \in Client,
           Changing(c), Changing(d), NEW f, f \in Target(c), f \in Target(d)
    PROVE  c = d
<1>1. /\ f \in FilesOf(job[c]) /\ job[c].op \in Changes /\ Busy(c)
      /\ f \in FilesOf(job[d]) /\ job[d].op \in Changes /\ Busy(d)
  BY TargetIs
<1> QED BY <1>1 DEF OneAtATime, BusyTurns

\* A step of a client that begins nothing and promises nothing.
LEMMA TurnsOn ==
    ASSUME TurnInv, NEW c \in Client,
           \A d \in Client \ {c} : pc'[d] = pc[d] /\ job'[d] = job[d] /\ sent'[d] = sent[d],
           sent'[c] \subseteq sent[c], Busy(c)' => job'[c] = job[c] /\ Busy(c),
           sent'[c] # {} => pc'[c] \in {"await", "crashed"}, Pending(c)' => Pending(c),
           \A d \in Client : Pending(d) /\ Pending(d)' =>
               \A f \in Target(d) : promise[f] = NoOne => promise'[f] = NoOne
    PROVE  TurnInv'
<1>1. \A d \in Client \ {c} : (Busy(d)' <=> Busy(d)) /\ (Pending(d)' <=> Pending(d))
  BY DEF Busy, Active, Pending
<1>2. BusyTurns'
  BY <1>1 DEF TurnInv, BusyTurns, FilesOf
<1>3. Posting'
  <2> SUFFICES ASSUME NEW d \in Client, sent'[d] # {}
               PROVE  /\ pc'[d] \in {"await", "crashed"} /\ job'[d] \in Job
                      /\ job'[d].op \in {"put", "write_file", "put_idv", "touch"}
                      /\ \A s \in sent'[d] : OwnPost(s, F(d)')
    BY DEF Posting, OwnPost
  <2>1. Busy(d)' /\ sent[d] # {} /\ sent'[d] \subseteq sent[d]
    BY DEF Busy
  <2>2. job'[d] = job[d] /\ F(d)' = F(d)
    BY <2>1 DEF F
  <2> QED BY <2>1, <2>2 DEF TurnInv, Posting
<1>4. NothingPending'
  <2> SUFFICES ASSUME NEW d \in Client, Pending(d)', NEW f \in Target(d)' PROVE promise'[f] = NoOne
    BY DEF NothingPending
  <2>1. Pending(d)
    BY <1>1
  <2>2. Busy(d)'
    BY DEF Busy, Pending, Active
  <2>3. job'[d] = job[d]
    BY <2>2
  <2>4. Target(d)' = Target(d)
    BY <2>3 DEF Target, F
  <2> QED BY <2>1, <2>4 DEF TurnInv, NothingPending
<1> QED BY <1>2, <1>3, <1>4 DEF TurnInv

\* A call that begins waits for those who may still change its file.
LEMMA TurnsStart ==
    ASSUME TurnInv, Shape, InCall, NEW c \in Client, NEW j \in Job, Calls(c, j), UNCHANGED sent,
           \A d \in Client \ {c} : pc'[d] = pc[d] /\ job'[d] = job[d], job'[c] = j,
           Pending(c)' => \A f \in Target(c)' : promise'[f] = NoOne,
           \A f \in File : promise'[f] \in {promise[f], NoOne}
    PROVE  TurnInv'
<1>1. pc[c] = "idle" /\ sent[c] = {}
  BY DEF Calls, TurnInv, Posting
<1>2. \A d \in Client \ {c} : /\ (Busy(d)' <=> Busy(d)) /\ (Pending(d)' <=> Pending(d))
                              /\ F(d)' = F(d) /\ Target(d)' = Target(d)
  BY DEF Busy, Active, Pending, F, Target
<1>3. ASSUME NEW d \in Client \ {c}, Busy(d), FilesOf(job[d]) \cap FilesOf(j) # {}
      PROVE  job[d].op \in Free \/ j.op \in Free
  BY <1>3 DEF Calls, Quiet, Busy, Active
<1>4. BusyTurns'
  BY <1>2, <1>3 DEF TurnInv, BusyTurns, FilesOf
<1>5. Posting'
  BY <1>1, <1>2 DEF TurnInv, Posting, OwnPost
<1>6. NothingPending'
  <2> SUFFICES ASSUME NEW d \in Client \ {c}, Pending(d), NEW f \in Target(d)
               PROVE  promise'[f] = NoOne
    BY <1>2 DEF NothingPending
  <2>1. promise[f] = NoOne
    BY DEF TurnInv, NothingPending
  <2>2. Changing(d)
    BY DEF Changing, Pending
  <2>3. f \in File
    BY <2>2, TargetIs DEF TurnInv
  <2> QED BY <2>1, <2>3
<1> QED BY <1>4, <1>5, <1>6 DEF TurnInv
-----------------------------------------------------------------------------
(* What the theorem about downloads asks of the settings: keys that are    *)
(* drawn for a server map back to it, as those that are not a boundary do  *)
(* (PlacementProofs), and files have a chunk on each of some nodes.        *)
OwnKeys   == \A s \in Node : Key[s] = {s}
Spread    == \A c \in Client : Chunks[c] \in 2 .. N
GetsAlone == "get" \notin Free

\* The messages of an upload.
Post(c, f, q) == [to |-> Server(f, q), msg |-> Message("INSERT", PrimaryName(Server(f, q), f), 0,
                                                       <<Cell(c, q)>>)]
ChunkPosts(c, f) == {Post(c, f, q) : q \in 0 .. Chunks[c] - 1}
TouchPost(f) == [to |-> Home[f], msg |-> Message("INSERT", TouchName(f), 0, <<>>)]

\* A file's chunks fit on the nodes, one on each.
LEMMA FewOf == ASSUME Spread, NEW c \in Client, NEW f \in File PROVE Few(c, f) /\ Chunks[c] # 1
<1>1. Chunks[c] \in 2 .. N /\ N \in Nat /\ Home[f] \in Node
  BY NodesAssumption, HomeAssumption DEF Spread
<1> QED BY <1>1 DEF Few

\* Names of chunks are not names of primary files.
LEMMA IdvNotPrimary ==
    ASSUME NEW f, NEW g, NEW q PROVE IdvName(f, q) \notin NameOf(g) /\ MetaReplica(q) \notin NameOf(g)
<1>1. \A a, s, t, b, u : <<a, s>> # <<t, b, u>>
  <2> SUFFICES ASSUME NEW a, NEW s, NEW t, NEW b, NEW u, <<a, s>> = <<t, b, u>> PROVE FALSE
    OBVIOUS
  <2>1. Len(<<a, s>>) = 2 /\ Len(<<t, b, u>>) = 3
    OBVIOUS
  <2> QED BY <2>1
<1>2. \A a, s, b, u : <<"Chunk", a, s>> # <<"Primary", b, u>> /\ <<"Chunk", a, s>> # <<"H", b, u>>
  OBVIOUS
<1> QED BY <1>1, <1>2 DEF IdvName, ChunkName, NameOf, PrimaryName, TouchName, MetaReplica

\* The first requests of an upload, whichever.
UploadBegins(c) ==
    /\ pc[c] = "insert" /\ pc' = [pc EXCEPT ![c] = "await"] /\ UNCHANGED <<job, cache, disk, link>>
    /\ promise' = [promise EXCEPT ![F(c)] = NoOne]
    /\ \E row : row.uploading = 1 /\ FileInsert(L(c), F(c), row)
    /\ \A d \in Client \ {c} : loc'[d] = loc[d] /\ sent'[d] = sent[d]
    /\ \A s \in sent'[c] : OwnPost(s, F(c))
    /\ IF job[c].op = "touch" THEN loc'[c].key[L(c)] = L(c) /\ sent'[c] = {TouchPost(F(c))}
       ELSE /\ \A s \in Used(c, F(c)) : loc'[c].key[s] = s
            /\ job[c].op # "put_idv" => sent'[c] = ChunkPosts(c, F(c))

\* put, write_file, put_idv and touch begin in that way,
LEMMA UploadBeginsIs ==
    ASSUME OwnKeys, Spread, TypeInv, NEW c \in Client,
           UploadInsert(c) \/ WriteFileInsert(c) \/ IdvInsert(c) \/ TouchInsert(c)
    PROVE  UploadBegins(c)
<1>1. Shape /\ InCall /\ pc[c] = "insert" /\ Active(c) /\ Local(c) /\ DOMAIN sent = Client
  BY LocalShape DEF UploadInsert, WriteFileInsert, SendChunks, IdvInsert, TouchInsert, Active,
                    TypeInv, Stored
<1> PICK f \in File : f = F(c) /\ Home[f] \in Node /\ L(c) = Home[f]
  BY <1>1, OwnFile
<1> DEFINE C == Chunks[c]
<1>2. /\ C \in 2 .. N /\ N \in Nat /\ Used(c, f) \subseteq Node
      /\ \A q \in 0 .. C - 1 : Server(f, q) \in Used(c, f) /\ Server(f, q) \in Node /\ q < N
  BY SentNames, NodesAssumption DEF Spread
<1>3. ASSUME NEW s \in Node
      PROVE  /\ PrimaryName(s, f)[2] = s /\ TouchName(f)[2] = Home[f]
             /\ \A g \in File : PrimaryName(s, f) \in NameOf(g) => g = f
             /\ \A g \in File : TouchName(f) \in NameOf(g) => g = f
  <2>1. PrimaryName(s, f) \in NameOf(f) /\ TouchName(f) \in NameOf(f)
    BY DEF NameOf
  <2> QED BY <2>1, OneFileOfName DEF PrimaryName, TouchName
<1>4. FileRow(C, TRUE).uploading = 1 /\ FileRow(0, FALSE).uploading = 1
  BY DEF FileRow
<1>5. ASSUME NEW op \in {"put", "write_file"}, SendChunks(c, op) PROVE UploadBegins(c)
  <2> DEFINE To(k) == {[to |-> k[Server(f, seq)], msg |-> BlockMessage(c, f, seq)] :
                          seq \in 0 .. C - 1}
  <2>1. PICK k \in [Used(c, f) -> Node] :
            /\ \A s \in Used(c, f) : k[s] \in Key[s]
            /\ loc' = [loc EXCEPT ![c].key = k] /\ sent' = [sent EXCEPT ![c] = To(k)]
    <3>1. PICK k \in [Used(c, F(c)) -> Node] :
              /\ \A s \in Used(c, F(c)) : k[s] \in Key[s]
              /\ loc' = [loc EXCEPT ![c].key = k]
              /\ sent' = [sent EXCEPT ![c] =
                    {[to |-> k[Server(F(c), seq)], msg |-> BlockMessage(c, F(c), seq)] :
                        seq \in 0 .. Chunks[c] - 1}]
      BY <1>5, Zenon DEF SendChunks
    <3> WITNESS k \in [Used(c, f) -> Node]
    <3> QED BY <3>1, Zenon
  <2>2. \A s \in Used(c, f) : k[s] = s
    BY <1>2, <2>1 DEF OwnKeys
  <2>3. To(k) = ChunkPosts(c, f)
    <3>1. \A q \in 0 .. C - 1 :
             [to |-> k[Server(f, q)], msg |-> BlockMessage(c, f, q)] = Post(c, f, q)
      BY <1>2, <2>2 DEF Post, BlockMessage
    <3> QED BY <3>1 DEF ChunkPosts
  <2>4. \A s \in ChunkPosts(c, f) : OwnPost(s, f)
    <3> SUFFICES ASSUME NEW q \in 0 .. C - 1 PROVE OwnPost(Post(c, f, q), f)
      BY DEF ChunkPosts
    <3> QED BY <1>2, <1>3 DEF OwnPost, Post, Message
  <2> HIDE DEF To
  <2>5. /\ \A d \in Client \ {c} : loc'[d] = loc[d] /\ sent'[d] = sent[d]
        /\ loc'[c].key = k /\ sent'[c] = ChunkPosts(c, f)
    BY <1>1, <2>1, <2>3 DEF Shape, Local, NoLocals
  <2>6. /\ pc' = [pc EXCEPT ![c] = "await"] /\ UNCHANGED <<job, cache, disk, link>>
        /\ promise' = [promise EXCEPT ![F(c)] = NoOne] /\ job[c].op # "touch"
        /\ FileInsert(L(c), F(c), FileRow(C, TRUE))
    BY <1>5 DEF SendChunks, Goto, FileInsert
  <2>7. \E row : row.uploading = 1 /\ FileInsert(L(c), F(c), row)
    BY <1>4, <2>6
  <2> QED BY <1>1, <2>2, <2>4, <2>5, <2>6, <2>7 DEF UploadBegins
<1>6. CASE IdvInsert(c)
  <2> DEFINE To(k) == {[to  |-> k[Server(f, seq)],
                        msg |-> Message("INSERT", IdvName(f, seq), 0, <<Cell(c, seq)>>)] :
                          seq \in 0 .. C - 1}
  <2>1. PICK k \in [Used(c, f) -> Node] :
            /\ \A s \in Used(c, f) : k[s] \in Key[s]
            /\ loc' = [loc EXCEPT ![c].key = k] /\ sent' = [sent EXCEPT ![c] = To(k)]
    <3>1. PICK k \in [Used(c, F(c)) -> Node] :
              /\ \A s \in Used(c, F(c)) : k[s] \in Key[s]
              /\ loc' = [loc EXCEPT ![c].key = k]
              /\ sent' = [sent EXCEPT ![c] =
                    {[to  |-> k[Server(F(c), seq)],
                      msg |-> Message("INSERT", IdvName(F(c), seq), 0, <<Cell(c, seq)>>)] :
                        seq \in 0 .. Chunks[c] - 1}]
      BY <1>6, Zenon DEF IdvInsert
    <3> WITNESS k \in [Used(c, f) -> Node]
    <3> QED BY <3>1, Zenon
  <2>2. \A s \in Used(c, f) : k[s] = s
    BY <1>2, <2>1 DEF OwnKeys
  <2>4. \A s \in To(k) : OwnPost(s, f)
    BY IdvNotPrimary DEF OwnPost, Message
  <2> HIDE DEF To
  <2>5. /\ \A d \in Client \ {c} : loc'[d] = loc[d] /\ sent'[d] = sent[d]
        /\ loc'[c].key = k /\ sent'[c] = To(k)
    BY <1>1, <2>1 DEF Shape, Local, NoLocals
  <2>6. /\ pc' = [pc EXCEPT ![c] = "await"] /\ UNCHANGED <<job, cache, disk, link>>
        /\ promise' = [promise EXCEPT ![F(c)] = NoOne] /\ job[c].op = "put_idv"
        /\ FileInsert(L(c), F(c), FileRow(C, TRUE))
    BY <1>6 DEF IdvInsert, Goto, FileInsert
  <2>7. \E row : row.uploading = 1 /\ FileInsert(L(c), F(c), row)
    BY <1>4, <2>6
  <2> QED BY <1>1, <2>2, <2>4, <2>5, <2>6, <2>7 DEF UploadBegins
<1>7. CASE TouchInsert(c)
  <2>1. PICK k \in Key[L(c)] :
            /\ loc' = [loc EXCEPT ![c].key = [s \in {L(c)} |-> k]]
            /\ sent' = [sent EXCEPT ![c] =
                  {[to |-> k, msg |-> Message("INSERT", TouchName(F(c)), 0, <<>>)]}]
    BY <1>7 DEF TouchInsert
  <2>2. k = L(c)
    BY <2>1 DEF OwnKeys
  <2>3. /\ \A d \in Client \ {c} : loc'[d] = loc[d] /\ sent'[d] = sent[d]
        /\ loc'[c].key[L(c)] = L(c) /\ sent'[c] = {TouchPost(f)}
    BY <1>1, <2>1, <2>2 DEF Shape, Local, NoLocals, TouchPost
  <2>4. \A s \in {TouchPost(f)} : OwnPost(s, f)
    BY <1>3 DEF OwnPost, TouchPost, Message
  <2>6. /\ pc' = [pc EXCEPT ![c] = "await"] /\ UNCHANGED <<job, cache, disk, link>>
        /\ promise' = [promise EXCEPT ![F(c)] = NoOne] /\ job[c].op = "touch"
        /\ FileInsert(L(c), F(c), FileRow(0, FALSE))
    BY <1>7 DEF TouchInsert, Goto, FileInsert
  <2>7. \E row : row.uploading = 1 /\ FileInsert(L(c), F(c), row)
    BY <1>4, <2>6
  <2> QED BY <1>1, <2>3, <2>4, <2>6, <2>7 DEF UploadBegins
<1> QED BY <1>5, <1>6, <1>7 DEF UploadInsert, WriteFileInsert

Settings == OneAtATime /\ OwnKeys /\ Spread

\* An upload that begins to send.
LEMMA SendTurns ==
    ASSUME TurnInv, Shape, InCall, NEW c \in Client, UploadBegins(c) PROVE TurnInv'
<1>1. /\ pc[c] = "insert" /\ pc' = [pc EXCEPT ![c] = "await"] /\ UNCHANGED job /\ Active(c)
      /\ promise' = [promise EXCEPT ![F(c)] = NoOne]
      /\ \A d \in Client \ {c} : sent'[d] = sent[d]
      /\ \A s \in sent'[c] : OwnPost(s, F(c))
  BY DEF UploadBegins, Active
<1>2. \A d \in Client : /\ F(d)' = F(d) /\ Target(d)' = Target(d) /\ (Busy(d)' => Busy(d))
                        /\ (Pending(d)' => Pending(d) \/ d = c)
  BY <1>1 DEF Shape, F, Target, Busy, Active, Pending
<1>3. BusyTurns'
  BY <1>1, <1>2 DEF TurnInv, BusyTurns, FilesOf
<1>4. Posting'
  <2>1. job[c] \in Job /\ job[c].op \in {"put", "write_file", "put_idv", "touch"}
    BY <1>1 DEF InCall
  <2> QED BY <1>1, <1>2, <2>1 DEF TurnInv, Posting, Shape, OwnPost
<1>5. NothingPending'
  <2> SUFFICES ASSUME NEW d \in Client, Pending(d)', NEW f \in Target(d) PROVE promise'[f] = NoOne
    BY <1>2 DEF NothingPending
  <2>1. CASE d = c
    <3>1. Changing(c) /\ pc[c] # "format"
      BY <1>1 DEF Changing
    <3>2. F(c) \in File /\ f = F(c)
      BY <2>1, <3>1, TargetIs DEF TurnInv
    <3> QED BY <1>1, <3>2 DEF Shape
  <2>2. CASE d # c
    <3>1. Pending(d)
      BY <1>2, <2>2
    <3>2. promise[f] = NoOne
      BY <3>1 DEF TurnInv, NothingPending
    <3>3. f \in File
      BY <3>1, TargetIs DEF TurnInv, Pending, Changing
    <3> QED BY <1>1, <3>2, <3>3 DEF Shape
  <2> QED BY <2>1, <2>2
<1> QED BY <1>3, <1>4, <1>5 DEF TurnInv

\* A call that ends, and promises something of the files it may change.
LEMMA EndTurns ==
    ASSUME OneAtATime, TurnInv, Shape, InCall, NEW c \in Client, sent[c] = {}, UNCHANGED sent,
           pc' = [pc EXCEPT ![c] = "idle"], job' = [job EXCEPT ![c] = NoJob],
           \A f \in File : promise'[f] = promise[f] \/ (Changing(c) /\ f \in Target(c))
    PROVE  TurnInv'
<1>1. \A d \in Client \ {c} : pc'[d] = pc[d] /\ job'[d] = job[d] /\ sent'[d] = sent[d]
  BY DEF Shape
<1>2. pc'[c] = "idle" /\ ~Busy(c)' /\ ~Pending(c)'
  BY DEF Shape, Busy, Active, Pending
<1>3. ASSUME NEW d \in Client, Pending(d), Pending(d)', NEW f \in Target(d), promise[f] = NoOne
      PROVE  promise'[f] = NoOne
  <2>1. d # c /\ Changing(d)
    BY <1>2, <1>3 DEF Pending, Changing
  <2>2. f \in File
    BY <2>1, <1>3, TargetIs DEF TurnInv
  <2> QED BY <1>3, <2>1, <2>2, OneTarget DEF TurnInv
<1> QED BY <1>1, <1>2, <1>3, TurnsOn

\* Every step keeps the turns.
LEMMA StepTurns ==
    ASSUME Settings, RemovalInv, TypeInv, TurnInv, [Next]_vars PROVE TurnInv'
<1>1. Shape /\ InCall /\ DOMAIN sent = Client /\ OneAtATime /\ OwnKeys /\ Spread
  BY DEF RemovalInv, TypeInv, Stored, Settings
<1>2. ASSUME NEW c \in Client, NEW j \in Job, Call(c, j) PROVE TurnInv'
  <2>1. CASE UNCHANGED <<pc, job, sent, promise>>
    BY <2>1 DEF TurnInv, BusyTurns, Busy, Active, FilesOf, Posting, OwnPost, F, NothingPending,
                Pending, Target
  <2>2. CASE ~UNCHANGED <<pc, job, sent, promise>>
    <3>1. Calls(c, j) /\ UNCHANGED sent /\ job' = [job EXCEPT ![c] = j]
          /\ \/ pc' = [pc EXCEPT ![c] = "insert"] /\ UNCHANGED promise
             \/ pc' = [pc EXCEPT ![c] = "describe"] /\ UNCHANGED promise
             \/ /\ pc' = [pc EXCEPT ![c] = "delete"] /\ j.op = "rm"
                /\ promise' = [promise EXCEPT ![j.file] = NoOne]
             \/ pc' = [pc EXCEPT ![c] = "format"] /\ promise' = [f \in File |-> NoOne]
      BY <1>2, <2>2 DEF Call, UploadExists, DownloadExists, RemoveDescribe, Arrange, FormatBegin,
                        Enter, Goto
    <3>2. \A d \in Client \ {c} : pc'[d] = pc[d] /\ job'[d] = job[d]
      BY <1>1, <3>1 DEF Shape
    <3>3. job'[c] = j /\ Target(c)' = IF j.op = "format" THEN File ELSE {j.file}
      BY <1>1, <3>1 DEF Shape, Target, F
    <3>4. sent[c] = {} /\ pc[c] = "idle"
      BY <3>1 DEF Calls, TurnInv, Posting
    <3>5. j.op = "format" \/ j.file \in File
      BY JobAssumption
    <3>6. Pending(c)' => \A f \in Target(c)' : promise'[f] = NoOne
      BY <1>1, <3>1, <3>3, <3>4, <3>5 DEF Shape, Pending
    <3>7. \A f \in File : promise'[f] \in {promise[f], NoOne}
      BY <1>1, <3>1 DEF Shape
    <3> QED BY <1>1, <3>1, <3>2, <3>3, <3>6, <3>7, TurnsStart
  <2> QED BY <2>1, <2>2
<1>3. ASSUME NEW c \in Client,
             UploadInsert(c) \/ WriteFileInsert(c) \/ IdvInsert(c) \/ TouchInsert(c)
      PROVE  TurnInv'
  BY <1>1, <1>3, UploadBeginsIs, SendTurns
<1>4. ASSUME NEW c \in Client, NEW num, NEW blockRows, NEW chunkRows, NEW contents,
             pc[c] = "await", sent[c] = {}, Confirm(c, num, blockRows, chunkRows, contents)
      PROVE  TurnInv'
  <2>1. Changing(c) /\ pc[c] # "format"
    BY <1>4 DEF Changing
  <2>2. Target(c) = {F(c)} /\ F(c) \in File
    BY <1>1, <2>1, TargetIs DEF TurnInv
  <2>3. /\ UNCHANGED sent /\ pc' = [pc EXCEPT ![c] = "idle"] /\ job' = [job EXCEPT ![c] = NoJob]
        /\ promise' = [promise EXCEPT ![F(c)] = contents]
    BY <1>4 DEF Confirm, Return, Goto
  <2>4. \A f \in File : promise'[f] = promise[f] \/ (Changing(c) /\ f \in Target(c))
    BY <1>1, <2>1, <2>2, <2>3 DEF Shape
  <2> QED BY <1>1, <1>4, <2>3, <2>4, EndTurns
<1>5. ASSUME NEW c \in Client,
             UploadConfirm(c) \/ WriteFileConfirm(c) \/ IdvConfirm(c) \/ TouchConfirm(c)
      PROVE  TurnInv'
  BY <1>4, <1>5 DEF UploadConfirm, WriteFileConfirm, ConfirmChunks, IdvConfirm, TouchConfirm
<1>6. ASSUME NEW c \in Client, RemoveFile(c) \/ FormatReturn(c) PROVE TurnInv'
  <2>1. /\ pc[c] \in {"delete", "format"} /\ UNCHANGED sent
        /\ pc' = [pc EXCEPT ![c] = "idle"] /\ job' = [job EXCEPT ![c] = NoJob]
        /\ \/ UNCHANGED promise
           \/ pc[c] = "delete" /\ promise' = [promise EXCEPT ![F(c)] = Gone]
           \/ pc[c] = "format" /\ promise' = [f \in File |-> Gone]
    BY <1>6 DEF RemoveFile, FormatReturn, Return, Goto
  <2>2. sent[c] = {} /\ Changing(c) /\ (pc[c] = "format" => job[c].op = "format")
    BY <1>1, <2>1 DEF TurnInv, Posting, Changing, InCall
  <2>3. pc[c] = "delete" => Target(c) = {F(c)}
    BY <1>1, <2>2, TargetIs DEF TurnInv
  <2>4. pc[c] = "format" => Target(c) = File
    BY <2>2 DEF Target
  <2>5. \A f \in File : promise'[f] = promise[f] \/ (Changing(c) /\ f \in Target(c))
    BY <1>1, <2>1, <2>2, <2>3, <2>4 DEF Shape
  <2> QED BY <1>1, <2>1, <2>2, <2>5, EndTurns
<1>7. ASSUME NEW c \in Client, ServeBlock(c) \/ DownloadDescribe(c) \/ DownloadBlock(c)
                               \/ DownloadReturn(c) \/ RemoveBlock(c) \/ FormatNode(c) \/ DownloadDies(c) \/ Crash(c)
      PROVE  TurnInv'
  <2>1. /\ UNCHANGED promise
        /\ \A d \in Client \ {c} : pc'[d] = pc[d] /\ job'[d] = job[d] /\ sent'[d] = sent[d]
        /\ sent'[c] \subseteq sent[c]
        /\ \/ pc'[c] = pc[c] /\ job'[c] = job[c]
           \/ pc[c] = "describe" /\ pc'[c] = "read" /\ job'[c] = job[c]
           \/ pc[c] = "read" /\ pc'[c] = "idle"
           \/ pc[c] \notin {"idle", "crashed"} /\ pc'[c] = "crashed" /\ job'[c] = job[c]
    BY <1>1, <1>7 DEF Shape, ServeBlock, DownloadDescribe, DownloadBlock, DownloadReturn, RemoveBlock,
                      FormatNode, Crash, DownloadDies, Dies, Goto, Return
  <2>2. sent[c] # {} => pc[c] \in {"await", "crashed"}
    BY DEF TurnInv, Posting
  <2>3. Busy(c)' => job'[c] = job[c] /\ Busy(c)
    BY <2>1, <2>2 DEF Busy, Active
  <2>4. sent'[c] # {} => pc'[c] \in {"await", "crashed"}
    BY <2>1, <2>2
  <2>5. Pending(c)' => Pending(c)
    BY <2>1 DEF Pending
  <2> QED BY <2>1, <2>3, <2>4, <2>5, TurnsOn
<1>8. ASSUME UNCHANGED <<pc, job, sent, promise>> PROVE TurnInv'
  BY <1>8 DEF TurnInv, BusyTurns, Busy, Active, FilesOf, Posting, OwnPost, F, NothingPending,
              Pending, Target
<1>9. CASE Replicate \/ UNCHANGED vars
  BY <1>8, <1>9 DEF Replicate, client, vars
<1> QED BY <1>2, <1>3, <1>5, <1>6, <1>7, <1>9 DEF Next, Step

\* Nobody has begun at the start.
LEMMA InitTurns == Init => TurnInv
<1> SUFFICES ASSUME Init PROVE TurnInv
  OBVIOUS
<1>1. \A c \in Client : pc[c] = "idle" /\ sent[c] = {}
  BY DEF Init
<1> QED BY <1>1 DEF TurnInv, BusyTurns, Busy, Active, Posting, NothingPending, Pending
-----------------------------------------------------------------------------
(* The rows of files that exist, and those that are being uploaded.        *)

OwnRows == \A n \in Node : db[n].block \in Seq(OwnRow)
Blank   == \A f \in File : ~Exists(f) => NoRows(db[Home[f]], f)
Awaiting == \A c \in Client : pc[c] = "await" =>
    /\ F(c) \in DOMAIN db[L(c)].file
    /\ IF job[c].op = "touch" THEN loc[c].key[L(c)] = L(c) ELSE KeysOwn(c, F(c))
Deleting == \A c \in Client : pc[c] = "delete" =>
    Len(loc[c].fd.blocks) \in Nat /\ OwnBlocks(loc[c].fd.blocks, F(c))

TableInv == OwnRows /\ Blank /\ Awaiting /\ Deleting

\* Nothing is asked for.
LEMMA OnlyNone == ASSUME NEW T, NEW rows \in Seq(T) PROVE Only(rows, {}) = <<>>
<1> DEFINE s == Only(rows, {})
<1>1. s \in Seq(T) /\ \A r : ~(r \in Range(s))
  BY OnlyFacts
<1> HIDE DEF s
<1>2. \A x \in 1 .. Len(s) : s[x] \in Range(s)
  BY <1>1 DEF Range
<1>3. s = <<>>
  BY <1>1, <1>2
<1> QED BY <1>3 DEF s

\* Other files' rows stay when those of one are confirmed,
LEMMA ConfirmedOthers ==
    ASSUME NEW d, Tables(d), d.block \in Seq(OwnRow), NEW f \in File, NEW num,
           NEW blockRows \in Seq(BRowOf(f)), NEW chunkRows \in Seq(CRowOf(f)),
           blockRows \in Seq(OwnRow), NEW e, e = Confirmed(d, f, num, blockRows, chunkRows)
    PROVE  /\ e.block \in Seq(OwnRow)
           /\ \A g : g # f /\ NoRows(d, g) => NoRows(e, g)
<1>1. e.block = InsertAll(d.block, blockRows) /\ e.chunk = InsertAll(d.chunk, chunkRows)
  BY DEF Confirmed
<1>2. e.block \in Seq(OwnRow)
  <2> DEFINE Q == {}
             T == OwnRow
  <2>1. d.block \in Seq(T) /\ blockRows \in Seq(T)
        /\ \A j \in 1 .. Len(blockRows) : blockRows[j] \notin Q /\ \A r \in Q : r.name # blockRows[j].name
    OBVIOUS
  <2> HIDE DEF Q, T
  <2>2. InsertAll(d.block, blockRows) \in Seq(T)
    BY ONLY <2>1, InsertAllElsewhere
  <2> QED BY <1>1, <2>2 DEF T
<1>3. ASSUME NEW g, g # f, NoRows(d, g) PROVE NoRows(e, g)
  <2> DEFINE Q == OfFileIn(CRow, g)
  <2>0. SameRows(d, e, g)
    BY <1>3, ConfirmedSame
  <2>1. OfFile(e.block, g) = <<>>
    BY ONLY <1>3, <2>0 DEF NoRows, SameRows
  <2>2. d.chunk \in Seq(CRow) /\ chunkRows \in Seq(CRow)
    BY DEF Tables, CRowOf
  <2>3. ASSUME NEW j \in 1 .. Len(chunkRows)
        PROVE  chunkRows[j] \notin Q /\ \A r \in Q : r.name # chunkRows[j].name
    <3>1. chunkRows[j].file = f /\ chunkRows[j].name \in ChunkNames(f)
      BY DEF CRowOf, CRow
    <3>2. \A r \in Q : r.name \in ChunkNames(g) /\ r.file = g
      BY DEF CRow, OfFileIn
    <3> HIDE DEF Q
    <3> QED BY <1>3, <3>1, <3>2, OneFileOfChunk
  <2>4. \A j \in 1 .. Len(chunkRows) : chunkRows[j] \notin Q /\ \A r \in Q : r.name # chunkRows[j].name
    BY <2>3
  <2> HIDE DEF Q
  <2>5. Only(InsertAll(d.chunk, chunkRows), Q) = Only(d.chunk, Q)
    BY ONLY <2>2, <2>4, InsertAllElsewhere
  <2> QED BY <1>1, <1>3, <2>1, <2>5 DEF NoRows, Q
<1> QED BY <1>2, <1>3

\* or deleted.
LEMMA DeletedRowsGone ==
    ASSUME NEW d, Tables(d), d.block \in Seq(OwnRow), NEW f
    PROVE  /\ Deleted(d, f).block \in Seq(OwnRow) /\ NoRows(Deleted(d, f), f)
           /\ \A g : g # f /\ NoRows(d, g) => NoRows(Deleted(d, f), g)
<1> DEFINE e == Deleted(d, f)
           C == CRow \ OfFileIn(CRow, f)
           B == BRow \ OfFileIn(BRow, f)
<1>1. /\ e.block = NotOfFile(d.block, f) /\ e.chunk = NotOfFile(d.chunk, f)
  BY DEF Deleted
<1>2. Tables(e) /\ \A g : g # f => SameRows(d, e, g)
  BY DeletedSame
<1> HIDE DEF e
<1>3. /\ d.chunk \in Seq(CRow) /\ d.block \in Seq(BRow)
      /\ e.chunk = Only(d.chunk, C) /\ e.block = Only(d.block, B)
  BY <1>1, WhereFile DEF Tables
<1>4. \A Q : Only(e.chunk, Q) = Only(d.chunk, C \cap Q) /\ Only(e.block, Q) = Only(d.block, B \cap Q)
  <2> HIDE DEF C, B
  <2> QED BY <1>3, OnlyFacts
<1>5. e.block \in Seq(OwnRow)
  <2>1. e.block = Only(d.block, OwnRow \ OfFileIn(OwnRow, f))
    BY <1>1, WhereFile
  <2> QED BY <2>1, OnlyFacts
<1>6. NoRows(e, f)
  <2>1. C \cap OfFileIn(CRow, f) = {} /\ B \cap OfFileIn(BRow, f) = {}
    OBVIOUS
  <2>2. Only(d.chunk, {}) = <<>> /\ Only(d.block, {}) = <<>>
    BY <1>3, OnlyNone
  <2>3. OfFile(e.block, f) = Only(e.block, OfFileIn(BRow, f))
    BY <1>2, WhereFile DEF Tables
  <2> HIDE DEF C, B
  <2> QED BY <1>4, <2>1, <2>2, <2>3 DEF NoRows
<1>7. ASSUME NEW g, g # f, NoRows(d, g) PROVE NoRows(e, g)
  <2>1. C \cap OfFileIn(CRow, g) = OfFileIn(CRow, g)
    BY <1>7 DEF OfFileIn
  <2>2. OfFile(e.block, g) = <<>>
    BY <1>2, <1>7 DEF NoRows, SameRows
  <2> HIDE DEF C
  <2> QED BY <1>4, <1>7, <2>1, <2>2 DEF NoRows
<1> QED BY <1>5, <1>6, <1>7 DEF e

\* A leader's answer is what its tables say.
LEMMA ReplyIs ==
    ASSUME ArrangementInv, NEW f \in File
    PROVE  FileReply(Home[f], f, FALSE) = Description(db[Home[f]], f)
BY HomeAssumption DEF ArrangementInv, KeptFresh, FileReply

\* The rows of an upload: keys, names and files are its own.
LEMMA ConfirmedRowsOwn ==
    ASSUME Spread, TypeInv, Awaiting, NEW c \in Client, pc[c] = "await"
    PROVE  /\ F(c) \in File /\ L(c) = Home[F(c)] /\ Home[F(c)] \in Node /\ Few(c, F(c)) /\ Chunks[c] # 1
           /\ job[c].op = "touch" => loc[c].key[L(c)] = Home[F(c)]
           /\ job[c].op # "touch" =>
                /\ KeysOwn(c, F(c))
                /\ UploadBlockRows(c, F(c)) \in Seq(BRowOf(F(c)))
                /\ UploadBlockRows(c, F(c)) \in Seq(OwnRow)
                /\ UploadChunkRows(c, F(c)) \in Seq(CRowOf(F(c)))
                /\ IdvChunkRows(c, F(c)) \in Seq(CRowOf(F(c)))
           /\ <<TouchRow(F(c), Home[F(c)])>> \in Seq(BRowOf(F(c)))
           /\ <<TouchRow(F(c), Home[F(c)])>> \in Seq(OwnRow)
           /\ <<TouchChunk(F(c))>> \in Seq(CRowOf(F(c)))
<1>1. Shape /\ InCall /\ Local(c) /\ Active(c)
  BY LocalShape DEF Active
<1> DEFINE f == F(c)
<1>2. f \in File /\ L(c) = Home[f] /\ Home[f] \in Node
  BY <1>1, OwnFile
<1> HIDE DEF f
<1>3. Few(c, f) /\ Chunks[c] # 1
  BY <1>2, FewOf
<1>4. ASSUME job[c].op # "touch"
      PROVE  /\ KeysOwn(c, f)
             /\ UploadBlockRows(c, f) \in Seq(BRowOf(f)) /\ UploadBlockRows(c, f) \in Seq(OwnRow)
             /\ UploadChunkRows(c, f) \in Seq(CRowOf(f)) /\ IdvChunkRows(c, f) \in Seq(CRowOf(f))
  <2>1. KeysOwn(c, f) /\ Keyed(c, f)
    BY <1>1, <1>4 DEF Awaiting, Local, f
  <2>2. UploadedRow(f) \subseteq CRowOf(f)
    BY DEF UploadedRow
  <2>3. UploadBlockRows(c, f) \in Seq(BRowOf(f)) /\ UploadChunkRows(c, f) \in Seq(CRowOf(f))
        /\ IdvChunkRows(c, f) \in Seq(CRowOf(f))
    <3>1. UploadChunkRows(c, f) \in Seq(CRowOf(f))
      BY <1>2, <2>2, UploadChunkRowsAre
    <3> QED BY <1>2, <2>1, <3>1, UploadBlockRowsAre, IdvChunkRowsAre
  <2>4. UploadBlockRows(c, f) \in Seq(OwnRow)
    <3> DEFINE rows == UploadBlockRows(c, f)
               n == Chunks[c]
    <3>1. rows = [j \in 1 .. n |-> BRowOn(Nth(c, f, j), f)]
      BY <1>3, <2>1, BlockRowsAre
    <3>2. n \in Nat
      BY ChunksAssumption
    <3>3. DOMAIN rows = 1 .. n /\ \A j \in 1 .. n : rows[j] = BRowOn(Nth(c, f, j), f)
      BY <3>1
    <3>4. \A j \in 1 .. n : rows[j] \in BRow
      <4>1. rows \in Seq(BRowOf(f))
        BY <2>3
      <4> HIDE DEF rows
      <4> QED BY <3>2, <3>3, <4>1 DEF BRowOf
    <3> HIDE DEF rows
    <3>5. \A j \in 1 .. n : rows[j].key = rows[j].name[2]
      BY <3>3, RowFields DEF PrimaryName
    <3>6. \A j \in 1 .. n : rows[j] \in OwnRow
      BY <3>4, <3>5 DEF OwnRow
    <3>7. rows \in [1 .. n -> OwnRow]
      <4>1. rows = [j \in DOMAIN rows |-> rows[j]]
        BY <3>1 DEF rows
      <4> QED BY <3>3, <3>6, <4>1
    <3> QED BY <3>2, <3>7 DEF rows
  <2> QED BY <2>1, <2>3, <2>4
<1>5. job[c].op = "touch" => loc[c].key[L(c)] = Home[f]
  BY <1>2 DEF Awaiting
<1>6. TouchRow(f, Home[f]) \in BRowOf(f) /\ TouchChunk(f) \in CRowOf(f)
  <2>1. TouchName(f) \in NameOf(f) /\ ChunkName(f, 0) \in ChunkNames(f)
    BY DEF NameOf, ChunkNames
  <2> QED BY <1>2, <2>1, BlockRowIs, ChunkRowIs DEF TouchRow, TouchChunk
<1>7. TouchRow(f, Home[f]) \in OwnRow
  <2>1. TouchRow(f, Home[f]).key = Home[f] /\ TouchRow(f, Home[f]).name = TouchName(f)
    BY DEF TouchRow, BlockRow
  <2> QED BY <1>6, <2>1 DEF OwnRow, BRowOf, TouchName
<1>8. <<TouchRow(f, Home[f])>> \in Seq(BRowOf(f)) /\ <<TouchRow(f, Home[f])>> \in Seq(OwnRow)
      /\ <<TouchChunk(f)>> \in Seq(CRowOf(f))
  BY <1>6, <1>7
<1> QED BY <1>2, <1>3, <1>4, <1>5, <1>8 DEF f

\* A step that leaves the tables alone.
LEMMA TablesStay ==
    ASSUME TableInv, UNCHANGED db,
           \A d \in Client : pc'[d] = "await" =>
               pc[d] = "await" /\ job'[d] = job[d] /\ loc'[d].key = loc[d].key,
           \A d \in Client : pc'[d] = "delete" =>
               \/ pc[d] = "delete" /\ job'[d] = job[d] /\ loc'[d].fd = loc[d].fd
               \/ Len(loc'[d].fd.blocks) \in Nat /\ OwnBlocks(loc'[d].fd.blocks, job'[d].file)
    PROVE  TableInv'
<1>1. OwnRows' /\ Blank'
  BY DEF TableInv, OwnRows, Blank, Exists
<1>2. Awaiting'
  <2> SUFFICES ASSUME NEW d \in Client, pc'[d] = "await"
               PROVE  /\ F(d)' \in DOMAIN db[L(d)'].file
                      /\ IF job'[d].op = "touch" THEN loc'[d].key[L(d)'] = L(d)'
                         ELSE KeysOwn(d, F(d))'
    BY DEF Awaiting
  <2>1. /\ pc[d] = "await" /\ job'[d] = job[d] /\ loc'[d].key = loc[d].key
        /\ F(d)' = F(d) /\ L(d)' = L(d)
    BY DEF F, L
  <2> QED BY <2>1 DEF TableInv, Awaiting, KeysOwn
<1>3. Deleting'
  <2> SUFFICES ASSUME NEW d \in Client, pc'[d] = "delete"
               PROVE  Len(loc'[d].fd.blocks) \in Nat /\ OwnBlocks(loc'[d].fd.blocks, job'[d].file)
    BY DEF Deleting, F, OwnBlocks
  <2> QED BY DEF TableInv, Deleting, F
<1> QED BY <1>1, <1>2, <1>3 DEF TableInv

\* A step in which a leader changes its tables for one client.
LEMMA TablesTurn ==
    ASSUME TableInv, Shape, NEW c \in Client, NEW n \in Node, NEW e, db' = [db EXCEPT ![n] = e],
           e.block \in Seq(OwnRow),
           \A g \in File : Home[g] = n /\ ~FileTableExists(e, g) => NoRows(e, g),
           \A d \in Client \ {c} : pc'[d] = pc[d] /\ job'[d] = job[d] /\ loc'[d] = loc[d],
           \A d \in Client \ {c} : pc[d] = "await" /\ L(d) = n => F(d) \in DOMAIN e.file,
           pc'[c] # "delete",
           pc'[c] = "await" =>
               /\ job'[c] = job[c] /\ L(c) = n /\ F(c) \in DOMAIN e.file
               /\ IF job[c].op = "touch" THEN loc'[c].key[L(c)] = L(c)
                  ELSE \A s \in Used(c, F(c)) : loc'[c].key[s] = s
    PROVE  TableInv'
<1>1. \A m \in Node : db'[m] = IF m = n THEN e ELSE db[m]
  BY DEF Shape
<1>2. OwnRows'
  BY <1>1 DEF TableInv, OwnRows
<1>3. Blank'
  <2> SUFFICES ASSUME NEW g \in File, ~FileTableExists(db'[Home[g]], g)
               PROVE  NoRows(db'[Home[g]], g)
    BY DEF Blank, Exists, NoRows
  <2>1. Home[g] \in Node
    BY HomeAssumption
  <2> QED BY <1>1, <2>1 DEF TableInv, Blank, Exists
<1>4. Awaiting'
  <2> SUFFICES ASSUME NEW d \in Client, pc'[d] = "await"
               PROVE  /\ F(d)' \in DOMAIN db'[L(d)'].file
                      /\ IF job'[d].op = "touch" THEN loc'[d].key[L(d)'] = L(d)'
                         ELSE KeysOwn(d, F(d))'
    BY DEF Awaiting
  <2>1. job'[d] = job[d] /\ F(d)' = F(d) /\ L(d)' = L(d)
    BY DEF F, L
  <2>2. CASE d = c
    BY <1>1, <2>1, <2>2 DEF KeysOwn
  <2>3. CASE d # c
    <3>1. pc[d] = "await" /\ loc'[d] = loc[d]
      BY <2>3
    <3>2. F(d) \in DOMAIN db[L(d)].file
          /\ IF job[d].op = "touch" THEN loc[d].key[L(d)] = L(d) ELSE KeysOwn(d, F(d))
      BY <3>1 DEF TableInv, Awaiting
    <3>3. F(d) \in DOMAIN db'[L(d)].file
      <4>1. L(d) \in DOMAIN db' => db'[L(d)] = IF L(d) = n THEN e ELSE db[L(d)]
        BY <1>1 DEF Shape
      <4>2. db'[L(d)] = IF L(d) = n THEN e ELSE db[L(d)]
        BY DEF Shape
      <4> QED BY <2>3, <3>1, <3>2, <4>2
    <3> QED BY <2>1, <3>1, <3>2, <3>3 DEF KeysOwn
  <2> QED BY <2>2, <2>3
<1>5. Deleting'
  <2> SUFFICES ASSUME NEW d \in Client, pc'[d] = "delete"
               PROVE  Len(loc'[d].fd.blocks) \in Nat /\ OwnBlocks(loc'[d].fd.blocks, F(d)')
    BY DEF Deleting, OwnBlocks
  <2>1. d # c /\ pc[d] = "delete" /\ loc'[d] = loc[d] /\ F(d)' = F(d)
    BY DEF F
  <2> QED BY <2>1 DEF TableInv, Deleting
<1> QED BY <1>2, <1>3, <1>4, <1>5 DEF TableInv

\* An upload begins,
LEMMA BeginTables ==
    ASSUME TableInv, TypeInv, NEW c \in Client, UploadBegins(c) PROVE TableInv'
<1>1. /\ Shape /\ InCall /\ pc[c] = "insert" /\ Active(c)
      /\ pc' = [pc EXCEPT ![c] = "await"] /\ UNCHANGED job
      /\ \A d \in Client \ {c} : loc'[d] = loc[d]
      /\ IF job[c].op = "touch" THEN loc'[c].key[L(c)] = L(c)
         ELSE \A s \in Used(c, F(c)) : loc'[c].key[s] = s
  BY LocalShape DEF UploadBegins, Active
<1> PICK row : row.uploading = 1 /\ FileInsert(L(c), F(c), row)
  BY DEF UploadBegins
<1> DEFINE f == F(c)
           n == Home[f]
           e == Inserted(db[n], f, row)
<1>a. f \in File /\ n \in Node /\ L(c) = n
  BY <1>1, OwnFile
<1>2. db' = [db EXCEPT ![n] = e]
  BY DEF FileInsert, L
<1>3. /\ e.block = db[n].block /\ e.chunk = db[n].chunk /\ f \in DOMAIN e.file
      /\ \A g : g \in DOMAIN db[n].file => g \in DOMAIN e.file
      /\ \A g : FileTableExists(db[n], g) => FileTableExists(e, g)
  BY <1>1, <1>a DEF Shape, Inserted, FileTableInsert, WithRow, FileTableExists
<1> HIDE DEF e, n
<1>4. \A g \in File : Home[g] = n /\ ~FileTableExists(e, g) => NoRows(e, g)
  BY <1>a, <1>3 DEF TableInv, Blank, Exists, NoRows, n
<1>5. e.block \in Seq(OwnRow)
  BY <1>a, <1>3 DEF TableInv, OwnRows
<1>6. \A d \in Client \ {c} : pc[d] = "await" /\ L(d) = n => F(d) \in DOMAIN e.file
  BY <1>3 DEF TableInv, Awaiting
<1>7. /\ pc'[c] = "await" /\ job'[c] = job[c]
      /\ \A d \in Client \ {c} : pc'[d] = pc[d] /\ job'[d] = job[d] /\ loc'[d] = loc[d]
  BY <1>1 DEF Shape
<1>8. pc'[c] = "await" =>
          /\ job'[c] = job[c] /\ L(c) = n /\ F(c) \in DOMAIN e.file
          /\ IF job[c].op = "touch" THEN loc'[c].key[L(c)] = L(c)
             ELSE \A s \in Used(c, F(c)) : loc'[c].key[s] = s
  BY <1>1, <1>a, <1>3, <1>7
<1>9. c \in Client /\ n \in Node /\ Shape /\ pc'[c] # "delete"
  BY <1>1, <1>a, <1>7
<1> HIDE DEF f
<1>10. \A d \in Client \ {c} : pc'[d] = pc[d] /\ job'[d] = job[d] /\ loc'[d] = loc[d]
  BY <1>7
<1> QED BY ONLY TableInv, <1>9, <1>2, <1>4, <1>5, <1>6, <1>10, <1>8, TablesTurn

\* an upload ends,
LEMMA ConfirmTables ==
    ASSUME TableInv, TypeInv, Spread, NEW c \in Client, pc[c] = "await",
           NEW num, NEW blockRows \in Seq(BRowOf(F(c))), NEW chunkRows \in Seq(CRowOf(F(c))),
           blockRows \in Seq(OwnRow), NEW contents, Confirm(c, num, blockRows, chunkRows, contents)
    PROVE  TableInv'
<1>1. /\ Shape /\ InCall /\ Active(c) /\ pc' = [pc EXCEPT ![c] = "idle"]
      /\ job' = [job EXCEPT ![c] = NoJob] /\ loc' = [loc EXCEPT ![c] = NoLocals]
  BY LocalShape DEF Confirm, Return, Goto, Active
<1> DEFINE f == F(c)
           n == Home[f]
           e == Confirmed(db[n], f, num, blockRows, chunkRows)
<1>a. f \in File /\ n \in Node /\ L(c) = n
  BY <1>1, OwnFile
<1>2. db' = [db EXCEPT ![n] = e]
  BY DEF Confirm, FileInsertConfirm, L
<1>3. Tables(db[n]) /\ db[n].block \in Seq(OwnRow)
  BY <1>a DEF TypeInv, Catalog, RowsIn, TableInv, OwnRows
<1>4. f \in DOMAIN db[n].file
  BY <1>a DEF TableInv, Awaiting
<1>5. DOMAIN e.file = DOMAIN db[n].file /\ FileTableExists(e, f)
      /\ \A g : g # f => (FileTableExists(e, g) <=> FileTableExists(db[n], g))
  <2>1. e.file = FileTableConfirm(db[n].file, f, num, Len(blockRows))
    BY DEF Confirmed
  <2>2. \A g \in DOMAIN db[n].file : DOMAIN db[n].file[f] # {} => TRUE
    OBVIOUS
  <2>3. f \in DOMAIN db[n].file => "uploading" \in DOMAIN db[n].file[f]
    BY <1>a DEF TypeInv, Catalog, RowsIn, FileRows
  <2> HIDE DEF e
  <2> QED BY <1>4, <2>1, <2>3 DEF FileTableConfirm, FileTableExists
<1>6. e.block \in Seq(OwnRow) /\ \A g : g # f /\ NoRows(db[n], g) => NoRows(e, g)
  <2> DEFINE d == db[n]
  <2>1. Tables(d) /\ d.block \in Seq(OwnRow) /\ f \in File
        /\ blockRows \in Seq(BRowOf(f)) /\ chunkRows \in Seq(CRowOf(f)) /\ blockRows \in Seq(OwnRow)
        /\ e = Confirmed(d, f, num, blockRows, chunkRows)
    BY <1>3, <1>a
  <2>2. e.block \in Seq(OwnRow) /\ \A g : g # f /\ NoRows(d, g) => NoRows(e, g)
    <3> HIDE DEF d, f, e, n
    <3> QED BY ONLY <2>1, ConfirmedOthers
  <2> QED BY <2>2
<1> HIDE DEF e, n
<1>7. \A g \in File : Home[g] = n /\ ~FileTableExists(e, g) => NoRows(e, g)
  BY <1>a, <1>5, <1>6 DEF TableInv, Blank, Exists
<1>8. \A d \in Client \ {c} : pc[d] = "await" /\ L(d) = n => F(d) \in DOMAIN e.file
  BY <1>5 DEF TableInv, Awaiting
<1>9. /\ pc'[c] = "idle"
      /\ \A d \in Client \ {c} : pc'[d] = pc[d] /\ job'[d] = job[d] /\ loc'[d] = loc[d]
  BY <1>1 DEF Shape
<1>10. c \in Client /\ n \in Node /\ Shape /\ pc'[c] # "delete" /\ pc'[c] # "await"
  BY <1>1, <1>a, <1>9
<1> HIDE DEF f
<1> QED BY ONLY TableInv, <1>10, <1>2, <1>6, <1>7, <1>8, <1>9, TablesTurn

\* a file is deleted,
LEMMA DeleteTables ==
    ASSUME TableInv, TypeInv, TurnInv, OneAtATime, NEW c \in Client, RemoveFile(c)
    PROVE  TableInv'
<1>1. /\ Shape /\ InCall /\ Active(c) /\ pc[c] = "delete" /\ pc' = [pc EXCEPT ![c] = "idle"]
      /\ job' = [job EXCEPT ![c] = NoJob] /\ loc' = [loc EXCEPT ![c] = NoLocals]
      /\ FileDelete(L(c), F(c)) \/ UNCHANGED db
  BY LocalShape DEF RemoveFile, Return, Goto, Active, servers
<1>2. /\ pc'[c] = "idle"
      /\ \A d \in Client \ {c} : pc'[d] = pc[d] /\ job'[d] = job[d] /\ loc'[d] = loc[d]
  BY <1>1 DEF Shape
<1>3. CASE UNCHANGED db
  <2>1. \A d \in Client : pc'[d] = "await" =>
               pc[d] = "await" /\ job'[d] = job[d] /\ loc'[d].key = loc[d].key
    BY <1>2
  <2>2. \A d \in Client : pc'[d] = "delete" =>
               pc[d] = "delete" /\ job'[d] = job[d] /\ loc'[d].fd = loc[d].fd
    BY <1>2
  <2> QED BY <1>3, <2>1, <2>2, TablesStay
<1>4. CASE FileDelete(L(c), F(c))
  <2> DEFINE f == F(c)
             n == Home[f]
             e == Deleted(db[n], f)
  <2>1. f \in File /\ n \in Node /\ L(c) = n
    BY <1>1, OwnFile
  <2>2. db' = [db EXCEPT ![n] = e]
    BY <1>4 DEF FileDelete, L
  <2>3. Tables(db[n]) /\ db[n].block \in Seq(OwnRow)
    BY <2>1 DEF TypeInv, Catalog, RowsIn, TableInv, OwnRows
  <2>4. /\ e.block \in Seq(OwnRow) /\ NoRows(e, f)
        /\ \A g : g # f /\ NoRows(db[n], g) => NoRows(e, g)
    <3> DEFINE d == db[n]
    <3>1. Tables(d) /\ d.block \in Seq(OwnRow)
      BY <2>3
    <3> HIDE DEF d
    <3>2. Deleted(d, f).block \in Seq(OwnRow) /\ NoRows(Deleted(d, f), f)
          /\ \A g : g # f /\ NoRows(d, g) => NoRows(Deleted(d, f), g)
      BY <3>1, DeletedRowsGone
    <3> QED BY <3>2 DEF d
  <2>5. \A g : g # f => (g \in DOMAIN e.file <=> g \in DOMAIN db[n].file)
               /\ (FileTableExists(e, g) <=> FileTableExists(db[n], g))
    BY DEF Deleted, FileTableDelete, Restrict, FileTableExists
  <2> HIDE DEF e, n, f
  <2>6. \A g \in File : Home[g] = n /\ ~FileTableExists(e, g) => NoRows(e, g)
    BY <2>1, <2>4, <2>5 DEF TableInv, Blank, Exists
  <2>7. ASSUME NEW d \in Client \ {c}, pc[d] = "await", L(d) = n PROVE F(d) \in DOMAIN e.file
    <3>1. Changing(c) /\ Changing(d) /\ pc[c] # "format" /\ pc[d] # "format"
      BY <1>1, <2>7 DEF Changing
    <3>2. Target(c) = {f} /\ Target(d) = {F(d)}
      BY <1>1, <3>1, TargetIs DEF TurnInv, f
    <3>3. F(d) # f
      BY <1>1, <3>1, <3>2, OneTarget DEF TurnInv
    <3>4. F(d) \in DOMAIN db[n].file
      BY <2>7 DEF TableInv, Awaiting
    <3> QED BY <2>5, <3>3, <3>4
  <2>8. c \in Client /\ n \in Node /\ Shape /\ pc'[c] # "delete" /\ pc'[c] # "await"
    BY <1>1, <1>2, <2>1
  <2> QED BY ONLY TableInv, <2>8, <1>2, <2>2, <2>4, <2>6, <2>7, TablesTurn
<1> QED BY <1>1, <1>3, <1>4

\* or a node is formatted.
LEMMA FormatTables ==
    ASSUME TableInv, TypeInv, TurnInv, OneAtATime, NEW c \in Client, FormatNode(c)
    PROVE  TableInv'
<1>1. /\ Shape /\ InCall /\ Local(c) /\ Active(c) /\ pc[c] = "format" /\ UNCHANGED <<pc, job>>
      /\ loc[c].i <= N /\ loc' = [loc EXCEPT ![c].i = @ + 1]
      /\ db' = [db EXCEPT ![loc[c].i - 1] = EmptyDb]
  BY LocalShape DEF FormatNode, Active, Format
<1> DEFINE n == loc[c].i - 1
           e == EmptyDb
<1>2. n \in Node
  BY <1>1, NodesAssumption DEF Local, Node
<1>3. e.block \in Seq(OwnRow) /\ \A g : NoRows(e, g)
  <2>1. e.block = <<>> /\ e.chunk = <<>>
    BY DEF EmptyDb
  <2>2. \A g : OfFile(<<>>, g) = <<>> /\ Only(<<>>, OfFileIn(CRow, g)) = <<>>
    BY OnlyOfNone DEF OfFile
  <2> QED BY <2>1, <2>2 DEF NoRows
<1>4. ASSUME NEW d \in Client, pc[d] = "await" PROVE FALSE
  <2>1. Changing(c) /\ Changing(d) /\ pc[d] # "format"
    BY <1>1, <1>4 DEF Changing
  <2>2. Target(c) = File /\ Target(d) = {F(d)} /\ F(d) \in File
    BY <1>1, <2>1, TargetIs DEF TurnInv, InCall, Target
  <2> QED BY <1>1, <1>4, <2>1, <2>2, OneTarget DEF TurnInv
<1>5. \A d \in Client \ {c} : pc'[d] = pc[d] /\ job'[d] = job[d] /\ loc'[d] = loc[d]
  BY <1>1 DEF Shape
<1>6. db' = [db EXCEPT ![n] = e]
  BY <1>1
<1> HIDE DEF e, n
<1> QED BY <1>1, <1>2, <1>3, <1>4, <1>5, <1>6, TablesTurn

\* A client that is about to delete a file knows its own blocks.
LEMMA DeletesOwn ==
    ASSUME TableInv, TypeInv, ArrangementInv, NEW c \in Client, NEW j \in Job, RemoveDescribe(c, j)
    PROVE  /\ j.file \in File /\ UNCHANGED <<db, cache, disk, link, sent>>
           /\ pc' = [pc EXCEPT ![c] = "delete"] /\ job' = [job EXCEPT ![c] = j]
           /\ \A d \in Client \ {c} : loc'[d] = loc[d]
           /\ Len(loc'[c].fd.blocks) \in Nat /\ OwnBlocks(loc'[c].fd.blocks, j.file)
           /\ promise' = [promise EXCEPT ![j.file] = NoOne]
<1> PICK f \in File : f = j.file /\ Home[f] \in Node
  BY JobAssumption, HomeAssumption DEF RemoveDescribe
<1>1. FileReply(Home[f], f, FALSE) = Description(db[Home[f]], f)
  BY ReplyIs
<1>2. Tables(db[Home[f]]) /\ db[Home[f]].block \in Seq(OwnRow)
  BY DEF TypeInv, Catalog, RowsIn, TableInv, OwnRows
<1> DEFINE fd == Description(db[Home[f]], f)
<1>3. Len(fd.blocks) \in Nat /\ OwnBlocks(fd.blocks, f)
  BY <1>2, DescribedOwn
<1>4. /\ loc' = [loc EXCEPT ![c].fd = fd] /\ UNCHANGED <<db, disk, link, sent>>
      /\ pc' = [pc EXCEPT ![c] = "delete"] /\ job' = [job EXCEPT ![c] = j]
      /\ promise' = [promise EXCEPT ![f] = NoOne]
  BY <1>1 DEF RemoveDescribe, FileRequest, Enter, Goto
<1>5. UNCHANGED cache
  BY DEF RemoveDescribe, FileRequest
<1>6. Shape /\ DOMAIN loc[c] = DOMAIN NoLocals
  BY LocalShape DEF Local
<1> HIDE DEF fd
<1>7. loc'[c].fd = fd /\ \A d \in Client \ {c} : loc'[d] = loc[d]
  BY <1>4, <1>6 DEF Shape, NoLocals
<1> QED BY <1>3, <1>4, <1>5, <1>7

\* Every step keeps the tables,
LEMMA StepTables ==
    ASSUME Settings, TypeInv, ArrangementInv, TurnInv, TableInv, [Next]_vars PROVE TableInv'
<1>1. Shape /\ InCall /\ OneAtATime /\ OwnKeys /\ Spread /\ \A c \in Client : Local(c)
  BY LocalShape DEF Settings
<1>2. ASSUME NEW c \in Client, NEW j \in Job, Call(c, j) PROVE TableInv'
  <2>1. CASE RemoveDescribe(c, j)
    <3>1. /\ UNCHANGED db /\ pc' = [pc EXCEPT ![c] = "delete"] /\ job' = [job EXCEPT ![c] = j]
          /\ \A d \in Client \ {c} : loc'[d] = loc[d]
          /\ Len(loc'[c].fd.blocks) \in Nat /\ OwnBlocks(loc'[c].fd.blocks, j.file)
      BY <2>1, DeletesOwn
    <3>2. /\ pc'[c] = "delete" /\ job'[c] = j
          /\ \A d \in Client \ {c} : pc'[d] = pc[d] /\ job'[d] = job[d]
      BY <1>1, <3>1 DEF Shape
    <3> QED BY <3>1, <3>2, TablesStay
  <2>2. CASE ~RemoveDescribe(c, j)
    <3>1. UNCHANGED <<db, loc>> /\ \A d \in Client \ {c} : pc'[d] = pc[d] /\ job'[d] = job[d]
      BY <1>1, <1>2, <2>2 DEF Call, UploadExists, DownloadExists, Arrange, FormatBegin, FileRequest,
                              Enter, Goto, Shape, servers
    <3>2. pc'[c] \notin {"await", "delete"}
      BY <1>1, <1>2, <2>2 DEF Call, UploadExists, DownloadExists, Arrange, FormatBegin,
                              Enter, Goto, Shape, Calls
    <3> QED BY <3>1, <3>2, TablesStay
  <2> QED BY <2>1, <2>2
<1>3. ASSUME NEW c \in Client,
             UploadInsert(c) \/ WriteFileInsert(c) \/ IdvInsert(c) \/ TouchInsert(c)
      PROVE  TableInv'
  BY <1>1, <1>3, UploadBeginsIs, BeginTables
<1>4. ASSUME NEW c \in Client, NEW op, op # "touch", ConfirmChunks(c, op) \/ IdvConfirm(c)
      PROVE  TableInv'
  <2>1. pc[c] = "await" /\ job[c].op # "touch"
    BY <1>4 DEF ConfirmChunks, IdvConfirm
  <2>2. /\ UploadBlockRows(c, F(c)) \in Seq(BRowOf(F(c))) /\ UploadBlockRows(c, F(c)) \in Seq(OwnRow)
        /\ UploadChunkRows(c, F(c)) \in Seq(CRowOf(F(c)))
        /\ IdvChunkRows(c, F(c)) \in Seq(CRowOf(F(c)))
    BY <1>1, <2>1, ConfirmedRowsOwn DEF TableInv
  <2> QED BY <1>1, <1>4, <2>1, <2>2, ConfirmTables DEF ConfirmChunks, IdvConfirm
<1>5. ASSUME NEW c \in Client, TouchConfirm(c) PROVE TableInv'
  <2>1. pc[c] = "await" /\ job[c].op = "touch"
    BY <1>5 DEF TouchConfirm
  <2>2. /\ loc[c].key[L(c)] = Home[F(c)] /\ L(c) = Home[F(c)]
        /\ <<TouchRow(F(c), Home[F(c)])>> \in Seq(BRowOf(F(c)))
        /\ <<TouchRow(F(c), Home[F(c)])>> \in Seq(OwnRow)
        /\ <<TouchChunk(F(c))>> \in Seq(CRowOf(F(c)))
    BY <1>1, <2>1, ConfirmedRowsOwn DEF TableInv
  <2>3. Confirm(c, 1, <<TouchRow(F(c), Home[F(c)])>>, <<TouchChunk(F(c))>>, <<>>)
    BY <1>5, <2>2 DEF TouchConfirm, TouchRow, TouchChunk
  <2> QED BY <1>1, <2>1, <2>2, <2>3, ConfirmTables
<1>6. ASSUME NEW c \in Client, RemoveFile(c) \/ FormatNode(c) PROVE TableInv'
  BY <1>1, <1>6, DeleteTables, FormatTables
<1>7. ASSUME NEW c \in Client, ServeBlock(c) \/ DownloadDescribe(c) \/ DownloadBlock(c)
                               \/ DownloadReturn(c) \/ RemoveBlock(c) \/ FormatReturn(c) \/ DownloadDies(c) \/ Crash(c)
      PROVE  TableInv'
  <2>1. UNCHANGED db
    BY <1>7 DEF ServeBlock, DownloadDescribe, DownloadBlock, DownloadReturn, RemoveBlock,
                FormatReturn, Crash, DownloadDies, Dies, FileRequest, servers
  <2>2. \A d \in Client \ {c} : pc'[d] = pc[d] /\ job'[d] = job[d] /\ loc'[d] = loc[d]
    BY <1>1, <1>7 DEF Shape, ServeBlock, DownloadDescribe, DownloadBlock, DownloadReturn,
                      RemoveBlock, FormatReturn, Crash, DownloadDies, Dies, Goto, Return
  <2>3. pc'[c] = "await" => pc[c] = "await" /\ job'[c] = job[c] /\ loc'[c].key = loc[c].key
    BY <1>1, <1>7 DEF Shape, ServeBlock, DownloadDescribe, DownloadBlock, DownloadReturn,
                      RemoveBlock, FormatReturn, Crash, DownloadDies, Dies, Goto, Return
  <2>4. pc'[c] = "delete" => pc[c] = "delete" /\ job'[c] = job[c] /\ loc'[c].fd = loc[c].fd
    BY <1>1, <1>7 DEF Shape, ServeBlock, DownloadDescribe, DownloadBlock, DownloadReturn,
                      RemoveBlock, FormatReturn, Crash, DownloadDies, Dies, Goto, Return, Local, NoLocals
  <2> QED BY <2>1, <2>2, <2>3, <2>4, TablesStay
<1>8. CASE Replicate \/ UNCHANGED vars
  <2>1. UNCHANGED <<db, pc, job, loc>>
    BY <1>8 DEF Replicate, vars, client, servers
  <2> QED BY <2>1, TablesStay
<1>9. \A c \in Client : /\ UploadConfirm(c) => ConfirmChunks(c, "put")
                        /\ WriteFileConfirm(c) => ConfirmChunks(c, "write_file")
  BY DEF UploadConfirm, WriteFileConfirm
<1> QED BY <1>2, <1>3, <1>4, <1>5, <1>6, <1>7, <1>8, <1>9 DEF Next, Step

\* which are empty at the start.
LEMMA InitTables == Init => TableInv
<1> SUFFICES ASSUME Init PROVE TableInv
  OBVIOUS
<1>1. /\ \A c \in Client : pc[c] = "idle"
      /\ \A n \in Node : db[n].block = <<>> /\ db[n].chunk = <<>>
  BY DEF Init, LeaderInit, EmptyDb
<1>2. \A g : OfFile(<<>>, g) = <<>> /\ Only(<<>>, OfFileIn(CRow, g)) = <<>>
  BY OnlyOfNone DEF OfFile
<1>3. \A f \in File : Home[f] \in Node
  BY HomeAssumption
<1>4. OwnRows /\ Awaiting /\ Deleting
  <2>1. <<>> \in Seq(OwnRow)
    OBVIOUS
  <2>2. Awaiting /\ Deleting
    BY <1>1 DEF Awaiting, Deleting
  <2> QED BY <1>1, <2>1, <2>2 DEF OwnRows
<1>5. ASSUME NEW f \in File PROVE NoRows(db[Home[f]], f)
  <2>1. db[Home[f]].block = <<>> /\ db[Home[f]].chunk = <<>>
    BY <1>1, <1>3
  <2> QED BY <1>2, <2>1 DEF NoRows
<1> QED BY <1>4, <1>5 DEF TableInv, Blank
-----------------------------------------------------------------------------
(* A primary file is on one node: the copies that its neighbours make have *)
(* its name, too, but are not what a client reads.                         *)

\* Handling this message, node n changes no primary file of its own.
Passing(t, n) == \A g \in File : t.name \in NameOf(g) => t.name[2] # n
Passes(s, n)  == \E T : s \in Seq(T) /\ \A t \in T : Passing(t, n)
Wired(links)  == DOMAIN links = Node \X Node
                 /\ \A m, n \in Node : Passes(links[<<m, n>>], n)
Wires == Wired(link)

\* send_and_replicate does not send to the node itself.
LEMMA SentWires ==
    ASSUME NEW links, Wired(links), N # 1, NEW n \in Node, NEW t,
           \A x \in Node \ {n} : Passing(t, x)
    PROVE  Wired(Sent(links, n, t))
<1>1. ASSUME NEW l, Wired(l), NEW x \in Node \ {n}
      PROVE  Wired([l EXCEPT ![<<n, x>>] = Append(@, t)])
  <2> DEFINE k == [l EXCEPT ![<<n, x>>] = Append(@, t)]
  <2>1. DOMAIN k = Node \X Node
    BY <1>1 DEF Wired
  <2>2. ASSUME NEW a \in Node, NEW b \in Node PROVE Passes(k[<<a, b>>], b)
    <3>1. k[<<a, b>>] = IF a = n /\ b = x THEN Append(l[<<a, b>>], t) ELSE l[<<a, b>>]
      BY <1>1 DEF Wired
    <3>2. Passes(l[<<a, b>>], b)
      BY <1>1 DEF Wired
    <3> HIDE DEF k
    <3>3. PICK T : l[<<a, b>>] \in Seq(T) /\ \A r \in T : Passing(r, b)
      BY <3>2 DEF Passes
    <3>4. CASE a = n /\ b = x
      <4> DEFINE s == l[<<a, b>>]
                 R == T \cup {t}
      <4>1. s \in Seq(R) /\ t \in R /\ k[<<a, b>>] = Append(s, t)
        BY <3>1, <3>3, <3>4
      <4>2. \A r \in R : Passing(r, b)
        BY <1>1, <3>3, <3>4
      <4> HIDE DEF R, s
      <4>3. k[<<a, b>>] \in Seq(R)
        BY <4>1
      <4> QED BY <4>2, <4>3 DEF Passes
    <3> QED BY <3>1, <3>2, <3>4
  <2> QED BY <2>1, <2>2 DEF Wired
<1>2. N \in Nat /\ n \in 0 .. N - 1 /\ N >= 2
  BY NodesAssumption DEF Node
<1>3. RightOf(n) \in Node \ {n} /\ LeftOf(n) \in Node \ {n}
  <2> DEFINE r == n + 1
             q == n - 1 + N
  <2>1. N \in Nat \ {0} /\ r \in 0 .. 2 * N - 1 /\ q \in 0 .. 2 * N - 1
    BY <1>2
  <2>2. r % N = IF r < N THEN r ELSE r - N
    <3> HIDE DEF r, q
    <3> QED BY ONLY <2>1, ModOnce
  <2>3. q % N = IF q < N THEN q ELSE q - N
    <3> HIDE DEF r, q
    <3> QED BY ONLY <2>1, ModOnce
  <2> QED BY <1>2, <2>2, <2>3 DEF RightOf, LeftOf, Node
<1> DEFINE once == [links EXCEPT ![<<n, RightOf(n)>>] = Append(@, t)]
<1>4. Wired(once)
  BY <1>1, <1>3
<1>5. Sent(links, n, t) = [once EXCEPT ![<<n, LeftOf(n)>>] = Append(@, t)]
  BY DEF Sent
<1> HIDE DEF once
<1> QED BY <1>1, <1>3, <1>4, <1>5

\* A file of one directory and of another are the same.
SameFile(a, b, p) == (p \in DOMAIN a <=> p \in DOMAIN b) /\ (p \in DOMAIN a => a[p] = b[p])

\* A block node's handler writes one file.
LEMMA AppliedElsewhere ==
    ASSUME NEW files, NEW m, m.op \in {"INSERT", "UPDATE", "DELETE"}, NEW p, p # m.name
    PROVE  SameFile(files, Applied(files, m), p)
<1>1. CASE m.op = "INSERT"
  BY <1>1 DEF Applied, Written, SameFile
<1>2. CASE m.op = "UPDATE"
  BY <1>2 DEF Applied, Updated, SameFile
<1>3. CASE m.op = "DELETE"
  BY <1>3 DEF Applied, Removed, Restrict, SameFile
<1> QED BY <1>1, <1>2, <1>3

\* What is read of a file is in that file.
LEMMA ReadSame ==
    ASSUME NEW a, NEW b, NEW p, SameFile(a, b, p), NEW pos, NEW len
    PROVE  ReadCells(a, p, pos, len) = ReadCells(b, p, pos, len)
<1> DEFINE Holes == [i \in 1 .. len |-> Zero]
<1>1. \A x : ReadCells(x, p, pos, len) =
          IF p \notin DOMAIN x \/ pos > Len(x[p]) THEN Holes
          ELSE IF pos = 0 /\ len = 0 THEN x[p]
          ELSE SubSeq(x[p], pos + 1, Min({pos + len, Len(x[p])}))
  BY DEF ReadCells
<1> HIDE DEF Holes
<1>2. CASE p \notin DOMAIN a
  BY <1>1, <1>2 DEF SameFile
<1>3. CASE p \in DOMAIN a
  <2>1. p \in DOMAIN b /\ a[p] = b[p]
    BY <1>3 DEF SameFile
  <2> QED BY <1>1, <1>3, <2>1
<1> QED BY <1>2, <1>3

\* The disks of the other nodes, and the other files, when one handles a message.
LEMMA HandledElsewhere ==
    ASSUME DOMAIN disk = Node, NEW n, NEW m, m.op \in {"INSERT", "UPDATE", "DELETE"},
           HandleBlock(n, m), NEW x \in Node, NEW p, x # n \/ p # m.name
    PROVE  SameFile(disk[x], disk'[x], p)
<1>1. disk'[x] = IF x = n THEN Applied(disk[x], m) ELSE disk[x]
  BY DEF HandleBlock
<1>2. CASE x = n
  BY <1>1, <1>2, AppliedElsewhere
<1>3. CASE x # n
  BY <1>1, <1>3 DEF SameFile
<1> QED BY <1>2, <1>3

\* A block that arrives is one of the upload's own, for its own node,
LEMMA Serves ==
    ASSUME TypeInv, TurnInv, NEW c \in Client, ServeBlock(c)
    PROVE  /\ Pending(c) /\ Changing(c) /\ Target(c) = {F(c)} /\ F(c) \in File
           /\ UNCHANGED <<db, cache, pc, job, calls, loc, promise>>
           /\ \E s \in sent[c] :
                /\ HandleBlock(s.to, s.msg) /\ sent' = [sent EXCEPT ![c] = @ \ {s}]
                /\ s.to \in Node /\ s.msg.op = "INSERT"
                /\ \A g \in File : s.msg.name \in NameOf(g) => g = F(c) /\ s.to = s.msg.name[2]
<1> PICK s \in sent[c] : HandleBlock(s.to, s.msg) /\ sent' = [sent EXCEPT ![c] = @ \ {s}]
  BY DEF ServeBlock
<1>1. Shape /\ InCall /\ s.to \in Node /\ OwnPost(s, F(c)) /\ pc[c] # "format"
  BY LocalShape DEF TypeInv, Stored, TurnInv, Posting
<1>2. Pending(c) /\ Changing(c)
  BY DEF Pending, Changing
<1>3. Target(c) = {F(c)} /\ F(c) \in File
  BY <1>1, <1>2, TargetIs DEF TurnInv
<1>4. UNCHANGED <<db, cache, pc, job, calls, loc, promise>>
  BY DEF ServeBlock
<1> QED BY <1>1, <1>2, <1>3, <1>4 DEF OwnPost

\* and so is one that is deleted.
LEMMA Removes ==
    ASSUME TypeInv, TurnInv, TableInv, NEW c \in Client, RemoveBlock(c)
    PROVE  /\ Pending(c) /\ Changing(c) /\ Target(c) = {F(c)} /\ F(c) \in File
           /\ UNCHANGED <<db, cache, pc, job, calls, sent, promise>>
           /\ \E n \in Node, p \in NameOf(F(c)) :
                n = p[2] /\ HandleBlock(n, Message("DELETE", p, 0, <<>>))
<1>1. Shape /\ InCall /\ pc[c] = "delete" /\ loc[c].i \in 1 .. Len(loc[c].fd.blocks) + 1
      /\ Len(loc[c].fd.blocks) \in Nat /\ OwnBlocks(loc[c].fd.blocks, F(c))
      /\ ~(loc[c].i > Len(loc[c].fd.blocks))
  BY LocalShape DEF RemoveBlock, Local, Finished, TableInv, Deleting
<1>2. Pending(c) /\ Changing(c)
  BY <1>1 DEF Pending, Changing
<1>3. Target(c) = {F(c)} /\ F(c) \in File
  BY <1>1, <1>2, TargetIs DEF TurnInv
<1> DEFINE b == loc[c].fd.blocks[loc[c].i]
<1>4. b.primary \in NameOf(F(c)) /\ b.key \in Node /\ b.key = b.primary[2]
  BY <1>1 DEF OwnBlocks
<1>5. HandleBlock(b.key, Message("DELETE", b.primary, 0, <<>>))
      /\ UNCHANGED <<db, cache, pc, job, calls, sent, promise>>
  BY DEF RemoveBlock, NextBlock
<1> HIDE DEF b
<1> QED BY <1>2, <1>3, <1>4, <1>5

\* Every step keeps the links free of a node's own files,
LEMMA StepWires ==
    ASSUME Spread, TypeInv, TurnInv, TableInv, Wires, [Next]_vars PROVE Wires'
<1>1. Shape /\ InCall /\ \A c \in Client : N # 1
  BY LocalShape, NodesAssumption DEF Spread
<1>2. ASSUME NEW c \in Client, ServeBlock(c) PROVE Wires'
  <2> PICK s \in sent[c] :
          /\ HandleBlock(s.to, s.msg) /\ s.to \in Node
          /\ \A g \in File : s.msg.name \in NameOf(g) => g = F(c) /\ s.to = s.msg.name[2]
    BY <1>2, Serves
  <2>1. \A x \in Node \ {s.to} : Passing(s.msg, x)
    BY DEF Passing
  <2>2. link' = Sent(link, s.to, s.msg)
    BY DEF HandleBlock
  <2> QED BY <1>1, <2>1, <2>2, SentWires DEF Wires
<1>3. ASSUME NEW c \in Client, RemoveBlock(c) PROVE Wires'
  <2> PICK n \in Node, p \in NameOf(F(c)) : n = p[2] /\ HandleBlock(n, Message("DELETE", p, 0, <<>>))
    BY <1>3, Removes
  <2> DEFINE m == Message("DELETE", p, 0, <<>>)
  <2>1. \A x \in Node \ {n} : Passing(m, x)
    BY DEF Passing, Message
  <2>2. link' = Sent(link, n, m)
    BY DEF HandleBlock
  <2> HIDE DEF m
  <2> QED BY <1>1, <2>1, <2>2, SentWires DEF Wires
<1>4. ASSUME NEW c \in Client, RemoveFile(c) PROVE Wires'
  <2>1. CASE UNCHANGED servers
    BY <2>1 DEF Wires, servers
  <2>2. CASE FileDelete(L(c), F(c))
    <3> DEFINE n == L(c)
               m == Message("INSERT", MetaReplica(n), 0, <<Deleted(db[n], F(c))>>)
    <3>1. n \in Node
      BY <1>1, <1>4, OwnFile DEF RemoveFile, Active
    <3>2. link' = Sent(link, n, m)
      BY <2>2 DEF FileDelete, ReplicateMetadata
    <3>3. m.name = MetaReplica(n)
      BY DEF Message
    <3>4. \A x \in Node \ {n} : Passing(m, x)
      BY <3>3, IdvNotPrimary DEF Passing
    <3> HIDE DEF m, n
    <3> QED BY <1>1, <3>1, <3>2, <3>4, SentWires DEF Wires
  <2> QED BY <1>4, <2>1, <2>2 DEF RemoveFile
<1>5. CASE Replicate
  <2> PICK m \in Node, n \in Node : \E i \in DOMAIN link[<<m, n>>] : ReceiveReplica(m, n, i)
    BY <1>5 DEF Replicate
  <2> PICK i \in DOMAIN link[<<m, n>>] : ReceiveReplica(m, n, i)
    OBVIOUS
  <2>1. link' = [link EXCEPT ![<<m, n>>] = RemoveAt(@, i)]
    BY DEF ReceiveReplica
  <2>2. ASSUME NEW a \in Node, NEW b \in Node PROVE Passes(link'[<<a, b>>], b)
    <3>1. link'[<<a, b>>] = IF a = m /\ b = n THEN RemoveAt(link[<<a, b>>], i) ELSE link[<<a, b>>]
      BY <2>1 DEF Wires, Wired
    <3>2. PICK T : link[<<a, b>>] \in Seq(T) /\ \A t \in T : Passing(t, b)
      BY DEF Wires, Wired, Passes
    <3>3. a = m /\ b = n => RemoveAt(link[<<a, b>>], i) \in Seq(T)
      BY <3>2, RemoveAtSeq
    <3>4. link'[<<a, b>>] \in Seq(T)
      BY <3>1, <3>2, <3>3
    <3> QED BY <3>2, <3>4 DEF Passes
  <2>3. DOMAIN link' = Node \X Node
    BY <2>1 DEF Wires, Wired
  <2> QED BY <2>2, <2>3 DEF Wires, Wired
<1>6. ASSUME UNCHANGED link PROVE Wires'
  BY <1>6 DEF Wires
<1>7. ASSUME NEW c \in Client, NEW j \in Job, Call(c, j) PROVE UNCHANGED link
  BY <1>7 DEF Call, UploadExists, DownloadExists, RemoveDescribe, Arrange, FormatBegin,
              FileRequest, servers
<1>8. ASSUME NEW c \in Client,
             UploadInsert(c) \/ WriteFileInsert(c) \/ IdvInsert(c) \/ TouchInsert(c)
      PROVE  UNCHANGED link
  BY <1>8 DEF UploadInsert, WriteFileInsert, SendChunks, IdvInsert, TouchInsert, FileInsert
<1>9. ASSUME NEW c \in Client,
             \/ UploadConfirm(c) \/ WriteFileConfirm(c) \/ IdvConfirm(c) \/ TouchConfirm(c)
             \/ DownloadDescribe(c) \/ DownloadBlock(c) \/ DownloadReturn(c) \/ FormatNode(c)
             \/ FormatReturn(c) \/ DownloadDies(c) \/ Crash(c)
      PROVE  UNCHANGED link
  BY <1>9 DEF UploadConfirm, WriteFileConfirm, ConfirmChunks, IdvConfirm, TouchConfirm, Confirm,
              FileInsertConfirm, DownloadDescribe, FileRequest, DownloadBlock, DownloadReturn,
              FormatNode, Format, FormatReturn, Crash, DownloadDies, Dies, servers
<1>10. CASE UNCHANGED vars
  BY <1>6, <1>10 DEF vars, servers
<1> QED BY <1>2, <1>3, <1>4, <1>5, <1>6, <1>7, <1>8, <1>9, <1>10 DEF Next, Step

\* which are empty at the start.
LEMMA InitWires == Init => Wires
<1> SUFFICES ASSUME Init PROVE Wires
  OBVIOUS
<1>1. link = [e \in Node \X Node |-> <<>>]
  BY DEF Init, BlockInit
<1>2. ASSUME NEW n PROVE Passes(<<>>, n)
  <2> DEFINE T == {}
  <2>1. <<>> \in Seq(T) /\ \A t \in T : Passing(t, n)
    OBVIOUS
  <2> HIDE DEF T
  <2> QED BY <2>1 DEF Passes
<1> QED BY <1>1, <1>2 DEF Wires, Wired

\* What a file is described as, and its blocks, stay the same.
SameTables(f) == Description(db'[Home[f]], f) = Description(db[Home[f]], f)
SameBlocks(f) ==
    \A n \in Node : \A p \in NameOf(f) : p[2] = n => SameFile(disk[n], disk'[n], p)
Steady(f) == SameTables(f) /\ SameBlocks(f)

\* An upload's first request does not change what a file is described as,
LEMMA InsertSteady ==
    ASSUME TypeInv, NEW n \in Node, NEW f, NEW row, row.uploading = 1, FileInsert(n, f, row),
           NEW g \in File
    PROVE  Steady(g)
<1>1. Shape /\ db' = [db EXCEPT ![n] = Inserted(@, f, row)] /\ UNCHANGED disk /\ Home[g] \in Node
  BY HomeAssumption DEF TypeInv, FileInsert
<1>2. SameBlocks(g)
  BY <1>1 DEF SameBlocks, SameFile
<1>3. CASE Home[g] # n
  BY <1>1, <1>2, <1>3 DEF Shape, Steady, SameTables
<1>4. CASE Home[g] = n
  <2> DEFINE d == db[n]
             e == Inserted(db[n], f, row)
  <2>1. Tables(d) /\ db'[n] = e /\ db[n] = d
    BY <1>1 DEF TypeInv, Catalog, RowsIn, Shape
  <2>2. CASE g # f \/ g \in DOMAIN d.file
    <3>1. Tables(e) /\ SameRows(d, e, g)
      <4>1. e = Inserted(d, f, row)
        OBVIOUS
      <4> HIDE DEF d, e
      <4> QED BY ONLY <2>1, <2>2, <4>1, InsertedSame
    <3> HIDE DEF d, e
    <3>2. Description(d, g) = Description(e, g)
      BY ONLY <2>1, <3>1, SameDescription
    <3> QED BY <1>2, <1>4, <2>1, <3>2 DEF Steady, SameTables
  <2>3. CASE g = f /\ g \notin DOMAIN d.file
    <3>1. ~FileTableExists(d, g) /\ ~FileTableExists(e, g)
      BY <1>1, <2>3 DEF Shape, Inserted, FileTableInsert, WithRow, FileTableExists
    <3> QED BY <1>2, <1>4, <2>1, <3>1 DEF Steady, SameTables, Description
  <2> QED BY <2>2, <2>3
<1> QED BY <1>3, <1>4

\* nor does the last request of another file's upload,
LEMMA ConfirmSteady ==
    ASSUME TypeInv, NEW c \in Client, NEW f \in File, F(c) = f, NEW num,
           NEW blockRows \in Seq(BRowOf(f)), NEW chunkRows \in Seq(CRowOf(f)), NEW contents,
           Confirm(c, num, blockRows, chunkRows, contents), NEW g \in File, g # f
    PROVE  Steady(g)
<1> DEFINE n == Home[f]
           d == db[n]
           e == Confirmed(db[n], f, num, blockRows, chunkRows)
<1>1. Shape /\ db' = [db EXCEPT ![n] = e] /\ UNCHANGED disk /\ Home[g] \in Node /\ n \in Node
  BY HomeAssumption DEF TypeInv, Confirm, FileInsertConfirm, L
<1>2. SameBlocks(g)
  BY <1>1 DEF SameBlocks, SameFile
<1>3. CASE Home[g] # n
  BY <1>1, <1>2, <1>3 DEF Shape, Steady, SameTables
<1>4. CASE Home[g] = n
  <2>1. Tables(d) /\ db'[n] = e /\ db[n] = d
    BY <1>1 DEF TypeInv, Catalog, RowsIn, Shape
  <2>2. Tables(e) /\ SameRows(d, e, g)
    <3>1. e = Confirmed(d, f, num, blockRows, chunkRows) /\ f \in File
          /\ blockRows \in Seq(BRowOf(f)) /\ chunkRows \in Seq(CRowOf(f)) /\ g # f
      OBVIOUS
    <3> HIDE DEF d, e
    <3> QED BY ONLY <2>1, <3>1, ConfirmedSame
  <2> HIDE DEF d, e
  <2>3. Description(d, g) = Description(e, g)
    BY ONLY <2>1, <2>2, SameDescription
  <2> QED BY <1>2, <1>4, <2>1, <2>3 DEF Steady, SameTables
<1> QED BY <1>3, <1>4

\* nor the removal of another file,
LEMMA DeleteSteady ==
    ASSUME TypeInv, NEW f \in File, FileDelete(Home[f], f), NEW g \in File, g # f
    PROVE  Steady(g)
<1> DEFINE n == Home[f]
           d == db[n]
           e == Deleted(db[n], f)
<1>1. Shape /\ db' = [db EXCEPT ![n] = e] /\ UNCHANGED disk /\ Home[g] \in Node /\ n \in Node
  BY HomeAssumption DEF TypeInv, FileDelete
<1>2. SameBlocks(g)
  BY <1>1 DEF SameBlocks, SameFile
<1>3. CASE Home[g] # n
  BY <1>1, <1>2, <1>3 DEF Shape, Steady, SameTables
<1>4. CASE Home[g] = n
  <2>1. Tables(d) /\ db'[n] = e /\ db[n] = d
    BY <1>1 DEF TypeInv, Catalog, RowsIn, Shape
  <2>2. Tables(e) /\ SameRows(d, e, g)
    <3>1. e = Deleted(d, f) /\ g # f
      OBVIOUS
    <3> HIDE DEF d, e
    <3> QED BY <2>1, <3>1, DeletedSame
  <2> HIDE DEF d, e
  <2>3. Description(d, g) = Description(e, g)
    BY ONLY <2>1, <2>2, SameDescription
  <2> QED BY <1>2, <1>4, <2>1, <2>3 DEF Steady, SameTables
<1> QED BY <1>3, <1>4

\* nor the blocks of another file, written or deleted.
LEMMA HandledSteady ==
    ASSUME TypeInv, UNCHANGED db, NEW n, NEW m, m.op \in {"INSERT", "UPDATE", "DELETE"},
           HandleBlock(n, m), NEW g \in File, m.name \notin NameOf(g)
    PROVE  Steady(g)
<1>1. DOMAIN disk = Node
  BY DEF TypeInv, Stored
<1>2. SameBlocks(g)
  <2> SUFFICES ASSUME NEW x \in Node, NEW p \in NameOf(g) PROVE SameFile(disk[x], disk'[x], p)
    BY DEF SameBlocks
  <2>1. p # m.name
    OBVIOUS
  <2> QED BY <1>1, <2>1, HandledElsewhere
<1> QED BY <1>2 DEF Steady, SameTables

\* A replica message does not change what is read, either.
LEMMA ReplicaSteady ==
    ASSUME TypeInv, Wires, Replicate, NEW g \in File PROVE Steady(g)
<1> PICK m \in Node, n \in Node : \E i \in DOMAIN link[<<m, n>>] : ReceiveReplica(m, n, i)
  BY DEF Replicate
<1> PICK i \in DOMAIN link[<<m, n>>] : ReceiveReplica(m, n, i)
  OBVIOUS
<1> DEFINE e == <<m, n>>
           h == link[e][i]
<1>1. e \in Node \X Node /\ i \in DOMAIN link[e] /\ Queue(link[e]) /\ DOMAIN disk = Node
  BY DEF TypeInv, Stored
<1>2. h.op \in {"INSERT", "UPDATE", "DELETE"}
  BY <1>1, QueueRemove DEF MessageOK
<1>3. Passing(h, n)
  <2> PICK T : link[e] \in Seq(T) /\ \A t \in T : Passing(t, n)
    BY DEF Wires, Wired, Passes
  <2> QED BY <1>1, RemoveAtSeq
<1>4. disk' = [disk EXCEPT ![n] = Applied(@, h)] /\ UNCHANGED db
  BY DEF ReceiveReplica, Replicate
<1> HIDE DEF h, e
<1>5. SameBlocks(g)
  <2> SUFFICES ASSUME NEW x \in Node, NEW p \in NameOf(g), p[2] = x PROVE SameFile(disk[x], disk'[x], p)
    BY DEF SameBlocks
  <2>1. disk'[x] = IF x = n THEN Applied(disk[x], h) ELSE disk[x]
    BY <1>1, <1>4
  <2>2. CASE x = n
    <3>1. p # h.name
      BY <1>3, <2>2 DEF Passing
    <3> QED BY <1>2, <2>1, <2>2, <3>1, AppliedElsewhere
  <2>3. CASE x # n
    BY <2>1, <2>3 DEF SameFile
  <2> QED BY <2>2, <2>3
<1> QED BY <1>4, <1>5 DEF Steady, SameTables

\* The last request of an upload, whichever.
Confirms(c, blockRows, chunkRows, contents, num) ==
    /\ pc[c] = "await" /\ sent[c] = {} /\ Confirm(c, num, blockRows, chunkRows, contents)
    /\ blockRows \in Seq(BRowOf(F(c))) /\ chunkRows \in Seq(CRowOf(F(c)))
    /\ F(c) \in File /\ Pending(c) /\ Target(c) = {F(c)}
UploadEnds(c) ==
    \/ job[c].op \notin {"touch", "put_idv"}
         /\ Confirms(c, UploadBlockRows(c, F(c)), UploadChunkRows(c, F(c)), Content(c), Chunks[c] - 1)
    \/ job[c].op = "put_idv"
         /\ Confirms(c, UploadBlockRows(c, F(c)), IdvChunkRows(c, F(c)), Apart, Chunks[c] - 1)
    \/ job[c].op = "touch"
         /\ Confirms(c, <<TouchRow(F(c), Home[F(c)])>>, <<TouchChunk(F(c))>>, <<>>, 1)

\* and end in that one.
LEMMA UploadEndsIs ==
    ASSUME Spread, TypeInv, TurnInv, TableInv, NEW c \in Client,
           UploadConfirm(c) \/ WriteFileConfirm(c) \/ IdvConfirm(c) \/ TouchConfirm(c)
    PROVE  UploadEnds(c)
<1>1. /\ pc[c] = "await" /\ sent[c] = {} /\ Pending(c) /\ Changing(c) /\ Shape /\ InCall
      /\ pc[c] # "format"
  BY LocalShape DEF UploadConfirm, WriteFileConfirm, ConfirmChunks, IdvConfirm, TouchConfirm, Pending,
                    Changing
<1>2. F(c) \in File /\ Target(c) = {F(c)}
  BY <1>1, TargetIs DEF TurnInv
<1>3. /\ L(c) = Home[F(c)]
      /\ job[c].op = "touch" => loc[c].key[L(c)] = Home[F(c)]
      /\ job[c].op # "touch" =>
           /\ UploadBlockRows(c, F(c)) \in Seq(BRowOf(F(c)))
           /\ UploadChunkRows(c, F(c)) \in Seq(CRowOf(F(c)))
           /\ IdvChunkRows(c, F(c)) \in Seq(CRowOf(F(c)))
      /\ <<TouchRow(F(c), Home[F(c)])>> \in Seq(BRowOf(F(c)))
      /\ <<TouchChunk(F(c))>> \in Seq(CRowOf(F(c)))
  BY <1>1, ConfirmedRowsOwn DEF TableInv
<1>4. CASE UploadConfirm(c) \/ WriteFileConfirm(c)
  <2>1. job[c].op \in {"put", "write_file"} /\ Confirm(c, Chunks[c] - 1, UploadBlockRows(c, F(c)),
                                                      UploadChunkRows(c, F(c)), Content(c))
    BY <1>4 DEF UploadConfirm, WriteFileConfirm, ConfirmChunks
  <2> QED BY <1>1, <1>2, <1>3, <2>1 DEF UploadEnds, Confirms
<1>5. CASE IdvConfirm(c)
  <2>1. job[c].op = "put_idv" /\ Confirm(c, Chunks[c] - 1, UploadBlockRows(c, F(c)),
                                         IdvChunkRows(c, F(c)), Apart)
    BY <1>5 DEF IdvConfirm
  <2> QED BY <1>1, <1>2, <1>3, <2>1 DEF UploadEnds, Confirms
<1>6. CASE TouchConfirm(c)
  <2>1. job[c].op = "touch"
    BY <1>6 DEF TouchConfirm
  <2>2. Confirm(c, 1, <<TouchRow(F(c), Home[F(c)])>>, <<TouchChunk(F(c))>>, <<>>)
    BY <1>3, <1>6, <2>1 DEF TouchConfirm, TouchRow, TouchChunk
  <2> QED BY <1>1, <1>2, <1>3, <2>1, <2>2 DEF UploadEnds, Confirms
<1> QED BY <1>4, <1>5, <1>6

\* A client that does not change a file leaves what is read of it alone.
LEMMA StepSteady ==
    ASSUME Settings, TypeInv, TurnInv, TableInv, NEW c \in Client, Step(c) \/ Crash(c),
           NEW f \in File, ~(Pending(c) /\ f \in Target(c))
    PROVE  Steady(f)
<1>1. Shape /\ InCall /\ Spread /\ OwnKeys
  BY LocalShape DEF Settings
<1>2. ASSUME UNCHANGED <<db, disk>> PROVE Steady(f)
  BY <1>2 DEF Steady, SameTables, SameBlocks, SameFile
<1>3. ASSUME NEW j \in Job, Call(c, j) PROVE UNCHANGED <<db, disk>>
  BY <1>3 DEF Call, UploadExists, DownloadExists, RemoveDescribe, Arrange, FormatBegin,
              FileRequest, servers
<1>4. CASE UploadInsert(c) \/ WriteFileInsert(c) \/ IdvInsert(c) \/ TouchInsert(c)
  <2>1. UploadBegins(c)
    BY <1>1, <1>4, UploadBeginsIs
  <2>2. PICK row : row.uploading = 1 /\ FileInsert(L(c), F(c), row)
    BY <2>1 DEF UploadBegins
  <2>3. L(c) \in Node
    BY <1>1, <2>1, OwnFile DEF UploadBegins, Active
  <2> QED BY <2>2, <2>3, InsertSteady
<1>5. CASE ServeBlock(c)
  <2>1. /\ Pending(c) /\ Target(c) = {F(c)} /\ UNCHANGED db
        /\ \E s \in sent[c] :
             /\ HandleBlock(s.to, s.msg) /\ s.msg.op = "INSERT"
             /\ \A g \in File : s.msg.name \in NameOf(g) => g = F(c)
    BY <1>5, Serves
  <2>2. PICK s \in sent[c] :
            HandleBlock(s.to, s.msg) /\ s.msg.op = "INSERT" /\ s.msg.name \notin NameOf(f)
    BY <2>1
  <2> QED BY <2>1, <2>2, HandledSteady
<1>6. CASE RemoveBlock(c)
  <2>1. /\ Pending(c) /\ Target(c) = {F(c)} /\ UNCHANGED db
        /\ \E n \in Node, p \in NameOf(F(c)) : HandleBlock(n, Message("DELETE", p, 0, <<>>))
    BY <1>6, Removes
  <2>2. PICK n \in Node, p \in NameOf(F(c)) : HandleBlock(n, Message("DELETE", p, 0, <<>>))
    BY <2>1
  <2> DEFINE m == Message("DELETE", p, 0, <<>>)
  <2>3. m.op = "DELETE" /\ m.name = p /\ HandleBlock(n, m)
    BY <2>2 DEF Message
  <2>4. p \notin NameOf(f)
    BY <2>1, OneFileOfName
  <2> HIDE DEF m
  <2> QED BY <2>1, <2>3, <2>4, HandledSteady
<1>7. CASE UploadConfirm(c) \/ WriteFileConfirm(c) \/ IdvConfirm(c) \/ TouchConfirm(c)
  <2>1. UploadEnds(c)
    BY <1>1, <1>7, UploadEndsIs
  <2>2. PICK num, blockRows, chunkRows, contents : Confirms(c, blockRows, chunkRows, contents, num)
    BY <2>1 DEF UploadEnds
  <2>3. F(c) \in File /\ F(c) # f
    BY <2>2 DEF Confirms
  <2> QED BY <2>2, <2>3, ConfirmSteady DEF Confirms
<1>8. CASE RemoveFile(c)
  <2>1. CASE UNCHANGED servers
    BY <1>2, <2>1 DEF servers
  <2>2. CASE FileDelete(L(c), F(c))
    <3>1. Pending(c) /\ Changing(c) /\ pc[c] # "format"
      BY <1>8 DEF RemoveFile, Pending, Changing
    <3>2. F(c) \in File /\ F(c) # f
      BY <1>1, <3>1, TargetIs DEF TurnInv
    <3>3. FileDelete(Home[F(c)], F(c))
      BY <2>2 DEF L
    <3> QED BY <3>2, <3>3, DeleteSteady
  <2> QED BY <1>8, <2>1, <2>2 DEF RemoveFile
<1>9. CASE FormatNode(c)
  <2>1. Pending(c) /\ Target(c) = File
    BY <1>1, <1>9 DEF FormatNode, Pending, InCall, Target
  <2> QED BY <2>1
<1>10. CASE DownloadDescribe(c) \/ DownloadBlock(c) \/ DownloadReturn(c) \/ FormatReturn(c) \/ DownloadDies(c) \/ Crash(c)
  <2>1. UNCHANGED <<db, disk>>
    BY <1>10 DEF DownloadDescribe, FileRequest, DownloadBlock, DownloadReturn, FormatReturn,
                Crash, DownloadDies, Dies, servers
  <2> QED BY <1>2, <2>1
<1> QED BY <1>2, <1>3, <1>4, <1>5, <1>6, <1>7, <1>8, <1>9, <1>10 DEF Step
-----------------------------------------------------------------------------
(* What is stored of a file whose upload has returned, and of one whose    *)
(* blocks are under way.                                                   *)
On(d, s) == s.msg.name \in DOMAIN d[s.to] /\ d[s.to][s.msg.name] = s.msg.data
Posts(c) == IF job[c].op = "touch" THEN {TouchPost(F(c))} ELSE ChunkPosts(c, F(c))
Arrived  == \A c \in Client : pc[c] = "await" /\ job[c].op # "put_idv" =>
                sent[c] \subseteq Posts(c) /\ \A s \in Posts(c) \ sent[c] : On(disk, s)

\* A file's contents are read block by block: a cell from each, nothing from
\* the one block of an empty file.
Marked(v)    == v \in {NoOne, Gone, Apart}
Pieces(v)    == IF v = <<>> THEN 1 ELSE Len(v)
Piece(v, x)  == IF v = <<>> THEN <<>> ELSE <<v[x]>>
Prefix(v, k) == [x \in 1 .. (IF v = <<>> THEN 0 ELSE k) |-> v[x]]
ReadOn(d, b) == ReadCells(d[b.key], b.primary, b.offset, b.size)
Held(d, bs, v) == Len(bs) = Pieces(v) /\ \A x \in 1 .. Len(bs) : ReadOn(d, bs[x]) = Piece(v, x)
BlocksOf(f)  == Description(db[Home[f]], f).blocks
Promised == \A f \in File : ~Marked(promise[f]) =>
                promise[f] \in Values /\ Held(disk, BlocksOf(f), promise[f])

Downloading == \A c \in Client :
    /\ pc[c] = "describe" => loc[c].got = <<>>
    /\ pc[c] = "read" /\ ~Marked(promise[F(c)]) =>
           /\ loc[c].fd.blocks = BlocksOf(F(c))
           /\ loc[c].got = Prefix(promise[F(c)], loc[c].i - 1)

ContentInv == Arrived /\ Promised /\ Downloading

\* Contents are sequences.
LEMMA ValuesAre ==
    ASSUME NEW v \in Values PROVE \E T : v \in Seq(T)
<1>1. CASE v = <<>>
  <2>1. v \in Seq({})
    BY <1>1
  <2> QED BY <2>1
<1>2. ASSUME NEW c \in Client, v = Content(c) PROVE \E T : v \in Seq(T)
  <2> DEFINE T == {Cell(c, q) : q \in Int}
             n == Chunks[c]
  <2>1. n \in Nat
    BY ChunksAssumption
  <2>2. v = [x \in 1 .. n |-> Cell(c, x - 1)]
    BY <1>2 DEF Content
  <2>3. DOMAIN v = 1 .. n /\ \A x \in 1 .. n : v[x] = Cell(c, x - 1) /\ x - 1 \in Int
    BY <2>1, <2>2
  <2>4. \A x \in 1 .. n : v[x] \in T
    BY <2>3
  <2>5. v = [x \in DOMAIN v |-> v[x]]
    BY <2>2
  <2> HIDE DEF T, n
  <2>6. v \in [1 .. n -> T]
    BY <2>3, <2>4, <2>5
  <2> QED BY <2>1, <2>6
<1> QED BY <1>1, <1>2 DEF Values

\* Reading the next piece.
LEMMA PrefixFacts ==
    ASSUME NEW v \in Values
    PROVE  /\ Pieces(v) \in Nat
           /\ Prefix(v, 0) = <<>> /\ Prefix(v, Pieces(v)) = v
           /\ \A k \in 1 .. Pieces(v) : Prefix(v, k - 1) \o Piece(v, k) = Prefix(v, k)
<1> PICK T : v \in Seq(T)
  BY ValuesAre
<1> DEFINE n == Len(v)
<1>1. n \in Nat /\ v \in [1 .. n -> T] /\ v \in Seq(T) /\ Len(v) = n
  OBVIOUS
<1> HIDE DEF n
<1>2. CASE v = <<>>
  <2>1. \A k : Prefix(v, k) = <<>>
    BY <1>2 DEF Prefix
  <2> QED BY <1>2, <2>1 DEF Pieces, Piece
<1>3. CASE v # <<>>
  <2>1. Pieces(v) = n
    BY <1>1, <1>3 DEF Pieces
  <2>2. ASSUME NEW k \in 0 .. n
        PROVE  /\ Prefix(v, k) \in Seq(T) /\ Len(Prefix(v, k)) = k
               /\ \A x \in 1 .. k : Prefix(v, k)[x] = v[x]
    <3>1. Prefix(v, k) = [x \in 1 .. k |-> v[x]]
      BY <1>3 DEF Prefix
    <3>2. \A x \in 1 .. k : v[x] \in T
      BY <1>1
    <3> QED BY <3>1, <3>2
  <2>3. Prefix(v, 0) = <<>>
    BY <1>1, <2>2
  <2>4. Prefix(v, n) = v
    <3> DEFINE p == Prefix(v, n)
    <3>1. p \in Seq(T) /\ Len(p) = n /\ \A x \in 1 .. n : p[x] = v[x]
      BY <1>1, <2>2
    <3> HIDE DEF p
    <3>2. p = v
      BY <1>1, <3>1
    <3> QED BY <3>2 DEF p
  <2>5. ASSUME NEW k \in 1 .. n PROVE Prefix(v, k - 1) \o Piece(v, k) = Prefix(v, k)
    <3> DEFINE a == Prefix(v, k - 1)
               b == Prefix(v, k)
    <3>1. a \in Seq(T) /\ Len(a) = k - 1 /\ \A x \in 1 .. k - 1 : a[x] = v[x]
      BY <1>1, <2>2
    <3>2. b \in Seq(T) /\ Len(b) = k /\ \A x \in 1 .. k : b[x] = v[x]
      BY <1>1, <2>2
    <3>3. Piece(v, k) = <<v[k]>> /\ v[k] \in T
      BY <1>1, <1>3 DEF Piece
    <3> HIDE DEF a, b
    <3>4. a \o <<v[k]>> = b
      BY <1>1, <3>1, <3>2, <3>3
    <3> QED BY <3>3, <3>4 DEF a, b
  <2> QED BY <1>1, <2>1, <2>3, <2>4, <2>5
<1> QED BY <1>2, <1>3

\* The messages of an upload create files of their own.
LEMMA PostsOwn ==
    ASSUME Spread, NEW c \in Client, F(c) \in File
    PROVE  /\ \A s \in Posts(c) : /\ s.msg.op = "INSERT" /\ s.msg.name \in NameOf(F(c))
                                  /\ s.to = s.msg.name[2] /\ s.to \in Node
           /\ \A s, t \in Posts(c) : s.msg.name = t.msg.name => s = t
<1> DEFINE f == F(c)
<1>1. Home[f] \in Node /\ Few(c, f)
  BY HomeAssumption, FewOf
<1>2. CASE job[c].op = "touch"
  <2>1. Posts(c) = {TouchPost(f)}
    BY <1>2 DEF Posts
  <2>2. TouchName(f) \in NameOf(f) /\ TouchName(f)[2] = Home[f]
    BY DEF NameOf, TouchName
  <2>3. /\ TouchPost(f).to = Home[f] /\ TouchPost(f).msg.op = "INSERT"
        /\ TouchPost(f).msg.name = TouchName(f)
    BY DEF TouchPost, Message
  <2> QED BY <1>1, <2>1, <2>2, <2>3
<1>3. CASE job[c].op # "touch"
  <2>1. Posts(c) = {Post(c, f, q) : q \in 0 .. Chunks[c] - 1}
    BY <1>3 DEF Posts, ChunkPosts
  <2>2. \A q \in 0 .. Chunks[c] - 1 : Server(f, q) \in Node
    BY <1>1, SentNames
  <2>3. \A q : /\ Post(c, f, q).to = Server(f, q) /\ Post(c, f, q).msg.op = "INSERT"
               /\ Post(c, f, q).msg.name = PrimaryName(Server(f, q), f)
    BY DEF Post, Message
  <2>4. \A s \in Node : PrimaryName(s, f) \in NameOf(f) /\ PrimaryName(s, f)[2] = s
    BY DEF NameOf, PrimaryName
  <2>5. ASSUME NEW q \in 0 .. Chunks[c] - 1, NEW r \in 0 .. Chunks[c] - 1,
               PrimaryName(Server(f, q), f) = PrimaryName(Server(f, r), f)
        PROVE  q = r
    <3>1. Server(f, q) = Server(f, r)
      BY <2>2, <2>4, <2>5
    <3>2. Server(f, q) = IF Home[f] + q < N THEN Home[f] + q ELSE Home[f] + q - N
      BY <1>1, ServerIs
    <3>3. Server(f, r) = IF Home[f] + r < N THEN Home[f] + r ELSE Home[f] + r - N
      BY <1>1, ServerIs
    <3>4. N \in Nat /\ Chunks[c] \in 1 .. N /\ Home[f] \in 0 .. N - 1
      BY <1>1 DEF Few, Node
    <3> DEFINE h == Home[f]
               n == Chunks[c]
    <3>5. h \in 0 .. N - 1 /\ n \in 1 .. N /\ q \in 0 .. n - 1 /\ r \in 0 .. n - 1 /\ N \in Nat
          /\ (IF h + q < N THEN h + q ELSE h + q - N) = (IF h + r < N THEN h + r ELSE h + r - N)
      BY <3>1, <3>2, <3>3, <3>4
    <3> HIDE DEF h, n
    <3> QED BY ONLY <3>5
  <2> HIDE DEF f
  <2>6. \A s \in Posts(c) : \E q \in 0 .. Chunks[c] - 1 : s = Post(c, f, q)
    BY <2>1
  <2>7. \A s \in Posts(c) : /\ s.msg.op = "INSERT" /\ s.msg.name \in NameOf(f)
                            /\ s.to = s.msg.name[2] /\ s.to \in Node
    BY <2>2, <2>3, <2>4, <2>6
  <2>8. \A s, t \in Posts(c) : s.msg.name = t.msg.name => s = t
    BY <2>3, <2>5, <2>6
  <2> QED BY <2>7, <2>8 DEF f
<1> QED BY <1>2, <1>3

\* The least of one number.
LEMMA MinOne == ASSUME NEW x \in Int PROVE Min({x, x}) = x
BY DEF Min

\* What is read of a block's only cell, and of an empty block.
LEMMA ReadOne ==
    ASSUME NEW files, NEW p \in DOMAIN files
    PROVE  /\ \A v : files[p] = <<v>> => ReadCells(files, p, 0, 1) = <<v>>
           /\ files[p] = <<>> => ReadCells(files, p, 0, 0) = <<>>
<1>1. ASSUME NEW v, files[p] = <<v>> PROVE ReadCells(files, p, 0, 1) = <<v>>
  <2>1. Len(files[p]) = 1 /\ ~(0 > 1) /\ ~(1 = 0)
    BY <1>1
  <2>2. Min({0 + 1, Len(files[p])}) = 1
    <3>1. 0 + 1 = 1 /\ 1 \in Int
      OBVIOUS
    <3> QED BY <2>1, <3>1, MinOne
  <2>3. ReadCells(files, p, 0, 1) = SubSeq(files[p], 0 + 1, Min({0 + 1, Len(files[p])}))
    BY <2>1 DEF ReadCells
  <2>4. ReadCells(files, p, 0, 1) = SubSeq(<<v>>, 1, 1)
    BY <1>1, <2>2, <2>3
  <2> QED BY <2>4
<1>2. ASSUME files[p] = <<>> PROVE ReadCells(files, p, 0, 0) = <<>>
  <2>1. Len(files[p]) = 0 /\ ~(0 > 0)
    BY <1>2
  <2> QED BY <1>2, <2>1 DEF ReadCells
<1> QED BY <1>1, <1>2

\* A file whose blocks have all arrived reads as what was sent,
LEMMA HeldUpload ==
    ASSUME Spread, NEW c \in Client, NEW f \in File, NEW d, \A s \in ChunkPosts(c, f) : On(d, s),
           NEW bs, bs = InOrder(c, f)
    PROVE  Content(c) \in Values /\ Held(d, bs, Content(c))
<1> DEFINE n == Chunks[c]
           v == Content(c)
<1>1. n \in Nat /\ n >= 2
  BY NodesAssumption DEF Spread
<1>2. v = [x \in 1 .. n |-> Cell(c, x - 1)]
  BY DEF Content
<1>3. Len(v) = n /\ v # <<>> /\ \A x \in 1 .. n : v[x] = Cell(c, x - 1)
  BY <1>1, <1>2
<1>4. bs = [j \in 1 .. n |-> BlockOn(Server(f, j - 1), f)]
  BY DEF InOrder
<1>5. Len(bs) = n /\ \A j \in 1 .. n : bs[j] = BlockOn(Server(f, j - 1), f)
  BY <1>1, <1>4
<1>6. ASSUME NEW j \in 1 .. n PROVE ReadOn(d, bs[j]) = <<Cell(c, j - 1)>>
  <2> DEFINE s == Server(f, j - 1)
             p == PrimaryName(s, f)
  <2>1. Post(c, f, j - 1) \in ChunkPosts(c, f)
    BY <1>1 DEF ChunkPosts
  <2>2. p \in DOMAIN d[s] /\ d[s][p] = <<Cell(c, j - 1)>>
    BY <2>1 DEF On, Post, Message
  <2>3. bs[j].key = s /\ bs[j].primary = p /\ bs[j].offset = 0 /\ bs[j].size = 1
    <3>1. bs[j] = EntryOf(BRowOn(s, f), CRowOn(s, f))
      BY <1>5 DEF BlockOn
    <3> HIDE DEF s
    <3> QED BY <3>1, RowFields DEF EntryOf
  <2> HIDE DEF s, p
  <2>4. ReadCells(d[s], p, 0, 1) = <<Cell(c, j - 1)>>
    BY <2>2, ReadOne
  <2> QED BY <2>3, <2>4 DEF ReadOn
<1>7. v \in Values
  BY DEF Values
<1> HIDE DEF v, n
<1>8. Held(d, bs, v)
  BY <1>3, <1>5, <1>6 DEF Held, Pieces, Piece
<1> QED BY <1>7, <1>8 DEF v

\* and an empty one as nothing.
LEMMA HeldTouch ==
    ASSUME NEW f \in File, NEW d, On(d, TouchPost(f)),
           NEW bs, bs = <<EntryOf(TouchRow(f, Home[f]), TouchChunk(f))>>
    PROVE  <<>> \in Values /\ Held(d, bs, <<>>)
<1> DEFINE p == TouchName(f)
           h == Home[f]
           b == EntryOf(TouchRow(f, h), TouchChunk(f))
<1>1. p \in DOMAIN d[h] /\ d[h][p] = <<>>
  BY DEF On, TouchPost, Message
<1>2. b.key = h /\ b.primary = p /\ b.offset = 0 /\ b.size = 0
  BY DEF EntryOf, TouchRow, TouchChunk, BlockRow, ChunkRow
<1>3. Len(bs) = 1 /\ bs[1] = b
  OBVIOUS
<1> HIDE DEF p, h, b
<1>4. ReadCells(d[h], p, 0, 0) = <<>>
  BY <1>1, ReadOne
<1>5. ReadOn(d, bs[1]) = <<>>
  BY <1>2, <1>3, <1>4 DEF ReadOn
<1> QED BY <1>3, <1>5 DEF Values, Held, Pieces, Piece

\* Blocks read the same while their files stay the same.
LEMMA HeldSame ==
    ASSUME NEW d, NEW e, NEW bs, NEW v, Held(d, bs, v), Len(bs) \in Nat,
           NEW f \in File, OwnBlocks(bs, f),
           \A n \in Node : \A p \in NameOf(f) : p[2] = n => SameFile(d[n], e[n], p)
    PROVE  Held(e, bs, v)
<1>1. ASSUME NEW x \in 1 .. Len(bs) PROVE ReadOn(e, bs[x]) = ReadOn(d, bs[x])
  <2>1. bs[x].primary \in NameOf(f) /\ bs[x].key \in Node /\ bs[x].key = bs[x].primary[2]
    BY DEF OwnBlocks
  <2>2. SameFile(d[bs[x].key], e[bs[x].key], bs[x].primary)
    BY <2>1
  <2> QED BY <2>2, ReadSame DEF ReadOn
<1> QED BY <1>1 DEF Held

\* The description of a file lists blocks of its own.
LEMMA BlocksOwn ==
    ASSUME TypeInv, TableInv, NEW f \in File
    PROVE  Len(BlocksOf(f)) \in Nat /\ OwnBlocks(BlocksOf(f), f)
<1>1. Home[f] \in Node
  BY HomeAssumption
<1> DEFINE d == db[Home[f]]
<1>2. Tables(d) /\ d.block \in Seq(OwnRow)
  BY <1>1 DEF TypeInv, Catalog, RowsIn, TableInv, OwnRows
<1> HIDE DEF d
<1>3. Len(Description(d, f).blocks) \in Nat /\ OwnBlocks(Description(d, f).blocks, f)
  BY <1>2, DescribedOwn
<1> QED BY <1>3 DEF BlocksOf, d

Known == TypeInv /\ ArrangementInv /\ TurnInv /\ TableInv /\ Wires

\* A client's step leaves the other clients alone.
LEMMA Alone ==
    ASSUME Shape, DOMAIN sent = Client, NEW c \in Client, Step(c) \/ Crash(c)
    PROVE  \A d \in Client \ {c} : /\ pc'[d] = pc[d] /\ job'[d] = job[d]
                                   /\ loc'[d] = loc[d] /\ sent'[d] = sent[d]
<1>1. ASSUME NEW j \in Job, Call(c, j)
      PROVE  \A d \in Client \ {c} : /\ pc'[d] = pc[d] /\ job'[d] = job[d]
                                     /\ loc'[d] = loc[d] /\ sent'[d] = sent[d]
  BY <1>1 DEF Call, UploadExists, DownloadExists, RemoveDescribe, Arrange, FormatBegin, Enter,
              Goto, Shape
<1>2. CASE UploadInsert(c) \/ WriteFileInsert(c) \/ IdvInsert(c) \/ TouchInsert(c)
  <2>1. CASE \E op : SendChunks(c, op)
    BY <2>1 DEF SendChunks, Goto, Shape
  <2>2. CASE IdvInsert(c)
    BY <2>2 DEF IdvInsert, Goto, Shape
  <2>3. CASE TouchInsert(c)
    BY <2>3 DEF TouchInsert, Goto, Shape
  <2> QED BY <1>2, <2>1, <2>2, <2>3 DEF UploadInsert, WriteFileInsert
<1>3. CASE UploadConfirm(c) \/ WriteFileConfirm(c) \/ IdvConfirm(c) \/ TouchConfirm(c)
  BY <1>3 DEF UploadConfirm, WriteFileConfirm, ConfirmChunks, IdvConfirm, TouchConfirm, Confirm,
              Return, Goto, Shape
<1>4. CASE ServeBlock(c) \/ RemoveBlock(c) \/ RemoveFile(c) \/ FormatNode(c)
  BY <1>4 DEF ServeBlock, RemoveBlock, RemoveFile, FormatNode, Return, Goto, Shape
<1>5. CASE DownloadDescribe(c) \/ DownloadBlock(c) \/ DownloadReturn(c) \/ FormatReturn(c) \/ DownloadDies(c) \/ Crash(c)
  BY <1>5 DEF DownloadDescribe, DownloadBlock, DownloadReturn, FormatReturn, Crash, DownloadDies, Dies, Return, Goto, Shape
<1> QED BY <1>1, <1>2, <1>3, <1>4, <1>5 DEF Step

\* Nothing changes about a file of which something is promised.
LEMMA SteadyFile ==
    ASSUME Settings, Known, [Next]_vars, NEW f \in File, promise[f] # NoOne
    PROVE  Steady(f)
<1>1. ASSUME NEW c \in Client, Step(c) \/ Crash(c) PROVE Steady(f)
  <2>1. ~(Pending(c) /\ f \in Target(c))
    BY DEF Known, TurnInv, NothingPending
  <2> QED BY <1>1, <2>1, StepSteady DEF Known
<1>2. CASE Replicate
  BY <1>2, ReplicaSteady DEF Known
<1>3. CASE UNCHANGED vars
  BY <1>3 DEF vars, servers, Steady, SameTables, SameBlocks, SameFile
<1> QED BY <1>1, <1>2, <1>3 DEF Next

Ends(c) == UploadConfirm(c) \/ WriteFileConfirm(c) \/ IdvConfirm(c) \/ TouchConfirm(c)

\* Only the end of an upload promises contents.
LEMMA PromiseSteps ==
    ASSUME Shape, [Next]_vars, NEW f \in File, \A c \in Client : Ends(c) => F(c) # f
    PROVE  promise'[f] \in {promise[f], NoOne, Gone}
<1>1. ASSUME NEW c \in Client, NEW j \in Job, Call(c, j) PROVE promise'[f] \in {promise[f], NoOne}
  BY <1>1 DEF Call, UploadExists, DownloadExists, RemoveDescribe, Arrange, FormatBegin, Shape
<1>2. ASSUME NEW c \in Client, UploadInsert(c) \/ WriteFileInsert(c) \/ IdvInsert(c) \/ TouchInsert(c)
      PROVE  promise'[f] \in {promise[f], NoOne}
  <2>1. promise' = [promise EXCEPT ![F(c)] = NoOne]
    BY <1>2 DEF UploadInsert, WriteFileInsert, SendChunks, IdvInsert, TouchInsert
  <2> QED BY <2>1 DEF Shape
<1>3. ASSUME NEW c \in Client, Ends(c) PROVE promise'[f] = promise[f]
  <2>1. \E v : promise' = [promise EXCEPT ![F(c)] = v]
    BY <1>3 DEF Ends, UploadConfirm, WriteFileConfirm, ConfirmChunks, IdvConfirm, TouchConfirm, Confirm
  <2> QED BY <1>3, <2>1 DEF Shape
<1>4. ASSUME NEW c \in Client, RemoveFile(c) \/ FormatReturn(c) PROVE promise'[f] \in {promise[f], Gone}
  BY <1>4 DEF RemoveFile, FormatReturn, Shape
<1>5. ASSUME NEW c \in Client, \/ ServeBlock(c) \/ RemoveBlock(c) \/ FormatNode(c) \/ DownloadDescribe(c)
                               \/ DownloadBlock(c) \/ DownloadReturn(c) \/ DownloadDies(c) \/ Crash(c)
      PROVE  UNCHANGED promise
  BY <1>5 DEF ServeBlock, RemoveBlock, FormatNode, DownloadDescribe, DownloadBlock, DownloadReturn, Crash, DownloadDies, Dies
<1>6. CASE Replicate \/ UNCHANGED vars
  BY <1>6 DEF Replicate, vars
<1> QED BY <1>1, <1>2, <1>3, <1>4, <1>5, <1>6 DEF Next, Step, Ends

\* When an upload returns, its file reads as promised.
LEMMA EndsHeld ==
    ASSUME Settings, Known, Arrived, NEW c \in Client, Ends(c), NEW f \in File, f = F(c),
           ~Marked(promise'[f])
    PROVE  promise'[f] \in Values /\ Held(disk', Description(db'[Home[f]], f).blocks, promise'[f])
<1>1. /\ Spread /\ Shape /\ DOMAIN promise = File /\ Home[f] \in Node
  BY HomeAssumption DEF Settings, Known, TypeInv, Shape
<1>2. UploadEnds(c)
  BY <1>1, UploadEndsIs DEF Known, Ends
<1>3. pc[c] = "await" /\ sent[c] = {} /\ UNCHANGED disk
  BY <1>2 DEF UploadEnds, Confirms, Confirm, FileInsertConfirm
<1> DEFINE d == db[Home[f]]
           e == db'[Home[f]]
<1>4. Tables(d) /\ f \in DOMAIN d.file /\ NoRows(d, f)
  <2>1. ~Exists(f)
    BY <1>3 DEF Known, ArrangementInv, Unborn
  <2> QED BY <1>1, <1>3, <2>1 DEF Known, TypeInv, Catalog, RowsIn, TableInv, Awaiting, Blank, L
<1>5. Few(c, f) /\ Chunks[c] # 1
  BY <1>1, FewOf
<1>6. ASSUME NEW num, NEW blockRows, NEW chunkRows, NEW v, Confirm(c, num, blockRows, chunkRows, v)
      PROVE  e = Confirmed(d, f, num, blockRows, chunkRows) /\ promise'[f] = v
  BY <1>1, <1>6 DEF Confirm, FileInsertConfirm, L, Shape
<1>7. job[c].op # "put_idv" => \A s \in Posts(c) : On(disk, s)
  BY <1>3 DEF Arrived
<1> HIDE DEF d, e
<1>8. CASE job[c].op \notin {"touch", "put_idv"}
  <2>1. Confirm(c, Chunks[c] - 1, UploadBlockRows(c, f), UploadChunkRows(c, f), Content(c))
    BY <1>2, <1>8 DEF UploadEnds, Confirms
  <2>2. /\ e = Confirmed(d, f, Chunks[c] - 1, UploadBlockRows(c, f), UploadChunkRows(c, f))
        /\ promise'[f] = Content(c)
    BY <1>6, <2>1
  <2>3. KeysOwn(c, f)
    BY <1>3, <1>8 DEF Known, TableInv, Awaiting
  <2>4. Description(e, f).blocks = InOrder(c, f)
    BY <1>4, <1>5, <2>2, <2>3, UploadDescribed
  <2>5. \A s \in ChunkPosts(c, f) : On(disk, s)
    BY <1>7, <1>8 DEF Posts
  <2> DEFINE bs == Description(e, f).blocks
  <2>6. bs = InOrder(c, f)
    BY <2>4
  <2> HIDE DEF bs
  <2>7. Content(c) \in Values /\ Held(disk, bs, Content(c))
    BY <1>1, <2>5, <2>6, HeldUpload
  <2> QED BY <1>3, <2>2, <2>7 DEF bs, e
<1>9. CASE job[c].op = "touch"
  <2>1. Confirm(c, 1, <<TouchRow(f, Home[f])>>, <<TouchChunk(f)>>, <<>>)
    BY <1>2, <1>9 DEF UploadEnds, Confirms
  <2>2. e = Confirmed(d, f, 1, <<TouchRow(f, Home[f])>>, <<TouchChunk(f)>>) /\ promise'[f] = <<>>
    BY <1>6, <2>1
  <2> DEFINE bs == Description(e, f).blocks
  <2>3. bs = <<EntryOf(TouchRow(f, Home[f]), TouchChunk(f))>>
    BY <1>1, <1>4, <2>2, TouchDescribed
  <2>4. On(disk, TouchPost(f))
    BY <1>7, <1>9 DEF Posts
  <2> HIDE DEF bs
  <2>5. <<>> \in Values /\ Held(disk, bs, <<>>)
    BY <2>3, <2>4, HeldTouch
  <2> QED BY <1>3, <2>2, <2>5 DEF bs, e
<1>10. CASE job[c].op = "put_idv"
  <2>1. \E num, blockRows, chunkRows : Confirm(c, num, blockRows, chunkRows, Apart)
    BY <1>2, <1>10 DEF UploadEnds, Confirms
  <2>2. promise'[f] = Apart
    BY <1>6, <2>1
  <2> QED BY <2>2 DEF Marked
<1> QED BY <1>8, <1>9, <1>10

\* What is promised stays true,
LEMMA PromisedKept ==
    ASSUME Settings, Known, ContentInv, [Next]_vars PROVE Promised'
<1>1. Shape /\ TypeInv /\ TableInv
  BY DEF Known, TypeInv
<1> SUFFICES ASSUME NEW f \in File, ~Marked(promise'[f])
             PROVE  promise'[f] \in Values
                    /\ Held(disk', Description(db'[Home[f]], f).blocks, promise'[f])
  BY DEF Promised, BlocksOf
<1>2. CASE \E c \in Client : Ends(c) /\ F(c) = f
  BY <1>2, EndsHeld DEF ContentInv
<1>3. CASE \A c \in Client : Ends(c) => F(c) # f
  <2>1. promise'[f] = promise[f] /\ ~Marked(promise[f]) /\ promise[f] # NoOne
    BY <1>1, <1>3, PromiseSteps DEF Marked
  <2>2. Steady(f)
    BY <2>1, SteadyFile
  <2> DEFINE bs == BlocksOf(f)
  <2>3. promise[f] \in Values /\ Held(disk, bs, promise[f])
    BY <2>1 DEF ContentInv, Promised
  <2>4. Len(bs) \in Nat /\ OwnBlocks(bs, f)
    BY <1>1, BlocksOwn
  <2>5. Description(db'[Home[f]], f).blocks = bs
    BY <2>2 DEF Steady, SameTables, BlocksOf
  <2>6. \A n \in Node : \A p \in NameOf(f) : p[2] = n => SameFile(disk[n], disk'[n], p)
    BY <2>2 DEF Steady, SameBlocks
  <2> HIDE DEF bs
  <2>7. Held(disk', bs, promise[f])
    BY <2>3, <2>4, <2>6, HeldSame
  <2> QED BY <2>1, <2>3, <2>5, <2>7
<1> QED BY <1>2, <1>3

\* A client begins to read in one way, and to wait for replies in another.
LEMMA Entries ==
    ASSUME TypeInv, TurnInv, NEW c \in Client, Step(c) \/ Crash(c)
    PROVE  /\ pc'[c] = "describe" => loc'[c].got = <<>>
           /\ pc'[c] = "read" => DownloadDescribe(c) \/ DownloadBlock(c)
           /\ pc'[c] = "await" =>
                \/ UploadInsert(c) \/ WriteFileInsert(c) \/ IdvInsert(c) \/ TouchInsert(c)
                \/ ServeBlock(c)
<1>1. Shape /\ Local(c) /\ (sent[c] # {} => pc[c] \in {"await", "crashed"})
  BY LocalShape DEF TurnInv, Posting
<1>2. ASSUME NEW j \in Job, Call(c, j)
      PROVE  pc'[c] \notin {"read", "await"} /\ (pc'[c] = "describe" => loc'[c].got = <<>>)
  <2>1. pc[c] = "idle"
    BY <1>2 DEF Call, UploadExists, DownloadExists, RemoveDescribe, Arrange, FormatBegin, Calls
  <2>2. loc[c].got = <<>>
    BY <1>1, <2>1 DEF Local, NoLocals
  <2> QED BY <1>1, <1>2, <2>1, <2>2 DEF Call, UploadExists, DownloadExists, RemoveDescribe, Arrange,
                                        FormatBegin, Enter, Goto, Shape
<1>3. ASSUME ServeBlock(c) PROVE pc'[c] \in {"await", "crashed"}
  BY <1>1, <1>3 DEF ServeBlock
<1>4. ASSUME RemoveBlock(c) \/ FormatNode(c) PROVE pc'[c] \in {"delete", "format"}
  BY <1>4 DEF RemoveBlock, FormatNode
<1>5. ASSUME \/ UploadConfirm(c) \/ WriteFileConfirm(c) \/ IdvConfirm(c) \/ TouchConfirm(c)
             \/ DownloadReturn(c) \/ RemoveFile(c) \/ FormatReturn(c) \/ DownloadDies(c) \/ Crash(c)
      PROVE  pc'[c] \in {"idle", "crashed"}
  BY <1>1, <1>5 DEF UploadConfirm, WriteFileConfirm, ConfirmChunks, IdvConfirm, TouchConfirm, Confirm,
                    DownloadReturn, RemoveFile, FormatReturn, Crash, DownloadDies, Dies, Return, Goto, Shape
<1>6. ASSUME UploadInsert(c) \/ WriteFileInsert(c) \/ IdvInsert(c) \/ TouchInsert(c)
      PROVE  pc'[c] = "await"
  BY <1>1, <1>6 DEF UploadInsert, WriteFileInsert, SendChunks, IdvInsert, TouchInsert, Goto, Shape
<1>7. ASSUME DownloadDescribe(c) \/ DownloadBlock(c) PROVE pc'[c] = "read"
  BY <1>1, <1>7 DEF DownloadDescribe, DownloadBlock, Goto, Shape
<1> QED BY <1>2, <1>3, <1>4, <1>5, <1>6, <1>7 DEF Step

\* Others do not touch what a client is reading,
LEMMA ReadUndisturbed ==
    ASSUME Settings, GetsAlone, Known, ContentInv, [Next]_vars, NEW c \in Client, pc[c] = "read",
           ~Marked(promise'[F(c)])
    PROVE  /\ F(c) \in File /\ promise'[F(c)] = promise[F(c)] /\ ~Marked(promise[F(c)])
           /\ Description(db'[Home[F(c)]], F(c)).blocks = BlocksOf(F(c))
<1>1. Shape /\ InCall /\ OneAtATime
  BY LocalShape DEF Known, TypeInv, Settings
<1>2. Active(c) /\ Busy(c) /\ job[c].op = "get"
  BY <1>1 DEF InCall, Active, Busy
<1>3. F(c) \in File /\ F(c) \in FilesOf(job[c])
  BY <1>1, <1>2, OwnFile
<1>4. ASSUME NEW d \in Client, Ends(d), F(d) = F(c) PROVE FALSE
  <2>1. pc[d] = "await" /\ Changing(d) /\ d # c
    BY <1>4 DEF Ends, UploadConfirm, WriteFileConfirm, ConfirmChunks, IdvConfirm, TouchConfirm, Changing
  <2>2. job[d].op \in Changes /\ Busy(d)
    BY <1>1, <2>1, TargetIs DEF Known, TurnInv
  <2>3. F(d) \in FilesOf(job[d])
    BY <1>1, <2>1, OwnFile DEF Active
  <2> QED BY <1>1, <1>2, <1>3, <1>4, <2>1, <2>2, <2>3 
      DEF Known, TurnInv, BusyTurns, GetsAlone, OneAtATime
<1>5. promise'[F(c)] = promise[F(c)] /\ ~Marked(promise[F(c)]) /\ promise[F(c)] # NoOne
  BY <1>1, <1>3, <1>4, PromiseSteps DEF Marked
<1>6. Steady(F(c))
  BY <1>3, <1>5, SteadyFile
<1> QED BY <1>3, <1>5, <1>6 DEF Steady, SameTables, BlocksOf

\* so that it has read a part of what is promised.
LEMMA DownloadingKept ==
    ASSUME Settings, GetsAlone, Known, ContentInv, [Next]_vars PROVE Downloading'
<1>1. Shape /\ InCall /\ TypeInv /\ TurnInv /\ DOMAIN sent = Client /\ \A c \in Client : Local(c)
  BY LocalShape DEF Known, TypeInv, Stored
<1> SUFFICES ASSUME NEW c \in Client
             PROVE  /\ pc'[c] = "describe" => loc'[c].got = <<>>
                    /\ pc'[c] = "read" /\ ~Marked(promise'[job'[c].file]) =>
                         /\ loc'[c].fd.blocks = Description(db'[Home[job'[c].file]], job'[c].file).blocks
                         /\ loc'[c].got = Prefix(promise'[job'[c].file], loc'[c].i - 1)
  BY DEF Downloading, BlocksOf, F
<1>2. CASE pc'[c] = pc[c] /\ job'[c] = job[c] /\ loc'[c] = loc[c]
  <2>1. pc'[c] = "describe" => loc'[c].got = <<>>
    BY <1>2 DEF ContentInv, Downloading
  <2>2. ASSUME pc'[c] = "read", ~Marked(promise'[job'[c].file])
        PROVE  /\ loc'[c].fd.blocks = Description(db'[Home[job'[c].file]], job'[c].file).blocks
               /\ loc'[c].got = Prefix(promise'[job'[c].file], loc'[c].i - 1)
    <3>1. pc[c] = "read" /\ ~Marked(promise'[F(c)]) /\ job'[c].file = F(c)
      BY <1>2, <2>2 DEF F
    <3>2. /\ promise'[F(c)] = promise[F(c)] /\ ~Marked(promise[F(c)])
          /\ Description(db'[Home[F(c)]], F(c)).blocks = BlocksOf(F(c))
      BY <3>1, ReadUndisturbed
    <3>3. loc[c].fd.blocks = BlocksOf(F(c)) /\ loc[c].got = Prefix(promise[F(c)], loc[c].i - 1)
      BY <3>1, <3>2 DEF ContentInv, Downloading
    <3> QED BY <1>2, <3>1, <3>2, <3>3
  <2> QED BY <2>1, <2>2
<1>3. CASE Step(c) \/ Crash(c)
  <2>1. pc'[c] = "describe" => loc'[c].got = <<>>
    BY <1>1, <1>3, Entries
  <2>2. ASSUME pc'[c] = "read", ~Marked(promise'[job'[c].file])
        PROVE  /\ loc'[c].fd.blocks = Description(db'[Home[job'[c].file]], job'[c].file).blocks
               /\ loc'[c].got = Prefix(promise'[job'[c].file], loc'[c].i - 1)
    <3>1. DownloadDescribe(c) \/ DownloadBlock(c)
      BY <1>1, <1>3, <2>2, Entries
    <3>2. UNCHANGED <<db, disk, job, promise>> /\ pc[c] \in {"describe", "read"} /\ job'[c].file = F(c)
      BY <3>1 DEF DownloadDescribe, FileRequest, DownloadBlock, servers, F
    <3>3. F(c) \in File /\ L(c) = Home[F(c)] /\ Home[F(c)] \in Node
      BY <1>1, <3>2, OwnFile DEF Active
    <3> DEFINE v == promise[F(c)]
               bs == BlocksOf(F(c))
    <3>4. v \in Values /\ Held(disk, bs, v)
      BY <2>2, <3>2, <3>3 DEF ContentInv, Promised
    <3>5. Description(db'[Home[job'[c].file]], job'[c].file).blocks = bs /\ promise'[job'[c].file] = v
          /\ ~Marked(v)
      BY <2>2, <3>2 DEF BlocksOf
    <3>6. CASE DownloadDescribe(c)
      <4>1. FileReply(L(c), F(c), FALSE) = Description(db[Home[F(c)]], F(c))
        BY <3>3, ReplyIs DEF Known
      <4>2. loc' = [loc EXCEPT ![c].fd = Description(db[Home[F(c)]], F(c))] /\ pc[c] = "describe"
        BY <3>6, <4>1 DEF DownloadDescribe
      <4>3. loc[c].i = 1 /\ loc[c].got = <<>> /\ DOMAIN loc[c] = DOMAIN NoLocals
        BY <1>1, <4>2 DEF Local, ContentInv, Downloading
      <4>4. loc'[c].fd.blocks = bs /\ loc'[c].i - 1 = 0 /\ loc'[c].got = <<>>
        BY <1>1, <4>2, <4>3 DEF Shape, NoLocals, BlocksOf
      <4>5. Prefix(v, 0) = <<>>
        BY <3>4, PrefixFacts
      <4> QED BY <3>5, <4>4, <4>5
    <3>7. CASE DownloadBlock(c)
      <4>1. /\ pc[c] = "read" /\ ~(loc[c].i > Len(loc[c].fd.blocks))
            /\ loc' = [loc EXCEPT ![c].i = @ + 1, ![c].got = @ \o ReadBlock(loc[c].fd.blocks[loc[c].i])]
        BY <3>7 DEF DownloadBlock, NextBlock, Finished
      <4> DEFINE i == loc[c].i
      <4>2. loc[c].fd.blocks = bs /\ loc[c].got = Prefix(v, i - 1)
        BY <3>5, <4>1 DEF ContentInv, Downloading
      <4>3. i \in 1 .. Pieces(v) /\ Pieces(v) = Len(bs) /\ Pieces(v) \in Nat
        BY <1>1, <3>4, <4>1, <4>2, PrefixFacts DEF Local, Held
      <4>4. ReadBlock(bs[i]) = Piece(v, i)
        BY <3>4, <4>3 DEF Held, ReadOn, ReadBlock
      <4>5. /\ loc'[c].fd = loc[c].fd /\ loc'[c].i = i + 1
            /\ loc'[c].got = loc[c].got \o ReadBlock(loc[c].fd.blocks[i])
        BY <1>1, <4>1 DEF Shape, Local, NoLocals
      <4>6. Prefix(v, i - 1) \o Piece(v, i) = Prefix(v, i)
        BY <3>4, <4>3, PrefixFacts
      <4>7. i + 1 - 1 = i
        BY <4>3
      <4> HIDE DEF i, v, bs
      <4>8. loc'[c].fd.blocks = bs
        BY <4>2, <4>5
      <4>9. ReadBlock(loc[c].fd.blocks[i]) = Piece(v, i)
        BY <4>2, <4>4
      <4>10. loc'[c].got = Prefix(v, i)
        BY <4>2, <4>5, <4>6, <4>9
      <4>11. loc'[c].i - 1 = i
        BY <4>3, <4>5
      <4> QED BY <3>5, <4>8, <4>10, <4>11
    <3> QED BY <3>1, <3>6, <3>7
  <2> QED BY <2>1, <2>2
<1>4. CASE \E d \in Client \ {c} : Step(d) \/ Crash(d)
  BY <1>1, <1>2, <1>4, Alone
<1>5. CASE Replicate \/ UNCHANGED vars
  BY <1>2, <1>5 DEF Replicate, vars, client
<1> QED BY <1>3, <1>4, <1>5 DEF Next

\* Blocks that have arrived stay until their upload ends.
LEMMA ArrivedKept ==
    ASSUME Settings, Known, Arrived, [Next]_vars PROVE Arrived'
<1>1. /\ Shape /\ InCall /\ TypeInv /\ TurnInv /\ BusyTurns /\ Posting /\ OneAtATime /\ Spread /\ OwnKeys
      /\ DOMAIN sent = Client /\ DOMAIN disk = Node
  BY LocalShape DEF Known, TypeInv, Stored, TurnInv, Settings
<1> SUFFICES ASSUME NEW c \in Client, pc'[c] = "await", job'[c].op # "put_idv"
             PROVE  sent'[c] \subseteq Posts(c)' /\ \A s \in Posts(c)' \ sent'[c] : On(disk', s)
  BY DEF Arrived
<1>2. ASSUME job'[c] = job[c] PROVE Posts(c)' = Posts(c)
  BY <1>2 DEF Posts, F
<1>3. ASSUME pc[c] = "await", job'[c] = job[c]
      PROVE  /\ job[c].op # "put_idv" /\ Changing(c) /\ F(c) \in File /\ Target(c) = {F(c)}
             /\ sent[c] \subseteq Posts(c) /\ \A s \in Posts(c) \ sent[c] : On(disk, s)
             /\ \A s \in Posts(c) : /\ s.msg.op = "INSERT" /\ s.msg.name \in NameOf(F(c))
                                    /\ s.to = s.msg.name[2] /\ s.to \in Node
             /\ \A s, t \in Posts(c) : s.msg.name = t.msg.name => s = t
  <2>1. Changing(c) /\ pc[c] # "format" /\ job[c].op # "put_idv"
    BY <1>3 DEF Changing
  <2>2. F(c) \in File /\ Target(c) = {F(c)}
    BY <1>1, <2>1, TargetIs
  <2>3. /\ \A s \in Posts(c) : /\ s.msg.op = "INSERT" /\ s.msg.name \in NameOf(F(c))
                               /\ s.to = s.msg.name[2] /\ s.to \in Node
        /\ \A s, t \in Posts(c) : s.msg.name = t.msg.name => s = t
    BY <1>1, <2>2, PostsOwn
  <2> QED BY <1>3, <2>1, <2>2, <2>3 DEF Arrived
<1>4. ASSUME pc'[c] = pc[c], job'[c] = job[c], sent'[c] = sent[c], F(c) \in File => Steady(F(c))
      PROVE  sent'[c] \subseteq Posts(c)' /\ \A s \in Posts(c)' \ sent'[c] : On(disk', s)
  <2>1. ASSUME NEW s \in Posts(c) \ sent[c] PROVE On(disk', s)
    <3>1. On(disk, s) /\ s.msg.name \in NameOf(F(c)) /\ s.to = s.msg.name[2] /\ s.to \in Node
      BY <1>3, <1>4, <2>1
    <3>2. SameFile(disk[s.to], disk'[s.to], s.msg.name)
      BY <1>3, <1>4, <3>1 DEF Steady, SameBlocks
    <3> QED BY <3>1, <3>2 DEF On, SameFile
  <2> QED BY <1>2, <1>3, <1>4, <2>1
<1>5. CASE \E d \in Client \ {c} : Step(d) \/ Crash(d)
  <2> PICK d \in Client \ {c} : Step(d) \/ Crash(d)
    BY <1>5
  <2>1. pc'[c] = pc[c] /\ job'[c] = job[c] /\ sent'[c] = sent[c]
    BY <1>1, Alone
  <2>2. ASSUME F(c) \in File PROVE Steady(F(c))
    <3>1. ~(Pending(d) /\ F(c) \in Target(d))
      <4>1. Pending(d) => Changing(d)
        BY DEF Pending, Changing
      <4>2. Changing(c) /\ F(c) \in Target(c)
        BY <1>3, <2>1
      <4> QED BY <1>1, <4>1, <4>2, OneTarget
    <3> QED BY <2>2, <3>1, StepSteady DEF Known
  <2> QED BY <1>4, <2>1, <2>2
<1>6. CASE Replicate
  <2>1. pc'[c] = pc[c] /\ job'[c] = job[c] /\ sent'[c] = sent[c]
    BY <1>6 DEF Replicate, client
  <2>2. F(c) \in File => Steady(F(c))
    BY <1>6, ReplicaSteady DEF Known
  <2> QED BY <1>4, <2>1, <2>2
<1>7. CASE UNCHANGED vars
  BY <1>4, <1>7 DEF vars, client, servers, Steady, SameTables, SameBlocks, SameFile
<1>8. CASE UploadInsert(c) \/ WriteFileInsert(c) \/ IdvInsert(c) \/ TouchInsert(c)
  <2>1. /\ UNCHANGED job
        /\ job[c].op = "touch" => sent'[c] = {TouchPost(F(c))}
        /\ job[c].op \notin {"touch", "put_idv"} => sent'[c] = ChunkPosts(c, F(c))
    BY <1>1, <1>8, UploadBeginsIs DEF UploadBegins
  <2>2. sent'[c] = Posts(c)
    BY <2>1 DEF Posts
  <2> QED BY <1>2, <2>1, <2>2
<1>9. CASE ServeBlock(c)
  <2>1. UNCHANGED <<pc, job>> /\ pc[c] = "await" /\ job'[c] = job[c]
    BY <1>1, <1>9, Serves
  <2> PICK s \in sent[c] : /\ HandleBlock(s.to, s.msg) /\ sent' = [sent EXCEPT ![c] = @ \ {s}]
                           /\ s.to \in Node /\ s.msg.op = "INSERT"
    BY <1>1, <1>9, Serves
  <2>2. sent'[c] = sent[c] \ {s} /\ s \in Posts(c)
    BY <1>1, <1>3, <2>1
  <2>3. On(disk', s)
    <3>1. disk'[s.to] = Written(disk[s.to], s.msg.name, s.msg.data)
      BY <1>1 DEF HandleBlock, Applied
    <3> QED BY <3>1 DEF Written, On
  <2>4. ASSUME NEW t \in Posts(c) \ sent[c], t # s PROVE On(disk', t)
    <3>1. On(disk, t) /\ t.to \in Node /\ t.msg.name # s.msg.name
      BY <1>3, <2>1, <2>2, <2>4
    <3>2. SameFile(disk[t.to], disk'[t.to], t.msg.name)
      <4> DEFINE n == s.to
                 m == s.msg
                 x == t.to
                 p == t.msg.name
      <4>1. /\ DOMAIN disk = Node /\ m.op \in {"INSERT", "UPDATE", "DELETE"} /\ HandleBlock(n, m)
            /\ x \in Node /\ (x # n \/ p # m.name)
        BY <1>1, <3>1
      <4> HIDE DEF n, m, x, p
      <4>2. SameFile(disk[x], disk'[x], p)
        BY <4>1, HandledElsewhere
      <4> QED BY <4>2 DEF x, p
    <3> QED BY <3>1, <3>2 DEF On, SameFile
  <2> QED BY <1>2, <1>3, <2>1, <2>2, <2>3, <2>4
<1>10. CASE Step(c) \/ Crash(c)
  BY <1>1, <1>8, <1>9, <1>10, Entries
<1> QED BY <1>5, <1>6, <1>7, <1>10 DEF Next

\* Every step keeps the contents.
LEMMA StepContent ==
    ASSUME Settings, GetsAlone, Known, ContentInv, [Next]_vars PROVE ContentInv'
BY PromisedKept, DownloadingKept, ArrivedKept DEF ContentInv

\* Nothing is promised at the start.
LEMMA InitContent == Init => ContentInv
<1> SUFFICES ASSUME Init PROVE ContentInv
  OBVIOUS
<1>1. (\A c \in Client : pc[c] = "idle") /\ (\A f \in File : promise[f] = Gone)
  BY DEF Init
<1> QED BY <1>1 DEF ContentInv, Arrived, Promised, Downloading, Marked

\* A download that has read all its blocks has read what is promised.
LEMMA ContentWhole ==
    ASSUME Known, ContentInv PROVE DownloadedWhole
<1> SUFFICES ASSUME NEW c \in Client, pc[c] = "read", Finished(c), ~Marked(promise[F(c)])
             PROVE  promise[F(c)] = loc[c].got
  BY DEF DownloadedWhole, Marked
<1>1. Shape /\ InCall /\ Local(c) /\ Active(c)
  BY LocalShape DEF Known, Active
<1>2. F(c) \in File
  BY <1>1, OwnFile
<1> DEFINE v == promise[F(c)]
           i == loc[c].i
           n == Len(loc[c].fd.blocks)
<1>3. v \in Values /\ n = Pieces(v) /\ loc[c].got = Prefix(v, i - 1)
  BY <1>2 DEF ContentInv, Promised, Downloading, Held
<1>4. Pieces(v) \in Nat /\ Prefix(v, Pieces(v)) = v
  BY <1>3, PrefixFacts
<1>5. i \in 1 .. n + 1 /\ i > n
  BY <1>1 DEF Local, Finished
<1> HIDE DEF v, i, n
<1>6. i - 1 = Pieces(v)
  BY <1>3, <1>4, <1>5
<1>7. loc[c].got = v
  BY <1>3, <1>4, <1>6
<1> QED BY <1>7 DEF v
-----------------------------------------------------------------------------
\* A download that returns has written exactly what the upload had sent that
\* created the file, if that upload has returned and no later call on the file
\* has begun: for any number of nodes, clients and files, with replication and
\* clients that die, where an upload has two chunks or more, at most one for each
\* node, and the keys that are drawn for a node are its own. The calls that
\* change a file, and those that read it, take turns (the directory has no locks).
THEOREM DownloadsWhole ==
    ASSUME OneAtATime, FormatsAlone, GetsAlone, OwnKeys, Spread PROVE Spec => []DownloadedWhole
<1> DEFINE Inv == RemovalInv /\ Known /\ ContentInv
<1> USE DEF Inv
<1>1. Settings
  BY DEF Settings
<1>2. Init => Inv
  BY InitRemoval, InitArr, InitTypes, InitTurns, InitTables, InitWires, InitContent DEF Known
<1>3. Inv /\ [Next]_vars => Inv'
  <2> SUFFICES ASSUME Inv, [Next]_vars PROVE Inv'
    OBVIOUS
  <2>1. RemovalInv' /\ TypeInv' /\ ArrangementInv'
    BY StepKeeps, StepTypes, StepArr DEF Known
  <2>2. TurnInv' /\ TableInv' /\ Wires'
    BY <1>1, StepTurns, StepTables, StepWires DEF Known
  <2>3. ContentInv'
    BY <1>1, StepContent
  <2> QED BY <2>1, <2>2, <2>3 DEF Known
<1>4. Inv => DownloadedWhole
  BY ContentWhole
<1> QED BY <1>2, <1>3, <1>4, PTL DEF Spec
-----------------------------------------------------------------------------
(* Why a primary file is there.                                            *)

Primaries     == UNION {NameOf(f) : f \in File}
Creates(t, p) == t.op = "INSERT" /\ t.name = p
Deletes(t, p) == t.op = "DELETE" /\ t.name = p

\* What a message does to one file.
LEMMA AppliedTo ==
    ASSUME NEW files, NEW t, t.op \in {"INSERT", "UPDATE", "DELETE"}, NEW p
    PROVE  /\ p \notin DOMAIN files /\ ~Creates(t, p) => p \notin DOMAIN Applied(files, t)
           /\ Deletes(t, p) => p \notin DOMAIN Applied(files, t)
           /\ Creates(t, p) => p \in DOMAIN Applied(files, t)
<1>1. CASE t.op = "INSERT"
  BY <1>1 DEF Applied, Written, Creates, Deletes
<1>2. CASE t.op = "UPDATE"
  BY <1>2 DEF Applied, Updated, Creates, Deletes
<1>3. CASE t.op = "DELETE"
  BY <1>3 DEF Applied, Removed, Restrict, Creates, Deletes
<1> QED BY <1>1, <1>2, <1>3

NoCrashes == MaxCrashes = 0
NoFormats == \A j \in Job : j.op # "format"

\* Who dies on the way does so in a download that gets no answer.
OnlyReadersDie == \A c \in Client : pc[c] = "crashed" => job[c].op = "get"

\* An upload under way creates p.
Creating(c, p) == /\ pc[c] = "await" /\ job[c].op # "put_idv" /\ F(c) \in File
                  /\ \E s \in Posts(c) : s.msg.name = p
FilesIn(bs)    == {bs[x].primary : x \in 1 .. Len(bs)}
Explained == \A f \in File : \A p \in NameOf(f) :
    p \in DOMAIN disk[p[2]] => p \in FilesIn(BlocksOf(f)) \/ \E c \in Client : Creating(c, p)

\* A removal deletes what is described, one block after the other.
Emptied == \A c \in Client : pc[c] = "delete" =>
    /\ loc[c].fd.blocks = BlocksOf(F(c))
    /\ \A x \in 1 .. loc[c].i - 1 :
           loc[c].fd.blocks[x].primary \notin DOMAIN disk[loc[c].fd.blocks[x].key]

\* Chunks that are files of their own do not look like primary files.
SentApart == \A c \in Client : pc[c] = "await" /\ job[c].op = "put_idv" =>
    \A s \in sent[c] : s.msg.name \notin Primaries

LeftInv == OnlyReadersDie /\ Arrived /\ SentApart /\ Explained /\ Emptied

\* No client crashes where none may.
LEMMA NobodyCrashes == ASSUME NoCrashes, NEW c \in Client, Crash(c) PROVE FALSE
<1> DEFINE D == {d \in Client : pc[d] = "crashed"}
<1>1. Cardinality(D) < 0
  BY DEF Crash, NoCrashes
<1>2. IsFiniteSet(D)
  BY ClientAssumption, FS_Subset
<1> HIDE DEF D
<1> QED BY <1>1, <1>2, FS_CardinalityType

\* Who dies then does so in a download.
LEMMA StepOnlyReadersDie ==
    ASSUME NoCrashes, TypeInv, TurnInv, OnlyReadersDie, [Next]_vars PROVE OnlyReadersDie'
<1>1. Shape /\ InCall /\ DOMAIN sent = Client
  BY LocalShape DEF TypeInv, Stored
<1>2. ASSUME NEW c \in Client, Step(c)
      PROVE  pc'[c] = "crashed" => job'[c].op = "get"
  <2>1. ASSUME NEW j \in Job, Call(c, j) PROVE pc'[c] # "crashed"
    BY <1>1, <2>1 DEF Call, UploadExists, DownloadExists, RemoveDescribe, Arrange, FormatBegin, Calls,
                      Enter, Goto, Shape
  <2>2. CASE UploadInsert(c) \/ WriteFileInsert(c) \/ IdvInsert(c) \/ TouchInsert(c)
    BY <1>1, <2>2 DEF UploadInsert, WriteFileInsert, SendChunks, IdvInsert, TouchInsert, Goto, Shape
  <2>3. CASE Ends(c)
    BY <1>1, <2>3 DEF Ends, UploadConfirm, WriteFileConfirm, ConfirmChunks, IdvConfirm, TouchConfirm,
                      Confirm, Return, Goto, Shape
  <2>4. CASE ServeBlock(c) \/ RemoveBlock(c) \/ FormatNode(c)
    BY <1>1, <2>4 DEF ServeBlock, RemoveBlock, FormatNode, OnlyReadersDie
  <2>5. CASE DownloadDescribe(c) \/ DownloadBlock(c)
    BY <1>1, <2>5 DEF DownloadDescribe, DownloadBlock, Goto, Shape
  <2>6. CASE DownloadReturn(c) \/ FormatReturn(c) \/ RemoveFile(c)
    BY <1>1, <2>6 DEF DownloadReturn, FormatReturn, RemoveFile, Return, Goto, Shape
  <2>7. CASE DownloadDies(c)
    <3>1. pc[c] = "read" /\ job' = job
      BY <2>7 DEF DownloadDies
    <3> QED BY <1>1, <3>1 DEF InCall
  <2> QED BY <1>2, <2>1, <2>2, <2>3, <2>4, <2>5, <2>6, <2>7 DEF Step, Ends
<1>3. CASE \E c \in Client : Step(c)
  <2> PICK c \in Client : Step(c)
    BY <1>3
  <2>1. \A d \in Client \ {c} : pc'[d] = pc[d] /\ job'[d] = job[d]
    BY <1>1, Alone
  <2> QED BY <1>2, <2>1 DEF OnlyReadersDie
<1>4. CASE Replicate \/ UNCHANGED vars
  BY <1>4 DEF Replicate, client, vars, OnlyReadersDie
<1> QED BY <1>3, <1>4, NobodyCrashes DEF Next

\* The messages of an upload by individual blocks stay apart.
LEMMA StepSentApart ==
    ASSUME Settings, TypeInv, TurnInv, SentApart, [Next]_vars PROVE SentApart'
<1>1. Shape /\ InCall /\ DOMAIN sent = Client
  BY LocalShape DEF TypeInv, Stored
<1> SUFFICES ASSUME NEW c \in Client, pc'[c] = "await", job'[c].op = "put_idv", NEW s \in sent'[c]
             PROVE  s.msg.name \notin Primaries
  BY DEF SentApart, Primaries
<1>2. CASE pc'[c] = pc[c] /\ job'[c] = job[c] /\ sent'[c] \subseteq sent[c]
  BY <1>2 DEF SentApart
<1>3. CASE \E d \in Client \ {c} : Step(d) \/ Crash(d)
  BY <1>1, <1>2, <1>3, Alone
<1>4. CASE Replicate \/ UNCHANGED vars
  BY <1>2, <1>4 DEF Replicate, client, vars
<1>5. CASE ServeBlock(c)
  <2>1. sent'[c] \subseteq sent[c]
    BY <1>1, <1>5 DEF ServeBlock
  <2> QED BY <1>2, <1>5, <2>1 DEF ServeBlock
<1>6. CASE UploadInsert(c) \/ WriteFileInsert(c) \/ TouchInsert(c)
  BY <1>1, <1>6 DEF UploadInsert, WriteFileInsert, SendChunks, TouchInsert
<1>7. CASE IdvInsert(c)
  <2> PICK k \in [Used(c, F(c)) -> Node] :
          /\ \A q \in Used(c, F(c)) : k[q] \in Key[q]
          /\ loc' = [loc EXCEPT ![c].key = k]
          /\ sent' = [sent EXCEPT ![c] =
                {[to  |-> k[Server(F(c), seq)],
                  msg |-> Message("INSERT", IdvName(F(c), seq), 0, <<Cell(c, seq)>>)] :
                    seq \in 0 .. Chunks[c] - 1}]
    BY <1>7, Zenon DEF IdvInsert
  <2>2. \E seq \in 0 .. Chunks[c] - 1 : s.msg.name = IdvName(F(c), seq)
    BY <1>1 DEF Message
  <2> QED BY <2>2, IdvNotPrimary DEF Primaries
<1>8. CASE Step(c) \/ Crash(c)
  BY <1>5, <1>6, <1>7, <1>8, Entries
<1> QED BY <1>3, <1>4, <1>8 DEF Next

\* An upload that ends has described every block it has sent.
LEMMA EndsDescribed ==
    ASSUME Settings, Known, NEW c \in Client, Ends(c), job[c].op # "put_idv", NEW f \in File, f = F(c),
           NEW s \in Posts(c)
    PROVE  s.msg.name \in FilesIn(Description(db'[Home[f]], f).blocks)
<1>1. Spread /\ Shape /\ Home[f] \in Node
  BY HomeAssumption DEF Settings, Known, TypeInv, Shape
<1>2. UploadEnds(c)
  BY <1>1, UploadEndsIs DEF Known, Ends
<1>3. pc[c] = "await"
  BY <1>2 DEF UploadEnds, Confirms
<1> DEFINE d == db[Home[f]]
           e == db'[Home[f]]
           bs == Description(e, f).blocks
<1>4. Tables(d) /\ f \in DOMAIN d.file /\ NoRows(d, f)
  <2>1. ~Exists(f)
    BY <1>3 DEF Known, ArrangementInv, Unborn
  <2> QED BY <1>1, <1>3, <2>1 DEF Known, TypeInv, Catalog, RowsIn, TableInv, Awaiting, Blank, L
<1>5. Few(c, f) /\ Chunks[c] # 1 /\ Chunks[c] \in Nat
  BY <1>1, FewOf, ChunksAssumption
<1>6. ASSUME NEW num, NEW blockRows, NEW chunkRows, NEW v, Confirm(c, num, blockRows, chunkRows, v)
      PROVE  e = Confirmed(d, f, num, blockRows, chunkRows)
  BY <1>1, <1>6 DEF Confirm, FileInsertConfirm, L, Shape
<1> HIDE DEF d, e
<1>7. CASE job[c].op # "touch"
  <2>1. Confirm(c, Chunks[c] - 1, UploadBlockRows(c, f), UploadChunkRows(c, f), Content(c))
    BY <1>2, <1>7 DEF UploadEnds, Confirms
  <2>2. e = Confirmed(d, f, Chunks[c] - 1, UploadBlockRows(c, f), UploadChunkRows(c, f))
    BY <1>6, <2>1
  <2>3. KeysOwn(c, f)
    BY <1>3, <1>7 DEF Known, TableInv, Awaiting
  <2>4. bs = InOrder(c, f)
    BY <1>4, <1>5, <2>2, <2>3, UploadDescribed
  <2> PICK q \in 0 .. Chunks[c] - 1 : s = Post(c, f, q)
    BY <1>7 DEF Posts, ChunkPosts
  <2>5. s.msg.name = PrimaryName(Server(f, q), f)
    BY DEF Post, Message
  <2>6. q + 1 \in 1 .. Chunks[c] /\ (q + 1) - 1 = q
    BY <1>5
  <2> HIDE DEF bs
  <2>7. Len(bs) = Chunks[c] /\ bs[q + 1].primary = PrimaryName(Server(f, q), f)
    BY <1>5, <2>4, <2>6, RowFields DEF InOrder, BlockOn, EntryOf
  <2>8. s.msg.name \in FilesIn(bs)
    BY <2>5, <2>6, <2>7 DEF FilesIn
  <2> QED BY <2>8 DEF bs, e
<1>8. CASE job[c].op = "touch"
  <2>1. Confirm(c, 1, <<TouchRow(f, Home[f])>>, <<TouchChunk(f)>>, <<>>)
    BY <1>2, <1>8 DEF UploadEnds, Confirms
  <2>2. e = Confirmed(d, f, 1, <<TouchRow(f, Home[f])>>, <<TouchChunk(f)>>)
    BY <1>6, <2>1
  <2>3. bs = <<EntryOf(TouchRow(f, Home[f]), TouchChunk(f))>>
    BY <1>1, <1>4, <2>2, TouchDescribed
  <2>4. s = TouchPost(f)
    BY <1>8 DEF Posts
  <2> HIDE DEF bs
  <2>5. 1 \in 1 .. Len(bs) /\ bs[1].primary = TouchName(f)
    BY <2>3 DEF EntryOf, TouchRow, BlockRow
  <2>6. s.msg.name \in FilesIn(bs)
    BY <2>4, <2>5 DEF FilesIn, TouchPost, Message
  <2> QED BY <2>6 DEF bs, e
<1> QED BY <1>7, <1>8

\* What is not there, or not all there, is not described.
LEMMA NothingDescribed ==
    ASSUME NEW d, NEW f, ~FileTableExists(d, f) PROVE Description(d, f).blocks = <<>>
BY DEF Description, NoDescription

\* Where nothing changes about a file, and its uploads go on, its files stay explained.
LEMMA ExplainedStays ==
    ASSUME Explained, NEW f \in File, Steady(f), NEW p \in NameOf(f), p \in DOMAIN disk'[p[2]],
           \A c \in Client : Creating(c, p) => Creating(c, p)'
    PROVE  p \in FilesIn(Description(db'[Home[f]], f).blocks) \/ \E c \in Client : Creating(c, p)'
<1>1. p[2] \in Node
  BY HomeAssumption DEF NameOf, PrimaryName, TouchName
<1>2. p \in DOMAIN disk[p[2]]
  BY <1>1 DEF Steady, SameBlocks, SameFile
<1>3. Description(db'[Home[f]], f).blocks = BlocksOf(f)
  BY DEF Steady, SameTables, BlocksOf
<1> QED BY <1>2, <1>3 DEF Explained

\* Who creates a file of f is uploading f.
LEMMA CreatorIs ==
    ASSUME Settings, Known, NEW f \in File, NEW p \in NameOf(f), NEW c \in Client, Creating(c, p)
    PROVE  /\ F(c) = f /\ pc[c] = "await" /\ Pending(c) /\ Changing(c) /\ Target(c) = {f}
           /\ job[c].op \in Changes /\ f \in FilesOf(job[c])
<1>1. Shape /\ InCall /\ Posting /\ Spread
  BY LocalShape DEF Known, TurnInv, Settings
<1>2. pc[c] = "await" /\ Pending(c) /\ Changing(c) /\ F(c) \in File
  BY DEF Creating, Pending, Changing
<1>3. p \in NameOf(F(c))
  BY <1>1, <1>2, PostsOwn DEF Creating
<1>4. F(c) = f
  BY <1>3, OneFileOfName
<1> QED BY <1>1, <1>2, <1>4, TargetIs

\* The steps at which a file changes, where nobody crashes and nobody formats.
LEMMA TargetSteps ==
    ASSUME NoCrashes, NoFormats, TypeInv, TurnInv, OnlyReadersDie, NEW c \in Client, Step(c) \/ Crash(c),
           NEW f \in File, Pending(c), f \in Target(c)
    PROVE  F(c) = f /\ (ServeBlock(c) \/ Ends(c) \/ RemoveBlock(c) \/ RemoveFile(c))
<1>1. Shape /\ InCall /\ Posting /\ job[c] \in Job \cup {NoJob}
  BY LocalShape DEF TurnInv, Shape
<1>2. pc[c] \in {"await", "delete", "format"}
  BY <1>1 DEF Pending, Posting, OnlyReadersDie
<1>3. job[c] \in Job /\ job[c].op # "format" /\ pc[c] # "format"
  BY <1>1, <1>2 DEF InCall, Active, NoFormats
<1>4. F(c) = f
  BY <1>3 DEF Target
<1>5. ~Crash(c)
  BY NobodyCrashes
<1>6. ASSUME NEW j \in Job, Call(c, j) PROVE FALSE
  BY <1>2, <1>6 DEF Call, UploadExists, DownloadExists, RemoveDescribe, Arrange, FormatBegin, Calls
<1>7. ~(UploadInsert(c) \/ WriteFileInsert(c) \/ IdvInsert(c) \/ TouchInsert(c))
  BY <1>2 DEF UploadInsert, WriteFileInsert, SendChunks, IdvInsert, TouchInsert
<1>8. ~(\/ DownloadDescribe(c) \/ DownloadBlock(c) \/ DownloadDies(c) \/ DownloadReturn(c)
        \/ FormatNode(c) \/ FormatReturn(c))
  BY <1>2, <1>3 DEF DownloadDescribe, DownloadBlock, DownloadDies, DownloadReturn, FormatNode, FormatReturn
<1> QED BY <1>4, <1>5, <1>6, <1>7, <1>8 DEF Step, Ends

\* Every step keeps the files explained.
LEMMA StepExplained ==
    ASSUME Settings, NoCrashes, NoFormats, Known, LeftInv, [Next]_vars PROVE Explained'
<1>1. /\ Shape /\ InCall /\ TypeInv /\ TurnInv /\ TableInv /\ DOMAIN sent = Client /\ DOMAIN disk = Node
      /\ DOMAIN db = Node /\ Explained /\ Emptied /\ Arrived /\ SentApart /\ OnlyReadersDie /\ Wires
  BY LocalShape DEF Known, TypeInv, Stored, LeftInv, Shape
<1> SUFFICES ASSUME NEW f \in File, NEW p \in NameOf(f), p \in DOMAIN disk'[p[2]]
             PROVE  p \in FilesIn(Description(db'[Home[f]], f).blocks)
                    \/ \E c \in Client : Creating(c, p)'
  BY DEF Explained, BlocksOf
<1>2. p[2] \in Node /\ Home[f] \in Node
  BY HomeAssumption DEF NameOf, PrimaryName, TouchName
<1>3. ASSUME NEW c \in Client, pc'[c] = pc[c], job'[c] = job[c], Creating(c, p) PROVE Creating(c, p)'
  BY <1>3 DEF Creating, F, Posts
<1>4. CASE Replicate \/ UNCHANGED vars
  <2>1. Steady(f)
    BY <1>1, <1>4, ReplicaSteady DEF vars, servers, Steady, SameTables, SameBlocks, SameFile
  <2>2. UNCHANGED <<pc, job>>
    BY <1>4 DEF Replicate, client, vars
  <2> QED BY <1>1, <1>3, <2>1, <2>2, ExplainedStays
<1>5. ASSUME NEW c \in Client, Step(c) \/ Crash(c), ~(Pending(c) /\ f \in Target(c))
      PROVE  p \in FilesIn(Description(db'[Home[f]], f).blocks) \/ \E d \in Client : Creating(d, p)'
  <2>1. Steady(f)
    BY <1>1, <1>5, StepSteady
  <2>2. ASSUME NEW d \in Client, Creating(d, p) PROVE Creating(d, p)'
    <3>1. d # c
      BY <1>5, <2>2, CreatorIs
    <3> QED BY <1>1, <1>3, <1>5, <2>2, <3>1, Alone
  <2> QED BY <1>1, <2>1, <2>2, ExplainedStays
<1>6. ASSUME NEW c \in Client, Step(c) \/ Crash(c), Pending(c), f \in Target(c)
      PROVE  p \in FilesIn(Description(db'[Home[f]], f).blocks) \/ \E d \in Client : Creating(d, p)'
  <2>1. F(c) = f /\ (ServeBlock(c) \/ Ends(c) \/ RemoveBlock(c) \/ RemoveFile(c))
    BY <1>1, <1>6, TargetSteps
  <2>2. Changing(c)
    BY <1>6 DEF Pending, Changing
  <2>3. ASSUME NEW d \in Client, Creating(d, p) PROVE d = c
    <3>1. Changing(d) /\ f \in Target(d)
      BY <2>3, CreatorIs
    <3> QED BY <1>1, <1>6, <2>2, <3>1, OneTarget DEF Settings, TurnInv
  <2>4. p \in DOMAIN disk[p[2]] => p \in FilesIn(BlocksOf(f)) \/ Creating(c, p)
    BY <1>1, <2>3 DEF Explained
  <2>5. CASE ServeBlock(c)
    <3>1. UNCHANGED <<db, pc, job>>
      BY <1>1, <2>5, Serves
    <3> PICK s \in sent[c] : HandleBlock(s.to, s.msg) /\ s.to \in Node /\ s.msg.op = "INSERT"
      BY <1>1, <2>5, Serves
    <3>2. CASE p \in DOMAIN disk[p[2]]
      BY <1>3, <2>4, <3>1, <3>2 DEF BlocksOf
    <3>3. CASE p \notin DOMAIN disk[p[2]]
      <4> DEFINE n == s.to
                 m == s.msg
                 x == p[2]
      <4>1. /\ DOMAIN disk = Node /\ m.op \in {"INSERT", "UPDATE", "DELETE"} /\ HandleBlock(n, m)
            /\ x \in Node
        BY <1>1, <1>2
      <4> HIDE DEF n, m, x
      <4>2. p # m.name => SameFile(disk[x], disk'[x], p)
        BY <4>1, HandledElsewhere
      <4>3. p = s.msg.name
        BY <3>3, <4>2 DEF m, x, SameFile
      <4>4. pc[c] = "await" /\ job[c].op # "put_idv"
        <5>1. pc[c] = "await"
          BY <1>1 DEF TurnInv, Posting, OnlyReadersDie
        <5> QED BY <1>1, <4>3, <5>1 DEF SentApart, Primaries
      <4>5. s \in Posts(c)
        BY <1>1, <4>4 DEF Arrived
      <4>6. Creating(c, p)
        BY <2>1, <4>3, <4>4, <4>5 DEF Creating
      <4> QED BY <1>3, <3>1, <4>6
    <3> QED BY <3>2, <3>3
  <2>6. CASE Ends(c)
    <3>1. UNCHANGED disk /\ pc[c] = "await"
      BY <2>6 DEF Ends, UploadConfirm, WriteFileConfirm, ConfirmChunks, IdvConfirm, TouchConfirm,
                  Confirm, FileInsertConfirm
    <3>2. ~Exists(f)
      BY <2>1, <3>1 DEF Known, ArrangementInv, Unborn
    <3>3. BlocksOf(f) = <<>>
      BY <3>2, NothingDescribed DEF Exists, BlocksOf
    <3>4. Creating(c, p)
      BY <2>4, <3>1, <3>3 DEF FilesIn
    <3> PICK s \in Posts(c) : s.msg.name = p /\ job[c].op # "put_idv"
      BY <3>4 DEF Creating
    <3> QED BY <2>1, <2>6, EndsDescribed
  <2>7. CASE RemoveBlock(c)
    <3>1. UNCHANGED <<db, pc, job>>
      BY <1>1, <2>7, Removes
    <3> PICK n \in Node, q \in NameOf(F(c)) : HandleBlock(n, Message("DELETE", q, 0, <<>>))
      BY <1>1, <2>7, Removes
    <3> DEFINE m == Message("DELETE", q, 0, <<>>)
    <3>2. m.op \in {"INSERT", "UPDATE", "DELETE"} /\ ~Creates(m, p) /\ HandleBlock(n, m)
      BY DEF Message, Creates
    <3> HIDE DEF m
    <3>3. disk' = [disk EXCEPT ![n] = Applied(@, m)]
      BY <3>2 DEF HandleBlock
    <3>4. p \in DOMAIN disk[p[2]]
      <4>1. CASE p[2] = n
        BY <1>1, <3>2, <3>3, <4>1, AppliedTo
      <4>2. CASE p[2] # n
        BY <1>1, <1>2, <3>3, <4>2
      <4> QED BY <4>1, <4>2
    <3> QED BY <1>3, <2>4, <3>1, <3>4 DEF BlocksOf
  <2>8. CASE RemoveFile(c)
    <3>1. pc[c] = "delete" /\ Finished(c)
      BY <2>8 DEF RemoveFile
    <3>2. ~Creating(c, p)
      BY <3>1 DEF Creating
    <3>3. CASE UNCHANGED servers
      <4>1. UNCHANGED <<db, disk>>
        BY <3>3 DEF servers
      <4> QED BY <2>4, <3>2, <4>1 DEF BlocksOf
    <3>4. CASE FileDelete(L(c), F(c))
      <4>1. p \in FilesIn(BlocksOf(f))
        BY <2>4, <3>2, <3>4 DEF FileDelete
      <4> DEFINE bs == loc[c].fd.blocks
                 i == loc[c].i
      <4>2. bs = BlocksOf(f) /\ \A x \in 1 .. i - 1 : bs[x].primary \notin DOMAIN disk[bs[x].key]
        BY <1>1, <2>1, <3>1 DEF Emptied
      <4>3. Len(bs) \in Nat /\ \A x \in 1 .. Len(bs) : bs[x].key = bs[x].primary[2]
        BY <1>1, <4>2, BlocksOwn DEF OwnBlocks
      <4>4. i \in 1 .. Len(bs) + 1 /\ i > Len(bs)
        BY <1>1, <3>1, LocalShape DEF Local, Finished
      <4> HIDE DEF bs, i
      <4>5. PICK x \in 1 .. Len(bs) : bs[x].primary = p
        BY <4>1, <4>2 DEF FilesIn
      <4>6. x \in 1 .. i - 1
        BY <4>3, <4>4, <4>5
      <4>7. p \notin DOMAIN disk[p[2]]
        BY <4>2, <4>3, <4>5, <4>6
      <4> QED BY <3>4, <4>7 DEF FileDelete
    <3> QED BY <2>8, <3>3, <3>4 DEF RemoveFile
  <2> QED BY <2>1, <2>5, <2>6, <2>7, <2>8
<1> QED BY <1>4, <1>5, <1>6 DEF Next

\* Every step of a removal leaves nothing of the blocks it has passed.
LEMMA StepEmptied ==
    ASSUME Settings, Known, Emptied, [Next]_vars PROVE Emptied'
<1>1. /\ Shape /\ InCall /\ TypeInv /\ TurnInv /\ TableInv /\ DOMAIN sent = Client /\ DOMAIN disk = Node
      /\ ArrangementInv /\ Wires
  BY LocalShape DEF Known, TypeInv, Stored
<1> SUFFICES ASSUME NEW c \in Client, pc'[c] = "delete"
             PROVE  /\ loc'[c].fd.blocks = Description(db'[Home[job'[c].file]], job'[c].file).blocks
                    /\ \A x \in 1 .. loc'[c].i - 1 : loc'[c].fd.blocks[x].primary
                           \notin DOMAIN disk'[loc'[c].fd.blocks[x].key]
  BY DEF Emptied, BlocksOf, F
<1>2. ASSUME pc[c] = "delete"
      PROVE  /\ Pending(c) /\ Changing(c) /\ F(c) \in File /\ F(c) \in Target(c)
             /\ Len(loc[c].fd.blocks) \in Nat /\ OwnBlocks(loc[c].fd.blocks, F(c))
             /\ loc[c].i \in 1 .. Len(loc[c].fd.blocks) + 1
             /\ loc[c].fd.blocks = BlocksOf(F(c))
             /\ \A x \in 1 .. loc[c].i - 1 :
                    loc[c].fd.blocks[x].primary \notin DOMAIN disk[loc[c].fd.blocks[x].key]
  <2>1. Pending(c) /\ Changing(c) /\ pc[c] # "format"
    BY <1>2 DEF Pending, Changing
  <2>2. F(c) \in File /\ F(c) \in Target(c)
    BY <1>1, <2>1, TargetIs DEF TurnInv
  <2> QED BY <1>1, <1>2, <2>1, <2>2, LocalShape DEF TableInv, Deleting, Emptied, Local
<1>3. ASSUME pc'[c] = pc[c], job'[c] = job[c], loc'[c] = loc[c], F(c) \in File => Steady(F(c))
      PROVE  /\ loc'[c].fd.blocks = Description(db'[Home[job'[c].file]], job'[c].file).blocks
             /\ \A x \in 1 .. loc'[c].i - 1 : loc'[c].fd.blocks[x].primary
                    \notin DOMAIN disk'[loc'[c].fd.blocks[x].key]
  <2> DEFINE bs == loc[c].fd.blocks
             i == loc[c].i
             f == F(c)
  <2>1. /\ f \in File /\ Len(bs) \in Nat /\ OwnBlocks(bs, f) /\ i \in 1 .. Len(bs) + 1
        /\ bs = BlocksOf(f) /\ \A x \in 1 .. i - 1 : bs[x].primary \notin DOMAIN disk[bs[x].key]
        /\ Steady(f)
    BY <1>2, <1>3
  <2>2. bs = Description(db'[Home[f]], f).blocks
    BY <2>1 DEF Steady, SameTables, BlocksOf
  <2> HIDE DEF bs, i, f
  <2>3. ASSUME NEW x \in 1 .. i - 1 PROVE bs[x].primary \notin DOMAIN disk'[bs[x].key]
    <3>1. x \in 1 .. Len(bs)
      BY <2>1
    <3>2. bs[x].key \in Node /\ bs[x].primary \in NameOf(f) /\ bs[x].primary[2] = bs[x].key
      BY <2>1, <3>1 DEF OwnBlocks
    <3>3. SameFile(disk[bs[x].key], disk'[bs[x].key], bs[x].primary)
      BY <2>1, <3>2 DEF Steady, SameBlocks
    <3> QED BY <2>1, <3>3 DEF SameFile
  <2> QED BY <1>3, <2>2, <2>3 DEF bs, i, f, F
<1>4. CASE Replicate \/ UNCHANGED vars
  <2>1. UNCHANGED <<pc, job, loc>>
    BY <1>4 DEF Replicate, client, vars
  <2>2. F(c) \in File => Steady(F(c))
    BY <1>1, <1>4, ReplicaSteady DEF vars, servers, Steady, SameTables, SameBlocks, SameFile
  <2> QED BY <1>3, <2>1, <2>2
<1>5. CASE \E d \in Client \ {c} : Step(d) \/ Crash(d)
  <2> PICK d \in Client \ {c} : Step(d) \/ Crash(d)
    BY <1>5
  <2>1. pc'[c] = pc[c] /\ job'[c] = job[c] /\ loc'[c] = loc[c]
    BY <1>1, Alone
  <2>2. ASSUME F(c) \in File PROVE Steady(F(c))
    <3>1. ~(Pending(d) /\ F(c) \in Target(d))
      <4>1. Pending(d) => Changing(d)
        BY DEF Pending, Changing
      <4>2. Changing(c) /\ F(c) \in Target(c)
        BY <1>2, <2>1
      <4> QED BY <1>1, <4>1, <4>2, OneTarget DEF Settings, TurnInv
    <3> QED BY <1>1, <2>2, <3>1, StepSteady
  <2> QED BY <1>3, <2>1, <2>2
<1>6. CASE \E j \in Job : RemoveDescribe(c, j)
  <2> PICK j \in Job : RemoveDescribe(c, j)
    BY <1>6
  <2>1. /\ j.file \in File /\ UNCHANGED <<db, disk>> /\ job' = [job EXCEPT ![c] = j]
    BY <1>1, DeletesOwn
  <2>2. pc[c] = "idle" /\ loc[c] = NoLocals
    BY <1>1, LocalShape DEF RemoveDescribe, Calls, Local
  <2>3. loc' = [loc EXCEPT ![c].fd = Description(db[Home[j.file]], j.file)]
    BY <1>1, <2>1, ReplyIs DEF RemoveDescribe
  <2>4. loc'[c].fd = Description(db[Home[j.file]], j.file) /\ loc'[c].i = 1 /\ job'[c] = j
    BY <1>1, <2>1, <2>2, <2>3 DEF Shape, NoLocals
  <2> QED BY <2>1, <2>4
<1>7. CASE RemoveBlock(c)
  <2>1. pc[c] = "delete" /\ ~Finished(c) /\ UNCHANGED <<db, pc, job>> /\ Local(c)
    BY <1>1, <1>7, LocalShape DEF RemoveBlock
  <2> DEFINE bs == loc[c].fd.blocks
             i == loc[c].i
             f == F(c)
             m == Message("DELETE", bs[i].primary, 0, <<>>)
             n == bs[i].key
  <2>2. /\ f \in File /\ Len(bs) \in Nat /\ OwnBlocks(bs, f) /\ i \in 1 .. Len(bs) + 1 /\ ~(i > Len(bs))
        /\ bs = BlocksOf(f) /\ \A x \in 1 .. i - 1 : bs[x].primary \notin DOMAIN disk[bs[x].key]
    BY <1>2, <2>1 DEF Finished
  <2>3. loc'[c].fd.blocks = bs /\ loc'[c].i = i + 1 /\ job'[c] = job[c]
    BY <1>1, <1>7, <2>1 DEF RemoveBlock, Local, NoLocals, Shape
  <2>4. HandleBlock(n, m)
    BY <1>7 DEF RemoveBlock, NextBlock
  <2>5. m.op = "DELETE" /\ m.name = bs[i].primary
    BY DEF Message
  <2>6. disk' = [disk EXCEPT ![n] = Applied(@, m)]
    BY <2>4 DEF HandleBlock
  <2> HIDE DEF bs, i, f, m, n
  <2>7. i \in 1 .. Len(bs) /\ i \in Nat
    BY <2>2
  <2>8. ASSUME NEW x \in 1 .. i PROVE bs[x].primary \notin DOMAIN disk'[bs[x].key]
    <3> DEFINE p == bs[x].primary
               k == bs[x].key
    <3>1. k \in Node
      BY <2>2, <2>7 DEF OwnBlocks
    <3>2. x = i \/ p \notin DOMAIN disk[k]
      BY <2>2, <2>7
    <3>3. ~Creates(m, p) /\ (x = i => Deletes(m, p) /\ k = n)
      BY <2>5 DEF Creates, Deletes, n
    <3> HIDE DEF p, k
    <3>4. k = n => p \notin DOMAIN Applied(disk[n], m)
      BY <2>5, <3>2, <3>3, AppliedTo
    <3>5. p \notin DOMAIN disk'[k]
      BY <1>1, <2>6, <3>1, <3>2, <3>3, <3>4
    <3> QED BY <3>5 DEF p, k
  <2>9. \A x \in 1 .. loc'[c].i - 1 : loc'[c].fd.blocks[x].primary
            \notin DOMAIN disk'[loc'[c].fd.blocks[x].key]
    BY <2>3, <2>7, <2>8
  <2> QED BY <2>1, <2>2, <2>3, <2>9 DEF BlocksOf, f, F
<1>8. CASE Step(c) \/ Crash(c)
  <2>1. ASSUME NEW j \in Job, Call(c, j) PROVE RemoveDescribe(c, j)
    BY <1>1, <2>1 DEF Call, UploadExists, DownloadExists, Arrange, FormatBegin, Calls, Enter, Goto, Shape
  <2>2. ~(UploadInsert(c) \/ WriteFileInsert(c) \/ IdvInsert(c) \/ TouchInsert(c))
    BY <1>1 DEF UploadInsert, WriteFileInsert, SendChunks, IdvInsert, TouchInsert, Goto, Shape
  <2>3. ~(ServeBlock(c) \/ Ends(c))
    BY <1>1 DEF ServeBlock, TurnInv, Posting, Ends, UploadConfirm, WriteFileConfirm, ConfirmChunks,
                IdvConfirm, TouchConfirm, Confirm, Return, Goto, Shape
  <2>4. ~(DownloadDescribe(c) \/ DownloadBlock(c) \/ DownloadReturn(c) \/ RemoveFile(c) \/ DownloadDies(c) \/ Crash(c))
    BY <1>1 DEF DownloadDescribe, DownloadBlock, DownloadReturn, RemoveFile, Crash, DownloadDies, Dies, Return, Goto, Shape
  <2>5. ~(FormatNode(c) \/ FormatReturn(c))
    BY <1>1 DEF FormatNode, FormatReturn, Return, Goto, Shape
  <2> QED BY <1>6, <1>7, <1>8, <2>1, <2>2, <2>3, <2>4, <2>5 DEF Step, Ends
<1> QED BY <1>4, <1>5, <1>8 DEF Next

\* Every step keeps the invariant,
LEMMA StepLeft ==
    ASSUME Settings, NoCrashes, NoFormats, Known, LeftInv, [Next]_vars PROVE LeftInv'
<1>1. TypeInv /\ TurnInv
  BY DEF Known
<1>2. OnlyReadersDie'
  BY <1>1, StepOnlyReadersDie DEF LeftInv
<1>3. Arrived' /\ SentApart' /\ Emptied'
  BY <1>1, ArrivedKept, StepSentApart, StepEmptied DEF LeftInv
<1>4. Explained'
  BY StepExplained
<1> QED BY <1>2, <1>3, <1>4 DEF LeftInv

\* which holds at the start,
LEMMA InitLeft == Init => LeftInv
<1> SUFFICES ASSUME Init PROVE LeftInv
  OBVIOUS
<1>1. (\A c \in Client : pc[c] = "idle") /\ (\A n \in Node : DOMAIN disk[n] = {})
  BY DEF Init, BlockInit, NoFiles
<1>2. \A f \in File : \A p \in NameOf(f) : p[2] \in Node
  BY HomeAssumption DEF NameOf, PrimaryName, TouchName
<1> QED BY <1>1, <1>2 DEF LeftInv, OnlyReadersDie, Arrived, SentApart, Explained, Emptied

\* and says that nothing is left when nobody works on the file.
LEMMA NothingLeft ==
    ASSUME OneAtATime, Settings, Known, LeftInv PROVE NoPrimaryLeft
<1> SUFFICES ASSUME NEW f \in File, Quiet(f), f \notin DOMAIN db[Home[f]].file, NEW n \in Node,
                    PrimaryName(n, f) \in DOMAIN disk[n]
             PROVE  FALSE
  BY DEF NoPrimaryLeft
<1> DEFINE p == PrimaryName(n, f)
<1>1. p \in NameOf(f) /\ p[2] = n
  BY DEF NameOf, PrimaryName
<1>2. BlocksOf(f) = <<>>
  BY NothingDescribed DEF BlocksOf, FileTableExists
<1> HIDE DEF p
<1>3. ASSUME NEW c \in Client, Creating(c, p) PROVE FALSE
  <2>1. pc[c] = "await" /\ job[c].op \in Changes /\ f \in FilesOf(job[c])
    BY <1>1, <1>3, CreatorIs
  <2> QED BY <2>1 DEF Quiet, OneAtATime
<1>4. p \in DOMAIN disk[p[2]]
  BY <1>1 DEF p
<1> QED BY <1>1, <1>2, <1>3, <1>4 DEF LeftInv, Explained, FilesIn
-----------------------------------------------------------------------------
\* Once nobody works on a file that its leader has no row of, no node has kept the
\* primary file of it that is its own: for any number of nodes, clients, files and
\* calls, where an upload has two chunks or more, at most one for each node, and
\* the keys that are drawn for a node are its own. The calls that change a file
\* take turns, no client crashes and no call is a format: what a dead upload has
\* sent, or is sent while a format goes from node to node, stays. Nothing is said
\* of the copies, which a removal overtaken by an older message does leave.
THEOREM RemovalsLeaveNoPrimary ==
    ASSUME OneAtATime, NoCrashes, NoFormats, OwnKeys, Spread PROVE Spec => []NoPrimaryLeft
<1> DEFINE Inv == RemovalInv /\ Known /\ LeftInv
<1> USE DEF Inv
<1>1. Settings /\ FormatsAlone
  BY DEF Settings, NoFormats, FormatsAlone
<1>2. Init => Inv
  BY InitRemoval, InitArr, InitTypes, InitTurns, InitTables, InitWires, InitLeft DEF Known
<1>3. Inv /\ [Next]_vars => Inv'
  <2> SUFFICES ASSUME Inv, [Next]_vars PROVE Inv'
    OBVIOUS
  <2>1. RemovalInv' /\ TypeInv' /\ ArrangementInv'
    BY <1>1, StepKeeps, StepTypes, StepArr DEF Known
  <2>2. TurnInv' /\ TableInv' /\ Wires'
    BY <1>1, StepTurns, StepTables, StepWires DEF Known, Settings
  <2>3. LeftInv'
    BY <1>1, StepLeft
  <2> QED BY <2>1, <2>2, <2>3 DEF Known
<1>4. Inv => NoPrimaryLeft
  BY <1>1, NothingLeft
<1> QED BY <1>2, <1>3, <1>4, PTL DEF Spec
=============================================================================
