--------------------------- MODULE PlacementProofs ---------------------------
(***************************************************************************)
(* A key drawn for a server belongs to that server, unless it is the key on*)
(* the lower boundary: for any number of servers and any range of keys.    *)
(***************************************************************************)
EXTENDS Placement, TLAPS

\* Division rounds down, and so keeps the order of products.
LEMMA DivisionMonotone ==
    ASSUME NEW a \in Nat, NEW b \in Nat, a <= b, NEW d \in Nat \ {0}
    PROVE  /\ a \div d \in Nat
           /\ a \div d <= b \div d
    OBVIOUS

LEMMA DivisionBelow ==
    ASSUME NEW m \in Nat, NEW i \in Nat, NEW d \in Nat \ {0}, i <= d
    PROVE  (m * i) \div d <= m
    OBVIOUS

\* The boundaries are keys, and they grow.
LEMMA BoundaryType ==
    ASSUME NumServer \in Nat \ {0}, MaxKey \in Nat, NEW i \in Server
    PROVE  Boundary(i) \in 0 .. MaxKey
<1>1. CASE i = NumServer - 1
  BY <1>1 DEF Boundary
<1>2. CASE i # NumServer - 1
  <2>1. i + 1 \in Nat /\ i + 1 <= NumServer
    BY DEF Server
  <2>2. MaxKey * (i + 1) \in Nat
    BY <2>1
  <2>3. (MaxKey * (i + 1)) \div NumServer \in Nat
    BY <2>2, DivisionMonotone
  <2>4. (MaxKey * (i + 1)) \div NumServer <= MaxKey
    BY <2>1, DivisionBelow
  <2> QED BY <1>2, <2>3, <2>4 DEF Boundary
<1> QED BY <1>1, <1>2

LEMMA BoundaryGrows ==
    ASSUME NumServer \in Nat \ {0}, MaxKey \in Nat,
           NEW i \in Server, NEW j \in Server, i <= j
    PROVE  Boundary(i) <= Boundary(j)
<1>1. CASE j = NumServer - 1
  <2>1. Boundary(j) = MaxKey
    BY <1>1 DEF Boundary
  <2> QED BY <2>1, BoundaryType
<1>2. CASE j # NumServer - 1
  <2>1. i # NumServer - 1
    BY <1>2 DEF Server
  <2>2. i + 1 \in Nat /\ j + 1 \in Nat /\ i + 1 <= j + 1
    BY DEF Server
  <2>3. /\ MaxKey * (i + 1) \in Nat
        /\ MaxKey * (j + 1) \in Nat
        /\ MaxKey * (i + 1) <= MaxKey * (j + 1)
    BY <2>2
  <2>4. (MaxKey * (i + 1)) \div NumServer <= (MaxKey * (j + 1)) \div NumServer
    BY <2>3, DivisionMonotone
  <2> QED BY <1>2, <2>1, <2>4 DEF Boundary
<1> QED BY <1>1, <1>2

\* A key above the boundary of the server before and not above its own belongs
\* to the server.
LEMMA IndexOf ==
    ASSUME NumServer \in Nat \ {0}, MaxKey \in Nat, NEW s \in Server, NEW key \in Nat,
           key <= Boundary(s), s = 0 \/ key > Boundary(s - 1)
    PROVE  GetIndex(key) = s
<1> DEFINE First(i) == /\ key <= Boundary(i)
                       /\ \A j \in 0 .. i - 1 : key > Boundary(j)
<1>1. First(s)
  <2>1. ASSUME NEW j \in 0 .. s - 1 PROVE key > Boundary(j)
    <3>1. s \in Nat /\ s # 0 /\ s - 1 \in Server /\ j \in Server /\ j <= s - 1
      BY DEF Server
    <3>2. Boundary(j) <= Boundary(s - 1)
      BY <3>1, BoundaryGrows
    <3>3. Boundary(j) \in Nat /\ Boundary(s - 1) \in Nat
      BY <3>1, BoundaryType
    <3> QED BY <3>1, <3>2, <3>3
  <2> QED BY <2>1
<1>2. ASSUME NEW i \in Server, First(i) PROVE i = s
  <2>1. Boundary(s) \in Nat /\ Boundary(i) \in Nat
    BY BoundaryType
  <2>2. ~(i < s)
    <3>1. SUFFICES ASSUME i < s PROVE FALSE
      OBVIOUS
    <3>2. i \in 0 .. s - 1
      BY <3>1 DEF Server
    <3>3. key > Boundary(i)
      BY <1>1, <3>2
    <3> QED BY <1>2, <2>1, <3>3
  <2>3. ~(s < i)
    <3>1. SUFFICES ASSUME s < i PROVE FALSE
      OBVIOUS
    <3>2. s \in 0 .. i - 1
      BY <3>1 DEF Server
    <3>3. key > Boundary(s)
      BY <1>2, <3>2
    <3> QED BY <2>1, <3>3
  <2> QED BY <2>2, <2>3 DEF Server
<1> HIDE DEF First
<1>3. GetIndex(key) = CHOOSE i \in Server : First(i)
  BY DEF GetIndex, First
<1> QED BY <1>1, <1>2, <1>3

\* Everybody finds the node of a primary file by the key alone: a key that
\* random_within_boundaries draws for a server is one get_index gives back to
\* it, except the lower boundary itself (histogram.cc, line 261).
THEOREM OnServer ==
    ASSUME NumServer \in Nat \ {0}, MaxKey \in Nat, NEW s \in Server,
           NEW key \in Drawn(s), key # LowerBoundary(s)
    PROVE  GetIndex(key) = s
<1>1. Boundary(s) \in Nat
  BY BoundaryType
<1>2. CASE s = 0
  <2>1. key \in Nat /\ key <= Boundary(s)
    BY <1>1, <1>2 DEF Drawn, LowerBoundary
  <2> QED BY <1>2, <2>1, IndexOf
<1>3. CASE s # 0
  <2>1. s - 1 \in Server
    BY <1>3 DEF Server
  <2>2. Boundary(s - 1) \in Nat
    BY <2>1, BoundaryType
  <2>3. key \in Nat /\ key <= Boundary(s) /\ key > Boundary(s - 1)
    BY <1>1, <1>3, <2>2 DEF Drawn, LowerBoundary
  <2> QED BY <2>3, IndexOf
<1> QED BY <1>2, <1>3

\* That key belongs to an earlier server, so a primary file on it is looked for,
\* by everybody, on a node next to the one the client chose.
THEOREM OnServerBefore ==
    ASSUME NumServer \in Nat \ {0}, MaxKey \in Nat, NEW s \in Server, s # 0,
           s = 1 \/ Boundary(s - 1) > Boundary(s - 2)
    PROVE  GetIndex(LowerBoundary(s)) = s - 1
<1>1. s - 1 \in Server
  BY DEF Server
<1>2. Boundary(s - 1) \in Nat /\ LowerBoundary(s) = Boundary(s - 1)
  BY <1>1, BoundaryType DEF LowerBoundary
<1>3. s - 1 = 0 \/ Boundary(s - 1) > Boundary((s - 1) - 1)
  BY <1>1 DEF Server
<1> QED BY <1>1, <1>2, <1>3, IndexOf
=============================================================================
