------------------------------ MODULE Placement ------------------------------
(***************************************************************************)
(* Which node a hash key belongs to (common/histogram.cc). The keys        *)
(* 0 .. MaxKey are cut into one range for each server; a client draws a key*)
(* from the range of the server it has chosen for a primary file, and      *)
(* everybody finds the node by the key alone.                              *)
(***************************************************************************)
EXTENDS Integers

CONSTANTS NumServer,
          MaxKey      \* MAX_UINT

Server == 0 .. NumServer - 1

\* initialize: the last key of each range. The product is taken in floating
\* point; only that the boundaries grow matters.
Boundary(i) == IF i = NumServer - 1 THEN MaxKey ELSE (MaxKey * (i + 1)) \div NumServer

\* get_index: the first server whose boundary the key does not exceed.
GetIndex(key) == CHOOSE i \in Server : /\ key <= Boundary(i)
                                       /\ \A j \in 0 .. i - 1 : key > Boundary(j)

\* random_within_boundaries: rand() % range + lower_boundary, where the lower
\* boundary is the last key of the server before, and the upper one is left out.
LowerBoundary(i) == IF i = 0 THEN 0 ELSE Boundary(i - 1)
Drawn(i) == LowerBoundary(i) .. Boundary(i) - 1
=============================================================================
