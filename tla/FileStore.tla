------------------------------ MODULE FileStore ------------------------------
(***************************************************************************)
(* What the file system promises whoever reads a file: the whole contents  *)
(* of one put appear at once, and never change until a removal takes the   *)
(* file apart. VeloxFS implements it as long as calls on the same file do  *)
(* not overlap.                                                            *)
(***************************************************************************)
CONSTANTS File, Value, Absent, Torn

VARIABLE view    \* what reading a file gives

Init == view = [f \in File |-> Absent]

Publish(f) == view[f] = Absent /\ view' \in {[view EXCEPT ![f] = v] : v \in Value}
Tear(f)    == view[f] \in Value /\ view' = [view EXCEPT ![f] = Torn]
Drop(f)    == view[f] # Absent /\ view' = [view EXCEPT ![f] = Absent]

\* The first conjunct follows from the second; where view is long to compute it
\* tells the many stuttering steps at once.
Next == view' # view /\ \E f \in File : Publish(f) \/ Tear(f) \/ Drop(f)
Spec == Init /\ [][Next]_view
=============================================================================
