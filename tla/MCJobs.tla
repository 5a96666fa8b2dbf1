------------------------------- MODULE MCJobs -------------------------------
(* An instance of Jobs on a ring of three: all files of up to three chunks *)
(* that begin on node 0, and two longer ones with more than one chunk on a *)
(* node.                                                                   *)
EXTENDS Jobs

ShortFiles == {h \in UNION {[1 .. len -> Node] : len \in 1 .. 3} : h[1] = 0}
LongFiles  == {<<0, 1, 2, 0>>, <<0, 2, 1, 1>>}
Files      == ShortFiles \cup LongFiles
AnyJob     == Permutations(Job)
=============================================================================
