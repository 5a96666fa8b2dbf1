------------------------------ MODULE MCVeloxFS ------------------------------
(* Instances of VeloxFS: one file, two clients, up to three nodes.         *)
EXTENDS VeloxFS

CONSTANTS c1, c2, f

JobsOf(ops) == {[op |-> op, file |-> f] : op \in ops}
WithArrange   == JobsOf({"put", "put_idv", "get", "rm", "arrange"})
AllButArrange == JobsOf({"put", "touch", "get", "rm", "format"})
PutGet        == JobsOf({"put", "get"})
PutWriteGet   == JobsOf({"put", "write_file", "get"})

Home0 == f :> 0
Home1 == f :> 1
Len3  == c1 :> 3
Len22 == c1 :> 2 @@ c2 :> 2
Twice == [c \in Client |-> 2]
Calls21 == c1 :> 2 @@ c2 :> 1
Exact == [s \in Node |-> {s}]
=============================================================================
