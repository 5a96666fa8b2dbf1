---------------------------- MODULE MCReplication ----------------------------
(* An instance of Replication: two files of neighbouring primaries.        *)
EXTENDS Replication

TwoFiles == "b1" :> 0 @@ "b2" :> 1
=============================================================================
