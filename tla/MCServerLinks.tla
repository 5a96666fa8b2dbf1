---------------------------- MODULE MCServerLinks ----------------------------
(* An instance of ServerLinks: one or two io threads, three messages.      *)
EXTENDS ServerLinks
=============================================================================
