---------------------------- MODULE MessageLanes ----------------------------
(***************************************************************************)
(* What sending messages to a node promises: each message travels on one   *)
(* lane, a lane keeps the order, no message arrives twice, and a lane that *)
(* breaks loses a front and a tail of what it carries.                     *)
(***************************************************************************)
EXTENDS Integers, Sequences

CONSTANT Lane

VARIABLES
    lane,   \* lane[l]: the messages under way, by number
    put,    \* how many messages were sent
    got     \* the messages that arrived

Init ==
    /\ lane = [l \in Lane |-> <<>>]
    /\ put = 0
    /\ got = <<>>

Put(l) ==
    /\ put' = put + 1
    /\ lane' = [lane EXCEPT ![l] = Append(@, put')]
    /\ UNCHANGED got

Take(l) ==
    /\ lane[l] # <<>>
    /\ got' = Append(got, Head(lane[l]))
    /\ lane' = [lane EXCEPT ![l] = Tail(@)]
    /\ UNCHANGED put

Lose(l) ==
    /\ \E before, last \in 0 .. Len(lane[l]) :
          lane' = [lane EXCEPT ![l] = SubSeq(@, before + 1, last)]
    /\ UNCHANGED <<put, got>>

Next == \E l \in Lane : Put(l) \/ Take(l) \/ Lose(l)

vars == <<lane, put, got>>
Spec == Init /\ [][Next]_vars
=============================================================================
