----------------------------- MODULE ChunkFifo -----------------------------
(***************************************************************************)
(* What the queue between a task manager's worker and its application      *)
(* promises, with no memory, no lock and no sleeping: chunks come out once *)
(* each, in the order they went in, never more than Size are under way, and*)
(* nobody is told that the task is over before all were taken.             *)
(***************************************************************************)
EXTENDS Naturals, Sequences

CONSTANTS Reader, Num, Size

VARIABLES fed,    \* how many chunks went in
          taken,  \* how many came out
          got,    \* got[r]: the chunks reader r took
          told    \* the readers that know the task is over

vars == <<fed, taken, got, told>>

Init == fed = 0 /\ taken = 0 /\ got = [r \in Reader |-> <<>>] /\ told = {}

Feed == /\ fed < Num /\ fed - taken < Size
        /\ fed' = fed + 1
        /\ UNCHANGED <<taken, got, told>>
Take(r) == /\ taken < fed /\ r \notin told
           /\ taken' = taken + 1
           /\ got' = [got EXCEPT ![r] = Append(@, taken + 1)]
           /\ UNCHANGED <<fed, told>>
Tell(r) == /\ taken = Num
           /\ told' = told \cup {r}
           /\ UNCHANGED <<fed, taken, got>>

Next == Feed \/ \E r \in Reader : Take(r) \/ Tell(r)
Spec == Init /\ [][Next]_vars
=============================================================================
