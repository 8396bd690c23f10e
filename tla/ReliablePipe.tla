---------------------------- MODULE ReliablePipe ----------------------------
(***************************************************************************)
(* What an acknowledged bearer promises its users: the SDUs delivered are  *)
(* the first of those submitted, each once and in order.                   *)
(***************************************************************************)
EXTENDS Naturals, Sequences

VARIABLES submitted,  \* number of SDUs accepted for transmission
          delivered   \* numbers of the SDUs delivered, in order

pipeVars == <<submitted, delivered>>

Init == submitted = 0 /\ delivered = <<>>

Submit == submitted' = submitted + 1 /\ UNCHANGED delivered

\* One event may complete several SDUs.
Deliver == /\ \E n \in Len(delivered) + 1 .. submitted :
                 delivered' = [i \in 1 .. n |-> i]
           /\ UNCHANGED submitted

Next == Submit \/ Deliver

Spec == Init /\ [][Next]_pipeVars
=============================================================================
