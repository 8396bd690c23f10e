------------------------------ MODULE SduPipe -------------------------------
(***************************************************************************)
(* What a unidirectional unacknowledged bearer promises its users: SDUs    *)
(* are delivered whole, in the order they were submitted, at most once;    *)
(* some may be missing.  SDUs are numbered in the order of submission.     *)
(***************************************************************************)
EXTENDS Naturals, Sequences

VARIABLES submitted,  \* number of SDUs accepted for transmission
          delivered   \* numbers of the SDUs delivered, in order

pipeVars == <<submitted, delivered>>

LastDelivered == IF delivered = <<>> THEN 0 ELSE delivered[Len(delivered)]

Init == submitted = 0 /\ delivered = <<>>

Submit == submitted' = submitted + 1 /\ UNCHANGED delivered

Ascending(S) == SelectSeq([i \in 1 .. submitted |-> i], LAMBDA i : i \in S)

\* One event may complete several SDUs.
Deliver == /\ \E S \in SUBSET (LastDelivered + 1 .. submitted) \ {{}} :
                 delivered' = delivered \o Ascending(S)
           /\ UNCHANGED submitted

Next == Submit \/ Deliver

Spec == Init /\ [][Next]_pipeVars
=============================================================================
