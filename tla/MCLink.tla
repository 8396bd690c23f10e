------------------------------- MODULE MCLink -------------------------------
(* Model-checking instances of LteRlcUmLink. *)
EXTENDS LteRlcUmLink

\* Split SDUs, over a channel that loses, repeats and reorders.
Splitting == [sizes |-> {2}, grants |-> {3, 4, 7}, most |-> 3,
              lag |-> 3, reach |-> 2, lossy |-> TRUE]

\* A sender that keeps pace with t-Reordering.
Slow == [sizes |-> {2}, grants |-> {4}, most |-> 7,
         lag |-> 2, reach |-> 1, lossy |-> TRUE]

\* One that runs a whole window ahead of it, so that the window moves past
\* missing and buffered PDUs.
Fast == [Slow EXCEPT !.reach = 8, !.most = 6]

\* No loss, and retransmissions are over before t-Reordering.
NoLoss == [sizes |-> {2}, grants |-> {3, 4}, most |-> 3,
           lag |-> 2, reach |-> 2, lossy |-> FALSE]

All     == {Splitting, Slow, Fast, NoLoss}
Outside == {[Fast EXCEPT !.most = 8]}
=============================================================================
