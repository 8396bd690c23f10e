--------------------------- MODULE EventCalendar ---------------------------
(***************************************************************************)
(* What a discrete-event simulator promises the code it runs: an agenda    *)
(* from which the earliest event is invoked at its time, the one entered   *)
(* first when several are of the same time, in a time that never goes back. *)
(***************************************************************************)
EXTENDS Naturals, Sequences

VARIABLES now,      \* the simulated time
          agenda,   \* what is to be invoked: entries [event, time, turn]
          invoked   \* events that were invoked, in order

vars == <<now, agenda, invoked>>

Init == now = 0 /\ agenda = {} /\ invoked = <<>>

\* Among entries of the same time turns are taken.
Precedes(e, f) == e.time < f.time \/ (e.time = f.time /\ e.turn < f.turn)

\* Enter an event, behind those of the same time.
Enter(e) == /\ e.time >= now
            /\ \A f \in agenda : f.time = e.time => Precedes(f, e)
            /\ agenda' = agenda \cup {e}
            /\ UNCHANGED <<now, invoked>>

\* Strike an event off.
Strike(e) == agenda' = agenda \ {e} /\ UNCHANGED <<now, invoked>>

Invoke(e) == /\ \A f \in agenda \ {e} : Precedes(e, f)
             /\ now' = e.time
             /\ agenda' = agenda \ {e}
             /\ invoked' = Append(invoked, e.event)

\* Time passes, not beyond the next event.
Pass == /\ now' >= now
        /\ \A e \in agenda : now' <= e.time
        /\ UNCHANGED <<agenda, invoked>>

\* The simulation is torn down.
Clear == agenda' = {} /\ UNCHANGED <<now, invoked>>

Next == \/ \E e \in agenda' : Enter(e)
        \/ \E e \in agenda : Strike(e) \/ Invoke(e)
        \/ Pass
        \/ Clear

Spec == Init /\ [][Next]_vars
=============================================================================
