-------------------------- MODULE LteRlcAmReceiver --------------------------
(***************************************************************************)
(* The receiving side of class LteRlcAm (src/lte/model/lte-rlc-am.cc): the *)
(* reception buffer, t-Reordering, and the STATUS PDUs it sends.           *)
(*                                                                         *)
(* The sequence numbers of this side always share the modulus base VR(R),  *)
(* so they are plain values compared from it.                              *)
(***************************************************************************)
EXTENDS SequenceNumber10, Sequences, FiniteSets
SeqExt == INSTANCE SequencesExt

CONSTANTS StartSns,      \* the sequence numbers a run may start from
          StatusGrants   \* bytes of the opportunities a STATUS PDU is sent in

VARIABLES
    vrR, vrX, vrMs, vrH,   \* m_vrR, m_vrX, m_vrMs, m_vrH
    rxonBuffer,            \* m_rxonBuffer, by sequence number
    reorderingTimer,       \* m_reorderingTimer is running
    statusPduRequested,    \* m_statusPduRequested
    statusProhibitTimer,   \* m_statusProhibitTimer is running
    statusReported,        \* the MAC was told of a STATUS PDU to send
    released               \* the PDUs the last step handed to reassembly


Init == /\ \E n \in StartSns : vrR = n /\ vrMs = n /\ vrH = n
        /\ vrX = 0
        /\ rxonBuffer = <<>>
        /\ reorderingTimer = FALSE
        /\ statusPduRequested = FALSE
        /\ statusProhibitTimer = FALSE
        /\ statusReported = FALSE
        /\ released = <<>>

-----------------------------------------------------------------------------

\* m_vrMr is assigned with VR(R), always to this.
VrMr(r) == Wrap(r + WindowSize)

\* The comparison a < b from the base r.
Before(a, b, r) == LessThan(Sn(a, r), Sn(b, r))

IsInsideReceivingWindow(sn, r) == Before(sn, VrMr(r), r)

Placed(pdu) ==
    [s \in DOMAIN rxonBuffer \cup {pdu.sn} |->
        IF s \in DOMAIN rxonBuffer THEN rxonBuffer[s] ELSE pdu]

\* The first number from s on that is not in the buffer.
NextMissing(buffer, s) ==
    LET missing == SnValue \ DOMAIN buffer
    IN  CHOOSE m \in missing : \A t \in missing : ~Before(t, m, s)

\* Bug: VR(H) is the highest number received, not the one after it.
NewVrH_Highest(sn) == IF Before(sn, vrH, vrR) THEN vrH ELSE sn

NewVrH(sn) == IF Before(sn, vrH, vrR) THEN vrH ELSE Wrap(sn + 1)

\* Bug: the PDUs are released in the order of the map's keys.
Run_Keys(r) ==
    SeqExt!SetToSortSeq({Wrap(vrR + i) : i \in 0 .. Wrap(r - vrR) - 1}, LAMBDA a, b : a < b)

\* The numbers the loop from VR(R) to r releases, in order.
Run(r) == [i \in 1 .. Wrap(r - vrR) |-> Wrap(vrR + i - 1)]

\* VR(X) has been reached or left behind.
TimerStops(r) == vrX = r \/ (~IsInsideReceivingWindow(vrX, r) /\ vrX # VrMr(r))

\* t-Reordering is not running any more and VR(H) > VR(R).
StartsTimer(r, h) == (reorderingTimer => TimerStops(r)) /\ Before(r, h, r)

\* A polling bit asks for a STATUS PDU, of which the MAC hears at once unless
\* t-StatusProhibit is running.
RequestStatus(poll) ==
    /\ statusPduRequested' = (statusPduRequested \/ poll)
    /\ statusReported' = (statusReported \/ (poll /\ ~statusProhibitTimer))

\* A PDU of the window, placed unless its number is there already.
PlacePdu(pdu) ==
    LET buffer == Placed(pdu)
        r == IF pdu.sn = vrR THEN NextMissing(buffer, vrR) ELSE vrR
        h == NewVrH(pdu.sn)
    IN  /\ released' = [i \in DOMAIN Run(r) |-> buffer[Run(r)[i]]]
        /\ rxonBuffer' = [s \in DOMAIN buffer \ SeqExt!ToSet(Run(r)) |-> buffer[s]]
        /\ vrR' = r
        /\ vrH' = h
        /\ vrMs' = NextMissing(buffer, vrMs)
        /\ vrX' = IF StartsTimer(r, h) THEN h ELSE vrX
        /\ reorderingTimer' = \/ reorderingTimer /\ ~TimerStops(r)
                              \/ StartsTimer(r, h)

\* DoReceivePdu of a data PDU.
ReceivePdu(pdu) ==
    /\ RequestStatus(pdu.poll)
    /\ IF IsInsideReceivingWindow(pdu.sn, vrR)
       THEN PlacePdu(pdu)
       ELSE /\ released' = <<>>
            /\ UNCHANGED <<vrR, vrX, vrMs, vrH, rxonBuffer, reorderingTimer>>
    /\ UNCHANGED statusProhibitTimer

-----------------------------------------------------------------------------

\* Bytes of a STATUS PDU with n NACKs, as PushNack counts them.
HeaderLength(n) == 2 + n + (n + 1) \div 2

OneMoreNackWouldFitIn(n, bytes) ==
    HeaderLength(n) < IF n % 2 = 0 THEN bytes ELSE bytes - 1

\* How many NACKs the loop pushes at most.
Room(bytes) == CHOOSE n \in 0 .. bytes :
                  /\ ~OneMoreNackWouldFitIn(n, bytes)
                  /\ \A k \in 0 .. n - 1 : OneMoreNackWouldFitIn(k, bytes)

Missing == {s \in SnValue \ DOMAIN rxonBuffer : Before(s, vrMs, vrR)}

\* The first missing numbers, as many as fit.
Nacks(bytes) ==
    {s \in Missing : Cardinality({t \in Missing : Before(t, s, vrR)}) < Room(bytes)}

\* Bug: ACK_SN is VR(MS) although a missing number below it was not reported.
AckSn_VrMs(bytes) == vrMs

\* The next number that is missing and was not reported so.
AckSn(bytes) ==
    LET rest == (Missing \ Nacks(bytes)) \cup {vrMs}
    IN  CHOOSE s \in rest : \A t \in rest : ~Before(t, s, vrR)

StatusPdu(bytes) == [ack |-> AckSn(bytes), nacks |-> Nacks(bytes)]

\* An opportunity in which StatusPdu(bytes) is sent.
SendStatus(bytes) ==
    /\ statusPduRequested
    /\ ~statusProhibitTimer
    /\ statusPduRequested' = FALSE
    /\ statusProhibitTimer' = TRUE
    /\ statusReported' = FALSE
    /\ released' = <<>>
    /\ UNCHANGED <<vrR, vrX, vrMs, vrH, rxonBuffer, reorderingTimer>>

\* The first number from VR(X) on that is missing.
ExpiredVrMs == NextMissing(rxonBuffer, vrX)

\* t-Reordering: what is missing below the new VR(MS) will be reported so.  The
\* STATUS PDU is requested, but the MAC is not told of it.
ExpireReorderingTimer ==
    LET restarts == Before(ExpiredVrMs, vrH, vrR)
    IN  /\ reorderingTimer
        /\ vrMs' = ExpiredVrMs
        /\ reorderingTimer' = restarts
        /\ vrX' = IF restarts THEN vrH ELSE vrX
        /\ statusPduRequested' = TRUE
        /\ released' = <<>>
        /\ UNCHANGED <<vrR, vrH, rxonBuffer, statusProhibitTimer, statusReported>>

\* t-StatusProhibit: ExpireStatusProhibitTimer only logs.
ExpireStatusProhibitTimer ==
    /\ statusProhibitTimer
    /\ statusProhibitTimer' = FALSE
    /\ released' = <<>>
    /\ UNCHANGED <<vrR, vrX, vrMs, vrH, rxonBuffer, reorderingTimer,
                   statusPduRequested, statusReported>>

=============================================================================
