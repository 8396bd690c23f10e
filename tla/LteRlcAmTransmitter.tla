------------------------ MODULE LteRlcAmTransmitter ------------------------
(***************************************************************************)
(* The transmitting side of class LteRlcAm (src/lte/model/lte-rlc-am.cc):  *)
(* new and retransmitted PDUs, polling, and the STATUS PDUs that           *)
(* acknowledge them.                                                       *)
(*                                                                         *)
(* SDUs are stretches of SduUnits units of one stream, and a PDU carries   *)
(* the units from .. to - 1 of it.  How PDUs are cut and framed is the     *)
(* algorithm LteRlcUmTransmitter models byte by byte.                      *)
(*                                                                         *)
(* The sequence numbers of this side always share the modulus base VT(A),  *)
(* so they are plain values compared from it.                              *)
(***************************************************************************)
EXTENDS SequenceNumber10, FiniteSets

CONSTANTS SduUnits,         \* size of an SDU
          PduUnits,         \* what the data field of a grant can hold
          MaxTxBufferSize,  \* m_maxTxBufferSize; 0 is unlimited
          MaxSdus,          \* bound: SDUs the application submits
          StartSns          \* the sequence numbers a run may start from

VARIABLES
    accepted,              \* SDUs put in m_txonBuffer so far
    sent,                  \* units of the stream taken out of m_txonBuffer
    vtA, vtS,              \* m_vtA, m_vtS
    pollSn,                \* m_pollSn
    txedBuffer,            \* m_txedBuffer: the PDUs sent and not acknowledged
    retxBuffer,            \* m_retxBuffer: the PDUs to send again
    pollRetransmitTimer,   \* m_pollRetransmitTimer is running
    pollRetransmitTimerJustExpired,
    rbsTimer,              \* m_rbsTimer is running
    reported               \* a buffer status report awaits an opportunity


\* m_vtMs is assigned with VT(A), always to this.
VtMs == Wrap(vtA + WindowSize)

\* The comparison a < b of this side.
Below(a, b) == LessThan(Sn(a, vtA), Sn(b, vtA))

Earliest(S) == CHOOSE s \in S : \A t \in S : ~Below(t, s)

TxonBufferSize == accepted * SduUnits - sent

Pending(buffer) == DOMAIN buffer # {}

\* m_txonBufferSize + m_txedBufferSize + m_retxBufferSize > 0
Outstanding == TxonBufferSize > 0 \/ Pending(txedBuffer) \/ Pending(retxBuffer)

\* The PDUs of g with numbers in S, copied into f.
Copied(f, g, S) == [s \in DOMAIN f \cup S |-> IF s \in S THEN g[s] ELSE f[s]]

Removed(f, S) == [s \in DOMAIN f \ S |-> f[s]]

\* The numbers start at 0; a state in which everything sent was acknowledged
\* differs from the first one in the numbers only.
Init == /\ accepted = 0
        /\ sent = 0
        /\ \E n \in StartSns : vtA = n /\ vtS = n /\ pollSn = Wrap(n - 1)
        /\ txedBuffer = <<>>
        /\ retxBuffer = <<>>
        /\ pollRetransmitTimer = FALSE
        /\ pollRetransmitTimerJustExpired = FALSE
        /\ rbsTimer = FALSE
        /\ reported = FALSE

-----------------------------------------------------------------------------

\* PDCP submits an SDU; it is dropped when the buffer is full.
DoTransmitPdcpPdu ==
    /\ accepted < MaxSdus
    /\ accepted' = IF MaxTxBufferSize = 0 \/ TxonBufferSize + SduUnits <= MaxTxBufferSize
                   THEN accepted + 1 ELSE accepted
    /\ UNCHANGED <<sent, vtA, vtS, pollSn, txedBuffer, retxBuffer,
                   pollRetransmitTimer, pollRetransmitTimerJustExpired>>
    /\ reported' = (reported \/ Outstanding')
    /\ rbsTimer' = TRUE

\* A PDU with the polling bit makes VT(S) - 1 the number to be acknowledged
\* and (re)starts t-PollRetransmit.
Poll(sn) == /\ pollSn' = sn
            /\ pollRetransmitTimer' = TRUE
            /\ pollRetransmitTimerJustExpired' = FALSE

\* m_pollPdu is 1: every new PDU polls.
NewPdu(units) ==
    LET fits == IF units < TxonBufferSize THEN units ELSE TxonBufferSize
    IN  [sn |-> vtS, poll |-> TRUE, from |-> sent, to |-> sent + fits]

\* An opportunity with nothing to send again: the first units of the stream
\* become a PDU, unless the window is stalled.
SendNewPdu(units) ==
    LET pdu == NewPdu(units)
    IN  /\ ~Pending(retxBuffer)
        /\ TxonBufferSize > 0
        /\ vtS # VtMs
        /\ sent' = pdu.to
        /\ txedBuffer' = Copied(txedBuffer, [s \in {vtS} |-> pdu], {vtS})
        /\ vtS' = Wrap(vtS + 1)
        /\ Poll(vtS)
        /\ reported' = FALSE
        /\ UNCHANGED <<accepted, vtA, retxBuffer, rbsTimer>>

\* Bug: the last retransmission does not poll.
RetxPolls_NotLast(sn) == ~Below(vtS, VtMs) \/ pollRetransmitTimerJustExpired

\* Conditions of the polling bit of a retransmission.
RetxPolls(sn) ==
    \/ TxonBufferSize = 0 /\ DOMAIN retxBuffer = {sn}
    \/ ~Below(vtS, VtMs)
    \/ pollRetransmitTimerJustExpired

RetxPdu ==
    LET sn == Earliest(DOMAIN retxBuffer)
    IN  [retxBuffer[sn] EXCEPT !.poll = RetxPolls(sn)]

\* Bug: a retransmitted PDU is not kept.
KeptAfterRetx_Not(sn) == txedBuffer

\* The PDU goes back to the transmitted PDUs.
KeptAfterRetx(sn) == Copied(txedBuffer, retxBuffer, {sn})

\* An opportunity big enough for the first PDU to be sent again.  A smaller one
\* changes nothing.
Retransmit ==
    LET pdu == RetxPdu
    IN  /\ Pending(retxBuffer)
        /\ txedBuffer' = KeptAfterRetx(pdu.sn)
        /\ retxBuffer' = Removed(retxBuffer, {pdu.sn})
        /\ IF pdu.poll THEN Poll(Wrap(vtS - 1))
                       ELSE UNCHANGED <<pollSn, pollRetransmitTimer,
                                        pollRetransmitTimerJustExpired>>
        /\ reported' = FALSE
        /\ UNCHANGED <<accepted, sent, vtA, vtS, rbsTimer>>

-----------------------------------------------------------------------------

\* The numbers a STATUS PDU speaks of: the loop sn < ackSn && sn < m_vtS from
\* VT(A).
Covered(ack) == {s \in SnValue : Below(s, ack) /\ Below(s, vtS)}

\* Bug: VT(A) moves to the end of what the STATUS PDU covers.
NewVtA_SkipsNacks(covered, nacked) == Wrap(vtA + Cardinality(covered))

\* VT(A) moves up to the first number that is not acknowledged.
NewVtA(covered, nacked) ==
    IF nacked = {} THEN Wrap(vtA + Cardinality(covered)) ELSE Earliest(nacked)

\* Bug: t-PollRetransmit stops at any STATUS PDU.
PollAnswered_Always(covered) == TRUE

\* The STATUS PDU covers the number that was polled.
PollAnswered(covered) == pollSn \in covered

\* A STATUS PDU: what it acknowledges is forgotten, what it misses is moved to
\* the retransmission buffer, unless it is already there.
ReceiveStatus(ack, nacks) ==
    LET covered == Covered(ack)
        nacked  == covered \cap nacks
        again   == nacked \cap DOMAIN txedBuffer
    IN  /\ txedBuffer' = Removed(txedBuffer, covered)
        /\ retxBuffer' = Copied(Removed(retxBuffer, covered \ nacked), txedBuffer, again)
        /\ vtA' = NewVtA(covered, nacked)
        /\ pollRetransmitTimer' = (pollRetransmitTimer /\ ~PollAnswered(covered))
        /\ UNCHANGED <<accepted, sent, vtS, pollSn, pollRetransmitTimerJustExpired,
                       rbsTimer, reported>>

\* t-PollRetransmit: the next PDU polls; when no other would be sent, what is
\* not acknowledged is sent again.
ExpirePollRetransmitTimer ==
    /\ pollRetransmitTimer
    /\ pollRetransmitTimer' = FALSE
    /\ pollRetransmitTimerJustExpired' = TRUE
    /\ IF (TxonBufferSize = 0 /\ ~Pending(retxBuffer)) \/ vtS = VtMs
       THEN LET again == {s \in DOMAIN txedBuffer : Below(s, vtS)}
            IN  /\ retxBuffer' = Copied(retxBuffer, txedBuffer, again)
                /\ txedBuffer' = Removed(txedBuffer, again)
       ELSE UNCHANGED <<retxBuffer, txedBuffer>>
    /\ reported' = (reported \/ Outstanding)
    /\ UNCHANGED <<accepted, sent, vtA, vtS, pollSn, rbsTimer>>

\* Bug: as in RLC UM, only new data is reported again.
StillReports_New == TxonBufferSize > 0

\* The condition under which the report is repeated.
StillReports == Outstanding

ExpireRbsTimer ==
    /\ rbsTimer
    /\ IF StillReports THEN reported' = TRUE /\ UNCHANGED rbsTimer
                       ELSE rbsTimer' = FALSE /\ UNCHANGED reported
    /\ UNCHANGED <<accepted, sent, vtA, vtS, pollSn, txedBuffer, retxBuffer,
                   pollRetransmitTimer, pollRetransmitTimerJustExpired>>

-----------------------------------------------------------------------------
(* Properties.  They are checked where a receiver answers: LteRlcAmLink.   *)

\* A PDU is in at most one of the buffers, and inside VT(A) .. VT(S) - 1 (the
\* assertions at lte-rlc-am.cc:303 and 439 and the one at 1121 that a PDU found
\* in m_txedBuffer is not in m_retxBuffer).
BuffersApart == /\ DOMAIN txedBuffer \cap DOMAIN retxBuffer = {}
                /\ \A s \in DOMAIN txedBuffer \cup DOMAIN retxBuffer : Below(s, vtS)

\* t-PollRetransmit expired while PDUs waited to be sent again, which were then
\* acknowledged: no PDU is left to carry the poll the expiry asks for, and
\* nothing moves the rest to the retransmission buffer.
Stranded == /\ Pending(txedBuffer) /\ ~Pending(retxBuffer)
            /\ TxonBufferSize = 0 \/ vtS = VtMs
            /\ pollRetransmitTimerJustExpired /\ ~pollRetransmitTimer

\* Something sent and not acknowledged is asked about in the end: when nothing
\* waits to be sent again, t-PollRetransmit runs, or there is new data whose
\* PDU will poll and that the window lets out.  Only Stranded is left out.
PollCovered ==
    Pending(txedBuffer) /\ ~Pending(retxBuffer) =>
        \/ pollRetransmitTimer
        \/ TxonBufferSize > 0 /\ vtS # VtMs
        \/ Stranded

\* What is outstanding is reported to the MAC again: a NACK moves PDUs to the
\* retransmission buffer without a report of its own.
BacklogReported == Outstanding => rbsTimer

=============================================================================
