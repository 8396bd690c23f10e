---------------------------- MODULE LteRlcAmLink ----------------------------
(***************************************************************************)
(* One direction of an acknowledged bearer: the transmitting side of one   *)
(* LteRlcAm entity, the receiving side and the reassembly of its peer, and *)
(* between them the MAC and PHY, which lose and reorder PDUs.  Data goes   *)
(* one way and STATUS PDUs the other, so an opportunity of either entity   *)
(* has one kind of PDU to send.                                            *)
(*                                                                         *)
(* The radio has MaxInFlight data and MaxStatuses STATUS PDUs under way    *)
(* and loses MaxLosses of them.  A data PDU is not overtaken by one a      *)
(* whole window younger, with which it could not be told apart, and STATUS *)
(* PDUs, which t-StatusProhibit keeps apart, are not reordered.            *)
(***************************************************************************)
EXTENDS SequenceNumber10, Sequences, FiniteSets
SeqExt == INSTANCE SequencesExt

CONSTANTS SduUnits, PduUnits, MaxTxBufferSize, MaxSdus, StartSns, StatusGrants,
          MaxInFlight, MaxStatuses, MaxLosses,
          LateSubmits   \* whether SDUs are submitted after the first PDU, too

\* DoNotifyTxOpportunity asserts at least 4 bytes for a STATUS PDU.
ASSUME AmLinkAssumption ==
    /\ SduUnits \in Nat \ {0}
    /\ PduUnits \subseteq Nat \ {0}
    /\ {MaxTxBufferSize, MaxSdus, MaxLosses} \subseteq Nat
    /\ StartSns \subseteq SnValue
    /\ StatusGrants \subseteq Nat \ (0 .. 3)
    /\ {MaxInFlight, MaxStatuses} \subseteq Nat \ {0}
    /\ LateSubmits \in BOOLEAN

VARIABLES accepted, sent, vtA, vtS, pollSn, txedBuffer, retxBuffer,
          pollRetransmitTimer, pollRetransmitTimerJustExpired, rbsTimer, reported,
          vrR, vrX, vrMs, vrH, rxonBuffer, reorderingTimer,
          statusPduRequested, statusProhibitTimer, statusReported, released,
          reassembly,  \* reassembly state and what was delivered
          data,        \* the data PDUs under way, oldest first
          statuses,    \* the STATUS PDUs under way, oldest first
          losses       \* PDUs lost so far

Tx == INSTANCE LteRlcAmTransmitter
Rx == INSTANCE LteRlcAmReceiver
Ra == INSTANCE LteRlcUmReassembly

txVars == <<accepted, sent, vtA, vtS, pollSn, txedBuffer, retxBuffer,
            pollRetransmitTimer, pollRetransmitTimerJustExpired, rbsTimer, reported>>
rxVars == <<vrR, vrX, vrMs, vrH, rxonBuffer, reorderingTimer,
            statusPduRequested, statusProhibitTimer, statusReported, released>>
vars == <<txVars, rxVars, reassembly, data, statuses, losses>>

Init == /\ Tx!Init
        /\ Rx!Init
        /\ vrR = vtA
        /\ reassembly = [Ra!InitReassembly EXCEPT !.expected = vtA]
        /\ data = <<>>
        /\ statuses = <<>>
        /\ losses = 0

-----------------------------------------------------------------------------
(* The transmitting entity.                                                *)

TxOnly == UNCHANGED <<rxVars, reassembly, data, statuses, losses>>

Submit       == (LateSubmits \/ sent = 0) /\ Tx!DoTransmitPdcpPdu /\ TxOnly
ReportBuffer == Tx!ExpireRbsTimer /\ TxOnly
PollExpires  == Tx!ExpirePollRetransmitTimer /\ TxOnly

UnderWay(pdu) == /\ Len(data) < MaxInFlight
                 /\ data' = Append(data, pdu)
                 /\ UNCHANGED <<rxVars, reassembly, statuses, losses>>

\* An opportunity.  The PDU one window older than a new one has left the radio.
SendNewPdu == /\ \A i \in DOMAIN data : data[i].sn # Wrap(vtS + WindowSize)
              /\ \E units \in PduUnits :
                    Tx!SendNewPdu(units) /\ UnderWay(Tx!NewPdu(units))

Retransmit == Tx!Retransmit /\ UnderWay(Tx!RetxPdu)

ArriveStatus == /\ statuses # <<>>
                /\ Tx!ReceiveStatus(statuses[1].ack, statuses[1].nacks)
                /\ statuses' = Tail(statuses)
                /\ UNCHANGED <<rxVars, reassembly, data, losses>>

-----------------------------------------------------------------------------
(* The receiving entity.                                                   *)

\* The units of the stream as reassembly sees them: a fragment for each SDU
\* the PDU holds some of.
AsPdu(pdu) ==
    LET first == pdu.from \div SduUnits
        last  == (pdu.to - 1) \div SduUnits
        frag(k) == [sdu  |-> k + 1,
                    from |-> IF k = first THEN pdu.from ELSE k * SduUnits,
                    to   |-> IF k = last THEN pdu.to ELSE (k + 1) * SduUnits]
    IN  [sn |-> pdu.sn, first |-> pdu.from % SduUnits = 0,
         last |-> pdu.to % SduUnits = 0,
         frags |-> [i \in 1 .. last - first + 1 |-> frag(first + i - 1)]]

ArriveData(i) ==
    /\ i \in DOMAIN data
    /\ Rx!ReceivePdu(data[i])
    /\ reassembly' = Ra!ReassembleAll(reassembly,
                        [j \in DOMAIN released' |-> AsPdu(released'[j])])
    /\ data' = SeqExt!RemoveAt(data, i)
    /\ UNCHANGED <<txVars, statuses, losses>>

SendStatus == /\ Len(statuses) < MaxStatuses
              /\ \E bytes \in StatusGrants :
                    /\ Rx!SendStatus(bytes)
                    /\ statuses' = Append(statuses, Rx!StatusPdu(bytes))
              /\ UNCHANGED <<txVars, reassembly, data, losses>>

RxOnly == UNCHANGED <<txVars, reassembly, data, statuses, losses>>

ExpireReordering == Rx!ExpireReorderingTimer /\ RxOnly
ProhibitExpires  == Rx!ExpireStatusProhibitTimer /\ RxOnly

-----------------------------------------------------------------------------

\* A PDU is lost.
Lose == /\ losses < MaxLosses
        /\ losses' = losses + 1
        /\ \/ /\ \E i \in DOMAIN data : data' = SeqExt!RemoveAt(data, i)
              /\ UNCHANGED statuses
           \/ /\ \E i \in DOMAIN statuses : statuses' = SeqExt!RemoveAt(statuses, i)
              /\ UNCHANGED data
        /\ UNCHANGED <<txVars, rxVars, reassembly>>

Next == \/ Submit
        \/ ReportBuffer
        \/ PollExpires
        \/ SendNewPdu
        \/ Retransmit
        \/ ArriveStatus
        \/ \E i \in 1 .. MaxInFlight : ArriveData(i)
        \/ SendStatus
        \/ ExpireReordering
        \/ ProhibitExpires
        \/ Lose

Spec == Init /\ [][Next]_vars

\* The simulator runs every scheduled event, the MAC answers each report with
\* an opportunity, and a PDU that is not lost arrives.  Within an entity no
\* event is promised before another.
TxFair == WF_vars(ReportBuffer \/ PollExpires \/ (reported /\ (SendNewPdu \/ Retransmit)))
RxFair == WF_vars(ExpireReordering \/ ProhibitExpires \/ (statusReported /\ SendStatus))

\* The oldest PDU of each direction leaves the radio by arriving, which it
\* always can: ArriveData(1) and ArriveStatus.
Leaves(radio) == radio # <<>> /\ radio' = Tail(radio) /\ UNCHANGED losses

ArrivalsFair == WF_data(Leaves(data)) /\ WF_statuses(Leaves(statuses))

FairSpec == Spec /\ TxFair /\ RxFair /\ ArrivalsFair

-----------------------------------------------------------------------------
(* Properties.                                                             *)

Ordered(a, b) == LessOrEqual(Sn(a, vtA), Sn(b, vtA))

\* The two windows keep their places round the wrap:
\* VT(A) <= VR(R) <= VR(MS) <= VR(H) <= VT(S) <= VT(MS).  It is why numbers of
\* half the modulus suffice, and it holds the loops that assert they end.
WindowsNested == /\ Ordered(vrR, vrMs) /\ Ordered(vrMs, vrH) /\ Ordered(vrH, vtS)
                 /\ Ordered(vtS, Tx!VtMs)

\* The comment at lte-rlc-am.cc:829: a positive acknowledgement confirms the
\* successful reception.  Every PDU from VR(R) to VT(S) is kept by its receiver
\* or still by its sender.
AckedWasReceived ==
    \A s \in SnValue :
        Rx!Before(s, vtS, vrR) =>
            s \in DOMAIN rxonBuffer \cup DOMAIN txedBuffer \cup DOMAIN retxBuffer

\* The assertion at lte-rlc-am.cc:1107: what a STATUS PDU under way misses is
\* there to be sent again when it arrives, in one of the two buffers.
NackedIsKept ==
    /\ Tx!BuffersApart
    /\ statuses # <<>> =>
        statuses[1].nacks \cap Tx!Covered(statuses[1].ack)
            \subseteq DOMAIN txedBuffer \cup DOMAIN retxBuffer

\* The poll bit, its timer and the next PDU keep asking for a STATUS PDU
\* (lte-rlc-am.cc:723-748 and 1732-1774).
PollCovered == Tx!PollCovered

\* m_rbsTimer keeps telling the MAC of what is outstanding (lte-rlc-am.cc:1782).
BacklogReported == Tx!BacklogReported

\* Reassembly never sees a gap: RLC AM relies on the rows for losses of
\* ReassembleAndDeliver (lte-rlc-am.cc:1392 on) not being reached.
ReassembledInSequence == reassembly.expected = vrR /\ reassembly.sdus = <<>>

\* The comment at lte-rlc-am-header.h:267: a NACK is added only if it fits in
\* the PDU, so the STATUS PDU is no longer than the opportunity.
StatusFits ==
    [][\A bytes \in StatusGrants :
          Rx!SendStatus(bytes) =>
              Rx!HeaderLength(Cardinality(Rx!Nacks(bytes))) <= bytes]_vars

\* The number of the SDU a delivered item is the whole of, or 0.
SduOf(item) ==
    IF /\ item[1].from % SduUnits = 0
       /\ item[Len(item)].to = item[1].from + SduUnits
       /\ \A j \in 1 .. Len(item) - 1 : item[j].to = item[j + 1].from
    THEN item[1].sdu ELSE 0

Delivered == [i \in DOMAIN reassembly.out |-> SduOf(reassembly.out[i])]

\* PDCP receives every SDU whole, in order and once, whatever is lost.
Pipe == INSTANCE ReliablePipe WITH submitted <- accepted, delivered <- Delivered
PipeSpec == Pipe!Spec

Settled == Len(Delivered) = accepted /\ ~Tx!Outstanding

\* doc/source/lte-testing.rst:1029: all SDUs are delivered in the end.  (The
\* application submits MaxSdus SDUs at most.)
AllDelivered == []<>Settled

\* They are, and the transmitter learns of it, although PDUs, STATUS PDUs and
\* polls are lost and neither a NACK nor the expiry of t-Reordering reports
\* anything to the MAC; unless the transmitter strands.
DeliveredUnlessStranded == []<>(Settled \/ Tx!Stranded)

=============================================================================
