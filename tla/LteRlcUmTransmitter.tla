------------------------ MODULE LteRlcUmTransmitter -------------------------
(***************************************************************************)
(* The transmitting half of a sidelink RLC UM entity: the transmission     *)
(* buffer, segmentation and concatenation into PDUs, and the buffer status *)
(* reports (class LteRlcUm, src/lte/model/lte-rlc-um.cc).                  *)
(*                                                                         *)
(* Data is abstracted to byte positions in the stream of accepted SDUs: an *)
(* SDU, a buffered piece of one and a fragment inside a PDU is an interval *)
(* [from, to).  The MAC (5G-LENA, not in the repository) is external: it   *)
(* offers any grant of Grants at any time, and hears the status reports.   *)
(***************************************************************************)
EXTENDS SequenceNumber10, Sequences

CONSTANTS SduSizes,          \* sizes of the SDUs PDCP submits
          Grants,            \* bytes of the opportunities the MAC offers
          MaxTxBufferSize,   \* attribute MaxTxBufferSize, in bytes
          LiMax,             \* largest SDU a length indicator expresses (2047)
          MaxSdus,           \* bound: SDUs accepted in a behaviour
          StartSns           \* numbers of the first PDU; see Init

ASSUME TxAssumption == /\ SduSizes \subseteq Nat \ {0}
                       /\ Grants \subseteq Nat
                       /\ MaxTxBufferSize \in Nat
                       /\ LiMax \in Nat \ {0}
                       /\ MaxSdus \in Nat
                       /\ StartSns \subseteq SnValue

VARIABLES txBuffer,       \* m_txBuffer: pieces of SDUs with their status tag
          txBufferSize,   \* m_txBufferSize
          sequenceNumber, \* value of m_sequenceNumber
          rbsTimer,       \* m_rbsTimer is running
          reported,       \* txQueueSize of the last report to the MAC
          sdus,           \* history: intervals of the SDUs accepted
          pdu             \* the last PDU passed to the MAC, or NoPdu

txVars == <<txBuffer, txBufferSize, sequenceNumber, rbsTimer, reported, sdus, pdu>>

NoPdu == [sn |-> -1]
Tags  == {"FULL_SDU", "FIRST_SEGMENT", "MIDDLE_SEGMENT", "LAST_SEGMENT"}
Size(piece) == piece.to - piece.from

\* End of the stream of accepted bytes, and start of what is not yet sent.
StreamEnd == IF sdus = <<>> THEN 0 ELSE sdus[Len(sdus)].to
StreamSent == IF txBuffer = <<>> THEN StreamEnd ELSE txBuffer[1].from

\* A peer that comes into range late first meets the entity with its number
\* advanced and its buffer drained: sequenceNumber may start anywhere.
Init == /\ txBuffer = <<>>
        /\ txBufferSize = 0
        /\ sequenceNumber \in StartSns
        /\ rbsTimer = FALSE
        /\ reported = 0
        /\ sdus = <<>>
        /\ pdu = NoPdu

-----------------------------------------------------------------------------

\* Bug: one header byte per SDU.
QueueSize_OneByte(buf, size) == IF buf = <<>> THEN 0 ELSE size + Len(buf)

\* DoReportNrSlBufferStatus: the data and two estimated header bytes per SDU.
QueueSize(buf, size) == IF buf = <<>> THEN 0 ELSE size + 2 * Len(buf)

DoTransmitNrSlPdcpPdu(size) ==
    /\ Len(sdus) < MaxSdus
    /\ IF txBufferSize + size <= MaxTxBufferSize
       THEN LET sdu == [from |-> StreamEnd, to |-> StreamEnd + size]
            IN  /\ txBuffer' = Append(txBuffer, [from |-> sdu.from, to |-> sdu.to,
                                                 sdu |-> Len(sdus) + 1,
                                                 tag |-> "FULL_SDU"])
                /\ txBufferSize' = txBufferSize + size
                /\ sdus' = Append(sdus, sdu)
       ELSE UNCHANGED <<txBuffer, txBufferSize, sdus>>
    /\ reported' = QueueSize(txBuffer', txBufferSize')
    /\ rbsTimer' = FALSE
    /\ UNCHANGED <<sequenceNumber, pdu>>

-----------------------------------------------------------------------------
(* Segmentation.  The loop takes pieces from the front of the buffer until  *)
(* one of its first two branches is taken, by the k-th piece.               *)

\* Bug: an odd length indicator takes 1 byte and an even one 2.
LiBytes_Swapped(n) == (3 * n) \div 2

\* Bytes the loop sets aside for n length indicators: 2 for an odd one, 1 for
\* an even one.
LiBytes(n) == (3 * n + 1) \div 2

\* nextSegmentSize when the loop comes to the k-th piece.
SpaceLeft(bytes, k) == bytes - 2 - (txBuffer[k].from - txBuffer[1].from) - LiBytes(k - 1)

\* The three branches, for the k-th piece.
TakesPart(bytes, k) == \/ Size(txBuffer[k]) > SpaceLeft(bytes, k)
                       \/ Size(txBuffer[k]) > LiMax
\* Bug: a wrong threshold.
TakesLast_Early(bytes, k) == /\ ~TakesPart(bytes, k)
                             /\ \/ SpaceLeft(bytes, k) - Size(txBuffer[k]) <= 4
                                \/ k = Len(txBuffer)

TakesLast(bytes, k) == /\ ~TakesPart(bytes, k)
                       /\ \/ SpaceLeft(bytes, k) - Size(txBuffer[k]) <= 2
                          \/ k = Len(txBuffer)
TakesMore(bytes, k) == ~TakesPart(bytes, k) /\ ~TakesLast(bytes, k)

EndsAt(bytes, k) == /\ ~TakesMore(bytes, k)
                    /\ \A j \in 1 .. k - 1 : TakesMore(bytes, j)

\* Where the k-th piece is cut: at its end, unless it does not fit.
Cut(bytes, k) == IF Size(txBuffer[k]) > SpaceLeft(bytes, k)
                 THEN txBuffer[k].from + SpaceLeft(bytes, k)
                 ELSE txBuffer[k].to

\* The status tags after a cut at c; a piece taken whole keeps its tag.
NewTag(piece, c) == IF c = piece.to THEN piece.tag
                    ELSE IF piece.tag = "FULL_SDU" THEN "FIRST_SEGMENT"
                    ELSE "MIDDLE_SEGMENT"

\* Bugs: the rest is dropped; the rest keeps its tag.
GivenBack_Nothing(piece, c) == <<>>
GivenBack_Tag(piece, c) == IF c = piece.to THEN <<>> ELSE <<[piece EXCEPT !.from = c]>>

GivenBack(piece, c) ==
    IF c = piece.to THEN <<>>
    ELSE <<[piece EXCEPT !.from = c, !.tag = "LAST_SEGMENT"]>>

\* Bug: the rest is not counted again.
SizeBack_Nothing(rest) == 0

\* m_txBufferSize is less by every piece taken out, and more by the rest of the
\* last when that is given back.
SizeBack(rest) == IF rest = <<>> THEN 0 ELSE Size(rest[1])

\* The fragments of the PDU's data field.
Taken(bytes, k) ==
    [i \in 1 .. k |->
        IF i < k THEN txBuffer[i]
        ELSE [txBuffer[k] EXCEPT !.to = Cut(bytes, k),
                                 !.tag = NewTag(txBuffer[k], Cut(bytes, k))]]

\* LteRlcHeader: 2 bytes with the first extension bit, then 2 and 1 in turn.
HeaderSize(frags) == 2 + 3 * ((Len(frags) - 1) \div 2) + 2 * ((Len(frags) - 1) % 2)

\* Bug: the end of a last segment is not told.
BuildPdu_Last(sn, frags) ==
    [sn    |-> sn,
     first |-> frags[1].tag \in {"FULL_SDU", "FIRST_SEGMENT"},
     last  |-> frags[Len(frags)].tag = "FULL_SDU",
     frags |-> [i \in DOMAIN frags |->
                   [sdu |-> frags[i].sdu, from |-> frags[i].from, to |-> frags[i].to]]]

BuildPdu(sn, frags) ==
    [sn    |-> sn,
     first |-> frags[1].tag \in {"FULL_SDU", "FIRST_SEGMENT"},
     last  |-> frags[Len(frags)].tag \in {"FULL_SDU", "LAST_SEGMENT"},
     frags |-> [i \in DOMAIN frags |->
                   [sdu |-> frags[i].sdu, from |-> frags[i].from, to |-> frags[i].to]]]

DoNotifyNrSlTxOpportunity(bytes) ==
    /\ bytes > 2
    /\ txBuffer # <<>>
    /\ \E k \in 1 .. Len(txBuffer) :
          LET c    == Cut(bytes, k)
              rest == GivenBack(txBuffer[k], c)
          IN  /\ EndsAt(bytes, k)
              /\ txBuffer' = rest \o SubSeq(txBuffer, k + 1, Len(txBuffer))
              /\ txBufferSize' = txBufferSize - (txBuffer[k].to - txBuffer[1].from)
                                 + SizeBack(rest)
              /\ pdu' = BuildPdu(sequenceNumber, Taken(bytes, k))
    /\ sequenceNumber' = Wrap(sequenceNumber + 1)
    /\ rbsTimer' = IF txBuffer' # <<>> THEN TRUE ELSE rbsTimer
    /\ UNCHANGED <<reported, sdus>>

\* Bug: the timer neither reports nor restarts.
ExpireNrSlRbsTimer_Silent ==
    /\ rbsTimer
    /\ rbsTimer' = FALSE
    /\ UNCHANGED <<txBuffer, txBufferSize, sequenceNumber, reported, sdus, pdu>>

ExpireNrSlRbsTimer ==
    /\ rbsTimer
    /\ rbsTimer' = (txBuffer # <<>>)
    /\ reported' = IF txBuffer # <<>> THEN QueueSize(txBuffer, txBufferSize) ELSE reported
    /\ UNCHANGED <<txBuffer, txBufferSize, sequenceNumber, sdus, pdu>>

Next == \/ \E size \in SduSizes : DoTransmitNrSlPdcpPdu(size)
        \/ \E bytes \in Grants : DoNotifyNrSlTxOpportunity(bytes)
        \/ ExpireNrSlRbsTimer

Spec == Init /\ [][Next]_txVars

-----------------------------------------------------------------------------
(* Properties.                                                             *)

Interval == [from : Nat, to : Nat]
Fragment == [sdu : Nat \ {0}, from : Nat, to : Nat]
Piece    == [sdu : Nat \ {0}, from : Nat, to : Nat, tag : Tags]

TypeOK == /\ txBuffer \in Seq(Piece)
          /\ txBufferSize \in Nat
          /\ sequenceNumber \in SnValue
          /\ rbsTimer \in BOOLEAN
          /\ reported \in Nat
          /\ sdus \in Seq(Interval)
          /\ \/ pdu = NoPdu
             \/ /\ pdu.sn \in SnValue
                /\ pdu.first \in BOOLEAN /\ pdu.last \in BOOLEAN
                /\ pdu.frags \in Seq(Fragment) /\ pdu.frags # <<>>

\* The buffered pieces are the accepted bytes not yet sent, in order and
\* without a gap, whatever the grants cut them into; m_txBufferSize, kept by
\* increments and decrements, is their size and never exceeds its limit.
Accounting ==
    /\ \A i \in 1 .. Len(txBuffer) - 1 : txBuffer[i].to = txBuffer[i + 1].from
    /\ \A i \in 1 .. Len(txBuffer) : txBuffer[i].from < txBuffer[i].to
    /\ txBuffer # <<>> => txBuffer[Len(txBuffer)].to = StreamEnd
    /\ txBufferSize = StreamEnd - StreamSent
    /\ txBufferSize <= MaxTxBufferSize

\* A buffered piece's status tag says which bytes of its SDU it holds; the
\* framing information of every later PDU is read from it.
TagsTrue ==
    \A i \in 1 .. Len(txBuffer) :
        LET piece == txBuffer[i]
            sdu   == sdus[piece.sdu]
        IN  /\ piece.to = sdu.to
            /\ IF piece.tag = "FULL_SDU" THEN piece.from = sdu.from
               ELSE piece.tag = "LAST_SEGMENT" /\ sdu.from < piece.from

\* The framing information of a PDU tells whether its data field starts with
\* the first byte and ends with the last byte of an SDU, and every fragment but
\* the last is the end of its SDU and fits a length indicator.
FramingTrue ==
    pdu # NoPdu =>
        LET n == Len(pdu.frags)
            f == pdu.frags
        IN  /\ pdu.first <=> f[1].from = sdus[f[1].sdu].from
            /\ pdu.last  <=> f[n].to = sdus[f[n].sdu].to
            /\ \A i \in 1 .. n - 1 : /\ f[i].to = sdus[f[i].sdu].to
                                    /\ f[i + 1].sdu = f[i].sdu + 1
                                    /\ f[i + 1].from = sdus[f[i + 1].sdu].from
                                    /\ f[i].to - f[i].from <= LiMax

\* Status tags and framing information, which the branches set and adjust
\* apart, stay true through repeated segmentation.
SegmentsTrue == TagsTrue /\ FramingTrue

PduSize(p) == HeaderSize(p.frags) + (p.frags[Len(p.frags)].to - p.frags[1].from)

\* A PDU continues the stream where the previous one ended and takes exactly
\* the bytes that leave the buffer, and, with the header LteRlcHeader builds
\* for it, fits the opportunity it answers.
PduTakesTheHead ==
    [][\A bytes \in Grants : DoNotifyNrSlTxOpportunity(bytes) =>
          /\ pdu'.frags[1].from = StreamSent
          /\ pdu'.frags[Len(pdu'.frags)].to = StreamSent'
          /\ PduSize(pdu') <= bytes]_txVars

\* lte-rlc-um.cc:1507 and 1541: with data left, what an opportunity leaves
\* unused is at most the two bytes no further length indicator fits in, unless
\* the PDU ends with a segment too long for a length indicator.
GrantFilled ==
    [][\A bytes \in Grants : DoNotifyNrSlTxOpportunity(bytes) /\ txBuffer' # <<>> =>
          LET f == pdu'.frags[Len(pdu'.frags)]
          IN  bytes - PduSize(pdu') <= 2 \/ f.to - f.from > LiMax]_txVars

\* The two header bytes the buffer status report estimates for each SDU
\* suffice: an opportunity as large as the report takes every piece whole, and
\* so drains the buffer, unless a piece above LiMax ends the PDU before the
\* others.  SDUs of the scenario, of 28000 bytes, are such pieces.
ReportSuffices ==
    [][\A bytes \in Grants :
          /\ DoNotifyNrSlTxOpportunity(bytes)
          /\ bytes >= QueueSize(txBuffer, txBufferSize)
          => LET n == Len(pdu'.frags)
             IN  /\ pdu'.frags[n].to = txBuffer[n].to
                 /\ txBuffer' = <<>> \/ Size(txBuffer[n]) > LiMax]_txVars

\* While data waits, either the report timer runs or the MAC's last report is
\* exact: cancelling the timer in DoTransmitNrSlPdcpPdu never leaves the MAC
\* with a stale report.
MacInformed ==
    txBuffer # <<>> /\ ~rbsTimer => reported = QueueSize(txBuffer, txBufferSize)
=============================================================================
