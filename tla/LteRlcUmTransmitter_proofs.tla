--------------------- MODULE LteRlcUmTransmitter_proofs ---------------------
(***************************************************************************)
(* Proofs about LteRlcUmTransmitter for every buffer limit, every set of   *)
(* SDU sizes and of grants, and every length indicator limit.              *)
(***************************************************************************)
EXTENDS LteRlcUmTransmitter, SequenceTheorems, TLAPS

\* An SDU reports the buffer it leaves behind, whether it is stored or dropped.
LEMMA TransmitInforms ==
    ASSUME NEW size \in SduSizes, DoTransmitNrSlPdcpPdu(size)
    PROVE  MacInformed'
<1>1. reported' = QueueSize(txBuffer', txBufferSize')
    BY DEF DoTransmitNrSlPdcpPdu
<1> QED BY <1>1 DEF MacInformed, QueueSize

\* What an opportunity leaves in the buffer is covered by the timer it starts.
LEMMA OpportunityInforms ==
    ASSUME NEW bytes \in Grants, DoNotifyNrSlTxOpportunity(bytes)
    PROVE  MacInformed'
<1>1. rbsTimer' = IF txBuffer' # <<>> THEN TRUE ELSE rbsTimer
    BY DEF DoNotifyNrSlTxOpportunity
<1>2. txBuffer' # <<>> => rbsTimer'
    BY <1>1, Zenon
<1> QED BY <1>2 DEF MacInformed

\* The timer runs on while data waits.
LEMMA ExpiryInforms ==
    ASSUME ExpireNrSlRbsTimer
    PROVE  MacInformed'
<1>1. rbsTimer' = (txBuffer # <<>>) /\ txBuffer' = txBuffer
    BY DEF ExpireNrSlRbsTimer
<1>2. txBuffer' # <<>> => rbsTimer'
    BY <1>1
<1> QED BY <1>2 DEF MacInformed

\* While data waits in m_txBuffer, the report timer runs or the MAC's last
\* buffer status report is exact: m_rbsTimer.Cancel() in DoTransmitNrSlPdcpPdu
\* never leaves the MAC with a stale report.
THEOREM Informed == Spec => []MacInformed
<1>1. Init => MacInformed
    BY DEF Init, MacInformed
<1>2. MacInformed /\ [Next]_txVars => MacInformed'
    <2> SUFFICES ASSUME MacInformed, [Next]_txVars PROVE MacInformed'
        OBVIOUS
    <2>1. CASE \E size \in SduSizes : DoTransmitNrSlPdcpPdu(size)
        BY <2>1, TransmitInforms
    <2>2. CASE \E bytes \in Grants : DoNotifyNrSlTxOpportunity(bytes)
        BY <2>2, OpportunityInforms
    <2>3. CASE ExpireNrSlRbsTimer
        BY <2>3, ExpiryInforms
    <2>4. CASE UNCHANGED txVars
        <3>1. UNCHANGED <<txBuffer, txBufferSize, rbsTimer, reported>>
            BY <2>4 DEF txVars
        <3> QED BY <3>1 DEF MacInformed, QueueSize
    <2> QED BY <2>1, <2>2, <2>3, <2>4 DEF Next
<1> QED BY <1>1, <1>2, PTL DEF Spec


-----------------------------------------------------------------------------
(* Segmentation.                                                           *)

\* More than two bytes were left after a piece of the given size; at most two
\* of them go to its length indicator.
LEMMA SpaceAfterPiece ==
    ASSUME NEW bytes \in Nat, NEW first \in Nat, NEW from \in Nat, NEW to \in Nat,
           NEW li \in Nat, NEW liNext \in Nat, liNext <= li + 2,
           ~((bytes - 2 - (from - first) - li) - (to - from) <= 2)
    PROVE  bytes - 2 - (to - first) - liNext > 0
OBVIOUS

\* Bytes are left for the k-th piece the loop comes to, and a cut in it is
\* inside it or at its end.
LEMMA CutInside ==
    ASSUME NEW bytes \in Nat, bytes > 2,
           txBuffer \in Seq(Piece), Accounting,
           NEW k \in 1 .. Len(txBuffer), EndsAt(bytes, k)
    PROVE  /\ SpaceLeft(bytes, k) > 0
           /\ Cut(bytes, k) \in Nat
           /\ txBuffer[k].from < Cut(bytes, k)
           /\ Cut(bytes, k) <= txBuffer[k].to
<1> DEFINE n == Len(txBuffer)
<1>1. n \in Nat /\ \A i \in 1 .. n : /\ txBuffer[i].from \in Nat /\ txBuffer[i].to \in Nat
                                     /\ txBuffer[i].from < txBuffer[i].to
    <2>1. n \in Nat /\ \A i \in 1 .. n : txBuffer[i] \in Piece
        OBVIOUS
    <2> QED BY <2>1 DEF Accounting, Piece
<1>2. CASE k = 1
    <2>1. LiBytes(k - 1) = 0
        BY <1>2 DEF LiBytes
    <2>2. SpaceLeft(bytes, k) = bytes - 2
        BY <1>1, <1>2, <2>1 DEF SpaceLeft
    <2> QED BY <1>1, <2>2 DEF Cut, Size
<1>3. CASE k > 1
    <2>1. k - 1 \in 1 .. n /\ TakesMore(bytes, k - 1)
        BY <1>3 DEF EndsAt
    <2>2. txBuffer[k - 1].to = txBuffer[k].from
        BY <1>3 DEF Accounting
    <2>3. LiBytes(k - 1) <= LiBytes(k - 2) + 2 /\ LiBytes(k - 1) \in Nat /\ LiBytes(k - 2) \in Nat
        BY <1>3 DEF LiBytes
    <2>4. k - 1 - 1 = k - 2
        OBVIOUS
    <2>5. ~((bytes - 2 - (txBuffer[k - 1].from - txBuffer[1].from) - LiBytes(k - 2))
                - (txBuffer[k].from - txBuffer[k - 1].from) <= 2)
        BY <2>1, <2>2, <2>4 DEF TakesMore, TakesLast, SpaceLeft, Size
    <2>6. txBuffer[1].from \in Nat /\ txBuffer[k - 1].from \in Nat /\ txBuffer[k].from \in Nat
        BY <1>1, <2>1
    <2>7. bytes - 2 - (txBuffer[k].from - txBuffer[1].from) - LiBytes(k - 1) > 0
        BY <2>3, <2>5, <2>6, SpaceAfterPiece
    <2>8. SpaceLeft(bytes, k) > 0
        BY <2>7 DEF SpaceLeft
    <2>9. SpaceLeft(bytes, k) \in Int
        <3> DEFINE li == LiBytes(k - 1)
        <3>1. li \in Nat /\ SpaceLeft(bytes, k) =
                 bytes - 2 - (txBuffer[k].from - txBuffer[1].from) - li
            BY <2>3 DEF SpaceLeft
        <3> HIDE DEF li
        <3> QED BY <2>6, <3>1
    <2> QED BY <1>1, <2>8, <2>9 DEF Cut, Size
<1> QED BY <1>2, <1>3

\* An element put in front of a sequence.
LEMMA Prepended ==
    ASSUME NEW S, NEW e \in S, NEW s \in Seq(S)
    PROVE  /\ <<e>> \o s \in Seq(S)
           /\ Len(<<e>> \o s) = Len(s) + 1
           /\ (<<e>> \o s)[1] = e
           /\ \A i \in 1 .. Len(s) : (<<e>> \o s)[i + 1] = s[i]
<1>1. <<e>> \in Seq(S) /\ Len(<<e>>) = 1 /\ <<e>>[1] = e
    OBVIOUS
<1>2. /\ <<e>> \o s \in Seq(S)
      /\ Len(<<e>> \o s) = Len(<<e>>) + Len(s)
      /\ \A i \in 1 .. Len(<<e>>) + Len(s) :
            (<<e>> \o s)[i] = IF i <= Len(<<e>>) THEN <<e>>[i] ELSE s[i - Len(<<e>>)]
    BY <1>1, ConcatProperties
<1>3. Len(s) \in Nat
    OBVIOUS
<1>4. \A i \in 1 .. Len(s) : (<<e>> \o s)[i + 1] = s[i]
    <2> TAKE i \in 1 .. Len(s)
    <2>1. i + 1 \in 1 .. Len(<<e>>) + Len(s) /\ ~(i + 1 <= Len(<<e>>)) /\ i + 1 - Len(<<e>>) = i
        BY <1>1, <1>3
    <2> QED BY <1>2, <2>1
<1> QED BY <1>1, <1>2, <1>3, <1>4

\* The rest of a piece that is cut, which goes back to the front of the buffer.
Rest(piece, c) == [piece EXCEPT !.from = c, !.tag = "LAST_SEGMENT"]

\* A PDU that ends at c in the k-th piece leaves the pieces behind it, behind
\* the rest of the k-th if that was cut.
Leaves(left, k, c) ==
    LET gone == IF c = txBuffer[k].to THEN k ELSE k - 1
    IN  /\ left \in Seq(Piece)
        /\ Len(left) = Len(txBuffer) - gone
        /\ \A i \in 1 .. Len(left) :
              left[i] = IF i = 1 /\ c # txBuffer[k].to THEN Rest(txBuffer[k], c)
                        ELSE txBuffer[gone + i]

\* The buffer built from what is given back is what such a PDU leaves.
LEMMA BufferLeft ==
    ASSUME txBuffer \in Seq(Piece), NEW k \in 1 .. Len(txBuffer), NEW c \in Nat,
           NEW left,
           left = GivenBack(txBuffer[k], c) \o SubSeq(txBuffer, k + 1, Len(txBuffer))
    PROVE  Leaves(left, k, c)
<1> DEFINE n == Len(txBuffer)
           behind == SubSeq(txBuffer, k + 1, n)
<1>1. n \in Nat /\ \A i \in 1 .. n : txBuffer[i] \in Piece
    OBVIOUS
<1>2. /\ behind \in Seq(Piece)
      /\ Len(behind) = n - k
      /\ \A i \in 1 .. n - k : behind[i] = txBuffer[k + i]
    BY <1>1
<1> HIDE DEF n, behind
<1>3. CASE c = txBuffer[k].to
    <2>1. left = behind
        BY <1>2, <1>3, ConcatEmptySeq DEF GivenBack, behind, n
    <2> QED BY <1>2, <1>3, <2>1 DEF n, Leaves
<1>4. CASE c # txBuffer[k].to
    <2> DEFINE rest == Rest(txBuffer[k], c)
    <2>1. left = <<rest>> \o behind
        BY <1>4 DEF GivenBack, behind, n, Rest
    <2>2. rest \in Piece
        BY <1>1 DEF Rest, Piece, Tags, n
    <2> HIDE DEF rest
    <2>3. /\ left \in Seq(Piece)
          /\ Len(left) = n - k + 1
          /\ left[1] = rest
          /\ \A i \in 1 .. n - k : left[i + 1] = behind[i]
        <3>1. /\ <<rest>> \o behind \in Seq(Piece)
              /\ Len(<<rest>> \o behind) = Len(behind) + 1
              /\ (<<rest>> \o behind)[1] = rest
              /\ \A i \in 1 .. Len(behind) : (<<rest>> \o behind)[i + 1] = behind[i]
            BY <1>2, <2>2, Prepended
        <3> QED BY <1>2, <2>1, <3>1
    <2>4. ASSUME NEW i \in 1 .. n - k + 1, i # 1
          PROVE  left[i] = txBuffer[k - 1 + i]
        <3>1. /\ i - 1 \in 1 .. n - k
              /\ (i - 1) + 1 = i
              /\ k + (i - 1) = k - 1 + i
            BY <1>1, <2>4 DEF n
        <3>2. left[(i - 1) + 1] = behind[i - 1] /\ behind[i - 1] = txBuffer[k + (i - 1)]
            BY <1>2, <2>3, <3>1
        <3> QED BY <3>1, <3>2
    <2>5. n - k + 1 = n - (k - 1)
        BY <1>1 DEF n
    <2> QED BY <1>4, <2>3, <2>4, <2>5 DEF n, rest, Leaves
<1> QED BY <1>3, <1>4

-----------------------------------------------------------------------------
(* The inductive invariant.                                                *)

\* The pieces in the buffer are of the last SDUs accepted, one of each, and
\* only the first may be the rest of an SDU.
BufferedInOrder ==
    /\ Len(txBuffer) <= Len(sdus)
    /\ \A i \in 1 .. Len(txBuffer) : txBuffer[i].sdu = Len(sdus) - Len(txBuffer) + i
    /\ \A i \in 2 .. Len(txBuffer) : txBuffer[i].tag = "FULL_SDU"

\* The bytes of a piece come before those of every piece behind it.
BytesInOrder ==
    \A i, j \in 1 .. Len(txBuffer) : i < j => txBuffer[i].to <= txBuffer[j].from

\* The last PDU speaks of accepted SDUs.
PduOfAccepted ==
    pdu # NoPdu => \A i \in 1 .. Len(pdu.frags) : pdu.frags[i].sdu \in 1 .. Len(sdus)

PduTyped == \/ pdu = NoPdu
            \/ /\ pdu.sn \in SnValue
               /\ pdu.first \in BOOLEAN /\ pdu.last \in BOOLEAN
               /\ pdu.frags \in Seq(Fragment) /\ pdu.frags # <<>>

TxInv == /\ TypeOK /\ Accounting /\ SegmentsTrue
         /\ BufferedInOrder /\ BytesInOrder /\ PduOfAccepted

\* The buffer is empty and nothing was sent.
LEMMA InitTxInv == Init => TxInv
<1> SUFFICES ASSUME Init PROVE TxInv
    OBVIOUS
<1>1. TypeOK
    <2>1. sequenceNumber \in SnValue /\ PduTyped
        BY TxAssumption DEF Init, PduTyped
    <2>2. txBuffer \in Seq(Piece) /\ sdus \in Seq(Interval)
        BY EmptySeq DEF Init
    <2> QED BY <2>1, <2>2 DEF Init, TypeOK, PduTyped
<1>2. Accounting
    BY TxAssumption DEF Init, Accounting, StreamEnd, StreamSent
<1>3. SegmentsTrue
    BY DEF Init, SegmentsTrue, TagsTrue, FramingTrue
<1>4. BufferedInOrder /\ BytesInOrder /\ PduOfAccepted
    BY DEF Init, BufferedInOrder, BytesInOrder, PduOfAccepted
<1> QED BY <1>1, <1>2, <1>3, <1>4 DEF TxInv

\* An SDU is appended to the buffer, or dropped.
LEMMA TransmitTxInv ==
    ASSUME TxInv, NEW size \in SduSizes, DoTransmitNrSlPdcpPdu(size)
    PROVE  TxInv'
<1> DEFINE end   == StreamEnd
           sdu   == [from |-> end, to |-> end + size]
           piece == [from |-> end, to |-> end + size, sdu |-> Len(sdus) + 1,
                     tag |-> "FULL_SDU"]
<1>1. size \in Nat /\ size > 0 /\ MaxTxBufferSize \in Nat
    BY TxAssumption
<1>2. /\ txBuffer \in Seq(Piece) /\ sdus \in Seq(Interval)
      /\ txBufferSize \in Nat /\ Len(txBuffer) \in Nat /\ Len(sdus) \in Nat
    BY DEF TxInv, TypeOK
<1>3. end \in Nat
    <2>1. sdus # <<>> => sdus[Len(sdus)] \in Interval
        BY <1>2, EmptySeq, ElementOfSeq
    <2> QED BY <2>1 DEF StreamEnd, Interval
<1>4. sdu \in Interval /\ piece \in Piece
    BY <1>1, <1>2, <1>3 DEF Interval, Piece, Tags
<1>5. UNCHANGED <<sequenceNumber, pdu>> /\ rbsTimer' = FALSE
    BY DEF DoTransmitNrSlPdcpPdu
<1>6. reported' = QueueSize(txBuffer', txBufferSize')
    BY DEF DoTransmitNrSlPdcpPdu
<1>7. CASE txBufferSize + size <= MaxTxBufferSize
    <2>1. /\ txBuffer' = Append(txBuffer, piece)
          /\ sdus' = Append(sdus, sdu)
          /\ txBufferSize' = txBufferSize + size
        BY <1>7 DEF DoTransmitNrSlPdcpPdu
    <2> HIDE DEF sdu, piece, end
    <2>2. /\ txBuffer' \in Seq(Piece)
          /\ Len(txBuffer') = Len(txBuffer) + 1
          /\ \A i \in 1 .. Len(txBuffer) : txBuffer'[i] = txBuffer[i]
          /\ txBuffer'[Len(txBuffer) + 1] = piece
        BY <1>2, <1>4, <2>1, AppendProperties
    <2>3. /\ sdus' \in Seq(Interval)
          /\ Len(sdus') = Len(sdus) + 1
          /\ \A i \in 1 .. Len(sdus) : sdus'[i] = sdus[i]
          /\ sdus'[Len(sdus) + 1] = sdu
        BY <1>2, <1>4, <2>1, AppendProperties
    <2>4. TypeOK'
        <3>1. txBufferSize' \in Nat /\ reported' \in Nat
            BY <1>1, <1>2, <1>6, <2>1, <2>2 DEF QueueSize
        <3>2. sequenceNumber' \in SnValue /\ PduTyped'
            BY <1>5 DEF TxInv, TypeOK, PduTyped
        <3> QED BY <1>5, <2>2, <2>3, <3>1, <3>2 DEF TypeOK, PduTyped
    <2>5. StreamEnd' = end + size
        BY <1>2, <2>3 DEF StreamEnd, sdu
    <2>6. StreamSent' = StreamSent
        BY <1>2, <2>2 DEF StreamSent, StreamEnd, piece, end
    <2>7. Accounting'
        <3>1. ASSUME NEW i \in 1 .. Len(txBuffer') - 1
              PROVE  txBuffer'[i].to = txBuffer'[i + 1].from
            <4>1. CASE i < Len(txBuffer)
                BY <1>2, <2>2, <4>1 DEF TxInv, Accounting
            <4>2. CASE i = Len(txBuffer)
                <5>1. txBuffer # <<>> /\ txBuffer[i].to = end
                    BY <1>2, <2>2, <4>2, EmptySeq DEF TxInv, Accounting, end
                <5> QED BY <2>2, <4>2, <5>1 DEF piece
            <4> QED BY <1>2, <2>2, <4>1, <4>2
        <3>2. ASSUME NEW i \in 1 .. Len(txBuffer')
              PROVE  txBuffer'[i].from < txBuffer'[i].to
            <4>1. CASE i \in 1 .. Len(txBuffer)
                BY <2>2, <4>1 DEF TxInv, Accounting
            <4>2. CASE i = Len(txBuffer) + 1
                BY <1>1, <1>3, <2>2, <4>2 DEF piece
            <4> QED BY <1>2, <2>2, <4>1, <4>2
        <3>3. txBuffer'[Len(txBuffer')].to = StreamEnd'
            BY <1>2, <2>2, <2>5 DEF piece
        <3>4. StreamSent \in Int
            <4>1. txBuffer # <<>> => txBuffer[1] \in Piece
                BY <1>2, EmptySeq
            <4> QED BY <1>3, <4>1 DEF StreamSent, Piece, end
        <3>5. txBufferSize' = StreamEnd' - StreamSent' /\ txBufferSize' <= MaxTxBufferSize
            BY <1>1, <1>2, <1>3, <1>7, <2>1, <2>5, <2>6, <3>4 DEF TxInv, Accounting, end
        <3> QED BY <3>1, <3>2, <3>3, <3>5 DEF Accounting
    <2>8. BufferedInOrder'
        <3>1. ASSUME NEW i \in 1 .. Len(txBuffer')
              PROVE  /\ txBuffer'[i].sdu = Len(sdus') - Len(txBuffer') + i
                     /\ i # 1 => txBuffer'[i].tag = "FULL_SDU"
            <4>1. CASE i \in 1 .. Len(txBuffer)
                <5>1. txBuffer'[i] = txBuffer[i] /\ i # 1 => i \in 2 .. Len(txBuffer)
                    BY <1>2, <2>2, <4>1
                <5>2. Len(sdus') - Len(txBuffer') + i = Len(sdus) - Len(txBuffer) + i
                    BY <1>2, <2>2, <2>3
                <5> QED BY <2>2, <4>1, <5>1, <5>2 DEF TxInv, BufferedInOrder
            <4>2. CASE i = Len(txBuffer) + 1
                BY <1>2, <2>2, <2>3, <4>2 DEF piece
            <4> QED BY <1>2, <2>2, <4>1, <4>2
        <3>2. Len(txBuffer') <= Len(sdus')
            BY <1>2, <2>2, <2>3 DEF TxInv, BufferedInOrder
        <3> QED BY <1>2, <2>2, <3>1, <3>2 DEF BufferedInOrder
    <2>9. PduOfAccepted'
        BY <1>2, <1>5, <2>3 DEF TxInv, PduOfAccepted
    <2>10. TagsTrue'
        <3> SUFFICES ASSUME NEW i \in 1 .. Len(txBuffer')
                     PROVE  /\ txBuffer'[i].to = sdus'[txBuffer'[i].sdu].to
                            /\ IF txBuffer'[i].tag = "FULL_SDU"
                               THEN txBuffer'[i].from = sdus'[txBuffer'[i].sdu].from
                               ELSE /\ txBuffer'[i].tag = "LAST_SEGMENT"
                                    /\ sdus'[txBuffer'[i].sdu].from < txBuffer'[i].from
            BY DEF TagsTrue
        <3>1. CASE i = Len(txBuffer) + 1
            BY <2>2, <2>3, <3>1 DEF piece, sdu
        <3>2. CASE i \in 1 .. Len(txBuffer)
            <4>1. txBuffer[i].sdu \in 1 .. Len(sdus)
                BY <1>2, <3>2 DEF TxInv, BufferedInOrder
            <4>2. txBuffer'[i] = txBuffer[i] /\ sdus'[txBuffer[i].sdu] = sdus[txBuffer[i].sdu]
                BY <2>2, <2>3, <3>2, <4>1
            <4> QED BY <3>2, <4>2 DEF TxInv, SegmentsTrue, TagsTrue
        <3> QED BY <1>2, <2>2, <3>1, <3>2
    <2>11. FramingTrue'
        <3>1. CASE pdu = NoPdu
            BY <1>5, <3>1 DEF FramingTrue
        <3>2. CASE pdu # NoPdu
            <4> DEFINE f == pdu.frags
            <4>1. Len(f) \in Nat /\ Len(f) >= 1
                BY <3>2 DEF TxInv, TypeOK
            <4>2. \A i \in 1 .. Len(f) : sdus'[f[i].sdu] = sdus[f[i].sdu]
                BY <2>3, <3>2 DEF TxInv, PduOfAccepted
            <4>3. /\ pdu.first <=> f[1].from = sdus[f[1].sdu].from
                  /\ pdu.last  <=> f[Len(f)].to = sdus[f[Len(f)].sdu].to
                  /\ \A i \in 1 .. Len(f) - 1 :
                        /\ f[i].to = sdus[f[i].sdu].to
                        /\ f[i + 1].sdu = f[i].sdu + 1
                        /\ f[i + 1].from = sdus[f[i + 1].sdu].from
                        /\ f[i].to - f[i].from <= LiMax
                BY <3>2 DEF TxInv, SegmentsTrue, FramingTrue
            <4>4. \A i \in 1 .. Len(f) - 1 : i \in 1 .. Len(f) /\ i + 1 \in 1 .. Len(f)
                BY <4>1
            <4>5. 1 \in 1 .. Len(f) /\ Len(f) \in 1 .. Len(f)
                BY <4>1
            <4> HIDE DEF f
            <4>6. /\ pdu.first <=> f[1].from = sdus'[f[1].sdu].from
                  /\ pdu.last  <=> f[Len(f)].to = sdus'[f[Len(f)].sdu].to
                  /\ \A i \in 1 .. Len(f) - 1 :
                        /\ f[i].to = sdus'[f[i].sdu].to
                        /\ f[i + 1].sdu = f[i].sdu + 1
                        /\ f[i + 1].from = sdus'[f[i + 1].sdu].from
                        /\ f[i].to - f[i].from <= LiMax
                BY <4>2, <4>3, <4>4, <4>5
            <4> QED BY <1>5, <4>6 DEF FramingTrue, f
        <3> QED BY <3>1, <3>2
    <2>12. BytesInOrder'
        <3> SUFFICES ASSUME NEW i \in 1 .. Len(txBuffer'), NEW j \in 1 .. Len(txBuffer'), i < j
                     PROVE  txBuffer'[i].to <= txBuffer'[j].from
            BY DEF BytesInOrder
        <3>1. i \in 1 .. Len(txBuffer) /\ txBuffer'[i] = txBuffer[i]
            BY <1>2, <2>2
        <3>2. CASE j \in 1 .. Len(txBuffer)
            BY <2>2, <3>1, <3>2 DEF TxInv, BytesInOrder
        <3>3. CASE j = Len(txBuffer) + 1
            <4>1. txBuffer # <<>> /\ Len(txBuffer) \in 1 .. Len(txBuffer)
                BY <1>2, <3>1, EmptySeq
            <4>2. txBuffer[Len(txBuffer)].to = end /\ txBuffer'[j].from = end
                BY <2>2, <3>3, <4>1 DEF TxInv, Accounting, end, piece
            <4>3. CASE i = Len(txBuffer)
                BY <1>3, <3>1, <4>2, <4>3
            <4>4. CASE i < Len(txBuffer)
                <5>1. txBuffer[i].to <= txBuffer[Len(txBuffer)].from
                    BY <3>1, <4>1, <4>4 DEF TxInv, BytesInOrder
                <5>2. txBuffer[Len(txBuffer)].from < txBuffer[Len(txBuffer)].to
                    BY <4>1 DEF TxInv, Accounting
                <5>3. txBuffer[i] \in Piece /\ txBuffer[Len(txBuffer)] \in Piece
                    BY <1>2, <3>1, <4>1
                <5>4. /\ txBuffer[i].to \in Nat
                      /\ txBuffer[Len(txBuffer)].from \in Nat
                      /\ txBuffer[Len(txBuffer)].to \in Nat
                    BY <5>3 DEF Piece
                <5> QED BY <3>1, <4>2, <5>1, <5>2, <5>4
            <4> QED BY <1>2, <3>1, <4>3, <4>4
        <3>4. j \in 1 .. Len(txBuffer) + 1
            BY <2>2
        <3> QED BY <1>2, <3>2, <3>3, <3>4
    <2> QED BY <2>4, <2>7, <2>8, <2>9, <2>10, <2>11, <2>12 DEF TxInv, SegmentsTrue
<1>8. CASE ~(txBufferSize + size <= MaxTxBufferSize)
    <2>1. UNCHANGED <<txBuffer, txBufferSize, sdus>>
        BY <1>8 DEF DoTransmitNrSlPdcpPdu
    <2>2. TypeOK'
        <3>1. reported' \in Nat
            BY <1>2, <1>6, <2>1 DEF QueueSize
        <3>2. sequenceNumber' \in SnValue /\ PduTyped'
            BY <1>5 DEF TxInv, TypeOK, PduTyped
        <3> QED BY <1>2, <1>5, <2>1, <3>1, <3>2 DEF TypeOK, PduTyped
    <2> QED BY <1>5, <2>1, <2>2 DEF TxInv, Accounting, StreamEnd, StreamSent, SegmentsTrue,
                                    TagsTrue, FramingTrue, BufferedInOrder, BytesInOrder,
                                    PduOfAccepted
<1> QED BY <1>7, <1>8

\* What a PDU that ends at c in the k-th piece carries.
Carries(p, k, c) ==
    /\ p.sn = sequenceNumber
    /\ p.frags \in Seq(Fragment)
    /\ Len(p.frags) = k
    /\ \A i \in 1 .. k :
          /\ p.frags[i].sdu = txBuffer[i].sdu
          /\ p.frags[i].from = txBuffer[i].from
          /\ p.frags[i].to = IF i < k THEN txBuffer[i].to ELSE c
    /\ p.first = ((IF 1 < k THEN txBuffer[1].tag ELSE NewTag(txBuffer[k], c))
                      \in {"FULL_SDU", "FIRST_SEGMENT"})
    /\ p.last = (NewTag(txBuffer[k], c) \in {"FULL_SDU", "LAST_SEGMENT"})

\* The PDU built from the fragments taken carries this.
LEMMA PduBuilt ==
    ASSUME txBuffer \in Seq(Piece), NEW bytes \in Nat, NEW k \in 1 .. Len(txBuffer),
           Cut(bytes, k) \in Nat,
           NEW p, p = BuildPdu(sequenceNumber, Taken(bytes, k))
    PROVE  Carries(p, k, Cut(bytes, k))
<1> DEFINE frags == Taken(bytes, k)
           f     == [i \in DOMAIN frags |->
                        [sdu |-> frags[i].sdu, from |-> frags[i].from, to |-> frags[i].to]]
<1>1. k \in Nat /\ k >= 1 /\ \A i \in 1 .. k : txBuffer[i] \in Piece
    OBVIOUS
<1>2. /\ DOMAIN frags = 1 .. k
      /\ \A i \in 1 .. k :
            /\ i < k => frags[i] = txBuffer[i]
            /\ ~(i < k) => frags[i] = [txBuffer[k] EXCEPT !.to = Cut(bytes, k),
                                         !.tag = NewTag(txBuffer[k], Cut(bytes, k))]
    BY DEF Taken
<1>3. Len(frags) = k
    <2>1. frags = [i \in 1 .. k |-> frags[i]]
        BY <1>2 DEF Taken
    <2> QED BY <1>1, <2>1
<1> HIDE DEF frags
<1>4. ASSUME NEW i \in 1 .. k
      PROVE  /\ frags[i].sdu = txBuffer[i].sdu
             /\ frags[i].from = txBuffer[i].from
             /\ frags[i].to = IF i < k THEN txBuffer[i].to ELSE Cut(bytes, k)
             /\ frags[i].tag = IF i < k THEN txBuffer[i].tag
                               ELSE NewTag(txBuffer[k], Cut(bytes, k))
    <2>1. CASE i < k
        BY <1>2, <2>1
    <2>2. CASE ~(i < k)
        <3>1. i = k
            BY <1>1, <2>2
        <3>2. frags[i] = [txBuffer[k] EXCEPT !.to = Cut(bytes, k),
                                             !.tag = NewTag(txBuffer[k], Cut(bytes, k))]
            BY <1>2, <2>2
        <3>3. txBuffer[k] = [sdu |-> txBuffer[k].sdu, from |-> txBuffer[k].from,
                             to |-> txBuffer[k].to, tag |-> txBuffer[k].tag]
            BY <1>1 DEF Piece
        <3> QED BY <2>2, <3>1, <3>2, <3>3
    <2> QED BY <2>1, <2>2
<1>5. DOMAIN f = 1 .. k /\ f \in Seq(Fragment) /\ Len(f) = k
    <2>1. \A i \in 1 .. k : f[i] \in Fragment
        <3> TAKE i \in 1 .. k
        <3>1. /\ txBuffer[i].sdu \in Nat \ {0}
              /\ txBuffer[i].from \in Nat
              /\ txBuffer[i].to \in Nat
            BY <1>1 DEF Piece
        <3> QED BY <1>2, <1>4, <3>1 DEF Fragment
    <2>2. f = [i \in 1 .. k |-> f[i]]
        BY <1>2
    <2> QED BY <1>1, <2>1, <2>2
<1>6. p.sn = sequenceNumber /\ p.frags = f
    BY DEF BuildPdu, frags
<1>7. \A i \in 1 .. k : /\ f[i].sdu = frags[i].sdu
                        /\ f[i].from = frags[i].from
                        /\ f[i].to = frags[i].to
    BY <1>2
<1>8. /\ p.first = (frags[1].tag \in {"FULL_SDU", "FIRST_SEGMENT"})
      /\ p.last = (frags[k].tag \in {"FULL_SDU", "LAST_SEGMENT"})
    BY <1>3 DEF BuildPdu, frags
<1>9. 1 \in 1 .. k /\ k \in 1 .. k /\ ~(k < k)
    BY <1>1
<1> HIDE DEF f
<1>10. /\ frags[1].tag = IF 1 < k THEN txBuffer[1].tag ELSE NewTag(txBuffer[k], Cut(bytes, k))
       /\ frags[k].tag = NewTag(txBuffer[k], Cut(bytes, k))
    BY <1>4, <1>9
<1> QED BY <1>4, <1>5, <1>6, <1>7, <1>8, <1>10 DEF Carries

\* The timer reports or stops.
LEMMA ExpiryTxInv ==
    ASSUME TxInv, ExpireNrSlRbsTimer
    PROVE  TxInv'
<1>1. UNCHANGED <<txBuffer, txBufferSize, sequenceNumber, sdus, pdu>>
    BY DEF ExpireNrSlRbsTimer
<1>2. TypeOK'
    <2>1. rbsTimer' \in BOOLEAN
        BY DEF ExpireNrSlRbsTimer
    <2>2. reported' \in Nat
        <3>1. txBufferSize \in Nat /\ Len(txBuffer) \in Nat /\ reported \in Nat
            BY DEF TxInv, TypeOK
        <3>2. reported' = IF txBuffer # <<>> THEN QueueSize(txBuffer, txBufferSize) ELSE reported
            BY DEF ExpireNrSlRbsTimer
        <3> QED BY <3>1, <3>2 DEF QueueSize
    <2> QED BY <1>1, <2>1, <2>2 DEF TxInv, TypeOK
<1>3. Accounting'
    BY <1>1 DEF TxInv, Accounting, StreamEnd, StreamSent
<1>4. TagsTrue' /\ FramingTrue'
    BY <1>1 DEF TxInv, SegmentsTrue, TagsTrue, FramingTrue
<1>5. BufferedInOrder' /\ BytesInOrder' /\ PduOfAccepted'
    BY <1>1 DEF TxInv, BufferedInOrder, BytesInOrder, PduOfAccepted
<1> QED BY <1>2, <1>3, <1>4, <1>5 DEF TxInv, SegmentsTrue

\* What is counted again is the rest of the piece that was cut.
LEMMA SizeOfRest ==
    ASSUME txBuffer \in Seq(Piece), NEW k \in 1 .. Len(txBuffer), NEW c \in Nat
    PROVE  SizeBack(GivenBack(txBuffer[k], c)) = txBuffer[k].to - c
<1>1. txBuffer[k] \in Piece
    OBVIOUS
<1>2. CASE c = txBuffer[k].to
    BY <1>1, <1>2 DEF GivenBack, SizeBack, Piece
<1>3. CASE c # txBuffer[k].to
    <2> DEFINE rest == Rest(txBuffer[k], c)
    <2>1. GivenBack(txBuffer[k], c) = <<rest>>
        BY <1>3 DEF GivenBack, Rest
    <2>2. rest.from = c /\ rest.to = txBuffer[k].to
        BY <1>1 DEF Rest, Piece
    <2> HIDE DEF rest
    <2>3. <<rest>> # <<>> /\ <<rest>>[1] = rest
        OBVIOUS
    <2> QED BY <2>1, <2>2, <2>3 DEF SizeBack, Size
<1> QED BY <1>2, <1>3

\* Every opportunity ends in one piece of the buffer, inside it or at its end.
LEMMA OpportunityTakes ==
    ASSUME TxInv, NEW bytes \in Grants, DoNotifyNrSlTxOpportunity(bytes)
    PROVE  \E k \in 1 .. Len(txBuffer), c \in Nat :
              /\ EndsAt(bytes, k)
              /\ c = Cut(bytes, k)
              /\ txBuffer[k].from < c /\ c <= txBuffer[k].to
              /\ Leaves(txBuffer', k, c)
              /\ Carries(pdu', k, c)
              /\ txBufferSize' = txBufferSize - (c - txBuffer[1].from)
<1>1. bytes \in Nat /\ bytes > 2
    BY TxAssumption DEF DoNotifyNrSlTxOpportunity
<1>2. txBuffer \in Seq(Piece) /\ Accounting
    BY DEF TxInv, TypeOK
<1>3. PICK k \in 1 .. Len(txBuffer) :
          /\ EndsAt(bytes, k)
          /\ txBuffer' = GivenBack(txBuffer[k], Cut(bytes, k))
                           \o SubSeq(txBuffer, k + 1, Len(txBuffer))
          /\ txBufferSize' = txBufferSize - (txBuffer[k].to - txBuffer[1].from)
                             + SizeBack(GivenBack(txBuffer[k], Cut(bytes, k)))
          /\ pdu' = BuildPdu(sequenceNumber, Taken(bytes, k))
    BY DEF DoNotifyNrSlTxOpportunity
<1>4. /\ Cut(bytes, k) \in Nat
      /\ txBuffer[k].from < Cut(bytes, k)
      /\ Cut(bytes, k) <= txBuffer[k].to
    BY <1>1, <1>2, <1>3, CutInside
<1>5. Leaves(txBuffer', k, Cut(bytes, k))
    BY <1>2, <1>3, <1>4, BufferLeft
<1>6. Carries(pdu', k, Cut(bytes, k))
    BY <1>1, <1>2, <1>3, <1>4, PduBuilt
<1>7. txBufferSize' = txBufferSize - (Cut(bytes, k) - txBuffer[1].from)
    <2>1. SizeBack(GivenBack(txBuffer[k], Cut(bytes, k))) = txBuffer[k].to - Cut(bytes, k)
        BY <1>2, <1>4, SizeOfRest
    <2>2. /\ txBufferSize \in Nat /\ txBuffer[1].from \in Nat
          /\ txBuffer[k].to \in Nat
        <3>1. txBuffer[1] \in Piece /\ txBuffer[k] \in Piece
            BY <1>2
        <3> QED BY <3>1 DEF TxInv, TypeOK, Piece
    <2> HIDE DEF Cut
    <2> QED BY <1>3, <1>4, <2>1, <2>2
<1> QED BY <1>3, <1>4, <1>5, <1>6, <1>7

\* Where the stream of bytes not yet sent starts after a PDU that ends at c.
LEMMA SentUpTo ==
    ASSUME TxInv, sdus' = sdus, NEW k \in 1 .. Len(txBuffer), NEW c \in Nat,
           Leaves(txBuffer', k, c)
    PROVE  StreamSent' = c
<1> DEFINE n == Len(txBuffer)
<1>1. n \in Nat /\ Len(txBuffer') \in Nat
    BY DEF TxInv, TypeOK, Leaves
<1>2. StreamEnd' = StreamEnd
    BY DEF StreamEnd
<1>3. CASE c # txBuffer[k].to
    <2>1. Len(txBuffer') = n - (k - 1) /\ Len(txBuffer') >= 1
        BY <1>1, <1>3 DEF Leaves
    <2>2. txBuffer'[1] = Rest(txBuffer[k], c)
        BY <1>1, <1>3, <2>1 DEF Leaves
    <2>3. txBuffer[k] \in Piece
        BY DEF TxInv, TypeOK
    <2>4. txBuffer'[1].from = c
        BY <2>2, <2>3 DEF Rest, Piece
    <2> QED BY <2>1, <2>4, EmptySeq DEF StreamSent
<1>4. CASE c = txBuffer[k].to /\ k < n
    <2>1. Len(txBuffer') = n - k /\ Len(txBuffer') >= 1
        BY <1>1, <1>4 DEF Leaves
    <2>2. txBuffer'[1] = txBuffer[k + 1]
        BY <1>1, <1>4, <2>1 DEF Leaves
    <2>3. txBuffer[k + 1].from = c
        BY <1>1, <1>4 DEF TxInv, Accounting
    <2> QED BY <2>1, <2>2, <2>3, EmptySeq DEF StreamSent
<1>5. CASE c = txBuffer[k].to /\ k = n
    <2>1. Len(txBuffer') = 0
        BY <1>1, <1>5 DEF Leaves
    <2>2. txBuffer' = <<>>
        BY <2>1, EmptySeq DEF Leaves
    <2>3. StreamEnd = c
        BY <1>1, <1>5, EmptySeq DEF TxInv, Accounting
    <2> QED BY <1>2, <2>2, <2>3 DEF StreamSent
<1> QED BY <1>1, <1>3, <1>4, <1>5

LEMMA Shifted ==
    ASSUME NEW n \in Nat, NEW gone \in Nat, gone <= n, NEW i \in 1 .. n - gone
    PROVE  gone + i \in 1 .. n
OBVIOUS

LEMMA LastOnes ==
    ASSUME NEW n \in Nat, NEW len \in Nat, n <= len, NEW i \in 1 .. n
    PROVE  len - n + i \in 1 .. len
OBVIOUS

\* The buffer after a PDU: still the accepted bytes that were not sent.
LEMMA OpportunityAccounts ==
    ASSUME TxInv, sdus' = sdus, NEW k \in 1 .. Len(txBuffer), NEW c \in Nat,
           txBuffer[k].from < c, c <= txBuffer[k].to,
           Leaves(txBuffer', k, c),
           txBufferSize' = txBufferSize - (c - txBuffer[1].from)
    PROVE  /\ Accounting' /\ BufferedInOrder' /\ BytesInOrder' /\ TagsTrue'
           /\ txBufferSize' \in Nat
<1> DEFINE n    == Len(txBuffer)
           gone == IF c = txBuffer[k].to THEN k ELSE k - 1
<1>1. /\ n \in Nat /\ gone \in Nat /\ gone <= n
      /\ Len(txBuffer') = n - gone /\ txBuffer' \in Seq(Piece)
      /\ Len(sdus) \in Nat
    BY DEF TxInv, TypeOK, Leaves
\* A piece is as it was, but for where the first starts and its tag.
<1>2. ASSUME NEW i \in 1 .. Len(txBuffer')
      PROVE  /\ gone + i \in 1 .. n
             /\ txBuffer'[i].sdu = txBuffer[gone + i].sdu
             /\ txBuffer'[i].to = txBuffer[gone + i].to
             /\ txBuffer[gone + i] \in Piece
             /\ \/ /\ txBuffer'[i].from = txBuffer[gone + i].from
                   /\ txBuffer'[i].tag = txBuffer[gone + i].tag
                \/ /\ i = 1 /\ gone + i = k /\ c # txBuffer[k].to
                   /\ txBuffer'[i].from = c
                   /\ txBuffer'[i].tag = "LAST_SEGMENT"
    <2>1. gone + i \in 1 .. n
        BY <1>1, Shifted
    <2>2. txBuffer[gone + i] \in Piece /\ txBuffer[k] \in Piece
        BY <2>1 DEF TxInv, TypeOK
    <2>3. CASE i = 1 /\ c # txBuffer[k].to
        <3>1. gone + i = k /\ txBuffer'[i] = Rest(txBuffer[k], c)
            BY <2>3 DEF Leaves
        <3> QED BY <2>1, <2>2, <2>3, <3>1 DEF Rest, Piece
    <2>4. CASE ~(i = 1 /\ c # txBuffer[k].to)
        BY <2>1, <2>2, <2>4 DEF Leaves
    <2> QED BY <2>3, <2>4
<1>3. \A i \in 1 .. n : /\ txBuffer[i].from \in Nat /\ txBuffer[i].to \in Nat
                        /\ txBuffer[i].from < txBuffer[i].to
    <2>1. \A i \in 1 .. n : txBuffer[i] \in Piece
        BY DEF TxInv, TypeOK
    <2> QED BY <2>1 DEF TxInv, Accounting, Piece
<1> HIDE DEF gone
\* A piece starts where it did or later, and before its end.
<1>4. \A i \in 1 .. Len(txBuffer') :
          /\ txBuffer'[i].from \in Nat /\ txBuffer'[i].to \in Nat
          /\ txBuffer'[i].from < txBuffer'[i].to
          /\ txBuffer[gone + i].from <= txBuffer'[i].from
    <2> TAKE i \in 1 .. Len(txBuffer')
    <2>1. gone + i \in 1 .. n /\ txBuffer[gone + i].from \in Nat
            /\ txBuffer[gone + i].to \in Nat
            /\ txBuffer[gone + i].from < txBuffer[gone + i].to
        BY <1>2, <1>3
    <2>2. CASE txBuffer'[i].from = txBuffer[gone + i].from
        BY <1>2, <2>1, <2>2
    <2>3. CASE txBuffer'[i].from # txBuffer[gone + i].from
        <3>1. gone + i = k /\ c # txBuffer[k].to /\ txBuffer'[i].from = c
            BY <1>2, <2>3
        <3> QED BY <1>2, <2>1, <3>1
    <2> QED BY <2>2, <2>3
<1>5. /\ StreamEnd' = StreamEnd /\ StreamSent' = c
      /\ StreamSent = txBuffer[1].from
      /\ StreamEnd = txBuffer[n].to
    <2>1. txBuffer # <<>>
        BY <1>1, EmptySeq
    <2> QED BY <2>1, SentUpTo DEF StreamEnd, StreamSent, TxInv, Accounting
<1>6. c <= StreamEnd /\ txBuffer[1].from <= c
    <2>1. c <= txBuffer[n].to
        <3>1. CASE k = n
            BY <3>1
        <3>2. CASE k < n
            <4>1. n \in 1 .. n /\ txBuffer[k].to <= txBuffer[n].from
                BY <1>1, <3>2 DEF TxInv, BytesInOrder
            <4> QED BY <1>3, <4>1
        <3> QED BY <1>1, <3>1, <3>2
    <2>2. txBuffer[1].from <= c
        <3>1. CASE k = 1
            BY <1>3, <3>1
        <3>2. CASE 1 < k
            <4>1. 1 \in 1 .. n /\ txBuffer[1].to <= txBuffer[k].from
                BY <1>1, <3>2 DEF TxInv, BytesInOrder
            <4> QED BY <1>3, <4>1
        <3> QED BY <3>1, <3>2
    <2> QED BY <1>5, <2>1, <2>2
<1>7. Accounting'
    <2>1. ASSUME NEW i \in 1 .. Len(txBuffer') - 1
          PROVE  txBuffer'[i].to = txBuffer'[i + 1].from
        <3>1. /\ i \in 1 .. Len(txBuffer') /\ i + 1 \in 1 .. Len(txBuffer') /\ i + 1 # 1
              /\ gone + i \in 1 .. n - 1 /\ gone + (i + 1) = (gone + i) + 1
            BY <1>1
        <3>2. /\ txBuffer'[i].to = txBuffer[gone + i].to
              /\ txBuffer'[i + 1].from = txBuffer[(gone + i) + 1].from
            BY <1>2, <3>1
        <3> QED BY <3>1, <3>2 DEF TxInv, Accounting
    <2>2. ASSUME txBuffer' # <<>>
          PROVE  txBuffer'[Len(txBuffer')].to = StreamEnd'
        <3>1. Len(txBuffer') \in 1 .. Len(txBuffer') /\ gone + Len(txBuffer') = n
            BY <1>1, <2>2, EmptySeq
        <3> QED BY <1>2, <1>5, <3>1
    <2>3. /\ txBufferSize' = StreamEnd' - StreamSent'
          /\ txBufferSize' <= MaxTxBufferSize
        <3>1. 1 \in 1 .. n /\ n \in 1 .. n
            BY <1>1
        <3>2. txBuffer[1].from \in Nat /\ txBuffer[n].to \in Nat
            BY <1>3, <3>1
        <3>3. txBufferSize = StreamEnd - StreamSent /\ txBufferSize <= MaxTxBufferSize
            BY DEF TxInv, Accounting
        <3>4. MaxTxBufferSize \in Nat
            BY TxAssumption
        <3> QED BY <1>5, <1>6, <3>2, <3>3, <3>4
    <2> QED BY <1>4, <2>1, <2>2, <2>3 DEF Accounting
<1>8. txBufferSize' \in Nat
    <2>1. n \in 1 .. n
        BY <1>1
    <2>2. StreamEnd \in Nat
        BY <1>3, <1>5, <2>1
    <2> QED BY <1>5, <1>6, <1>7, <2>2 DEF Accounting
<1>9. BytesInOrder'
    <2> SUFFICES ASSUME NEW i \in 1 .. Len(txBuffer'), NEW j \in 1 .. Len(txBuffer'), i < j
                 PROVE  txBuffer'[i].to <= txBuffer'[j].from
        BY DEF BytesInOrder
    <2>1. gone + i \in 1 .. n /\ gone + j \in 1 .. n /\ gone + i < gone + j
        BY <1>1, <1>2
    <2>2. txBuffer[gone + i].to <= txBuffer[gone + j].from
        BY <2>1 DEF TxInv, BytesInOrder
    <2>3. j # 1
        BY <1>1
    <2> QED BY <1>2, <2>2, <2>3
<1>10. BufferedInOrder'
    <2>1. Len(txBuffer') <= Len(sdus')
        BY <1>1 DEF TxInv, BufferedInOrder
    <2>2. ASSUME NEW i \in 1 .. Len(txBuffer')
          PROVE  txBuffer'[i].sdu = Len(sdus') - Len(txBuffer') + i
        <3>1. txBuffer[gone + i].sdu = Len(sdus) - n + (gone + i)
            BY <1>2 DEF TxInv, BufferedInOrder
        <3>2. Len(sdus) - n + (gone + i) = Len(sdus) - (n - gone) + i
            BY <1>1
        <3> QED BY <1>1, <1>2, <3>1, <3>2
    <2>3. ASSUME NEW i \in 2 .. Len(txBuffer')
          PROVE  txBuffer'[i].tag = "FULL_SDU"
        <3>1. i \in 1 .. Len(txBuffer') /\ i # 1 /\ gone + i \in 2 .. n
            BY <1>1
        <3> QED BY <1>2, <3>1 DEF TxInv, BufferedInOrder
    <2> QED BY <2>1, <2>2, <2>3 DEF BufferedInOrder
<1>11. TagsTrue'
    <2> SUFFICES ASSUME NEW i \in 1 .. Len(txBuffer')
                 PROVE  /\ txBuffer'[i].to = sdus'[txBuffer'[i].sdu].to
                        /\ IF txBuffer'[i].tag = "FULL_SDU"
                           THEN txBuffer'[i].from = sdus'[txBuffer'[i].sdu].from
                           ELSE /\ txBuffer'[i].tag = "LAST_SEGMENT"
                                /\ sdus'[txBuffer'[i].sdu].from < txBuffer'[i].from
        BY DEF TagsTrue
    <2> DEFINE piece == txBuffer[gone + i]
    <2>1. /\ piece.to = sdus[piece.sdu].to
          /\ IF piece.tag = "FULL_SDU" THEN piece.from = sdus[piece.sdu].from
             ELSE piece.tag = "LAST_SEGMENT" /\ sdus[piece.sdu].from < piece.from
        BY <1>2 DEF TxInv, SegmentsTrue, TagsTrue
    <2>2. CASE txBuffer'[i].from = piece.from /\ txBuffer'[i].tag = piece.tag
        BY <1>2, <2>1, <2>2
    <2>3. CASE ~(txBuffer'[i].from = piece.from /\ txBuffer'[i].tag = piece.tag)
        <3>1. /\ gone + i = k /\ txBuffer'[i].from = c
              /\ txBuffer'[i].tag = "LAST_SEGMENT"
            BY <1>2, <2>3
        <3>2. txBuffer'[i].to = sdus'[txBuffer'[i].sdu].to
            BY <1>2, <2>1
        <3>3. /\ txBuffer'[i].sdu = piece.sdu /\ piece = txBuffer[k] /\ piece.sdu \in 1 .. Len(sdus)
            <4>1. txBuffer'[i].sdu = piece.sdu /\ piece = txBuffer[k] /\ gone + i \in 1 .. n
                BY <1>2, <3>1
            <4>2. piece.sdu = Len(sdus) - n + (gone + i) /\ n <= Len(sdus)
                BY <4>1 DEF TxInv, BufferedInOrder
            <4>3. piece.sdu \in 1 .. Len(sdus)
                BY <1>1, <4>1, <4>2, LastOnes
            <4> QED BY <4>1, <4>3
        <3>4. sdus[piece.sdu].from \in Nat
            <4>1. sdus[piece.sdu] \in Interval
                BY <3>3 DEF TxInv, TypeOK
            <4> QED BY <4>1 DEF Interval
        <3>5. piece.from \in Nat
            BY <1>2, <1>3
        <3>6. sdus[piece.sdu].from < c
            BY <2>1, <3>3, <3>4, <3>5
        <3> QED BY <3>1, <3>2, <3>3, <3>6
    <2> QED BY <2>2, <2>3
<1> QED BY <1>7, <1>8, <1>9, <1>10, <1>11
\* The framing information of the PDU is that of the bytes it carries.
LEMMA OpportunityFrames ==
    ASSUME TxInv, sdus' = sdus, NEW bytes \in Nat,
           NEW k \in 1 .. Len(txBuffer), NEW c \in Nat,
           EndsAt(bytes, k),
           txBuffer[k].from < c, c <= txBuffer[k].to,
           Carries(pdu', k, c)
    PROVE  PduTyped' /\ FramingTrue' /\ PduOfAccepted'
<1> DEFINE n == Len(txBuffer)
           f == pdu'.frags
<1>1. /\ n \in Nat /\ k \in Nat /\ k >= 1
      /\ \A i \in 1 .. k : i \in 1 .. n
    BY DEF TxInv, TypeOK
\* Every fragment is of an accepted SDU, and says so truly where it is not cut.
<1>2. ASSUME NEW i \in 1 .. k
      PROVE  /\ f[i].sdu = txBuffer[i].sdu /\ f[i].from = txBuffer[i].from
             /\ f[i].to = IF i < k THEN txBuffer[i].to ELSE c
             /\ txBuffer[i].sdu \in 1 .. Len(sdus)
             /\ txBuffer[i].sdu = Len(sdus) - n + i
             /\ txBuffer[i].from \in Nat /\ txBuffer[i].to \in Nat
             /\ txBuffer[i].to = sdus[txBuffer[i].sdu].to
             /\ txBuffer[i].tag = "FULL_SDU" \/ txBuffer[i].tag = "LAST_SEGMENT"
             /\ txBuffer[i].tag = "FULL_SDU" <=>
                    txBuffer[i].from = sdus[txBuffer[i].sdu].from
    <2>1. i \in 1 .. n /\ txBuffer[i] \in Piece
        BY <1>1 DEF TxInv, TypeOK
    <2>2. txBuffer[i].from \in Nat /\ txBuffer[i].to \in Nat
        BY <2>1 DEF Piece
    <2>3. txBuffer[i].sdu = Len(sdus) - n + i
        BY <2>1 DEF TxInv, BufferedInOrder
    <2>4. txBuffer[i].sdu \in 1 .. Len(sdus)
        <3>1. Len(sdus) \in Nat /\ n <= Len(sdus)
            BY DEF TxInv, TypeOK, BufferedInOrder
        <3> QED BY <1>1, <2>1, <2>3, <3>1
    <2>5. sdus[txBuffer[i].sdu].from \in Nat
        <3>1. sdus[txBuffer[i].sdu] \in Interval
            BY <2>4 DEF TxInv, TypeOK
        <3> QED BY <3>1 DEF Interval
    <2>6. /\ txBuffer[i].to = sdus[txBuffer[i].sdu].to
          /\ IF txBuffer[i].tag = "FULL_SDU"
             THEN txBuffer[i].from = sdus[txBuffer[i].sdu].from
             ELSE /\ txBuffer[i].tag = "LAST_SEGMENT"
                  /\ sdus[txBuffer[i].sdu].from < txBuffer[i].from
        BY <2>1 DEF TxInv, SegmentsTrue, TagsTrue
    <2> QED BY <2>2, <2>3, <2>4, <2>5, <2>6 DEF Carries
<1>3. /\ f \in Seq(Fragment) /\ Len(f) = k /\ f # <<>>
      /\ pdu'.sn \in SnValue
      /\ pdu'.first \in BOOLEAN /\ pdu'.last \in BOOLEAN
    <2>1. f \in Seq(Fragment) /\ Len(f) = k
        BY DEF Carries
    <2>2. f # <<>>
        BY <1>1, <2>1, EmptySeq
    <2> QED BY <2>1, <2>2 DEF Carries, TxInv, TypeOK
<1>4. PduTyped'
    BY <1>3 DEF PduTyped
<1>5. PduOfAccepted'
    BY <1>2, <1>3 DEF PduOfAccepted
<1>6. pdu'.first <=> f[1].from = sdus[f[1].sdu].from
    <2>1. 1 \in 1 .. k
        BY <1>1
    <2> DEFINE head == txBuffer[1]
    <2>2. /\ f[1].sdu = head.sdu /\ f[1].from = head.from
          /\ head.tag = "FULL_SDU" \/ head.tag = "LAST_SEGMENT"
          /\ head.tag = "FULL_SDU" <=> head.from = sdus[head.sdu].from
        BY <1>2, <2>1
    <2>3. CASE k = 1
        <3>1. pdu'.first = (NewTag(head, c) \in {"FULL_SDU", "FIRST_SEGMENT"})
            BY <2>3 DEF Carries
        <3>2. NewTag(head, c) \in {"FULL_SDU", "FIRST_SEGMENT"} <=> head.tag = "FULL_SDU"
            BY <2>2 DEF NewTag
        <3> QED BY <2>2, <3>1, <3>2
    <2>4. CASE 1 < k
        <3>1. pdu'.first = (head.tag \in {"FULL_SDU", "FIRST_SEGMENT"})
            BY <2>4 DEF Carries
        <3>2. head.tag \in {"FULL_SDU", "FIRST_SEGMENT"} <=> head.tag = "FULL_SDU"
            BY <2>2
        <3> QED BY <2>2, <3>1, <3>2
    <2> QED BY <1>1, <2>3, <2>4
<1>7. pdu'.last <=> f[k].to = sdus[f[k].sdu].to
    <2>1. k \in 1 .. k /\ ~(k < k)
        BY <1>1
    <2> DEFINE tail == txBuffer[k]
    <2>2. /\ f[k].sdu = tail.sdu /\ f[k].to = c
          /\ tail.tag = "FULL_SDU" \/ tail.tag = "LAST_SEGMENT"
          /\ tail.to = sdus[tail.sdu].to
        BY <1>2, <2>1
    <2>3. pdu'.last = (NewTag(tail, c) \in {"FULL_SDU", "LAST_SEGMENT"})
        BY DEF Carries
    <2>4. NewTag(tail, c) \in {"FULL_SDU", "LAST_SEGMENT"} <=> c = tail.to
        BY <2>2 DEF NewTag
    <2> QED BY <2>2, <2>3, <2>4
<1>8. ASSUME NEW i \in 1 .. k - 1
      PROVE  /\ f[i].to = sdus[f[i].sdu].to
             /\ f[i + 1].sdu = f[i].sdu + 1
             /\ f[i + 1].from = sdus[f[i + 1].sdu].from
             /\ f[i].to - f[i].from <= LiMax
    <2>1. /\ i \in 1 .. k /\ i < k /\ i + 1 \in 1 .. k
          /\ i + 1 \in 2 .. n
        BY <1>1
    <2>2. f[i].to = txBuffer[i].to /\ f[i].from = txBuffer[i].from
        BY <1>2, <2>1
    <2>3. f[i].to = sdus[f[i].sdu].to
        <3>1. f[i].sdu = txBuffer[i].sdu /\ txBuffer[i].to = sdus[txBuffer[i].sdu].to
            BY <1>2, <2>1
        <3> QED BY <2>2, <3>1
    <2>4. f[i + 1].sdu = f[i].sdu + 1
        <3>1. f[i + 1].sdu = Len(sdus) - n + (i + 1) /\ f[i].sdu = Len(sdus) - n + i
            BY <1>2, <2>1
        <3>2. Len(sdus) \in Nat
            BY DEF TxInv, TypeOK
        <3> QED BY <1>1, <3>1, <3>2
    <2>5. f[i + 1].from = sdus[f[i + 1].sdu].from
        <3>1. txBuffer[i + 1].tag = "FULL_SDU"
            BY <2>1 DEF TxInv, BufferedInOrder
        <3>2. /\ f[i + 1].sdu = txBuffer[i + 1].sdu /\ f[i + 1].from = txBuffer[i + 1].from
              /\ txBuffer[i + 1].tag = "FULL_SDU" <=>
                    txBuffer[i + 1].from = sdus[txBuffer[i + 1].sdu].from
            BY <1>2, <2>1
        <3> QED BY <3>1, <3>2
    <2>6. f[i].to - f[i].from <= LiMax
        <3>1. ~(txBuffer[i].to - txBuffer[i].from > LiMax)
            BY DEF EndsAt, TakesMore, TakesPart, Size
        <3>2. LiMax \in Nat /\ txBuffer[i].to \in Nat /\ txBuffer[i].from \in Nat
            BY <1>2, <2>1, TxAssumption
        <3> QED BY <2>2, <3>1, <3>2
    <2> QED BY <2>3, <2>4, <2>5, <2>6
<1> HIDE DEF f
<1>9. FramingTrue'
    BY <1>3, <1>6, <1>7, <1>8 DEF FramingTrue, f
<1> QED BY <1>4, <1>5, <1>9

\* Incrementing a sequence number gives a sequence number.
LEMMA NextNumber ==
    ASSUME NEW sn \in SnValue
    PROVE  Wrap(sn + 1) \in SnValue
BY SnAssumption DEF Wrap, SnValue

\* An opportunity leaves the rest of the accepted bytes in the buffer and
\* frames what it sends.
LEMMA OpportunityTxInv ==
    ASSUME TxInv, NEW bytes \in Grants, DoNotifyNrSlTxOpportunity(bytes)
    PROVE  TxInv'
<1>1. UNCHANGED <<reported, sdus>>
    BY DEF DoNotifyNrSlTxOpportunity
<1>2. bytes \in Nat
    BY TxAssumption
<1>3. PICK k \in 1 .. Len(txBuffer), c \in Nat :
              /\ EndsAt(bytes, k)
              /\ c = Cut(bytes, k)
              /\ txBuffer[k].from < c /\ c <= txBuffer[k].to
              /\ Leaves(txBuffer', k, c)
              /\ Carries(pdu', k, c)
              /\ txBufferSize' = txBufferSize - (c - txBuffer[1].from)
    BY OpportunityTakes
<1>4. /\ Accounting' /\ BufferedInOrder' /\ BytesInOrder' /\ TagsTrue'
      /\ txBufferSize' \in Nat
    BY <1>1, <1>3, OpportunityAccounts
<1>5. PduTyped' /\ FramingTrue' /\ PduOfAccepted'
    BY <1>1, <1>2, <1>3, OpportunityFrames
<1>6. TypeOK'
    <2>1. sequenceNumber' \in SnValue
        <3>1. sequenceNumber' = Wrap(sequenceNumber + 1)
            BY DEF DoNotifyNrSlTxOpportunity
        <3>2. sequenceNumber \in SnValue
            BY DEF TxInv, TypeOK
        <3> QED BY <3>1, <3>2, NextNumber
    <2>2. rbsTimer' \in BOOLEAN
        <3>1. rbsTimer' = IF txBuffer' # <<>> THEN TRUE ELSE rbsTimer
            BY DEF DoNotifyNrSlTxOpportunity
        <3>2. rbsTimer \in BOOLEAN
            BY DEF TxInv, TypeOK
        <3> QED BY <3>1, <3>2
    <2>3. txBuffer' \in Seq(Piece)
        BY <1>3 DEF Leaves
    <2>4. reported' \in Nat /\ sdus' \in Seq(Interval)
        BY <1>1 DEF TxInv, TypeOK
    <2> QED BY <1>4, <1>5, <2>1, <2>2, <2>3, <2>4 DEF TypeOK, PduTyped
<1> QED BY <1>4, <1>5, <1>6 DEF TxInv, SegmentsTrue

\* The invariant holds in every reachable state.
LEMMA Invariant == Spec => []TxInv
<1>1. TxInv /\ [Next]_txVars => TxInv'
    <2> SUFFICES ASSUME TxInv, [Next]_txVars PROVE TxInv'
        OBVIOUS
    <2>1. CASE \E size \in SduSizes : DoTransmitNrSlPdcpPdu(size)
        BY <2>1, TransmitTxInv
    <2>2. CASE \E bytes \in Grants : DoNotifyNrSlTxOpportunity(bytes)
        BY <2>2, OpportunityTxInv
    <2>3. CASE ExpireNrSlRbsTimer
        BY <2>3, ExpiryTxInv
    <2>4. CASE UNCHANGED txVars
        <3> USE <2>4 DEF txVars
        <3>1. TypeOK'
            BY DEF TxInv, TypeOK
        <3>2. Accounting'
            BY DEF TxInv, Accounting, StreamEnd, StreamSent
        <3>3. TagsTrue' /\ FramingTrue'
            BY DEF TxInv, SegmentsTrue, TagsTrue, FramingTrue
        <3>4. BufferedInOrder' /\ BytesInOrder' /\ PduOfAccepted'
            BY DEF TxInv, BufferedInOrder, BytesInOrder, PduOfAccepted
        <3> QED BY <3>1, <3>2, <3>3, <3>4 DEF TxInv, SegmentsTrue
    <2> QED BY <2>1, <2>2, <2>3, <2>4 DEF Next
<1> QED BY <1>1, InitTxInv, PTL DEF Spec

\* Type correctness.
THEOREM Typed == Spec => []TypeOK
<1>1. TxInv => TypeOK
    BY DEF TxInv
<1> QED BY <1>1, Invariant, PTL

\* However the grants cut the SDUs, m_txBuffer holds the accepted bytes not yet
\* sent, in order and without a gap, and m_txBufferSize is their size, within
\* its limit.
THEOREM BufferAccounted == Spec => []Accounting
<1>1. TxInv => Accounting
    BY DEF TxInv
<1> QED BY <1>1, Invariant, PTL

\* The status tags in m_txBuffer and the framing information of the last PDU
\* are those of the bytes they stand for.
THEOREM SegmentsTold == Spec => []SegmentsTrue
<1>1. TxInv => SegmentsTrue
    BY DEF TxInv
<1> QED BY <1>1, Invariant, PTL
-----------------------------------------------------------------------------
(* What one opportunity does.                                              *)

\* The header LteRlcHeader builds is what the loop sets aside.
LEMMA HeaderAsCounted ==
    ASSUME NEW k \in Nat, k >= 1
    PROVE  /\ 2 + 3 * ((k - 1) \div 2) + 2 * ((k - 1) % 2) = 2 + LiBytes(k - 1)
           /\ LiBytes(k - 1) \in Nat
           /\ LiBytes(k - 1) <= 2 * (k - 1)
BY DEF LiBytes

\* A report counts two bytes per SDU: more than two are left behind a piece that
\* is not the last.
LEMMA RoomBehind ==
    ASSUME NEW bytes \in Nat, NEW first \in Nat, NEW to \in Nat, NEW end \in Nat,
           NEW n \in Nat, NEW li \in Nat,
           bytes >= (end - first) + 2 * n, li <= 2 * n - 4, to + 1 <= end
    PROVE  bytes - 2 - (to - first) - li > 2
OBVIOUS

\* Where a PDU that ends at c in the k-th piece starts and ends, and its size.
Extends(p, bytes, k, c) ==
    /\ p.frags[1].from = txBuffer[1].from
    /\ p.frags[Len(p.frags)].from = txBuffer[k].from
    /\ p.frags[Len(p.frags)].to = c
    /\ txBuffer[1].from \in Nat /\ txBuffer[k].from \in Nat /\ txBuffer[k].to \in Nat
    /\ SpaceLeft(bytes, k) \in Int
    /\ PduSize(p) = bytes - (SpaceLeft(bytes, k) - (c - txBuffer[k].from))

LEMMA PduExtent ==
    ASSUME TxInv, NEW bytes \in Nat, NEW k \in 1 .. Len(txBuffer), NEW c \in Nat,
           Carries(pdu', k, c)
    PROVE  Extends(pdu', bytes, k, c)
<1>1. k \in Nat /\ k >= 1 /\ 1 \in 1 .. k /\ k \in 1 .. k /\ ~(k < k)
    OBVIOUS
<1>2. /\ Len(pdu'.frags) = k
      /\ pdu'.frags[1].from = txBuffer[1].from
      /\ pdu'.frags[k].from = txBuffer[k].from
      /\ pdu'.frags[k].to = c
    BY <1>1 DEF Carries
<1>3. txBuffer[1].from \in Nat /\ txBuffer[k].from \in Nat /\ txBuffer[k].to \in Nat
    <2>1. txBuffer[1] \in Piece /\ txBuffer[k] \in Piece
        BY <1>1 DEF TxInv, TypeOK
    <2> QED BY <2>1 DEF Piece
<1>4. HeaderSize(pdu'.frags) = 2 + LiBytes(k - 1) /\ LiBytes(k - 1) \in Nat
    BY <1>1, <1>2, HeaderAsCounted DEF HeaderSize
<1>5. SpaceLeft(bytes, k) = bytes - 2 - (txBuffer[k].from - txBuffer[1].from) - LiBytes(k - 1)
    BY DEF SpaceLeft
<1>6. PduSize(pdu') = 2 + LiBytes(k - 1) + (c - txBuffer[1].from)
    BY <1>2, <1>4 DEF PduSize
<1>7. PduSize(pdu') = bytes - (SpaceLeft(bytes, k) - (c - txBuffer[k].from))
    <2> DEFINE li    == LiBytes(k - 1)
               first == txBuffer[1].from
               from  == txBuffer[k].from
    <2>1. li \in Nat /\ first \in Nat /\ from \in Nat
        BY <1>3, <1>4
    <2>2. PduSize(pdu') = 2 + li + (c - first)
        BY <1>6
    <2>3. SpaceLeft(bytes, k) = bytes - 2 - (from - first) - li
        BY <1>5
    <2> HIDE DEF li, first, from
    <2>4. PduSize(pdu') = bytes - (SpaceLeft(bytes, k) - (c - from))
        BY <2>1, <2>2, <2>3
    <2> QED BY <2>4 DEF from
<1>8. SpaceLeft(bytes, k) \in Int
    BY <1>3, <1>4, <1>5
<1>9. pdu'.frags[Len(pdu'.frags)].from = txBuffer[k].from
        /\ pdu'.frags[Len(pdu'.frags)].to = c
    BY <1>2
<1> QED BY <1>2, <1>3, <1>7, <1>8, <1>9 DEF Extends

\* The PDU is never larger than the opportunity, whatever mix of segments and
\* whole SDUs it concatenates, and starts and ends where the buffer does.
LEMMA OpportunityFits ==
    ASSUME TxInv, NEW bytes \in Grants, DoNotifyNrSlTxOpportunity(bytes)
    PROVE  /\ pdu'.frags[1].from = StreamSent
           /\ pdu'.frags[Len(pdu'.frags)].to = StreamSent'
           /\ PduSize(pdu') <= bytes
<1>1. sdus' = sdus /\ bytes \in Nat /\ txBuffer # <<>>
    BY TxAssumption DEF DoNotifyNrSlTxOpportunity
<1>2. PICK k \in 1 .. Len(txBuffer), c \in Nat :
              /\ c = Cut(bytes, k)
              /\ Leaves(txBuffer', k, c)
              /\ Carries(pdu', k, c)
    BY OpportunityTakes
<1>3. /\ pdu'.frags[1].from = txBuffer[1].from
      /\ pdu'.frags[Len(pdu'.frags)].to = c
      /\ txBuffer[k].from \in Nat /\ txBuffer[k].to \in Nat
      /\ SpaceLeft(bytes, k) \in Int
      /\ PduSize(pdu') = bytes - (SpaceLeft(bytes, k) - (c - txBuffer[k].from))
    <2>1. Extends(pdu', bytes, k, c)
        BY <1>1, <1>2, PduExtent
    <2> QED BY <2>1 DEF Extends
<1>4. StreamSent = txBuffer[1].from /\ StreamSent' = c
    BY <1>1, <1>2, SentUpTo DEF StreamSent
<1>5. c - txBuffer[k].from <= SpaceLeft(bytes, k)
    BY <1>2, <1>3 DEF Cut, Size
<1> QED BY <1>1, <1>3, <1>4, <1>5

\* A PDU continues the stream where the last one ended, takes exactly the bytes
\* that leave m_txBuffer and, with its header, fits the opportunity.
THEOREM HeadTaken == Spec => PduTakesTheHead
<1>1. TxInv => [\A bytes \in Grants : DoNotifyNrSlTxOpportunity(bytes) =>
                   /\ pdu'.frags[1].from = StreamSent
                   /\ pdu'.frags[Len(pdu'.frags)].to = StreamSent'
                   /\ PduSize(pdu') <= bytes]_txVars
    BY OpportunityFits
<1> QED BY <1>1, Invariant, PTL DEF PduTakesTheHead

\* With data left behind, at most two bytes of the opportunity stay unused,
\* unless the PDU ends with a segment no length indicator can express.
THEOREM Filled == Spec => GrantFilled
<1>1. ASSUME TxInv, NEW bytes \in Grants, DoNotifyNrSlTxOpportunity(bytes), txBuffer' # <<>>
      PROVE  LET f == pdu'.frags[Len(pdu'.frags)]
             IN  bytes - PduSize(pdu') <= 2 \/ f.to - f.from > LiMax
    <2>1. bytes \in Nat
        BY TxAssumption
    <2>2. PICK k \in 1 .. Len(txBuffer), c \in Nat :
                  /\ EndsAt(bytes, k)
                  /\ c = Cut(bytes, k)
                  /\ Leaves(txBuffer', k, c)
                  /\ Carries(pdu', k, c)
        BY <1>1, OpportunityTakes
    <2>3. /\ pdu'.frags[Len(pdu'.frags)].from = txBuffer[k].from
          /\ pdu'.frags[Len(pdu'.frags)].to = c
          /\ txBuffer[k].from \in Nat /\ txBuffer[k].to \in Nat
          /\ SpaceLeft(bytes, k) \in Int
          /\ PduSize(pdu') = bytes - (SpaceLeft(bytes, k) - (c - txBuffer[k].from))
        <3>1. Extends(pdu', bytes, k, c)
            BY <1>1, <2>1, <2>2, PduExtent
        <3> QED BY <3>1 DEF Extends
    <2>4. CASE Size(txBuffer[k]) > SpaceLeft(bytes, k)
        <3>1. c = txBuffer[k].from + SpaceLeft(bytes, k)
            BY <2>2, <2>4 DEF Cut
        <3>2. PduSize(pdu') = bytes
            BY <2>1, <2>3, <3>1
        <3> QED BY <2>1, <3>2
    <2>5. CASE ~(Size(txBuffer[k]) > SpaceLeft(bytes, k)) /\ Size(txBuffer[k]) > LiMax
        BY <2>2, <2>3, <2>5 DEF Cut, Size
    <2>6. CASE TakesLast(bytes, k)
        <3>1. c = txBuffer[k].to
            BY <2>2, <2>6 DEF Cut, TakesLast, TakesPart
        <3>2. k # Len(txBuffer)
            <4> SUFFICES ASSUME k = Len(txBuffer) PROVE FALSE
                OBVIOUS
            <4>1. txBuffer' \in Seq(Piece) /\ Len(txBuffer') = 0
                BY <1>1, <2>2, <3>1 DEF Leaves, TxInv, TypeOK
            <4> QED BY <1>1, <4>1, EmptySeq
        <3>3. SpaceLeft(bytes, k) - Size(txBuffer[k]) <= 2
            BY <2>6, <3>2 DEF TakesLast
        <3> QED BY <2>1, <2>3, <3>1, <3>3 DEF Size
    <2> QED BY <2>2, <2>4, <2>5, <2>6 DEF EndsAt, TakesMore, TakesPart
<1>2. TxInv => [\A bytes \in Grants : DoNotifyNrSlTxOpportunity(bytes) /\ txBuffer' # <<>> =>
                   LET f == pdu'.frags[Len(pdu'.frags)]
                   IN  bytes - PduSize(pdu') <= 2 \/ f.to - f.from > LiMax]_txVars
    BY <1>1
<1> QED BY <1>2, Invariant, PTL DEF GrantFilled

\* An opportunity as large as the report of DoReportNrSlBufferStatus takes every
\* piece whole, and drains the buffer unless a piece above LiMax ends the PDU.
THEOREM Drained == Spec => ReportSuffices
<1>1. ASSUME TxInv, NEW bytes \in Grants, DoNotifyNrSlTxOpportunity(bytes),
             bytes >= QueueSize(txBuffer, txBufferSize)
      PROVE  LET m == Len(pdu'.frags)
             IN  /\ pdu'.frags[m].to = txBuffer[m].to
                 /\ txBuffer' = <<>> \/ Size(txBuffer[m]) > LiMax
    <2> DEFINE n == Len(txBuffer)
    <2>1. bytes \in Nat /\ n \in Nat /\ LiMax \in Nat /\ txBuffer # <<>>
        BY <1>1, TxAssumption DEF TxInv, TypeOK, DoNotifyNrSlTxOpportunity
    <2>2. PICK k \in 1 .. Len(txBuffer), c \in Nat :
                  /\ EndsAt(bytes, k)
                  /\ c = Cut(bytes, k)
                  /\ Leaves(txBuffer', k, c)
                  /\ Carries(pdu', k, c)
        BY <1>1, OpportunityTakes
    <2>3. \A i \in 1 .. n : /\ txBuffer[i].from \in Nat /\ txBuffer[i].to \in Nat
                            /\ txBuffer[i].from < txBuffer[i].to
        <3>1. \A i \in 1 .. n : txBuffer[i] \in Piece
            BY <1>1 DEF TxInv, TypeOK
        <3> QED BY <1>1, <3>1 DEF TxInv, Accounting, Piece
    <2>4. 1 \in 1 .. n /\ n \in 1 .. n /\ k \in Nat /\ k >= 1 /\ k <= n
        BY <2>1
    <2> HIDE DEF n
    <2>5. bytes >= (txBuffer[n].to - txBuffer[1].from) + 2 * n
        <3>1. txBufferSize = txBuffer[n].to - txBuffer[1].from
            BY <1>1, <2>1 DEF TxInv, Accounting, StreamSent, n
        <3> QED BY <1>1, <2>1, <3>1 DEF QueueSize, n
    <2>6. LiBytes(k - 1) \in Nat /\ LiBytes(k - 1) <= 2 * (k - 1)
        BY <2>4, HeaderAsCounted
    <2>7. SpaceLeft(bytes, k) - Size(txBuffer[k])
             = bytes - 2 - (txBuffer[k].to - txBuffer[1].from) - LiBytes(k - 1)
        <3> DEFINE li    == LiBytes(k - 1)
                   first == txBuffer[1].from
                   from  == txBuffer[k].from
                   to    == txBuffer[k].to
        <3>1. li \in Nat /\ first \in Nat /\ from \in Nat /\ to \in Nat
            BY <2>3, <2>4, <2>6 DEF n
        <3>2. /\ SpaceLeft(bytes, k) = bytes - 2 - (from - first) - li
              /\ Size(txBuffer[k]) = to - from
            BY DEF SpaceLeft, Size
        <3> HIDE DEF li, first, from, to
        <3>3. SpaceLeft(bytes, k) - Size(txBuffer[k]) = bytes - 2 - (to - first) - li
            BY <2>1, <3>1, <3>2
        <3> QED BY <3>3 DEF li, first, to
    <2>8. SpaceLeft(bytes, k) \in Int /\ Size(txBuffer[k]) \in Nat
        BY <2>1, <2>3, <2>4, <2>6 DEF SpaceLeft, Size, n
    \* A piece before the last leaves room for what is behind it.
    <2>9. ASSUME k < n PROVE SpaceLeft(bytes, k) - Size(txBuffer[k]) > 2
        <3>1. txBuffer[k].to <= txBuffer[n].from
            BY <1>1, <2>4, <2>9 DEF TxInv, BytesInOrder, n
        <3>2. txBuffer[k].to + 1 <= txBuffer[n].to
            BY <2>3, <2>4, <3>1
        <3>3. LiBytes(k - 1) <= 2 * n - 4
            BY <2>1, <2>4, <2>6, <2>9
        <3>4. txBuffer[k].to \in Nat /\ txBuffer[n].to \in Nat /\ txBuffer[1].from \in Nat
            BY <2>3, <2>4
        <3>5. bytes - 2 - (txBuffer[k].to - txBuffer[1].from) - LiBytes(k - 1) > 2
            BY <2>1, <2>5, <2>6, <3>2, <3>3, <3>4, RoomBehind DEF n
        <3> QED BY <2>7, <3>5
    <2>10. SpaceLeft(bytes, k) - Size(txBuffer[k]) >= 0
        <3>1. CASE k < n
            BY <2>8, <2>9, <3>1
        <3>2. CASE k = n
            <4>1. txBuffer[n].to \in Nat /\ txBuffer[1].from \in Nat
                BY <2>3, <2>4
            <4>2. bytes - 2 - (txBuffer[n].to - txBuffer[1].from) - LiBytes(n - 1) >= 0
                BY <2>1, <2>4, <2>5, <2>6, <3>2, <4>1 DEF n
            <4> QED BY <2>7, <3>2, <4>2
        <3> QED BY <2>1, <2>4, <3>1, <3>2
    <2>11. ~(Size(txBuffer[k]) > SpaceLeft(bytes, k))
        BY <2>8, <2>10
    <2>12. c = txBuffer[k].to
        BY <2>2, <2>11 DEF Cut
    <2>13. k = n \/ Size(txBuffer[k]) > LiMax
        <3> SUFFICES ASSUME k < n, ~(Size(txBuffer[k]) > LiMax) PROVE FALSE
            BY <2>1, <2>4
        <3>1. ~TakesPart(bytes, k)
            BY <2>11 DEF TakesPart
        <3>2. ~TakesLast(bytes, k)
            BY <2>8, <2>9 DEF TakesLast, n
        <3> QED BY <2>2, <3>1, <3>2 DEF EndsAt, TakesMore
    <2>14. k = n => txBuffer' = <<>>
        BY <2>2, <2>12, EmptySeq DEF Leaves, n
    <2>15. Len(pdu'.frags) = k /\ pdu'.frags[k].to = c
        BY <2>2 DEF Carries
    <2> QED BY <2>12, <2>13, <2>14, <2>15
<1>2. TxInv => [\A bytes \in Grants :
                   /\ DoNotifyNrSlTxOpportunity(bytes)
                   /\ bytes >= QueueSize(txBuffer, txBufferSize)
                   => LET m == Len(pdu'.frags)
                      IN  /\ pdu'.frags[m].to = txBuffer[m].to
                          /\ txBuffer' = <<>> \/ Size(txBuffer[m]) > LiMax]_txVars
    BY <1>1
<1> QED BY <1>2, Invariant, PTL DEF ReportSuffices
=============================================================================
