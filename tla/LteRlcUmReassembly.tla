------------------------- MODULE LteRlcUmReassembly -------------------------
(***************************************************************************)
(* NrSlReassembleAndDeliver of class LteRlcUm                              *)
(* (src/lte/model/lte-rlc-um.cc): the PDUs reordering releases, one after  *)
(* the other, become PDCP PDUs.  The reassembly state is a record          *)
(*   expected - m_expectedSeqNumber                                        *)
(*   state    - m_reassemblingState                                        *)
(*   keepS0   - m_keepS0, as the sequence of fragments appended to it      *)
(*   sdus     - m_sdusBuffer, left over from an earlier call               *)
(*   out      - what the calls delivered to PDCP, in order                 *)
(* A PDU is a record with its number sn, the framing bits first and last,  *)
(* and frags, the fragments its length indicators delimit.                 *)
(***************************************************************************)
EXTENDS SequenceNumber10, Sequences
LOCAL INSTANCE SequencesExt

InitReassembly == [expected |-> 0, state |-> "WAITING_S0_FULL",
                   keepS0 |-> <<>>, sdus |-> <<>>, out |-> <<>>]

\* m_sdusBuffer once the PDU's fragments are split off.
Split(r, pdu) == r.sdus \o [i \in DOMAIN pdu.frags |-> <<pdu.frags[i]>>]

\* Bug: the kept segment is not joined with its continuation.
JoinedInSequence_Apart(r, pdu) ==
    IF r.state = "WAITING_SI_SF" THEN <<r.keepS0>> \o Split(r, pdu)
    ELSE IF pdu.first THEN Split(r, pdu)
    ELSE Tail(Split(r, pdu))

\* The rows of the expected number: WAITING_SI_SF joins the kept S0 with the
\* leading continuation, WAITING_S0_FULL drops one that has no beginning.
JoinedInSequence(r, pdu) ==
    LET all == Split(r, pdu)
    IN  IF r.state = "WAITING_SI_SF" THEN <<r.keepS0 \o Head(all)>> \o Tail(all)
        ELSE IF pdu.first THEN all
        ELSE Tail(all)

\* Bug: a continuation is kept although its beginning was lost.
JoinedAfterLoss_Orphan(r, pdu) == Split(r, pdu)

\* The rows of a lost number are alike: S0 is dropped, and so is a leading
\* continuation.
JoinedAfterLoss(r, pdu) ==
    IF pdu.first THEN Split(r, pdu) ELSE Tail(Split(r, pdu))

\* FIRST_BYTE while a segment is awaited and no number was lost: the branch
\* logged as "Transition not possible" leaves the fragments in m_sdusBuffer.
IsImpossible(r, lost, pdu) == ~lost /\ r.state = "WAITING_SI_SF" /\ pdu.first

NrSlReassembleAndDeliver(r, pdu) ==
    LET lost   == pdu.sn # r.expected
        joined == IF lost THEN JoinedAfterLoss(r, pdu) ELSE JoinedInSequence(r, pdu)
        keeps  == ~pdu.last /\ joined # <<>>
        next   == [r EXCEPT !.expected = Wrap(pdu.sn + 1)]
    IN  IF IsImpossible(r, lost, pdu)
        THEN [next EXCEPT !.sdus = Split(r, pdu)]
        ELSE [next EXCEPT !.state  = IF keeps THEN "WAITING_SI_SF" ELSE "WAITING_S0_FULL",
                          !.keepS0 = IF keeps THEN Last(joined) ELSE <<>>,
                          !.sdus   = <<>>,
                          !.out    = @ \o (IF keeps THEN Front(joined) ELSE joined)]

ReassembleAll(r, pdus) == FoldLeft(NrSlReassembleAndDeliver, r, pdus)
=============================================================================
