------------------------- MODULE LteRlcUmReordering -------------------------
(***************************************************************************)
(* The receiving half of an RLC UM entity up to reassembly: the reordering *)
(* window, the reception buffer and the t-Reordering timer of class        *)
(* LteRlcUm (src/lte/model/lte-rlc-um.cc).  ReceiveNrSlRlcPdu and          *)
(* ExpireNrSlReorderingTimer are whole handlers; what a handler passes to  *)
(* NrSlReassembleAndDeliver, in order, is the sequence `released'.         *)
(*                                                                         *)
(* ChannelType "STCH" is the sidelink bearer LteUeRrc::AddNrSlDrb creates. *)
(* The cellular twins of the handlers (DoReceivePdu and                    *)
(* ExpireReorderingTimer) differ only in not adopting the first sequence   *)
(* number; ChannelType "DTCH" is that case.                                *)
(***************************************************************************)
EXTENDS SequenceNumber10, FiniteSets, Sequences

CONSTANTS ChannelType, \* "STCH" (NR sidelink) or "DTCH" (cellular)
          Pdu          \* the PDUs, records with a sequence number sn

ASSUME ChannelAssumption == ChannelType \in {"STCH", "DTCH"}
ASSUME PduAssumption == \A pdu \in Pdu : pdu.sn \in SnValue

VARIABLES vrUr,            \* VR(UR): the earliest number still waited for
          vrUx,            \* VR(UX): one past the number that started the timer
          vrUh,            \* VR(UH): one past the highest number received
          rxBuffer,        \* m_rxBuffer: sequence number -> PDU
          reorderingTimer, \* m_reorderingTimer is running
          firstPduRxed,    \* m_firstPduRxed
          released         \* PDUs the last handler passed to reassembly

vars == <<vrUr, vrUx, vrUh, rxBuffer, reorderingTimer, firstPduRxed, released>>

TypeOK == /\ vrUr \in SeqNum /\ vrUx \in SeqNum /\ vrUh \in SeqNum
          /\ DOMAIN rxBuffer \subseteq SnValue
          /\ \A s \in DOMAIN rxBuffer : rxBuffer[s] \in Pdu /\ rxBuffer[s].sn = s
          /\ reorderingTimer \in BOOLEAN
          /\ firstPduRxed \in BOOLEAN

Init == /\ vrUr = Sn(0, 0) /\ vrUx = Sn(0, 0) /\ vrUh = Sn(0, 0)
        /\ rxBuffer = [s \in {} |-> 0]
        /\ reorderingTimer = FALSE
        /\ firstPduRxed = FALSE
        /\ released = <<>>

-----------------------------------------------------------------------------
(* Helpers of the handlers.                                                *)

WindowBase(uh) == Wrap(uh.val - WindowSize)

\* VR(UH) - UM_Window_Size <= sn < VR(UH), compared from the window's base.
IsInsideReorderingWindow(uh, v) ==
    LET b == WindowBase(uh)
    IN  LessOrEqual(Sn(b, b), Sn(v, b)) /\ LessThan(Sn(v, b), Sn(uh.val, b))

\* Bug: PDUs older than VR(UR) are not discarded.
IsDiscarded_KeepsOld(ur, uh, sn) ==
    LessThan(ur, sn) /\ LessThan(sn, uh) /\ sn.val \in DOMAIN rxBuffer

\* Bug: <= for <, discarding the number waited for.
IsDiscarded_Awaited(ur, uh, sn) ==
    \/ LessThan(ur, sn) /\ LessThan(sn, uh) /\ sn.val \in DOMAIN rxBuffer
    \/ LessOrEqual(Minus(uh, WindowSize), sn) /\ LessOrEqual(sn, ur)

\* 5.1.2.2.2: the PDU was received before, or is older than VR(UR).
IsDiscarded(ur, uh, sn) ==
    \/ LessThan(ur, sn) /\ LessThan(sn, uh) /\ sn.val \in DOMAIN rxBuffer
    \/ LessOrEqual(Minus(uh, WindowSize), sn) /\ LessThan(sn, ur)

Placed(pdu) == [s \in DOMAIN rxBuffer \cup {pdu.sn} |->
                   IF s = pdu.sn THEN pdu ELSE rxBuffer[s]]

Without(buf, S) == [s \in DOMAIN buf \ S |-> buf[s]]

\* ReassembleOutsideWindow walks the std::map in key order and stops at the
\* first key inside the window.
OutsideWindow(buf, uh) ==
    {s \in DOMAIN buf : \A t \in DOMAIN buf :
                           t <= s => ~IsInsideReorderingWindow(uh, t)}

\* The first key above v that is not in the buffer.  The code's uint16_t
\* counter is not reduced modulo 1024, so the walk ends at SnMod at the latest.
NextNotReceived(buf, v) ==
    CHOOSE n \in v + 1 .. SnMod : /\ n \notin DOMAIN buf
                                  /\ \A m \in v + 1 .. n - 1 : m \in DOMAIN buf

\* The keys ReassembleSnInterval takes: from low to before high.
SnInterval(buf, low, high) ==
    {s \in DOMAIN buf : /\ LessOrEqual(low, Sn(s, low.base))
                        /\ LessThan(Sn(s, low.base), high)}

\* Bug: the map is walked in key order.
InOrder_Keys(buf, S, v) ==
    LET keys == SelectSeq([i \in 1 .. SnMod |-> i - 1], LAMBDA s : s \in S)
    IN  [i \in DOMAIN keys |-> buf[keys[i]]]

\* The PDUs at keys S, in the order of a walk over the numbers from v.
InOrder(buf, S, v) ==
    LET walk == [i \in 1 .. SnMod |-> Wrap(v + i - 1)]
        keys == SelectSeq(walk, LAMBDA s : s \in S)
    IN  [i \in DOMAIN keys |-> buf[keys[i]]]

-----------------------------------------------------------------------------
(* 5.1.2.2.3, in the code's order: the window moves to include the PDU, the *)
(* PDUs it leaves are released, VR(UR) follows; VR(UR) moves over the       *)
(* received numbers, which are released; the timer is stopped and started.  *)

SlidWindow(uh, sn) ==
    IF IsInsideReorderingWindow(uh, sn.val) THEN uh
    ELSE LET h == Plus(sn, 1) IN SetModulusBase(h, WindowBase(h))

LeftBehind(uh, sn, buf) ==
    IF IsInsideReorderingWindow(uh, sn.val) THEN {}
    ELSE OutsideWindow(buf, SlidWindow(uh, sn))

\* Bug: VR(UR) stays below the window.
Pulled_Not(ur, uh, sn) == ur

Pulled(ur, uh, sn) ==
    LET h == SlidWindow(uh, sn)
    IN  IF IsInsideReorderingWindow(uh, sn.val) \/ IsInsideReorderingWindow(h, ur.val)
        THEN ur ELSE Minus(h, WindowSize)

Advanced(ur, buf) ==
    IF ur.val \in DOMAIN buf
    THEN [ur EXCEPT !.val = Wrap(NextNotReceived(buf, ur.val))]
    ELSE ur

\* Bug: < for <=.
TimerStops_Late(ur, ux, uh) ==
    \/ LessThan(ux, ur)
    \/ ~IsInsideReorderingWindow(uh, ux.val) /\ ux.val # uh.val

\* Bug: every PDU starts the timer anew.
TimerStops_Always(ur, ux, uh) == TRUE

TimerStops(ur, ux, uh) ==
    \/ LessOrEqual(ux, ur)
    \/ ~IsInsideReorderingWindow(uh, ux.val) /\ ux.val # uh.val

\* Bug: the operands swapped.
StartsTimer_Swapped(ur, uh) == GreaterThan(ur, uh)

StartsTimer(ur, uh) == GreaterThan(uh, ur)

\* Bug: VR(UX) is not set to the new base.
RebasedVrUx_Not(b) == vrUx

RebasedVrUx(b) == SetModulusBase(vrUx, b)

PlacePdu(ur, uh, sn, pdu) ==
    LET buf  == Placed(pdu)
        uh1  == SlidWindow(uh, sn)
        left == LeftBehind(uh, sn, buf)
        ur1  == Pulled(ur, uh, sn)
        buf1 == Without(buf, left)
        ur2  == Advanced(ur1, buf1)
        taken == SnInterval(buf1, ur1, ur2)
        b    == WindowBase(uh1)
        ur3  == SetModulusBase(ur2, b)
        ux3  == RebasedVrUx(b)
        uh3  == SetModulusBase(uh1, b)
        runs == reorderingTimer /\ ~TimerStops(ur3, ux3, uh3)
        starts == ~runs /\ StartsTimer(ur3, uh3)
    IN  /\ vrUr' = ur3
        /\ vrUh' = uh3
        /\ vrUx' = IF starts THEN uh3 ELSE ux3
        /\ rxBuffer' = Without(buf1, taken)
        /\ reorderingTimer' = (runs \/ starts)
        /\ released' = InOrder(buf, left, 0) \o InOrder(buf1, taken, ur1.val)

\* The body shared by DoReceivePdu and DoReceiveNrSlRlcPdu, from the VR(UR)
\* and VR(UH) the PDU finds.
HandlePdu(ur0, uh0, pdu) ==
    LET b  == WindowBase(uh0)
        ur == SetModulusBase(ur0, b)
        uh == SetModulusBase(uh0, b)
        sn == Sn(pdu.sn, b)
    IN  IF IsDiscarded(ur, uh, sn)
        THEN /\ vrUr' = ur
             /\ vrUh' = uh
             /\ released' = <<>>
             /\ UNCHANGED <<vrUx, rxBuffer, reorderingTimer>>
        ELSE PlacePdu(ur, uh, sn, pdu)

\* The first sidelink PDU sets VR(UR) and VR(UH) to its own number.
ReceiveNrSlRlcPdu(pdu) ==
    /\ LET first == Sn(pdu.sn, 0)
       IN  IF firstPduRxed THEN HandlePdu(vrUr, vrUh, pdu)
                           ELSE HandlePdu(first, first, pdu)
    /\ firstPduRxed' = TRUE

ReceivePdu(pdu) ==
    /\ HandlePdu(vrUr, vrUh, pdu)
    /\ UNCHANGED firstPduRxed

Receive(pdu) == IF ChannelType = "STCH" THEN ReceiveNrSlRlcPdu(pdu)
                                        ELSE ReceivePdu(pdu)

\* 5.1.2.2.4: VR(UR) moves to the first number at or after VR(UX) not received.
FirstNotReceived(ux) ==
    LET k == CHOOSE j \in 0 .. SnMod :
                 /\ Wrap(ux.val + j) \notin DOMAIN rxBuffer
                 /\ \A i \in 0 .. j - 1 : Wrap(ux.val + i) \in DOMAIN rxBuffer
    IN  Plus(ux, k)

\* With every number buffered the code's search would not end: no step.
ExpireReorderingTimer ==
    /\ reorderingTimer
    /\ DOMAIN rxBuffer # SnValue
    /\ LET ur    == FirstNotReceived(vrUx)
           taken == SnInterval(rxBuffer, vrUr, ur)
           starts == StartsTimer(ur, vrUh)
       IN  /\ vrUr' = ur
           /\ rxBuffer' = Without(rxBuffer, taken)
           /\ released' = InOrder(rxBuffer, taken, vrUr.val)
           /\ reorderingTimer' = starts
           /\ vrUx' = IF starts THEN vrUh ELSE vrUx
    /\ UNCHANGED <<vrUh, firstPduRxed>>

Next == \/ \E pdu \in Pdu : Receive(pdu)
        \/ ExpireReorderingTimer

Spec == Init /\ [][Next]_vars

-----------------------------------------------------------------------------
(* The paced environment: t-Reordering expires before the sender's numbers  *)
(* advance so far that the window would leave a buffered PDU behind.        *)

Paced(pdu) ==
    LET h == Sn(Wrap(pdu.sn + 1), 0)
    IN  \/ IsInsideReorderingWindow(vrUh, pdu.sn)
        \/ \A s \in DOMAIN rxBuffer : IsInsideReorderingWindow(h, s)

PacedNext == \/ \E pdu \in Pdu : Paced(pdu) /\ Receive(pdu)
             \/ ExpireReorderingTimer

PacedSpec == Init /\ [][PacedNext]_vars

-----------------------------------------------------------------------------
(* Properties.                                                             *)

\* How far a number lies above the bottom of the reordering window.
Offset(v) == Wrap(v - WindowBase(vrUh))

\* When t-Reordering fires, ExpireNrSlReorderingTimer compares VR(UX), VR(UR)
\* and VR(UH) without setting their modulus base: the NS_ASSERT of operator>
\* (lte-rlc-sequence-number.h:157) holds there in whatever order PDUs arrive.
ComparableAtExpiry ==
    reorderingTimer => vrUr.base = vrUx.base /\ vrUh.base = vrUx.base

\* VR(UR) never passes VR(UH); while t-Reordering runs VR(UX) lies between
\* them, and when it does not run there is nothing to wait for.
WindowOrder ==
    /\ Offset(vrUr.val) <= WindowSize
    /\ IF reorderingTimer
       THEN Offset(vrUr.val) < Offset(vrUx.val) /\ Offset(vrUx.val) <= WindowSize
       ELSE vrUr.val = vrUh.val

\* Every buffered PDU lies in the window, at or above VR(UR): none is left to
\* be taken for a duplicate of a PDU one modulus later.
BufferInWindow ==
    \A s \in DOMAIN rxBuffer : /\ Offset(vrUr.val) <= Offset(s)
                               /\ Offset(s) < WindowSize

\* A PDU kept in the reception buffer always has a running timer to release it.
NoneStranded == DOMAIN rxBuffer # {} => reorderingTimer

\* What a handler releases lies between the old and the new VR(UR), in
\* ascending order, so no later PDU can have to be delivered before it.
ReleasedInOrder ==
    [][LET at(i) == Wrap(released'[i].sn - vrUr'.val)
       IN  /\ \A i \in DOMAIN released' : at(i) > WindowSize - 1
           /\ \A i, j \in DOMAIN released' : i < j => at(i) < at(j)]_vars

=============================================================================
