---------------------- MODULE LteRlcUmReordering_proofs ----------------------
(***************************************************************************)
(* Proofs about LteRlcUmReordering, for every modulus, window, set of PDUs  *)
(* and channel type.                                                       *)
(***************************************************************************)
EXTENDS LteRlcUmReordering, WellFoundedInduction, TLAPS

-----------------------------------------------------------------------------
(***************************************************************************)
(* Facts about sequence numbers that hold for every modulus and window.    *)
(* The distance of a number v above a base b is Wrap(v - b).               *)
(***************************************************************************)

\* The least-number principle, from the well-foundedness of < on Nat.
LEMMA NatLessThanRelation ==
    \E R : /\ IsWellFoundedOn(R, Nat)
           /\ \A x, y \in Nat : y < x => <<y, x>> \in R
<1>1. \A x, y \in Nat : y < x => <<y, x>> \in OpToRel(<, Nat)
    BY DEF OpToRel
<1> QED BY <1>1, NatLessThanWellFounded

\* Every non-empty set of natural numbers has a least element; the searches of
\* the handlers for the first number not received rest on it.
LEMMA LeastNumber ==
    ASSUME NEW S, S \subseteq Nat, S # {}
    PROVE  \E x \in S : \A y \in S : x <= y
<1>1. PICK R : /\ IsWellFoundedOn(R, Nat)
               /\ \A x, y \in Nat : y < x => <<y, x>> \in R
    BY NatLessThanRelation
<1>2. PICK x \in S : \A y \in S : <<y, x>> \notin R
    BY <1>1, WFMin
<1>3. x \in Nat /\ \A y \in S : y \in Nat
    OBVIOUS
<1>4. \A y \in S : ~ (y < x)
    BY <1>1, <1>2, <1>3, Zenon
<1>5. \A y \in S : x <= y
    BY <1>3, <1>4
<1> QED BY <1>5

\* The sizes as the later proofs use them.
LEMMA Sizes ==
    /\ WindowSize \in Nat /\ WindowSize >= 2
    /\ SnMod = 2 * WindowSize
    /\ SnMod <= 32768
BY SnAssumption

\* (x % 1024) is a sequence number, for the x the code reduces.
LEMMA WrapType ==
    ASSUME NEW x \in Int, -SnMod <= x, x < 2 * SnMod
    PROVE  Wrap(x) \in SnValue
BY Sizes DEF Wrap, SnValue

\* operator+ and operator- give sequence numbers with the same base.
LEMMA ArithmeticType ==
    ASSUME NEW s \in SeqNum, NEW d \in 0 .. SnMod
    PROVE  /\ Plus(s, d) \in SeqNum /\ Plus(s, d).base = s.base
           /\ Plus(s, d).val = Wrap(s.val + d)
           /\ Minus(s, d) \in SeqNum /\ Minus(s, d).base = s.base
           /\ Minus(s, d).val = Wrap(s.val - d)
<1>1. s.val + d \in Int /\ -SnMod <= s.val + d /\ s.val + d < 2 * SnMod
    BY Sizes DEF SeqNum, SnValue
<1>2. s.val - d \in Int /\ -SnMod <= s.val - d /\ s.val - d < 2 * SnMod
    BY Sizes DEF SeqNum, SnValue
<1>3. Wrap(s.val + d) \in SnValue /\ Wrap(s.val - d) \in SnValue
    BY <1>1, <1>2, WrapType
<1> QED BY <1>3 DEF SeqNum, Plus, Minus

\* SetModulusBase keeps the value.
LEMMA SetModulusBaseType ==
    ASSUME NEW s \in SeqNum, NEW b \in SnValue
    PROVE  SetModulusBase(s, b) \in SeqNum /\ SetModulusBase(s, b) = Sn(s.val, b)
BY DEF SeqNum, SetModulusBase, Sn

\* Numbers of one base compare as their distances above it, although the
\* code's rank is not the distance: it is off by 2^16 - 1024 below the base.
LEMMA RankIsDistance ==
    ASSUME NEW u \in SnValue, NEW v \in SnValue, NEW b \in SnValue
    PROVE  /\ GreaterThan(Sn(u, b), Sn(v, b)) <=> Wrap(u - b) > Wrap(v - b)
           /\ LessOrEqual(Sn(u, b), Sn(v, b)) <=> Wrap(u - b) <= Wrap(v - b)
           /\ LessThan(Sn(u, b), Sn(v, b)) <=> Wrap(u - b) < Wrap(v - b)
<1>1. /\ u \in Int /\ 0 <= u /\ u < SnMod
      /\ v \in Int /\ 0 <= v /\ v < SnMod
      /\ b \in Int /\ 0 <= b /\ b < SnMod
    BY Sizes DEF SnValue
<1>2. Rank(u, b) > Rank(v, b) <=> Wrap(u - b) > Wrap(v - b)
    BY <1>1, Sizes DEF Rank, Wrap, UInt16
<1>3. GreaterThan(Sn(u, b), Sn(v, b)) <=> Wrap(u - b) > Wrap(v - b)
    BY <1>2 DEF GreaterThan, Sn
<1>4. Wrap(u - b) = Wrap(v - b) <=> u = v
    BY <1>1, Sizes DEF Wrap
<1>5. Wrap(u - b) \in Int /\ Wrap(v - b) \in Int
    BY <1>1, Sizes DEF Wrap
<1> QED BY <1>3, <1>4, <1>5 DEF LessOrEqual, LessThan, Sn

\* A number one modulus wide lies at exactly one distance above each base.
LEMMA Distance ==
    ASSUME NEW v \in SnValue, NEW b \in SnValue
    PROVE  /\ Wrap(v - b) \in 0 .. SnMod - 1
           /\ Wrap(b + Wrap(v - b)) = v
           /\ \A u \in SnValue : Wrap(u - b) = Wrap(v - b) => u = v
BY Sizes DEF Wrap, SnValue

\* Distances above one base from those above another.
LEMMA Rebase ==
    ASSUME NEW v \in SnValue, NEW b \in SnValue, NEW c \in SnValue
    PROVE  Wrap(v - c) = Wrap(Wrap(v - b) + Wrap(b - c))
BY Sizes DEF Wrap, SnValue

-----------------------------------------------------------------------------

\* What TypeOK says of a reception buffer.
Buffer(buf) == /\ DOMAIN buf \subseteq SnValue
               /\ \A s \in DOMAIN buf : buf[s] \in Pdu /\ buf[s].sn = s

-----------------------------------------------------------------------------
(* The helpers.                                                            *)

LEMMA WindowBaseType ==
    ASSUME NEW uh \in SeqNum
    PROVE  WindowBase(uh) \in SnValue
BY Sizes, WrapType DEF WindowBase, SeqNum, SnValue

\* A number is inside the window when it lies less than a window above its base.
LEMMA Inside ==
    ASSUME NEW uh \in SeqNum, NEW v \in SnValue
    PROVE  IsInsideReorderingWindow(uh, v) <=> Wrap(v - WindowBase(uh)) < WindowSize
<1> DEFINE b == WindowBase(uh)
<1>1. b \in SnValue /\ uh.val \in SnValue
    BY WindowBaseType DEF SeqNum
<1>2. Wrap(b - b) = 0 /\ Wrap(uh.val - b) = WindowSize
    BY <1>1, Sizes DEF WindowBase, Wrap, SnValue
<1>3. Wrap(v - b) \in 0 .. SnMod - 1
    BY <1>1, Distance
<1>4. LessOrEqual(Sn(b, b), Sn(v, b)) <=> 0 <= Wrap(v - b)
    BY <1>1, <1>2, RankIsDistance
<1>5. LessThan(Sn(v, b), Sn(uh.val, b)) <=> Wrap(v - b) < WindowSize
    BY <1>1, <1>2, RankIsDistance
<1> QED BY <1>3, <1>4, <1>5 DEF IsInsideReorderingWindow

\* The walk of DoReceivePdu over received numbers ends at a number not received,
\* and every number it passed was received.
LEMMA NextNotReceivedExists ==
    ASSUME NEW buf, DOMAIN buf \subseteq SnValue, NEW v \in SnValue
    PROVE  /\ NextNotReceived(buf, v) \in v + 1 .. SnMod
           /\ NextNotReceived(buf, v) \notin DOMAIN buf
           /\ \A m \in v + 1 .. NextNotReceived(buf, v) - 1 : m \in DOMAIN buf
<1> DEFINE S == {n \in v + 1 .. SnMod : n \notin DOMAIN buf}
<1>1. v \in Int /\ 0 <= v /\ v < SnMod /\ SnMod \in Nat
    BY Sizes DEF SnValue
<1>2. SnMod \notin DOMAIN buf
    BY <1>1 DEF SnValue
<1>3. S \subseteq Nat /\ SnMod \in S
    BY <1>1, <1>2
<1>4. PICK n \in S : \A m \in S : n <= m
    BY <1>3, LeastNumber
<1>5. \A m \in v + 1 .. n - 1 : m \in DOMAIN buf
    BY <1>1, <1>4
<1> QED BY <1>4, <1>5 DEF NextNotReceived

\* The search of ExpireReorderingTimer ends when some number is not buffered.
LEMMA FirstNotReceivedExists ==
    ASSUME NEW ux \in SeqNum, DOMAIN rxBuffer \subseteq SnValue, DOMAIN rxBuffer # SnValue
    PROVE  \E k \in 0 .. SnMod :
               /\ FirstNotReceived(ux) = Plus(ux, k)
               /\ Wrap(ux.val + k) \notin DOMAIN rxBuffer
               /\ \A i \in 0 .. k - 1 : Wrap(ux.val + i) \in DOMAIN rxBuffer
<1> DEFINE S == {j \in 0 .. SnMod : Wrap(ux.val + j) \notin DOMAIN rxBuffer}
           First(k) == /\ Wrap(ux.val + k) \notin DOMAIN rxBuffer
                       /\ \A i \in 0 .. k - 1 : Wrap(ux.val + i) \in DOMAIN rxBuffer
<1>1. ux.val \in SnValue /\ SnMod \in Nat
    BY Sizes DEF SeqNum
<1>2. PICK v \in SnValue : v \notin DOMAIN rxBuffer
    OBVIOUS
<1>3. /\ Wrap(v - ux.val) \in 0 .. SnMod - 1
      /\ Wrap(ux.val + Wrap(v - ux.val)) = v
    BY <1>1, Distance
<1>4. S \subseteq Nat /\ S # {}
    BY <1>1, <1>2, <1>3
<1>5. PICK k \in S : \A j \in S : k <= j
    BY <1>4, LeastNumber
<1>6. k \in 0 .. SnMod /\ First(k)
    BY <1>1, <1>5
<1>7. \A j \in 0 .. SnMod : First(j) => j = k
    BY <1>1, <1>6
<1> DEFINE c == CHOOSE j \in 0 .. SnMod : First(j)
<1>8. c \in 0 .. SnMod /\ First(c)
    BY <1>6
<1>9. FirstNotReceived(ux) = Plus(ux, c)
    BY DEF FirstNotReceived
<1> QED BY <1>8, <1>9

LEMMA BufferOperations ==
    ASSUME Buffer(rxBuffer), NEW pdu \in Pdu
    PROVE  /\ Buffer(Placed(pdu))
           /\ DOMAIN Placed(pdu) = DOMAIN rxBuffer \cup {pdu.sn}
           /\ \A buf, S : /\ DOMAIN Without(buf, S) = DOMAIN buf \ S
                          /\ Buffer(buf) => Buffer(Without(buf, S))
<1>1. pdu.sn \in SnValue
    BY PduAssumption
<1>2. DOMAIN Placed(pdu) = DOMAIN rxBuffer \cup {pdu.sn}
    BY DEF Placed
<1>3. \A s \in DOMAIN Placed(pdu) : Placed(pdu)[s] = IF s = pdu.sn THEN pdu ELSE rxBuffer[s]
    BY DEF Placed
<1>4. Buffer(Placed(pdu))
    BY <1>1, <1>2, <1>3 DEF Buffer
<1>5. ASSUME NEW buf, NEW S
      PROVE  /\ DOMAIN Without(buf, S) = DOMAIN buf \ S
             /\ Buffer(buf) => Buffer(Without(buf, S))
    <2>1. DOMAIN Without(buf, S) = DOMAIN buf \ S
        BY DEF Without
    <2>2. \A s \in DOMAIN Without(buf, S) : Without(buf, S)[s] = buf[s]
        BY DEF Without
    <2> QED BY <2>1, <2>2 DEF Buffer
<1> QED BY <1>2, <1>4, <1>5

-----------------------------------------------------------------------------
(* Whatever PDUs arrive.                                                   *)

\* While t-Reordering runs, the modulus base of all three state variables is
\* the bottom of the window: comparing them at expiry asserts nothing false.
BasesMatch ==
    reorderingTimer => /\ vrUr.base = WindowBase(vrUh)
                       /\ vrUx.base = WindowBase(vrUh)
                       /\ vrUh.base = WindowBase(vrUh)

LEMMA SlidWindowType ==
    ASSUME NEW uh \in SeqNum, NEW sn \in SeqNum
    PROVE  SlidWindow(uh, sn) \in SeqNum
<1>1. Plus(sn, 1) \in SeqNum
    BY ArithmeticType, Sizes, 1 \in 0 .. SnMod
<1>2. WindowBase(Plus(sn, 1)) \in SnValue
    BY <1>1, WindowBaseType
<1>3. SetModulusBase(Plus(sn, 1), WindowBase(Plus(sn, 1))) \in SeqNum
    BY <1>1, <1>2, SetModulusBaseType
<1> QED BY <1>3 DEF SlidWindow

LEMMA PulledType ==
    ASSUME NEW ur \in SeqNum, NEW uh \in SeqNum, NEW sn \in SeqNum
    PROVE  Pulled(ur, uh, sn) \in SeqNum
<1>1. SlidWindow(uh, sn) \in SeqNum
    BY SlidWindowType
<1>2. Minus(SlidWindow(uh, sn), WindowSize) \in SeqNum
    BY <1>1, ArithmeticType, Sizes, WindowSize \in 0 .. SnMod
<1> QED BY <1>2 DEF Pulled

LEMMA AdvancedType ==
    ASSUME NEW ur \in SeqNum, NEW buf, DOMAIN buf \subseteq SnValue
    PROVE  Advanced(ur, buf) \in SeqNum
<1>1. ur.val \in SnValue
    BY DEF SeqNum
<1>2. NextNotReceived(buf, ur.val) \in ur.val + 1 .. SnMod
    BY <1>1, NextNotReceivedExists
<1>3. Wrap(NextNotReceived(buf, ur.val)) \in SnValue
    BY <1>1, <1>2, Sizes, WrapType DEF SnValue
<1> QED BY <1>3 DEF Advanced, SeqNum

LEMMA PlacePduSafe ==
    ASSUME TypeOK, NEW ur \in SeqNum, NEW uh \in SeqNum, NEW sn \in SeqNum,
           NEW pdu \in Pdu, PlacePdu(ur, uh, sn, pdu)
    PROVE  /\ vrUr' \in SeqNum /\ vrUx' \in SeqNum /\ vrUh' \in SeqNum
           /\ Buffer(rxBuffer')
           /\ reorderingTimer' \in BOOLEAN
           /\ BasesMatch'
<1> DEFINE buf  == Placed(pdu)
           uh1  == SlidWindow(uh, sn)
           buf1 == Without(buf, LeftBehind(uh, sn, buf))
           ur1  == Pulled(ur, uh, sn)
           ur2  == Advanced(ur1, buf1)
           b    == WindowBase(uh1)
           ur3  == SetModulusBase(ur2, b)
           ux3  == RebasedVrUx(b)
           uh3  == SetModulusBase(uh1, b)
           runs == reorderingTimer /\ ~TimerStops(ur3, ux3, uh3)
           starts == ~runs /\ StartsTimer(ur3, uh3)
<1>1. /\ vrUr' = ur3
      /\ vrUh' = uh3
      /\ vrUx' = IF starts THEN uh3 ELSE ux3
      /\ rxBuffer' = Without(buf1, SnInterval(buf1, ur1, ur2))
      /\ reorderingTimer' = (runs \/ starts)
    BY DEF PlacePdu
<1>2. Buffer(rxBuffer) /\ vrUx \in SeqNum
    BY DEF TypeOK, Buffer
<1>3. Buffer(buf1)
    BY <1>2, BufferOperations
<1>4. Buffer(rxBuffer')
    BY <1>1, <1>2, <1>3, BufferOperations
<1>5. uh1 \in SeqNum /\ ur1 \in SeqNum
    BY SlidWindowType, PulledType
<1>6. ur2 \in SeqNum
    BY <1>3, <1>5, AdvancedType DEF Buffer
<1>7. b \in SnValue
    BY <1>5, WindowBaseType
<1>8. /\ ur3 \in SeqNum /\ ur3.base = b
      /\ ux3 \in SeqNum /\ ux3.base = b
      /\ uh3 \in SeqNum /\ uh3.base = b /\ uh3.val = uh1.val
    BY <1>2, <1>5, <1>6, <1>7 DEF SeqNum, SetModulusBase, RebasedVrUx
<1>9. WindowBase(uh3) = b
    BY <1>8 DEF WindowBase
<1> HIDE DEF uh1, ur3, ux3, uh3, b, runs, starts
<1>10. BasesMatch'
    BY <1>1, <1>8, <1>9 DEF BasesMatch, WindowBase
<1>11. reorderingTimer' \in BOOLEAN
    BY <1>1 DEF runs, starts
<1> QED BY <1>1, <1>4, <1>8, <1>10, <1>11

LEMMA HandlePduSafe ==
    ASSUME TypeOK, NEW ur0 \in SeqNum, NEW pdu \in Pdu, NEW uh0 \in SeqNum,
           HandlePdu(ur0, uh0, pdu),
           \/ BasesMatch /\ ur0 = vrUr /\ uh0 = vrUh
           \/ ur0 = Sn(pdu.sn, 0) /\ uh0 = Sn(pdu.sn, 0)
    PROVE  /\ vrUr' \in SeqNum /\ vrUx' \in SeqNum /\ vrUh' \in SeqNum
           /\ Buffer(rxBuffer')
           /\ reorderingTimer' \in BOOLEAN
           /\ BasesMatch'
<1> DEFINE b  == WindowBase(uh0)
           ur == SetModulusBase(ur0, b)
           uh == SetModulusBase(uh0, b)
           sn == Sn(pdu.sn, b)
<1>1. b \in SnValue /\ pdu.sn \in SnValue
    BY WindowBaseType, PduAssumption
<1>2. /\ ur \in SeqNum /\ ur = Sn(ur0.val, b)
      /\ uh \in SeqNum /\ uh = Sn(uh0.val, b)
      /\ sn \in SeqNum
    BY <1>1, SetModulusBaseType DEF Sn, SeqNum
<1>3. CASE IsDiscarded(ur, uh, sn)
    <2>1. /\ vrUr' = ur /\ vrUh' = uh
          /\ UNCHANGED <<vrUx, rxBuffer, reorderingTimer>>
        BY <1>3 DEF HandlePdu
    <2>2. CASE ur0 = vrUr /\ uh0 = vrUh /\ BasesMatch
        <3>1. WindowBase(vrUh') = b /\ vrUr'.base = b /\ vrUh'.base = b
            BY <1>2, <2>1 DEF WindowBase, Sn
        <3>2. reorderingTimer => vrUx.base = b
            BY <2>2 DEF BasesMatch
        <3> QED BY <1>2, <2>1, <3>1, <3>2 DEF BasesMatch, TypeOK, Buffer, WindowBase
    <2>3. CASE ur0 = Sn(pdu.sn, 0) /\ uh0 = Sn(pdu.sn, 0)
        \* The first PDU is never discarded: its number equals VR(UR) and VR(UH).
        <3>1. sn = ur /\ sn = uh
            BY <1>2, <2>3 DEF Sn
        <3>2. ~LessThan(sn, sn)
            BY DEF LessThan
        <3> QED BY <1>3, <3>1, <3>2 DEF IsDiscarded
    <2> QED BY <2>2, <2>3
<1>4. CASE ~IsDiscarded(ur, uh, sn)
    <2>1. PlacePdu(ur, uh, sn, pdu)
        BY <1>4 DEF HandlePdu
    <2> HIDE DEF b, ur, uh, sn
    <2> QED BY <1>2, <2>1, PlacePduSafe
<1> QED BY <1>3, <1>4

LEMMA ExpireReorderingTimerSafe ==
    ASSUME TypeOK, BasesMatch, ExpireReorderingTimer
    PROVE  TypeOK' /\ BasesMatch'
<1>1. Buffer(rxBuffer) /\ vrUx \in SeqNum /\ vrUh \in SeqNum
    BY DEF TypeOK, Buffer
<1>2. FirstNotReceived(vrUx) \in SeqNum /\ FirstNotReceived(vrUx).base = vrUx.base
    <2>1. PICK k \in 0 .. SnMod : FirstNotReceived(vrUx) = Plus(vrUx, k)
        BY <1>1, FirstNotReceivedExists DEF ExpireReorderingTimer, Buffer
    <2> QED BY <1>1, <2>1, ArithmeticType
<1> DEFINE ur == FirstNotReceived(vrUx)
<1>3. /\ reorderingTimer
      /\ vrUr' = ur
      /\ rxBuffer' = Without(rxBuffer, SnInterval(rxBuffer, vrUr, ur))
      /\ reorderingTimer' = GreaterThan(vrUh, ur)
      /\ vrUx' = IF GreaterThan(vrUh, ur) THEN vrUh ELSE vrUx
      /\ UNCHANGED <<vrUh, firstPduRxed>>
    BY DEF ExpireReorderingTimer, StartsTimer
<1> HIDE DEF ur
<1>4. \A buf, S : Buffer(buf) => Buffer(Without(buf, S))
    <2> SUFFICES ASSUME NEW buf, NEW S, Buffer(buf)
                 PROVE  Buffer(Without(buf, S))
        OBVIOUS
    <2> QED BY DEF Buffer, Without
<1>5. Buffer(rxBuffer')
    BY <1>1, <1>3, <1>4
<1>6. reorderingTimer' \in BOOLEAN
    BY <1>3 DEF GreaterThan
<1>7. vrUr' \in SeqNum /\ vrUx' \in SeqNum /\ vrUh' \in SeqNum
    BY <1>1, <1>2, <1>3 DEF ur
<1>8. BasesMatch'
    BY <1>2, <1>3 DEF BasesMatch, WindowBase, ur
<1> QED BY <1>3, <1>5, <1>6, <1>7, <1>8 DEF TypeOK, Buffer

\* A handler of a received PDU preserves both.
LEMMA ReceiveSafe ==
    ASSUME TypeOK, BasesMatch, NEW pdu \in Pdu, Receive(pdu)
    PROVE  TypeOK' /\ BasesMatch'
<1>1. vrUr \in SeqNum /\ vrUh \in SeqNum /\ firstPduRxed \in BOOLEAN
    BY DEF TypeOK
<1>2. Sn(pdu.sn, 0) \in SeqNum
    BY Sizes, PduAssumption DEF SeqNum, Sn, SnValue
<1>3. CASE ReceiveNrSlRlcPdu(pdu)
    <2>1. firstPduRxed' = TRUE
        BY <1>3 DEF ReceiveNrSlRlcPdu
    <2>2. CASE firstPduRxed
        <3>1. HandlePdu(vrUr, vrUh, pdu)
            BY <1>3, <2>2 DEF ReceiveNrSlRlcPdu
        <3> QED BY <1>1, <2>1, <3>1, HandlePduSafe DEF TypeOK, Buffer
    <2>3. CASE ~firstPduRxed
        <3>1. HandlePdu(Sn(pdu.sn, 0), Sn(pdu.sn, 0), pdu)
            BY <1>3, <2>3 DEF ReceiveNrSlRlcPdu
        <3> QED BY <1>2, <2>1, <3>1, HandlePduSafe DEF TypeOK, Buffer
    <2> QED BY <2>2, <2>3
<1>4. CASE ReceivePdu(pdu)
    <2>1. HandlePdu(vrUr, vrUh, pdu) /\ UNCHANGED firstPduRxed
        BY <1>4 DEF ReceivePdu
    <2> QED BY <1>1, <2>1, HandlePduSafe DEF TypeOK, Buffer
<1> QED BY <1>3, <1>4 DEF Receive

LEMMA InitSafe == Init => TypeOK /\ BasesMatch
<1> SUFFICES ASSUME Init
             PROVE  TypeOK /\ BasesMatch
    OBVIOUS
<1>1. Sn(0, 0) \in SeqNum
    BY Sizes DEF SeqNum, Sn, SnValue
<1>2. DOMAIN rxBuffer = {}
    BY DEF Init
<1>3. TypeOK
    BY <1>1, <1>2 DEF Init, TypeOK
<1>4. BasesMatch
    BY DEF Init, BasesMatch
<1> QED BY <1>3, <1>4

LEMMA NextSafe == TypeOK /\ BasesMatch /\ [Next]_vars => TypeOK' /\ BasesMatch'
<1> SUFFICES ASSUME TypeOK, BasesMatch, [Next]_vars
             PROVE  TypeOK' /\ BasesMatch'
    OBVIOUS
<1>1. ASSUME NEW pdu \in Pdu, Receive(pdu)
      PROVE  TypeOK' /\ BasesMatch'
    BY <1>1, ReceiveSafe
<1>2. CASE ExpireReorderingTimer
    BY <1>2, ExpireReorderingTimerSafe
<1>3. CASE UNCHANGED vars
    BY <1>3 DEF vars, TypeOK, BasesMatch, WindowBase
<1> QED BY <1>1, <1>2, <1>3 DEF Next

\* Whatever PDUs arrive in whatever order, the state variables stay sequence
\* numbers and the reception buffer holds each PDU under its own number.
THEOREM TypeCorrect == Spec => []TypeOK
<1>1. Spec => [](TypeOK /\ BasesMatch)
    BY InitSafe, NextSafe, PTL DEF Spec
<1> QED BY <1>1, PTL

\* Whatever PDUs arrive in whatever order, the assertion of operator>
\* (lte-rlc-sequence-number.h:157) holds when t-Reordering expires, although
\* ExpireNrSlReorderingTimer sets no modulus base.
THEOREM Comparable == Spec => []ComparableAtExpiry
<1>1. Spec => [](TypeOK /\ BasesMatch)
    BY InitSafe, NextSafe, PTL DEF Spec
<1>2. BasesMatch => ComparableAtExpiry
    BY DEF BasesMatch, ComparableAtExpiry
<1> QED BY <1>1, <1>2, PTL

-----------------------------------------------------------------------------
(* When arrivals are paced.                                                *)

\* How far v lies above the bottom of the window below uh.
At(v, uh) == Wrap(v - WindowBase(uh))

\* Every buffered number lies in the window, at or above VR(UR).
Above(ur, uh, buf) ==
    /\ At(ur.val, uh) <= WindowSize
    /\ \A s \in DOMAIN buf : At(ur.val, uh) <= At(s, uh) /\ At(s, uh) < WindowSize

LEMMA AtType ==
    ASSUME NEW v \in SnValue, NEW uh \in SeqNum
    PROVE  /\ At(v, uh) \in 0 .. SnMod - 1
           /\ At(uh.val, uh) = WindowSize
           /\ At(v, uh) = WindowSize => v = uh.val
<1>1. WindowBase(uh) \in SnValue /\ uh.val \in SnValue
    BY WindowBaseType DEF SeqNum
<1>2. At(uh.val, uh) = WindowSize
    BY <1>1, Sizes DEF At, WindowBase, Wrap, SnValue
<1> QED BY <1>1, <1>2, Distance DEF At

\* The number after v lies one further above the bottom of the window.
LEMMA AtNext ==
    ASSUME NEW v \in SnValue, NEW uh \in SeqNum, At(v, uh) < WindowSize
    PROVE  Wrap(v + 1) \in SnValue /\ At(Wrap(v + 1), uh) = At(v, uh) + 1
<1>1. WindowBase(uh) \in SnValue
    BY WindowBaseType
<1> DEFINE b == WindowBase(uh)
<1>2. Wrap(v - b) < WindowSize
    BY DEF At
<1> HIDE DEF b
<1>3. Wrap(v + 1) \in SnValue /\ Wrap(Wrap(v + 1) - b) = Wrap(v - b) + 1
    BY <1>1, <1>2, Sizes DEF b, Wrap, SnValue
<1> QED BY <1>3 DEF At, b

\* VR(UR) moves over received numbers inside the window, to its end at most.
LEMMA AdvancedAbove ==
    ASSUME NEW ur \in SeqNum, NEW uh \in SeqNum, NEW buf, DOMAIN buf \subseteq SnValue,
           Above(ur, uh, buf)
    PROVE  /\ At(ur.val, uh) <= At(Advanced(ur, buf).val, uh)
           /\ At(Advanced(ur, buf).val, uh) <= WindowSize
<1>1. ur.val \in SnValue /\ At(ur.val, uh) \in 0 .. SnMod - 1
    BY AtType DEF SeqNum
<1>2. CASE ur.val \notin DOMAIN buf
    BY <1>1, <1>2, Sizes DEF Advanced, Above
<1>3. CASE ur.val \in DOMAIN buf
    <2> DEFINE n == NextNotReceived(buf, ur.val)
    <2>1. n \in ur.val + 1 .. SnMod /\ \A m \in ur.val + 1 .. n - 1 : m \in DOMAIN buf
        BY <1>1, NextNotReceivedExists
    <2> HIDE DEF n
    <2>2. n - 1 \in DOMAIN buf
        BY <1>1, <1>3, <2>1, Sizes DEF SnValue
    <2>3. n - 1 \in SnValue /\ At(ur.val, uh) <= At(n - 1, uh) /\ At(n - 1, uh) < WindowSize
        BY <2>2 DEF Above
    <2>4. n \in Int /\ (n - 1) + 1 = n
        BY <1>1, <2>1 DEF SnValue
    <2>5. At(Wrap(n), uh) = At(n - 1, uh) + 1
        BY <2>3, <2>4, AtNext
    <2>6. Advanced(ur, buf).val = Wrap(n)
        BY <1>3 DEF Advanced, SeqNum, n
    <2>7. At(n - 1, uh) \in 0 .. SnMod - 1
        BY <2>3, AtType
    <2> QED BY <1>1, <2>3, <2>5, <2>6, <2>7, Sizes
<1> QED BY <1>2, <1>3

\* After the numbers from VR(UR) up to its new value were taken, what remains
\* lies above the new value.  VR(UR) still carries the base of the window before
\* it moved; the hypothesis on the bases says that it did not move too far for
\* comparisons from that base.
LEMMA TakenAbove ==
    ASSUME NEW ur \in SeqNum, NEW uh \in SeqNum, NEW buf, DOMAIN buf \subseteq SnValue,
           Above(ur, uh, buf),
           \/ Wrap(WindowBase(uh) - ur.base) < WindowSize
           \/ /\ Wrap(WindowBase(uh) - ur.base) = WindowSize
              /\ At(Advanced(ur, buf).val, uh) < WindowSize
    PROVE  LET ur2 == Advanced(ur, buf)
           IN  Above(ur2, uh, Without(buf, SnInterval(buf, ur, ur2)))
<1> DEFINE ur2 == Advanced(ur, buf)
           c   == ur.base
           e   == Wrap(WindowBase(uh) - c)
<1>1. ur2 \in SeqNum /\ ur2.base = c
    BY AdvancedType DEF Advanced, SeqNum
<1>2. At(ur.val, uh) <= At(ur2.val, uh) /\ At(ur2.val, uh) <= WindowSize
    BY AdvancedAbove
<1>3. c \in SnValue /\ WindowBase(uh) \in SnValue /\ ur.val \in SnValue /\ ur2.val \in SnValue
    BY <1>1, WindowBaseType DEF SeqNum
<1> HIDE DEF ur2, c
<1>4. ASSUME NEW s \in DOMAIN buf, s \notin SnInterval(buf, ur, ur2)
      PROVE  At(ur2.val, uh) <= At(s, uh) /\ At(s, uh) < WindowSize
    <2>1. s \in SnValue /\ At(ur.val, uh) <= At(s, uh) /\ At(s, uh) < WindowSize
        BY DEF Above
    <2>2. /\ At(s, uh) \in 0 .. SnMod - 1
          /\ At(ur.val, uh) \in 0 .. SnMod - 1
          /\ At(ur2.val, uh) \in 0 .. SnMod - 1
          /\ e \in 0 .. SnMod - 1
        BY <1>3, <2>1, AtType, Distance
    <2>3. /\ Wrap(s - c) = Wrap(At(s, uh) + e)
          /\ Wrap(ur.val - c) = Wrap(At(ur.val, uh) + e)
          /\ Wrap(ur2.val - c) = Wrap(At(ur2.val, uh) + e)
        BY <1>3, <2>1, Rebase DEF At
    <2> HIDE DEF e
    <2>4. \/ e < WindowSize
          \/ e = WindowSize /\ At(ur2.val, uh) < WindowSize
        BY DEF e, ur2, c
    <2>5. /\ Wrap(s - c) = At(s, uh) + e
          /\ Wrap(ur.val - c) = At(ur.val, uh) + e
          /\ Wrap(ur2.val - c) = At(ur2.val, uh) + e
        BY <1>2, <2>1, <2>2, <2>3, <2>4, Sizes DEF Wrap
    <2>6. /\ ur = Sn(ur.val, c)
          /\ ur2 = Sn(ur2.val, c)
        BY <1>1 DEF SeqNum, Sn, c
    <2>7. LessOrEqual(ur, Sn(s, c)) <=> Wrap(ur.val - c) <= Wrap(s - c)
        BY <1>3, <2>1, <2>6, RankIsDistance
    <2>8. LessThan(Sn(s, c), ur2) <=> Wrap(s - c) < Wrap(ur2.val - c)
        BY <1>3, <2>1, <2>6, RankIsDistance
    <2>9. ~(LessOrEqual(ur, Sn(s, c)) /\ LessThan(Sn(s, c), ur2))
        BY <1>4 DEF SnInterval, c
    <2> QED BY <2>1, <2>2, <2>5, <2>7, <2>8, <2>9
<1>5. DOMAIN Without(buf, SnInterval(buf, ur, ur2)) = DOMAIN buf \ SnInterval(buf, ur, ur2)
    BY DEF Without
<1> QED BY <1>2, <1>4, <1>5 DEF Above, ur2

\* The window moves to include a PDU above it.  If every buffered number is
\* inside the new window, they all lay above the new bottom before.
LEMMA SlidAbove ==
    ASSUME NEW ur \in SeqNum, NEW uh \in SeqNum, NEW sn \in SeqNum, NEW pdu \in Pdu,
           ur.base = WindowBase(uh), sn.val = pdu.sn,
           DOMAIN rxBuffer \subseteq SnValue, Buffer(rxBuffer),
           Above(ur, uh, rxBuffer),
           At(ur.val, uh) <= At(sn.val, uh),
           ~IsInsideReorderingWindow(uh, sn.val),
           \A s \in DOMAIN rxBuffer : IsInsideReorderingWindow(SlidWindow(uh, sn), s)
    PROVE  LET h == SlidWindow(uh, sn)
               ur1 == Pulled(ur, uh, sn)
               buf == Placed(pdu)
           IN  /\ LeftBehind(uh, sn, buf) = {}
               /\ Above(ur1, h, buf)
               /\ \/ Wrap(WindowBase(h) - ur1.base) < WindowSize
                  \/ /\ Wrap(WindowBase(h) - ur1.base) = WindowSize
                     /\ At(Advanced(ur1, buf).val, h) < WindowSize
<1> DEFINE h   == SlidWindow(uh, sn)
           ur1 == Pulled(ur, uh, sn)
           buf == Placed(pdu)
           b   == WindowBase(uh)
           c   == WindowBase(h)
           d   == Wrap(c - b)
<1>1. /\ h \in SeqNum /\ ur1 \in SeqNum
      /\ b \in SnValue /\ c \in SnValue
      /\ sn.val \in SnValue /\ ur.val \in SnValue
    BY SlidWindowType, PulledType, WindowBaseType DEF SeqNum
<1>2. DOMAIN buf = DOMAIN rxBuffer \cup {sn.val} /\ DOMAIN buf \subseteq SnValue
    BY <1>1, BufferOperations
<1>3. h.val = Wrap(sn.val + 1)
    BY DEF SlidWindow, SetModulusBase, Plus, SeqNum
<1>4. c = Wrap(h.val - WindowSize)
    BY DEF WindowBase
<1> HIDE DEF h, ur1, buf, b, c
<1>5. WindowSize <= Wrap(sn.val - b)
    <2>1. ~(Wrap(sn.val - b) < WindowSize)
        BY <1>1, Inside DEF b
    <2>2. Wrap(sn.val - b) \in 0 .. SnMod - 1
        BY <1>1, Distance
    <2> QED BY <2>1, <2>2, Sizes
\* The distance d the bottom moves, and what it does to a distance.
<1>6. d \in 1 .. WindowSize /\ d = Wrap(sn.val - b) + 1 - WindowSize
    BY <1>1, <1>3, <1>4, <1>5, Sizes DEF Wrap, SnValue
<1>7. \A v \in SnValue :
          /\ Wrap(v - b) >= d => Wrap(v - c) = Wrap(v - b) - d
          /\ Wrap(v - b) < d => Wrap(v - c) = Wrap(v - b) - d + SnMod
    BY <1>1, Sizes DEF Wrap, SnValue
<1>8. \A v \in SnValue : Wrap(v - b) \in 0 .. SnMod - 1 /\ Wrap(v - c) \in 0 .. SnMod - 1
    BY <1>1, Distance
<1> HIDE DEF d
<1>9. Wrap(sn.val - c) = WindowSize - 1
    BY <1>1, <1>5, <1>6, <1>7, <1>8, Sizes
<1>10. \A s \in DOMAIN rxBuffer : /\ s \in SnValue
                                  /\ Wrap(s - b) < WindowSize
                                  /\ Wrap(ur.val - b) <= Wrap(s - b)
                                  /\ Wrap(s - c) < WindowSize
    BY <1>1, Inside DEF Above, At, b, c, h
<1>11. \A s \in DOMAIN rxBuffer : Wrap(s - b) >= d /\ Wrap(s - c) = Wrap(s - b) - d
    BY <1>6, <1>7, <1>8, <1>10, Sizes
<1>12. Wrap(ur.val - b) <= WindowSize
    BY DEF Above, At, b
<1>13. IsInsideReorderingWindow(h, ur.val) <=> Wrap(ur.val - c) < WindowSize
    BY <1>1, Inside DEF c
\* VR(UR) is kept when it lay above the new bottom and pulled up to it if not.
<1>14. \/ ur1 = ur /\ d <= Wrap(ur.val - b) /\ Wrap(ur1.val - c) = Wrap(ur.val - b) - d
       \/ ur1.base = c /\ Wrap(ur1.val - c) = 0 /\ Wrap(ur.val - b) < d
    <2>1. CASE d <= Wrap(ur.val - b)
        <3>1. Wrap(ur.val - c) = Wrap(ur.val - b) - d
            BY <1>1, <1>7, <2>1
        <3>2. Wrap(ur.val - c) < WindowSize
            BY <1>1, <1>6, <1>8, <1>12, <3>1, Sizes
        <3>3. ur1 = ur
            BY <1>13, <3>2 DEF Pulled, ur1, h
        <3> QED BY <2>1, <3>1, <3>3
    <2>2. CASE ~(d <= Wrap(ur.val - b))
        <3>1. Wrap(ur.val - b) < d
            BY <1>1, <1>6, <1>8, <2>2, Sizes
        <3>2. ~(Wrap(ur.val - c) < WindowSize)
            BY <1>1, <1>6, <1>7, <1>8, <3>1, Sizes
        <3>3. ur1 = Minus(h, WindowSize)
            BY <1>13, <3>2 DEF Pulled, ur1, h
        <3>4. h.base = c
            BY <1>1, <1>3 DEF h, c, SlidWindow, WindowBase, SetModulusBase, SeqNum, Plus
        <3>5. ur1.val = c /\ ur1.base = c
            BY <1>1, <1>4, <3>3, <3>4 DEF Minus, SeqNum
        <3>6. Wrap(c - c) = 0
            BY <1>1, Sizes DEF Wrap, SnValue
        <3> QED BY <3>1, <3>5, <3>6
    <2> QED BY <2>1, <2>2
<1>15. \A s \in DOMAIN rxBuffer : Wrap(ur1.val - c) <= Wrap(s - c)
    BY <1>1, <1>6, <1>8, <1>10, <1>11, <1>14, Sizes
<1>16. Wrap(ur1.val - c) <= Wrap(sn.val - c)
    BY <1>1, <1>6, <1>8, <1>9, <1>12, <1>14, Sizes
<1>17. Above(ur1, h, buf)
    <2>1. Wrap(ur1.val - c) <= WindowSize
        BY <1>1, <1>6, <1>8, <1>12, <1>14, Sizes
    <2> QED BY <1>2, <1>9, <1>10, <1>15, <1>16, <2>1, Sizes DEF Above, At, c
<1>18. LeftBehind(uh, sn, buf) = {}
    <2>1. \A s \in DOMAIN buf : IsInsideReorderingWindow(h, s)
        BY <1>1, <1>2, <1>9, <1>10, Inside, Sizes DEF c
    <2>2. \A s \in DOMAIN buf : s <= s
        BY <1>2 DEF SnValue
    <2> QED BY <2>1, <2>2 DEF LeftBehind, OutsideWindow, h
<1>19. \/ Wrap(c - ur1.base) < WindowSize
       \/ /\ Wrap(c - ur1.base) = WindowSize
          /\ At(Advanced(ur1, buf).val, h) < WindowSize
    <2>1. CASE ur1.base = c
        BY <1>1, <2>1, Sizes DEF Wrap, SnValue
    <2>2. CASE ur1 = ur /\ d < WindowSize
        BY <1>6, <2>2 DEF b, d
    \* The bottom moved by a whole window: nothing but the PDU is buffered, and
    \* it is not next to VR(UR).
    <2>3. CASE ur1 = ur /\ d = WindowSize /\ d <= Wrap(ur.val - b)
        <3>1. Wrap(ur1.val - c) = 0
            BY <1>1, <1>6, <1>7, <1>8, <1>12, <2>3, Sizes
        <3>2. DOMAIN rxBuffer = {}
            <4>1. ASSUME NEW s \in DOMAIN rxBuffer
                  PROVE  FALSE
                BY <1>8, <1>10, <1>11, <2>3, Sizes
            <4> QED BY <4>1
        <3>3. ur1.val \notin DOMAIN buf
            BY <1>2, <1>9, <3>1, <3>2, Sizes
        <3>4. Advanced(ur1, buf) = ur1
            BY <3>3 DEF Advanced
        <3> QED BY <2>3, <3>1, <3>4, Sizes DEF At, b, c, d
    <2> QED BY <1>6, <1>14, <2>1, <2>2, <2>3, Sizes
<1> QED BY <1>17, <1>18, <1>19 DEF h, ur1, buf, c

\* t-Reordering waits for VR(UX) between VR(UR) and VR(UH), or there is nothing
\* to wait for.
TimerInOrder(ur, ux, uh, timer) ==
    IF timer THEN At(ur.val, uh) < At(ux.val, uh) /\ At(ux.val, uh) <= WindowSize
    ELSE ur.val = uh.val

\* The timer rules of 5.1.2.2.3 establish it whatever VR(UX) was.
LEMMA TimerRules ==
    ASSUME NEW ur \in SeqNum, NEW ux \in SeqNum, NEW uh \in SeqNum, NEW timer \in BOOLEAN,
           ur.base = WindowBase(uh), ux.base = WindowBase(uh), uh.base = WindowBase(uh),
           At(ur.val, uh) <= WindowSize
    PROVE  LET runs   == timer /\ ~TimerStops(ur, ux, uh)
               starts == ~runs /\ StartsTimer(ur, uh)
           IN  TimerInOrder(ur, IF starts THEN uh ELSE ux, uh, runs \/ starts)
<1> DEFINE runs   == timer /\ ~TimerStops(ur, ux, uh)
           starts == ~runs /\ StartsTimer(ur, uh)
           b      == WindowBase(uh)
<1>1. /\ ur.val \in SnValue /\ ux.val \in SnValue /\ uh.val \in SnValue
      /\ b \in SnValue
      /\ ur = Sn(ur.val, b) /\ ux = Sn(ux.val, b) /\ uh = Sn(uh.val, b)
    BY WindowBaseType DEF SeqNum, Sn
<1>2. /\ At(ur.val, uh) \in 0 .. SnMod - 1
      /\ At(ux.val, uh) \in 0 .. SnMod - 1
      /\ At(uh.val, uh) = WindowSize
      /\ At(ux.val, uh) = WindowSize => ux.val = uh.val
      /\ At(ur.val, uh) = WindowSize => ur.val = uh.val
    BY <1>1, AtType
<1> HIDE DEF b
<1>3. StartsTimer(ur, uh) <=> At(uh.val, uh) > At(ur.val, uh)
    BY <1>1, RankIsDistance DEF At, StartsTimer, b
<1>4. LessOrEqual(ux, ur) <=> At(ux.val, uh) <= At(ur.val, uh)
    BY <1>1, RankIsDistance DEF At, b
<1>5. IsInsideReorderingWindow(uh, ux.val) <=> At(ux.val, uh) < WindowSize
    BY <1>1, Inside DEF At
<1>6. CASE runs
    <2>1. ~TimerStops(ur, ux, uh)
        BY <1>6
    <2>2. ~(At(ux.val, uh) <= At(ur.val, uh))
        BY <1>4, <2>1 DEF TimerStops
    <2>3. At(ux.val, uh) < WindowSize \/ ux.val = uh.val
        BY <1>5, <2>1 DEF TimerStops
    <2>4. At(ur.val, uh) < At(ux.val, uh) /\ At(ux.val, uh) <= WindowSize
        BY <1>2, <2>2, <2>3, Sizes
    <2> QED BY <1>6, <2>4 DEF TimerInOrder
<1>7. CASE starts
    BY <1>2, <1>3, <1>7, Sizes DEF TimerInOrder
<1>8. CASE ~runs /\ ~starts
    <2>1. ~(At(uh.val, uh) > At(ur.val, uh))
        BY <1>3, <1>8
    <2>2. ur.val = uh.val
        BY <1>2, <2>1, Sizes
    <2> QED BY <1>8, <2>2 DEF TimerInOrder
<1> QED BY <1>6, <1>7, <1>8

LEMMA PlacePduInWindow ==
    ASSUME TypeOK, NEW ur \in SeqNum, NEW uh \in SeqNum, NEW sn \in SeqNum, NEW pdu \in Pdu,
           PlacePdu(ur, uh, sn, pdu),
           ur.base = WindowBase(uh), sn.val = pdu.sn,
           Above(ur, uh, rxBuffer),
           At(ur.val, uh) <= At(sn.val, uh),
           \/ IsInsideReorderingWindow(uh, sn.val)
           \/ \A s \in DOMAIN rxBuffer : IsInsideReorderingWindow(SlidWindow(uh, sn), s)
    PROVE  Above(vrUr', vrUh', rxBuffer') /\ TimerInOrder(vrUr', vrUx', vrUh', reorderingTimer')
<1> DEFINE buf  == Placed(pdu)
           uh1  == SlidWindow(uh, sn)
           left == LeftBehind(uh, sn, buf)
           buf1 == Without(buf, left)
           ur1  == Pulled(ur, uh, sn)
           ur2  == Advanced(ur1, buf1)
           b    == WindowBase(uh1)
           ur3  == SetModulusBase(ur2, b)
           ux3  == RebasedVrUx(b)
           uh3  == SetModulusBase(uh1, b)
           runs == reorderingTimer /\ ~TimerStops(ur3, ux3, uh3)
           starts == ~runs /\ StartsTimer(ur3, uh3)
<1>1. /\ vrUr' = ur3
      /\ vrUh' = uh3
      /\ vrUx' = IF starts THEN uh3 ELSE ux3
      /\ rxBuffer' = Without(buf1, SnInterval(buf1, ur1, ur2))
      /\ reorderingTimer' = (runs \/ starts)
    BY DEF PlacePdu
<1>2. /\ Buffer(rxBuffer) /\ DOMAIN rxBuffer \subseteq SnValue
      /\ vrUx \in SeqNum /\ reorderingTimer \in BOOLEAN
    BY DEF TypeOK, Buffer
<1>3. /\ uh1 \in SeqNum /\ ur1 \in SeqNum /\ b \in SnValue
      /\ sn.val \in SnValue /\ ur.val \in SnValue
    BY SlidWindowType, PulledType, WindowBaseType DEF SeqNum
<1>4. DOMAIN buf = DOMAIN rxBuffer \cup {sn.val} /\ DOMAIN buf \subseteq SnValue
    BY <1>2, <1>3, BufferOperations
<1>5. /\ left = {}
      /\ Above(ur1, uh1, buf)
      /\ \/ Wrap(b - ur1.base) < WindowSize
         \/ /\ Wrap(b - ur1.base) = WindowSize
            /\ At(Advanced(ur1, buf).val, uh1) < WindowSize
    <2>1. CASE IsInsideReorderingWindow(uh, sn.val)
        <3>1. uh1 = uh /\ left = {} /\ ur1 = ur
            BY <2>1 DEF SlidWindow, LeftBehind, Pulled
        <3>2. At(sn.val, uh) < WindowSize
            BY <1>3, <2>1, Inside DEF At
        <3>3. Above(ur, uh, buf)
            BY <1>4, <3>2 DEF Above
        <3>4. Wrap(b - ur1.base) = 0
            BY <1>3, <3>1, Sizes DEF Wrap, SnValue
        <3> QED BY <3>1, <3>3, <3>4, Sizes
    <2>2. CASE ~IsInsideReorderingWindow(uh, sn.val)
        <3>1. \A s \in DOMAIN rxBuffer : IsInsideReorderingWindow(SlidWindow(uh, sn), s)
            BY <2>2
        <3> HIDE DEF buf
        <3> QED BY <1>2, <2>2, <3>1, SlidAbove DEF buf
    <2> QED BY <2>1, <2>2
<1> HIDE DEF buf, uh1, left, ur1
<1>6. DOMAIN buf1 = DOMAIN buf
    BY <1>5 DEF Without
<1>7. Advanced(ur1, buf1) = Advanced(ur1, buf)
    BY <1>6 DEF Advanced, NextNotReceived
<1>8. Above(ur1, uh1, buf1)
    BY <1>5, <1>6 DEF Above
<1>9. Above(ur2, uh1, Without(buf1, SnInterval(buf1, ur1, ur2)))
    <2>1. DOMAIN buf1 \subseteq SnValue
        BY <1>4, <1>6
    <2>2. \/ Wrap(WindowBase(uh1) - ur1.base) < WindowSize
          \/ /\ Wrap(WindowBase(uh1) - ur1.base) = WindowSize
             /\ At(Advanced(ur1, buf1).val, uh1) < WindowSize
        BY <1>5, <1>7
    <2> HIDE DEF buf1
    <2> QED BY <1>3, <1>8, <2>1, <2>2, TakenAbove
<1>10. ur2 \in SeqNum
    BY <1>3, <1>4, <1>6, AdvancedType
<1> HIDE DEF ur2, buf1
<1>11. /\ ur3 \in SeqNum /\ ur3.val = ur2.val /\ ur3.base = b
       /\ ux3 \in SeqNum /\ ux3.base = b
       /\ uh3 \in SeqNum /\ uh3.val = uh1.val /\ uh3.base = b
    BY <1>2, <1>3, <1>10 DEF SetModulusBase, RebasedVrUx, SeqNum
<1>12. WindowBase(uh3) = b
    BY <1>11 DEF WindowBase
<1> HIDE DEF ur3, ux3, uh3, b
<1>13. \A v : At(v, uh3) = At(v, uh1)
    BY <1>12 DEF At, b
<1>14. Above(vrUr', vrUh', rxBuffer')
    BY <1>1, <1>9, <1>11, <1>13 DEF Above
<1>15. TimerInOrder(vrUr', vrUx', vrUh', reorderingTimer')
    <2>1. At(ur3.val, uh3) <= WindowSize
        BY <1>1, <1>14 DEF Above
    <2>2. TimerInOrder(ur3, IF starts THEN uh3 ELSE ux3, uh3, runs \/ starts)
        BY <1>2, <1>11, <1>12, <2>1, TimerRules
    <2> QED BY <1>1, <2>2
<1> QED BY <1>14, <1>15

\* A PDU is discarded only inside the window, and any other lies at or above
\* VR(UR).
LEMMA Discarding ==
    ASSUME NEW ur \in SeqNum, NEW uh \in SeqNum, NEW sn \in SeqNum,
           ur.base = WindowBase(uh), uh.base = WindowBase(uh), sn.base = WindowBase(uh),
           At(ur.val, uh) <= WindowSize
    PROVE  IF IsDiscarded(ur, uh, sn) THEN IsInsideReorderingWindow(uh, sn.val)
           ELSE At(ur.val, uh) <= At(sn.val, uh)
<1> DEFINE b == WindowBase(uh)
<1>1. /\ b \in SnValue /\ ur.val \in SnValue /\ uh.val \in SnValue /\ sn.val \in SnValue
      /\ ur = Sn(ur.val, b) /\ uh = Sn(uh.val, b) /\ sn = Sn(sn.val, b)
    BY WindowBaseType DEF SeqNum, Sn
<1>2. /\ At(ur.val, uh) \in 0 .. SnMod - 1
      /\ At(sn.val, uh) \in 0 .. SnMod - 1
      /\ At(uh.val, uh) = WindowSize
    BY <1>1, AtType
<1> HIDE DEF b
<1>3. Minus(uh, WindowSize) = Sn(b, b)
    BY <1>1 DEF Minus, Sn, WindowBase, b
<1>4. Wrap(b - b) = 0
    BY <1>1, Sizes DEF Wrap, SnValue
<1>5. LessOrEqual(Sn(b, b), sn)
    BY <1>1, <1>2, <1>4, RankIsDistance DEF At, b
<1>6. /\ LessThan(sn, ur) <=> At(sn.val, uh) < At(ur.val, uh)
      /\ LessThan(sn, uh) <=> At(sn.val, uh) < At(uh.val, uh)
    BY <1>1, RankIsDistance DEF At, b
<1>7. IsInsideReorderingWindow(uh, sn.val) <=> At(sn.val, uh) < WindowSize
    BY <1>1, Inside DEF At
<1>8. CASE IsDiscarded(ur, uh, sn)
    <2>1. LessThan(sn, uh) \/ LessThan(sn, ur)
        BY <1>8 DEF IsDiscarded
    <2> QED BY <1>2, <1>6, <1>7, <1>8, <2>1, Sizes
<1>9. CASE ~IsDiscarded(ur, uh, sn)
    <2>1. ~LessThan(sn, ur)
        BY <1>3, <1>5, <1>9 DEF IsDiscarded
    <2> QED BY <1>2, <1>6, <1>9, <2>1, Sizes
<1> QED BY <1>8, <1>9

LEMMA HandlePduInWindow ==
    ASSUME TypeOK, NEW ur0 \in SeqNum, NEW uh0 \in SeqNum, NEW pdu \in Pdu,
           HandlePdu(ur0, uh0, pdu),
           Above(ur0, uh0, rxBuffer),
           TimerInOrder(ur0, vrUx, uh0, reorderingTimer),
           \/ IsInsideReorderingWindow(uh0, pdu.sn)
           \/ \A s \in DOMAIN rxBuffer :
                  IsInsideReorderingWindow(Sn(Wrap(pdu.sn + 1), 0), s)
    PROVE  Above(vrUr', vrUh', rxBuffer') /\ TimerInOrder(vrUr', vrUx', vrUh', reorderingTimer')
<1> DEFINE b  == WindowBase(uh0)
           ur == SetModulusBase(ur0, b)
           uh == SetModulusBase(uh0, b)
           sn == Sn(pdu.sn, b)
<1>1. b \in SnValue /\ pdu.sn \in SnValue /\ ur0.val \in SnValue /\ uh0.val \in SnValue
    BY WindowBaseType, PduAssumption DEF SeqNum
<1>2. /\ ur \in SeqNum /\ ur = Sn(ur0.val, b)
      /\ uh \in SeqNum /\ uh = Sn(uh0.val, b)
      /\ sn \in SeqNum
    BY <1>1, SetModulusBaseType DEF Sn, SeqNum
<1>3. WindowBase(uh) = b /\ uh.val = uh0.val /\ ur.val = ur0.val
    BY <1>2 DEF WindowBase, Sn
<1>4. \A v : At(v, uh) = At(v, uh0)
    BY <1>3 DEF At
<1>5. CASE IsDiscarded(ur, uh, sn)
    <2>1. /\ vrUr' = ur /\ vrUh' = uh
          /\ UNCHANGED <<vrUx, rxBuffer, reorderingTimer>>
        BY <1>5 DEF HandlePdu
    <2> HIDE DEF b, ur, uh, sn
    <2> QED BY <1>3, <1>4, <2>1 DEF Above, TimerInOrder
<1>6. CASE ~IsDiscarded(ur, uh, sn)
    <2>1. PlacePdu(ur, uh, sn, pdu)
        BY <1>6 DEF HandlePdu
    \* A PDU below VR(UR) would have been discarded.
    <2>2. At(ur.val, uh) <= At(sn.val, uh)
        <3>1. ur.base = WindowBase(uh) /\ uh.base = WindowBase(uh) /\ sn.base = WindowBase(uh)
            BY <1>2, <1>3 DEF Sn
        <3>2. At(ur.val, uh) <= WindowSize
            BY <1>3, <1>4 DEF Above
        <3> HIDE DEF b, ur, uh, sn
        <3> QED BY <1>2, <1>6, <3>1, <3>2, Discarding
    <2>3. Above(ur, uh, rxBuffer)
        BY <1>3, <1>4 DEF Above
    <2>4. IsInsideReorderingWindow(uh, sn.val) <=> IsInsideReorderingWindow(uh0, pdu.sn)
        BY <1>3 DEF IsInsideReorderingWindow, Sn, WindowBase
    <2>5. CASE IsInsideReorderingWindow(uh, sn.val)
        <3>1. ur.base = WindowBase(uh) /\ sn.val = pdu.sn
            BY <1>2, <1>3 DEF Sn
        <3> HIDE DEF b, ur, uh, sn
        <3> QED BY <1>2, <2>1, <2>2, <2>3, <2>5, <3>1, PlacePduInWindow
    <2>6. CASE ~IsInsideReorderingWindow(uh, sn.val)
        <3>1. ur.base = WindowBase(uh) /\ sn.val = pdu.sn
            BY <1>2, <1>3 DEF Sn
        <3>2. SlidWindow(uh, sn).val = Wrap(pdu.sn + 1)
            BY <2>6 DEF SlidWindow, SetModulusBase, Plus, Sn
        <3>3. \A v : IsInsideReorderingWindow(SlidWindow(uh, sn), v)
                        <=> IsInsideReorderingWindow(Sn(Wrap(pdu.sn + 1), 0), v)
            BY <3>2 DEF IsInsideReorderingWindow, WindowBase, Sn
        <3>4. \A s \in DOMAIN rxBuffer : IsInsideReorderingWindow(SlidWindow(uh, sn), s)
            BY <2>4, <2>6, <3>3
        <3> HIDE DEF b, ur, uh, sn
        <3> QED BY <1>2, <2>1, <2>2, <2>3, <3>1, <3>4, PlacePduInWindow
    <2> QED BY <2>5, <2>6
<1> QED BY <1>5, <1>6

\* The inductive invariant of PacedSpec.  Before its first PDU a sidelink
\* receiver has nothing buffered, so that PDU may set VR(UR) and VR(UH).
PacedInv ==
    /\ TypeOK
    /\ BasesMatch
    /\ Above(vrUr, vrUh, rxBuffer)
    /\ TimerInOrder(vrUr, vrUx, vrUh, reorderingTimer)
    /\ ChannelType = "STCH" /\ ~firstPduRxed => DOMAIN rxBuffer = {} /\ ~reorderingTimer

LEMMA ReceiveInWindow ==
    ASSUME PacedInv, NEW pdu \in Pdu, Paced(pdu), Receive(pdu)
    PROVE  PacedInv'
<1>1. /\ vrUr \in SeqNum /\ vrUh \in SeqNum /\ firstPduRxed \in BOOLEAN
      /\ pdu.sn \in SnValue /\ DOMAIN rxBuffer \subseteq SnValue
    BY PduAssumption DEF PacedInv, TypeOK
<1>2. TypeOK' /\ BasesMatch'
    BY ReceiveSafe DEF PacedInv
<1>3. /\ Above(vrUr', vrUh', rxBuffer')
      /\ TimerInOrder(vrUr', vrUx', vrUh', reorderingTimer')
    <2>1. CASE HandlePdu(vrUr, vrUh, pdu)
        <3>1. \/ IsInsideReorderingWindow(vrUh, pdu.sn)
              \/ \A s \in DOMAIN rxBuffer :
                     IsInsideReorderingWindow(Sn(Wrap(pdu.sn + 1), 0), s)
            BY DEF Paced
        <3> QED BY <1>1, <2>1, <3>1, HandlePduInWindow DEF PacedInv
    <2>2. CASE ChannelType = "STCH" /\ ~firstPduRxed /\ HandlePdu(Sn(pdu.sn, 0), Sn(pdu.sn, 0), pdu)
        <3> DEFINE first == Sn(pdu.sn, 0)
        <3>1. first \in SeqNum /\ first.val = pdu.sn
            BY <1>1, Sizes DEF SeqNum, Sn, SnValue
        <3>2. DOMAIN rxBuffer = {} /\ ~reorderingTimer
            BY <2>2 DEF PacedInv
        <3>3. At(first.val, first) = WindowSize
            BY <3>1, AtType DEF SeqNum
        <3> HIDE DEF first
        <3>4. Above(first, first, rxBuffer)
            BY <3>2, <3>3, Sizes DEF Above
        <3>5. TimerInOrder(first, vrUx, first, reorderingTimer)
            BY <3>2 DEF TimerInOrder
        <3> QED BY <2>2, <3>1, <3>2, <3>4, <3>5, HandlePduInWindow DEF PacedInv, first
    <2> QED BY <1>1, <2>1, <2>2 DEF Receive, ReceivePdu, ReceiveNrSlRlcPdu
<1>4. ChannelType = "STCH" => firstPduRxed'
    BY ChannelAssumption DEF Receive, ReceivePdu, ReceiveNrSlRlcPdu
<1> QED BY <1>2, <1>3, <1>4 DEF PacedInv

\* VR(UR) moves over the numbers given up, to VR(UH) at most: the search for a
\* number not received ends there, because VR(UH) itself is not buffered.
LEMMA ExpireInWindow ==
    ASSUME PacedInv, ExpireReorderingTimer
    PROVE  PacedInv' /\ At(vrUx.val, vrUh) <= At(vrUr'.val, vrUh)
<1>1. /\ vrUr \in SeqNum /\ vrUx \in SeqNum /\ vrUh \in SeqNum
      /\ vrUr.val \in SnValue /\ vrUx.val \in SnValue /\ vrUh.val \in SnValue
      /\ DOMAIN rxBuffer \subseteq SnValue
    BY DEF PacedInv, TypeOK, SeqNum
<1>2. TypeOK' /\ BasesMatch'
    BY ExpireReorderingTimerSafe DEF PacedInv
<1>3. reorderingTimer /\ DOMAIN rxBuffer # SnValue /\ firstPduRxed' = firstPduRxed
    BY DEF ExpireReorderingTimer, StartsTimer
<1> DEFINE b == WindowBase(vrUh)
           ur == FirstNotReceived(vrUx)
<1>4. PICK k \in 0 .. SnMod : /\ ur = Plus(vrUx, k)
                              /\ \A i \in 0 .. k - 1 : Wrap(vrUx.val + i) \in DOMAIN rxBuffer
    BY <1>1, <1>3, FirstNotReceivedExists
<1>5. /\ vrUr' = ur
      /\ rxBuffer' = Without(rxBuffer, SnInterval(rxBuffer, vrUr, ur))
      /\ reorderingTimer' = GreaterThan(vrUh, ur)
      /\ vrUx' = IF GreaterThan(vrUh, ur) THEN vrUh ELSE vrUx
      /\ vrUh' = vrUh
    BY DEF ExpireReorderingTimer, StartsTimer
<1>6. /\ ur \in SeqNum /\ ur.val \in SnValue /\ b \in SnValue
      /\ ur.val = Wrap(vrUx.val + k)
      /\ ur = Sn(ur.val, b) /\ vrUr = Sn(vrUr.val, b) /\ vrUh = Sn(vrUh.val, b)
    <2>1. ur \in SeqNum /\ ur.base = vrUx.base /\ ur.val = Wrap(vrUx.val + k)
        BY <1>1, <1>4, ArithmeticType
    <2>2. vrUr.base = b /\ vrUx.base = b /\ vrUh.base = b
        BY <1>3 DEF PacedInv, BasesMatch
    <2> QED BY <1>1, <2>1, <2>2, WindowBaseType DEF SeqNum, Sn
<1>7. /\ At(vrUr.val, vrUh) < At(vrUx.val, vrUh)
      /\ At(vrUx.val, vrUh) <= WindowSize
    BY <1>3 DEF PacedInv, TimerInOrder
<1> HIDE DEF b, ur
<1>8. \A v \in SnValue : At(v, vrUh) \in 0 .. SnMod - 1
    BY <1>1, AtType
<1>9. At(ur.val, vrUh) = At(vrUx.val, vrUh) + k /\ At(ur.val, vrUh) <= WindowSize
    <2> DEFINE x == At(vrUx.val, vrUh)
    <2>1. x \in 0 .. WindowSize
        BY <1>1, <1>7, <1>8, Sizes
    <2>2. ASSUME NEW i \in 0 .. WindowSize, x + i <= WindowSize
          PROVE  At(Wrap(vrUx.val + i), vrUh) = x + i
        <3>1. x = Wrap(vrUx.val - b)
            BY DEF At, b
        <3>2. Wrap(Wrap(vrUx.val + i) - b) = Wrap(vrUx.val - b) + i
            BY <1>1, <1>6, <2>1, <2>2, <3>1, Sizes DEF Wrap, SnValue
        <3> QED BY <3>1, <3>2 DEF At, b
    <2> HIDE DEF x
    <2>3. k <= WindowSize - x
        <3>1. SUFFICES ASSUME WindowSize - x < k
                       PROVE  FALSE
            BY <1>4, <2>1, Sizes
        <3>2. WindowSize - x \in 0 .. k - 1 /\ WindowSize - x \in 0 .. WindowSize
            BY <1>4, <2>1, <3>1, Sizes
        <3>3. Wrap(vrUx.val + (WindowSize - x)) \in DOMAIN rxBuffer
            BY <1>4, <3>2
        <3>4. x + (WindowSize - x) = WindowSize
            BY <2>1, Sizes
        <3>5. At(Wrap(vrUx.val + (WindowSize - x)), vrUh) = WindowSize
            BY <2>2, <3>2, <3>4, Sizes
        <3>6. At(Wrap(vrUx.val + (WindowSize - x)), vrUh) < WindowSize
            BY <3>3 DEF PacedInv, Above
        <3> QED BY <3>5, <3>6, Sizes
    <2>4. k \in 0 .. WindowSize /\ x + k <= WindowSize
        BY <1>4, <2>1, <2>3, Sizes
    <2> QED BY <1>6, <2>2, <2>4 DEF x
<1>10. Above(vrUr', vrUh', rxBuffer')
    <2>1. ASSUME NEW s \in DOMAIN rxBuffer, s \notin SnInterval(rxBuffer, vrUr, ur)
          PROVE  At(ur.val, vrUh) <= At(s, vrUh) /\ At(s, vrUh) < WindowSize
        <3>1. s \in SnValue /\ At(vrUr.val, vrUh) <= At(s, vrUh) /\ At(s, vrUh) < WindowSize
            BY <1>1 DEF PacedInv, Above
        <3>2. LessOrEqual(vrUr, Sn(s, b)) <=> At(vrUr.val, vrUh) <= At(s, vrUh)
            BY <1>1, <1>6, <3>1, RankIsDistance DEF At, b
        <3>3. LessThan(Sn(s, b), ur) <=> At(s, vrUh) < At(ur.val, vrUh)
            BY <1>6, <3>1, RankIsDistance DEF At, b
        <3>4. ~LessThan(Sn(s, b), ur)
            <4>1. vrUr.base = b
                BY <1>6 DEF Sn
            <4> QED BY <2>1, <3>1, <3>2, <4>1 DEF SnInterval
        <3> QED BY <1>6, <1>8, <3>1, <3>3, <3>4
    <2>2. DOMAIN rxBuffer' = DOMAIN rxBuffer \ SnInterval(rxBuffer, vrUr, ur)
        BY <1>5 DEF Without
    <2> QED BY <1>5, <1>9, <2>1, <2>2 DEF Above
<1>11. TimerInOrder(vrUr', vrUx', vrUh', reorderingTimer')
    <2>1. At(vrUh.val, vrUh) = WindowSize
        BY <1>1, AtType
    <2>2. GreaterThan(vrUh, ur) <=> At(vrUh.val, vrUh) > At(ur.val, vrUh)
        BY <1>1, <1>6, RankIsDistance DEF At, b
    <2>3. CASE GreaterThan(vrUh, ur)
        BY <1>5, <1>6, <1>8, <2>1, <2>2, <2>3, Sizes DEF TimerInOrder
    <2>4. CASE ~GreaterThan(vrUh, ur)
        <3>1. At(ur.val, vrUh) = WindowSize
            BY <1>6, <1>8, <1>9, <2>1, <2>2, <2>4, Sizes
        <3>2. ur.val = vrUh.val
            BY <1>1, <1>6, <3>1, AtType
        <3> QED BY <1>5, <2>4, <3>2 DEF TimerInOrder
    <2> QED BY <2>3, <2>4
<1>12. ChannelType = "STCH" => firstPduRxed'
    BY <1>3 DEF PacedInv
<1>13. At(vrUx.val, vrUh) <= At(vrUr'.val, vrUh)
    BY <1>1, <1>4, <1>5, <1>8, <1>9
<1> QED BY <1>2, <1>10, <1>11, <1>12, <1>13 DEF PacedInv

LEMMA PacedInit == Init => PacedInv
<1> SUFFICES ASSUME Init
             PROVE  PacedInv
    OBVIOUS
<1>1. TypeOK /\ BasesMatch
    BY InitSafe
<1>2. /\ vrUr = Sn(0, 0) /\ vrUh = Sn(0, 0)
      /\ DOMAIN rxBuffer = {} /\ reorderingTimer = FALSE
    BY DEF Init
<1>3. At(vrUr.val, vrUh) = WindowSize
    BY <1>1, <1>2, AtType DEF TypeOK, SeqNum
<1>4. Above(vrUr, vrUh, rxBuffer)
    BY <1>2, <1>3, Sizes DEF Above
<1>5. TimerInOrder(vrUr, vrUx, vrUh, reorderingTimer)
    BY <1>2 DEF TimerInOrder
<1> QED BY <1>1, <1>2, <1>4, <1>5 DEF PacedInv

LEMMA PacedStep == PacedInv /\ [PacedNext]_vars => PacedInv'
<1> SUFFICES ASSUME PacedInv, [PacedNext]_vars
             PROVE  PacedInv'
    OBVIOUS
<1>1. ASSUME NEW pdu \in Pdu, Paced(pdu), Receive(pdu)
      PROVE  PacedInv'
    BY <1>1, ReceiveInWindow
<1>2. CASE ExpireReorderingTimer
    BY <1>2, ExpireInWindow
<1>3. CASE UNCHANGED vars
    <2>1. /\ UNCHANGED <<vrUr, vrUx, vrUh, rxBuffer, reorderingTimer, firstPduRxed>>
        BY <1>3 DEF vars
    <2>2. TypeOK' /\ BasesMatch'
        BY <2>1 DEF PacedInv, TypeOK, BasesMatch, WindowBase
    <2>3. Above(vrUr', vrUh', rxBuffer')
        BY <2>1 DEF PacedInv
    <2>4. TimerInOrder(vrUr', vrUx', vrUh', reorderingTimer')
        BY <2>1 DEF PacedInv
    <2> QED BY <2>1, <2>2, <2>3, <2>4 DEF PacedInv
<1> QED BY <1>1, <1>2, <1>3 DEF PacedNext

LEMMA PacedInvariant == PacedSpec => []PacedInv
BY PacedInit, PacedStep, PTL DEF PacedSpec

\* Paced, VR(UR), VR(UX) and VR(UH) keep their order through every handler.
THEOREM WindowOrdered == PacedSpec => []WindowOrder
<1>1. PacedInv => WindowOrder
    BY DEF PacedInv, Above, TimerInOrder, WindowOrder, Offset, At
<1> QED BY <1>1, PacedInvariant, PTL

\* Paced, the reception buffer only holds numbers of the current window.
THEOREM BufferInside == PacedSpec => []BufferInWindow
<1>1. PacedInv => BufferInWindow
    BY DEF PacedInv, Above, BufferInWindow, Offset, At
<1> QED BY <1>1, PacedInvariant, PTL

\* In the invariant's window nothing is buffered while VR(UR) = VR(UH).
LEMMA KeptHasTimer ==
    ASSUME PacedInv, DOMAIN rxBuffer # {}
    PROVE  reorderingTimer
<1> SUFFICES ASSUME ~reorderingTimer PROVE FALSE
    OBVIOUS
<1>1. PICK s \in DOMAIN rxBuffer : TRUE
    OBVIOUS
<1>2. vrUr.val = vrUh.val /\ vrUh \in SeqNum
    BY DEF PacedInv, TimerInOrder, TypeOK
<1>3. At(vrUr.val, vrUh) = WindowSize
    BY <1>2, AtType DEF SeqNum
<1>4. /\ s \in SnValue /\ At(s, vrUh) \in 0 .. SnMod - 1
      /\ At(vrUr.val, vrUh) <= At(s, vrUh) /\ At(s, vrUh) < WindowSize
    BY <1>1, <1>2, AtType DEF PacedInv, TypeOK, Above
<1> QED BY <1>3, <1>4, Sizes

\* Paced, a buffered PDU always has a running timer that will release it.
THEOREM NothingStranded == PacedSpec => []NoneStranded
<1>1. PacedInv => NoneStranded
    BY KeptHasTimer DEF NoneStranded
<1> QED BY <1>1, PacedInvariant, PTL

-----------------------------------------------------------------------------
(* What the timer waits for.  LteRlcUmLink bounds the age of buffered PDUs  *)
(* by these facts.                                                          *)

\* By how much the window moves to include p.
LEMMA WindowMoves ==
    ASSUME NEW uh \in SeqNum, NEW h \in SeqNum, NEW p \in SnValue,
           h.val = IF IsInsideReorderingWindow(uh, p) THEN uh.val ELSE Wrap(p + 1)
    PROVE  \E c \in 0 .. WindowSize : \A v \in SnValue : At(v, h) = Wrap(At(v, uh) - c)
<1> DEFINE c == Wrap(h.val - uh.val)
<1>1. uh.val \in SnValue /\ h.val \in SnValue
    BY DEF SeqNum
<1>2. IsInsideReorderingWindow(uh, p) <=> At(p, uh) < WindowSize
    BY Inside DEF At
<1>3. c \in 0 .. WindowSize
    <2>1. CASE IsInsideReorderingWindow(uh, p)
        BY <1>1, <2>1, Sizes DEF Wrap, SnValue
    <2>2. CASE ~IsInsideReorderingWindow(uh, p)
        BY <1>1, <1>2, <2>2, Sizes DEF At, WindowBase, Wrap, SnValue
    <2> QED BY <2>1, <2>2
<1>4. ASSUME NEW v \in SnValue
      PROVE  At(v, h) = Wrap(At(v, uh) - c)
    BY <1>1, Sizes DEF At, WindowBase, Wrap, SnValue
<1> QED BY <1>3, <1>4

\* A number inside both windows is at or above VR(UX) in the old one, if it is
\* so in the new one or VR(UX) has left the new one.
LEMMA OrderKept ==
    ASSUME NEW uh \in SeqNum, NEW h \in SeqNum, NEW p \in SnValue,
           h.val = IF IsInsideReorderingWindow(uh, p) THEN uh.val ELSE Wrap(p + 1),
           NEW x \in SnValue, 0 < At(x, uh), At(x, uh) <= WindowSize,
           NEW v \in SnValue, At(v, uh) < WindowSize, At(v, h) < WindowSize,
           At(x, h) <= At(v, h) \/ WindowSize < At(x, h)
    PROVE  At(x, uh) <= At(v, uh)
<1>1. PICK c \in 0 .. WindowSize : /\ At(x, h) = Wrap(At(x, uh) - c)
                                  /\ At(v, h) = Wrap(At(v, uh) - c)
    BY WindowMoves
<1>2. At(x, uh) \in 0 .. SnMod - 1 /\ At(v, uh) \in 0 .. SnMod - 1
    BY AtType
<1> QED BY <1>1, <1>2, Sizes DEF Wrap

\* The timer is started: for everything received so far, and what is left in the
\* buffer was at or above the number waited for before.
Rearmed ==
    /\ vrUx'.val = vrUh'.val
    /\ reorderingTimer =>
           \A s \in DOMAIN rxBuffer \cap DOMAIN rxBuffer' : At(vrUx.val, vrUh) <= At(s, vrUh)

\* Or it runs on, for the same number.
RunsOn == reorderingTimer /\ vrUx'.val = vrUx.val

LEMMA PlacePduRearms ==
    ASSUME TypeOK, NEW ur \in SeqNum, NEW uh \in SeqNum, NEW sn \in SeqNum, NEW pdu \in Pdu,
           PlacePdu(ur, uh, sn, pdu),
           ur.base = WindowBase(uh), sn.val = pdu.sn,
           Above(ur, uh, rxBuffer),
           TimerInOrder(ur, vrUx, uh, reorderingTimer),
           reorderingTimer => uh.val = vrUh.val,
           Above(vrUr', vrUh', rxBuffer')
    PROVE  /\ vrUh'.val = IF IsInsideReorderingWindow(uh, sn.val) THEN uh.val
                          ELSE Wrap(sn.val + 1)
           /\ DOMAIN rxBuffer' \subseteq DOMAIN rxBuffer \cup {sn.val}
           /\ reorderingTimer' => Rearmed \/ RunsOn
<1> DEFINE buf  == Placed(pdu)
           uh1  == SlidWindow(uh, sn)
           left == LeftBehind(uh, sn, buf)
           buf1 == Without(buf, left)
           ur1  == Pulled(ur, uh, sn)
           ur2  == Advanced(ur1, buf1)
           b    == WindowBase(uh1)
           ur3  == SetModulusBase(ur2, b)
           ux3  == RebasedVrUx(b)
           uh3  == SetModulusBase(uh1, b)
           runs == reorderingTimer /\ ~TimerStops(ur3, ux3, uh3)
           starts == ~runs /\ StartsTimer(ur3, uh3)
<1>1. /\ vrUr' = ur3
      /\ vrUh' = uh3
      /\ vrUx' = IF starts THEN uh3 ELSE ux3
      /\ rxBuffer' = Without(buf1, SnInterval(buf1, ur1, ur2))
      /\ reorderingTimer' = (runs \/ starts)
    BY DEF PlacePdu
<1>2. /\ Buffer(rxBuffer) /\ DOMAIN rxBuffer \subseteq SnValue
      /\ vrUx \in SeqNum /\ vrUx.val \in SnValue /\ reorderingTimer \in BOOLEAN
    BY DEF TypeOK, Buffer, SeqNum
<1>3. DOMAIN buf = DOMAIN rxBuffer \cup {sn.val} /\ sn.val \in SnValue
    BY <1>2, BufferOperations DEF SeqNum
<1>4. DOMAIN rxBuffer' \subseteq DOMAIN rxBuffer \cup {sn.val}
    BY <1>1, <1>3 DEF Without
<1>5. Buffer(buf1)
    BY <1>2, BufferOperations
<1>6. uh1 \in SeqNum /\ ur1 \in SeqNum /\ b \in SnValue
    BY SlidWindowType, PulledType, WindowBaseType
<1>7. ur2 \in SeqNum
    BY <1>5, <1>6, AdvancedType DEF Buffer
<1>8. uh1.val = IF IsInsideReorderingWindow(uh, sn.val) THEN uh.val ELSE Wrap(sn.val + 1)
    BY DEF SlidWindow, SetModulusBase, Plus, SeqNum
<1> HIDE DEF buf, uh1, left, buf1, ur1, ur2
<1>9. /\ ur3 \in SeqNum /\ ur3.base = b
      /\ ux3 \in SeqNum /\ ux3.base = b /\ ux3.val = vrUx.val
      /\ uh3 \in SeqNum /\ uh3.base = b /\ uh3.val = uh1.val
    BY <1>2, <1>6, <1>7 DEF SetModulusBase, RebasedVrUx, SeqNum
<1>10. WindowBase(uh3) = b
    BY <1>9 DEF WindowBase
<1> HIDE DEF ur3, ux3, uh3, b
<1>11. ASSUME runs PROVE RunsOn
    <2>1. vrUx' = ux3
        BY <1>1, <1>11
    <2>2. reorderingTimer
        BY <1>11
    <2> QED BY <1>9, <2>1, <2>2 DEF RunsOn
<1>12. ASSUME ~runs, starts PROVE Rearmed
    <2>1. vrUx'.val = vrUh'.val
        BY <1>1, <1>12
    <2>2. ASSUME reorderingTimer, NEW s \in DOMAIN rxBuffer \cap DOMAIN rxBuffer'
          PROVE  At(vrUx.val, uh) <= At(s, uh)
        <3>1. /\ 0 < At(vrUx.val, uh) /\ At(vrUx.val, uh) <= WindowSize
              /\ At(s, uh) < WindowSize /\ s \in SnValue
            <4>1. ur.val \in SnValue
                BY DEF SeqNum
            <4> QED BY <1>2, <2>2, <4>1, AtType, Sizes DEF TimerInOrder, Above
        <3>2. At(ur3.val, uh3) <= At(s, uh3) /\ At(s, uh3) < WindowSize
            BY <1>1, <2>2 DEF Above
        <3>3. At(vrUx.val, uh3) <= At(s, uh3) \/ WindowSize < At(vrUx.val, uh3)
            <4>1. /\ b \in SnValue /\ ur3.val \in SnValue /\ uh3.val \in SnValue
                  /\ ur3 = Sn(ur3.val, b) /\ ux3 = Sn(vrUx.val, b)
                BY <1>6, <1>9, <1>10 DEF SeqNum, Sn
            <4>2. /\ At(ur3.val, uh3) \in 0 .. SnMod - 1
                  /\ At(vrUx.val, uh3) \in 0 .. SnMod - 1
                  /\ At(s, uh3) \in 0 .. SnMod - 1
                  /\ At(vrUx.val, uh3) = WindowSize => vrUx.val = uh3.val
                BY <1>2, <1>9, <3>1, <4>1, AtType
            <4>3. LessOrEqual(ux3, ur3) <=> At(vrUx.val, uh3) <= At(ur3.val, uh3)
                BY <1>2, <1>10, <4>1, RankIsDistance DEF At
            <4>4. IsInsideReorderingWindow(uh3, ux3.val) <=> At(vrUx.val, uh3) < WindowSize
                BY <1>2, <1>9, Inside DEF At
            <4>5. TimerStops(ur3, ux3, uh3)
                BY <1>12, <2>2
            <4>6. \/ LessOrEqual(ux3, ur3)
                  \/ ~IsInsideReorderingWindow(uh3, ux3.val) /\ vrUx.val # uh3.val
                BY <1>9, <4>5 DEF TimerStops
            <4> QED BY <3>2, <4>2, <4>3, <4>4, <4>6, Sizes
        <3> QED BY <1>2, <1>3, <1>8, <1>9, <3>1, <3>2, <3>3, OrderKept
    <2>3. ASSUME reorderingTimer, NEW s \in DOMAIN rxBuffer \cap DOMAIN rxBuffer'
          PROVE  At(vrUx.val, vrUh) <= At(s, vrUh)
        <3>1. WindowBase(uh) = WindowBase(vrUh)
            BY <2>3 DEF WindowBase
        <3>2. At(vrUx.val, uh) <= At(s, uh)
            BY <2>2, <2>3
        <3> QED BY <3>1, <3>2 DEF At
    <2> QED BY <2>1, <2>3 DEF Rearmed
<1>13. vrUh'.val = uh1.val
    BY <1>1, <1>9
<1>14. reorderingTimer' => Rearmed \/ RunsOn
    BY <1>1, <1>11, <1>12
<1> QED BY <1>4, <1>8, <1>13, <1>14

LEMMA HandlePduRearms ==
    ASSUME TypeOK, NEW ur0 \in SeqNum, NEW uh0 \in SeqNum, NEW pdu \in Pdu,
           HandlePdu(ur0, uh0, pdu),
           Above(ur0, uh0, rxBuffer),
           TimerInOrder(ur0, vrUx, uh0, reorderingTimer),
           reorderingTimer => uh0.val = vrUh.val,
           Above(vrUr', vrUh', rxBuffer')
    PROVE  /\ vrUh'.val = IF IsInsideReorderingWindow(uh0, pdu.sn) THEN uh0.val
                          ELSE Wrap(pdu.sn + 1)
           /\ DOMAIN rxBuffer' \subseteq DOMAIN rxBuffer \cup {pdu.sn}
           /\ reorderingTimer' => Rearmed \/ RunsOn
           /\ reorderingTimer' /\ ~reorderingTimer =>
                  ~IsInsideReorderingWindow(uh0, pdu.sn)
<1> DEFINE b  == WindowBase(uh0)
           ur == SetModulusBase(ur0, b)
           uh == SetModulusBase(uh0, b)
           sn == Sn(pdu.sn, b)
<1>1. b \in SnValue /\ pdu.sn \in SnValue
    BY WindowBaseType, PduAssumption
<1>2. /\ ur \in SeqNum /\ ur.val = ur0.val /\ ur.base = b
      /\ uh \in SeqNum /\ uh.val = uh0.val /\ uh.base = b
      /\ sn \in SeqNum /\ sn.val = pdu.sn /\ sn.base = b
    BY <1>1, SetModulusBaseType DEF Sn, SeqNum
<1>3. WindowBase(uh) = b
    BY <1>2 DEF WindowBase
<1>4. \A v : At(v, uh) = At(v, uh0)
    BY <1>3 DEF At
<1>5. IsInsideReorderingWindow(uh, sn.val) <=> IsInsideReorderingWindow(uh0, pdu.sn)
    BY <1>2, <1>3 DEF IsInsideReorderingWindow
<1>6. /\ Above(ur, uh, rxBuffer)
      /\ TimerInOrder(ur, vrUx, uh, reorderingTimer)
    BY <1>2, <1>4 DEF Above, TimerInOrder
<1>7. At(ur.val, uh) <= WindowSize
    BY <1>6 DEF Above
<1>8. IF IsDiscarded(ur, uh, sn)
      THEN /\ vrUh' = uh
           /\ UNCHANGED <<vrUx, rxBuffer, reorderingTimer>>
      ELSE PlacePdu(ur, uh, sn, pdu)
    BY DEF HandlePdu
<1> HIDE DEF b, ur, uh, sn
<1>9. IF IsDiscarded(ur, uh, sn) THEN IsInsideReorderingWindow(uh, sn.val)
      ELSE At(ur.val, uh) <= At(sn.val, uh)
    BY <1>2, <1>3, <1>7, Discarding
<1>10. CASE IsDiscarded(ur, uh, sn)
    BY <1>2, <1>5, <1>8, <1>9, <1>10 DEF RunsOn, TypeOK
<1>11. CASE ~IsDiscarded(ur, uh, sn)
    <2>1. /\ vrUh'.val = IF IsInsideReorderingWindow(uh, sn.val) THEN uh.val
                         ELSE Wrap(sn.val + 1)
          /\ DOMAIN rxBuffer' \subseteq DOMAIN rxBuffer \cup {sn.val}
          /\ reorderingTimer' => Rearmed \/ RunsOn
        BY <1>2, <1>3, <1>6, <1>8, <1>11, PlacePduRearms
    \* Inside the window it is below VR(UR) = VR(UH), and discarded.
    <2>2. ASSUME ~reorderingTimer PROVE ~IsInsideReorderingWindow(uh, sn.val)
        <3>1. ur.val = uh.val
            BY <1>6, <2>2 DEF TimerInOrder
        <3>2. At(uh.val, uh) = WindowSize /\ At(sn.val, uh) \in 0 .. SnMod - 1
            BY <1>1, <1>2, AtType
        <3>3. ~(At(sn.val, uh) < WindowSize)
            BY <1>9, <1>11, <3>1, <3>2, Sizes
        <3> QED BY <1>1, <1>2, <3>3, Inside DEF At
    <2> QED BY <1>2, <1>5, <2>1, <2>2
<1> QED BY <1>10, <1>11

\* What the handler of a PDU does to the timer.  A timer that was not running
\* is only started by a PDU above the window.
TimerFollows(pdu) ==
    /\ DOMAIN rxBuffer' \subseteq DOMAIN rxBuffer \cup {pdu.sn}
    /\ reorderingTimer' => Rearmed \/ RunsOn
    /\ reorderingTimer' =>
           vrUh'.val = IF reorderingTimer /\ IsInsideReorderingWindow(vrUh, pdu.sn)
                       THEN vrUh.val ELSE Wrap(pdu.sn + 1)

LEMMA ReceiveRearms ==
    ASSUME PacedInv, NEW pdu \in Pdu, Paced(pdu), Receive(pdu)
    PROVE  TimerFollows(pdu)
<1>1. /\ TypeOK /\ vrUr \in SeqNum /\ vrUh \in SeqNum /\ firstPduRxed \in BOOLEAN
      /\ pdu.sn \in SnValue /\ reorderingTimer \in BOOLEAN
    BY PduAssumption DEF PacedInv, TypeOK
<1>2. Above(vrUr', vrUh', rxBuffer')
    BY ReceiveInWindow DEF PacedInv
<1>3. CASE HandlePdu(vrUr, vrUh, pdu)
    <2>1. Above(vrUr, vrUh, rxBuffer) /\ TimerInOrder(vrUr, vrUx, vrUh, reorderingTimer)
        BY DEF PacedInv
    <2> QED BY <1>1, <1>2, <1>3, <2>1, HandlePduRearms DEF TimerFollows
<1>4. CASE ChannelType = "STCH" /\ ~firstPduRxed /\ HandlePdu(Sn(pdu.sn, 0), Sn(pdu.sn, 0), pdu)
    <2> DEFINE first == Sn(pdu.sn, 0)
    <2>1. first \in SeqNum /\ first.val = pdu.sn
        BY <1>1, Sizes DEF SeqNum, Sn, SnValue
    <2>2. DOMAIN rxBuffer = {} /\ ~reorderingTimer
        BY <1>4 DEF PacedInv
    <2>3. At(first.val, first) = WindowSize
        BY <2>1, AtType DEF SeqNum
    <2>4. HandlePdu(first, first, pdu)
        BY <1>4
    <2> HIDE DEF first
    <2>5. Above(first, first, rxBuffer) /\ TimerInOrder(first, vrUx, first, reorderingTimer)
        BY <2>2, <2>3, Sizes DEF Above, TimerInOrder
    <2> QED BY <1>1, <1>2, <2>1, <2>2, <2>4, <2>5, HandlePduRearms DEF TimerFollows
<1> QED BY <1>1, <1>3, <1>4 DEF Receive, ReceivePdu, ReceiveNrSlRlcPdu

\* When it fires with numbers still missing it is started again, for
\* everything received so far.
LEMMA ExpireRearms ==
    ASSUME PacedInv, ExpireReorderingTimer
    PROVE  /\ DOMAIN rxBuffer' \subseteq DOMAIN rxBuffer /\ vrUh' = vrUh
           /\ reorderingTimer' => Rearmed /\ vrUx.val # vrUh.val
<1>1. /\ DOMAIN rxBuffer' \subseteq DOMAIN rxBuffer /\ vrUh' = vrUh
      /\ reorderingTimer' => vrUx' = vrUh
    BY DEF ExpireReorderingTimer, Without
<1>2. PacedInv' /\ At(vrUx.val, vrUh) <= At(vrUr'.val, vrUh)
    BY ExpireInWindow
<1>3. /\ vrUx.val \in SnValue /\ vrUh \in SeqNum /\ vrUr'.val \in SnValue
      /\ DOMAIN rxBuffer' \subseteq SnValue
    BY <1>2 DEF PacedInv, TypeOK, SeqNum
<1>4. \A v \in SnValue : At(v, vrUh) \in 0 .. SnMod - 1
    BY <1>3, AtType
<1>5. ASSUME NEW s \in DOMAIN rxBuffer' PROVE At(vrUx.val, vrUh) <= At(s, vrUh)
    <2>1. At(vrUr'.val, vrUh) <= At(s, vrUh)
        BY <1>1, <1>2 DEF PacedInv, Above
    <2> QED BY <1>2, <1>3, <1>4, <2>1, Sizes
<1>6. ASSUME reorderingTimer' PROVE vrUx.val # vrUh.val
    <2>1. At(vrUr'.val, vrUh) < WindowSize
        <3>1. At(vrUr'.val, vrUh) < At(vrUx'.val, vrUh) /\ At(vrUx'.val, vrUh) <= WindowSize
            BY <1>1, <1>2, <1>6 DEF PacedInv, TimerInOrder
        <3>2. At(vrUx'.val, vrUh) \in Nat
            BY <1>1, <1>3, <1>6, AtType DEF SeqNum
        <3> QED BY <1>3, <1>4, <3>1, <3>2, Sizes
    <2>2. At(vrUh.val, vrUh) = WindowSize
        BY <1>3, AtType DEF SeqNum
    <2> QED BY <1>2, <1>3, <1>4, <2>1, <2>2, Sizes
<1> QED BY <1>1, <1>5, <1>6 DEF Rearmed

==============================================================================
