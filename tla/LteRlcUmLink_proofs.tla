------------------------ MODULE LteRlcUmLink_proofs ------------------------
(***************************************************************************)
(* Proofs about LteRlcUmLink: its two halves are the transmitter and the   *)
(* receiver proved about in their own modules, and a sender that keeps     *)
(* pace gives the receiver the arrivals its own proofs suppose.            *)
(***************************************************************************)
EXTENDS LteRlcUmLink, SequenceTheorems, TLAPS

-----------------------------------------------------------------------------
(***************************************************************************)
(* Facts about sequence numbers that hold for every modulus and window.    *)
(* The distance of a number v above a base b is Wrap(v - b).               *)
(***************************************************************************)

\* The sizes as the later proofs use them.
LEMMA Sizes ==
    /\ WindowSize \in Nat /\ WindowSize >= 2
    /\ SnMod = 2 * WindowSize
    /\ SnMod <= 32768
BY SnAssumption

\* A number one modulus wide lies at exactly one distance above each base.
LEMMA Distance ==
    ASSUME NEW v \in SnValue, NEW b \in SnValue
    PROVE  /\ Wrap(v - b) \in 0 .. SnMod - 1
           /\ Wrap(b + Wrap(v - b)) = v
           /\ \A u \in SnValue : Wrap(u - b) = Wrap(v - b) => u = v
BY Sizes DEF Wrap, SnValue

-----------------------------------------------------------------------------
\* The two entities with what is proved of them.
TxP == INSTANCE LteRlcUmTransmitter_proofs
RxP == INSTANCE LteRlcUmReordering_proofs WITH ChannelType <- "STCH", Pdu <- UmPdus

-----------------------------------------------------------------------------
(* The operators of the link's instances Tx and Rx are those of TxP and RxP: *)
(* each has one definition, reached along two paths.                        *)

LEMMA SameNumbers ==
    /\ \A x : Rx!Wrap(x) = RxP!Wrap(x)
    /\ \A v, b : Rx!Sn(v, b) = RxP!Sn(v, b)
    /\ \A s, d : Rx!Plus(s, d) = RxP!Plus(s, d)
    /\ \A s, d : Rx!Minus(s, d) = RxP!Minus(s, d)
    /\ \A s, b : Rx!SetModulusBase(s, b) = RxP!SetModulusBase(s, b)
    /\ \A a, b : Rx!GreaterThan(a, b) = RxP!GreaterThan(a, b)
    /\ \A a, b : Rx!LessOrEqual(a, b) = RxP!LessOrEqual(a, b)
    /\ \A a, b : Rx!LessThan(a, b) = RxP!LessThan(a, b)
<1>1. \A x : Rx!Wrap(x) = RxP!Wrap(x)
    BY DEF Rx!Wrap, RxP!Wrap
<1>2. \A v, b : Rx!Sn(v, b) = RxP!Sn(v, b)
    BY DEF Rx!Sn, RxP!Sn
<1>3. \A s, d : Rx!Plus(s, d) = RxP!Plus(s, d)
    BY DEF Rx!Plus, RxP!Plus, Rx!Wrap, RxP!Wrap
<1>4. \A s, d : Rx!Minus(s, d) = RxP!Minus(s, d)
    BY DEF Rx!Minus, RxP!Minus, Rx!Wrap, RxP!Wrap
<1>5. \A s, b : Rx!SetModulusBase(s, b) = RxP!SetModulusBase(s, b)
    BY DEF Rx!SetModulusBase, RxP!SetModulusBase
<1>6. \A v, b : Rx!Rank(v, b) = RxP!Rank(v, b)
    BY DEF Rx!Rank, RxP!Rank, Rx!UInt16, RxP!UInt16
<1>7. \A a, b : Rx!GreaterThan(a, b) = RxP!GreaterThan(a, b)
    BY <1>6 DEF Rx!GreaterThan, RxP!GreaterThan
<1>8. \A a, b : Rx!LessOrEqual(a, b) = RxP!LessOrEqual(a, b)
    BY <1>7 DEF Rx!LessOrEqual, RxP!LessOrEqual
<1>9. \A a, b : Rx!LessThan(a, b) = RxP!LessThan(a, b)
    BY <1>7 DEF Rx!LessThan, RxP!LessThan
<1> QED BY <1>1, <1>2, <1>3, <1>4, <1>5, <1>7, <1>8, <1>9

LEMMA SameWindow ==
    /\ \A uh : Rx!WindowBase(uh) = RxP!WindowBase(uh)
    /\ \A uh, v : Rx!IsInsideReorderingWindow(uh, v) = RxP!IsInsideReorderingWindow(uh, v)
    /\ \A ur, uh, sn : Rx!IsDiscarded(ur, uh, sn) = RxP!IsDiscarded(ur, uh, sn)
BY Zenon, SameNumbers DEF Rx!WindowBase, RxP!WindowBase, Rx!IsInsideReorderingWindow,
       RxP!IsInsideReorderingWindow, Rx!IsDiscarded, RxP!IsDiscarded

LEMMA SameNext == \A buf, v : Rx!NextNotReceived(buf, v) = RxP!NextNotReceived(buf, v)
BY Zenon DEF Rx!NextNotReceived, RxP!NextNotReceived

LEMMA SameBuf ==
    /\ \A p : Rx!Placed(p) = RxP!Placed(p)
    /\ \A buf, S : Rx!Without(buf, S) = RxP!Without(buf, S)
    /\ \A buf, low, high : Rx!SnInterval(buf, low, high) = RxP!SnInterval(buf, low, high)
    /\ \A buf, uh : Rx!OutsideWindow(buf, uh) = RxP!OutsideWindow(buf, uh)
BY SameNumbers, SameWindow DEF Rx!Placed, RxP!Placed, Rx!Without, RxP!Without,
       Rx!SnInterval, RxP!SnInterval, Rx!OutsideWindow, RxP!OutsideWindow

LEMMA SameSteps ==
    /\ \A uh, sn : Rx!SlidWindow(uh, sn) = RxP!SlidWindow(uh, sn)
    /\ \A uh, sn, buf : Rx!LeftBehind(uh, sn, buf) = RxP!LeftBehind(uh, sn, buf)
    /\ \A ur, uh, sn : Rx!Pulled(ur, uh, sn) = RxP!Pulled(ur, uh, sn)
    /\ \A ur, buf : Rx!Advanced(ur, buf) = RxP!Advanced(ur, buf)
    /\ \A ur, ux, uh : Rx!TimerStops(ur, ux, uh) = RxP!TimerStops(ur, ux, uh)
    /\ \A ur, uh : Rx!StartsTimer(ur, uh) = RxP!StartsTimer(ur, uh)
    /\ \A b : Rx!RebasedVrUx(b) = RxP!RebasedVrUx(b)
<1>1. \A uh, sn : Rx!SlidWindow(uh, sn) = RxP!SlidWindow(uh, sn)
    BY SameNumbers, SameWindow DEF Rx!SlidWindow, RxP!SlidWindow
<1>2. \A uh, sn, buf : Rx!LeftBehind(uh, sn, buf) = RxP!LeftBehind(uh, sn, buf)
    BY <1>1, SameWindow, SameBuf DEF Rx!LeftBehind, RxP!LeftBehind
<1>3. \A ur, uh, sn : Rx!Pulled(ur, uh, sn) = RxP!Pulled(ur, uh, sn)
    BY <1>1, SameNumbers, SameWindow DEF Rx!Pulled, RxP!Pulled
<1>4. \A ur, buf : Rx!Advanced(ur, buf) = RxP!Advanced(ur, buf)
    BY SameNumbers, SameNext DEF Rx!Advanced, RxP!Advanced
<1>5. \A ur, ux, uh : Rx!TimerStops(ur, ux, uh) = RxP!TimerStops(ur, ux, uh)
    BY SameNumbers, SameWindow DEF Rx!TimerStops, RxP!TimerStops
<1>6. \A ur, uh : Rx!StartsTimer(ur, uh) = RxP!StartsTimer(ur, uh)
    BY SameNumbers DEF Rx!StartsTimer, RxP!StartsTimer
<1>7. \A b : Rx!RebasedVrUx(b) = RxP!RebasedVrUx(b)
    BY SameNumbers DEF Rx!RebasedVrUx, RxP!RebasedVrUx
<1> QED BY <1>1, <1>2, <1>3, <1>4, <1>5, <1>6, <1>7

LEMMA SameOrder == \A buf, S, v : Rx!InOrder(buf, S, v) = RxP!InOrder(buf, S, v)
BY Zenon DEF Rx!InOrder, RxP!InOrder, Rx!Wrap, RxP!Wrap

LEMMA SamePlacePdu ==
    ASSUME NEW ur, NEW uh, NEW sn, NEW p
    PROVE  Rx!PlacePdu(ur, uh, sn, p) <=> RxP!PlacePdu(ur, uh, sn, p)
<1> DEFINE buf  == Rx!Placed(p)
           uh1  == Rx!SlidWindow(uh, sn)
           left == Rx!LeftBehind(uh, sn, buf)
           ur1  == Rx!Pulled(ur, uh, sn)
           buf1 == Rx!Without(buf, left)
           ur2  == Rx!Advanced(ur1, buf1)
           taken == Rx!SnInterval(buf1, ur1, ur2)
           b    == Rx!WindowBase(uh1)
           ur3  == Rx!SetModulusBase(ur2, b)
           ux3  == Rx!RebasedVrUx(b)
           uh3  == Rx!SetModulusBase(uh1, b)
           runs == reorderingTimer /\ ~Rx!TimerStops(ur3, ux3, uh3)
           starts == ~runs /\ Rx!StartsTimer(ur3, uh3)
           bufP == RxP!Placed(p)
           uh1P == RxP!SlidWindow(uh, sn)
           leftP == RxP!LeftBehind(uh, sn, bufP)
           ur1P == RxP!Pulled(ur, uh, sn)
           buf1P == RxP!Without(bufP, leftP)
           ur2P == RxP!Advanced(ur1P, buf1P)
           takenP == RxP!SnInterval(buf1P, ur1P, ur2P)
           bP == RxP!WindowBase(uh1P)
           ur3P == RxP!SetModulusBase(ur2P, bP)
           ux3P == RxP!RebasedVrUx(bP)
           uh3P == RxP!SetModulusBase(uh1P, bP)
           runsP == reorderingTimer /\ ~RxP!TimerStops(ur3P, ux3P, uh3P)
           startsP == ~runsP /\ RxP!StartsTimer(ur3P, uh3P)
<1>1. Rx!PlacePdu(ur, uh, sn, p) <=>
        /\ vrUr' = ur3
        /\ vrUh' = uh3
        /\ vrUx' = IF starts THEN uh3 ELSE ux3
        /\ rxBuffer' = Rx!Without(buf1, taken)
        /\ reorderingTimer' = (runs \/ starts)
        /\ released' = Rx!InOrder(buf, left, 0) \o Rx!InOrder(buf1, taken, ur1.val)
    BY Zenon DEF Rx!PlacePdu
<1>2. RxP!PlacePdu(ur, uh, sn, p) <=>
        /\ vrUr' = ur3P
        /\ vrUh' = uh3P
        /\ vrUx' = IF startsP THEN uh3P ELSE ux3P
        /\ rxBuffer' = RxP!Without(buf1P, takenP)
        /\ reorderingTimer' = (runsP \/ startsP)
        /\ released' = RxP!InOrder(bufP, leftP, 0) \o RxP!InOrder(buf1P, takenP, ur1P.val)
    BY Zenon DEF RxP!PlacePdu
<1>3. buf = bufP /\ uh1 = uh1P /\ ur1 = ur1P
    BY SameBuf, SameSteps
<1> HIDE DEF buf, bufP, uh1, uh1P, ur1, ur1P
<1>4. left = leftP /\ b = bP
    BY <1>3, SameSteps, SameWindow
<1> HIDE DEF left, leftP, b, bP
<1>5. buf1 = buf1P /\ ux3 = ux3P /\ uh3 = uh3P
    BY <1>3, <1>4, SameBuf, SameNumbers, SameSteps
<1> HIDE DEF buf1, buf1P, ux3, ux3P, uh3, uh3P
<1>6. ur2 = ur2P
    BY <1>3, <1>5, SameSteps
<1> HIDE DEF ur2, ur2P
<1>7. taken = takenP /\ ur3 = ur3P
    BY <1>3, <1>4, <1>5, <1>6, SameBuf, SameNumbers
<1> HIDE DEF taken, takenP, ur3, ur3P
<1>8. runs <=> runsP
    BY <1>5, <1>7, SameSteps
<1> HIDE DEF runs, runsP
<1>9. starts <=> startsP
    BY <1>5, <1>7, <1>8, SameSteps
<1> HIDE DEF starts, startsP
<1>10. /\ Rx!InOrder(buf, left, 0) = RxP!InOrder(bufP, leftP, 0)
       /\ Rx!InOrder(buf1, taken, ur1.val) = RxP!InOrder(buf1P, takenP, ur1P.val)
       /\ Rx!Without(buf1, taken) = RxP!Without(buf1P, takenP)
    BY <1>3, <1>4, <1>5, <1>7, SameOrder, SameBuf
<1> QED BY <1>1, <1>2, <1>3, <1>5, <1>7, <1>8, <1>9, <1>10

LEMMA SameReceive ==
    ASSUME NEW p PROVE Rx!ReceiveNrSlRlcPdu(p) <=> RxP!Receive(p)
<1>1. ASSUME NEW ur0, NEW uh0 PROVE Rx!HandlePdu(ur0, uh0, p) <=> RxP!HandlePdu(ur0, uh0, p)
    BY SameNumbers, SameWindow, SamePlacePdu DEF Rx!HandlePdu, RxP!HandlePdu
<1>2. Rx!Sn(p.sn, 0) = RxP!Sn(p.sn, 0)
    BY SameNumbers
<1>3. RxP!Receive(p) <=> RxP!ReceiveNrSlRlcPdu(p)
    BY DEF RxP!Receive
<1> QED BY <1>1, <1>2, <1>3 DEF Rx!ReceiveNrSlRlcPdu, RxP!ReceiveNrSlRlcPdu

LEMMA SameExpiry == Rx!ExpireReorderingTimer <=> RxP!ExpireReorderingTimer
<1>1. \A ux : Rx!FirstNotReceived(ux) = RxP!FirstNotReceived(ux)
    BY SameNumbers DEF Rx!FirstNotReceived, RxP!FirstNotReceived
<1>2. Rx!SnValue = RxP!SnValue
    BY DEF Rx!SnValue, RxP!SnValue
<1> DEFINE ur == Rx!FirstNotReceived(vrUx)
           urP == RxP!FirstNotReceived(vrUx)
           taken == Rx!SnInterval(rxBuffer, vrUr, ur)
           takenP == RxP!SnInterval(rxBuffer, vrUr, urP)
           starts == Rx!StartsTimer(ur, vrUh)
           startsP == RxP!StartsTimer(urP, vrUh)
<1>3. Rx!ExpireReorderingTimer <=>
        /\ reorderingTimer
        /\ DOMAIN rxBuffer # Rx!SnValue
        /\ vrUr' = ur
        /\ rxBuffer' = Rx!Without(rxBuffer, taken)
        /\ released' = Rx!InOrder(rxBuffer, taken, vrUr.val)
        /\ reorderingTimer' = starts
        /\ vrUx' = IF starts THEN vrUh ELSE vrUx
        /\ UNCHANGED <<vrUh, firstPduRxed>>
    BY Zenon DEF Rx!ExpireReorderingTimer
<1>4. RxP!ExpireReorderingTimer <=>
        /\ reorderingTimer
        /\ DOMAIN rxBuffer # RxP!SnValue
        /\ vrUr' = urP
        /\ rxBuffer' = RxP!Without(rxBuffer, takenP)
        /\ released' = RxP!InOrder(rxBuffer, takenP, vrUr.val)
        /\ reorderingTimer' = startsP
        /\ vrUx' = IF startsP THEN vrUh ELSE vrUx
        /\ UNCHANGED <<vrUh, firstPduRxed>>
    BY Zenon DEF RxP!ExpireReorderingTimer
<1>5. ur = urP
    BY <1>1
<1> HIDE DEF ur, urP
<1>6. taken = takenP /\ starts = startsP
    BY <1>5, SameBuf, SameSteps
<1> HIDE DEF taken, takenP, starts, startsP
<1>7. /\ Rx!Without(rxBuffer, taken) = RxP!Without(rxBuffer, takenP)
      /\ Rx!InOrder(rxBuffer, taken, vrUr.val) = RxP!InOrder(rxBuffer, takenP, vrUr.val)
    BY <1>6, SameBuf, SameOrder
<1> QED BY <1>2, <1>3, <1>4, <1>5, <1>6, <1>7

LEMMA SamePaced ==
    /\ \A p : Rx!Paced(p) <=> RxP!Paced(p)
    /\ \A v : Rx!Offset(v) = RxP!At(v, vrUh)
    /\ Rx!Init <=> RxP!Init
<1>1. \A p : Rx!Paced(p) <=> RxP!Paced(p)
    BY SameNumbers, SameWindow DEF Rx!Paced, RxP!Paced
<1>2. \A v : Rx!Offset(v) = RxP!At(v, vrUh)
    BY SameNumbers, SameWindow DEF Rx!Offset, RxP!At
<1>3. Rx!Init <=> RxP!Init
    BY SameNumbers DEF Rx!Init, RxP!Init
<1> QED BY <1>1, <1>2, <1>3

LEMMA SameTx ==
    /\ \A b, k : Tx!Cut(b, k) = TxP!Cut(b, k)
    /\ \A b, k : Tx!EndsAt(b, k) = TxP!EndsAt(b, k)
    /\ \A p, c : Tx!GivenBack(p, c) = TxP!GivenBack(p, c)
    /\ \A r : Tx!SizeBack(r) = TxP!SizeBack(r)
    /\ \A b, k : Tx!Taken(b, k) = TxP!Taken(b, k)
    /\ \A s, f : Tx!BuildPdu(s, f) = TxP!BuildPdu(s, f)
    /\ \A x : Tx!Wrap(x) = TxP!Wrap(x)
<1>1. \A p : Tx!Size(p) = TxP!Size(p)
    BY DEF Tx!Size, TxP!Size
<1>2. \A b, k : Tx!SpaceLeft(b, k) = TxP!SpaceLeft(b, k)
    BY Zenon DEF Tx!SpaceLeft, TxP!SpaceLeft, Tx!LiBytes, TxP!LiBytes
<1>3. \A b, k : Tx!TakesPart(b, k) = TxP!TakesPart(b, k)
    BY <1>1, <1>2 DEF Tx!TakesPart, TxP!TakesPart
<1>4. \A b, k : Tx!TakesMore(b, k) = TxP!TakesMore(b, k)
    BY <1>1, <1>2, <1>3 DEF Tx!TakesMore, TxP!TakesMore, Tx!TakesLast, TxP!TakesLast
<1>5. \A b, k : Tx!EndsAt(b, k) = TxP!EndsAt(b, k)
    BY <1>4 DEF Tx!EndsAt, TxP!EndsAt
<1>6. \A b, k : Tx!Cut(b, k) = TxP!Cut(b, k)
    BY <1>1, <1>2 DEF Tx!Cut, TxP!Cut
<1>7. \A p, c : Tx!GivenBack(p, c) = TxP!GivenBack(p, c)
    BY Zenon DEF Tx!GivenBack, TxP!GivenBack
<1>8. \A p, c : Tx!NewTag(p, c) = TxP!NewTag(p, c)
    BY Zenon DEF Tx!NewTag, TxP!NewTag
<1>9. \A b, k : Tx!Taken(b, k) = TxP!Taken(b, k)
    BY <1>6, <1>8 DEF Tx!Taken, TxP!Taken
<1>10. \A s, f : Tx!BuildPdu(s, f) = TxP!BuildPdu(s, f)
    BY Zenon DEF Tx!BuildPdu, TxP!BuildPdu
<1>11. \A x : Tx!Wrap(x) = TxP!Wrap(x)
    BY DEF Tx!Wrap, TxP!Wrap
<1>12. \A r : Tx!SizeBack(r) = TxP!SizeBack(r)
    BY <1>1 DEF Tx!SizeBack, TxP!SizeBack
<1> QED BY <1>5, <1>6, <1>7, <1>9, <1>10, <1>11, <1>12

LEMMA SameOpportunity ==
    ASSUME NEW bytes
    PROVE  Tx!DoNotifyNrSlTxOpportunity(bytes) <=> TxP!DoNotifyNrSlTxOpportunity(bytes)
BY SameTx DEF Tx!DoNotifyNrSlTxOpportunity, TxP!DoNotifyNrSlTxOpportunity

LEMMA SameSubmit ==
    ASSUME NEW size
    PROVE  Tx!DoTransmitNrSlPdcpPdu(size) <=> TxP!DoTransmitNrSlPdcpPdu(size)
BY Zenon DEF Tx!DoTransmitNrSlPdcpPdu, TxP!DoTransmitNrSlPdcpPdu, Tx!QueueSize,
       TxP!QueueSize, Tx!StreamEnd, TxP!StreamEnd

LEMMA SameReport == /\ Tx!ExpireNrSlRbsTimer <=> TxP!ExpireNrSlRbsTimer
                    /\ Tx!Init <=> TxP!Init
BY Zenon DEF Tx!ExpireNrSlRbsTimer, TxP!ExpireNrSlRbsTimer, Tx!QueueSize, TxP!QueueSize,
       Tx!Init, TxP!Init, Tx!NoPdu, TxP!NoPdu

-----------------------------------------------------------------------------
(* The inductive invariant.                                                *)

At(v) == RxP!At(v, vrUh)

\* How many numbers the sender has used since it came to v.
Behind(v) == Wrap(sequenceNumber - v)

\* The channel holds PDUs of the transmitter.
Carried == /\ channel \in Seq([pdu : UmPdus, arrived : BOOLEAN])
           /\ Len(channel) <= env.lag

\* They are the last ones sent, in the order of their numbers.
Numbered == \A i \in 1 .. Len(channel) :
                channel[i].pdu.sn = Wrap(sequenceNumber - (Len(channel) - i + 1))

\* What arrived since the timer was started is no older than the channel allows
\* and the PDUs sent since.  What was there before had arrived while the timer
\* ran the last time.
KeptYoung ==
    reorderingTimer =>
        /\ Behind(vrUh.val) < env.lag + env.reach + sinceArmed
        /\ vrUx.val # vrUh.val => Behind(vrUh.val) < env.lag + sinceArmed
        /\ \A s \in DOMAIN rxBuffer :
               /\ Behind(s) <= env.lag + env.reach + sinceArmed
               /\ At(vrUx.val) <= At(s) => Behind(s) <= env.lag + sinceArmed

LinkInv == /\ TxP!TxInv
           /\ env \in Environments
           /\ Carried
           /\ sinceArmed \in 0 .. env.reach
           /\ KeepsPace => Numbered /\ RxP!PacedInv /\ KeptYoung

\* What the assumptions say of the constants of the two entities.
LEMMA Parts ==
    /\ SduSizes \subseteq Nat \ {0} /\ Grants \subseteq Nat
    /\ MaxTxBufferSize \in Nat /\ LiMax \in Nat \ {0} /\ MaxSdus \in Nat
    /\ StartSns \subseteq SnValue
    /\ "STCH" \in {"STCH", "DTCH"}
    /\ \A p \in UmPdus : p.sn \in SnValue
BY LinkAssumption DEF SduSizes, Grants, UmPdus

\* What the environment of a state is like.
LEMMA EnvType ==
    ASSUME LinkInv
    PROVE  /\ env.lag \in Nat /\ env.lag > 0 /\ env.reach \in Nat /\ env.reach > 0
           /\ sinceArmed \in Nat /\ sinceArmed <= env.reach
           /\ env.sizes \subseteq SduSizes /\ env.grants \subseteq Grants
           /\ sequenceNumber \in SnValue
           /\ KeepsPace => env.lag + 2 * env.reach <= WindowSize
<1>1. env \in Environments /\ sinceArmed \in 0 .. env.reach
    BY DEF LinkInv
<1>2. env.lag \in Nat \ {0} /\ env.reach \in Nat \ {0}
    BY <1>1, LinkAssumption
<1>3. env.sizes \subseteq SduSizes /\ env.grants \subseteq Grants
    BY <1>1 DEF SduSizes, Grants
<1>4. sequenceNumber \in SnValue
    BY DEF LinkInv, TxP!TxInv, TxP!TypeOK, TxP!SnValue, SnValue
<1> QED BY <1>1, <1>2, <1>3, <1>4 DEF KeepsPace

\* The receiver's numbers, and where they lie in the window below VR(UH).
LEMMA Received ==
    ASSUME RxP!PacedInv
    PROVE  /\ vrUh \in RxP!SeqNum /\ vrUh.val \in SnValue /\ vrUx.val \in SnValue
           /\ reorderingTimer \in BOOLEAN
           /\ \A s \in DOMAIN rxBuffer : s \in SnValue /\ At(s) \in 0 .. WindowSize - 1
           /\ DOMAIN rxBuffer # {} => reorderingTimer
           /\ At(vrUh.val) = WindowSize
           /\ reorderingTimer => 0 < At(vrUx.val) /\ At(vrUx.val) <= WindowSize
<1>1. /\ vrUr \in RxP!SeqNum /\ vrUx \in RxP!SeqNum /\ vrUh \in RxP!SeqNum
      /\ DOMAIN rxBuffer \subseteq RxP!SnValue /\ reorderingTimer \in BOOLEAN
    BY DEF RxP!PacedInv, RxP!TypeOK
<1>2. /\ vrUr.val \in RxP!SnValue /\ vrUx.val \in RxP!SnValue /\ vrUh.val \in RxP!SnValue
    BY <1>1 DEF RxP!SeqNum
<1>3. RxP!SnValue = SnValue
    BY DEF RxP!SnValue, SnValue
<1>4. \A v \in SnValue : At(v) \in 0 .. SnMod - 1
    <2>1. \A v \in RxP!SnValue : RxP!At(v, vrUh) \in 0 .. SnMod - 1
        BY <1>1, RxP!AtType, Parts, SnAssumption DEF RxP!SnValue, SnValue
    <2> QED BY <1>3, <2>1 DEF At
<1>5. At(vrUh.val) = WindowSize
    BY <1>1, <1>2, RxP!AtType, Parts, SnAssumption DEF At, RxP!SnValue, SnValue
<1>6. \A s \in DOMAIN rxBuffer : At(s) < WindowSize
    BY DEF At, RxP!PacedInv, RxP!Above
<1>7. \A s \in DOMAIN rxBuffer : At(s) \in 0 .. WindowSize - 1
    BY <1>1, <1>3, <1>4, <1>6, Sizes
<1>8. DOMAIN rxBuffer # {} => reorderingTimer
    BY RxP!KeptHasTimer, Parts, SnAssumption DEF RxP!SnValue, SnValue
<1>9. ASSUME reorderingTimer PROVE 0 < At(vrUx.val) /\ At(vrUx.val) <= WindowSize
    <2>1. At(vrUr.val) < At(vrUx.val) /\ At(vrUx.val) <= WindowSize
        BY <1>9 DEF At, RxP!PacedInv, RxP!TimerInOrder
    <2> QED BY <1>2, <1>3, <1>4, <2>1, Sizes
<1> QED BY <1>1, <1>2, <1>3, <1>5, <1>7, <1>8, <1>9

\* What of it is used after a step.
KeptInWindow ==
    /\ vrUh \in RxP!SeqNum /\ At(vrUh.val) = WindowSize
    /\ \A s \in DOMAIN rxBuffer : At(s) \in 0 .. WindowSize - 1

LEMMA ReceivedNext == RxP!PacedInv' => KeptInWindow'
<1>1. RxP!PacedInv => KeptInWindow
    BY Received DEF KeptInWindow
<1> QED BY <1>1, PTL

\* A buffered number is behind by its distance from VR(UH) and what was sent
\* since, when that is less than a window.
LEMMA Age ==
    ASSUME RxP!PacedInv, sequenceNumber \in SnValue, NEW s \in DOMAIN rxBuffer,
           Behind(vrUh.val) < WindowSize
    PROVE  Behind(s) = Behind(vrUh.val) + WindowSize - At(s)
<1>1. vrUh.val \in SnValue /\ s \in SnValue /\ At(s) \in 0 .. WindowSize - 1
    BY Received
<1> QED BY <1>1, Sizes DEF Behind, At, Wrap, SnValue, RxP!At, RxP!WindowBase, RxP!Wrap

\* What is on the way is a PDU of the transmitter.
LEMMA ChannelPdu ==
    ASSUME LinkInv, NEW i \in DOMAIN channel
    PROVE  /\ channel[i].pdu \in UmPdus /\ i \in 1 .. Len(channel)
           /\ Len(channel) \in Nat /\ Len(channel) <= env.lag
<1>1. /\ channel \in Seq([pdu : UmPdus, arrived : BOOLEAN])
      /\ Len(channel) <= env.lag
    BY DEF LinkInv, Carried
<1>2. i \in 1 .. Len(channel) /\ Len(channel) \in Nat
    BY <1>1
<1>3. channel[i] \in [pdu : UmPdus, arrived : BOOLEAN]
    BY <1>1, <1>2, ElementOfSeq
<1> QED BY <1>1, <1>2, <1>3

\* The PDU of a channel place is as old as its place says.
LEMMA OnTheWay ==
    ASSUME LinkInv, KeepsPace, NEW i \in DOMAIN channel
    PROVE  /\ channel[i].pdu \in UmPdus /\ channel[i].pdu.sn \in SnValue
           /\ Behind(channel[i].pdu.sn) \in 1 .. env.lag
<1>1. /\ channel[i].pdu \in UmPdus /\ i \in 1 .. Len(channel)
      /\ Len(channel) \in Nat /\ Len(channel) <= env.lag
    BY ChannelPdu
<1>2. channel[i].pdu.sn = Wrap(sequenceNumber - (Len(channel) - i + 1))
    BY <1>1 DEF LinkInv, Numbered
<1>3. channel[i].pdu.sn \in SnValue
    BY <1>1, Parts
<1>4. /\ env.lag \in Nat /\ env.lag < WindowSize /\ sequenceNumber \in SnValue
      /\ Len(channel) - i + 1 \in 1 .. env.lag
    BY <1>1, EnvType, Sizes
<1>5. Behind(channel[i].pdu.sn) = Len(channel) - i + 1
    BY <1>2, <1>4, Sizes DEF Behind, Wrap, SnValue
<1> QED BY <1>1, <1>3, <1>4, <1>5

\* While t-Reordering runs VR(UH) is less than a window behind.
LEMMA WindowYoung ==
    ASSUME LinkInv, KeepsPace, reorderingTimer
    PROVE  /\ Behind(vrUh.val) \in 0 .. WindowSize - 1
           /\ \A s \in DOMAIN rxBuffer : Behind(s) \in 0 .. WindowSize
<1>1. RxP!PacedInv /\ KeptYoung
    BY DEF LinkInv
<1>2. /\ sequenceNumber \in SnValue /\ vrUh.val \in SnValue
      /\ \A s \in DOMAIN rxBuffer : s \in SnValue
    BY <1>1, EnvType, Received
<1>3. \A v \in SnValue : Behind(v) \in 0 .. SnMod - 1
    BY <1>2, Distance DEF Behind
<1>4. /\ env.lag \in Nat /\ env.reach \in Nat /\ sinceArmed \in Nat
      /\ sinceArmed <= env.reach /\ env.lag + 2 * env.reach <= WindowSize
    BY EnvType
<1>5. Behind(vrUh.val) < env.lag + env.reach + sinceArmed
    BY <1>1 DEF KeptYoung
<1>6. Behind(vrUh.val) \in 0 .. WindowSize - 1
    BY <1>2, <1>3, <1>4, <1>5, Sizes
<1>7. ASSUME NEW s \in DOMAIN rxBuffer PROVE Behind(s) \in 0 .. WindowSize
    <2>1. Behind(s) <= env.lag + env.reach + sinceArmed
        BY <1>1 DEF KeptYoung
    <2>2. Behind(s) \in 0 .. SnMod - 1
        BY <1>2, <1>3
    <2> QED BY <1>4, <2>1, <2>2, Sizes
<1> QED BY <1>6, <1>7

\* With ages bounded by the window, whatever may arrive is inside the window, or
\* the window that includes it includes what is buffered.
LEMMA YoungPaced ==
    ASSUME LinkInv, KeepsPace, NEW i \in DOMAIN channel
    PROVE  RxP!Paced(channel[i].pdu)
<1> DEFINE p == channel[i].pdu.sn
           h == RxP!Sn(RxP!Wrap(p + 1), 0)
<1>1. p \in SnValue /\ Behind(p) \in 1 .. env.lag
    BY OnTheWay
<1>2. RxP!PacedInv /\ sequenceNumber \in SnValue
    BY EnvType DEF LinkInv
<1>3. /\ vrUh \in RxP!SeqNum /\ vrUh.val \in SnValue
      /\ DOMAIN rxBuffer # {} => reorderingTimer
    BY <1>2, Received
<1>4. env.lag \in Nat /\ env.lag < WindowSize
    BY EnvType, Sizes
<1>5. ASSUME NEW s \in DOMAIN rxBuffer, ~RxP!IsInsideReorderingWindow(vrUh, p)
      PROVE  RxP!IsInsideReorderingWindow(h, s)
    <2>1. /\ Behind(vrUh.val) \in 0 .. WindowSize - 1 /\ Behind(s) \in 0 .. WindowSize
          /\ s \in SnValue /\ At(s) \in 0 .. WindowSize - 1
        BY <1>2, <1>3, <1>5, WindowYoung, Received
    <2>2. Behind(s) = Behind(vrUh.val) + WindowSize - At(s)
        <3>1. Behind(vrUh.val) < WindowSize
            BY <2>1, Sizes
        <3> QED BY <1>2, <1>5, <3>1, Age
    <2>3. ~(At(p) < WindowSize)
        BY <1>1, <1>3, <1>5, RxP!Inside, Parts, SnAssumption
        DEF At, RxP!At, RxP!SnValue, SnValue
    <2>4. Behind(p) <= Behind(vrUh.val)
        BY <1>1, <1>2, <1>3, <1>4, <2>1, <2>3, Sizes
        DEF Behind, At, Wrap, SnValue, RxP!At, RxP!WindowBase, RxP!Wrap
    <2>5. /\ h \in RxP!SeqNum /\ h.val = Wrap(p + 1)
        BY <1>1, Sizes DEF RxP!Sn, RxP!SeqNum, RxP!SnValue, RxP!Wrap, Wrap, SnValue
    <2>6. Behind(p) < Behind(s)
        <3> HIDE DEF p
        <3> QED BY <1>1, <1>4, <2>1, <2>2, <2>4, Sizes
    <2>7. RxP!Wrap(s - RxP!WindowBase(h)) < WindowSize
        <3>1. RxP!WindowBase(h) = Wrap(Wrap(p + 1) - WindowSize)
            BY <2>5 DEF RxP!WindowBase, RxP!Wrap, Wrap
        <3>2. Wrap(s - Wrap(Wrap(p + 1) - WindowSize)) < WindowSize
            BY <1>1, <1>2, <1>4, <2>1, <2>6, Sizes DEF Behind, Wrap, SnValue
        <3> QED BY <3>1, <3>2 DEF RxP!Wrap, Wrap
    <2> QED BY <2>1, <2>5, <2>7, RxP!Inside, Parts, SnAssumption DEF RxP!SnValue, SnValue
<1> QED BY <1>5 DEF RxP!Paced

-----------------------------------------------------------------------------
(* The steps.                                                              *)

\* The sender's part of the invariant and the environment do not depend on the
\* receiver, nor the receiver's on the sender.
LEMMA SenderUnchanged ==
    ASSUME TxP!TxInv, UNCHANGED txVars
    PROVE  TxP!TxInv'
BY DEF txVars, TxP!TxInv, TxP!TypeOK, TxP!Accounting, TxP!SegmentsTrue, TxP!TagsTrue,
       TxP!FramingTrue, TxP!BufferedInOrder, TxP!BytesInOrder, TxP!PduOfAccepted,
       TxP!StreamEnd, TxP!StreamSent

LEMMA ReceiverUnchanged ==
    ASSUME RxP!PacedInv, UNCHANGED rxVars
    PROVE  RxP!PacedInv'
BY DEF rxVars, RxP!PacedInv, RxP!TypeOK, RxP!BasesMatch, RxP!Above, RxP!TimerInOrder,
       RxP!At, RxP!WindowBase

\* Nothing is on the way yet and nothing is kept.
LEMMA LinkInit == Init => LinkInv
<1> SUFFICES ASSUME Init PROVE LinkInv
    OBVIOUS
<1>1. TxP!TxInv
    <2>1. TxP!Init
        BY SameReport DEF Init
    <2> QED BY <2>1, TxP!InitTxInv, Parts, SnAssumption DEF TxP!SnValue, SnValue
<1>2. env \in Environments /\ channel = <<>> /\ sinceArmed = 0
    BY DEF Init
<1>3. env.lag \in Nat \ {0} /\ env.reach \in Nat \ {0}
    BY <1>2, LinkAssumption
<1>4. Carried /\ Numbered
    BY <1>2, <1>3, EmptySeq DEF Carried, Numbered
<1>5. RxP!PacedInv
    <2>1. RxP!Init
        BY SamePaced DEF Init
    <2> QED BY <2>1, RxP!PacedInit, Parts, SnAssumption DEF RxP!SnValue, SnValue
<1>6. ~reorderingTimer
    BY DEF Init, Rx!Init
<1> QED BY <1>1, <1>2, <1>3, <1>4, <1>5, <1>6 DEF LinkInv, KeptYoung

\* KeptYoung after a step of the receiver that leaves the timer running.
YoungNext ==
    /\ Behind(vrUh'.val) < env.lag + env.reach + sinceArmed'
    /\ vrUx'.val # vrUh'.val => Behind(vrUh'.val) < env.lag + sinceArmed'
    /\ \A s \in DOMAIN rxBuffer' :
           /\ Behind(s) <= env.lag + env.reach + sinceArmed'
           /\ RxP!At(vrUx'.val, vrUh') <= RxP!At(s, vrUh') => Behind(s) <= env.lag + sinceArmed'

LEMMA YoungStep ==
    ASSUME YoungNext, UNCHANGED <<sequenceNumber, env>>
    PROVE  KeptYoung'
BY DEF YoungNext, KeptYoung, Behind, At

\* The number after one that is behind is one less behind.
LEMMA NextIsYounger ==
    ASSUME sequenceNumber \in SnValue, NEW v \in SnValue, Behind(v) >= 1
    PROVE  Behind(Wrap(v + 1)) = Behind(v) - 1 /\ Wrap(v + 1) \in SnValue
BY Sizes DEF Behind, Wrap, SnValue

\* What stays in the buffer when the timer is started anew waited for a number
\* at or above the old VR(UX).
LEMMA RearmedYoung ==
    ASSUME LinkInv, KeepsPace, RxP!PacedInv', RxP!Rearmed, sinceArmed' = 0,
           NEW p \in SnValue, Behind(p) <= env.lag,
           DOMAIN rxBuffer' \subseteq DOMAIN rxBuffer \cup {p},
           Behind(vrUh'.val) < env.lag + env.reach
    PROVE  YoungNext
<1>1. RxP!PacedInv /\ KeptYoung
    BY DEF LinkInv
<1>2. /\ env.lag \in Nat /\ env.reach \in Nat /\ sinceArmed \in Nat
      /\ sinceArmed <= env.reach
    BY EnvType
<1>3. vrUx'.val = vrUh'.val
    BY DEF RxP!Rearmed
<1>4. ASSUME NEW s \in DOMAIN rxBuffer'
      PROVE  /\ Behind(s) <= env.lag + env.reach
             /\ ~(RxP!At(vrUx'.val, vrUh') <= RxP!At(s, vrUh'))
    <2>1. RxP!At(vrUh'.val, vrUh') = WindowSize /\ RxP!At(s, vrUh') < WindowSize
          /\ RxP!At(s, vrUh') \in Nat
        <3>1. KeptInWindow'
            BY ReceivedNext
        <3>2. RxP!At(vrUh'.val, vrUh') = WindowSize
            BY <3>1 DEF KeptInWindow, At
        <3>3. RxP!At(s, vrUh') \in 0 .. WindowSize - 1
            BY <3>1 DEF KeptInWindow, At
        <3> QED BY <3>2, <3>3, Sizes
    <2>2. ~(RxP!At(vrUx'.val, vrUh') <= RxP!At(s, vrUh'))
        BY <1>3, <2>1, Sizes
    <2>3. CASE s = p
        <3>1. Behind(p) \in Int
            BY EnvType, Sizes DEF Behind, Wrap, SnValue
        <3> QED BY <1>2, <2>2, <2>3, <3>1
    <2>4. CASE s # p
        <3>1. s \in DOMAIN rxBuffer /\ reorderingTimer
            BY <1>1, <2>4, Received
        <3>2. At(vrUx.val) <= At(s)
            BY <3>1 DEF RxP!Rearmed, At
        <3>3. Behind(s) <= env.lag + sinceArmed /\ Behind(s) \in Int
            BY <1>1, <3>1, <3>2, WindowYoung, Sizes DEF KeptYoung
        <3> QED BY <1>2, <2>2, <3>3
    <2> QED BY <2>3, <2>4
<1> QED BY <1>2, <1>3, <1>4 DEF YoungNext

\* A timer that runs on goes on waiting for the same number.
LEMMA RunsOnYoung ==
    ASSUME LinkInv, KeepsPace, RxP!PacedInv', RxP!RunsOn, sinceArmed' = sinceArmed,
           NEW p \in SnValue, Behind(p) \in 1 .. env.lag,
           DOMAIN rxBuffer' \subseteq DOMAIN rxBuffer \cup {p},
           vrUh'.val = IF RxP!IsInsideReorderingWindow(vrUh, p) THEN vrUh.val
                       ELSE Wrap(p + 1)
    PROVE  YoungNext
<1>1. RxP!PacedInv /\ KeptYoung /\ reorderingTimer /\ vrUx'.val = vrUx.val
    BY DEF LinkInv, RxP!RunsOn
<1>2. /\ env.lag \in Nat /\ env.reach \in Nat /\ sinceArmed \in Nat
      /\ sequenceNumber \in SnValue
    BY EnvType
<1>3. /\ vrUh \in RxP!SeqNum /\ vrUx.val \in SnValue
      /\ 0 < At(vrUx.val) /\ At(vrUx.val) <= WindowSize
      /\ \A s \in DOMAIN rxBuffer : s \in SnValue /\ At(s) \in 0 .. WindowSize - 1
    BY <1>1, Received
<1>4. /\ vrUh' \in RxP!SeqNum
      /\ \A s \in DOMAIN rxBuffer' : RxP!At(s, vrUh') \in 0 .. WindowSize - 1
    BY ReceivedNext DEF KeptInWindow, At
<1>5. /\ Behind(vrUh'.val) < env.lag + env.reach + sinceArmed
      /\ vrUx'.val # vrUh'.val => Behind(vrUh'.val) < env.lag + sinceArmed
    <2>1. CASE vrUh'.val = vrUh.val
        BY <1>1, <2>1 DEF KeptYoung
    <2>2. CASE vrUh'.val = Wrap(p + 1)
        BY <1>2, <2>2, NextIsYounger
    <2> QED BY <2>1, <2>2
<1>6. ASSUME NEW s \in DOMAIN rxBuffer'
      PROVE  /\ Behind(s) <= env.lag + env.reach + sinceArmed
             /\ RxP!At(vrUx'.val, vrUh') <= RxP!At(s, vrUh') => Behind(s) <= env.lag + sinceArmed
    <2>1. CASE s = p
        BY <1>2, <2>1
    <2>2. CASE s # p
        <3>1. s \in DOMAIN rxBuffer
            BY <2>2
        <3>2. Behind(s) <= env.lag + env.reach + sinceArmed
            BY <1>1, <3>1 DEF KeptYoung
        <3>3. ASSUME RxP!At(vrUx.val, vrUh') <= RxP!At(s, vrUh')
              PROVE  Behind(s) <= env.lag + sinceArmed
            <4>1. RxP!At(s, vrUh') < WindowSize /\ At(s) < WindowSize /\ s \in SnValue
                BY <1>3, <1>4, <3>1, Sizes DEF At
            <4>2. vrUh'.val = IF RxP!IsInsideReorderingWindow(vrUh, p) THEN vrUh.val
                              ELSE RxP!Wrap(p + 1)
                BY DEF RxP!Wrap, Wrap
            <4>3. RxP!At(vrUx.val, vrUh) <= RxP!At(s, vrUh)
                BY <1>3, <1>4, <3>3, <4>1, <4>2, RxP!OrderKept, Parts, SnAssumption
                DEF At, RxP!SnValue, SnValue
            <4> QED BY <1>1, <3>1, <4>3 DEF KeptYoung, At
        <3> QED BY <1>1, <3>2, <3>3
    <2> QED BY <2>1, <2>2
<1> QED BY <1>5, <1>6 DEF YoungNext

\* A PDU arrives: its number is at most env.lag behind.
LEMMA ArriveYoung ==
    ASSUME LinkInv, KeepsPace, NEW i \in DOMAIN channel, Arrive(i)
    PROVE  RxP!PacedInv' /\ KeptYoung'
<1> DEFINE p == channel[i].pdu
<1>1. /\ p \in UmPdus /\ p.sn \in SnValue /\ Behind(p.sn) \in 1 .. env.lag
      /\ RxP!Paced(p)
    BY OnTheWay, YoungPaced
<1>2. RxP!Receive(p)
    BY SameReceive DEF Arrive
<1>3. UNCHANGED <<sequenceNumber, env>>
    BY DEF Arrive, txVars
<1>4. sinceArmed' = IF Armed \/ ~reorderingTimer' THEN 0 ELSE sinceArmed
    BY DEF Arrive
<1>5. RxP!PacedInv /\ KeptYoung
    BY DEF LinkInv
<1> HIDE DEF p
<1>6. RxP!PacedInv'
    BY <1>1, <1>2, <1>5, RxP!ReceiveInWindow, Parts, SnAssumption DEF RxP!SnValue, SnValue
<1>7. RxP!TimerFollows(p)
    BY <1>1, <1>2, <1>5, RxP!ReceiveRearms, Parts, SnAssumption DEF RxP!SnValue, SnValue
<1>8. ASSUME reorderingTimer' PROVE YoungNext
    <2>1. /\ DOMAIN rxBuffer' \subseteq DOMAIN rxBuffer \cup {p.sn}
          /\ RxP!Rearmed \/ RxP!RunsOn
          /\ vrUh'.val = IF reorderingTimer /\ RxP!IsInsideReorderingWindow(vrUh, p.sn)
                         THEN vrUh.val ELSE Wrap(p.sn + 1)
        BY <1>7, <1>8 DEF RxP!TimerFollows, RxP!Wrap, Wrap
    <2>2. /\ env.lag \in Nat /\ env.reach \in Nat /\ sinceArmed \in Nat
          /\ sinceArmed <= env.reach /\ sequenceNumber \in SnValue
        BY EnvType
    <2>3. CASE RxP!RunsOn
        <3>1. reorderingTimer /\ sinceArmed' = sinceArmed
            BY <1>4, <1>8, <2>3 DEF RxP!RunsOn, Armed
        <3> QED BY <1>1, <1>6, <2>1, <2>3, <3>1, RunsOnYoung
    <2>4. CASE RxP!Rearmed /\ ~RxP!RunsOn
        <3>1. ~reorderingTimer \/ vrUx'.val # vrUx.val
            BY <2>4 DEF RxP!RunsOn
        <3>2. sinceArmed' = 0
            BY <1>4, <1>8, <3>1 DEF Armed
        <3>3. Behind(vrUh'.val) < env.lag + env.reach
            <4>1. CASE vrUh'.val = Wrap(p.sn + 1)
                BY <1>1, <2>2, <4>1, NextIsYounger
            <4>2. CASE reorderingTimer /\ vrUh'.val = vrUh.val
                <5>1. vrUx.val # vrUh.val
                    BY <2>4, <3>1, <4>2 DEF RxP!Rearmed
                <5>2. Behind(vrUh.val) < env.lag + sinceArmed /\ Behind(vrUh.val) \in Int
                    BY <1>5, <4>2, <5>1, WindowYoung, Sizes DEF KeptYoung
                <5> QED BY <2>2, <4>2, <5>2
            <4> QED BY <2>1, <4>1, <4>2
        <3>4. Behind(p.sn) <= env.lag
            BY <1>1, <2>2
        <3> QED BY <1>1, <1>6, <2>1, <2>4, <3>2, <3>3, <3>4, RearmedYoung
    <2> QED BY <2>1, <2>3, <2>4
<1> QED BY <1>3, <1>6, <1>8, YoungStep DEF KeptYoung

\* The timer fires: what is kept after it was not waited for by this run of it.
LEMMA ExpireYoung ==
    ASSUME LinkInv, KeepsPace, ExpireReordering
    PROVE  RxP!PacedInv' /\ KeptYoung'
<1>1. RxP!ExpireReorderingTimer /\ reorderingTimer
    BY SameExpiry DEF ExpireReordering, Rx!ExpireReorderingTimer
<1>2. UNCHANGED <<sequenceNumber, env>> /\ sinceArmed' = 0
    BY DEF ExpireReordering, txVars
<1>3. RxP!PacedInv /\ KeptYoung
    BY DEF LinkInv
<1>4. RxP!PacedInv'
    BY <1>1, <1>3, RxP!ExpireInWindow, Parts, SnAssumption DEF RxP!SnValue, SnValue
<1>5. /\ DOMAIN rxBuffer' \subseteq DOMAIN rxBuffer /\ vrUh' = vrUh
      /\ reorderingTimer' => RxP!Rearmed /\ vrUx.val # vrUh.val
    BY <1>1, <1>3, RxP!ExpireRearms, Parts, SnAssumption DEF RxP!SnValue, SnValue
<1>6. ASSUME reorderingTimer' PROVE YoungNext
    <2>1. /\ env.lag \in Nat /\ env.reach \in Nat /\ sinceArmed \in Nat
          /\ sinceArmed <= env.reach /\ sequenceNumber \in SnValue /\ env.lag < WindowSize
        BY EnvType, Sizes
    <2>2. Behind(vrUh.val) < env.lag + sinceArmed /\ Behind(vrUh.val) \in Int
        BY <1>1, <1>3, <1>5, <1>6, WindowYoung, Sizes DEF KeptYoung
    <2>3. Behind(vrUh'.val) < env.lag + env.reach
        BY <1>5, <2>1, <2>2
    \* No number is added to the buffer: any number within the lag will do.
    <2>4. /\ sequenceNumber \in SnValue /\ Behind(sequenceNumber) <= env.lag
          /\ DOMAIN rxBuffer' \subseteq DOMAIN rxBuffer \cup {sequenceNumber}
        BY <1>5, <2>1, Sizes DEF Behind, Wrap, SnValue
    <2> QED BY <1>2, <1>4, <1>5, <1>6, <2>3, <2>4, RearmedYoung
<1> QED BY <1>2, <1>4, <1>6, YoungStep DEF KeptYoung

\* The transmitter's last PDU is one of UmPdus.
LEMMA PduSent ==
    ASSUME LinkInv, NEW bytes \in env.grants, Tx!DoNotifyNrSlTxOpportunity(bytes)
    PROVE  /\ TxP!TxInv' /\ pdu' \in UmPdus /\ pdu'.sn = sequenceNumber
           /\ sequenceNumber' = Wrap(sequenceNumber + 1)
<1>1. bytes \in Grants /\ TxP!TxInv /\ TxP!DoNotifyNrSlTxOpportunity(bytes)
    BY EnvType, SameOpportunity DEF LinkInv
<1>2. TxP!TxInv'
    BY <1>1, TxP!OpportunityTxInv, Parts, SnAssumption DEF TxP!SnValue, SnValue
<1>3. PICK k \in 1 .. Len(txBuffer) : pdu' = Tx!BuildPdu(sequenceNumber, Tx!Taken(bytes, k))
    BY DEF Tx!DoNotifyNrSlTxOpportunity
<1>4. sequenceNumber' = Wrap(sequenceNumber + 1)
    BY DEF Tx!DoNotifyNrSlTxOpportunity, Tx!Wrap, Wrap
<1>5. pdu'.sn = sequenceNumber
    BY <1>3 DEF Tx!BuildPdu
<1>6. pdu' # TxP!NoPdu
    BY <1>5, EnvType, Sizes DEF TxP!NoPdu, SnValue
<1>7. /\ pdu'.sn \in SnValue /\ pdu'.first \in BOOLEAN /\ pdu'.last \in BOOLEAN
      /\ pdu'.frags \in Seq(Tx!Fragment)
    <2>1. TxP!Fragment = Tx!Fragment /\ TxP!SnValue = SnValue
        BY DEF TxP!Fragment, Tx!Fragment, TxP!SnValue, SnValue
    <2> QED BY <1>2, <1>6, <2>1 DEF TxP!TxInv, TxP!TypeOK
<1>8. pdu' = [sn |-> pdu'.sn, first |-> pdu'.first, last |-> pdu'.last, frags |-> pdu'.frags]
    BY <1>3 DEF Tx!BuildPdu
<1>9. pdu' \in UmPdus
    BY <1>7, <1>8 DEF UmPdus
<1> QED BY <1>2, <1>4, <1>5, <1>9

\* A number sent is one more behind.
LEMMA OneMoreBehind ==
    ASSUME sequenceNumber \in SnValue, sequenceNumber' = Wrap(sequenceNumber + 1),
           NEW v \in SnValue, Behind(v) \in 0 .. WindowSize
    PROVE  Wrap(sequenceNumber' - v) = Behind(v) + 1
BY Sizes DEF Behind, Wrap, SnValue

\* The new PDU enters the channel and, when it is full, the oldest leaves it.
LEMMA ChannelShifts ==
    ASSUME LinkInv, NEW bytes \in env.grants, Transmit(bytes)
    PROVE  Carried' /\ (KeepsPace => Numbered')
<1> DEFINE S == [pdu : UmPdus, arrived : BOOLEAN]
           new == [pdu |-> pdu', arrived |-> FALSE]
           sent == Append(channel, new)
           n == Len(channel)
<1>1. /\ pdu' \in UmPdus /\ pdu'.sn = sequenceNumber
      /\ sequenceNumber' = Wrap(sequenceNumber + 1)
    BY PduSent DEF Transmit
<1>2. channel \in Seq(S) /\ n \in Nat /\ n <= env.lag
    BY DEF LinkInv, Carried
<1>3. /\ env.lag \in Nat /\ env.lag > 0 /\ sequenceNumber \in SnValue
      /\ KeepsPace => env.lag < WindowSize
    BY EnvType, Sizes
<1>4. env' = env /\ channel' = IF Len(sent) > env.lag THEN Tail(sent) ELSE sent
    BY DEF Transmit
<1>5. new \in S
    BY <1>1
<1> HIDE DEF S, new
<1>6. /\ sent \in Seq(S) /\ Len(sent) = n + 1
      /\ \A i \in 1 .. n : sent[i] = channel[i]
      /\ sent[n + 1] = new
    BY <1>2, <1>5
<1> HIDE DEF sent, n
<1>7. new.pdu.sn = sequenceNumber
    BY <1>1 DEF new
<1>8. ASSUME KeepsPace, NEW i \in 1 .. n + 1
      PROVE  sent[i].pdu.sn = Wrap(sequenceNumber' - (n + 1 - i + 1))
    <2>1. CASE i = n + 1
        <3>1. Wrap(Wrap(sequenceNumber + 1) - 1) = sequenceNumber
            BY <1>3, Sizes DEF Wrap, SnValue
        <3>2. n + 1 - i + 1 = 1
            BY <1>2, <2>1
        <3> QED BY <1>1, <1>6, <1>7, <2>1, <3>1, <3>2
    <2>2. CASE i # n + 1
        <3>1. i \in 1 .. n
            BY <1>2, <2>2
        <3>2. channel[i].pdu.sn = Wrap(sequenceNumber - (n - i + 1))
            BY <1>8, <3>1 DEF LinkInv, Numbered, n
        <3>3. PICK x \in 1 .. n : x = n - i + 1
            BY <1>2, <3>1
        <3>4. x \in Nat /\ x >= 1 /\ x < WindowSize
            BY <1>2, <1>3, <1>8, <3>3, Sizes
        <3>5. Wrap(Wrap(sequenceNumber + 1) - (x + 1)) = Wrap(sequenceNumber - x)
            BY <1>3, <3>4, Sizes DEF Wrap, SnValue
        <3>6. n + 1 - i + 1 = x + 1
            BY <1>2, <3>3
        <3> QED BY <1>1, <1>6, <3>1, <3>2, <3>3, <3>5, <3>6
    <2> QED BY <2>1, <2>2
<1>9. CASE ~(Len(sent) > env.lag)
    <2>1. channel' = sent /\ Len(sent) <= env.lag
        BY <1>2, <1>3, <1>4, <1>6, <1>9
    <2>2. Carried'
        BY <1>4, <1>6, <2>1 DEF Carried, S
    <2>3. ASSUME KeepsPace, NEW i \in 1 .. Len(sent)
          PROVE  sent[i].pdu.sn = Wrap(sequenceNumber' - (Len(sent) - i + 1))
        <3>1. i \in 1 .. n + 1
            BY <1>6
        <3>2. Len(sent) - i + 1 = n + 1 - i + 1
            BY <1>2, <1>6, <3>1
        <3> QED BY <1>8, <2>3, <3>1, <3>2
    <2>4. KeepsPace => Numbered'
        BY <2>1, <2>3 DEF Numbered
    <2> QED BY <2>2, <2>4
<1>10. CASE Len(sent) > env.lag
    <2>1. channel' = Tail(sent) /\ sent # <<>> /\ n = env.lag
        BY <1>2, <1>3, <1>4, <1>6, <1>10, EmptySeq
    <2>2. /\ channel' \in Seq(S) /\ Len(channel') = n
          /\ \A i \in 1 .. n : channel'[i] = sent[i + 1]
        BY <1>2, <1>6, <2>1, HeadTailProperties
    <2>3. Carried'
        BY <1>2, <1>4, <2>1, <2>2 DEF Carried, S
    <2>4. ASSUME KeepsPace, NEW i \in 1 .. n
          PROVE  channel'[i].pdu.sn = Wrap(sequenceNumber' - (n - i + 1))
        <3>1. i + 1 \in 1 .. n + 1 /\ n + 1 - (i + 1) + 1 = n - i + 1
            BY <1>2
        <3>2. sent[i + 1].pdu.sn = Wrap(sequenceNumber' - (n + 1 - (i + 1) + 1))
            BY <1>8, <2>4, <3>1
        <3> QED BY <2>2, <3>1, <3>2
    <2>5. KeepsPace => Numbered'
        BY <2>2, <2>4 DEF Numbered
    <2> QED BY <2>3, <2>5
<1> QED BY <1>9, <1>10

\* A PDU sent makes everything one older, and the timer's run one longer.
LEMMA TransmitYoung ==
    ASSUME LinkInv, KeepsPace, NEW bytes \in env.grants, Transmit(bytes)
    PROVE  RxP!PacedInv' /\ KeptYoung'
<1>1. RxP!PacedInv /\ KeptYoung /\ UNCHANGED rxVars /\ env' = env
    BY DEF LinkInv, Transmit
<1>2. RxP!PacedInv'
    BY <1>1, ReceiverUnchanged
<1>3. sequenceNumber' = Wrap(sequenceNumber + 1)
    BY PduSent DEF Transmit
<1>4. /\ env.lag \in Nat /\ env.reach \in Nat /\ sinceArmed \in Nat
      /\ sequenceNumber \in SnValue
    BY EnvType
<1>5. ASSUME reorderingTimer PROVE KeptYoung'
    <2>1. sinceArmed' = sinceArmed + 1
        BY <1>5 DEF Transmit
    <2>2. /\ Behind(vrUh.val) \in 0 .. WindowSize - 1
          /\ \A s \in DOMAIN rxBuffer : Behind(s) \in 0 .. WindowSize
          /\ vrUh.val \in SnValue
          /\ \A s \in DOMAIN rxBuffer : s \in SnValue
        BY <1>1, <1>5, WindowYoung, Received
    <2>3. /\ vrUh' = vrUh /\ vrUx' = vrUx /\ rxBuffer' = rxBuffer
        BY <1>1 DEF rxVars
    <2>4. Wrap(sequenceNumber' - vrUh.val) = Behind(vrUh.val) + 1
        BY <1>3, <1>4, <2>2, Sizes, OneMoreBehind
    <2>5. \A s \in DOMAIN rxBuffer : Wrap(sequenceNumber' - s) = Behind(s) + 1
        BY <1>3, <1>4, <2>2, OneMoreBehind
    <2>6. /\ Behind(vrUh.val) < env.lag + env.reach + sinceArmed
          /\ vrUx.val # vrUh.val => Behind(vrUh.val) < env.lag + sinceArmed
          /\ \A s \in DOMAIN rxBuffer :
                 /\ Behind(s) <= env.lag + env.reach + sinceArmed
                 /\ At(vrUx.val) <= At(s) => Behind(s) <= env.lag + sinceArmed
        BY <1>1, <1>5 DEF KeptYoung
    <2>7. /\ Behind(vrUh.val) + 1 < env.lag + env.reach + sinceArmed'
          /\ vrUx.val # vrUh.val => Behind(vrUh.val) + 1 < env.lag + sinceArmed'
          /\ \A s \in DOMAIN rxBuffer :
                 /\ Behind(s) + 1 <= env.lag + env.reach + sinceArmed'
                 /\ At(vrUx.val) <= At(s) => Behind(s) + 1 <= env.lag + sinceArmed'
        BY <1>4, <2>1, <2>2, <2>6, Sizes
    <2> QED BY <1>1, <2>3, <2>4, <2>5, <2>7 DEF KeptYoung, Behind, At
<1>6. reorderingTimer' = reorderingTimer
    BY <1>1 DEF rxVars
<1> QED BY <1>2, <1>5, <1>6 DEF KeptYoung

-----------------------------------------------------------------------------
(* The theorems.                                                           *)

\* The environment is chosen once.
LEMMA SameEnv == ASSUME [Next]_vars PROVE env' = env
BY DEF vars, Next, Submit, ReportBuffer, Transmit, Arrive, ExpireReordering

LEMMA LinkStep == LinkInv /\ [Next]_vars => LinkInv'
<1> SUFFICES ASSUME LinkInv, [Next]_vars PROVE LinkInv'
    OBVIOUS
<1>1. env' = env /\ env' \in Environments /\ (KeepsPace' <=> KeepsPace)
    BY SameEnv DEF LinkInv, KeepsPace
<1>2. /\ TxP!TxInv /\ Carried /\ sinceArmed \in 0 .. env.reach
      /\ KeepsPace => Numbered /\ RxP!PacedInv /\ KeptYoung
    BY DEF LinkInv
<1>3. env.reach \in Nat /\ sinceArmed \in Nat
    BY EnvType
<1>4. ASSUME UNCHANGED <<sequenceNumber, channel>> PROVE Carried' /\ (Numbered => Numbered')
    BY <1>1, <1>2, <1>4 DEF Carried, Numbered
<1>5. ASSUME UNCHANGED <<rxVars, sequenceNumber, sinceArmed>>, KeepsPace
      PROVE  RxP!PacedInv' /\ KeptYoung'
    <2>1. RxP!PacedInv'
        BY <1>2, <1>5, ReceiverUnchanged
    <2>2. KeptYoung'
        BY <1>1, <1>2, <1>5 DEF KeptYoung, Behind, At, rxVars
    <2> QED BY <2>1, <2>2
<1>6. CASE Submit
    <2>1. UNCHANGED <<rxVars, env, channel, sinceArmed, sequenceNumber>>
        BY <1>6 DEF Submit, Tx!DoTransmitNrSlPdcpPdu
    <2>2. PICK size \in env.sizes : TxP!DoTransmitNrSlPdcpPdu(size)
        BY <1>6, SameSubmit DEF Submit
    <2>3. size \in SduSizes
        BY EnvType
    <2>4. TxP!TxInv'
        BY <1>2, <2>2, <2>3, TxP!TransmitTxInv, Parts, SnAssumption DEF TxP!SnValue, SnValue
    <2> QED BY <1>1, <1>2, <1>4, <1>5, <2>1, <2>4 DEF LinkInv
<1>7. CASE ReportBuffer
    <2>1. UNCHANGED <<rxVars, env, channel, sinceArmed, sequenceNumber>>
        BY <1>7 DEF ReportBuffer, Tx!ExpireNrSlRbsTimer
    <2>2. TxP!ExpireNrSlRbsTimer
        BY <1>7, SameReport DEF ReportBuffer
    <2>3. TxP!TxInv'
        BY <1>2, <2>2, TxP!ExpiryTxInv, Parts, SnAssumption DEF TxP!SnValue, SnValue
    <2> QED BY <1>1, <1>2, <1>4, <1>5, <2>1, <2>3 DEF LinkInv
<1>8. CASE \E bytes \in env.grants : Transmit(bytes)
    <2>1. PICK bytes \in env.grants : Transmit(bytes)
        BY <1>8
    <2>2. TxP!TxInv'
        BY <2>1, PduSent DEF Transmit
    <2>3. sinceArmed' \in 0 .. env.reach
        BY <1>2, <1>3, <2>1 DEF Transmit
    <2> QED BY <1>1, <2>1, <2>2, <2>3, ChannelShifts, TransmitYoung DEF LinkInv
<1>9. CASE \E i \in DOMAIN channel : Arrive(i)
    <2>1. PICK i \in DOMAIN channel : Arrive(i)
        BY <1>9
    <2>2. TxP!TxInv' /\ sequenceNumber' = sequenceNumber
        BY <1>2, <2>1, SenderUnchanged DEF Arrive, txVars
    <2>3. sinceArmed' \in 0 .. env.reach
        BY <1>2, <1>3, <2>1 DEF Arrive
    <2>4. Carried' /\ (Numbered => Numbered')
        <3> DEFINE S == [pdu : UmPdus, arrived : BOOLEAN]
        <3>1. channel \in Seq(S) /\ channel' = [channel EXCEPT ![i].arrived = TRUE]
            BY <1>2, <2>1 DEF Carried, Arrive
        <3>2. i \in 1 .. Len(channel) /\ Len(channel) \in Nat
            BY <3>1
        <3>3. channel[i] \in S
            BY <3>1, <3>2, ElementOfSeq
        <3>4. [channel[i] EXCEPT !.arrived = TRUE] \in S
            BY <3>3
        <3>5. channel' = [channel EXCEPT ![i] = [channel[i] EXCEPT !.arrived = TRUE]]
            BY <3>1
        <3>6. channel' \in Seq(S) /\ Len(channel') = Len(channel)
            BY <3>1, <3>2, <3>4, <3>5, ExceptSeq
        <3>7. \A j \in 1 .. Len(channel) : channel'[j].pdu = channel[j].pdu
            BY <3>1, <3>2, <3>3, <3>5
        <3> QED BY <1>1, <1>2, <2>2, <3>6, <3>7 DEF Carried, Numbered
    <2> QED BY <1>1, <1>2, <2>1, <2>2, <2>3, <2>4, ArriveYoung DEF LinkInv
<1>10. CASE ExpireReordering
    <2>1. UNCHANGED <<txVars, channel>> /\ sinceArmed' = 0
        BY <1>10 DEF ExpireReordering
    <2>2. TxP!TxInv' /\ sequenceNumber' = sequenceNumber
        BY <1>2, <2>1, SenderUnchanged DEF txVars
    <2>3. sinceArmed' \in 0 .. env.reach
        BY <1>3, <2>1
    <2> QED BY <1>1, <1>2, <1>4, <1>10, <2>1, <2>2, <2>3, ExpireYoung DEF LinkInv
<1>11. CASE UNCHANGED vars
    <2>1. UNCHANGED <<txVars, rxVars, env, channel, sinceArmed, sequenceNumber>>
        BY <1>11 DEF vars, txVars
    <2>2. TxP!TxInv'
        BY <1>2, <2>1, SenderUnchanged
    <2> QED BY <1>1, <1>2, <1>4, <1>5, <2>1, <2>2 DEF LinkInv
<1> QED BY <1>6, <1>7, <1>8, <1>9, <1>10, <1>11 DEF Next

LEMMA LinkInvariant == Spec => []LinkInv
BY LinkInit, LinkStep, PTL DEF Spec

\* For every modulus and window, every set of sizes and grants and every
\* environment: a sender whose channel delay and two runs of t-Reordering fit
\* in the reordering window never moves it past a PDU that is still buffered,
\* however PDUs are lost, repeated and reordered.
THEOREM ArrivalsArePaced == Spec => []ArrivalsPaced
<1>1. LinkInv => ArrivalsPaced
    <2> SUFFICES ASSUME LinkInv, KeepsPace, NEW i \in DOMAIN channel
                 PROVE  Rx!Paced(channel[i].pdu)
        BY DEF ArrivalsPaced
    <2> QED BY YoungPaced, SamePaced
<1> QED BY <1>1, LinkInvariant, PTL

\* The sender of a bearer is the transmitter of LteRlcUmTransmitter, and what is
\* proved of it holds here.
THEOREM SenderImplements == Spec => Tx!Spec
<1>1. Init => Tx!Init
    BY DEF Init
<1>2. LinkInv /\ [Next]_vars => [Tx!Next]_(Tx!txVars)
    <2> SUFFICES ASSUME LinkInv, [Next]_vars PROVE [Tx!Next]_(Tx!txVars)
        OBVIOUS
    <2>1. CASE Submit
        BY <2>1, EnvType DEF Submit, Tx!Next
    <2>2. CASE ReportBuffer
        BY <2>2 DEF ReportBuffer, Tx!Next
    <2>3. CASE \E bytes \in env.grants : Transmit(bytes)
        BY <2>3, EnvType DEF Transmit, Tx!Next
    <2>4. CASE UNCHANGED txVars
        BY <2>4 DEF txVars, Tx!txVars
    <2> QED BY <2>1, <2>2, <2>3, <2>4 DEF Next, Arrive, ExpireReordering, vars
<1> QED BY <1>1, <1>2, LinkInvariant, PTL DEF Spec, Tx!Spec

\* The receiver of a bearer is the entity of LteRlcUmReordering.
THEOREM ReceiverImplements == Spec => Rx!Spec
<1>1. Init => Rx!Init
    BY DEF Init
<1>2. LinkInv /\ [Next]_vars => [Rx!Next]_(Rx!vars)
    <2> SUFFICES ASSUME LinkInv, [Next]_vars PROVE [Rx!Next]_(Rx!vars)
        OBVIOUS
    <2>1. ASSUME NEW i \in DOMAIN channel, Arrive(i) PROVE Rx!Next
        <3>1. channel[i].pdu \in UmPdus
            BY ChannelPdu
        <3> QED BY <2>1, <3>1 DEF Arrive, Rx!Next, Rx!Receive
    <2>2. CASE ExpireReordering
        BY <2>2 DEF ExpireReordering, Rx!Next
    <2>3. CASE UNCHANGED rxVars
        BY <2>3 DEF rxVars, Rx!vars
    <2> QED BY <2>1, <2>2, <2>3 DEF Next, Submit, ReportBuffer, Transmit, vars
<1> QED BY <1>1, <1>2, LinkInvariant, PTL DEF Spec, Rx!Spec

\* A sender that keeps pace is the environment of its PacedSpec, so the window
\* is in order, what is buffered lies in it, and a running timer will release it.
THEOREM ReceiverPaced == Spec /\ KeepsPace => Rx!PacedSpec
<1>1. Init => Rx!Init
    BY DEF Init
<1>2. KeepsPace /\ [Next]_vars => KeepsPace'
    BY SameEnv DEF KeepsPace
<1>3. LinkInv /\ KeepsPace /\ [Next]_vars => [Rx!PacedNext]_(Rx!vars)
    <2> SUFFICES ASSUME LinkInv, KeepsPace, [Next]_vars PROVE [Rx!PacedNext]_(Rx!vars)
        OBVIOUS
    <2>1. ASSUME NEW i \in DOMAIN channel, Arrive(i) PROVE Rx!PacedNext
        <3>1. channel[i].pdu \in UmPdus /\ Rx!Paced(channel[i].pdu)
            BY OnTheWay, YoungPaced, SamePaced
        <3> QED BY <2>1, <3>1 DEF Arrive, Rx!PacedNext, Rx!Receive
    <2>2. CASE ExpireReordering
        BY <2>2 DEF ExpireReordering, Rx!PacedNext
    <2>3. CASE UNCHANGED rxVars
        BY <2>3 DEF rxVars, Rx!vars
    <2> QED BY <2>1, <2>2, <2>3 DEF Next, Submit, ReportBuffer, Transmit, vars
<1> QED BY <1>1, <1>2, <1>3, LinkInvariant, PTL DEF Spec, Rx!PacedSpec

\* A PDU kept for reordering then has a running timer to release it, and lies in
\* the window, so none is taken for a duplicate of one a modulus later.
THEOREM KeptAreReleased ==
    Spec /\ KeepsPace => [](Rx!NoneStranded /\ Rx!BufferInWindow /\ Rx!WindowOrder)
<1>1. KeepsPace /\ [Next]_vars => KeepsPace'
    BY SameEnv DEF KeepsPace
<1>2. LinkInv /\ KeepsPace => Rx!NoneStranded /\ Rx!BufferInWindow /\ Rx!WindowOrder
    <2> SUFFICES ASSUME RxP!PacedInv
                 PROVE  Rx!NoneStranded /\ Rx!BufferInWindow /\ Rx!WindowOrder
        BY DEF LinkInv
    <2>1. Rx!NoneStranded
        BY Received DEF Rx!NoneStranded
    <2>2. Rx!BufferInWindow
        BY SamePaced DEF RxP!PacedInv, RxP!Above, Rx!BufferInWindow
    <2>3. Rx!WindowOrder
        BY SamePaced DEF RxP!PacedInv, RxP!Above, RxP!TimerInOrder, Rx!WindowOrder
    <2> QED BY <2>1, <2>2, <2>3
<1> QED BY <1>1, <1>2, LinkInvariant, PTL DEF Spec

=============================================================================
