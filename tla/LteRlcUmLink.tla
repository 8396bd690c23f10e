---------------------------- MODULE LteRlcUmLink ----------------------------
(***************************************************************************)
(* A sidelink radio bearer between two UEs: the RLC UM transmitter of one, *)
(* the reordering and reassembly of the other, and between them the MAC    *)
(* and PHY of 5G-LENA, which are not in the repository and are modelled by *)
(* what they may do to PDUs: lose, repeat and reorder them.                *)
(*                                                                         *)
(* What surrounds the two entities is a record env, one of Environments:   *)
(*   sizes  - of the SDUs the application submits                          *)
(*   grants - bytes of the opportunities the MAC offers                    *)
(*   most   - SDUs accepted in a behaviour (a bound)                       *)
(*   lag    - how late a (re)transmission can be decoded: a PDU no longer  *)
(*            arrives once lag younger ones were sent                      *)
(*   reach  - PDUs the sender can send in one t-Reordering                 *)
(*   lossy  - FALSE: every PDU arrives, sooner than t-Reordering           *)
(* Time is counted in PDUs.                                                *)
(***************************************************************************)
EXTENDS SequenceNumber10, Sequences

CONSTANTS MaxTxBufferSize, LiMax, MaxSdus, StartSns, Environments

ASSUME LinkAssumption ==
    /\ {MaxTxBufferSize, MaxSdus} \subseteq Nat
    /\ LiMax \in Nat \ {0}
    /\ StartSns \subseteq SnValue
    /\ \A e \in Environments :
           /\ e.sizes \cup {e.lag, e.reach} \subseteq Nat \ {0}
           /\ e.grants \subseteq Nat
           /\ e.most \in 0 .. MaxSdus
           /\ e.lossy \in BOOLEAN

SduSizes == UNION {e.sizes : e \in Environments}
Grants   == UNION {e.grants : e \in Environments}

VARIABLES txBuffer, txBufferSize, sequenceNumber, rbsTimer, reported, sdus, pdu,
          vrUr, vrUx, vrUh, rxBuffer, reorderingTimer, firstPduRxed, released,
          reassembly,  \* reassembly state and what was delivered
          env,         \* the environment of this behaviour
          channel,     \* the last env.lag PDUs sent, oldest first
          sinceArmed,  \* PDUs sent since t-Reordering was last started
          joinedAt     \* history: SDUs accepted when the first PDU arrived

Tx == INSTANCE LteRlcUmTransmitter

\* The PDUs of the transmitter.
UmPdus == [sn : SnValue, first : BOOLEAN, last : BOOLEAN, frags : Seq(Tx!Fragment)]

Rx == INSTANCE LteRlcUmReordering WITH ChannelType <- "STCH", Pdu <- UmPdus
Ra == INSTANCE LteRlcUmReassembly

txVars == <<txBuffer, txBufferSize, sequenceNumber, rbsTimer, reported, sdus, pdu>>
rxVars == <<vrUr, vrUx, vrUh, rxBuffer, reorderingTimer, firstPduRxed, released>>
vars == <<txVars, rxVars, reassembly, env, channel, sinceArmed, joinedAt>>

Init == /\ Tx!Init
        /\ Rx!Init
        /\ reassembly = Ra!InitReassembly
        /\ env \in Environments
        /\ channel = <<>>
        /\ sinceArmed = 0
        /\ joinedAt = 0

-----------------------------------------------------------------------------

\* PDCP submits an SDU; the report timer fires.  Neither reaches the channel.
Submit == /\ Len(sdus) < env.most
          /\ \E size \in env.sizes : Tx!DoTransmitNrSlPdcpPdu(size)
          /\ UNCHANGED <<rxVars, reassembly, env, channel, sinceArmed, joinedAt>>

ReportBuffer == /\ Tx!ExpireNrSlRbsTimer
                /\ UNCHANGED <<rxVars, reassembly, env, channel, sinceArmed, joinedAt>>

\* The PDU enters the channel and the oldest leaves it.
Transmit(bytes) ==
    /\ reorderingTimer => sinceArmed < env.reach
    /\ ~env.lossy /\ Len(channel) = env.lag => channel[1].arrived
    /\ Tx!DoNotifyNrSlTxOpportunity(bytes)
    /\ LET sent == Append(channel, [pdu |-> pdu', arrived |-> FALSE])
       IN  channel' = IF Len(sent) > env.lag THEN Tail(sent) ELSE sent
    /\ sinceArmed' = IF reorderingTimer THEN sinceArmed + 1 ELSE 0
    /\ UNCHANGED <<rxVars, reassembly, env, joinedAt>>

\* A handler that starts t-Reordering sets VR(UX) ahead of its old value.
Armed == reorderingTimer' /\ (~reorderingTimer \/ vrUx'.val # vrUx.val)

\* A PDU of the channel arrives, possibly again.
Arrive(i) ==
    LET p == channel[i].pdu
        r == IF firstPduRxed THEN reassembly ELSE [reassembly EXCEPT !.expected = p.sn]
    IN  /\ Rx!ReceiveNrSlRlcPdu(p)
        /\ reassembly' = Ra!ReassembleAll(r, released')
        /\ channel' = [channel EXCEPT ![i].arrived = TRUE]
        /\ sinceArmed' = IF Armed \/ ~reorderingTimer' THEN 0 ELSE sinceArmed
        /\ joinedAt' = IF firstPduRxed THEN joinedAt ELSE Len(sdus)
        /\ UNCHANGED <<txVars, env>>

\* Without loss, what was sent before the timer started has arrived.
ExpireReordering ==
    /\ ~env.lossy => \A i \in 1 .. Len(channel) - sinceArmed : channel[i].arrived
    /\ Rx!ExpireReorderingTimer
    /\ reassembly' = Ra!ReassembleAll(reassembly, released')
    /\ sinceArmed' = 0
    /\ UNCHANGED <<txVars, env, channel, joinedAt>>

Next == \/ Submit
        \/ ReportBuffer
        \/ \E bytes \in env.grants : Transmit(bytes)
        \/ \E i \in DOMAIN channel : Arrive(i)
        \/ ExpireReordering

Spec == Init /\ [][Next]_vars

\* The MAC goes on serving while data waits, every PDU arrives if none is lost
\* (any number of them may be, the last ones too, in a lossy environment), and
\* the simulator runs every scheduled event.  Each is weak fairness of an
\* action that stays enabled while its first disjunct is false, said outright
\* because TLC would search for the handlers' next states to see if they are.
GrantsFair == []<>(txBuffer = <<>>) \/ []<><<sequenceNumber' # sequenceNumber>>_vars

ArrivalsFair ==
    \/ []<>(env.lossy \/ \A i \in DOMAIN channel : channel[i].arrived)
    \/ []<><<\E i \in DOMAIN channel :
                ~channel[i].arrived /\ channel' = [channel EXCEPT ![i].arrived = TRUE]>>_vars

TimerFair == []<>~reorderingTimer \/ []<><<ExpireReordering>>_vars

FairSpec  == Spec /\ GrantsFair /\ ArrivalsFair /\ TimerFair

-----------------------------------------------------------------------------
(* Properties.                                                             *)

\* The number of the SDU a delivered item holds from its first to its last
\* byte, or 0 when it is anything else.
SduOf(item) ==
    LET sdu == item[1].sdu
    IN  IF /\ item[1].from = sdus[sdu].from
           /\ item[Len(item)].to = sdus[sdu].to
           /\ \A i \in 1 .. Len(item) - 1 : item[i].to = item[i + 1].from
        THEN sdu ELSE 0

Delivered == [i \in DOMAIN reassembly.out |-> SduOf(reassembly.out[i])]

\* Whatever is lost, repeated or reordered within the bounds, PDCP receives
\* whole SDUs, in order, without duplicates.
Pipe == INSTANCE SduPipe WITH submitted <- Len(sdus), delivered <- Delivered
PipeSpec == Pipe!Spec

\* What is sent while a PDU is late or t-Reordering runs stays in the window.
\* The timer counts twice: a PDU kept when it is started again has already
\* waited for one run of it.
KeepsPace == env.lag + 2 * env.reach <= WindowSize

\* A sender that keeps pace never moves the window past a PDU that is still
\* buffered: it is the environment of LteRlcUmReordering!PacedSpec.
ArrivalsPaced == KeepsPace /\ firstPduRxed =>
                    \A i \in DOMAIN channel : Rx!Paced(channel[i].pdu)

\* The branch lte-rlc-um.cc:2130-2138 logs as "Transition not possible", which
\* leaves the PDU's fragments in m_sdusBuffer, is not taken: a first segment
\* follows a kept one only across a gap in the numbers.
ReassemblyClean == reassembly.sdus = <<>>

\* The comment at lte-rlc-um.cc:1747: PDUs outside the reordering window are
\* reassembled when the window moves, so what stays buffered is inside.
NoneOutsideWindow ==
    \A s \in DOMAIN rxBuffer : Rx!IsInsideReorderingWindow(vrUh, s)

\* Whatever is lost, the last PDUs included, PDUs kept for reordering are all
\* handed to reassembly or dropped from the buffer in the end, by t-Reordering
\* if by nothing else, when the sender keeps pace.
BufferDrains == KeepsPace ~> DOMAIN rxBuffer = {}

\* Without loss, and with retransmissions over before t-Reordering, every SDU
\* accepted after the receiver joined is delivered.
AllDelivered ==
    ~env.lossy /\ firstPduRxed
        ~> \A i \in joinedAt + 1 .. Len(sdus) : \E j \in DOMAIN Delivered : Delivered[j] = i

=============================================================================
