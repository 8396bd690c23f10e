---------------------------- MODULE LteRrc_proofs ----------------------------
(***************************************************************************)
(* Proofs about the two halves of the RRC: the connection of a UE and an   *)
(* eNB (LteConnection), for every number of contexts, bearers and mishaps  *)
(* and all limits of the counters, and the sidelink bearers of the UEs out *)
(* of coverage (NrSlBearers), for any number of UEs and groups, when every *)
(* UE has its templates for one group and transmits to it.  The two share  *)
(* no variable.                                                            *)
(***************************************************************************)
EXTENDS LteConnection, NrSlBearers, TLAPS


-----------------------------------------------------------------------------
(***************************************************************************)
(* The state of the UE by itself.                                          *)

Connecting(u) == u.rrc = "IDLE_CONNECTING"

RrcStates == {"IDLE_START", "IDLE_CELL_SEARCH", "IDLE_WAIT_MIB_SIB1", "IDLE_WAIT_MIB",
              "IDLE_WAIT_SIB1", "IDLE_CAMPED_NORMALLY", "IDLE_WAIT_SIB2",
              "IDLE_RANDOM_ACCESS", "IDLE_CONNECTING", "CONNECTED_NORMALLY"}

UeStates == [rrc : RrcStates, connectionPending : BOOLEAN, hasReceivedMib : BOOLEAN,
             hasReceivedSib2 : BOOLEAN, connectionTimeout : BOOLEAN,
             connEstFailCount : Nat, rnti : Nat, rachConfigured : BOOLEAN,
             preambles : Nat, preambleSent : BOOLEAN, nas : {"OFF", "ACTIVE"},
             retry : BOOLEAN, toBeActivated : Nat, forReconnection : Nat, bidCounter : Nat]

\* What the handlers of the UE take for granted.
HasCell(u) == u.rrc \in {"IDLE_WAIT_SIB1", "IDLE_CAMPED_NORMALLY", "IDLE_WAIT_SIB2",
                         "IDLE_RANDOM_ACCESS", "IDLE_CONNECTING", "CONNECTED_NORMALLY"}

Prepared(u) == /\ HasCell(u) => u.hasReceivedMib
               /\ u.hasReceivedSib2 => u.rachConfigured
               /\ u.rrc = "IDLE_WAIT_SIB2" => u.connectionPending
               /\ u.rrc = "IDLE_RANDOM_ACCESS" => u.hasReceivedSib2

\* It has an RNTI while it connects and while it is connected.
Identified(u) == /\ u.rnti # 0 <=> (Connecting(u) \/ Ue!Connected(u))
                 /\ u.connectionTimeout = Connecting(u)

BearersCounted(u) == /\ (u.nas = "ACTIVE") = Ue!Connected(u)
                     /\ u.bidCounter + u.toBeActivated = u.forReconnection
                     /\ u.nas = "ACTIVE" => u.toBeActivated = 0
                     /\ u.forReconnection <= MaxBearers

UeOk(u) == u \in UeStates /\ Prepared(u) /\ Identified(u) /\ BearersCounted(u)

(* The contexts and the messages.                                          *)

TimersOf(state) ==
    CASE state = "INITIAL_RANDOM_ACCESS" -> {"connectionRequestTimeout"}
      [] state = "CONNECTION_SETUP"      -> {"connectionSetupTimeout"}
      [] state = "CONNECTION_REJECTED"   -> {"connectionRejectedTimeout"}
      [] OTHER                           -> {}

ContextStates == Enb!Established \cup {"INITIAL_RANDOM_ACCESS", "CONNECTION_SETUP",
                                       "CONNECTION_REJECTED"}

ContextOk(c) == /\ c \in [state : ContextStates, timers : SUBSET Enb!Timers,
                          pending : BOOLEAN, source : {0}, target : {0}]
                /\ c.timers = TimersOf(c.state)

\* The state of the context a message is from or for.
StateOf(type) == CASE type \in {"RAR", "REQUEST"}           -> "INITIAL_RANDOM_ACCESS"
                   [] type \in {"SETUP", "SETUP_COMPLETED"} -> "CONNECTION_SETUP"
                   [] type = "REJECT"                       -> "CONNECTION_REJECTED"
                   [] OTHER                                 -> "CONNECTION_RECONFIGURATION"

ConnectingTypes == {"REQUEST", "SETUP", "REJECT"}
ConnectedTypes  == {"SETUP_COMPLETED", "RECONFIGURATION", "RECONFIGURATION_COMPLETED"}

TypeOK == /\ UeOk(ue)
          /\ lastAllocatedRnti \in Nat /\ mishaps \in Nat
          /\ ue.rnti <= lastAllocatedRnti
          /\ DOMAIN contexts \subseteq Rntis
          /\ \A r \in DOMAIN contexts : ContextOk(contexts[r])
          /\ air \subseteq [type : Downlink \cup Uplink, rnti : Rntis]
          /\ removals \subseteq Rntis

\* One message of a connection is under way at a time, and its context is in
\* the state it is about.
InStep == /\ \A m, n \in air : m.rnti = n.rnti => m = n
          /\ \A m \in air : m.rnti \in DOMAIN contexts =>
                contexts[m.rnti].state = StateOf(m.type)

UeInStep == /\ \A m \in air : m.rnti = ue.rnti =>
                  \/ m.type \in ConnectingTypes /\ Connecting(ue)
                  \/ m.type \in ConnectedTypes /\ Ue!Connected(ue)
            /\ Connecting(ue) /\ ue.rnti \in DOMAIN contexts =>
                  contexts[ue.rnti].state \notin Enb!Established

\* The core is asked about the contexts that wait for it, and no removal of
\* one of these is asked for.
CoreInStep == /\ attaching = {r \in DOMAIN contexts : contexts[r].state = "ATTACH_REQUEST"}
              /\ \A r \in removals \cap DOMAIN contexts :
                    contexts[r].state \in {"CONNECTED_NORMALLY", "CONNECTION_RECONFIGURATION"}

Owned(r) == \/ Ue!Connected(ue) /\ ue.rnti = r
            \/ r \in removals \cup abandoned

ConfirmedIsOwned == \A m \in air : m.type = "SETUP_COMPLETED" /\ m.rnti \in DOMAIN contexts
                                      => Owned(m.rnti)

ConnInv == /\ TypeOK /\ InStep /\ UeInStep /\ CoreInStep
           /\ ConfirmedIsOwned /\ ContextKnowsUe /\ EstablishedIsOwned

-----------------------------------------------------------------------------
(* The handlers of the UE.                                                 *)

\* It has no RNTI, so it neither connects nor is connected.
Idle(u) == UeOk(u) /\ u.rnti = 0

\* Nor does it here, between the states, where all that is asked of it is what
\* camping on the cell takes.
MayCamp(u) == /\ u \in UeStates
              /\ u.hasReceivedMib
              /\ u.hasReceivedSib2 => u.rachConfigured
              /\ u.rnti = 0 /\ ~u.connectionTimeout /\ u.nas = "OFF"
              /\ u.bidCounter + u.toBeActivated = u.forReconnection
              /\ u.forReconnection <= MaxBearers

\* What another handler does to a UE that it leaves connected or connecting.
SameRole(u, v) == /\ UeOk(v) /\ v.rnti = u.rnti
                  /\ Connecting(v) = Connecting(u) /\ Ue!Connected(v) = Ue!Connected(u)

LEMMA IdleIsNeither ==
    ASSUME NEW u, UeOk(u)
    PROVE  /\ u.rnti \in Nat
           /\ u.rnti = 0 <=> ~Connecting(u) /\ ~Ue!Connected(u)
           /\ ~(Connecting(u) /\ Ue!Connected(u))
           /\ u.rrc # "ABORTED"
BY DEF UeOk, UeStates, RrcStates, Identified, Connecting, Ue!Connected

LEMMA StartsConnection ==
    ASSUME NEW u, MayCamp(u), u.hasReceivedSib2
    PROVE  Idle(Ue!StartConnection(u))
<1> DEFINE started == [u EXCEPT !.connectionPending = FALSE, !.rrc = "IDLE_RANDOM_ACCESS",
                                !.preambles = 0, !.preambleSent = TRUE]
<1>1. Ue!StartConnection(u) = started
    BY DEF MayCamp, UeStates, Ue!StartConnection, Ue!RandomlySelectAndSendRaPreamble,
           Ue!SendRaPreamble
<1>2. UeOk(started) /\ started.rnti = 0
    BY DEF MayCamp, UeOk, UeStates, RrcStates, Prepared, HasCell, Identified, BearersCounted,
           Connecting, Ue!Connected
<1> QED BY <1>1, <1>2 DEF Idle

LEMMA WaitsForSib2 ==
    ASSUME NEW u, MayCamp(u), u.connectionPending
    PROVE  Idle(Ue!SwitchToWaitSib2(u))
<1> DEFINE waiting == [u EXCEPT !.rrc = "IDLE_WAIT_SIB2"]
<1>1. waiting \in UeStates /\ waiting.rnti = 0
    BY DEF MayCamp, UeStates, RrcStates
<1>2. CASE u.hasReceivedSib2
    <2>1. MayCamp(waiting) /\ waiting.hasReceivedSib2
        BY <1>1, <1>2 DEF MayCamp, UeStates
    <2> QED BY <1>2, <2>1, StartsConnection DEF Ue!SwitchToWaitSib2
<1>3. CASE ~u.hasReceivedSib2
    <2>1. UeOk(waiting)
        BY <1>1, <1>3 DEF MayCamp, UeOk, UeStates, Prepared, HasCell, Identified,
                          BearersCounted, Connecting, Ue!Connected
    <2> QED BY <1>1, <1>3, <2>1 DEF Idle, Ue!SwitchToWaitSib2
<1> QED BY <1>2, <1>3

LEMMA Camps ==
    ASSUME NEW u, MayCamp(u)
    PROVE  Idle(Ue!SwitchToCampedNormally(u))
<1> DEFINE camped == [u EXCEPT !.rrc = "IDLE_CAMPED_NORMALLY"]
<1>1. camped \in UeStates /\ camped.rnti = 0
    BY DEF MayCamp, UeStates, RrcStates
<1>2. CASE u.connectionPending
    <2>1. MayCamp(camped) /\ camped.connectionPending
        BY <1>1, <1>2 DEF MayCamp, UeStates
    <2> QED BY <1>2, <2>1, WaitsForSib2 DEF Ue!SwitchToCampedNormally
<1>3. CASE ~u.connectionPending
    <2>1. UeOk(camped)
        BY <1>1 DEF MayCamp, UeOk, UeStates, Prepared, HasCell, Identified,
                    BearersCounted, Connecting, Ue!Connected
    <2> QED BY <1>1, <1>3, <2>1 DEF Idle, Ue!SwitchToCampedNormally
<1> QED BY <1>2, <1>3

\* A UE in one of these states may camp on its cell.
LEMMA IdleMayCamp ==
    ASSUME NEW u, UeOk(u), u.rnti = 0, u.hasReceivedMib
    PROVE  MayCamp(u)
BY DEF UeOk, MayCamp, UeStates, Prepared, Identified, BearersCounted

LEMMA FailedIdle ==
    ASSUME NEW u, Idle(u)
    PROVE  Idle(Ue!NotifyConnectionFailed(u))
BY DEF Idle, UeOk, UeStates, RrcStates, Prepared, HasCell, Identified, BearersCounted,
       Connecting, Ue!Connected, Ue!NotifyConnectionFailed

LEMMA Connects ==
    ASSUME NEW u, UeOk(u)
    PROVE  SameRole(u, Ue!DoConnect(u))
<1> DEFINE wanted == [u EXCEPT !.connectionPending = TRUE]
<1>1. UeOk(wanted) /\ wanted.connectionPending /\ wanted.rnti = u.rnti /\ wanted.rrc = u.rrc
    BY DEF UeOk, UeStates, RrcStates, Prepared, HasCell, Identified, BearersCounted, Connecting,
           Ue!Connected
<1>2. SameRole(u, wanted) /\ SameRole(u, u)
    BY <1>1 DEF SameRole, Connecting, Ue!Connected
<1>3. CASE u.rrc \in Ue!Selecting
    BY <1>2, <1>3 DEF Ue!DoConnect
<1>4. CASE u.rrc = "IDLE_CAMPED_NORMALLY"
    <2>1. u.rnti = 0 /\ ~Connecting(u) /\ ~Ue!Connected(u)
        BY <1>4 DEF UeOk, Identified, Connecting, Ue!Connected
    <2>2. wanted.hasReceivedMib
        BY <1>1, <1>4 DEF UeOk, Prepared, HasCell
    <2>3. Idle(Ue!SwitchToWaitSib2(wanted))
        BY <1>1, <2>1, <2>2, IdleMayCamp, WaitsForSib2
    <2>4. Ue!DoConnect(u) = Ue!SwitchToWaitSib2(wanted)
        BY <1>4 DEF Ue!DoConnect, Ue!Selecting
    <2> QED BY <2>1, <2>3, <2>4, IdleIsNeither DEF Idle, SameRole, Connecting, Ue!Connected
<1>5. CASE u.rrc \notin Ue!Selecting \cup {"IDLE_CAMPED_NORMALLY"}
    <2>1. u.rrc # "CONNECTED_PHY_PROBLEM"
        BY DEF UeOk, UeStates, RrcStates
    <2> QED BY <1>2, <1>5, <2>1 DEF Ue!DoConnect
<1> QED BY <1>3, <1>4, <1>5

LEMMA Retries ==
    ASSUME NEW u, UeOk(u)
    PROVE  SameRole(u, Ue!RetryConnect(u))
<1> DEFINE v == [u EXCEPT !.retry = FALSE]
<1>1. v \in UeStates /\ v.rnti = u.rnti /\ v.rrc = u.rrc
    BY DEF UeOk, UeStates
<1>2. UeOk(v) /\ SameRole(u, v)
    BY <1>1 DEF UeOk, UeStates, Prepared, HasCell, Identified, BearersCounted, Connecting,
                Ue!Connected, SameRole
<1>3. SameRole(v, Ue!DoConnect(v))
    BY <1>2, Connects
<1> QED BY <1>2, <1>3 DEF Ue!RetryConnect, SameRole

LEMMA Attaches ==
    ASSUME NEW u, UeOk(u), u.rrc = "IDLE_START"
    PROVE  Idle(Ue!Attach(u)) /\ Idle(Ue!AttachToCell(u))
<1> DEFINE searching == [u EXCEPT !.rrc = "IDLE_CELL_SEARCH"]
           waiting   == [u EXCEPT !.rrc = "IDLE_WAIT_MIB"]
<1>1. Idle(searching) /\ Idle(waiting)
    BY DEF Idle, UeOk, UeStates, RrcStates, Prepared, HasCell, Identified, BearersCounted,
           Connecting, Ue!Connected
<1>2. SameRole(searching, Ue!DoConnect(searching)) /\ SameRole(waiting, Ue!DoConnect(waiting))
    BY <1>1, Connects DEF Idle
<1> QED BY <1>1, <1>2 DEF Ue!Attach, Ue!AttachToCell, SameRole, Idle

LEMMA ActivatesBearer ==
    ASSUME NEW u, UeOk(u), u.nas = "OFF", u.forReconnection < MaxBearers
    PROVE  SameRole(u, Ue!ActivateEpsBearer(u))
<1> DEFINE v == [u EXCEPT !.toBeActivated = @ + 1, !.forReconnection = @ + 1]
<1>1. Ue!ActivateEpsBearer(u) = v
    BY DEF Ue!ActivateEpsBearer
<1>2. v \in UeStates /\ v.rnti = u.rnti /\ v.rrc = u.rrc
    <2>1. u \in UeStates /\ u.toBeActivated + 1 \in Nat /\ u.forReconnection + 1 \in Nat
        BY DEF UeOk, UeStates
    <2> QED BY <2>1 DEF UeStates
<1>3. Prepared(v) /\ Identified(v)
    BY <1>2 DEF UeOk, UeStates, Prepared, HasCell, Identified, Connecting, Ue!Connected
<1>4. BearersCounted(v)
    BY ConnectionAssumption DEF UeOk, UeStates, BearersCounted, Ue!Connected
<1> QED BY <1>1, <1>2, <1>3, <1>4 DEF UeOk, SameRole, Connecting, Ue!Connected

LEMMA FindsCell ==
    ASSUME NEW u, UeOk(u), u.rrc = "IDLE_CELL_SEARCH"
    PROVE  Idle(Ue!ReportUeMeasurements(u))
BY DEF Ue!ReportUeMeasurements, Idle, UeOk, UeStates, RrcStates, Prepared, HasCell, Identified,
       BearersCounted, Connecting, Ue!Connected

LEMMA ReceivesMib ==
    ASSUME NEW u, UeOk(u)
    PROVE  SameRole(u, Ue!RecvMasterInformationBlock(u))
<1> DEFINE received == [u EXCEPT !.hasReceivedMib = TRUE]
           chosen   == [received EXCEPT !.rrc = "IDLE_WAIT_SIB1"]
<1>1. /\ UeOk(received) /\ SameRole(u, received)
      /\ received.hasReceivedMib /\ received.rnti = u.rnti
    BY DEF UeOk, UeStates, RrcStates, Prepared, HasCell, Identified, BearersCounted, Connecting,
           Ue!Connected, SameRole
<1>2. CASE u.rrc = "IDLE_WAIT_MIB"
    <2>1. u.rnti = 0 /\ ~Connecting(u) /\ ~Ue!Connected(u)
        BY <1>2 DEF UeOk, Identified, Connecting, Ue!Connected
    <2>2. Idle(Ue!SwitchToCampedNormally(received))
        BY <1>1, <2>1, IdleMayCamp, Camps
    <2> QED BY <1>2, <2>1, <2>2, IdleIsNeither
            DEF Ue!RecvMasterInformationBlock, Idle, SameRole, Connecting, Ue!Connected
<1>3. CASE u.rrc = "IDLE_WAIT_MIB_SIB1"
    <2>1. Ue!RecvMasterInformationBlock(u) = chosen
        BY <1>3 DEF Ue!RecvMasterInformationBlock
    <2>2. SameRole(u, chosen)
        BY <1>3 DEF UeOk, UeStates, RrcStates, Prepared, HasCell, Identified, BearersCounted,
                    Connecting, Ue!Connected, SameRole
    <2> QED BY <2>1, <2>2
<1>4. CASE u.rrc \notin {"IDLE_WAIT_MIB", "IDLE_WAIT_MIB_SIB1"}
    BY <1>1, <1>4 DEF Ue!RecvMasterInformationBlock
<1> QED BY <1>2, <1>3, <1>4

LEMMA ReceivesSib1 ==
    ASSUME NEW u, UeOk(u), u.rrc = "IDLE_WAIT_SIB1"
    PROVE  \A suitable \in BOOLEAN : Idle(Ue!RecvSystemInformationBlockType1(u, suitable))
<1>1. u.rnti = 0 /\ u.hasReceivedMib
    BY DEF UeOk, Identified, Prepared, HasCell, Connecting, Ue!Connected
<1>2. Idle(Ue!RecvSystemInformationBlockType1(u, FALSE))
    BY <1>1 DEF Ue!RecvSystemInformationBlockType1, Idle, UeOk, UeStates, RrcStates, Prepared,
                HasCell, Identified, BearersCounted, Connecting, Ue!Connected
<1>3. Idle(Ue!RecvSystemInformationBlockType1(u, TRUE))
    <2> DEFINE wanted == [u EXCEPT !.connectionPending = TRUE]
    <2>1. MayCamp(u)
        BY <1>1, IdleMayCamp
    <2>2. MayCamp(wanted)
        BY <2>1 DEF MayCamp, UeStates
    <2>3. Ue!DoConnect(u) = wanted
        BY DEF Ue!DoConnect, Ue!Selecting
    <2> QED BY <2>1, <2>2, <2>3, Camps DEF Ue!RecvSystemInformationBlockType1
<1> QED BY <1>2, <1>3

LEMMA ReceivesSib2 ==
    ASSUME NEW u, UeOk(u)
    PROVE  SameRole(u, Ue!RecvSystemInformation(u))
<1> DEFINE received == [u EXCEPT !.hasReceivedSib2 = TRUE, !.rachConfigured = TRUE]
<1>1. UeOk(received) /\ SameRole(u, received) /\ SameRole(u, u)
    BY DEF UeOk, UeStates, RrcStates, Prepared, HasCell, Identified, BearersCounted, Connecting,
           Ue!Connected, SameRole
<1>2. CASE u.rrc = "IDLE_WAIT_SIB2"
    <2>1. /\ u.rnti = 0 /\ ~Connecting(u) /\ ~Ue!Connected(u)
          /\ u.connectionPending /\ u.hasReceivedMib /\ u \in UeStates
        BY <1>2 DEF UeOk, Identified, Prepared, HasCell, Connecting, Ue!Connected
    <2>2. received.rnti = 0 /\ received.hasReceivedMib /\ received.hasReceivedSib2
        BY <2>1 DEF UeStates
    <2>3. Idle(Ue!StartConnection(received))
        BY <1>1, <2>2, IdleMayCamp, StartsConnection
    <2>4. Ue!RecvSystemInformation(u) = Ue!StartConnection(received)
        BY <1>2, <2>1 DEF Ue!RecvSystemInformation, Ue!Selecting
    <2> QED BY <2>1, <2>3, <2>4, IdleIsNeither DEF Idle, SameRole, Connecting, Ue!Connected
<1>3. CASE u.rrc # "IDLE_WAIT_SIB2"
    BY <1>1, <1>3 DEF Ue!RecvSystemInformation
<1> QED BY <1>2, <1>3

LEMMA AccessFails ==
    ASSUME NEW u, UeOk(u), u.rrc = "IDLE_RANDOM_ACCESS"
    PROVE  Idle(Ue!RaResponseTimeout(u))
<1> DEFINE counted == [u EXCEPT !.preambles = @ + 1]
           again   == [counted EXCEPT !.preambleSent = TRUE]
<1>1. /\ counted \in UeStates /\ counted.rnti = 0 /\ counted.rrc = "IDLE_RANDOM_ACCESS"
      /\ counted.hasReceivedMib /\ counted.rachConfigured
    BY DEF UeOk, UeStates, Identified, Prepared, HasCell, Connecting, Ue!Connected
<1>2. UeOk(counted)
    BY <1>1 DEF UeOk, UeStates, Prepared, HasCell, Identified, BearersCounted, Connecting,
                Ue!Connected
<1>3. CASE counted.preambles = PreambleTransMax + 1
    <2>1. Idle(Ue!NotifyConnectionFailed(Ue!SwitchToCampedNormally(counted)))
        BY <1>1, <1>2, IdleMayCamp, Camps, FailedIdle
    <2>2. Ue!NotifyRandomAccessFailed(counted)
              = Ue!NotifyConnectionFailed(Ue!SwitchToCampedNormally(counted))
        BY <1>1 DEF Ue!NotifyRandomAccessFailed
    <2> QED BY <1>3, <2>1, <2>2 DEF Ue!RaResponseTimeout
<1>4. CASE counted.preambles # PreambleTransMax + 1
    <2>1. Ue!RaResponseTimeout(u) = again
        BY <1>1, <1>4 DEF Ue!RaResponseTimeout, Ue!RandomlySelectAndSendRaPreamble,
                          Ue!SendRaPreamble
    <2>2. again \in UeStates /\ again.rnti = 0 /\ again.rrc = "IDLE_RANDOM_ACCESS"
        BY <1>1 DEF UeStates
    <2>3. UeOk(again)
        BY <1>1, <1>2, <2>2 DEF UeOk, UeStates, Prepared, HasCell, Identified, BearersCounted,
                                Connecting, Ue!Connected
    <2> QED BY <2>1, <2>2, <2>3 DEF Idle
<1> QED BY <1>3, <1>4

\* NAS and RRC leave the connection together and the bearers wait for the next.
LEMMA Releases ==
    ASSUME NEW u \in UeStates, ~u.connectionTimeout, u.forReconnection <= MaxBearers
    PROVE  Idle(Ue!LeaveCell(u))
<1> DEFINE left == [u EXCEPT !.rrc = "IDLE_CELL_SEARCH", !.rnti = 0, !.rachConfigured = FALSE,
                             !.hasReceivedMib = FALSE, !.hasReceivedSib2 = FALSE,
                             !.nas = "OFF", !.bidCounter = 0,
                             !.toBeActivated = u.forReconnection]
<1>1. Ue!LeaveCell(u) = left
    BY DEF UeStates, Ue!LeaveCell, Ue!NotifyConnectionReleased, Ue!Disconnect, Ue!DoDisconnect,
           Ue!Selecting, Ue!LeaveConnectedMode, Ue!MacReset
<1>2. left \in UeStates /\ left.rnti = 0
    BY DEF UeStates, RrcStates
<1>3. UeOk(left)
    BY <1>2 DEF UeOk, UeStates, Prepared, HasCell, Identified, BearersCounted, Connecting,
                Ue!Connected
<1> QED BY <1>1, <1>2, <1>3 DEF Idle

LEMMA LosesLink ==
    ASSUME NEW u, UeOk(u), Ue!Connected(u)
    PROVE  Idle(Ue!RadioLinkFailureDetected(u))
<1>1. u \in UeStates /\ ~u.connectionTimeout /\ u.forReconnection <= MaxBearers
    BY DEF UeOk, Identified, BearersCounted, Connecting, Ue!Connected
<1> QED BY <1>1, Releases DEF Ue!RadioLinkFailureDetected

LEMMA Disconnects ==
    ASSUME NEW u, UeOk(u), Ue!Connected(u)
    PROVE  Idle(Ue!Disconnect(u))
<1> DEFINE left == [u EXCEPT !.rrc = "IDLE_CELL_SEARCH", !.rnti = 0, !.rachConfigured = FALSE,
                             !.hasReceivedMib = FALSE, !.hasReceivedSib2 = FALSE,
                             !.nas = "OFF"]
<1>1. Ue!Disconnect(u) = left
    BY DEF UeOk, UeStates, Ue!Disconnect, Ue!DoDisconnect, Ue!Selecting, Ue!Connected,
           Ue!LeaveConnectedMode, Ue!MacReset
<1>2. left \in UeStates /\ left.rnti = 0
    BY DEF UeOk, UeStates, RrcStates
<1>3. UeOk(left)
    BY <1>2 DEF UeOk, UeStates, Prepared, HasCell, Identified, BearersCounted, Connecting,
                Ue!Connected
<1> QED BY <1>1, <1>2, <1>3 DEF Idle

\* Of the MAC's reset, after which the UE camps and waits for SIB2 again.
LEMMA ResetCamps ==
    ASSUME NEW u \in UeStates, ~u.connectionTimeout, u.hasReceivedMib, u.nas = "OFF",
           BearersCounted(u)
    PROVE  Idle(Ue!NotifyConnectionFailed(Ue!SwitchToCampedNormally(
                    [Ue!MacReset(u) EXCEPT !.hasReceivedSib2 = FALSE])))
<1> DEFINE reset == [Ue!MacReset(u) EXCEPT !.hasReceivedSib2 = FALSE]
<1>1. MayCamp(reset)
    BY DEF UeStates, MayCamp, BearersCounted, Ue!MacReset
<1> QED BY <1>1, Camps, FailedIdle

LEMMA TimesOut ==
    ASSUME NEW u, UeOk(u), u.connectionTimeout
    PROVE  Idle(Ue!ConnectionTimeout(u))
<1> DEFINE counted == [u EXCEPT !.connectionTimeout = FALSE, !.connEstFailCount = @ + 1]
           left    == Ue!LeaveCell(counted)
<1>1. /\ u \in UeStates /\ u.hasReceivedMib /\ u.nas = "OFF" /\ Connecting(u)
      /\ ~Ue!Connected(u)
    BY DEF UeOk, UeStates, Identified, Prepared, HasCell, BearersCounted, Connecting,
           Ue!Connected
<1>2. counted \in UeStates /\ ~counted.connectionTimeout
    <2>1. u.connEstFailCount + 1 \in Nat
        BY <1>1 DEF UeStates
    <2> QED BY <1>1, <2>1 DEF UeStates
<1>3. counted.hasReceivedMib /\ counted.nas = "OFF" /\ BearersCounted(counted)
    BY <1>1 DEF UeOk, UeStates, BearersCounted, Ue!Connected
<1>4. CASE counted.connEstFailCount >= ConnEstFailCount
    <2>1. Idle(left)
        BY <1>2, <1>3, Releases DEF BearersCounted
    <2>2. Idle([left EXCEPT !.connEstFailCount = 0])
        <3> HIDE DEF left
        <3> QED BY <2>1 DEF Idle, UeOk, UeStates, RrcStates, Prepared, HasCell, Identified,
                            BearersCounted, Connecting, Ue!Connected
    <2>3. Ue!ConnectionTimeout(u) = [left EXCEPT !.connEstFailCount = 0]
        BY <1>4 DEF Ue!ConnectionTimeout, Ue!LeaveCell
    <2> QED BY <2>2, <2>3
<1>5. CASE ~(counted.connEstFailCount >= ConnEstFailCount)
    BY <1>2, <1>3, <1>5, ResetCamps DEF Ue!ConnectionTimeout
<1> QED BY <1>4, <1>5

LEMMA Rejected ==
    ASSUME NEW u, UeOk(u), Connecting(u)
    PROVE  Idle(Ue!RecvRrcConnectionReject(u))
<1> DEFINE stopped == [u EXCEPT !.connectionTimeout = FALSE]
<1>1. u \in UeStates /\ u.hasReceivedMib /\ u.nas = "OFF"
    BY DEF UeOk, UeStates, Identified, Prepared, HasCell, BearersCounted, Connecting,
           Ue!Connected
<1>2. stopped \in UeStates /\ ~stopped.connectionTimeout
    BY <1>1 DEF UeStates
<1>3. stopped.hasReceivedMib /\ stopped.nas = "OFF" /\ BearersCounted(stopped)
    BY <1>1 DEF UeOk, UeStates, BearersCounted, Ue!Connected
<1>4. [Ue!MacReset(u) EXCEPT !.connectionTimeout = FALSE, !.hasReceivedSib2 = FALSE]
          = [Ue!MacReset(stopped) EXCEPT !.hasReceivedSib2 = FALSE]
    BY <1>1 DEF UeStates, Ue!MacReset
<1> QED BY <1>2, <1>3, <1>4, ResetCamps DEF Ue!RecvRrcConnectionReject

\* The UE takes the RNTI of the response and sends its request.
LEMMA TakesRnti ==
    ASSUME NEW u, UeOk(u), u.rrc = "IDLE_RANDOM_ACCESS", NEW rnti \in Nat, rnti # 0
    PROVE  LET v == Ue!RecvRaResponse(u, rnti)
           IN  UeOk(v) /\ Connecting(v) /\ v.rnti = rnti
<1> DEFINE v == [u EXCEPT !.rnti = rnti, !.rrc = "IDLE_CONNECTING", !.connectionTimeout = TRUE]
<1>1. Ue!RecvRaResponse(u, rnti) = v
    BY DEF Ue!RecvRaResponse
<1>2. v \in UeStates /\ v.rnti = rnti /\ v.rrc = "IDLE_CONNECTING"
    BY DEF UeOk, UeStates, RrcStates
<1>3. UeOk(v)
    BY <1>2 DEF UeOk, UeStates, Prepared, HasCell, Identified, BearersCounted, Connecting,
                Ue!Connected
<1> QED BY <1>1, <1>2, <1>3 DEF Connecting

\* All bearers that wait get an identity: there are no more than identities.
LEMMA IsSetUp ==
    ASSUME NEW u, UeOk(u), Connecting(u)
    PROVE  LET v == Ue!RecvRrcConnectionSetup(u)
           IN  UeOk(v) /\ Ue!Connected(v) /\ v.rnti = u.rnti
<1> DEFINE v == [u EXCEPT !.connEstFailCount = 0, !.connectionTimeout = FALSE,
                          !.rrc = "CONNECTED_NORMALLY", !.nas = "ACTIVE",
                          !.bidCounter = @ + u.toBeActivated, !.toBeActivated = 0]
<1>1. /\ u \in UeStates /\ u.bidCounter \in Nat /\ u.toBeActivated \in Nat
      /\ u.forReconnection \in Nat /\ u.bidCounter + u.toBeActivated = u.forReconnection
      /\ u.forReconnection <= MaxBearers /\ u.rnti # 0 /\ u.hasReceivedMib
    BY DEF UeOk, UeStates, BearersCounted, Identified, Prepared, HasCell, Connecting
<1>2. Ue!RecvRrcConnectionSetup(u) = v
    <2>1. ~(u.bidCounter + u.toBeActivated > 11)
        BY <1>1, ConnectionAssumption
    <2> QED BY <1>1, <2>1 DEF UeStates, Connecting, Ue!RecvRrcConnectionSetup,
                              Ue!NotifyConnectionSuccessful
<1>3. /\ v \in UeStates /\ v.rnti = u.rnti /\ v.rrc = "CONNECTED_NORMALLY"
      /\ v.bidCounter = u.forReconnection
    BY <1>1 DEF UeStates, RrcStates
<1>4. Prepared(v) /\ Identified(v)
    BY <1>1, <1>3 DEF UeOk, UeStates, Prepared, HasCell, Identified, Connecting, Ue!Connected
<1>5. v.nas = "ACTIVE" /\ v.toBeActivated = 0 /\ v.forReconnection = u.forReconnection
    BY <1>1 DEF UeStates
<1>6. BearersCounted(v)
    BY <1>1, <1>3, <1>5 DEF BearersCounted, Ue!Connected
<1> QED BY <1>2, <1>3, <1>4, <1>6 DEF UeOk, Ue!Connected

-----------------------------------------------------------------------------
(* The handlers of the eNB.                                                *)

\* The connection of the context c goes on to a state, with its messages.
GoesTo(next, state, types) == /\ ContextOk(next) /\ next.state = state
                              /\ Enb!Answer(next) = types

LEMMA ContextCreated == GoesTo(Enb!InitContext, "INITIAL_RANDOM_ACCESS", {})
BY DEF GoesTo, ContextOk, ContextStates, TimersOf, Enb!InitContext, Enb!NewContext, Enb!Answer,
       Enb!Timers, Enb!ExpectedState

LEMMA ContextRequested ==
    ASSUME NEW c, ContextOk(c), c.state = "INITIAL_RANDOM_ACCESS"
    PROVE  /\ GoesTo(Enb!RecvRrcConnectionRequest(c, TRUE), "CONNECTION_SETUP", {"SETUP"})
           /\ GoesTo(Enb!RecvRrcConnectionRequest(c, FALSE), "CONNECTION_REJECTED", {"REJECT"})
BY DEF GoesTo, ContextOk, ContextStates, TimersOf, Enb!RecvRrcConnectionRequest, Enb!Answer,
       Enb!Timers, Enb!ExpectedState

LEMMA ContextConfirmed ==
    ASSUME NEW c, ContextOk(c), c.state = "CONNECTION_SETUP"
    PROVE  GoesTo(Enb!RecvRrcConnectionSetupCompleted(c), "ATTACH_REQUEST", {})
BY DEF GoesTo, ContextOk, ContextStates, TimersOf, Enb!RecvRrcConnectionSetupCompleted,
       Enb!Answer, Enb!Established

LEMMA ContextAttached ==
    ASSUME NEW c, ContextOk(c), c.state = "ATTACH_REQUEST"
    PROVE  GoesTo(Enb!InitialContextSetupRequest(c), "CONNECTION_RECONFIGURATION",
                  {"RECONFIGURATION"})
BY DEF GoesTo, ContextOk, ContextStates, TimersOf, Enb!InitialContextSetupRequest,
       Enb!SwitchToConnectedNormally, Enb!ScheduleRrcConnectionReconfiguration, Enb!Answer,
       Enb!Established

LEMMA ContextScheduled ==
    ASSUME NEW c, ContextOk(c), c.state \in Enb!Established \cup {"CONNECTION_SETUP"}
    PROVE  LET next == Enb!ScheduleRrcConnectionReconfiguration(c)
           IN  /\ ContextOk(next)
               /\ \/ next.state = c.state
                  \/ /\ c.state = "CONNECTED_NORMALLY"
                     /\ GoesTo(next, "CONNECTION_RECONFIGURATION", {"RECONFIGURATION"})
BY DEF GoesTo, ContextOk, ContextStates, TimersOf, Enb!ScheduleRrcConnectionReconfiguration,
       Enb!Answer, Enb!Established

LEMMA ContextReconfigured ==
    ASSUME NEW c, ContextOk(c), c.state = "CONNECTION_RECONFIGURATION"
    PROVE  LET next == Enb!RecvRrcConnectionReconfigurationCompleted(c)
           IN  \/ GoesTo(next, "CONNECTED_NORMALLY", {})
               \/ GoesTo(next, "CONNECTION_RECONFIGURATION", {"RECONFIGURATION"})
BY DEF GoesTo, ContextOk, ContextStates, TimersOf, Enb!SwitchToConnectedNormally,
       Enb!RecvRrcConnectionReconfigurationCompleted,
       Enb!ScheduleRrcConnectionReconfiguration, Enb!Answer, Enb!Established

\* A timer of a context that expires is that of its state.
LEMMA TimerExpected ==
    ASSUME NEW c, ContextOk(c), NEW timer \in c.timers
    PROVE  c.state = Enb!ExpectedState[timer] /\ c.state # "ATTACH_REQUEST"
BY DEF ContextOk, ContextStates, TimersOf, Enb!ExpectedState, Enb!Established

-----------------------------------------------------------------------------
(* The connection.                                                         *)

LEMMA InitConnInv == Init => ConnInv
<1> SUFFICES ASSUME Init PROVE ConnInv
    OBVIOUS
<1>1. UeOk(ue) /\ ~Connecting(ue) /\ ~Ue!Connected(ue) /\ ue.rnti = 0
    <2>1. ue \in UeStates
        BY DEF Init, Ue!InitUe, UeStates, RrcStates
    <2>2. Prepared(ue) /\ Identified(ue) /\ ~Connecting(ue) /\ ~Ue!Connected(ue) /\ ue.rnti = 0
        BY DEF Init, Ue!InitUe, Prepared, HasCell, Identified, Connecting, Ue!Connected
    <2>3. BearersCounted(ue)
        BY ConnectionAssumption DEF Init, Ue!InitUe, BearersCounted, Ue!Connected
    <2> QED BY <2>1, <2>2, <2>3 DEF UeOk
<1>2. DOMAIN contexts = {} /\ air = {} /\ removals = {} /\ attaching = {}
    BY DEF Init
<1>3. TypeOK
    BY <1>1, <1>2 DEF Init, TypeOK, Rntis
<1> QED BY <1>1, <1>2, <1>3 DEF ConnInv, InStep, UeInStep, CoreInStep, ConfirmedIsOwned,
                                ContextKnowsUe, EstablishedIsOwned

\* What the UE does by itself, connected or not, does not show elsewhere.
LEMMA SameRoleKeeps ==
    ASSUME ConnInv, SameRole(ue, ue'), mishaps' \in Nat,
           UNCHANGED <<contexts, lastAllocatedRnti, air, attaching, removals, abandoned>>
    PROVE  ConnInv'
<1>1. /\ UeOk(ue') /\ ue'.rnti = ue.rnti
      /\ Connecting(ue') = Connecting(ue) /\ Ue!Connected(ue') = Ue!Connected(ue)
    BY DEF SameRole
<1>2. TypeOK'
    BY <1>1 DEF ConnInv, TypeOK, Rntis
<1>3. InStep'
    BY DEF ConnInv, InStep
<1>4. UeInStep'
    BY <1>1 DEF ConnInv, UeInStep, Connecting, Ue!Connected
<1>5. CoreInStep'
    BY DEF ConnInv, CoreInStep
<1>6. ConfirmedIsOwned' /\ EstablishedIsOwned'
    BY <1>1 DEF ConnInv, ConfirmedIsOwned, EstablishedIsOwned, Owned, Connecting, Ue!Connected
<1>7. ContextKnowsUe'
    BY <1>1 DEF ConnInv, ContextKnowsUe, UnderWay, Connecting, Ue!Connected
<1> QED BY <1>2, <1>3, <1>4, <1>5, <1>6, <1>7 DEF ConnInv

LEMMA IdleKeeps ==
    ASSUME ConnInv, ue.rnti = 0, Idle(ue'), mishaps' \in Nat,
           UNCHANGED <<contexts, lastAllocatedRnti, air, attaching, removals, abandoned>>
    PROVE  ConnInv'
<1>1. SameRole(ue, ue')
    <2>1. UeOk(ue) /\ UeOk(ue') /\ ue'.rnti = 0
        BY DEF ConnInv, TypeOK, Idle
    <2> QED BY <2>1, IdleIsNeither DEF SameRole, Connecting, Ue!Connected
<1> QED BY <1>1, SameRoleKeeps

\* A UE that leaves its cell leaves a context behind that it has asked to
\* remove or that the application has abandoned.
LEMMA LeavingKeeps ==
    ASSUME ConnInv, Idle(ue'), mishaps' \in Nat,
           UNCHANGED <<contexts, lastAllocatedRnti, attaching>>, air' \subseteq air,
           removals \subseteq removals', abandoned \subseteq abandoned',
           Ue!Connected(ue) => ue.rnti \in removals' \cup abandoned',
           removals' \subseteq Rntis,
           \A r \in removals' \cap DOMAIN contexts :
               contexts[r].state \in {"CONNECTED_NORMALLY", "CONNECTION_RECONFIGURATION"}
    PROVE  ConnInv'
<1>1. UeOk(ue') /\ ue'.rnti = 0 /\ ~Connecting(ue') /\ ~Ue!Connected(ue')
    BY IdleIsNeither DEF Idle
<1>2. TypeOK'
    BY <1>1 DEF ConnInv, TypeOK, Rntis
<1>3. InStep'
    BY DEF ConnInv, InStep
<1>4. UeInStep'
    <2>1. \A m \in air : m.rnti # 0
        BY DEF ConnInv, TypeOK, Rntis
    <2> QED BY <1>1, <2>1 DEF UeInStep
<1>5. CoreInStep'
    BY DEF ConnInv, CoreInStep
<1>6. \A r : Owned(r) => Owned(r)'
    BY DEF Owned
<1>7. ConfirmedIsOwned' /\ EstablishedIsOwned'
    BY <1>6 DEF ConnInv, ConfirmedIsOwned, EstablishedIsOwned, Owned
<1>8. ContextKnowsUe'
    BY <1>1 DEF ContextKnowsUe
<1> QED BY <1>2, <1>3, <1>4, <1>5, <1>7, <1>8 DEF ConnInv

-----------------------------------------------------------------------------
(* Steps of the UE by itself.                                              *)

LEMMA UeFacts ==
    ASSUME ConnInv
    PROVE  /\ UeOk(ue) /\ ue.rnti \in Nat /\ mishaps \in Nat /\ mishaps + 1 \in Nat
           /\ ue.rnti = 0 <=> ~Connecting(ue) /\ ~Ue!Connected(ue)
           /\ ~(Connecting(ue) /\ Ue!Connected(ue))
           /\ ue.connectionTimeout = Connecting(ue)
           /\ ue.rnti # 0 => ue.rnti \in Rntis
BY IdleIsNeither DEF ConnInv, TypeOK, UeOk, Identified, Rntis

LEMMA SelectsCell ==
    ASSUME ConnInv, SelectCell
    PROVE  ConnInv'
<1>1. UeOk(ue) /\ mishaps \in Nat /\ mishaps + 1 \in Nat
    BY UeFacts
<1>2. CASE ReportUeMeasurements
    <2>1. ue.rnti = 0
        BY <1>2, UeFacts DEF ReportUeMeasurements, Connecting, Ue!Connected
    <2> QED BY <1>1, <1>2, <2>1, FindsCell, IdleKeeps DEF ReportUeMeasurements, UeTo, Quietly
<1>3. CASE RecvMasterInformationBlock
    BY <1>1, <1>3, ReceivesMib, SameRoleKeeps DEF RecvMasterInformationBlock, UeTo, Quietly
<1>4. CASE RecvSystemInformationBlockType1
    <2>1. ue.rnti = 0
        BY <1>4, UeFacts DEF RecvSystemInformationBlockType1, Connecting, Ue!Connected
    <2>2. Idle(ue') /\ mishaps' \in Nat
        BY <1>1, <1>4, ReceivesSib1 DEF RecvSystemInformationBlockType1, UeTo, Mishap
    <2> QED BY <1>4, <2>1, <2>2, IdleKeeps DEF RecvSystemInformationBlockType1, UeTo
<1>5. CASE RecvSystemInformation
    BY <1>1, <1>5, ReceivesSib2, SameRoleKeeps DEF RecvSystemInformation, UeTo, Quietly
<1> QED BY <1>2, <1>3, <1>4, <1>5 DEF SelectCell

LEMMA UeSteps ==
    ASSUME ConnInv, Attach \/ ActivateEpsBearer \/ RetryConnect \/ RaResponseTimeout
    PROVE  ConnInv'
<1>1. UeOk(ue) /\ mishaps \in Nat
    BY UeFacts
<1>2. CASE Attach
    <2>1. ue.rnti = 0
        BY <1>2, UeFacts DEF Attach, Connecting, Ue!Connected
    <2>2. Idle(ue')
        BY <1>1, <1>2, Attaches DEF Attach, UeTo
    <2> QED BY <1>1, <1>2, <2>1, <2>2, IdleKeeps DEF Attach, UeTo, Quietly
<1>3. CASE ActivateEpsBearer
    BY <1>1, <1>3, ActivatesBearer, SameRoleKeeps DEF ActivateEpsBearer, UeTo, Quietly
<1>4. CASE RetryConnect
    BY <1>1, <1>4, Retries, SameRoleKeeps DEF RetryConnect, UeTo, Quietly
<1>5. CASE RaResponseTimeout
    <2>1. ue.rnti = 0
        BY <1>5, UeFacts DEF RaResponseTimeout, Connecting, Ue!Connected
    <2> QED BY <1>1, <1>5, <2>1, AccessFails, IdleKeeps DEF RaResponseTimeout, UeTo, Quietly
<1> QED BY <1>2, <1>3, <1>4, <1>5

\* The connection ends at the UE.
LEMMA UeLeaves ==
    ASSUME ConnInv, Disconnect \/ ConnectionTimeout \/ RadioLinkFailureDetected
    PROVE  ConnInv'
<1>1. /\ UeOk(ue) /\ mishaps \in Nat /\ mishaps + 1 \in Nat
      /\ removals \subseteq Rntis
      /\ \A r \in removals \cap DOMAIN contexts :
             contexts[r].state \in {"CONNECTED_NORMALLY", "CONNECTION_RECONFIGURATION"}
    BY UeFacts DEF ConnInv, TypeOK, CoreInStep
<1>2. CASE Disconnect
    <2>1. Ue!Connected(ue) /\ Idle(ue') /\ mishaps' \in Nat
        BY <1>1, <1>2, Disconnects DEF Disconnect, UeTo, Mishap
    <2>2. removals' = removals /\ abandoned' = abandoned \cup {ue.rnti}
        BY <1>2 DEF Disconnect
    <2>3. UNCHANGED <<contexts, lastAllocatedRnti, air, attaching>>
        BY <1>2 DEF Disconnect, UeTo
    <2> QED BY <1>1, <2>1, <2>2, <2>3, LeavingKeeps
<1>3. CASE ConnectionTimeout
    <2>1. ue.connectionTimeout /\ ~Ue!Connected(ue)
        BY <1>3, UeFacts DEF ConnectionTimeout
    <2>2. Idle(ue') /\ mishaps' \in Nat
        BY <1>1, <1>3, <2>1, TimesOut DEF ConnectionTimeout, UeTo, Mishap
    <2>3. removals' = removals /\ abandoned' = abandoned
        BY <1>3 DEF ConnectionTimeout
    <2>4. UNCHANGED <<contexts, lastAllocatedRnti, air, attaching>>
        BY <1>3 DEF ConnectionTimeout, UeTo
    <2> QED BY <1>1, <2>1, <2>2, <2>3, <2>4, LeavingKeeps
<1>4. CASE RadioLinkFailureDetected
    <2>1. Ue!Connected(ue) /\ Idle(ue') /\ mishaps' \in Nat
        BY <1>1, <1>4, LosesLink DEF RadioLinkFailureDetected, UeTo, Mishap
    <2>2. removals' = removals \cup {ue.rnti} /\ abandoned' = abandoned
        BY <1>4 DEF RadioLinkFailureDetected, ContextToRemove
    <2>3. UNCHANGED <<contexts, lastAllocatedRnti, air, attaching>>
        BY <1>4 DEF RadioLinkFailureDetected, UeTo
    <2>4. ue.rnti \in Rntis
        BY <2>1, UeFacts
    <2>5. ue.rnti \in DOMAIN contexts =>
              contexts[ue.rnti].state \in {"CONNECTED_NORMALLY", "CONNECTION_RECONFIGURATION"}
        BY <1>4 DEF RadioLinkFailureDetected, ConnInv, CoreInStep, Enb!Established
    <2> QED BY <1>1, <2>1, <2>2, <2>3, <2>4, <2>5, LeavingKeeps
<1> QED BY <1>2, <1>3, <1>4

-----------------------------------------------------------------------------
(* Steps of the eNB.                                                       *)

\* Removing a context nobody waits for takes nothing from the others.
LEMMA RemovingKeeps ==
    ASSUME ConnInv, NEW rnti, RemoveUe(rnti), mishaps' \in Nat,
           UNCHANGED <<ue, lastAllocatedRnti, air, attaching, abandoned>>,
           removals' \subseteq removals, removals \ {rnti} \subseteq removals',
           rnti \in DOMAIN contexts => contexts[rnti].state # "ATTACH_REQUEST"
    PROVE  ConnInv'
<1>1. /\ DOMAIN contexts' = DOMAIN contexts \ {rnti}
      /\ \A r \in DOMAIN contexts' : contexts'[r] = contexts[r]
    BY DEF RemoveUe, Fun!Restrict
<1>2. TypeOK'
    BY <1>1 DEF ConnInv, TypeOK, Rntis
<1>3. InStep'
    BY <1>1 DEF ConnInv, InStep
<1>4. UeInStep'
    BY <1>1 DEF ConnInv, UeInStep
<1>5. CoreInStep'
    BY <1>1 DEF ConnInv, CoreInStep
<1>6. \A r \in DOMAIN contexts' : Owned(r) => Owned(r)'
    BY <1>1 DEF Owned
<1>7. ConfirmedIsOwned' /\ EstablishedIsOwned'
    BY <1>1, <1>6 DEF ConnInv, ConfirmedIsOwned, EstablishedIsOwned, Owned
<1>8. ContextKnowsUe'
    BY <1>1 DEF ConnInv, ContextKnowsUe, UnderWay
<1> QED BY <1>2, <1>3, <1>4, <1>5, <1>7, <1>8 DEF ConnInv

\* A context is replaced, and the answer is the one message of it under way.
GoesOn(rnti, next) ==
    /\ rnti \in DOMAIN contexts
    /\ ContextTo(rnti, next)
    /\ air' = {m \in air : m.rnti # rnti} \cup Sent(rnti, Enb!Answer(next))
    /\ attaching' = {r \in DOMAIN contexts' : contexts'[r].state = "ATTACH_REQUEST"}
    /\ UNCHANGED <<ue, lastAllocatedRnti, removals, abandoned>>
    /\ mishaps' \in Nat

\* The state a context is going to, and the message, fit the UE that has its
\* RNTI and what is asked of the eNB.
Fits(rnti, state, types) ==
    /\ types \subseteq Downlink \ {"RAR"}
    /\ \A t \in types : types = {t} /\ StateOf(t) = state
    /\ ue.rnti = rnti =>
           /\ \A t \in types : \/ t \in ConnectingTypes /\ Connecting(ue)
                               \/ t \in ConnectedTypes /\ Ue!Connected(ue)
           /\ Connecting(ue) => state \notin Enb!Established
           /\ Ue!Connected(ue) =>
                  \/ state = "CONNECTED_NORMALLY"
                  \/ state = "ATTACH_REQUEST"
                  \/ state = "CONNECTION_RECONFIGURATION" /\ "RECONFIGURATION" \in types
    /\ rnti \in removals => state \in {"CONNECTED_NORMALLY", "CONNECTION_RECONFIGURATION"}
    /\ state \in Enb!Established => Owned(rnti)

LEMMA GoingOnKeeps ==
    ASSUME ConnInv, NEW rnti, NEW next, NEW state, NEW types,
           GoesOn(rnti, next), GoesTo(next, state, types), Fits(rnti, state, types)
    PROVE  ConnInv'
<1> USE DEF Fits
<1>1. /\ rnti \in DOMAIN contexts /\ ContextTo(rnti, next) /\ mishaps' \in Nat
      /\ air' = {m \in air : m.rnti # rnti} \cup Sent(rnti, types)
      /\ attaching' = {r \in DOMAIN contexts' : contexts'[r].state = "ATTACH_REQUEST"}
      /\ UNCHANGED <<ue, lastAllocatedRnti, removals, abandoned>>
    BY DEF GoesOn, GoesTo
<1>2. /\ DOMAIN contexts' = DOMAIN contexts
      /\ contexts'[rnti] = next
      /\ \A r \in DOMAIN contexts : r # rnti => contexts'[r] = contexts[r]
    BY <1>1 DEF ContextTo
<1>3. ContextOk(next) /\ next.state = state
    BY DEF GoesTo
<1>4. /\ \A m \in air' : m.rnti # rnti => m \in air
      /\ \A m \in air : m.rnti # rnti => m \in air'
      /\ \A m \in air' : m.rnti = rnti => m.type \in types /\ m = Message(m.type, rnti)
      /\ \A t \in types : Message(t, rnti) \in air'
    BY <1>1 DEF Sent, Message
<1>5. TypeOK'
    <2>1. rnti \in Rntis
        BY <1>1 DEF ConnInv, TypeOK
    <2>2. air' \subseteq [type : Downlink \cup Uplink, rnti : Rntis]
        BY <1>1, <2>1 DEF ConnInv, TypeOK, Sent, Message
    <2> QED BY <1>1, <1>2, <1>3, <2>2 DEF ConnInv, TypeOK, Rntis
<1>6. InStep'
    <2>1. \A m, n \in air' : m.rnti = n.rnti => m = n
        BY <1>1, <1>4 DEF ConnInv, InStep
    <2>2. \A m \in air' : m.rnti \in DOMAIN contexts' =>
              contexts'[m.rnti].state = StateOf(m.type)
        BY <1>1, <1>2, <1>3, <1>4 DEF ConnInv, InStep
    <2> QED BY <2>1, <2>2 DEF InStep
<1>7. UeInStep'
    <2>1. \A m \in air' : m.rnti = ue.rnti =>
              \/ m.type \in ConnectingTypes /\ Connecting(ue)
              \/ m.type \in ConnectedTypes /\ Ue!Connected(ue)
        BY <1>1, <1>4 DEF ConnInv, UeInStep
    <2>2. Connecting(ue) /\ ue.rnti \in DOMAIN contexts' =>
              contexts'[ue.rnti].state \notin Enb!Established
        BY <1>1, <1>2, <1>3 DEF ConnInv, UeInStep
    <2> QED BY <1>1, <2>1, <2>2 DEF UeInStep
<1>8. CoreInStep'
    BY <1>1, <1>2, <1>3 DEF ConnInv, CoreInStep
<1>9. \A r : Owned(r)' = Owned(r)
    BY <1>1 DEF Owned
<1>10. ConfirmedIsOwned'
    BY <1>1, <1>2, <1>4, <1>9 DEF ConnInv, ConfirmedIsOwned, Downlink
<1>11. EstablishedIsOwned'
    BY <1>1, <1>2, <1>3, <1>9 DEF ConnInv, EstablishedIsOwned, Owned
<1>12. ContextKnowsUe'
    <2> SUFFICES ASSUME Ue!Connected(ue), ue.rnti \in DOMAIN contexts
                 PROVE  LET s == contexts'[ue.rnti].state
                        IN  \/ s = "CONNECTED_NORMALLY"
                            \/ s = "ATTACH_REQUEST" /\ ue.rnti \in attaching'
                            \/ s = "CONNECTION_SETUP" /\ UnderWay({"SETUP_COMPLETED"}, ue.rnti)'
                            \/ /\ s = "CONNECTION_RECONFIGURATION"
                               /\ UnderWay({"RECONFIGURATION", "RECONFIGURATION_COMPLETED"},
                                           ue.rnti)'
        BY <1>1, <1>2 DEF ContextKnowsUe
    <2>1. CASE ue.rnti = rnti
        BY <1>1, <1>2, <1>3, <1>4, <2>1 DEF UnderWay, Message
    <2>2. CASE ue.rnti # rnti
        BY <1>1, <1>2, <1>4, <2>2 DEF ConnInv, ContextKnowsUe, UnderWay, CoreInStep
    <2> QED BY <2>1, <2>2
<1> QED BY <1>5, <1>6, <1>7, <1>8, <1>10, <1>11, <1>12 DEF ConnInv

\* A context whose state does not change.
LEMMA StayingKeeps ==
    ASSUME ConnInv, NEW rnti \in DOMAIN contexts, NEW next, ContextOk(next),
           next.state = contexts[rnti].state, ContextTo(rnti, next), mishaps' \in Nat,
           UNCHANGED <<ue, lastAllocatedRnti, air, removals, attaching, abandoned>>
    PROVE  ConnInv'
<1>1. /\ DOMAIN contexts' = DOMAIN contexts
      /\ \A r \in DOMAIN contexts : contexts'[r].state = contexts[r].state
      /\ \A r \in DOMAIN contexts' : ContextOk(contexts'[r])
    BY DEF ContextTo, ConnInv, TypeOK
<1>2. TypeOK'
    BY <1>1 DEF ConnInv, TypeOK, Rntis
<1>3. InStep' /\ UeInStep' /\ CoreInStep'
    BY <1>1 DEF ConnInv, InStep, UeInStep, CoreInStep
<1>4. \A r : Owned(r)' = Owned(r)
    BY DEF Owned
<1>5. ConfirmedIsOwned' /\ EstablishedIsOwned'
    BY <1>1, <1>4 DEF ConnInv, ConfirmedIsOwned, EstablishedIsOwned, Owned
<1>6. ContextKnowsUe'
    BY <1>1 DEF ConnInv, ContextKnowsUe, UnderWay
<1> QED BY <1>2, <1>3, <1>5, <1>6 DEF ConnInv

\* A preamble brings a context with an RNTI that nothing is known by yet.
LEMMA PreambleReceived ==
    ASSUME ConnInv, RecvPreamble
    PROVE  ConnInv'
<1> DEFINE rnti == lastAllocatedRnti + 1
<1>1. /\ SameRole(ue, ue') /\ mishaps' = mishaps /\ mishaps \in Nat
      /\ UNCHANGED <<attaching, removals, abandoned>>
    <2>1. ue' = [ue EXCEPT !.preambleSent = FALSE] /\ UeOk(ue)
        BY UeFacts DEF RecvPreamble
    <2>2. ue' \in UeStates /\ ue'.rnti = ue.rnti /\ ue'.rrc = ue.rrc
        BY <2>1 DEF UeOk, UeStates
    <2>3. UeOk(ue')
        BY <2>1, <2>2 DEF UeOk, UeStates, Prepared, HasCell, Identified, BearersCounted,
                          Connecting, Ue!Connected
    <2> QED BY <2>2, <2>3, UeFacts DEF RecvPreamble, Quietly, SameRole, Connecting, Ue!Connected
<1>2. CASE UNCHANGED <<contexts, lastAllocatedRnti, air>>
    BY <1>1, <1>2, SameRoleKeeps
<1>3. CASE /\ lastAllocatedRnti' = rnti
           /\ contexts' = [r \in DOMAIN contexts \cup {rnti} |->
                              IF r = rnti THEN Enb!InitContext ELSE contexts[r]]
           /\ air' = air \cup {Message("RAR", rnti)}
    <2>1. /\ lastAllocatedRnti \in Nat /\ rnti \in Rntis' /\ Rntis \subseteq Rntis'
          /\ rnti \notin Rntis /\ ue.rnti # rnti /\ rnti \notin DOMAIN contexts
          /\ rnti \notin removals
        BY <1>3 DEF ConnInv, TypeOK, Rntis
    <2>2. /\ DOMAIN contexts' = DOMAIN contexts \cup {rnti}
          /\ contexts'[rnti] = Enb!InitContext
          /\ \A r \in DOMAIN contexts : contexts'[r] = contexts[r]
        BY <1>3, <2>1
    <2>3. /\ ContextOk(Enb!InitContext) /\ Enb!InitContext.state = "INITIAL_RANDOM_ACCESS"
          /\ Enb!InitContext.state \notin Enb!Established
        BY ContextCreated DEF GoesTo, Enb!Established
    <2>4. \A m \in air' : \/ m \in air /\ m.rnti # rnti /\ m.rnti \in Rntis
                          \/ m = Message("RAR", rnti)
        BY <1>3, <2>1 DEF ConnInv, TypeOK
    <2>5. /\ UeOk(ue') /\ ue'.rnti = ue.rnti
          /\ Connecting(ue') = Connecting(ue) /\ Ue!Connected(ue') = Ue!Connected(ue)
        BY <1>1 DEF SameRole
    <2>6. TypeOK'
        <3>1. air' \subseteq [type : Downlink \cup Uplink, rnti : Rntis']
            BY <2>1, <2>4 DEF ConnInv, TypeOK, Message, Downlink
        <3>2. \A r \in DOMAIN contexts' : ContextOk(contexts'[r])
            BY <2>2, <2>3 DEF ConnInv, TypeOK
        <3>3. ue'.rnti <= lastAllocatedRnti'
            BY <1>3, <2>5, UeFacts DEF ConnInv, TypeOK
        <3>4. DOMAIN contexts' \subseteq Rntis' /\ removals' \subseteq Rntis'
            BY <1>1, <2>1, <2>2 DEF ConnInv, TypeOK
        <3>5. lastAllocatedRnti' \in Nat /\ mishaps' \in Nat
            BY <1>1, <1>3, <2>1
        <3> QED BY <2>5, <3>1, <3>2, <3>3, <3>4, <3>5 DEF TypeOK
    <2>7. InStep'
        BY <2>2, <2>3, <2>4 DEF ConnInv, InStep, Message, StateOf
    <2>8. UeInStep'
        <3>1. \A m \in air' : m.rnti = ue'.rnti =>
                  \/ m.type \in ConnectingTypes /\ Connecting(ue)
                  \/ m.type \in ConnectedTypes /\ Ue!Connected(ue)
            BY <2>1, <2>4, <2>5 DEF ConnInv, UeInStep, Message
        <3>2. Connecting(ue) /\ ue.rnti \in DOMAIN contexts' =>
                  contexts'[ue.rnti].state \notin Enb!Established
            BY <2>1, <2>2 DEF ConnInv, UeInStep
        <3> QED BY <2>5, <3>1, <3>2 DEF UeInStep
    <2>9. CoreInStep'
        BY <1>1, <2>1, <2>2, <2>3, Zenon DEF ConnInv, CoreInStep, Enb!Established
    <2>10. \A r : Owned(r)' = Owned(r)
        BY <1>1, <2>5, Zenon DEF Owned
    <2>11. ConfirmedIsOwned'
        BY <2>2, <2>4, <2>10 DEF ConnInv, ConfirmedIsOwned, Message
    <2>12. EstablishedIsOwned'
        BY <2>2, <2>3, <2>10 DEF ConnInv, EstablishedIsOwned, Owned
    <2>13. ContextKnowsUe'
        <3>1. \A types : UnderWay(types, ue.rnti) => UnderWay(types, ue.rnti)'
            BY <1>3, <2>5 DEF UnderWay
        <3> QED BY <1>1, <2>1, <2>2, <2>5, <3>1 DEF ConnInv, ContextKnowsUe
    <2> QED BY <2>6, <2>7, <2>8, <2>9, <2>11, <2>12, <2>13 DEF ConnInv
<1> QED BY <1>2, <1>3 DEF RecvPreamble

LEMMA TimerExpires ==
    ASSUME ConnInv, NEW rnti, NEW timer, ExpireTimer(timer, rnti)
    PROVE  ConnInv'
<1>1. rnti \in DOMAIN contexts /\ timer \in contexts[rnti].timers /\ ContextOk(contexts[rnti])
    BY DEF ExpireTimer, ConnInv, TypeOK
<1>2. /\ contexts[rnti].state = Enb!ExpectedState[timer]
      /\ contexts[rnti].state # "ATTACH_REQUEST"
    BY <1>1, TimerExpected
<1>3. mishaps' \in Nat
    BY UeFacts DEF ExpireTimer, Mishap
<1>4. /\ RemoveUe(rnti)
      /\ UNCHANGED <<ue, lastAllocatedRnti, air, removals, attaching, abandoned>>
    BY <1>2 DEF ExpireTimer, EnbOnly
<1> QED BY <1>2, <1>3, <1>4, RemovingKeeps

LEMMA RemovalRequested ==
    ASSUME ConnInv, NEW rnti, RecvIdealUeContextRemoveRequest(rnti)
    PROVE  ConnInv'
<1>1. rnti \in DOMAIN contexts => contexts[rnti].state # "ATTACH_REQUEST"
    BY DEF ConnInv, CoreInStep, RecvIdealUeContextRemoveRequest
<1>2. /\ RemoveUe(rnti) /\ removals' = removals \ {rnti}
      /\ UNCHANGED <<ue, lastAllocatedRnti, air, attaching, mishaps, abandoned>>
    BY DEF RecvIdealUeContextRemoveRequest, EnbOnly
<1> QED BY <1>1, <1>2, RemovingKeeps, UeFacts

\* While a context is in a state that no message is about, none is under way.
LEMMA NothingUnderWay ==
    ASSUME ConnInv, NEW rnti \in DOMAIN contexts,
           contexts[rnti].state \in {"ATTACH_REQUEST", "CONNECTED_NORMALLY"}
    PROVE  \A m \in air : m.rnti # rnti
BY DEF ConnInv, InStep, StateOf

\* An established context that the UE has the RNTI of is that of a connection.
LEMMA UeOfEstablished ==
    ASSUME ConnInv, NEW rnti \in DOMAIN contexts, contexts[rnti].state \in Enb!Established,
           ue.rnti = rnti
    PROVE  Ue!Connected(ue) /\ ~Connecting(ue)
BY UeFacts DEF ConnInv, UeInStep, TypeOK, Rntis

\* Whatever an established connection goes on to fits its UE.
LEMMA EstablishedFits ==
    ASSUME ConnInv, NEW rnti \in DOMAIN contexts, contexts[rnti].state \in Enb!Established
    PROVE  /\ Fits(rnti, "CONNECTED_NORMALLY", {})
           /\ Fits(rnti, "CONNECTION_RECONFIGURATION", {"RECONFIGURATION"})
<1>1. ue.rnti = rnti => Ue!Connected(ue) /\ ~Connecting(ue)
    BY UeOfEstablished
<1>2. Owned(rnti)
    BY DEF ConnInv, EstablishedIsOwned, Owned
<1>3. /\ "RECONFIGURATION" \in Downlink \ {"RAR"} /\ "RECONFIGURATION" \in ConnectedTypes
      /\ StateOf("RECONFIGURATION") = "CONNECTION_RECONFIGURATION"
    BY DEF Downlink, ConnectedTypes, StateOf
<1>4. Fits(rnti, "CONNECTED_NORMALLY", {})
    BY <1>1, <1>2 DEF Fits
<1>5. Fits(rnti, "CONNECTION_RECONFIGURATION", {"RECONFIGURATION"})
    BY <1>1, <1>2, <1>3 DEF Fits
<1> QED BY <1>4, <1>5

LEMMA CoreAnswers ==
    ASSUME ConnInv, NEW rnti, InitialContextSetup(rnti)
    PROVE  ConnInv'
<1> DEFINE next == Enb!InitialContextSetupRequest(contexts[rnti])
<1>1. /\ rnti \in DOMAIN contexts /\ contexts[rnti].state = "ATTACH_REQUEST"
      /\ contexts[rnti].state \in Enb!Established
    BY DEF InitialContextSetup, ConnInv, CoreInStep, Enb!Established
<1>2. ContextOk(contexts[rnti])
    BY <1>1 DEF ConnInv, TypeOK
<1>3. GoesTo(next, "CONNECTION_RECONFIGURATION", {"RECONFIGURATION"})
    BY <1>1, <1>2, ContextAttached
<1>4. /\ attaching' = attaching \ {rnti}
      /\ ContextTo(rnti, next) /\ air' = air \cup Sent(rnti, Enb!Answer(next))
      /\ UNCHANGED <<ue, lastAllocatedRnti, removals, mishaps, abandoned>>
    BY <1>1 DEF InitialContextSetup, Quietly
<1> HIDE DEF next
<1>5. air = {m \in air : m.rnti # rnti}
    BY <1>1, NothingUnderWay
<1>6. attaching' = {r \in DOMAIN contexts' : contexts'[r].state = "ATTACH_REQUEST"}
    BY <1>3, <1>4 DEF GoesTo, ContextTo, ConnInv, CoreInStep
<1>7. GoesOn(rnti, next)
    BY <1>1, <1>4, <1>5, <1>6, UeFacts DEF GoesOn
<1>8. Fits(rnti, "CONNECTION_RECONFIGURATION", {"RECONFIGURATION"})
    BY <1>1, EstablishedFits
<1> QED BY <1>3, <1>7, <1>8, GoingOnKeeps

LEMMA IsScheduled ==
    ASSUME ConnInv, NEW rnti, ScheduleRrcConnectionReconfiguration(rnti)
    PROVE  ConnInv'
<1> DEFINE next == Enb!ScheduleRrcConnectionReconfiguration(contexts[rnti])
<1>1. /\ rnti \in DOMAIN contexts /\ ContextTo(rnti, next)
      /\ contexts[rnti].state \in Enb!Established \cup {"CONNECTION_SETUP"}
      /\ air' = IF contexts[rnti].state = next.state THEN air
                ELSE air \cup Sent(rnti, Enb!Answer(next))
      /\ UNCHANGED <<ue, lastAllocatedRnti, removals, attaching, abandoned>>
    BY DEF ScheduleRrcConnectionReconfiguration, EnbOnly
<1>2. mishaps' \in Nat
    BY UeFacts DEF ScheduleRrcConnectionReconfiguration, Mishap
<1>3. ContextOk(contexts[rnti])
    BY <1>1 DEF ConnInv, TypeOK
<1>4. /\ ContextOk(next)
      /\ \/ next.state = contexts[rnti].state
         \/ /\ contexts[rnti].state = "CONNECTED_NORMALLY"
            /\ GoesTo(next, "CONNECTION_RECONFIGURATION", {"RECONFIGURATION"})
    BY <1>1, <1>3, ContextScheduled
<1> HIDE DEF next
<1>5. CASE next.state = contexts[rnti].state
    BY <1>1, <1>2, <1>4, <1>5, StayingKeeps
<1>6. CASE /\ contexts[rnti].state = "CONNECTED_NORMALLY"
           /\ GoesTo(next, "CONNECTION_RECONFIGURATION", {"RECONFIGURATION"})
    <2>1. air = {m \in air : m.rnti # rnti}
        BY <1>1, <1>6, NothingUnderWay
    <2>2. next.state = "CONNECTION_RECONFIGURATION"
        BY <1>6 DEF GoesTo
    <2>3. attaching' = {r \in DOMAIN contexts' : contexts'[r].state = "ATTACH_REQUEST"}
        BY <1>1, <1>6, <2>2 DEF ContextTo, ConnInv, CoreInStep
    <2>4. GoesOn(rnti, next)
        BY <1>1, <1>2, <1>6, <2>1, <2>2, <2>3 DEF GoesOn
    <2>5. Fits(rnti, "CONNECTION_RECONFIGURATION", {"RECONFIGURATION"})
        BY <1>1, <1>6, EstablishedFits DEF Enb!Established
    <2> QED BY <1>6, <2>4, <2>5, GoingOnKeeps
<1> QED BY <1>4, <1>5, <1>6

-----------------------------------------------------------------------------
(* Arrivals and losses.                                                    *)

\* A message is gone that the sides of a connection do not need to agree.
LEMMA DroppingKeeps ==
    ASSUME ConnInv, SameRole(ue, ue'), mishaps' \in Nat, NEW gone \in air,
           air' = air \ {gone},
           UNCHANGED <<contexts, lastAllocatedRnti, attaching, removals, abandoned>>,
           \/ gone.type \notin ConnectedTypes
           \/ gone.rnti # ue.rnti
           \/ gone.rnti \notin DOMAIN contexts
    PROVE  ConnInv'
<1>1. /\ UeOk(ue') /\ ue'.rnti = ue.rnti
      /\ Connecting(ue') = Connecting(ue) /\ Ue!Connected(ue') = Ue!Connected(ue)
    BY DEF SameRole
<1>2. TypeOK'
    BY <1>1 DEF ConnInv, TypeOK, Rntis
<1>3. InStep'
    BY DEF ConnInv, InStep
<1>4. UeInStep'
    BY <1>1 DEF ConnInv, UeInStep
<1>5. CoreInStep'
    BY DEF ConnInv, CoreInStep
<1>6. \A r : Owned(r)' = Owned(r)
    BY <1>1 DEF Owned
<1>7. ConfirmedIsOwned' /\ EstablishedIsOwned'
    BY <1>6 DEF ConnInv, ConfirmedIsOwned, EstablishedIsOwned, Owned
<1>8. ContextKnowsUe'
    BY <1>1 DEF ConnInv, ContextKnowsUe, UnderWay, ConnectedTypes
<1> QED BY <1>2, <1>3, <1>4, <1>5, <1>7, <1>8 DEF ConnInv

LEMMA SameUe ==
    ASSUME ConnInv, ue' = ue
    PROVE  SameRole(ue, ue')
BY UeFacts DEF SameRole

LEMMA IsLost ==
    ASSUME ConnInv, Lose \/ DropUnsent
    PROVE  ConnInv'
<1>1. mishaps' \in Nat
    BY UeFacts DEF Lose, DropUnsent, Mishap, Quietly
<1>2. CASE Lose
    <2>1. UNCHANGED <<contexts, lastAllocatedRnti, attaching, removals, abandoned>>
        BY <1>2 DEF Lose
    <2>2. CASE ue' = [ue EXCEPT !.preambleSent = FALSE] /\ UNCHANGED air
        <3>1. ue' \in UeStates /\ ue'.rnti = ue.rnti /\ ue'.rrc = ue.rrc /\ UeOk(ue)
            BY <2>2, UeFacts DEF UeOk, UeStates
        <3>2. UeOk(ue')
            BY <2>2, <3>1 DEF UeOk, UeStates, Prepared, HasCell, Identified, BearersCounted,
                              Connecting, Ue!Connected
        <3>3. SameRole(ue, ue')
            BY <3>1, <3>2 DEF SameRole, Connecting, Ue!Connected
        <3> QED BY <1>1, <2>1, <2>2, <3>3, SameRoleKeeps
    <2>3. CASE \E m \in air : /\ m.type \in {"RAR", "REQUEST", "SETUP", "REJECT"}
                              /\ air' = air \ {m} /\ ue' = ue
        <3>1. PICK m \in air : /\ m.type \in {"RAR", "REQUEST", "SETUP", "REJECT"}
                               /\ air' = air \ {m} /\ ue' = ue
            BY <2>3
        <3> QED BY <1>1, <2>1, <3>1, SameUe, DroppingKeeps DEF ConnectedTypes
    <2> QED BY <1>2, <2>2, <2>3 DEF Lose
<1>3. CASE DropUnsent
    <2>1. PICK m \in air : /\ \/ m.type \in Downlink /\ m.rnti \notin DOMAIN contexts
                              \/ m.type \in Uplink /\ m.rnti # ue.rnti
                           /\ air' = air \ {m}
        BY <1>3 DEF DropUnsent
    <2>2. UNCHANGED <<ue, contexts, lastAllocatedRnti, attaching, removals, abandoned>>
        BY <1>3 DEF DropUnsent, Quietly
    <2> QED BY <1>1, <2>1, <2>2, SameUe, DroppingKeeps
<1> QED BY <1>2, <1>3

\* The UE takes a message and answers it.
LEMMA ReplyingKeeps ==
    ASSUME ConnInv, NEW message \in air, NEW reply \in Uplink, UeOk(ue'), mishaps' \in Nat,
           ue'.rnti = message.rnti, ue.rnti \in {0, message.rnti},
           air' = (air \ {message}) \cup {Message(reply, message.rnti)},
           UNCHANGED <<contexts, lastAllocatedRnti, attaching, removals, abandoned>>,
           StateOf(reply) = StateOf(message.type),
           \/ reply \in ConnectingTypes /\ Connecting(ue') /\ ~Ue!Connected(ue')
           \/ reply \in ConnectedTypes /\ Ue!Connected(ue') /\ ~Connecting(ue'),
           Ue!Connected(ue) => Ue!Connected(ue')
    PROVE  ConnInv'
<1> DEFINE rnti == message.rnti
<1>1. /\ rnti \in Rntis /\ rnti # 0 /\ message.type \in Downlink \cup Uplink
      /\ rnti \in Nat /\ lastAllocatedRnti \in Nat /\ rnti <= lastAllocatedRnti
    BY DEF ConnInv, TypeOK, Rntis
<1>2. \A m \in air : m.rnti = rnti => m = message
    BY DEF ConnInv, InStep
<1>3. /\ \A m \in air' : \/ m \in air /\ m.rnti # rnti
                         \/ m = Message(reply, rnti) /\ m.type = reply /\ m.rnti = rnti
      /\ \A m \in air : m.rnti # rnti => m \in air'
      /\ Message(reply, rnti) \in air'
    BY <1>2 DEF Message
<1>4. rnti \in DOMAIN contexts => contexts[rnti].state = StateOf(reply)
    BY DEF ConnInv, InStep
<1>5. ue.rnti = 0 => ~Ue!Connected(ue)
    BY UeFacts
<1>6. TypeOK'
    <2>1. air' \subseteq [type : Downlink \cup Uplink, rnti : Rntis]
        BY <1>1 DEF ConnInv, TypeOK, Message
    <2> QED BY <1>1, <2>1 DEF ConnInv, TypeOK, Rntis
<1>7. InStep'
    <2>1. \A m, n \in air' : m.rnti = n.rnti => m = n
        BY <1>3 DEF ConnInv, InStep
    <2>2. \A m \in air' : m.rnti \in DOMAIN contexts =>
              contexts[m.rnti].state = StateOf(m.type)
        BY <1>3, <1>4 DEF ConnInv, InStep
    <2> QED BY <2>1, <2>2 DEF InStep
<1>8. UeInStep'
    <2>1. \A m \in air' : m.rnti = ue'.rnti =>
              \/ m.type \in ConnectingTypes /\ Connecting(ue')
              \/ m.type \in ConnectedTypes /\ Ue!Connected(ue')
        BY <1>3
    <2>2. Connecting(ue') /\ rnti \in DOMAIN contexts =>
              contexts[rnti].state \notin Enb!Established
        BY <1>4 DEF ConnectingTypes, Uplink, StateOf, Enb!Established
    <2> QED BY <2>1, <2>2 DEF UeInStep
<1>9. CoreInStep'
    BY DEF ConnInv, CoreInStep
<1>10. \A r : Owned(r) => Owned(r)'
    BY <1>5 DEF Owned
<1>11. ConfirmedIsOwned'
    <2>1. ASSUME NEW m \in air', m.type = "SETUP_COMPLETED", m.rnti \in DOMAIN contexts
          PROVE  Owned(m.rnti)'
        <3>1. CASE m \in air
            BY <1>10, <2>1, <3>1 DEF ConnInv, ConfirmedIsOwned
        <3>2. CASE m.type = reply /\ m.rnti = rnti
            BY <2>1, <3>2 DEF Owned, ConnectingTypes
        <3> QED BY <1>3, <3>1, <3>2
    <2> QED BY <2>1 DEF ConfirmedIsOwned
<1>12. EstablishedIsOwned'
    BY <1>10 DEF ConnInv, EstablishedIsOwned, Owned
<1>13. ContextKnowsUe'
    <2> SUFFICES ASSUME Ue!Connected(ue'), rnti \in DOMAIN contexts
                 PROVE  \/ /\ contexts[rnti].state = "CONNECTION_SETUP"
                           /\ UnderWay({"SETUP_COMPLETED"}, rnti)'
                        \/ /\ contexts[rnti].state = "CONNECTION_RECONFIGURATION"
                           /\ UnderWay({"RECONFIGURATION", "RECONFIGURATION_COMPLETED"}, rnti)'
        BY DEF ContextKnowsUe, UnderWay
    <2>1. reply \in {"SETUP_COMPLETED", "RECONFIGURATION_COMPLETED"}
        BY DEF Uplink, ConnectedTypes
    <2> QED BY <1>3, <1>4, <2>1 DEF UnderWay, StateOf, Message
<1> QED BY <1>6, <1>7, <1>8, <1>9, <1>11, <1>12, <1>13 DEF ConnInv

LEMMA DownlinkArrives ==
    ASSUME ConnInv, NEW type \in Downlink, NEW rnti \in Rntis, ArriveDownlink(type, rnti)
    PROVE  ConnInv'
<1> DEFINE message == Message(type, rnti)
           isForUe == IF type = "RAR" THEN ue.rrc = "IDLE_RANDOM_ACCESS" ELSE ue.rnti = rnti
<1>1. /\ message \in air /\ message.type = type /\ message.rnti = rnti
      /\ UNCHANGED <<contexts, lastAllocatedRnti, attaching, removals, abandoned>>
      /\ mishaps' \in Nat /\ UeOk(ue)
    BY UeFacts DEF ArriveDownlink, Message, Quietly
<1>2. rnti \in Nat /\ rnti # 0
    BY DEF Rntis
<1>3. CASE ~isForUe /\ UeReplies(message, ue, {})
    <2>1. ue' = ue /\ air' = air \ {message}
        BY <1>3 DEF UeReplies, Sent
    <2>2. type = "RAR" \/ rnti # ue.rnti
        BY <1>3
    <2> QED BY <1>1, <2>1, <2>2, SameUe, DroppingKeeps DEF ConnectedTypes
<1>4. CASE isForUe /\ type = "RAR" /\ UeReplies(message, Ue!RecvRaResponse(ue, rnti), {"REQUEST"})
    <2>1. ue.rrc = "IDLE_RANDOM_ACCESS"
        BY <1>4
    <2>2. UeOk(ue') /\ Connecting(ue') /\ ue'.rnti = rnti
        BY <1>1, <1>2, <1>4, <2>1, TakesRnti DEF UeReplies
    <2>3. ue.rnti = 0 /\ ~Ue!Connected(ue)
        BY <2>1, UeFacts DEF Connecting, Ue!Connected
    <2>4. ~Ue!Connected(ue')
        BY <2>2 DEF Connecting, Ue!Connected
    <2>5. air' = (air \ {message}) \cup {Message("REQUEST", rnti)}
        BY <1>1, <1>4 DEF UeReplies, Sent
    <2>6. /\ "REQUEST" \in Uplink /\ "REQUEST" \in ConnectingTypes
          /\ StateOf("REQUEST") = StateOf(type)
        BY <1>4 DEF Uplink, ConnectingTypes, StateOf
    <2> HIDE DEF message
    <2> QED BY <1>1, <2>2, <2>3, <2>4, <2>5, <2>6, ReplyingKeeps
<1>5. CASE isForUe /\ type = "SETUP"
           /\ UeReplies(message, Ue!RecvRrcConnectionSetup(ue), {"SETUP_COMPLETED"})
    <2>1. ue.rnti = rnti
        BY <1>5
    <2>2. Connecting(ue)
        BY <1>1, <1>5, <2>1 DEF ConnInv, UeInStep, ConnectedTypes
    <2>3. UeOk(ue') /\ Ue!Connected(ue') /\ ue'.rnti = rnti
        BY <1>1, <1>5, <2>1, <2>2, IsSetUp DEF UeReplies
    <2>4. ~Connecting(ue')
        BY <2>3 DEF Connecting, Ue!Connected
    <2>5. air' = (air \ {message}) \cup {Message("SETUP_COMPLETED", rnti)}
        BY <1>1, <1>5 DEF UeReplies, Sent
    <2>6. /\ "SETUP_COMPLETED" \in Uplink /\ "SETUP_COMPLETED" \in ConnectedTypes
          /\ StateOf("SETUP_COMPLETED") = StateOf(type)
        BY <1>5 DEF Uplink, ConnectedTypes, StateOf
    <2> HIDE DEF message
    <2> QED BY <1>1, <2>1, <2>3, <2>4, <2>5, <2>6, ReplyingKeeps
<1>6. CASE isForUe /\ type = "REJECT" /\ UeReplies(message, Ue!RecvRrcConnectionReject(ue), {})
    <2>1. ue.rnti = rnti
        BY <1>6
    <2>2. Connecting(ue) /\ ~Ue!Connected(ue)
        BY <1>1, <1>6, <2>1, UeFacts DEF ConnInv, UeInStep, ConnectedTypes
    <2>3. Idle(ue') /\ air' \subseteq air
        BY <1>1, <1>6, <2>2, Rejected DEF UeReplies, Sent
    <2>4. /\ removals' \subseteq Rntis
          /\ \A r \in removals' \cap DOMAIN contexts :
                 contexts[r].state \in {"CONNECTED_NORMALLY", "CONNECTION_RECONFIGURATION"}
        BY <1>1 DEF ConnInv, TypeOK, CoreInStep
    <2> QED BY <1>1, <2>2, <2>3, <2>4, LeavingKeeps
<1>7. CASE isForUe /\ type = "RECONFIGURATION"
           /\ UeReplies(message, Ue!RecvRrcConnectionReconfiguration(ue),
                        {"RECONFIGURATION_COMPLETED"})
    <2>1. ue.rnti = rnti
        BY <1>7
    <2>2. Ue!Connected(ue) /\ ~Connecting(ue)
        BY <1>1, <1>7, <2>1, UeFacts DEF ConnInv, UeInStep, ConnectingTypes
    <2>3. ue' = ue
        BY <1>7, <2>2 DEF UeReplies, Ue!RecvRrcConnectionReconfiguration
    <2>4. air' = (air \ {message}) \cup {Message("RECONFIGURATION_COMPLETED", rnti)}
        BY <1>1, <1>7 DEF UeReplies, Sent
    <2>5. /\ "RECONFIGURATION_COMPLETED" \in Uplink
          /\ "RECONFIGURATION_COMPLETED" \in ConnectedTypes
          /\ StateOf("RECONFIGURATION_COMPLETED") = StateOf(type)
        BY <1>7 DEF Uplink, ConnectedTypes, StateOf
    <2> HIDE DEF message
    <2> QED BY <1>1, <2>1, <2>2, <2>3, <2>4, <2>5, ReplyingKeeps
<1> QED BY <1>3, <1>4, <1>5, <1>6, <1>7 DEF ArriveDownlink

LEMMA UplinkArrives ==
    ASSUME ConnInv, NEW type \in Uplink, NEW rnti \in Rntis, ArriveUplink(type, rnti)
    PROVE  ConnInv'
<1> DEFINE message == Message(type, rnti)
<1>1. /\ message \in air /\ message.type = type /\ message.rnti = rnti
      /\ UNCHANGED <<ue, lastAllocatedRnti, removals, abandoned>>
      /\ mishaps' \in Nat
    BY UeFacts DEF ArriveUplink, Message, EnbOnly, Mishap
<1>2. air \ {message} = {m \in air : m.rnti # rnti}
    BY <1>1 DEF ConnInv, InStep
<1>3. CASE /\ rnti \notin DOMAIN contexts
           /\ air' = air \ {message}
           /\ UNCHANGED <<contexts, attaching>>
    BY <1>1, <1>3, SameUe, DroppingKeeps
<1>4. ASSUME rnti \in DOMAIN contexts
      PROVE  ContextOk(contexts[rnti]) /\ contexts[rnti].state = StateOf(type)
    BY <1>1, <1>4 DEF ConnInv, TypeOK, InStep
<1>5. ASSUME rnti \in DOMAIN contexts, NEW next, EnbReplies(message, next),
             attaching' = {r \in DOMAIN contexts' : contexts'[r].state = "ATTACH_REQUEST"}
      PROVE  GoesOn(rnti, next)
    BY <1>1, <1>2, <1>5 DEF EnbReplies, GoesOn
<1>6. ASSUME rnti \in DOMAIN contexts, NEW next, EnbReplies(message, next),
             contexts[rnti].state # "ATTACH_REQUEST", attaching' = attaching,
             next.state # "ATTACH_REQUEST"
      PROVE  GoesOn(rnti, next)
    <2>1. attaching' = {r \in DOMAIN contexts' : contexts'[r].state = "ATTACH_REQUEST"}
        BY <1>1, <1>6 DEF EnbReplies, ContextTo, ConnInv, CoreInStep
    <2> QED BY <1>5, <1>6, <2>1
<1>7. ASSUME rnti \in DOMAIN contexts, type = "REQUEST", attaching' = attaching,
             NEW admit \in BOOLEAN,
             EnbReplies(message, Enb!RecvRrcConnectionRequest(contexts[rnti], admit))
      PROVE  ConnInv'
    <2> DEFINE next  == Enb!RecvRrcConnectionRequest(contexts[rnti], admit)
               state == IF admit THEN "CONNECTION_SETUP" ELSE "CONNECTION_REJECTED"
               reply == IF admit THEN "SETUP" ELSE "REJECT"
    <2>1. contexts[rnti].state = "INITIAL_RANDOM_ACCESS" /\ ContextOk(contexts[rnti])
        BY <1>4, <1>7 DEF StateOf
    <2>2. GoesTo(next, state, {reply})
        BY <1>7, <2>1, ContextRequested
    <2>3. ue.rnti = rnti => Connecting(ue) /\ ~Ue!Connected(ue)
        BY <1>1, <1>7, UeFacts DEF ConnInv, UeInStep, ConnectedTypes
    <2>4. rnti \notin removals
        BY <1>7, <2>1 DEF ConnInv, CoreInStep
    <2>5. /\ reply \in Downlink \ {"RAR"} /\ reply \in ConnectingTypes
          /\ StateOf(reply) = state
          /\ state \notin Enb!Established /\ state # "ATTACH_REQUEST"
        BY DEF Downlink, ConnectingTypes, StateOf, Enb!Established
    <2>6. EnbReplies(message, next)
        BY <1>7
    <2> HIDE DEF message, next, state, reply
    <2>7. GoesOn(rnti, next)
        <3>1. next.state # "ATTACH_REQUEST"
            BY <2>2, <2>5 DEF GoesTo
        <3> QED BY <1>6, <1>7, <2>1, <2>6, <3>1
    <2>8. Fits(rnti, state, {reply})
        BY <2>3, <2>4, <2>5 DEF Fits
    <2> QED BY <2>2, <2>7, <2>8, GoingOnKeeps
<1>8. ASSUME rnti \in DOMAIN contexts, type = "SETUP_COMPLETED", attaching = {},
             attaching' = {rnti},
             EnbReplies(message, Enb!RecvRrcConnectionSetupCompleted(contexts[rnti]))
      PROVE  ConnInv'
    <2> DEFINE next == Enb!RecvRrcConnectionSetupCompleted(contexts[rnti])
    <2>1. contexts[rnti].state = "CONNECTION_SETUP" /\ ContextOk(contexts[rnti])
        BY <1>4, <1>8 DEF StateOf
    <2>2. GoesTo(next, "ATTACH_REQUEST", {})
        BY <2>1, ContextConfirmed
    <2>3. ue.rnti = rnti => ~Connecting(ue)
        BY <1>1, <1>8, UeFacts DEF ConnInv, UeInStep, ConnectingTypes
    <2>4. rnti \notin removals
        BY <1>8, <2>1 DEF ConnInv, CoreInStep
    <2>5. Owned(rnti)
        BY <1>1, <1>8 DEF ConnInv, ConfirmedIsOwned
    <2>6. EnbReplies(message, next)
        BY <1>8
    <2> HIDE DEF message, next
    <2>7. attaching' = {r \in DOMAIN contexts' : contexts'[r].state = "ATTACH_REQUEST"}
        BY <1>1, <1>8, <2>2, <2>6 DEF EnbReplies, GoesTo, ContextTo, ConnInv, CoreInStep
    <2>8. GoesOn(rnti, next)
        BY <1>5, <1>8, <2>6, <2>7
    <2>9. Fits(rnti, "ATTACH_REQUEST", {})
        BY <2>3, <2>4, <2>5 DEF Fits
    <2> QED BY <2>2, <2>8, <2>9, GoingOnKeeps
<1>9. ASSUME rnti \in DOMAIN contexts, type = "RECONFIGURATION_COMPLETED",
             attaching' = attaching,
             EnbReplies(message, Enb!RecvRrcConnectionReconfigurationCompleted(contexts[rnti]))
      PROVE  ConnInv'
    <2> DEFINE next == Enb!RecvRrcConnectionReconfigurationCompleted(contexts[rnti])
    <2>1. contexts[rnti].state = "CONNECTION_RECONFIGURATION" /\ ContextOk(contexts[rnti])
        BY <1>4, <1>9 DEF StateOf
    <2>2. \/ GoesTo(next, "CONNECTED_NORMALLY", {})
          \/ GoesTo(next, "CONNECTION_RECONFIGURATION", {"RECONFIGURATION"})
        BY <2>1, ContextReconfigured
    <2>3. /\ Fits(rnti, "CONNECTED_NORMALLY", {})
          /\ Fits(rnti, "CONNECTION_RECONFIGURATION", {"RECONFIGURATION"})
        BY <1>9, <2>1, EstablishedFits DEF Enb!Established
    <2>4. EnbReplies(message, next)
        BY <1>9
    <2> HIDE DEF message, next
    <2>5. next.state # "ATTACH_REQUEST"
        BY <2>2 DEF GoesTo
    <2>6. GoesOn(rnti, next)
        BY <1>6, <1>9, <2>1, <2>4, <2>5
    <2>7. CASE GoesTo(next, "CONNECTED_NORMALLY", {})
        BY <2>3, <2>6, <2>7, GoingOnKeeps
    <2>8. CASE GoesTo(next, "CONNECTION_RECONFIGURATION", {"RECONFIGURATION"})
        BY <2>3, <2>6, <2>8, GoingOnKeeps
    <2> QED BY <2>2, <2>7, <2>8
<1> QED BY <1>3, <1>7, <1>8, <1>9 DEF ArriveUplink

-----------------------------------------------------------------------------

LEMMA NextKeeps ==
    ASSUME ConnInv, [Next]_vars
    PROVE  ConnInv'
<1>1. CASE Attach \/ ActivateEpsBearer \/ RetryConnect \/ RaResponseTimeout
    BY <1>1, UeSteps
<1>2. CASE Disconnect \/ ConnectionTimeout \/ RadioLinkFailureDetected
    BY <1>2, UeLeaves
<1>3. CASE SelectCell
    BY <1>3, SelectsCell
<1>4. CASE RecvPreamble
    BY <1>4, PreambleReceived
<1>5. CASE ExpireTimers
    BY <1>5, TimerExpires DEF ExpireTimers
<1>6. CASE \E rnti \in Rntis : \/ RecvIdealUeContextRemoveRequest(rnti)
                               \/ InitialContextSetup(rnti)
                               \/ ScheduleRrcConnectionReconfiguration(rnti)
    BY <1>6, RemovalRequested, CoreAnswers, IsScheduled
<1>7. CASE Arrive
    BY <1>7, DownlinkArrives, UplinkArrives DEF Arrive
<1>8. CASE Lose \/ DropUnsent
    BY <1>8, IsLost
<1>9. CASE UNCHANGED vars
    BY <1>9, SameUe, SameRoleKeeps, UeFacts DEF vars
<1> QED BY <1>1, <1>2, <1>3, <1>4, <1>5, <1>6, <1>7, <1>8, <1>9 DEF Next

LEMMA Invariant == Spec => []ConnInv
<1>1. ConnInv /\ [Next]_vars => ConnInv'
    BY NextKeeps
<1> QED BY <1>1, InitConnInv, PTL DEF Spec

\* Every state is of the types of the code: of the UE its flags and counters, of
\* each context the timer its state asserts when it expires.
THEOREM Typed == Spec => []TypeOK
<1>1. ConnInv => TypeOK
    BY DEF ConnInv
<1> QED BY <1>1, Invariant, PTL

\* No message, timer or call finds the UE or a context in a state its handler
\* calls unexpected.
THEOREM NoneAborts == Spec => []NeverAborts
<1>1. ASSUME ConnInv PROVE NeverAborts
    <2>1. ue.rrc # "ABORTED"
        BY <1>1, IdleIsNeither DEF ConnInv, TypeOK
    <2>2. ASSUME NEW r \in DOMAIN contexts PROVE contexts[r].state # "ABORTED"
        BY <1>1 DEF ConnInv, TypeOK, ContextOk, ContextStates, Enb!Established
    <2> QED BY <2>1, <2>2 DEF NeverAborts, Aborted
<1> QED BY <1>1, Invariant, PTL

\* NAS and RRC agree on whether the UE is connected, and each EPS bearer either
\* waits for an identity or has one, through all releases and reconnections.
THEOREM NasKnows == Spec => []NasAgrees
<1>1. ASSUME ConnInv PROVE NasAgrees
    BY <1>1 DEF ConnInv, TypeOK, UeOk, BearersCounted, NasAgrees
<1> QED BY <1>1, Invariant, PTL

\* A connected UE is known to its context or a message under way tells it, and
\* no established context is left of which nobody knows.
THEOREM SidesKnow == Spec => []SidesAgree
<1>1. ConnInv => SidesAgree
    BY DEF ConnInv, SidesAgree
<1> QED BY <1>1, Invariant, PTL


-----------------------------------------------------------------------------
(***************************************************************************)
(* The sidelink bearers.                                                   *)

\* How scratch/simulator/main.cc activates bearers: a UE's first template
\* transmits to a group, and those after it only receive from that group.
\* With two destinations, or two UEs with bearers to each other, bearers meet
\* in m_slDrbMap and ChannelsBacked fails.
GroupOfItsOwn ==
    \A p \in Plans : \E g \in Groups : \A i \in DOMAIN p :
        p[i].dst = g /\ (isTransmit(p[i]) <=> i = 1)

-----------------------------------------------------------------------------
(* The invariant.                                                          *)

\* The bearer of a UE to a group; the destination's first, so the least id.
OwnBearer(u, g) == Bearer(u, g, 4)

\* The UE has activated nothing yet and has only heard of others.
Fresh(u) == /\ \E g \in Groups : \A i \in DOMAIN plan[u] :
                   plan[u][i].dst = g /\ (isTransmit(plan[u][i]) <=> i = 1)
            /\ activated[u] = {}
            /\ DOMAIN slDrbMap[u] \subseteq Ues \ {u}
            /\ onAir[u] = {}

\* It has its bearer to a group, and what is left to activate receives from it.
Joined(u, g) == /\ \A i \in DOMAIN plan[u] : plan[u][i].dst = g /\ ~isTransmit(plan[u][i])
                /\ \A tft \in activated[u] : tft.dst = g
                /\ \E tft \in activated[u] : isTransmit(tft)
                /\ g \in DOMAIN slDrbMap[u]
                /\ DOMAIN slDrbMap[u] \subseteq {g} \cup (Ues \ {u})
                /\ slDrbMap[u][g] = {OwnBearer(u, g)}
                /\ onAir[u] \subseteq {OwnBearer(u, g)}

\* The bearers a UE keeps for others are those they send on.
HeardOnly == \A u \in Ues : \A v \in (Ues \ {u}) \cap DOMAIN slDrbMap[u] :
                slDrbMap[u][v] # {} /\ slDrbMap[u][v] \subseteq onAir[v]

BearersTyped == /\ plan \in [Ues -> Seq(Tfts)]
         /\ pending = [u \in Ues |-> {}]
         /\ activated \in [Ues -> SUBSET Tfts]
         /\ DOMAIN slDrbMap = Ues
         /\ slRxDrbMap = [u \in Ues |-> Empty]
         /\ DOMAIN logicalChannels = Ues
         /\ DOMAIN rxDestinations = Ues
         /\ DOMAIN onAir = Ues

BearersInv == /\ BearersTyped
              /\ NoBearerAborts
              /\ \A u \in Ues : Fresh(u) \/ \E g \in Groups : Joined(u, g)
              /\ HeardOnly
              /\ ChannelsBacked

\* No bearer of a UE is of another's, and none of its keys is another's group.
LEMMA Apart ==
    ASSUME NEW u \in Ues, NEW g \in Groups
    PROVE  /\ g \notin Ues
           /\ OwnBearer(u, g).src = u /\ OwnBearer(u, g).dst = g
BY BearerAssumption DEF OwnBearer, Bearer

LEMMA InitBearersInv == GroupOfItsOwn /\ InitBearers => BearersInv
<1> SUFFICES ASSUME GroupOfItsOwn, InitBearers PROVE BearersInv
    OBVIOUS
<1>1. BearersTyped /\ NoBearerAborts
    BY BearerAssumption DEF InitBearers, BearersTyped, NoBearerAborts
<1>2. ASSUME NEW u \in Ues PROVE Fresh(u)
    BY DEF GroupOfItsOwn, InitBearers, Fresh, Empty
<1>3. HeardOnly /\ ChannelsBacked
    BY DEF InitBearers, HeardOnly, ChannelsBacked, Empty
<1> QED BY <1>1, <1>2, <1>3 DEF BearersInv

\* What a UE has does not change with what another does.
LEMMA OthersKeep ==
    ASSUME BearersInv, NEW v \in Ues, plan'[v] = plan[v], activated'[v] = activated[v],
           slDrbMap'[v] = slDrbMap[v], onAir'[v] = onAir[v]
    PROVE  Fresh(v)' \/ \E h \in Groups : Joined(v, h)'
<1>1. ASSUME Fresh(v) PROVE Fresh(v)'
    BY <1>1 DEF Fresh
<1>2. ASSUME NEW h \in Groups, Joined(v, h) PROVE Joined(v, h)'
    BY <1>2 DEF Joined
<1> QED BY <1>1, <1>2 DEF BearersInv

LEMMA TakingNext ==
    ASSUME NEW s \in Seq(Tfts), s # <<>>
    PROVE  /\ Head(s) = s[1] /\ 1 \in DOMAIN s /\ s[1] \in Tfts
           /\ Tail(s) \in Seq(Tfts)
           /\ \A i \in DOMAIN Tail(s) : i + 1 \in DOMAIN s /\ i + 1 # 1 /\ Tail(s)[i] = s[i + 1]
<1>1. /\ Len(s) \in Nat /\ Len(s) # 0 /\ DOMAIN s = 1 .. Len(s)
      /\ Len(Tail(s)) = Len(s) - 1 /\ DOMAIN Tail(s) = 1 .. Len(Tail(s))
    OBVIOUS
<1> QED BY <1>1

\* The first template makes the UE's own bearer; the others add a destination
\* to receive from.
LEMMA ActivationKeeps ==
    ASSUME BearersInv, NEW u \in Ues, ActivateNrSlBearer(u)
    PROVE  BearersInv'
<1> DEFINE tft == Head(plan[u])
           bearer == Bearer(u, tft.dst, GetNextLcid(slDrbMap[u], tft.dst))
<1>1. /\ plan[u] \in Seq(Tfts) /\ plan[u] # <<>> /\ pending[u] = {} /\ ~aborted
      /\ activated \in [Ues -> SUBSET Tfts] /\ DOMAIN slDrbMap = Ues
    BY DEF BearersInv, BearersTyped, ActivateNrSlBearer
<1>2. /\ tft = plan[u][1] /\ 1 \in DOMAIN plan[u] /\ tft \in Tfts
      /\ Tail(plan[u]) \in Seq(Tfts)
      /\ \A i \in DOMAIN Tail(plan[u]) :
            i + 1 \in DOMAIN plan[u] /\ i + 1 # 1 /\ Tail(plan[u])[i] = plan[u][i + 1]
    BY <1>1, TakingNext
<1>3. PICK g \in Groups : \/ /\ Fresh(u)
                             /\ \A i \in DOMAIN plan[u] :
                                   plan[u][i].dst = g /\ (isTransmit(plan[u][i]) <=> i = 1)
                          \/ Joined(u, g)
    BY DEF BearersInv, Fresh
<1>4. g \notin Ues /\ tft.dst = g
    BY <1>2, <1>3, Apart DEF Joined
<1>5. ASSUME ~(isTransmit(tft) /\ ~CanAddNrSlDrb(u, bearer))
      PROVE  /\ plan' = [plan EXCEPT ![u] = Tail(@)]
             /\ pending' = [pending EXCEPT ![u] = {}]
             /\ activated' = [activated EXCEPT ![u] = @ \cup {tft}]
             /\ IF isTransmit(tft) THEN AddNrSlDrb(u, bearer)
                ELSE UNCHANGED <<slDrbMap, logicalChannels>>
             /\ DOMAIN rxDestinations' = DOMAIN rxDestinations
             /\ UNCHANGED <<slRxDrbMap, onAir, aborted>>
    BY <1>1, <1>5 DEF ActivateNrSlBearer
<1> HIDE DEF tft, bearer
<1>6. CASE Joined(u, g)
    <2>1. ~isTransmit(tft)
        BY <1>2, <1>6 DEF Joined
    <2>2. /\ plan' = [plan EXCEPT ![u] = Tail(@)]
          /\ pending' = [pending EXCEPT ![u] = {}]
          /\ activated' = [activated EXCEPT ![u] = @ \cup {tft}]
          /\ UNCHANGED <<slDrbMap, logicalChannels, slRxDrbMap, onAir, aborted>>
          /\ DOMAIN rxDestinations' = DOMAIN rxDestinations
        BY <1>5, <2>1
    <2>3. BearersTyped' /\ NoBearerAborts'
        BY <1>1, <1>2, <2>2 DEF BearersInv, BearersTyped, NoBearerAborts
    <2>4. ASSUME NEW v \in Ues, v # u
          PROVE  Fresh(v)' \/ \E h \in Groups : Joined(v, h)'
        <3>1. plan'[v] = plan[v] /\ activated'[v] = activated[v]
            BY <2>2, <2>4 DEF BearersInv, BearersTyped
        <3> QED BY <2>2, <3>1, OthersKeep
    <2>5. Joined(u, g)'
        <3>1. plan'[u] = Tail(plan[u]) /\ activated'[u] = activated[u] \cup {tft}
            BY <2>2 DEF BearersInv, BearersTyped
        <3> QED BY <1>2, <1>4, <1>6, <2>2, <3>1 DEF Joined
    <2>6. HeardOnly' /\ ChannelsBacked'
        BY <2>2 DEF BearersInv, HeardOnly, ChannelsBacked
    <2> QED BY <2>3, <2>4, <2>5, <2>6 DEF BearersInv
<1>7. CASE /\ Fresh(u)
           /\ \A i \in DOMAIN plan[u] :
                 plan[u][i].dst = g /\ (isTransmit(plan[u][i]) <=> i = 1)
    <2>1. isTransmit(tft) /\ g \notin DOMAIN slDrbMap[u]
        BY <1>2, <1>4, <1>7 DEF Fresh
    <2>2. bearer = OwnBearer(u, g)
        BY <1>4, <2>1 DEF bearer, GetNextLcid, OwnBearer
    <2>3. bearer.src = u /\ bearer.dst = g
        BY <2>2, Apart
    <2>4. CanAddNrSlDrb(u, bearer)
        BY <2>1, <2>3 DEF CanAddNrSlDrb
    <2>5. /\ plan' = [plan EXCEPT ![u] = Tail(@)]
          /\ pending' = [pending EXCEPT ![u] = {}]
          /\ activated' = [activated EXCEPT ![u] = @ \cup {tft}]
          /\ slDrbMap' = [slDrbMap EXCEPT ![u] = Inserted(@, g, bearer)]
          /\ logicalChannels' = [logicalChannels EXCEPT ![u] = @ \cup {bearer}]
          /\ DOMAIN rxDestinations' = DOMAIN rxDestinations
          /\ UNCHANGED <<slRxDrbMap, onAir, aborted>>
        BY <1>5, <2>1, <2>3, <2>4 DEF AddNrSlDrb
    <2>6. /\ plan'[u] = Tail(plan[u]) /\ activated'[u] = {tft}
          /\ slDrbMap'[u] = Inserted(slDrbMap[u], g, bearer)
          /\ logicalChannels'[u] = logicalChannels[u] \cup {bearer}
          /\ \A v \in Ues \ {u} : /\ plan'[v] = plan[v] /\ activated'[v] = activated[v]
                                  /\ slDrbMap'[v] = slDrbMap[v]
                                  /\ logicalChannels'[v] = logicalChannels[v]
        BY <1>7, <2>5 DEF BearersInv, BearersTyped, Fresh
    <2>7. /\ DOMAIN slDrbMap'[u] = DOMAIN slDrbMap[u] \cup {g}
          /\ slDrbMap'[u][g] = {bearer}
          /\ \A id \in DOMAIN slDrbMap[u] : slDrbMap'[u][id] = slDrbMap[u][id]
        BY <2>1, <2>6 DEF Inserted
    <2>8. BearersTyped' /\ NoBearerAborts'
        BY <1>1, <1>2, <2>5 DEF BearersInv, BearersTyped, NoBearerAborts
    <2>9. ASSUME NEW v \in Ues, v # u
          PROVE  Fresh(v)' \/ \E h \in Groups : Joined(v, h)'
        BY <2>5, <2>6, <2>9, OthersKeep
    <2>10. Joined(u, g)'
        <3>1. \A i \in DOMAIN plan'[u] : plan'[u][i].dst = g /\ ~isTransmit(plan'[u][i])
            BY <1>2, <1>7, <2>6
        <3>2. onAir'[u] = {}
            BY <1>7, <2>5 DEF Fresh
        <3>3. DOMAIN slDrbMap'[u] \subseteq {g} \cup (Ues \ {u})
            BY <1>7, <2>7 DEF Fresh
        <3> QED BY <1>4, <2>1, <2>2, <2>6, <2>7, <3>1, <3>2, <3>3 DEF Joined
    <2>11. HeardOnly'
        BY <1>4, <2>5, <2>6, <2>7 DEF BearersInv, HeardOnly
    <2>12. ChannelsBacked'
        <3>1. ASSUME NEW v \in Ues, NEW b \in logicalChannels'[v]
              PROVE  \E id \in DOMAIN slDrbMap'[v] : b \in slDrbMap'[v][id]
            BY <2>6, <2>7 DEF BearersInv, ChannelsBacked
        <3> QED BY <3>1 DEF ChannelsBacked
    <2> QED BY <2>8, <2>9, <2>10, <2>11, <2>12 DEF BearersInv
<1> QED BY <1>3, <1>6, <1>7

\* A UE that has activated a template sends on its own bearer.
LEMMA SendingKeeps ==
    ASSUME BearersInv, NEW u \in Ues, NEW dst, Send(u, dst)
    PROVE  BearersInv'
<1>1. PICK tft \in activated[u] : tft.dst = dst
    BY DEF Send, Matches
<1>2. PICK g \in Groups : Joined(u, g)
    BY <1>1 DEF BearersInv, Fresh
<1>3. dst = g /\ dst \in DOMAIN slDrbMap[u] /\ slDrbMap[u][g] = {OwnBearer(u, g)}
    BY <1>1, <1>2 DEF Joined
<1>4. /\ onAir' = [onAir EXCEPT ![u] = @ \cup {OwnBearer(u, g)}]
      /\ UNCHANGED <<plan, pending, activated, slDrbMap, slRxDrbMap, logicalChannels,
                     rxDestinations, aborted>>
    BY <1>3 DEF Send, GetSidelinkDataRadioBearer
<1>5. /\ onAir'[u] = onAir[u] \cup {OwnBearer(u, g)}
      /\ \A v \in Ues \ {u} : onAir'[v] = onAir[v]
    BY <1>4 DEF BearersInv, BearersTyped
<1>6. BearersTyped' /\ NoBearerAborts'
    BY <1>4 DEF BearersInv, BearersTyped, NoBearerAborts
<1>7. ASSUME NEW v \in Ues
      PROVE  Fresh(v)' \/ \E h \in Groups : Joined(v, h)'
    <2>1. CASE v = u
        BY <1>2, <1>4, <1>5, <2>1 DEF Joined
    <2>2. CASE v # u
        BY <1>4, <1>5, <2>2, OthersKeep
    <2> QED BY <2>1, <2>2
<1>8. HeardOnly' /\ ChannelsBacked'
    BY <1>4, <1>5 DEF BearersInv, HeardOnly, ChannelsBacked
<1> QED BY <1>6, <1>7, <1>8 DEF BearersInv

\* A bearer first heard of is filed under its UE, which sends on no other.
LEMMA HearingKeeps ==
    ASSUME BearersInv, NEW u \in Ues, NEW bearer, NotifySidelinkReception(u, bearer)
    PROVE  BearersInv'
<1>1. PICK v \in Ues \ {u} : bearer \in onAir[v]
    BY DEF NotifySidelinkReception
<1>2. PICK g \in Groups : Joined(v, g)
    BY <1>1 DEF BearersInv, Fresh
<1>3. bearer = OwnBearer(v, g) /\ onAir[v] = {bearer} /\ bearer.src = v /\ v # u
    BY <1>1, <1>2, Apart DEF Joined
<1>4. CanAddNrSlDrb(u, bearer)
    BY <1>3 DEF CanAddNrSlDrb, BearersInv, BearersTyped, Empty
<1>5. /\ slDrbMap' = [slDrbMap EXCEPT ![u] = Inserted(@, v, bearer)]
      /\ logicalChannels' = [logicalChannels EXCEPT ![u] = @ \cup {bearer}]
      /\ UNCHANGED <<plan, pending, activated, slRxDrbMap, rxDestinations, onAir, aborted>>
    BY <1>3, <1>4 DEF NotifySidelinkReception, AddNrSlDrb, AddNrSlRxDataRadioBearer
<1>6. /\ slDrbMap'[u] = Inserted(slDrbMap[u], v, bearer)
      /\ logicalChannels'[u] = logicalChannels[u] \cup {bearer}
      /\ \A w \in Ues \ {u} : /\ slDrbMap'[w] = slDrbMap[w]
                              /\ logicalChannels'[w] = logicalChannels[w]
    BY <1>5 DEF BearersInv, BearersTyped
<1>7. slDrbMap'[u][v] = {bearer}
    BY <1>1, <1>3, <1>6 DEF Inserted, BearersInv, HeardOnly
<1>8. /\ DOMAIN slDrbMap'[u] = DOMAIN slDrbMap[u] \cup {v}
      /\ \A id \in DOMAIN slDrbMap[u] : slDrbMap'[u][id] = slDrbMap[u][id]
    BY <1>6 DEF Inserted
<1>9. BearersTyped' /\ NoBearerAborts'
    BY <1>5 DEF BearersInv, BearersTyped, NoBearerAborts
<1>10. ASSUME NEW w \in Ues
       PROVE  Fresh(w)' \/ \E h \in Groups : Joined(w, h)'
    <2>1. CASE w # u
        BY <1>5, <1>6, <2>1, OthersKeep
    <2>2. CASE w = u /\ Fresh(u)
        BY <1>1, <1>5, <1>8, <2>2 DEF Fresh
    <2>3. ASSUME w = u, NEW h \in Groups, Joined(u, h)
          PROVE  Joined(u, h)'
        BY <1>1, <1>5, <1>8, <2>3 DEF Joined
    <2> QED BY <2>1, <2>2, <2>3 DEF BearersInv
<1>11. HeardOnly'
    BY <1>1, <1>3, <1>5, <1>6, <1>7, <1>8 DEF BearersInv, HeardOnly
<1>12. ChannelsBacked'
    <2>1. ASSUME NEW w \in Ues, NEW b \in logicalChannels'[w]
          PROVE  \E id \in DOMAIN slDrbMap'[w] : b \in slDrbMap'[w][id]
        BY <1>6, <1>7, <1>8 DEF BearersInv, ChannelsBacked
    <2> QED BY <2>1 DEF ChannelsBacked
<1> QED BY <1>9, <1>10, <1>11, <1>12 DEF BearersInv

LEMMA BearersKept == BearersInv /\ [NextBearers]_bearerVars => BearersInv'
<1> SUFFICES ASSUME BearersInv, [NextBearers]_bearerVars PROVE BearersInv'
    OBVIOUS
<1>1. CASE UNCHANGED bearerVars
    <2>1. \A v \in Ues : Fresh(v)' \/ \E h \in Groups : Joined(v, h)'
        BY <1>1, OthersKeep DEF bearerVars
    <2>2. BearersTyped' /\ NoBearerAborts' /\ HeardOnly' /\ ChannelsBacked'
        BY <1>1 DEF bearerVars, BearersInv, BearersTyped, NoBearerAborts, HeardOnly, ChannelsBacked
    <2> QED BY <2>1, <2>2 DEF BearersInv
<1> QED BY <1>1, ActivationKeeps, SendingKeeps, HearingKeeps DEF NextBearers

LEMMA BearersInvariant == GroupOfItsOwn /\ SpecBearers => []BearersInv
BY InitBearersInv, BearersKept, PTL DEF SpecBearers

-----------------------------------------------------------------------------
(* The theorems.                                                           *)

\* Behind every logical channel of the MAC is a bearer that the RRC keeps,
\* although reception bearers share the map of the transmission bearers.
THEOREM ChannelsAreBacked == GroupOfItsOwn /\ SpecBearers => []ChannelsBacked
<1>1. BearersInv => ChannelsBacked
    BY DEF BearersInv
<1> QED BY <1>1, BearersInvariant, PTL

\* A UE only ever sends on its own bearer, to the group it transmits to.
THEOREM SentOnOwn == GroupOfItsOwn /\ SpecBearers => []SentOnOwnBearer
<1>1. ASSUME BearersInv, NEW u \in Ues, NEW b \in onAir[u]
      PROVE  /\ b.src = u
             /\ \E tft \in activated[u] : isTransmit(tft) /\ tft.dst = b.dst
    <2>1. PICK g \in Groups : Joined(u, g)
        BY <1>1 DEF BearersInv, Fresh
    <2>2. b = OwnBearer(u, g) /\ b.src = u /\ b.dst = g
        BY <2>1, Apart DEF Joined
    <2> QED BY <2>1, <2>2 DEF Joined
<1>2. BearersInv => SentOnOwnBearer
    BY <1>1 DEF SentOnOwnBearer
<1> QED BY <1>2, BearersInvariant, PTL

\* No bearer collides with another and no lookup fails, in whatever order UEs
\* activate their bearers, send and first hear of each other.
THEOREM NoneCollides == GroupOfItsOwn /\ SpecBearers => []NoBearerAborts
<1>1. BearersInv => NoBearerAborts
    BY DEF BearersInv
<1> QED BY <1>1, BearersInvariant, PTL
=============================================================================
