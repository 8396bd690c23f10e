-------------------------- MODULE LteUeConnection --------------------------
(***************************************************************************)
(* The connection of a UE: LteUeRrc (lte-ue-rrc.cc) in its idle states,    *)
(* in CONNECTED_NORMALLY and in CONNECTED_HANDOVER, EpcUeNas               *)
(* (epc-ue-nas.cc) with the EPS bearers, and the random access of LteUeMac *)
(* (lte-ue-mac.cc).                                                        *)
(*                                                                         *)
(* A handler calls between the three before it returns, so each is an      *)
(* operator from the state of the UE to the next.  NS_FATAL_ERROR and a    *)
(* failed assertion lead to the state ABORTED.                             *)
(***************************************************************************)
EXTENDS Naturals

CONSTANTS ConnEstFailCount,  \* m_connEstFailCountLimit, from SIB2
          PreambleTransMax   \* m_rachConfig.preambleTransMax

InitUe == [rrc               |-> "IDLE_START",  \* m_state of LteUeRrc
           connectionPending |-> FALSE,
           hasReceivedMib    |-> FALSE,
           hasReceivedSib2   |-> FALSE,
           connectionTimeout |-> FALSE,         \* T300 is running
           connEstFailCount  |-> 0,
           rnti              |-> 0,             \* m_rnti of LteUeMac
           rachConfigured    |-> FALSE,
           preambles         |-> 0,             \* m_preambleTransmissionCounter
           preambleSent      |-> FALSE,         \* the eNB is yet to receive it
           nas               |-> "OFF",         \* m_state of EpcUeNas
           retry             |-> FALSE,         \* a Connect is scheduled
           toBeActivated     |-> 0,  \* size of m_bearersToBeActivatedList
           forReconnection   |-> 0,  \* of m_bearersToBeActivatedListForReconnection
           bidCounter        |-> 0]

Abort(ue) == [ue EXCEPT !.rrc = "ABORTED"]

Selecting == {"IDLE_START", "IDLE_CELL_SEARCH", "IDLE_WAIT_MIB_SIB1",
              "IDLE_WAIT_MIB", "IDLE_WAIT_SIB1"}

\* Between handlers; CONNECTED_PHY_PROBLEM only lasts within one.
Connected(ue) == ue.rrc = "CONNECTED_NORMALLY"

-----------------------------------------------------------------------------
(* LteUeMac.                                                               *)

SendRaPreamble(ue) == [ue EXCEPT !.preambleSent = TRUE]

RandomlySelectAndSendRaPreamble(ue) ==
    IF ue.rachConfigured THEN SendRaPreamble(ue) ELSE Abort(ue)

\* Bug: the MAC keeps listening to the RNTI it had.
MacReset_KeepsRnti(ue) == [ue EXCEPT !.rachConfigured = FALSE]

MacReset(ue) == [ue EXCEPT !.rnti = 0, !.rachConfigured = FALSE]

-----------------------------------------------------------------------------
(* LteUeRrc: SwitchToState, by the state switched to.                      *)

StartConnection(ue) ==
    IF ue.hasReceivedMib /\ ue.hasReceivedSib2
    THEN RandomlySelectAndSendRaPreamble(
            [ue EXCEPT !.connectionPending = FALSE,
                       !.rrc = "IDLE_RANDOM_ACCESS", !.preambles = 0])
    ELSE Abort(ue)

SwitchToWaitSib2(ue) ==
    LET waiting == [ue EXCEPT !.rrc = "IDLE_WAIT_SIB2"]
    IN  IF ~ue.hasReceivedSib2 THEN waiting
        ELSE IF ue.connectionPending THEN StartConnection(waiting) ELSE Abort(ue)

SwitchToCampedNormally(ue) ==
    LET camped == [ue EXCEPT !.rrc = "IDLE_CAMPED_NORMALLY"]
    IN  IF ue.connectionPending THEN SwitchToWaitSib2(camped) ELSE camped

DoConnect(ue) ==
    IF ue.rrc \in Selecting THEN [ue EXCEPT !.connectionPending = TRUE]
    ELSE IF ue.rrc = "IDLE_CAMPED_NORMALLY"
         THEN SwitchToWaitSib2([ue EXCEPT !.connectionPending = TRUE])
         ELSE IF ue.rrc = "CONNECTED_PHY_PROBLEM" THEN Abort(ue) ELSE ue

\* With IDLE_START and DoStartCellSelection, which follow at once.
LeaveConnectedMode(ue) ==
    [MacReset(ue) EXCEPT !.hasReceivedMib = FALSE, !.hasReceivedSib2 = FALSE,
                         !.rrc = "IDLE_CELL_SEARCH"]

DoDisconnect(ue) ==
    IF ue.rrc \in Selecting \cup {"IDLE_CAMPED_NORMALLY"} THEN ue
    ELSE IF ue.rrc \in {"CONNECTED_NORMALLY", "CONNECTED_HANDOVER", "CONNECTED_PHY_PROBLEM"}
         THEN LeaveConnectedMode(ue)
         ELSE Abort(ue)

-----------------------------------------------------------------------------
(* EpcUeNas.                                                               *)

Disconnect(ue) == DoDisconnect([ue EXCEPT !.nas = "OFF"])

\* LteHelper::Attach, to the strongest cell or to one given: cell selection
\* or ForceCampedOnEnb, then Connect.
Attach(ue)       == DoConnect([ue EXCEPT !.rrc = "IDLE_CELL_SEARCH"])
AttachToCell(ue) == DoConnect([ue EXCEPT !.rrc = "IDLE_WAIT_MIB"])

ActivateEpsBearer(ue) ==
    IF ue.nas = "ACTIVE" THEN Abort(ue)
    ELSE [ue EXCEPT !.toBeActivated = @ + 1, !.forReconnection = @ + 1]

\* With the DoActivateEpsBearer of every bearer waiting.
NotifyConnectionSuccessful(ue) ==
    IF ue.bidCounter + ue.toBeActivated > 11 THEN Abort(ue)
    ELSE [ue EXCEPT !.nas = "ACTIVE", !.bidCounter = @ + ue.toBeActivated,
                    !.toBeActivated = 0]

\* Bug: the failure is not passed on as another attempt.
NotifyConnectionFailed_NoRetry(ue) == ue

NotifyConnectionFailed(ue) == [ue EXCEPT !.retry = TRUE]

RetryConnect(ue) == DoConnect([ue EXCEPT !.retry = FALSE])

\* Bug: the list is restored and the bearer identities are kept too.
NotifyConnectionReleased_KeepsBids(ue) ==
    Disconnect([ue EXCEPT !.toBeActivated = ue.forReconnection])

NotifyConnectionReleased(ue) ==
    Disconnect([ue EXCEPT !.bidCounter = 0, !.toBeActivated = ue.forReconnection])

-----------------------------------------------------------------------------
(* LteUeRrc: what the PHY, the eNB and the timers notify.                  *)

\* DoReportUeMeasurements and SynchronizeToStrongestCell: the cell is found.
ReportUeMeasurements(ue) == [ue EXCEPT !.rrc = "IDLE_WAIT_MIB_SIB1"]

RecvMasterInformationBlock(ue) ==
    LET received == [ue EXCEPT !.hasReceivedMib = TRUE]
    IN  IF ue.rrc = "IDLE_WAIT_MIB" THEN SwitchToCampedNormally(received)
        ELSE IF ue.rrc = "IDLE_WAIT_MIB_SIB1" THEN [received EXCEPT !.rrc = "IDLE_WAIT_SIB1"]
        ELSE received

\* EvaluateCellForSelection, of an open cell.  A cell too weak is tried again.
RecvSystemInformationBlockType1(ue, suitable) ==
    IF suitable
    THEN SwitchToCampedNormally(IF ue.connectionPending THEN ue ELSE DoConnect(ue))
    ELSE [ue EXCEPT !.hasReceivedMib = FALSE, !.rrc = "IDLE_WAIT_MIB_SIB1"]

RecvSystemInformation(ue) ==
    LET received == [ue EXCEPT !.hasReceivedSib2 = TRUE, !.rachConfigured = TRUE]
    IN  IF ue.rrc \in Selecting THEN ue
        ELSE IF ue.rrc # "IDLE_WAIT_SIB2" THEN received
        ELSE IF ue.connectionPending THEN StartConnection(received) ELSE Abort(ue)

\* LteUeMac::RecvRaResponse: DoSetTemporaryCellRnti and
\* DoNotifyRandomAccessSuccessful.  The caller sends the request or, in a
\* handover, the confirmation.
RecvRaResponse(ue, rnti) ==
    CASE ue.rrc = "IDLE_RANDOM_ACCESS" ->
           [ue EXCEPT !.rnti = rnti, !.rrc = "IDLE_CONNECTING", !.connectionTimeout = TRUE]
      [] ue.rrc = "CONNECTED_HANDOVER" ->
           [ue EXCEPT !.rnti = rnti, !.rrc = "CONNECTED_NORMALLY"]
      [] OTHER -> Abort(ue)

\* The caller sends the request to remove the context.
LeaveCell(ue) == NotifyConnectionReleased([ue EXCEPT !.rrc = "CONNECTED_PHY_PROBLEM"])

NotifyRandomAccessFailed(ue) ==
    CASE ue.rrc = "IDLE_RANDOM_ACCESS" -> NotifyConnectionFailed(SwitchToCampedNormally(ue))
      [] ue.rrc = "CONNECTED_HANDOVER" -> LeaveCell(ue)
      [] OTHER -> Abort(ue)

RaResponseTimeout(ue) ==
    LET counted == [ue EXCEPT !.preambles = @ + 1]
    IN  IF counted.preambles = PreambleTransMax + 1
        THEN NotifyRandomAccessFailed(counted)
        ELSE IF ue.rrc = "CONNECTED_HANDOVER" THEN SendRaPreamble(counted)
             ELSE RandomlySelectAndSendRaPreamble(counted)

\* The caller sends the confirmation.
RecvRrcConnectionSetup(ue) ==
    IF ue.rrc = "IDLE_CONNECTING"
    THEN NotifyConnectionSuccessful(
            [ue EXCEPT !.connEstFailCount = 0, !.connectionTimeout = FALSE,
                       !.rrc = "CONNECTED_NORMALLY"])
    ELSE Abort(ue)

RecvRrcConnectionReject(ue) ==
    NotifyConnectionFailed(SwitchToCampedNormally(
        [MacReset(ue) EXCEPT !.connectionTimeout = FALSE, !.hasReceivedSib2 = FALSE]))

\* Without mobilityControlInfo; the caller sends the confirmation.
RecvRrcConnectionReconfiguration(ue) == IF Connected(ue) THEN ue ELSE Abort(ue)

\* With it: the UE resets its MAC and accesses the target with its preamble.
RecvHandoverCommand(ue, rnti) ==
    IF Connected(ue)
    THEN SendRaPreamble([MacReset(ue) EXCEPT !.rrc = "CONNECTED_HANDOVER", !.rnti = rnti,
                                             !.preambles = 0])
    ELSE Abort(ue)

\* m_leaveConnectedMode is false in these states.
RecvRrcConnectionRelease(ue) ==
    IF ue.rrc \in {"CONNECTED_NORMALLY", "CONNECTED_HANDOVER"} THEN LeaveCell(ue) ELSE ue

ConnectionTimeout(ue) ==
    LET counted == [ue EXCEPT !.connectionTimeout = FALSE, !.connEstFailCount = @ + 1]
    IN  IF counted.connEstFailCount >= ConnEstFailCount
        THEN [NotifyConnectionReleased([counted EXCEPT !.rrc = "CONNECTED_PHY_PROBLEM"])
                 EXCEPT !.connEstFailCount = 0]
        ELSE NotifyConnectionFailed(SwitchToCampedNormally(
                [MacReset(counted) EXCEPT !.hasReceivedSib2 = FALSE]))

RadioLinkFailureDetected(ue) == LeaveCell(ue)

=============================================================================
