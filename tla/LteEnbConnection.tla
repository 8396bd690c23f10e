-------------------------- MODULE LteEnbConnection -------------------------
(***************************************************************************)
(* The eNB's side of a connection: a UeManager of LteEnbRrc                *)
(* (lte-enb-rrc.cc), from the random access to reconfigurations and X2     *)
(* handovers, with its timers.  Each handler is an operator from the state *)
(* of the UeManager to the next; the caller sends Answer, X2 and S1        *)
(* messages and the RRC connection release.                                *)
(***************************************************************************)
EXTENDS Naturals

NewContext(state, timer, source) ==
    [state   |-> state,
     timers  |-> {timer},  \* those running
     pending |-> FALSE,    \* m_pendingRrcConnectionReconfiguration
     source  |-> source,   \* m_sourceX2apId, 0 unless handed over to this cell
     target  |-> 0]        \* m_targetX2apId

\* A UeManager created for a preamble, and one for a UE of another cell.
InitContext == NewContext("INITIAL_RANDOM_ACCESS", "connectionRequestTimeout", 0)

JoiningContext(source) == NewContext("HANDOVER_JOINING", "handoverJoiningTimeout", source)

AbortContext(c) == [c EXCEPT !.state = "ABORTED"]

\* The message sent on a switch to a state.
Answer(c) == CASE c.state = "CONNECTION_SETUP"           -> {"SETUP"}
               [] c.state = "CONNECTION_REJECTED"        -> {"REJECT"}
               [] c.state = "CONNECTION_RECONFIGURATION" -> {"RECONFIGURATION"}
               [] OTHER                                  -> {}

\* States of a UeManager whose UE has confirmed the connection.
Established == {"ATTACH_REQUEST", "CONNECTED_NORMALLY", "CONNECTION_RECONFIGURATION"}

ScheduleRrcConnectionReconfiguration(c) ==
    IF c.state = "CONNECTED_NORMALLY"
    THEN [c EXCEPT !.state = "CONNECTION_RECONFIGURATION", !.pending = FALSE]
    ELSE IF c.state \in {"CONNECTION_REJECTED", "HANDOVER_PATH_SWITCH"} THEN AbortContext(c)
         ELSE [c EXCEPT !.pending = TRUE]

SwitchToConnectedNormally(c) ==
    LET connected == [c EXCEPT !.state = "CONNECTED_NORMALLY"]
    IN  IF c.pending THEN ScheduleRrcConnectionReconfiguration(connected) ELSE connected

\* Bug: the context of a UE that is refused waits for nothing.
RecvRrcConnectionRequest_NoTimer(c, admit) ==
    IF c.state # "INITIAL_RANDOM_ACCESS" THEN AbortContext(c)
    ELSE IF admit THEN [c EXCEPT !.state = "CONNECTION_SETUP",
                                 !.timers = {"connectionSetupTimeout"}]
                  ELSE [c EXCEPT !.state = "CONNECTION_REJECTED", !.timers = {}]

RecvRrcConnectionRequest(c, admit) ==
    LET left == c.timers \ {"connectionRequestTimeout"}
    IN  IF c.state # "INITIAL_RANDOM_ACCESS" THEN AbortContext(c)
        ELSE IF admit THEN [c EXCEPT !.state = "CONNECTION_SETUP",
                                     !.timers = left \cup {"connectionSetupTimeout"}]
                      ELSE [c EXCEPT !.state = "CONNECTION_REJECTED",
                                     !.timers = left \cup {"connectionRejectedTimeout"}]

\* With an EPC; the caller sends the initial UE message to it.
RecvRrcConnectionSetupCompleted(c) ==
    IF c.state = "CONNECTION_SETUP"
    THEN [c EXCEPT !.state = "ATTACH_REQUEST",
                   !.timers = @ \ {"connectionSetupTimeout"}]
    ELSE AbortContext(c)

\* EpcEnbApplication::DoInitialContextSetupRequest: SetupDataRadioBearer for
\* each EPS bearer, one at least, and InitialContextSetupRequest.
InitialContextSetupRequest(c) ==
    IF c.state = "ATTACH_REQUEST"
    THEN SwitchToConnectedNormally(ScheduleRrcConnectionReconfiguration(c))
    ELSE AbortContext(c)

\* Bug: the joining timer runs on.
RecvRrcConnectionReconfigurationCompleted_TimerRuns(c) ==
    CASE c.state = "CONNECTION_RECONFIGURATION" -> SwitchToConnectedNormally(c)
      [] c.state \in {"CONNECTED_NORMALLY", "HANDOVER_LEAVING"} -> c
      [] c.state = "HANDOVER_JOINING" -> [c EXCEPT !.state = "HANDOVER_PATH_SWITCH"]
      [] OTHER -> AbortContext(c)

\* The caller sends the path switch request of a UE that has joined.
RecvRrcConnectionReconfigurationCompleted(c) ==
    CASE c.state = "CONNECTION_RECONFIGURATION" -> SwitchToConnectedNormally(c)
      [] c.state \in {"CONNECTED_NORMALLY", "HANDOVER_LEAVING"} -> c
      [] c.state = "HANDOVER_JOINING" ->
           [c EXCEPT !.state = "HANDOVER_PATH_SWITCH",
                     !.timers = @ \ {"handoverJoiningTimeout"}]
      [] OTHER -> AbortContext(c)

-----------------------------------------------------------------------------
(* X2 handover.                                                            *)

PrepareHandover(c) == IF c.state = "CONNECTED_NORMALLY"
                      THEN [c EXCEPT !.state = "HANDOVER_PREPARATION"] ELSE AbortContext(c)

\* Whatever the state.
RecvHandoverRequestAck(c, newEnbUeX2apId) ==
    [c EXCEPT !.state = "HANDOVER_LEAVING", !.timers = @ \cup {"handoverLeavingTimeout"},
              !.target = newEnbUeX2apId]

\* The path switch is acknowledged.
SendUeContextRelease(c) == IF c.state = "HANDOVER_PATH_SWITCH"
                           THEN SwitchToConnectedNormally(c) ELSE AbortContext(c)

\* Bug: the context is left in HANDOVER_PREPARATION.
RecvHandoverPreparationFailure_Ignored(c) == c

\* The caller releases a UE that is leaving.
RecvHandoverPreparationFailure(c) ==
    CASE c.state = "HANDOVER_PREPARATION" -> SwitchToConnectedNormally(c)
      [] c.state = "HANDOVER_LEAVING" -> [c EXCEPT !.timers = @ \ {"handoverLeavingTimeout"}]
      [] OTHER -> AbortContext(c)

\* The caller removes the context.
RecvUeContextRelease(c) == IF c.state = "HANDOVER_LEAVING"
                           THEN [c EXCEPT !.timers = @ \ {"handoverLeavingTimeout"}]
                           ELSE AbortContext(c)

\* And nothing removes this one.
RecvHandoverCancel(c) == IF c.state = "HANDOVER_JOINING"
                         THEN [c EXCEPT !.timers = @ \ {"handoverJoiningTimeout"}]
                         ELSE AbortContext(c)

-----------------------------------------------------------------------------

\* The state a timer asserts when it expires; RemoveUe follows.
ExpectedState == [connectionRequestTimeout  |-> "INITIAL_RANDOM_ACCESS",
                  connectionSetupTimeout    |-> "CONNECTION_SETUP",
                  connectionRejectedTimeout |-> "CONNECTION_REJECTED",
                  handoverJoiningTimeout    |-> "HANDOVER_JOINING",
                  handoverLeavingTimeout    |-> "HANDOVER_LEAVING"]

Timers == DOMAIN ExpectedState

=============================================================================
