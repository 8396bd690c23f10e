---------------------------- MODULE LteHandover ----------------------------
(***************************************************************************)
(* X2 handovers of a connected UE between two eNBs with a cell each:       *)
(* LteUeConnection, the contexts LteEnbConnection keeps for the UE in      *)
(* either cell, the X2 link between the cells with its data forwarding,    *)
(* the path switch in the core, and the radio.  A UE that leaves connected *)
(* mode is not followed further; LteConnection shows how it comes back.    *)
(*                                                                         *)
(* There is no clock.  Requests to remove a context and RRC connection     *)
(* releases are scheduled without delay (RRC_REAL_MSG_DELAY) and so come   *)
(* before anything else.  With a quick backhaul, as the helpers configure  *)
(* it (links without delay), radio, timers and handover algorithm act when *)
(* X2 and S1 are quiet; with a slow one everything interleaves.            *)
(***************************************************************************)
EXTENDS Naturals, Sequences

CONSTANTS PreambleTransMax,
          MaxHandovers,  \* bound: handovers asked for
          MaxMishaps     \* bound: losses, refusals, failures, reconfigurations
                         \* and data to forward

ASSUME HandoverAssumption == {PreambleTransMax, MaxHandovers, MaxMishaps} \subseteq Nat

VARIABLES ue,             \* the state of the UE
          ueCell,         \* m_cellId
          contexts,       \* m_ueMap of each cell, by RNTI
          lastAllocatedRnti,
          air,            \* RRC messages and random access responses under way
          ideal,          \* the release or the removal scheduled for now
          x2,             \* messages under way to each cell, in order
          pathSwitches,   \* requests the core has not acknowledged
          handovers, mishaps,
          quickBackhaul   \* how the links are configured

vars == <<ue, ueCell, contexts, lastAllocatedRnti, air, ideal, x2, pathSwitches,
          handovers, mishaps, quickBackhaul>>

Fun == INSTANCE Functions
Ue  == INSTANCE LteUeConnection WITH ConnEstFailCount <- 1
Enb == INSTANCE LteEnbConnection

Cells       == {1, 2}
Other(cell) == 3 - cell

\* Connected to the first cell, with the default EPS bearer.
Init == /\ ue = [Ue!InitUe EXCEPT !.rrc = "CONNECTED_NORMALLY", !.rnti = 1, !.nas = "ACTIVE",
                                  !.hasReceivedMib = TRUE, !.hasReceivedSib2 = TRUE,
                                  !.rachConfigured = TRUE, !.forReconnection = 1,
                                  !.bidCounter = 1]
        /\ ueCell = 1
        /\ contexts = [cell \in Cells |->
              IF cell = 1 THEN <<[Enb!InitContext EXCEPT !.state = "CONNECTED_NORMALLY",
                                                         !.timers = {}]>>
                          ELSE <<>>]
        /\ lastAllocatedRnti = [cell \in Cells |-> IF cell = 1 THEN 1 ELSE 0]
        /\ air = {}
        /\ ideal = {}
        /\ x2 = [cell \in Cells |-> <<>>]
        /\ pathSwitches = {}
        /\ handovers = 0
        /\ mishaps = 0
        /\ quickBackhaul \in BOOLEAN

Mishap == mishaps < MaxMishaps /\ mishaps' = mishaps + 1

Bounds == UNCHANGED <<handovers, mishaps, quickBackhaul>>

\* Timing: when the radio, a timer or the program acts.
Quiet == ideal = {} /\ (quickBackhaul => pathSwitches = {} /\ \A cell \in Cells : x2[cell] = <<>>)

-----------------------------------------------------------------------------
(* Contexts and messages.                                                  *)

Has(cell, rnti) == rnti \in DOMAIN contexts[cell]

ContextTo(cell, rnti, next) == contexts' = [contexts EXCEPT ![cell][rnti] = next]

RemoveUe(cell, rnti) ==
    contexts' = [contexts EXCEPT ![cell] = Fun!Restrict(@, DOMAIN @ \ {rnti})]

AddUe(cell, context) ==
    LET rnti == lastAllocatedRnti[cell] + 1
    IN  /\ lastAllocatedRnti' = [lastAllocatedRnti EXCEPT ![cell] = rnti]
        /\ contexts' = [contexts EXCEPT ![cell] = [r \in DOMAIN @ \cup {rnti} |->
                                                     IF r = rnti THEN context ELSE @[r]]]

\* On the radio: to or from the UE with that RNTI in that cell.  A handover
\* command names the RNTI in the other cell.
Message(type, cell, rnti) == [type |-> type, cell |-> cell, rnti |-> rnti, new |-> 0]
Command(cell, rnti, new)  == [Message("COMMAND", cell, rnti) EXCEPT !.new = new]

AnswerOf(cell, rnti, context) == {Message(type, cell, rnti) : type \in Enb!Answer(context)}

\* On X2: oldEnbUeX2apId and newEnbUeX2apId.
X2Message(type, old, new) == [type |-> type, old |-> old, new |-> new]

X2Send(cell, messages) == x2' = [x2 EXCEPT ![cell] = @ \o messages]

Removal(cell, rnti) == [to |-> cell, rnti |-> rnti]
Release             == [to |-> 0, rnti |-> 0]

\* SendRrcConnectionRelease: the UE is told and the context removed.
ReleaseUe(cell, rnti) == RemoveUe(cell, rnti) /\ ideal' = ideal \cup {Release}

\* GetUeManager asserts that the context is there.
Halt == ue' = Ue!Abort(ue)

\* Those with an entry in m_x2uTeidInfoMap, made while joining.
WithTeid(cell) == {rnti \in DOMAIN contexts[cell] : contexts[cell][rnti].source # 0}

-----------------------------------------------------------------------------
(* The source cell starts a handover.                                      *)

\* DoTriggerHandover, which only a context in CONNECTED_NORMALLY heeds.
TriggerHandover(cell, rnti) ==
    /\ Quiet
    /\ contexts[cell][rnti].state = "CONNECTED_NORMALLY"
    /\ ContextTo(cell, rnti, Enb!PrepareHandover(contexts[cell][rnti]))
    /\ X2Send(Other(cell), <<X2Message("HANDOVER_REQUEST", rnti, 0)>>)
    /\ handovers < MaxHandovers
    /\ handovers' = handovers + 1
    /\ UNCHANGED <<ue, ueCell, lastAllocatedRnti, air, ideal, pathSwitches, mishaps,
                   quickBackhaul>>

\* The scheduler changes the configuration of the UE.
ScheduleRrcConnectionReconfiguration(cell, rnti) ==
    LET now  == contexts[cell][rnti]
        next == Enb!ScheduleRrcConnectionReconfiguration(now)
    IN  /\ Quiet
        /\ now.state # "INITIAL_RANDOM_ACCESS"
        /\ next # now
        /\ ContextTo(cell, rnti, next)
        /\ air' = IF next.state = now.state THEN air ELSE air \cup AnswerOf(cell, rnti, next)
        /\ Mishap
        /\ UNCHANGED <<ue, ueCell, lastAllocatedRnti, ideal, x2, pathSwitches, handovers,
                       quickBackhaul>>

\* Data from the core for a UE that is leaving is forwarded.
SendData(cell, rnti) ==
    /\ Quiet
    /\ contexts[cell][rnti].state = "HANDOVER_LEAVING"
    /\ X2Send(Other(cell), <<X2Message("UE_DATA", 0, 0)>>)
    /\ Mishap
    /\ UNCHANGED <<ue, ueCell, contexts, lastAllocatedRnti, air, ideal, pathSwitches, handovers,
                   quickBackhaul>>

-----------------------------------------------------------------------------
(* X2 messages arrive, in order, and S1.                                   *)

\* The next message to the cell is of the type, and is answered by the others.
RecvX2(cell, type, answers) ==
    /\ ideal = {}
    /\ x2[cell] # <<>>
    /\ Head(x2[cell]).type = type
    /\ x2' = [x2 EXCEPT ![cell] = Tail(@), ![Other(cell)] = @ \o answers]
    /\ UNCHANGED <<ueCell, pathSwitches, handovers, quickBackhaul>>

\* Refused for want of an SRS index or of a preamble, the latter after an RNTI
\* was given out; or accepted, which asserts that the TEIDs are new.
RecvHandoverRequest(cell) ==
    /\ x2[cell] # <<>>
    /\ LET old == Head(x2[cell]).old
           new == lastAllocatedRnti[cell] + 1
       IN  \/ /\ RecvX2(cell, "HANDOVER_REQUEST", <<X2Message("PREPARATION_FAILURE", old, 0)>>)
              /\ \E given \in 0 .. 1 :
                    lastAllocatedRnti' = [lastAllocatedRnti EXCEPT ![cell] = @ + given]
              /\ Mishap
              /\ UNCHANGED <<ue, contexts>>
           \/ /\ RecvX2(cell, "HANDOVER_REQUEST", <<X2Message("REQUEST_ACK", old, new)>>)
              /\ AddUe(cell, Enb!JoiningContext(old))
              /\ IF WithTeid(cell) = {} THEN UNCHANGED ue ELSE Halt
              /\ UNCHANGED mishaps
    /\ UNCHANGED <<air, ideal>>

\* The message of X2 the handler is called with, when its context is there.
X2Old(cell) == Head(x2[cell]).old
X2New(cell) == Head(x2[cell]).new

\* DoRecvHandoverRequestAck does not check that the RNTI is not stale.
RecvHandoverRequestAck(cell) ==
    /\ RecvX2(cell, "REQUEST_ACK", <<>>)
    /\ IF Has(cell, X2Old(cell))
       THEN /\ ContextTo(cell, X2Old(cell), Enb!RecvHandoverRequestAck(
                   contexts[cell][X2Old(cell)], X2New(cell)))
            /\ air' = air \cup {Command(cell, X2Old(cell), X2New(cell))}
            /\ UNCHANGED ue
       ELSE Halt /\ UNCHANGED <<contexts, air>>
    /\ UNCHANGED <<lastAllocatedRnti, ideal, mishaps>>

RecvHandoverPreparationFailure(cell) ==
    /\ RecvX2(cell, "PREPARATION_FAILURE", <<>>)
    /\ \/ ~Has(cell, X2Old(cell)) /\ UNCHANGED <<contexts, air, ideal>>
       \/ /\ Has(cell, X2Old(cell))
          /\ LET rnti == X2Old(cell)
                 next == Enb!RecvHandoverPreparationFailure(contexts[cell][rnti])
             IN  IF next.state = "HANDOVER_LEAVING"
                 THEN ReleaseUe(cell, rnti) /\ UNCHANGED air
                 ELSE /\ ContextTo(cell, rnti, next)
                      /\ air' = air \cup AnswerOf(cell, rnti, next)
                      /\ UNCHANGED ideal
    /\ UNCHANGED <<ue, lastAllocatedRnti, mishaps>>

RecvUeContextRelease(cell) ==
    /\ RecvX2(cell, "CONTEXT_RELEASE", <<>>)
    /\ \/ ~Has(cell, X2Old(cell)) /\ UNCHANGED contexts
       \/ /\ Has(cell, X2Old(cell))
          /\ LET next == Enb!RecvUeContextRelease(contexts[cell][X2Old(cell)])
             IN  IF next.state = "ABORTED" THEN ContextTo(cell, X2Old(cell), next)
                 ELSE RemoveUe(cell, X2Old(cell))
    /\ UNCHANGED <<ue, lastAllocatedRnti, air, ideal, mishaps>>

\* DoRecvHandoverCancel: the core is told, the context is not removed.
RecvHandoverCancel(cell) ==
    /\ RecvX2(cell, "HANDOVER_CANCEL", <<>>)
    /\ \/ ~Has(cell, X2New(cell)) /\ UNCHANGED contexts
       \/ /\ Has(cell, X2New(cell))
          /\ ContextTo(cell, X2New(cell),
                       Enb!RecvHandoverCancel(contexts[cell][X2New(cell)]))
    /\ UNCHANGED <<ue, lastAllocatedRnti, air, ideal, mishaps>>

\* Data for a bearer without an entry is fatal; a leaving UE's goes on.
RecvUeData(cell) ==
    /\ \/ /\ WithTeid(cell) = {}
          /\ RecvX2(cell, "UE_DATA", <<>>)
          /\ Halt
       \/ \E rnti \in WithTeid(cell) :
             /\ RecvX2(cell, "UE_DATA",
                       IF contexts[cell][rnti].state = "HANDOVER_LEAVING"
                       THEN <<X2Message("UE_DATA", 0, 0)>> ELSE <<>>)
             /\ UNCHANGED ue
    /\ UNCHANGED <<contexts, lastAllocatedRnti, air, ideal, mishaps>>

\* GetUeManager asserts that the context is there.
PathSwitchRequestAcknowledge(cell, rnti) ==
    /\ ideal = {}
    /\ Removal(cell, rnti) \in pathSwitches
    /\ pathSwitches' = pathSwitches \ {Removal(cell, rnti)}
    /\ \/ ~Has(cell, rnti) /\ Halt /\ UNCHANGED <<contexts, air, x2>>
       \/ /\ Has(cell, rnti)
          /\ LET next == Enb!SendUeContextRelease(contexts[cell][rnti])
             IN  /\ ContextTo(cell, rnti, next)
                 /\ air' = air \cup AnswerOf(cell, rnti, next)
                 /\ X2Send(Other(cell), <<X2Message("CONTEXT_RELEASE", next.source, rnti)>>)
          /\ UNCHANGED ue
    /\ UNCHANGED <<ueCell, lastAllocatedRnti, ideal>>
    /\ Bounds

-----------------------------------------------------------------------------
(* The UE.                                                                 *)

IsForUe(message) == message.cell = ueCell /\ message.rnti = ue.rnti

\* The UE goes on to next and sends the messages.
UeTo(next, consumed, sent) ==
    /\ ue' = next
    /\ air' = (air \ consumed) \cup sent
    /\ UNCHANGED <<contexts, lastAllocatedRnti, x2, pathSwitches, handovers, quickBackhaul>>

ArriveCommand(message) ==
    /\ Quiet
    /\ message.type = "COMMAND"
    /\ IF IsForUe(message)
       THEN /\ UeTo(Ue!RecvHandoverCommand(ue, message.new), {message}, {})
            /\ ueCell' = Other(ueCell)
       ELSE UeTo(ue, {message}, {}) /\ UNCHANGED ueCell
    /\ UNCHANGED <<ideal, mishaps>>

ArriveReconfiguration(message) ==
    /\ Quiet
    /\ message.type = "RECONFIGURATION"
    /\ IF IsForUe(message)
       THEN UeTo(Ue!RecvRrcConnectionReconfiguration(ue), {message},
                 {Message("RECONFIGURATION_COMPLETED", ueCell, ue.rnti)})
       ELSE UeTo(ue, {message}, {})
    /\ UNCHANGED <<ueCell, ideal, mishaps>>

\* Known to the UE by its preamble.
ArriveRaResponse(message) ==
    /\ Quiet
    /\ message.type = "RAR"
    /\ IF message.cell = ueCell /\ ue.rrc = "CONNECTED_HANDOVER"
       THEN UeTo(Ue!RecvRaResponse(ue, message.rnti), {message},
                 {Message("RECONFIGURATION_COMPLETED", ueCell, message.rnti)})
       ELSE UeTo(ue, {message}, {})
    /\ UNCHANGED <<ueCell, ideal, mishaps>>

\* Timing: the response comes within the window or is lost.
RaResponseTimeout ==
    /\ Quiet
    /\ ue.rrc = "CONNECTED_HANDOVER"
    /\ ~ue.preambleSent
    /\ ~ \E m \in air : m.type = "RAR" /\ m.cell = ueCell
    /\ LET next == Ue!RaResponseTimeout(ue)
       IN  /\ UeTo(next, {}, {})
           /\ ideal' = IF next.rrc = "CONNECTED_HANDOVER" THEN {}
                       ELSE {Removal(ueCell, ue.rnti)}
    /\ UNCHANGED <<ueCell, mishaps>>

\* T310, stopped by a handover command.  Timing: the joining timeout is shorter.
RadioLinkFailureDetected ==
    /\ Quiet
    /\ Ue!Connected(ue)
    /\ Has(ueCell, ue.rnti) => contexts[ueCell][ue.rnti].state # "HANDOVER_JOINING"
    /\ UeTo(Ue!RadioLinkFailureDetected(ue), {}, {})
    /\ ideal' = {Removal(ueCell, ue.rnti)}
    /\ Mishap
    /\ UNCHANGED ueCell

\* Wherever the UE is, and its request goes to the cell it is in.
RecvRrcConnectionRelease ==
    LET next == Ue!RecvRrcConnectionRelease(ue)
    IN  /\ Release \in ideal
        /\ UeTo(next, {}, {})
        /\ ideal' = (ideal \ {Release})
                    \cup (IF next = ue THEN {} ELSE {Removal(ueCell, ue.rnti)})
        /\ UNCHANGED <<ueCell, mishaps>>

-----------------------------------------------------------------------------
(* The eNBs: the radio, removals and timers.                               *)

EnbTo(sent) == /\ air' = sent
               /\ UNCHANGED <<ueCell, handovers, quickBackhaul>>

\* A preamble allocated to a context, or no longer so.
RecvPreamble ==
    /\ Quiet
    /\ ue.preambleSent
    /\ ue' = [ue EXCEPT !.preambleSent = FALSE]
    /\ \/ /\ WithTeid(ueCell) = {}
          /\ AddUe(ueCell, Enb!InitContext)
          /\ EnbTo(air \cup {Message("RAR", ueCell, lastAllocatedRnti'[ueCell])})
       \/ \E rnti \in WithTeid(ueCell) :
             /\ EnbTo(air \cup {Message("RAR", ueCell, rnti)})
             /\ UNCHANGED <<contexts, lastAllocatedRnti>>
    /\ UNCHANGED <<ideal, x2, pathSwitches, mishaps>>

\* The PHY expects nothing from an RNTI without a context.
ArriveCompleted(message) ==
    /\ Quiet
    /\ message.type = "RECONFIGURATION_COMPLETED"
    /\ \/ /\ ~Has(message.cell, message.rnti)
          /\ EnbTo(air \ {message})
          /\ UNCHANGED <<contexts, pathSwitches>>
       \/ /\ Has(message.cell, message.rnti)
          /\ LET next == Enb!RecvRrcConnectionReconfigurationCompleted(
                            contexts[message.cell][message.rnti])
             IN  /\ ContextTo(message.cell, message.rnti, next)
                 /\ EnbTo((air \ {message}) \cup AnswerOf(message.cell, message.rnti, next))
                 /\ pathSwitches' = pathSwitches \cup
                       (IF next.state = "HANDOVER_PATH_SWITCH"
                        THEN {Removal(message.cell, message.rnti)} ELSE {})
    /\ UNCHANGED <<ue, lastAllocatedRnti, ideal, x2, mishaps>>

\* The preamble or its response is lost.
Lose == /\ Quiet
        /\ \/ ue.preambleSent /\ ue' = [ue EXCEPT !.preambleSent = FALSE] /\ EnbTo(air)
           \/ \E m \in air : m.type = "RAR" /\ EnbTo(air \ {m}) /\ UNCHANGED ue
        /\ Mishap
        /\ UNCHANGED <<contexts, lastAllocatedRnti, ideal, x2, pathSwitches>>

\* A message is dropped with the context or the connection that would send it.
DropUnsent == /\ Quiet
              /\ \E m \in air :
                    /\ IF m.type = "RECONFIGURATION_COMPLETED" THEN ~IsForUe(m)
                       ELSE ~Has(m.cell, m.rnti)
                    /\ EnbTo(air \ {m})
              /\ UNCHANGED <<ue, contexts, lastAllocatedRnti, ideal, x2, pathSwitches, mishaps>>

\* DoRecvIdealUeContextRemoveRequest; a stale RNTI is no error.
RecvIdealUeContextRemoveRequest(cell, rnti) ==
    /\ Removal(cell, rnti) \in ideal
    /\ ideal' = ideal \ {Removal(cell, rnti)}
    /\ RemoveUe(cell, rnti)
    /\ IF Has(cell, rnti) /\ contexts[cell][rnti].state = "HANDOVER_JOINING"
       THEN X2Send(Other(cell),
                   <<X2Message("PREPARATION_FAILURE", contexts[cell][rnti].source, 0)>>)
       ELSE UNCHANGED x2
    /\ EnbTo(air)
    /\ UNCHANGED <<ue, lastAllocatedRnti, pathSwitches, mishaps>>

\* Bug: the source cell is not told.
SentOnTimeout_Silent(timer, context) ==
    IF timer = "handoverLeavingTimeout" THEN <<X2Message("HANDOVER_CANCEL", 0, context.target)>>
    ELSE <<>>

SentOnTimeout(timer, context) ==
    CASE timer = "handoverJoiningTimeout" ->
           <<X2Message("PREPARATION_FAILURE", context.source, 0)>>
      [] timer = "handoverLeavingTimeout" -> <<X2Message("HANDOVER_CANCEL", 0, context.target)>>
      [] OTHER -> <<>>

\* The leaving timeout also releases the UE.  Both timeouts can be configured
\* to come before or after any step of the random access.
ExpireTimer(cell, rnti, timer) ==
    LET context == contexts[cell][rnti]
    IN  /\ Quiet
        /\ timer \in context.timers
        /\ IF context.state # Enb!ExpectedState[timer]
           THEN ContextTo(cell, rnti, Enb!AbortContext(context)) /\ UNCHANGED <<ideal, x2>>
           ELSE /\ X2Send(Other(cell), SentOnTimeout(timer, context))
                /\ IF timer = "handoverLeavingTimeout" THEN ReleaseUe(cell, rnti)
                   ELSE RemoveUe(cell, rnti) /\ UNCHANGED ideal
        /\ EnbTo(air)
        /\ UNCHANGED <<ue, lastAllocatedRnti, pathSwitches, mishaps>>

-----------------------------------------------------------------------------

Aborted == \/ ue.rrc = "ABORTED"
           \/ \E cell \in Cells : \E rnti \in DOMAIN contexts[cell] :
                 contexts[cell][rnti].state = "ABORTED"

ArriveX2(cell) == \/ RecvHandoverRequest(cell)
                  \/ RecvHandoverRequestAck(cell)
                  \/ RecvHandoverPreparationFailure(cell)
                  \/ RecvUeContextRelease(cell)
                  \/ RecvHandoverCancel(cell)
                  \/ RecvUeData(cell)

ArriveS1 == \E m \in pathSwitches : PathSwitchRequestAcknowledge(m.to, m.rnti)

ArriveAir == \/ \E m \in air : \/ ArriveCommand(m)
                               \/ ArriveReconfiguration(m)
                               \/ ArriveRaResponse(m)
                               \/ ArriveCompleted(m)
             \/ RecvPreamble

ArriveIdeal == \/ RecvRrcConnectionRelease
               \/ \E m \in ideal \ {Release} :
                     RecvIdealUeContextRemoveRequest(m.to, m.rnti)

ExpireTimers == \E cell \in Cells : \E rnti \in DOMAIN contexts[cell] :
                   \E timer \in Enb!Timers : ExpireTimer(cell, rnti, timer)

Next == /\ ~Aborted
        /\ \/ \E cell \in Cells : \E rnti \in DOMAIN contexts[cell] :
                 \/ TriggerHandover(cell, rnti)
                 \/ ScheduleRrcConnectionReconfiguration(cell, rnti)
                 \/ SendData(cell, rnti)
           \/ \E cell \in Cells : ArriveX2(cell)
           \/ ArriveS1
           \/ ArriveAir
           \/ ArriveIdeal
           \/ RaResponseTimeout
           \/ RadioLinkFailureDetected
           \/ Lose
           \/ DropUnsent
           \/ ExpireTimers

Spec == Init /\ [][Next]_vars

\* The simulator runs every scheduled event, X2 and S1 are reliable, and
\* messages not lost arrive.
FairSpec == /\ Spec
            /\ \A cell \in Cells : WF_vars(~Aborted /\ ArriveX2(cell))
            /\ WF_vars(~Aborted /\ ArriveS1)
            /\ WF_vars(~Aborted /\ ArriveAir)
            /\ WF_vars(~Aborted /\ ArriveIdeal)
            /\ WF_vars(~Aborted /\ RaResponseTimeout)
            /\ WF_vars(~Aborted /\ ExpireTimers)

-----------------------------------------------------------------------------
(* Properties.                                                             *)

\* When X2 and S1 are quick, no message, timer or request finds a context in a
\* state its handler calls unexpected, none that is needed is missing, no TEID
\* is overwritten and no forwarded data finds none: the NS_FATAL_ERRORs and
\* assertions of lte-enb-rrc.cc and lte-ue-rrc.cc about handover.
NeverAborts == quickBackhaul => ~Aborted

UnderWay(types) == \E m \in air : m.type \in types /\ IsForUe(m)

\* The cell of the UE, which follows what the other one has told it.
CellKnowsUe ==
    /\ Ue!Connected(ue) /\ Has(ueCell, ue.rnti) =>
          LET state == contexts[ueCell][ue.rnti].state
          IN  \/ state \in {"CONNECTED_NORMALLY", "HANDOVER_PREPARATION", "HANDOVER_PATH_SWITCH"}
              \/ /\ state = "CONNECTION_RECONFIGURATION"
                 /\ UnderWay({"RECONFIGURATION", "RECONFIGURATION_COMPLETED"})
              \/ state = "HANDOVER_LEAVING" /\ UnderWay({"COMMAND"})
              \/ state = "HANDOVER_JOINING" /\ UnderWay({"RECONFIGURATION_COMPLETED"})
              \/ state = "INITIAL_RANDOM_ACCESS" /\ ~quickBackhaul
    /\ ue.rrc = "CONNECTED_HANDOVER" /\ Has(ueCell, ue.rnti) =>
          contexts[ueCell][ue.rnti].state = "HANDOVER_JOINING"

\* A UE whose cell has lost it is about to be told by the other cell.
LostIsTold ==
    ue.rrc \in {"CONNECTED_NORMALLY", "CONNECTED_HANDOVER"} /\ ~Has(ueCell, ue.rnti) =>
        \/ Release \in ideal
        \/ \E i \in DOMAIN x2[Other(ueCell)] :
              LET m == x2[Other(ueCell)][i]
              IN  /\ m.type = "PREPARATION_FAILURE"
                  /\ Has(Other(ueCell), m.old)
                  /\ contexts[Other(ueCell)][m.old].state = "HANDOVER_LEAVING"

\* A context that serves a UE is that of the UE, or is about to be removed.
ServingIsOwned ==
    \A cell \in Cells : \A rnti \in DOMAIN contexts[cell] :
        contexts[cell][rnti].state \in {"CONNECTED_NORMALLY", "CONNECTION_RECONFIGURATION",
                                        "HANDOVER_PREPARATION", "HANDOVER_PATH_SWITCH"} =>
            \/ Ue!Connected(ue) /\ ueCell = cell /\ ue.rnti = rnti
            \/ Removal(cell, rnti) \in ideal

\* Whichever of command, random access, path switch, timeouts and failures
\* comes first, UE, source and target agree on who serves the UE, as long as
\* the run is not aborted.
CellsAgree == Aborted \/ (CellKnowsUe /\ LostIsTold /\ ServingIsOwned)

\* A context whose handover was cancelled before its UE came; see the README.
Leaked(context) == context.state = "HANDOVER_JOINING" /\ context.timers = {}

Settled == /\ ue.rrc # "CONNECTED_HANDOVER"
           /\ Ue!Connected(ue) => Has(ueCell, ue.rnti)
           /\ \A cell \in Cells : \A rnti \in DOMAIN contexts[cell] :
                 \/ Leaked(contexts[cell][rnti])
                 \/ /\ contexts[cell][rnti].state = "CONNECTED_NORMALLY"
                    /\ Ue!Connected(ue) /\ ueCell = cell /\ ue.rnti = rnti

\* Every handover ends: with the UE served by one cell and forgotten by the
\* other, or with the UE released and forgotten by both, but for leaked contexts.
EventuallySettled == <>[](Aborted \/ Settled)

=============================================================================
