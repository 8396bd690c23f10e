--------------------------- MODULE LteConnection ---------------------------
(***************************************************************************)
(* A UE that connects to its cell, loses the connection and connects       *)
(* again: LteUeConnection and the contexts LteEnbConnection keeps for it,  *)
(* one per random access that was answered, joined by the messages of      *)
(* LteRrcProtocolReal.  Signalling bearer 0 loses messages, bearer 1 (RLC  *)
(* AM) delays them.  UEs meet only in the RNTIs and SRS indices the eNB    *)
(* gives out, so one UE with several contexts stands for all.              *)
(*                                                                         *)
(* There is no clock.  A guard marked "Timing" keeps two events in the     *)
(* order their durations give: connection request timeout 15 ms, T300      *)
(* 100 ms, connection setup timeout 150 ms, T310 1 s.  MaxMishaps bounds   *)
(* what goes wrong and what is asked for from outside.                     *)
(***************************************************************************)
EXTENDS Naturals, FiniteSets
Fun == INSTANCE Functions

CONSTANTS ConnEstFailCount, PreambleTransMax,
          MaxContexts,  \* SRS configuration indices of the cell
          MaxBearers,   \* bound: EPS bearers the application activates
          MaxMishaps    \* bound: messages lost or late, and requests from outside

ASSUME ConnectionAssumption == /\ {ConnEstFailCount, MaxContexts} \subseteq Nat \ {0}
                               /\ {PreambleTransMax, MaxMishaps} \subseteq Nat
                               /\ MaxBearers \in 0 .. 11

VARIABLES ue,          \* the state of the UE
          contexts,    \* m_ueMap of LteEnbRrc, by RNTI
          lastAllocatedRnti,
          air,         \* RRC messages and random access responses under way
          removals,    \* contexts the UE asked to remove
          attaching,   \* contexts the core was told of and has not answered
          mishaps,
          abandoned    \* contexts of connections the application ended

vars == <<ue, contexts, lastAllocatedRnti, air, removals, attaching, mishaps, abandoned>>

Ue  == INSTANCE LteUeConnection
Enb == INSTANCE LteEnbConnection

Message(type, rnti) == [type |-> type, rnti |-> rnti]
UnderWay(types, rnti) == \E m \in air : m.type \in types /\ m.rnti = rnti

Init == /\ ue = Ue!InitUe
        /\ contexts = <<>>
        /\ lastAllocatedRnti = 0
        /\ air = {}
        /\ removals = {}
        /\ attaching = {}
        /\ mishaps = 0
        /\ abandoned = {}

Mishap == mishaps < MaxMishaps /\ mishaps' = mishaps + 1

-----------------------------------------------------------------------------
(* The UE by itself.                                                       *)

UeTo(next) == ue' = next /\ UNCHANGED <<contexts, lastAllocatedRnti, air, attaching>>
Quietly    == UNCHANGED <<removals, mishaps, abandoned>>

Attach == /\ ue.rrc = "IDLE_START"
          /\ UeTo(Ue!Attach(ue)) \/ UeTo(Ue!AttachToCell(ue))
          /\ Quietly

\* EpcHelper::ActivateEpsBearer; not while the NAS is ACTIVE, which is fatal.
ActivateEpsBearer == /\ ue.nas = "OFF"
                     /\ ue.forReconnection < MaxBearers
                     /\ UeTo(Ue!ActivateEpsBearer(ue))
                     /\ Quietly

\* The application disconnects: EpcUeNas::Disconnect, which has no effect
\* before a connection is tried and is fatal while one is.
Disconnect == /\ Ue!Connected(ue)
              /\ UeTo(Ue!Disconnect(ue))
              /\ abandoned' = abandoned \cup {ue.rnti}
              /\ Mishap
              /\ UNCHANGED removals

RetryConnect == ue.retry /\ UeTo(Ue!RetryConnect(ue)) /\ Quietly

ReportUeMeasurements == /\ ue.rrc = "IDLE_CELL_SEARCH"
                        /\ UeTo(Ue!ReportUeMeasurements(ue))
                        /\ Quietly

RecvMasterInformationBlock == /\ ue.rrc \notin {"IDLE_START", "IDLE_CELL_SEARCH"}
                              /\ UeTo(Ue!RecvMasterInformationBlock(ue))
                              /\ Quietly

RecvSystemInformationBlockType1 ==
    /\ ue.rrc = "IDLE_WAIT_SIB1"
    /\ \/ UeTo(Ue!RecvSystemInformationBlockType1(ue, TRUE)) /\ UNCHANGED mishaps
       \/ UeTo(Ue!RecvSystemInformationBlockType1(ue, FALSE)) /\ Mishap
    /\ UNCHANGED <<removals, abandoned>>

RecvSystemInformation == UeTo(Ue!RecvSystemInformation(ue)) /\ Quietly

\* Timing: the response comes within the window or is lost.
RaResponseTimeout == /\ ue.rrc = "IDLE_RANDOM_ACCESS"
                     /\ ~ue.preambleSent
                     /\ ~ \E m \in air : m.type = "RAR"
                     /\ UeTo(Ue!RaResponseTimeout(ue))
                     /\ Quietly

\* T300.  Timing: the request has arrived or is lost, and then the connection
\* request timeout has expired.  An answer still under way is late.
ConnectionTimeout ==
    /\ ue.connectionTimeout
    /\ ~UnderWay({"REQUEST"}, ue.rnti)
    /\ ue.rnti \in DOMAIN contexts =>
          "connectionRequestTimeout" \notin contexts[ue.rnti].timers
    /\ UeTo(Ue!ConnectionTimeout(ue))
    /\ IF UnderWay({"SETUP", "REJECT"}, ue.rnti) THEN Mishap ELSE UNCHANGED mishaps
    /\ UNCHANGED <<removals, abandoned>>

\* Bug: the eNB is not told.
ContextToRemove_None(rnti) == {}

ContextToRemove(rnti) == {rnti}

\* T310.  Timing: the core has answered, and the setup timeout has not run
\* out but been stopped.
RadioLinkFailureDetected ==
    /\ Ue!Connected(ue)
    /\ attaching = {}
    /\ ue.rnti \in DOMAIN contexts => contexts[ue.rnti].state \in Enb!Established
    /\ UeTo(Ue!RadioLinkFailureDetected(ue))
    /\ removals' = removals \cup ContextToRemove(ue.rnti)
    /\ Mishap
    /\ UNCHANGED abandoned

-----------------------------------------------------------------------------
(* The eNB by itself.                                                      *)

\* LteEnbMac and DoAllocateTemporaryCellRnti: a context and a response,
\* unless the SRS configuration indices are used up.
RecvPreamble ==
    /\ ue.preambleSent
    /\ ue' = [ue EXCEPT !.preambleSent = FALSE]
    /\ IF Cardinality(DOMAIN contexts) >= MaxContexts
       THEN UNCHANGED <<contexts, lastAllocatedRnti, air>>
       ELSE LET rnti == lastAllocatedRnti + 1
            IN  /\ lastAllocatedRnti' = rnti
                /\ contexts' = [r \in DOMAIN contexts \cup {rnti} |->
                                   IF r = rnti THEN Enb!InitContext ELSE contexts[r]]
                /\ air' = air \cup {Message("RAR", rnti)}
    /\ UNCHANGED attaching
    /\ Quietly

RemoveUe(rnti) == contexts' = Fun!Restrict(contexts, DOMAIN contexts \ {rnti})

ContextTo(rnti, next) == contexts' = [contexts EXCEPT ![rnti] = next]

EnbOnly == UNCHANGED <<ue, lastAllocatedRnti>>

\* Timing: the random access response and the request are faster than the
\* request timeout, and the setup timeout outlasts T300.  A confirmation still
\* under way when its connection's setup times out is late.
TimeoutIsDue(timer, rnti) ==
    CASE timer = "connectionRequestTimeout"  -> ~UnderWay({"RAR", "REQUEST"}, rnti)
      [] timer = "connectionSetupTimeout"    -> ~(ue.rnti = rnti /\ ue.connectionTimeout)
      [] timer = "connectionRejectedTimeout" -> TRUE

ExpireTimer(timer, rnti) ==
    /\ rnti \in DOMAIN contexts
    /\ timer \in contexts[rnti].timers
    /\ TimeoutIsDue(timer, rnti)
    /\ IF contexts[rnti].state = Enb!ExpectedState[timer] THEN RemoveUe(rnti)
       ELSE ContextTo(rnti, Enb!AbortContext(contexts[rnti]))
    /\ IF Ue!Connected(ue) /\ ue.rnti = rnti THEN Mishap ELSE UNCHANGED mishaps
    /\ EnbOnly
    /\ UNCHANGED <<air, removals, attaching, abandoned>>

\* DoRecvIdealUeContextRemoveRequest; a context gone by then is no error.
RecvIdealUeContextRemoveRequest(rnti) ==
    /\ rnti \in removals
    /\ RemoveUe(rnti)
    /\ removals' = removals \ {rnti}
    /\ EnbOnly
    /\ UNCHANGED <<air, attaching, mishaps, abandoned>>

Sent(rnti, types) == {Message(type, rnti) : type \in types}

\* The core answers.  GetUeManager asserts that the context is there.
InitialContextSetup(rnti) ==
    /\ rnti \in attaching
    /\ attaching' = attaching \ {rnti}
    /\ IF rnti \in DOMAIN contexts
       THEN LET next == Enb!InitialContextSetupRequest(contexts[rnti])
            IN  /\ ContextTo(rnti, next)
                /\ air' = air \cup Sent(rnti, Enb!Answer(next))
                /\ UNCHANGED ue
       ELSE ue' = Ue!Abort(ue) /\ UNCHANGED <<contexts, air>>
    /\ UNCHANGED lastAllocatedRnti
    /\ Quietly

\* The scheduler changes the configuration of the UE.
ScheduleRrcConnectionReconfiguration(rnti) ==
    /\ rnti \in DOMAIN contexts
    /\ contexts[rnti].state \in Enb!Established \cup {"CONNECTION_SETUP"}
    /\ LET next == Enb!ScheduleRrcConnectionReconfiguration(contexts[rnti])
       IN  /\ next # contexts[rnti]
           /\ ContextTo(rnti, next)
           /\ air' = IF contexts[rnti].state = next.state THEN air
                     ELSE air \cup Sent(rnti, Enb!Answer(next))
    /\ Mishap
    /\ EnbOnly
    /\ UNCHANGED <<removals, attaching, abandoned>>

-----------------------------------------------------------------------------
(* Arrivals.                                                               *)

UeReplies(message, next, replies) ==
    /\ ue' = next
    /\ air' = (air \ {message}) \cup Sent(message.rnti, replies)

\* The MAC of the UE takes a response only during random access, and other
\* messages only with its own RNTI.
ArriveDownlink(type, rnti) ==
    LET message == Message(type, rnti)
        isForUe == IF type = "RAR" THEN ue.rrc = "IDLE_RANDOM_ACCESS" ELSE ue.rnti = rnti
    IN  /\ message \in air
        /\ \/ ~isForUe /\ UeReplies(message, ue, {})
           \/ /\ isForUe
              /\ \/ /\ type = "RAR"
                    /\ UeReplies(message, Ue!RecvRaResponse(ue, rnti), {"REQUEST"})
                 \/ /\ type = "SETUP"
                    /\ UeReplies(message, Ue!RecvRrcConnectionSetup(ue), {"SETUP_COMPLETED"})
                 \/ /\ type = "REJECT"
                    /\ UeReplies(message, Ue!RecvRrcConnectionReject(ue), {})
                 \/ /\ type = "RECONFIGURATION"
                    /\ UeReplies(message, Ue!RecvRrcConnectionReconfiguration(ue),
                                 {"RECONFIGURATION_COMPLETED"})
        /\ UNCHANGED <<contexts, lastAllocatedRnti, attaching>>
        /\ Quietly

EnbReplies(message, next) ==
    /\ ContextTo(message.rnti, next)
    /\ air' = (air \ {message}) \cup Sent(message.rnti, Enb!Answer(next))

\* The PHY of the eNB expects nothing from an RNTI without a context.  The
\* request may be refused.  Timing: the core answers before a UE reconnects.
ArriveUplink(type, rnti) ==
    LET message == Message(type, rnti)
    IN  /\ message \in air
        /\ \/ /\ rnti \notin DOMAIN contexts
              /\ air' = air \ {message}
              /\ UNCHANGED <<contexts, attaching, mishaps>>
           \/ /\ rnti \in DOMAIN contexts
              /\ \/ /\ type = "REQUEST"
                    /\ \E admit \in BOOLEAN :
                          /\ EnbReplies(message,
                                Enb!RecvRrcConnectionRequest(contexts[rnti], admit))
                          /\ IF admit THEN UNCHANGED mishaps ELSE Mishap
                    /\ UNCHANGED attaching
                 \/ /\ type = "SETUP_COMPLETED"
                    /\ attaching = {}
                    /\ EnbReplies(message,
                          Enb!RecvRrcConnectionSetupCompleted(contexts[rnti]))
                    /\ attaching' = {rnti}
                    /\ UNCHANGED mishaps
                 \/ /\ type = "RECONFIGURATION_COMPLETED"
                    /\ EnbReplies(message,
                          Enb!RecvRrcConnectionReconfigurationCompleted(contexts[rnti]))
                    /\ UNCHANGED <<attaching, mishaps>>
        /\ EnbOnly
        /\ UNCHANGED <<removals, abandoned>>

Downlink == {"RAR", "SETUP", "REJECT", "RECONFIGURATION"}
Uplink   == {"REQUEST", "SETUP_COMPLETED", "RECONFIGURATION_COMPLETED"}
Rntis    == 1 .. lastAllocatedRnti

Arrive == \E rnti \in Rntis : \/ \E type \in Downlink : ArriveDownlink(type, rnti)
                              \/ \E type \in Uplink : ArriveUplink(type, rnti)

\* The preamble, its response or a message of bearer 0 is lost.
Lose == /\ \/ /\ ue.preambleSent
              /\ ue' = [ue EXCEPT !.preambleSent = FALSE]
              /\ UNCHANGED air
           \/ /\ \E m \in air : /\ m.type \in {"RAR", "REQUEST", "SETUP", "REJECT"}
                                /\ air' = air \ {m}
              /\ UNCHANGED ue
        /\ Mishap
        /\ UNCHANGED <<contexts, lastAllocatedRnti, removals, attaching, abandoned>>

\* A message is dropped with the context or the connection that would send it.
DropUnsent == /\ \E m \in air :
                    /\ \/ m.type \in Downlink /\ m.rnti \notin DOMAIN contexts
                       \/ m.type \in Uplink /\ m.rnti # ue.rnti
                    /\ air' = air \ {m}
              /\ UNCHANGED <<ue, contexts, lastAllocatedRnti, attaching>>
              /\ Quietly

-----------------------------------------------------------------------------

Aborted == \/ ue.rrc = "ABORTED"
           \/ \E rnti \in DOMAIN contexts : contexts[rnti].state = "ABORTED"

SelectCell == \/ ReportUeMeasurements
              \/ RecvMasterInformationBlock
              \/ RecvSystemInformationBlockType1
              \/ RecvSystemInformation

ExpireTimers == \E rnti \in Rntis : \E timer \in Enb!Timers : ExpireTimer(timer, rnti)

Next == \/ Attach
        \/ ActivateEpsBearer
        \/ Disconnect
        \/ RetryConnect
        \/ SelectCell
        \/ RaResponseTimeout
        \/ ConnectionTimeout
        \/ RadioLinkFailureDetected
        \/ RecvPreamble
        \/ ExpireTimers
        \/ \E rnti \in Rntis : \/ RecvIdealUeContextRemoveRequest(rnti)
                               \/ InitialContextSetup(rnti)
                               \/ ScheduleRrcConnectionReconfiguration(rnti)
        \/ Arrive
        \/ Lose
        \/ DropUnsent

Spec == Init /\ [][Next]_vars

\* The simulator runs every scheduled event, the cell broadcasts for ever,
\* messages not lost arrive, and the scenario attaches the UE.
FairSpec == /\ Spec
            /\ WF_vars(Attach)
            /\ WF_vars(RetryConnect)
            /\ WF_vars(SelectCell)
            /\ WF_vars(RaResponseTimeout)
            /\ WF_vars(ConnectionTimeout)
            /\ WF_vars(RecvPreamble)
            /\ WF_vars(ExpireTimers)
            /\ WF_vars(\E rnti \in Rntis : RecvIdealUeContextRemoveRequest(rnti))
            /\ WF_vars(\E rnti \in Rntis : InitialContextSetup(rnti))
            /\ WF_vars(Arrive)

-----------------------------------------------------------------------------
(* Properties.                                                             *)

\* However messages, timers and requests cross, none finds the UE or a
\* context in a state its handler calls unexpected: the NS_FATAL_ERRORs and
\* assertions of lte-ue-rrc.cc, lte-enb-rrc.cc, lte-ue-mac.cc and epc-ue-nas.cc.
NeverAborts == ~Aborted

\* lte-design.rst:2303-2310: the NAS is ACTIVE while the RRC is connected, and
\* through releases and reconnections each EPS bearer is either waiting or
\* has one identity.
NasAgrees == /\ (ue.nas = "ACTIVE") = Ue!Connected(ue)
             /\ ue.bidCounter + ue.toBeActivated = ue.forReconnection
             /\ ue.nas = "ACTIVE" => ue.toBeActivated = 0

\* A connected UE whose context is there is known by it as connected, or a
\* message under way tells the one what the other has done.
ContextKnowsUe ==
    Ue!Connected(ue) /\ ue.rnti \in DOMAIN contexts =>
        LET state == contexts[ue.rnti].state
        IN  \/ state = "CONNECTED_NORMALLY"
            \/ state = "ATTACH_REQUEST" /\ ue.rnti \in attaching
            \/ state = "CONNECTION_SETUP" /\ UnderWay({"SETUP_COMPLETED"}, ue.rnti)
            \/ /\ state = "CONNECTION_RECONFIGURATION"
               /\ UnderWay({"RECONFIGURATION", "RECONFIGURATION_COMPLETED"}, ue.rnti)

\* And a context past its setup is that of the connected UE, unless the UE has
\* asked for its removal or the application has ended the connection.
EstablishedIsOwned ==
    \A rnti \in DOMAIN contexts :
        contexts[rnti].state \in Enb!Established =>
            \/ Ue!Connected(ue) /\ ue.rnti = rnti
            \/ rnti \in removals \cup abandoned

\* The two sides of the connection agree on it, through loss of the link, late
\* messages, timeouts and reconnections: RadioLinkFailureDetected's request and
\* the eNB's timers (lte-enb-rrc.cc:2621-2661) leave no other combination.
SidesAgree == ContextKnowsUe /\ EstablishedIsOwned

\* The contexts of attempts that came to nothing are removed in the end,
\* although the UE does not ask for it (lte-ue-rrc.cc:3200-3203), so their
\* SRS configuration indices are not lost to the cell.
Reclaimed == <>[](DOMAIN contexts \subseteq abandoned \cup {ue.rnti})

\* The UE is connected to a context of the eNB.
Served   == Ue!Connected(ue) /\ ue.rnti \in DOMAIN contexts

\* The setup timed out with the confirmation under way; nobody tells the UE.
Orphaned == Ue!Connected(ue) /\ ue.rnti \notin DOMAIN contexts

\* Contexts of connections the application ended are kept for ever.
Crowded  == Cardinality(abandoned \cap DOMAIN contexts) >= MaxContexts

\* Whatever is lost, refused or fails, the UE is connected in the end and
\* stays so, unless the setup timeout or Disconnect has left an inconsistency
\* the code does not resolve.
EventuallyServed == <>[](Served \/ Orphaned \/ Crowded)

=============================================================================
