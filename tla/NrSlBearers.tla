---------------------------- MODULE NrSlBearers -----------------------------
(***************************************************************************)
(* Setting up sidelink radio bearers out of coverage: EpcUeNas             *)
(* (epc-ue-nas.cc) asks LteUeRrc (lte-ue-rrc.cc) for the bearers of its    *)
(* traffic flow templates (TFTs).  LteUeRrc creates an RLC and a PDCP      *)
(* entity, files the bearer in the maps of NrSlUeRrc (nr-sl-ue-rrc.cc) and *)
(* registers the RLC entity as a logical channel of the MAC.  The MAC of a *)
(* receiving UE asks for a bearer when it hears an unknown logical channel.*)
(*                                                                         *)
(* The RRC stays in its idle states (the simulator attaches no UE), one    *)
(* bandwidth part carries the sidelink, and a UE is its source layer 2 id. *)
(* The MAC is 5G-LENA's, modelled from the calls LteUeRrc exchanges with   *)
(* it.                                                                     *)
(***************************************************************************)
EXTENDS Naturals, Sequences

CONSTANTS Ues,     \* the UEs, by source layer 2 id
          Groups,  \* destination layer 2 ids that are no UE's
          Plans    \* the sequences of TFTs a scenario activates on a UE

Directions == {"TRANSMIT", "RECEIVE", "BIDIRECTIONAL"}

Tfts == [dir : Directions, dst : Ues \cup Groups]

ASSUME BearerAssumption == Ues \cap Groups = {} /\ Plans \subseteq Seq(Tfts)

VARIABLES plan,           \* the TFTs of each UE, in the order of activation
          pending,        \* m_pendingSlBearersList, the TFTs in it
          activated,      \* m_slBearersActivatedList, the TFTs in it
          slDrbMap,       \* m_slDrbMap: layer 2 id -> bearers
          slRxDrbMap,     \* m_slRxDrbMap: layer 2 id -> bearers
          logicalChannels,\* the MAC's logical channels
          rxDestinations, \* the destinations the MAC receives
          onAir,          \* bearers data was sent on, by sender
          aborted         \* NS_FATAL_ERROR or a failed assertion ended the run

bearerVars == <<plan, pending, activated, slDrbMap, slRxDrbMap, logicalChannels,
                rxDestinations, onAir, aborted>>

Bearer(src, dst, lcid) == [src |-> src, dst |-> dst, lcid |-> lcid]

\* Bug: a receiving TFT asks for a transmitting bearer too.
isTransmit_Always(tft) == TRUE

isTransmit(tft) == tft.dir # "RECEIVE"
isReceive(tft)  == tft.dir # "TRANSMIT"

Empty == [id \in {} |-> {}]

InitBearers ==
    /\ plan \in [Ues -> Plans]
    /\ pending = [u \in Ues |-> {}]
    /\ activated = [u \in Ues |-> {}]
    /\ slDrbMap = [u \in Ues |-> Empty]
    /\ slRxDrbMap = [u \in Ues |-> Empty]
    /\ logicalChannels = [u \in Ues |-> {}]
    /\ rxDestinations = [u \in Ues |-> {}]
    /\ onAir = [u \in Ues |-> {}]
    /\ aborted = FALSE

-----------------------------------------------------------------------------
(* NrSlUeRrc: one bearer per layer 2 id.                                   *)

\* std::map::insert, which leaves an entry that is there as it is.
Inserted(map, id, bearer) ==
    [i \in DOMAIN map \cup {id} |-> IF i \in DOMAIN map THEN map[i] ELSE {bearer}]

\* The smallest unused logical channel id of a destination, of 4 .. 19.
GetNextLcid(map, dst) ==
    IF dst \notin DOMAIN map THEN 4
    ELSE CHOOSE l \in 4 .. 19 : /\ \A b \in map[dst] : b.lcid # l
                                /\ \A k \in 4 .. l - 1 : \E b \in map[dst] : b.lcid = k

\* Bug: the reception bearer is filed under the destination.
AddNrSlRxDataRadioBearer_Dst(map, bearer) == Inserted(map, bearer.dst, bearer)

\* The reception bearer is looked up in m_slRxDrbMap but put into m_slDrbMap.
AddNrSlRxDataRadioBearer(map, bearer) == Inserted(map, bearer.src, bearer)

\* Bug: the first entry of the map serves every destination.
GetSidelinkDataRadioBearer_Any(u, dst) == UNION {slDrbMap[u][id] : id \in DOMAIN slDrbMap[u]}

GetSidelinkDataRadioBearer(u, dst) == slDrbMap[u][dst]

\* LteUeRrc::AddNrSlDrb: a bearer from the UE itself is for transmission, any
\* other for reception.  A second one to a destination, or from a source, is
\* NS_FATAL_ERROR.
CanAddNrSlDrb(u, bearer) ==
    IF bearer.src = u THEN bearer.dst \notin DOMAIN slDrbMap[u]
                      ELSE bearer.src \notin DOMAIN slRxDrbMap[u]

AddNrSlDrb(u, bearer) ==
    /\ slDrbMap' = [slDrbMap EXCEPT ![u] =
                       IF bearer.src = u THEN Inserted(@, bearer.dst, bearer)
                       ELSE AddNrSlRxDataRadioBearer(@, bearer)]
    /\ logicalChannels' = [logicalChannels EXCEPT ![u] = @ \cup {bearer}]

-----------------------------------------------------------------------------

Abort == /\ aborted' = TRUE
         /\ UNCHANGED <<plan, pending, activated, slDrbMap, slRxDrbMap,
                        logicalChannels, rxDestinations, onAir>>

\* EpcUeNas::ActivateNrSlBearer, with the RRC's ActivateNrSlDrb and the
\* notification back, which moves every pending TFT of the destination.
ActivateNrSlBearer(u) ==
    /\ ~aborted
    /\ plan[u] # <<>>
    /\ LET tft    == Head(plan[u])
           tfts   == pending[u] \cup {tft}
           bearer == Bearer(u, tft.dst, GetNextLcid(slDrbMap[u], tft.dst))
       IN  IF isTransmit(tft) /\ ~CanAddNrSlDrb(u, bearer)
           THEN Abort
           ELSE /\ plan' = [plan EXCEPT ![u] = Tail(@)]
                /\ pending' = [pending EXCEPT ![u] = {t \in tfts : t.dst # tft.dst}]
                /\ activated' = [activated EXCEPT ![u] =
                                     @ \cup {t \in tfts : t.dst = tft.dst}]
                /\ IF isTransmit(tft) THEN AddNrSlDrb(u, bearer)
                   ELSE UNCHANGED <<slDrbMap, logicalChannels>>
                /\ rxDestinations' = IF isReceive(tft)
                                     THEN [rxDestinations EXCEPT ![u] = @ \cup {tft.dst}]
                                     ELSE rxDestinations
                /\ UNCHANGED <<slRxDrbMap, onAir, aborted>>

\* LteSlTft::Matches looks at the remote address alone, not at the direction.
\* A TFT's address stands for its destination, so all that match a packet lead
\* to one bearer, whichever of the list is found first.
Matches(tft, dst) == tft.dst = dst

\* EpcUeNas::Send and LteUeRrc::DoSendSidelinkData.  A packet no activated TFT
\* matches is discarded; one whose destination has no bearer fails an assertion.
Send(u, dst) ==
    /\ ~aborted
    /\ \E tft \in activated[u] : Matches(tft, dst)
    /\ IF dst \notin DOMAIN slDrbMap[u] THEN Abort
       ELSE /\ onAir' = [onAir EXCEPT ![u] = @ \cup GetSidelinkDataRadioBearer(u, dst)]
            /\ UNCHANGED <<plan, pending, activated, slDrbMap, slRxDrbMap,
                           logicalChannels, rxDestinations, aborted>>

\* The MAC receives a logical channel it does not know and calls
\* DoNotifySidelinkReception: LteUeRrc::AddNrSlDrb for a reception bearer.
NotifySidelinkReception(u, bearer) ==
    /\ ~aborted
    /\ \E v \in Ues \ {u} : bearer \in onAir[v]
    /\ bearer.dst \in rxDestinations[u]
    /\ bearer \notin logicalChannels[u]
    /\ IF ~CanAddNrSlDrb(u, bearer) THEN Abort
       ELSE /\ AddNrSlDrb(u, bearer)
            /\ UNCHANGED <<plan, pending, activated, slRxDrbMap, rxDestinations,
                           onAir, aborted>>

NextBearers ==
    \E u \in Ues :
       \/ ActivateNrSlBearer(u)
       \/ \E dst \in Ues \cup Groups : Send(u, dst)
       \/ \E bearer \in UNION {onAir[v] : v \in Ues} : NotifySidelinkReception(u, bearer)

SpecBearers == InitBearers /\ [][NextBearers]_bearerVars

-----------------------------------------------------------------------------
(* Properties.                                                             *)

\* The RLC entity behind each logical channel of the MAC belongs to a bearer
\* the RRC keeps: the MAC holds a plain pointer to it, and the reference of
\* AddNrSlDrb's caller is gone when the call returns.
ChannelsBacked ==
    \A u \in Ues : \A bearer \in logicalChannels[u] :
        \E id \in DOMAIN slDrbMap[u] : bearer \in slDrbMap[u][id]

\* Data is only ever sent on a bearer of the sender's own, to a destination it
\* has a transmitting TFT for, although reception bearers share the map.
SentOnOwnBearer ==
    \A u \in Ues : \A bearer \in onAir[u] :
        /\ bearer.src = u
        /\ \E tft \in activated[u] : isTransmit(tft) /\ tft.dst = bearer.dst

\* In whatever order UEs activate their bearers, send and first hear of each
\* other, no bearer collides with another and no lookup fails.
NoBearerAborts == ~aborted

\* nr-sl-ue-rrc.h:216: m_slDrbMap holds transmission bearers only; reception
\* bearers are in the other map.
TxMapHoldsTxOnly ==
    \A u \in Ues : \A id \in DOMAIN slDrbMap[u] :
        \A bearer \in slDrbMap[u][id] : bearer.src = u
=============================================================================
