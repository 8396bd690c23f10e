------------------------ MODULE LteHandoverSteps_proofs ------------------------
EXTENDS LteHandover, TLAPS

(***************************************************************************)
(* What each action of LteHandover does, and what that leaves true of the  *)
(* UE, the contexts of its cells and the messages between them.  The       *)
(* theorems are in LteHandover_proofs.                                     *)
(***************************************************************************)

-----------------------------------------------------------------------------
(* What the variables hold.                                                *)

RrcStates == {"IDLE_CELL_SEARCH", "CONNECTED_NORMALLY", "CONNECTED_HANDOVER", "ABORTED"}

UeStates == [rrc : RrcStates, connectionPending : BOOLEAN, hasReceivedMib : BOOLEAN,
             hasReceivedSib2 : BOOLEAN, connectionTimeout : BOOLEAN,
             connEstFailCount : Nat, rnti : Nat, rachConfigured : BOOLEAN,
             preambles : Nat, preambleSent : BOOLEAN, nas : {"OFF", "ACTIVE"},
             retry : BOOLEAN, toBeActivated : Nat, forReconnection : Nat, bidCounter : Nat]

ContextStates == {"INITIAL_RANDOM_ACCESS", "CONNECTED_NORMALLY", "CONNECTION_RECONFIGURATION",
                  "HANDOVER_PREPARATION", "HANDOVER_JOINING", "HANDOVER_LEAVING",
                  "HANDOVER_PATH_SWITCH", "ABORTED"}

Contexts == [state : ContextStates, timers : SUBSET Enb!Timers, pending : BOOLEAN,
             source : Nat, target : Nat]

AirTypes == {"COMMAND", "RECONFIGURATION", "RAR", "RECONFIGURATION_COMPLETED"}

AirMessages == {m \in [type : AirTypes, cell : Cells, rnti : Nat, new : Nat] :
                   m.type # "COMMAND" => m.new = 0}

X2Types == {"HANDOVER_REQUEST", "REQUEST_ACK", "PREPARATION_FAILURE", "CONTEXT_RELEASE",
            "HANDOVER_CANCEL", "UE_DATA"}

X2Messages == [type : X2Types, old : Nat, new : Nat]

Removals == [to : Cells, rnti : Nat]

TypeOK == /\ ue \in UeStates
          /\ ueCell \in Cells
          /\ DOMAIN contexts = Cells
          /\ \A k \in Cells : /\ DOMAIN contexts[k] \subseteq 1 .. lastAllocatedRnti[k]
                              /\ \A r \in DOMAIN contexts[k] : contexts[k][r] \in Contexts
          /\ lastAllocatedRnti \in [Cells -> Nat]
          /\ air \subseteq AirMessages
          /\ ideal \subseteq Removals \cup {Release}
          /\ x2 \in [Cells -> Seq(X2Messages)]
          /\ pathSwitches \subseteq Removals
          /\ handovers \in Nat /\ mishaps \in Nat
          /\ quickBackhaul \in BOOLEAN

-----------------------------------------------------------------------------
(***************************************************************************)
(* The contexts as a function of cell and RNTI, the messages as one of     *)
(* cell and place.  What a step does is said with these.                   *)

NoContext == [state |-> "NONE", timers |-> {}, pending |-> FALSE, source |-> 0, target |-> 0]
NoMessage == [type |-> "NONE", old |-> 0, new |-> 0]

Context(cell, rnti) == IF Has(cell, rnti) THEN contexts[cell][rnti] ELSE NoContext

Places == Nat \ {0}

At(cell, i) == IF i \in DOMAIN x2[cell] THEN x2[cell][i] ELSE NoMessage

Commanded(cell, rnti, new) == Command(cell, rnti, new) \in air
Sent(type, cell, rnti)     == Message(type, cell, rnti) \in air

SameContexts == \A k \in Cells : \A r \in Nat : Context(k, r)' = Context(k, r)

\* But for timers and m_pendingRrcConnectionReconfiguration.
Alike == \A k \in Cells : \A r \in Nat : /\ Context(k, r)'.state = Context(k, r).state
                                         /\ Context(k, r)'.source = Context(k, r).source
                                         /\ Context(k, r)'.target = Context(k, r).target

Becomes(cell, rnti, context) ==
    \A k \in Cells : \A r \in Nat :
       Context(k, r)' = IF k = cell /\ r = rnti THEN context ELSE Context(k, r)

SameQueue(cell) == \A i \in Places : At(cell, i)' = At(cell, i)

Taken(cell) == \A i \in Places : At(cell, i)' = At(cell, i + 1)

\* At the first free place.
Put(cell, message) ==
    \E p \in Places : /\ \A i \in Places : i < p <=> At(cell, i) # NoMessage
                      /\ \A i \in Places : At(cell, i)' = IF i = p THEN message ELSE At(cell, i)

\* There are two cells, each the neighbour of the other.
LEMMA Others == \A k \in Cells : /\ Other(k) \in Cells /\ Other(k) # k /\ Other(Other(k)) = k
                                 /\ \A l \in Cells : l = k \/ l = Other(k)
BY DEF Cells, Other

\* A cell has a context under an RNTI, or NoContext.
LEMMA ContextTypes ==
    ASSUME TypeOK, NEW k \in Cells, NEW r \in Nat
    PROVE  /\ Context(k, r) \in Contexts \/ Context(k, r) = NoContext
           /\ Has(k, r) <=> Context(k, r) # NoContext
           /\ Has(k, r) <=> Context(k, r).state # "NONE"
           /\ Has(k, r) => Context(k, r) = contexts[k][r] /\ r \in 1 .. lastAllocatedRnti[k]
           /\ Context(k, r).source \in Nat /\ Context(k, r).target \in Nat
<1>1. CASE Has(k, r)
    <2>1. Context(k, r) = contexts[k][r] /\ contexts[k][r] \in Contexts
          /\ r \in 1 .. lastAllocatedRnti[k]
        BY <1>1 DEF TypeOK, Context, Has
    <2> QED BY <1>1, <2>1 DEF Contexts, ContextStates, NoContext
<1>2. CASE ~Has(k, r)
    BY <1>2 DEF Context, NoContext
<1> QED BY <1>1, <1>2

\* ContextTo stores one context and leaves the others.
LEMMA ContextGoesTo ==
    ASSUME TypeOK, NEW cell \in Cells, NEW rnti, Has(cell, rnti), NEW next,
           ContextTo(cell, rnti, next)
    PROVE  /\ DOMAIN contexts' = Cells
           /\ \A k \in Cells : DOMAIN (contexts'[k]) = DOMAIN contexts[k]
           /\ \A k \in Cells : \A r \in DOMAIN contexts[k] :
                 contexts'[k][r] = IF k = cell /\ r = rnti THEN next ELSE contexts[k][r]
           /\ Becomes(cell, rnti, next)
<1>1. /\ DOMAIN contexts' = Cells
      /\ \A k \in Cells : DOMAIN (contexts'[k]) = DOMAIN contexts[k]
      /\ \A k \in Cells : \A r \in DOMAIN contexts[k] :
            contexts'[k][r] = IF k = cell /\ r = rnti THEN next ELSE contexts[k][r]
    BY DEF TypeOK, ContextTo, Has
<1> QED BY <1>1 DEF Becomes, Context, Has

\* RemoveUe removes one context and leaves the others.
LEMMA ContextGoes ==
    ASSUME TypeOK, NEW cell \in Cells, NEW rnti, RemoveUe(cell, rnti)
    PROVE  /\ DOMAIN contexts' = Cells
           /\ \A k \in Cells : DOMAIN (contexts'[k]) =
                 IF k = cell THEN DOMAIN contexts[k] \ {rnti} ELSE DOMAIN contexts[k]
           /\ \A k \in Cells : \A r \in DOMAIN (contexts'[k]) : contexts'[k][r] = contexts[k][r]
           /\ Becomes(cell, rnti, NoContext)
<1>1. /\ DOMAIN contexts' = Cells
      /\ \A k \in Cells : DOMAIN (contexts'[k]) =
            IF k = cell THEN DOMAIN contexts[k] \ {rnti} ELSE DOMAIN contexts[k]
      /\ \A k \in Cells : \A r \in DOMAIN (contexts'[k]) : contexts'[k][r] = contexts[k][r]
    BY DEF TypeOK, RemoveUe, Fun!Restrict
<1>2. ASSUME NEW k \in Cells, NEW r \in Nat
      PROVE  Context(k, r)' = IF k = cell /\ r = rnti THEN NoContext ELSE Context(k, r)
    BY <1>1 DEF Context, Has
<1> QED BY <1>1, <1>2 DEF Becomes

\* AddUe stores a context under the next RNTI and leaves the others.
LEMMA ContextComes ==
    ASSUME TypeOK, NEW cell \in Cells, NEW context, AddUe(cell, context)
    PROVE  LET new == lastAllocatedRnti[cell] + 1
           IN  /\ DOMAIN contexts' = Cells
               /\ \A k \in Cells : DOMAIN (contexts'[k]) =
                     IF k = cell THEN DOMAIN contexts[k] \cup {new} ELSE DOMAIN contexts[k]
               /\ \A k \in Cells : \A r \in DOMAIN (contexts'[k]) :
                     contexts'[k][r] = IF k = cell /\ r = new THEN context ELSE contexts[k][r]
               /\ Becomes(cell, new, context)
               /\ lastAllocatedRnti' = [lastAllocatedRnti EXCEPT ![cell] = new]
               /\ new \in Nat /\ new # 0 /\ ~Has(cell, new)
<1> DEFINE new == lastAllocatedRnti[cell] + 1
<1>1. /\ DOMAIN contexts' = Cells
      /\ \A k \in Cells : DOMAIN (contexts'[k]) =
            IF k = cell THEN DOMAIN contexts[k] \cup {new} ELSE DOMAIN contexts[k]
      /\ \A k \in Cells : \A r \in DOMAIN (contexts'[k]) :
            contexts'[k][r] = IF k = cell /\ r = new THEN context ELSE contexts[k][r]
    BY DEF TypeOK, AddUe
<1>2. new \in Nat /\ new # 0 /\ ~Has(cell, new)
    BY DEF TypeOK, Has
<1>3. lastAllocatedRnti' = [lastAllocatedRnti EXCEPT ![cell] = new]
    BY DEF AddUe
<1>4. Becomes(cell, new, context)
    <2> HIDE DEF new
    <2> SUFFICES ASSUME NEW k \in Cells, NEW r \in Nat
                 PROVE  Context(k, r)' = IF k = cell /\ r = new THEN context ELSE Context(k, r)
        BY DEF Becomes
    <2>1. r \in DOMAIN (contexts'[k]) <=> r \in DOMAIN contexts[k] \/ (k = cell /\ r = new)
        BY <1>1
    <2>2. r \in DOMAIN (contexts'[k]) =>
             contexts'[k][r] = IF k = cell /\ r = new THEN context ELSE contexts[k][r]
        BY <1>1
    <2> QED BY <2>1, <2>2 DEF Context, Has
<1> QED BY <1>1, <1>2, <1>3, <1>4

\* A sequence without its head, and with another element.
LEMMA TailPlaces ==
    ASSUME NEW M, NEW q \in Seq(M), q # <<>>
    PROVE  /\ Tail(q) \in Seq(M) /\ Head(q) = q[1] /\ 1 \in DOMAIN q
           /\ \A i \in Places : i \in DOMAIN Tail(q) <=> i + 1 \in DOMAIN q
           /\ \A i \in Places : i \in DOMAIN Tail(q) => Tail(q)[i] = q[i + 1]
BY DEF Places

\* A message put into a queue comes last.
LEMMA AppendPlaces ==
    ASSUME NEW M, NEW q \in Seq(M), NEW m \in M
    PROVE  /\ q \o <<m>> \in Seq(M) /\ q \o <<>> = q
           /\ Len(q) + 1 \in Places
           /\ \A i \in Places : i \in DOMAIN (q \o <<m>>) <=> i <= Len(q) + 1
           /\ \A i \in Places : i \in DOMAIN q <=> i < Len(q) + 1
           /\ \A i \in Places : i \in DOMAIN (q \o <<m>>) =>
                 (q \o <<m>>)[i] = IF i = Len(q) + 1 THEN m ELSE q[i]
BY DEF Places

\* A place of a queue holds an X2 message, or NoMessage behind the last.
LEMMA MessageTypes ==
    ASSUME TypeOK, NEW k \in Cells, NEW i \in Places
    PROVE  /\ At(k, i) \in X2Messages \/ At(k, i) = NoMessage
           /\ i \in DOMAIN x2[k] <=> At(k, i) # NoMessage
           /\ At(k, i) # NoMessage <=> At(k, i).type # "NONE"
           /\ At(k, i).old \in Nat /\ At(k, i).new \in Nat
           /\ At(k, i + 1) # NoMessage => At(k, i) # NoMessage
<1>1. x2[k] \in Seq(X2Messages)
    BY DEF TypeOK
<1>2. i \in DOMAIN x2[k] => x2[k][i] \in X2Messages
    BY <1>1
<1>3. i + 1 \in DOMAIN x2[k] => i \in DOMAIN x2[k]
    BY <1>1 DEF Places
<1>4. \A m \in X2Messages : m # NoMessage /\ m.type # "NONE" /\ m.old \in Nat /\ m.new \in Nat
    BY DEF X2Messages, X2Types, NoMessage
<1>5. NoMessage.type = "NONE" /\ NoMessage.old = 0 /\ NoMessage.new = 0
    BY DEF NoMessage
<1>6. i + 1 \in DOMAIN x2[k] => x2[k][i + 1] \in X2Messages
    BY <1>1
<1> QED BY <1>2, <1>3, <1>4, <1>5, <1>6 DEF At

\* X2Send puts one message into the queue to a cell.
LEMMA IsPut ==
    ASSUME TypeOK, NEW cell \in Cells, NEW m \in X2Messages, X2Send(cell, <<m>>)
    PROVE  /\ Put(cell, m) /\ SameQueue(Other(cell))
           /\ x2' \in [Cells -> Seq(X2Messages)]
<1> DEFINE p == Len(x2[cell]) + 1
<1>1. x2 \in [Cells -> Seq(X2Messages)] /\ x2[cell] \in Seq(X2Messages)
    BY DEF TypeOK
<1>2. x2' = [x2 EXCEPT ![cell] = x2[cell] \o <<m>>]
    BY DEF X2Send
<1>3. /\ x2'[cell] = x2[cell] \o <<m>> /\ x2'[Other(cell)] = x2[Other(cell)]
    BY <1>1, <1>2, Others
<1>4. /\ p \in Places
      /\ \A i \in Places : i < p <=> At(cell, i) # NoMessage
    <2>1. p \in Places /\ \A i \in Places : i < p <=> i \in DOMAIN x2[cell]
        BY <1>1 DEF Places
    <2> QED BY <2>1, MessageTypes
<1>5. \A i \in Places : At(cell, i)' = IF i = p THEN m ELSE At(cell, i)
    BY <1>1, <1>3, AppendPlaces DEF At, Places
<1>6. Put(cell, m)
    BY <1>4, <1>5 DEF Put
<1>7. SameQueue(Other(cell))
    BY <1>3 DEF SameQueue, At
<1>8. x2' \in [Cells -> Seq(X2Messages)]
    BY <1>1, <1>2, AppendPlaces
<1> QED BY <1>6, <1>7, <1>8

\* RecvX2 takes the first message, and may answer it.
LEMMA IsTaken ==
    ASSUME TypeOK, NEW cell \in Cells, NEW type, NEW answers, RecvX2(cell, type, answers)
    PROVE  /\ ideal = {} /\ At(cell, 1) = Head(x2[cell]) /\ At(cell, 1).type = type
           /\ At(cell, 1) \in X2Messages
           /\ Taken(cell)
           /\ answers = <<>> =>
                 SameQueue(Other(cell)) /\ x2' \in [Cells -> Seq(X2Messages)]
           /\ \A m \in X2Messages : answers = <<m>> =>
                 Put(Other(cell), m) /\ x2' \in [Cells -> Seq(X2Messages)]
           /\ UNCHANGED <<ueCell, pathSwitches, handovers, quickBackhaul>>
<1> DEFINE d == Other(cell)
           p == Len(x2[d]) + 1
<1>1. /\ x2 \in [Cells -> Seq(X2Messages)] /\ x2[cell] \in Seq(X2Messages)
      /\ x2[d] \in Seq(X2Messages) /\ d \in Cells /\ d # cell
    BY Others DEF TypeOK
<1>2. /\ x2[cell] # <<>> /\ ideal = {} /\ Head(x2[cell]).type = type
      /\ x2' = [x2 EXCEPT ![cell] = Tail(x2[cell]), ![d] = x2[d] \o answers]
      /\ UNCHANGED <<ueCell, pathSwitches, handovers, quickBackhaul>>
    BY <1>1 DEF RecvX2
<1>3. x2'[cell] = Tail(x2[cell]) /\ x2'[d] = x2[d] \o answers
    BY <1>1, <1>2
<1>4. Taken(cell)
    <2>1. \A i \in Places : i + 1 \in Places
        BY DEF Places
    <2> QED BY <1>1, <1>2, <1>3, <2>1, TailPlaces DEF Taken, At
<1>5. At(cell, 1) = Head(x2[cell]) /\ At(cell, 1) \in X2Messages
    BY <1>1, <1>2, TailPlaces DEF At
<1>6. ASSUME answers = <<>>
      PROVE  SameQueue(d) /\ x2' \in [Cells -> Seq(X2Messages)]
    <2>1. x2[d] \o <<>> = x2[d] /\ Tail(x2[cell]) \in Seq(X2Messages)
        BY <1>1, <1>2, TailPlaces
    <2> QED BY <1>1, <1>2, <1>3, <1>6, <2>1 DEF SameQueue, At
<1>7. ASSUME NEW m \in X2Messages, answers = <<m>>
      PROVE  Put(d, m) /\ x2' \in [Cells -> Seq(X2Messages)]
    <2>1. /\ p \in Places
          /\ \A i \in Places : i < p <=> At(d, i) # NoMessage
        <3>1. p \in Places /\ \A i \in Places : i < p <=> i \in DOMAIN x2[d]
            BY <1>1 DEF Places
        <3> QED BY <1>1, <3>1, MessageTypes
    <2>2. \A i \in Places : At(d, i)' = IF i = p THEN m ELSE At(d, i)
        BY <1>1, <1>3, <1>7, AppendPlaces DEF At, Places
    <2>3. Put(d, m)
        BY <2>1, <2>2 DEF Put
    <2>4. x2[d] \o <<m>> \in Seq(X2Messages) /\ Tail(x2[cell]) \in Seq(X2Messages)
        BY <1>1, <1>2, TailPlaces, AppendPlaces
    <2> QED BY <1>1, <1>2, <1>7, <2>3, <2>4
<1> QED BY <1>2, <1>4, <1>5, <1>6, <1>7

-----------------------------------------------------------------------------
(* The handlers of the UE.                                                 *)

LEMMA UeLeaves ==
    ASSUME NEW u \in UeStates
    PROVE  LET v == Ue!LeaveCell(u)
           IN  /\ v \in UeStates /\ v.rrc = "IDLE_CELL_SEARCH" /\ v.rnti = 0
<1> DEFINE left == [u EXCEPT !.rrc = "IDLE_CELL_SEARCH", !.rnti = 0, !.rachConfigured = FALSE,
                             !.hasReceivedMib = FALSE, !.hasReceivedSib2 = FALSE,
                             !.nas = "OFF", !.bidCounter = 0,
                             !.toBeActivated = u.forReconnection]
<1>1. Ue!LeaveCell(u) = left
    BY DEF UeStates, Ue!LeaveCell, Ue!NotifyConnectionReleased, Ue!Disconnect, Ue!DoDisconnect,
           Ue!Selecting, Ue!LeaveConnectedMode, Ue!MacReset
<1>2. left \in UeStates /\ left.rnti = 0 /\ left.rrc = "IDLE_CELL_SEARCH"
    BY DEF UeStates, RrcStates
<1> QED BY <1>1, <1>2

LEMMA UeIsReleased ==
    ASSUME NEW u \in UeStates
    PROVE  LET v == Ue!RecvRrcConnectionRelease(u)
           IN  /\ v \in UeStates
               /\ IF u.rrc \in {"CONNECTED_NORMALLY", "CONNECTED_HANDOVER"}
                  THEN v # u /\ v.rrc = "IDLE_CELL_SEARCH" /\ v.rnti = 0 ELSE v = u
<1>1. CASE u.rrc \in {"CONNECTED_NORMALLY", "CONNECTED_HANDOVER"}
    <2>1. Ue!RecvRrcConnectionRelease(u) = Ue!LeaveCell(u)
        BY <1>1 DEF Ue!RecvRrcConnectionRelease
    <2>2. "IDLE_CELL_SEARCH" # u.rrc
        BY <1>1
    <2> QED BY <1>1, <2>1, <2>2, UeLeaves
<1>2. CASE u.rrc \notin {"CONNECTED_NORMALLY", "CONNECTED_HANDOVER"}
    BY <1>2 DEF Ue!RecvRrcConnectionRelease
<1> QED BY <1>1, <1>2

LEMMA UeAborts ==
    ASSUME NEW u \in UeStates
    PROVE  Ue!Abort(u) \in UeStates /\ Ue!Abort(u).rrc = "ABORTED" /\ Ue!Abort(u).rnti = u.rnti
BY DEF UeStates, RrcStates, Ue!Abort

LEMMA UeHandsOver ==
    ASSUME NEW u \in UeStates, NEW rnti \in Nat
    PROVE  LET v == Ue!RecvHandoverCommand(u, rnti)
           IN  /\ v \in UeStates
               /\ IF u.rrc = "CONNECTED_NORMALLY"
                  THEN v.rrc = "CONNECTED_HANDOVER" /\ v.rnti = rnti /\ v.preambleSent
                  ELSE v.rrc = "ABORTED" /\ v.rnti = u.rnti
<1> DEFINE to == [u EXCEPT !.rnti = rnti, !.rachConfigured = FALSE, !.preambles = 0,
                           !.rrc = "CONNECTED_HANDOVER", !.preambleSent = TRUE]
<1>1. CASE u.rrc = "CONNECTED_NORMALLY"
    <2>1. Ue!RecvHandoverCommand(u, rnti) = to
        BY <1>1 DEF UeStates, Ue!RecvHandoverCommand, Ue!Connected, Ue!SendRaPreamble, Ue!MacReset
    <2>2. to \in UeStates /\ to.rrc = "CONNECTED_HANDOVER" /\ to.rnti = rnti /\ to.preambleSent
        BY DEF UeStates, RrcStates
    <2> QED BY <1>1, <2>1, <2>2
<1>2. CASE u.rrc # "CONNECTED_NORMALLY"
    BY <1>2, UeAborts DEF Ue!RecvHandoverCommand, Ue!Connected
<1> QED BY <1>1, <1>2

LEMMA UeReconfigures ==
    ASSUME NEW u \in UeStates
    PROVE  LET v == Ue!RecvRrcConnectionReconfiguration(u)
           IN  /\ v \in UeStates
               /\ IF u.rrc = "CONNECTED_NORMALLY" THEN v = u
                  ELSE v.rrc = "ABORTED" /\ v.rnti = u.rnti
BY UeAborts DEF Ue!RecvRrcConnectionReconfiguration, Ue!Connected

LEMMA UeAccesses ==
    ASSUME NEW u \in UeStates, u.rrc = "CONNECTED_HANDOVER", NEW rnti \in Nat
    PROVE  LET v == Ue!RecvRaResponse(u, rnti)
           IN  /\ v \in UeStates /\ v.rrc = "CONNECTED_NORMALLY" /\ v.rnti = rnti
               /\ v.preambleSent = u.preambleSent
<1> DEFINE to == [u EXCEPT !.rnti = rnti, !.rrc = "CONNECTED_NORMALLY"]
<1>1. Ue!RecvRaResponse(u, rnti) = to
    BY DEF Ue!RecvRaResponse
<1>2. /\ to \in UeStates /\ to.rrc = "CONNECTED_NORMALLY" /\ to.rnti = rnti
      /\ to.preambleSent = u.preambleSent
    BY DEF UeStates, RrcStates
<1> QED BY <1>1, <1>2

LEMMA UeRepeats ==
    ASSUME NEW u \in UeStates, u.rrc = "CONNECTED_HANDOVER"
    PROVE  LET v == Ue!RaResponseTimeout(u)
           IN  /\ v \in UeStates
               /\ \/ v.rrc = "CONNECTED_HANDOVER" /\ v.rnti = u.rnti /\ v.preambleSent
                  \/ v.rrc = "IDLE_CELL_SEARCH" /\ v.rnti = 0
<1> DEFINE counted == [u EXCEPT !.preambles = @ + 1]
           again   == [counted EXCEPT !.preambleSent = TRUE]
<1>1. /\ counted \in UeStates /\ counted.rrc = "CONNECTED_HANDOVER" /\ counted.rnti = u.rnti
    BY DEF UeStates
<1>2. CASE counted.preambles = PreambleTransMax + 1
    <2>1. Ue!RaResponseTimeout(u) = Ue!LeaveCell(counted)
        BY <1>1, <1>2 DEF Ue!RaResponseTimeout, Ue!NotifyRandomAccessFailed
    <2> QED BY <1>1, <2>1, UeLeaves
<1>3. CASE counted.preambles # PreambleTransMax + 1
    <2>1. Ue!RaResponseTimeout(u) = again
        BY <1>3 DEF Ue!RaResponseTimeout, Ue!SendRaPreamble
    <2> HIDE DEF counted
    <2>2. again \in UeStates /\ again.rrc = "CONNECTED_HANDOVER" /\ again.rnti = u.rnti
          /\ again.preambleSent
        BY <1>1 DEF UeStates
    <2> QED BY <2>1, <2>2
<1> QED BY <1>2, <1>3

-----------------------------------------------------------------------------
(* The handlers of a context.                                              *)

TimersOf(state) == CASE state = "INITIAL_RANDOM_ACCESS" -> {"connectionRequestTimeout"}
                     [] state = "HANDOVER_JOINING"      -> {"handoverJoiningTimeout"}
                     [] state = "HANDOVER_LEAVING"      -> {"handoverLeavingTimeout"}
                     [] OTHER                           -> {}

\* It runs the timer of its state, or in HANDOVER_JOINING may have stopped it,
\* and knows where a UE that joins comes from.
ContextOk(c) == /\ IF c.state = "HANDOVER_JOINING" THEN c.timers \subseteq TimersOf(c.state)
                   ELSE c.timers = TimersOf(c.state)
                /\ c.state \in {"HANDOVER_JOINING", "HANDOVER_PATH_SWITCH"} => c.source # 0
                /\ c.state = "INITIAL_RANDOM_ACCESS" => c.source = 0

\* What a handler does, but for timers and m_pendingRrcConnectionReconfiguration.
Goes(c, d, states, target) == /\ d \in Contexts /\ d.state \in states
                              /\ d.source = c.source /\ d.target = target
                              /\ ContextOk(c) /\ d.state # "ABORTED" => ContextOk(d)

LEMMA NewContexts ==
    /\ Enb!InitContext \in Contexts /\ ContextOk(Enb!InitContext)
    /\ Enb!InitContext.state = "INITIAL_RANDOM_ACCESS"
    /\ Enb!InitContext.source = 0 /\ Enb!InitContext.target = 0
    /\ \A s \in Nat : LET c == Enb!JoiningContext(s)
                      IN  /\ c \in Contexts /\ c.state = "HANDOVER_JOINING"
                          /\ c.source = s /\ c.target = 0
                          /\ s # 0 => ContextOk(c)
BY DEF Enb!InitContext, Enb!JoiningContext, Enb!NewContext, Contexts, ContextStates, Enb!Timers,
       Enb!ExpectedState, ContextOk, TimersOf

LEMMA ContextNormal ==
    ASSUME NEW c \in Contexts,
           c.state \in {"CONNECTION_RECONFIGURATION", "HANDOVER_PREPARATION",
                        "HANDOVER_PATH_SWITCH"}
    PROVE  Goes(c, Enb!SwitchToConnectedNormally(c),
                {"CONNECTED_NORMALLY", "CONNECTION_RECONFIGURATION"}, c.target)
BY DEF Goes, Contexts, ContextStates, ContextOk, TimersOf, Enb!SwitchToConnectedNormally,
       Enb!ScheduleRrcConnectionReconfiguration

LEMMA ContextScheduled ==
    ASSUME NEW c \in Contexts,
           c.state \notin {"ABORTED", "INITIAL_RANDOM_ACCESS"}
    PROVE  LET d == Enb!ScheduleRrcConnectionReconfiguration(c)
           IN  IF c.state = "CONNECTED_NORMALLY"
               THEN Goes(c, d, {"CONNECTION_RECONFIGURATION"}, c.target)
               ELSE IF c.state = "HANDOVER_PATH_SWITCH"
                    THEN Goes(c, d, {"ABORTED"}, c.target)
                    ELSE Goes(c, d, {c.state}, c.target)
BY DEF Goes, Contexts, ContextStates, ContextOk, TimersOf, Enb!AbortContext,
       Enb!ScheduleRrcConnectionReconfiguration

LEMMA ContextPrepares ==
    ASSUME NEW c \in Contexts, c.state = "CONNECTED_NORMALLY"
    PROVE  Goes(c, Enb!PrepareHandover(c), {"HANDOVER_PREPARATION"}, c.target)
BY DEF Goes, Contexts, ContextStates, ContextOk, TimersOf, Enb!PrepareHandover

LEMMA ContextAborts ==
    ASSUME NEW c \in Contexts
    PROVE  Goes(c, Enb!AbortContext(c), {"ABORTED"}, c.target)
BY DEF Goes, Contexts, ContextStates, Enb!AbortContext

LEMMA ContextLeaves ==
    ASSUME NEW c \in Contexts, NEW new \in Nat
    PROVE  LET d == Enb!RecvHandoverRequestAck(c, new)
           IN  /\ d \in Contexts /\ d.state = "HANDOVER_LEAVING"
               /\ d.source = c.source /\ d.target = new
               /\ ContextOk(c) /\ c.state = "HANDOVER_PREPARATION" => ContextOk(d)
BY DEF Contexts, ContextStates, ContextOk, TimersOf, Enb!RecvHandoverRequestAck, Enb!Timers,
       Enb!ExpectedState

LEMMA ContextConfirmed ==
    ASSUME NEW c \in Contexts
    PROVE  LET d == Enb!RecvRrcConnectionReconfigurationCompleted(c)
           IN  CASE c.state = "CONNECTION_RECONFIGURATION" ->
                      Goes(c, d, {"CONNECTED_NORMALLY", "CONNECTION_RECONFIGURATION"}, c.target)
                 [] c.state \in {"CONNECTED_NORMALLY", "HANDOVER_LEAVING"} -> d = c
                 [] c.state = "HANDOVER_JOINING" ->
                      Goes(c, d, {"HANDOVER_PATH_SWITCH"}, c.target)
                 [] OTHER -> Goes(c, d, {"ABORTED"}, c.target)
<1>1. CASE c.state = "CONNECTION_RECONFIGURATION"
    BY <1>1, ContextNormal DEF Enb!RecvRrcConnectionReconfigurationCompleted
<1>2. CASE c.state = "HANDOVER_JOINING"
    BY <1>2 DEF Goes, Contexts, ContextStates, ContextOk, TimersOf,
                Enb!RecvRrcConnectionReconfigurationCompleted
<1>3. CASE c.state \notin {"CONNECTION_RECONFIGURATION", "HANDOVER_JOINING"}
    BY <1>3, ContextAborts DEF Enb!RecvRrcConnectionReconfigurationCompleted
<1> QED BY <1>1, <1>2, <1>3

LEMMA ContextSwitched ==
    ASSUME NEW c \in Contexts
    PROVE  Goes(c, Enb!SendUeContextRelease(c),
                IF c.state = "HANDOVER_PATH_SWITCH"
                THEN {"CONNECTED_NORMALLY", "CONNECTION_RECONFIGURATION"} ELSE {"ABORTED"},
                c.target)
BY ContextNormal, ContextAborts DEF Enb!SendUeContextRelease

LEMMA ContextRefused ==
    ASSUME NEW c \in Contexts
    PROVE  LET d == Enb!RecvHandoverPreparationFailure(c)
           IN  CASE c.state = "HANDOVER_PREPARATION" ->
                      Goes(c, d, {"CONNECTED_NORMALLY", "CONNECTION_RECONFIGURATION"}, c.target)
                 [] c.state = "HANDOVER_LEAVING" -> d.state = "HANDOVER_LEAVING"
                 [] OTHER -> Goes(c, d, {"ABORTED"}, c.target)
<1>1. CASE c.state = "HANDOVER_PREPARATION"
    BY <1>1, ContextNormal DEF Enb!RecvHandoverPreparationFailure
<1>2. CASE c.state = "HANDOVER_LEAVING"
    BY <1>2 DEF Contexts, Enb!RecvHandoverPreparationFailure
<1>3. CASE c.state \notin {"HANDOVER_PREPARATION", "HANDOVER_LEAVING"}
    BY <1>3, ContextAborts DEF Enb!RecvHandoverPreparationFailure
<1> QED BY <1>1, <1>2, <1>3

LEMMA ContextReleased ==
    ASSUME NEW c \in Contexts
    PROVE  LET d == Enb!RecvUeContextRelease(c)
           IN  IF c.state = "HANDOVER_LEAVING" THEN d.state = "HANDOVER_LEAVING"
               ELSE Goes(c, d, {"ABORTED"}, c.target)
BY ContextAborts DEF Enb!RecvUeContextRelease, Contexts

LEMMA ContextCancelled ==
    ASSUME NEW c \in Contexts
    PROVE  Goes(c, Enb!RecvHandoverCancel(c),
                IF c.state = "HANDOVER_JOINING" THEN {"HANDOVER_JOINING"} ELSE {"ABORTED"},
                c.target)
<1>1. CASE c.state = "HANDOVER_JOINING"
    BY <1>1 DEF Goes, Contexts, ContextStates, ContextOk, TimersOf, Enb!RecvHandoverCancel
<1>2. CASE c.state # "HANDOVER_JOINING"
    BY <1>2, ContextAborts DEF Enb!RecvHandoverCancel
<1> QED BY <1>1, <1>2

-----------------------------------------------------------------------------
(***************************************************************************)
(* The invariant.  A UE that leaves connected mode never comes back, so    *)
(* most is said of a UE that is connected with nothing scheduled for now:  *)
(* each message under way, and each context of a handover, says where the  *)
(* UE is and how far the other cell has come.                              *)
(***************************************************************************)

Alive == ue.rrc \in {"CONNECTED_NORMALLY", "CONNECTED_HANDOVER"}
Live  == Alive /\ ideal = {}

UeAt(cell, rnti) == ue.rrc = "CONNECTED_NORMALLY" /\ ueCell = cell /\ ue.rnti = rnti

Mine == Context(ueCell, ue.rnti)
Lost == Mine.state \in {"NONE", "INITIAL_RANDOM_ACCESS"}

\* RNTIs were given out, and so differ from the next one.
MessageOk(cell, m) ==
    IF m.type = "HANDOVER_REQUEST"
    THEN m.old # 0 /\ m.old <= lastAllocatedRnti[Other(cell)] /\ m.new = 0
    ELSE /\ m.old <= lastAllocatedRnti[cell]
         /\ m.new <= lastAllocatedRnti[IF m.type = "HANDOVER_CANCEL" THEN cell ELSE Other(cell)]

ContextRefsOk == \A k \in Cells : \A r \in Nat :
                    /\ Context(k, r).source <= lastAllocatedRnti[Other(k)]
                    /\ Context(k, r).target <= lastAllocatedRnti[Other(k)]

MessageRefsOk == \A k \in Cells : \A i \in Places : MessageOk(k, At(k, i))

AirRefsOk == \A k \in Cells :
    /\ \A o, n \in Nat : Commanded(k, o, n) =>
          o \in 1 .. lastAllocatedRnti[k] /\ n <= lastAllocatedRnti[Other(k)]
    /\ \A r \in Nat : \A type \in AirTypes \ {"COMMAND"} :
          Sent(type, k, r) => r \in 1 .. lastAllocatedRnti[k]

UeRefsOk == /\ ue.rnti <= lastAllocatedRnti[ueCell]
            /\ ue.rrc = "IDLE_CELL_SEARCH" => ue.rnti = 0

RefsOk == ContextRefsOk /\ MessageRefsOk /\ AirRefsOk /\ UeRefsOk

ContextsOk == \A k \in Cells : \A r \in Nat : ContextOk(Context(k, r))

OneTeid == \A k \in Cells : \A q, r \in Nat :
              Context(k, q).source # 0 /\ Context(k, r).source # 0 => q = r

\* The target has prepared for the UE, or its failure is on the way.
Prepared(cell, old, new) ==
    /\ \A r \in Nat : Context(Other(cell), r).source # 0 => r = new
    /\ \/ /\ Context(Other(cell), new).state = "HANDOVER_JOINING"
          /\ Context(Other(cell), new).source = old
       \/ /\ Context(Other(cell), new).state = "NONE"
          /\ \E j \in Places : At(cell, j).type = "PREPARATION_FAILURE" /\ At(cell, j).old = old

RequestOk == Live => \A k \in Cells : \A i \in Places : At(k, i).type = "HANDOVER_REQUEST" =>
    /\ UeAt(Other(k), At(k, i).old)
    /\ Mine.state = "HANDOVER_PREPARATION"
    /\ \A j \in Places : At(k, j).type = "HANDOVER_REQUEST" => j = i
    /\ \A j \in Places : At(Other(k), j).type \notin {"REQUEST_ACK", "PREPARATION_FAILURE"}

AckOk == Live => \A k \in Cells : \A i \in Places : At(k, i).type = "REQUEST_ACK" =>
    /\ UeAt(k, At(k, i).old)
    /\ Mine.state = "HANDOVER_PREPARATION"
    /\ Prepared(k, At(k, i).old, At(k, i).new)
    /\ \A j \in Places : At(k, j).type = "REQUEST_ACK" => j = i
    /\ \A j \in Places : At(k, j).type = "PREPARATION_FAILURE" => i < j

FailureOk == Live => \A k \in Cells : \A i \in Places : At(k, i).type = "PREPARATION_FAILURE" =>
    /\ \A j \in Places : At(k, j).type = "PREPARATION_FAILURE" => j = i
    /\ \/ /\ UeAt(k, At(k, i).old)
          /\ Mine.state \in {"HANDOVER_PREPARATION", "HANDOVER_LEAVING"}
       \/ /\ ueCell = Other(k) /\ Lost
          /\ Context(k, At(k, i).old).state = "HANDOVER_LEAVING"

ContextReleaseOk == Live => \A k \in Cells : \A i \in Places :
    At(k, i).type = "CONTEXT_RELEASE" /\ Context(k, At(k, i).old).state # "NONE" =>
       /\ Context(k, At(k, i).old).state = "HANDOVER_LEAVING"
       /\ ue.rrc = "CONNECTED_NORMALLY" /\ ueCell = Other(k)
       /\ Mine.state \in {"CONNECTED_NORMALLY", "CONNECTION_RECONFIGURATION",
                          "HANDOVER_PREPARATION"}
       /\ \A j \in Places : At(Other(k), j).type # "REQUEST_ACK"
       /\ \A j \in Places : At(k, j).type = "HANDOVER_REQUEST" => i < j

NoCancel == Live => \A k \in Cells : \A i \in Places : At(k, i).type # "HANDOVER_CANCEL"

CommandOk == Live => \A k \in Cells : \A o, n \in Nat : Commanded(k, o, n) =>
    /\ UeAt(k, o) /\ Mine.state = "HANDOVER_LEAVING" /\ Mine.target = n
    /\ Prepared(k, o, n)

JoiningOk == Live => \A k \in Cells : \A n \in Nat : Context(k, n).state = "HANDOVER_JOINING" =>
    LET s == Context(k, n).source
    IN  /\ \A j \in Places : At(Other(k), j).type # "PREPARATION_FAILURE"
        /\ \/ /\ ueCell = k /\ ue.rnti = n
              /\ Context(Other(k), s).state = "HANDOVER_LEAVING"
           \/ /\ UeAt(Other(k), s) /\ Mine.state = "HANDOVER_PREPARATION"
              /\ \E i \in Places : /\ At(Other(k), i).type = "REQUEST_ACK"
                                   /\ At(Other(k), i).old = s /\ At(Other(k), i).new = n
           \/ /\ UeAt(Other(k), s) /\ Mine.state = "HANDOVER_LEAVING"
              /\ Commanded(Other(k), s, n)

SwitchOk == Live => \A k \in Cells : \A n \in Nat : Context(k, n).state = "HANDOVER_PATH_SWITCH" =>
    Context(Other(k), Context(k, n).source).state = "HANDOVER_LEAVING"

TeidOk == Live => \A r \in Nat : Context(ueCell, r).source # 0 => r = ue.rnti

QueuesOk == /\ RequestOk /\ AckOk /\ FailureOk /\ ContextReleaseOk /\ NoCancel /\ CommandOk
            /\ JoiningOk /\ SwitchOk /\ TeidOk

LostOk == Alive /\ Lost =>
    \/ Release \in ideal
    \/ \E j \in Places : LET m == At(Other(ueCell), j)
                         IN  /\ m.type = "PREPARATION_FAILURE"
                             /\ Context(Other(ueCell), m.old).state = "HANDOVER_LEAVING"

ResponseOk == Alive => \A k \in Cells : \A r \in Nat : Sent("RAR", k, r) =>
    /\ ue.rrc = "CONNECTED_HANDOVER" /\ ~ue.preambleSent /\ k = ueCell
    /\ \A q \in Nat : Sent("RAR", k, q) => q = r
    /\ \/ r = ue.rnti
       \/ Mine.state = "NONE" /\ Context(k, r).state \in {"NONE", "INITIAL_RANDOM_ACCESS"}

PreambleOk == Alive /\ ue.preambleSent => ue.rrc = "CONNECTED_HANDOVER"

ReconfigurationOk == Alive => \A k \in Cells : \A r \in Nat : Sent("RECONFIGURATION", k, r) =>
    /\ UeAt(k, r) /\ Mine.state = "CONNECTION_RECONFIGURATION"
    /\ ~Sent("RECONFIGURATION_COMPLETED", k, r)

CompletedOk == \A k \in Cells : \A r \in Nat : Sent("RECONFIGURATION_COMPLETED", k, r) =>
    IF Alive
    THEN /\ UeAt(k, r)
         /\ Mine.state \in {"NONE", "INITIAL_RANDOM_ACCESS", "CONNECTION_RECONFIGURATION",
                            "HANDOVER_JOINING"}
    ELSE Context(k, r).state # "NONE" => Removal(k, r) \in ideal

KnownOk ==
    /\ ue.rrc = "CONNECTED_NORMALLY" =>
          \/ Mine.state \in {"NONE", "INITIAL_RANDOM_ACCESS", "CONNECTED_NORMALLY",
                             "HANDOVER_PREPARATION", "HANDOVER_PATH_SWITCH"}
          \/ /\ Mine.state = "CONNECTION_RECONFIGURATION"
             /\ \/ Sent("RECONFIGURATION", ueCell, ue.rnti)
                \/ Sent("RECONFIGURATION_COMPLETED", ueCell, ue.rnti)
          \/ Mine.state = "HANDOVER_LEAVING" /\ \E n \in Nat : Commanded(ueCell, ue.rnti, n)
          \/ /\ Mine.state = "HANDOVER_JOINING"
             /\ Sent("RECONFIGURATION_COMPLETED", ueCell, ue.rnti)
    /\ ue.rrc = "CONNECTED_HANDOVER" =>
          Mine.state \in {"NONE", "HANDOVER_JOINING"}

Serving == {"CONNECTED_NORMALLY", "CONNECTION_RECONFIGURATION", "HANDOVER_PREPARATION",
            "HANDOVER_PATH_SWITCH"}

OwnedOk == \A k \in Cells : \A r \in Nat :
              Context(k, r).state \in Serving => UeAt(k, r) \/ Removal(k, r) \in ideal

IdealOk == \/ ideal = {}
           \/ ideal = {Release}
           \/ ~Alive /\ \E k \in Cells : \E r \in Nat : ideal = {Removal(k, r)}

RadioOk == /\ LostOk /\ ResponseOk /\ PreambleOk /\ ReconfigurationOk /\ CompletedOk
           /\ KnownOk /\ OwnedOk /\ IdealOk

\* A handover of the UE was asked for, and was granted or may be.
Asks(cell, rnti) == \E i \in Places :
    \/ At(cell, i).type = "REQUEST_ACK" /\ At(cell, i).old = rnti
    \/ At(Other(cell), i).type = "HANDOVER_REQUEST" /\ At(Other(cell), i).old = rnti

AskedOk == ~Live => \A k \in Cells : \A r \in Nat : Asks(k, r) /\ Context(k, r).state # "NONE" =>
              (Alive /\ k = ueCell /\ r = ue.rnti) \/ Removal(k, r) \in ideal

InStep == ContextsOk /\ OneTeid /\ QueuesOk /\ RadioOk /\ AskedOk

HandoverInv == TypeOK /\ RefsOk /\ (~Aborted => InStep)

-----------------------------------------------------------------------------

\* Messages on air are told apart by type, cell and RNTIs.
LEMMA AirFacts ==
    /\ \A k, l \in Cells : \A o, n, p, q \in Nat :
          Command(k, o, n) = Command(l, p, q) <=> k = l /\ o = p /\ n = q
    /\ \A s, t \in AirTypes : \A k, l \in Cells : \A o, p \in Nat :
          Message(s, k, o) = Message(t, l, p) <=> s = t /\ k = l /\ o = p
    /\ \A t \in AirTypes \ {"COMMAND"} : \A k, l \in Cells : \A o, n, p \in Nat :
          Command(k, o, n) # Message(t, l, p)
    /\ \A k \in Cells : \A o, n \in Nat : Command(k, o, n) \in AirMessages
    /\ \A t \in AirTypes \ {"COMMAND"} : \A k \in Cells : \A o \in Nat :
          Message(t, k, o) \in AirMessages
    /\ \A m \in AirMessages : m.cell \in Cells /\ m.rnti \in Nat /\ m.new \in Nat /\
          IF m.type = "COMMAND" THEN m = Command(m.cell, m.rnti, m.new)
          ELSE m = Message(m.type, m.cell, m.rnti) /\ m.type \in AirTypes \ {"COMMAND"}
<1>1. \A k, l \in Cells : \A o, n, p, q \in Nat :
          Command(k, o, n) = Command(l, p, q) <=> k = l /\ o = p /\ n = q
    BY DEF Command, Message
<1>2. \A s, t \in AirTypes : \A k, l \in Cells : \A o, p \in Nat :
          Message(s, k, o) = Message(t, l, p) <=> s = t /\ k = l /\ o = p
    BY DEF Message
<1>3. \A t \in AirTypes \ {"COMMAND"} : \A k, l \in Cells : \A o, n, p \in Nat :
          Command(k, o, n) # Message(t, l, p)
    BY DEF Command, Message
<1>4. \A k \in Cells : \A o, n \in Nat : Command(k, o, n) \in AirMessages
    BY DEF Command, Message, AirMessages, AirTypes
<1>5. \A t \in AirTypes \ {"COMMAND"} : \A k \in Cells : \A o \in Nat :
          Message(t, k, o) \in AirMessages
    BY DEF Message, AirMessages, AirTypes
<1>6. \A m \in AirMessages : m.cell \in Cells /\ m.rnti \in Nat /\ m.new \in Nat /\
          IF m.type = "COMMAND" THEN m = Command(m.cell, m.rnti, m.new)
          ELSE m = Message(m.type, m.cell, m.rnti) /\ m.type \in AirTypes \ {"COMMAND"}
    BY DEF Command, Message, AirMessages, AirTypes
<1> QED BY <1>1, <1>2, <1>3, <1>4, <1>5, <1>6

\* Only a context in CONNECTION_RECONFIGURATION sends a reconfiguration.
LEMMA Answers ==
    ASSUME NEW cell, NEW rnti, NEW c, c.state \in ContextStates
    PROVE  AnswerOf(cell, rnti, c) = IF c.state = "CONNECTION_RECONFIGURATION"
                                     THEN {Message("RECONFIGURATION", cell, rnti)} ELSE {}
BY DEF AnswerOf, Enb!Answer, ContextStates

\* A connected UE is not connected any more for good, once it is not.
LEMMA NotAborted ==
    ASSUME TypeOK, ~Aborted
    PROVE  ue.rrc # "ABORTED" /\ \A k \in Cells : \A r \in Nat : Context(k, r).state # "ABORTED"
BY ContextTypes DEF Aborted, Has

-----------------------------------------------------------------------------
(***************************************************************************)
(* What the invariant says of a live UE by the state of its context.       *)
(***************************************************************************)

LEMMA Phases ==
    ASSUME TypeOK, InStep, Live
    PROVE  /\ ueCell \in Cells /\ ue.rnti \in Nat
           /\ Mine.state \notin {"NONE", "INITIAL_RANDOM_ACCESS", "HANDOVER_JOINING"} =>
                 ue.rrc = "CONNECTED_NORMALLY"
           /\ \A k \in Cells : \A i \in Places :
                 /\ At(k, i).type = "HANDOVER_REQUEST" =>
                       /\ Mine.state = "HANDOVER_PREPARATION"
                       /\ k = Other(ueCell) /\ At(k, i).old = ue.rnti
                 /\ At(k, i).type = "REQUEST_ACK" =>
                       /\ Mine.state = "HANDOVER_PREPARATION"
                       /\ k = ueCell /\ At(k, i).old = ue.rnti
                 /\ At(k, i).type = "PREPARATION_FAILURE" =>
                       \/ /\ Mine.state \in {"HANDOVER_PREPARATION", "HANDOVER_LEAVING"}
                          /\ k = ueCell /\ At(k, i).old = ue.rnti
                       \/ /\ Lost /\ k = Other(ueCell)
                          /\ Context(k, At(k, i).old).state = "HANDOVER_LEAVING"
                 /\ At(k, i).type = "CONTEXT_RELEASE" /\ Context(k, At(k, i).old).state # "NONE" =>
                       /\ Mine.state \in {"CONNECTED_NORMALLY", "CONNECTION_RECONFIGURATION",
                                          "HANDOVER_PREPARATION"}
                       /\ k = Other(ueCell)
                       /\ Context(k, At(k, i).old).state = "HANDOVER_LEAVING"
                 /\ At(k, i).type # "HANDOVER_CANCEL"
           /\ \A k \in Cells : \A o, n \in Nat : Commanded(k, o, n) =>
                 Mine.state = "HANDOVER_LEAVING" /\ k = ueCell /\ o = ue.rnti /\ n = Mine.target
           /\ \A k \in Cells : \A n \in Nat :
                 /\ Context(k, n).state = "HANDOVER_JOINING" =>
                       \/ k = ueCell /\ n = ue.rnti
                       \/ /\ Mine.state \in {"HANDOVER_PREPARATION", "HANDOVER_LEAVING"}
                          /\ k = Other(ueCell) /\ Context(k, n).source = ue.rnti
                 /\ Context(k, n).state \in Serving => k = ueCell /\ n = ue.rnti
<1>1. ueCell \in Cells /\ ue.rnti \in Nat
    BY DEF TypeOK, UeStates
<1>2. Mine.state \notin {"NONE", "INITIAL_RANDOM_ACCESS", "HANDOVER_JOINING"} =>
          ue.rrc = "CONNECTED_NORMALLY"
    BY DEF InStep, RadioOk, KnownOk, Live, Alive
<1>3. ASSUME NEW k \in Cells, NEW i \in Places
      PROVE  /\ At(k, i).type = "HANDOVER_REQUEST" =>
                   /\ Mine.state = "HANDOVER_PREPARATION"
                   /\ k = Other(ueCell) /\ At(k, i).old = ue.rnti
             /\ At(k, i).type = "REQUEST_ACK" =>
                   /\ Mine.state = "HANDOVER_PREPARATION"
                   /\ k = ueCell /\ At(k, i).old = ue.rnti
             /\ At(k, i).type = "PREPARATION_FAILURE" =>
                   \/ /\ Mine.state \in {"HANDOVER_PREPARATION", "HANDOVER_LEAVING"}
                      /\ k = ueCell /\ At(k, i).old = ue.rnti
                   \/ /\ Lost /\ k = Other(ueCell)
                      /\ Context(k, At(k, i).old).state = "HANDOVER_LEAVING"
             /\ At(k, i).type = "CONTEXT_RELEASE" /\ Context(k, At(k, i).old).state # "NONE" =>
                   /\ Mine.state \in {"CONNECTED_NORMALLY", "CONNECTION_RECONFIGURATION",
                                      "HANDOVER_PREPARATION"}
                   /\ k = Other(ueCell)
                   /\ Context(k, At(k, i).old).state = "HANDOVER_LEAVING"
             /\ At(k, i).type # "HANDOVER_CANCEL"
    BY Others DEF InStep, QueuesOk, RequestOk, AckOk, FailureOk, ContextReleaseOk, NoCancel, UeAt
<1>4. \A k \in Cells : \A o, n \in Nat : Commanded(k, o, n) =>
          Mine.state = "HANDOVER_LEAVING" /\ k = ueCell /\ o = ue.rnti /\ n = Mine.target
    BY DEF InStep, QueuesOk, CommandOk, UeAt
<1>5. \A k \in Cells : \A n \in Nat : Context(k, n).state = "HANDOVER_JOINING" =>
         \/ k = ueCell /\ n = ue.rnti
         \/ /\ Mine.state \in {"HANDOVER_PREPARATION", "HANDOVER_LEAVING"}
            /\ k = Other(ueCell) /\ Context(k, n).source = ue.rnti
    BY Others DEF InStep, QueuesOk, JoiningOk, UeAt
<1>6. \A k \in Cells : \A n \in Nat :
         Context(k, n).state \in Serving => k = ueCell /\ n = ue.rnti
    BY DEF InStep, RadioOk, OwnedOk, UeAt, Live
<1> QED BY <1>1, <1>2, <1>3, <1>4, <1>5, <1>6
\* Contexts change one at a time.
LEMMA ContextsKept ==
    ASSUME NEW c, NEW q, NEW next, Becomes(c, q, next), ContextsOk, ContextOk(next)
    PROVE  ContextsOk'
BY DEF Becomes, ContextsOk

\* A context that gets no source of its own gets no TEIDs.
LEMMA TeidKept ==
    ASSUME NEW c \in Cells, NEW q \in Nat, NEW next, Becomes(c, q, next), OneTeid,
           next.source \in {0, Context(c, q).source}
    PROVE  OneTeid'
BY DEF Becomes, OneTeid

\* The UE is served by its cell, in CONNECTED_NORMALLY or about to be
\* reconfigured, and no handover of it is under way.
LEMMA Settles ==
    ASSUME TypeOK, InStep, Live, Mine.state \in Serving,
           UNCHANGED <<ue, ueCell, ideal>>,
           NEW next, Becomes(ueCell, ue.rnti, next), next.source = Mine.source,
           next.state \in {"CONNECTED_NORMALLY", "CONNECTION_RECONFIGURATION"},
           \A k \in Cells : \A n \in Nat : Context(k, n).state = "HANDOVER_JOINING" =>
              k = ueCell /\ n = ue.rnti,
           \A k \in Cells : \A o, n \in Nat : ~Commanded(k, o, n)',
           \A k \in Cells : \A i \in Places :
              /\ At(k, i)'.type \notin {"HANDOVER_REQUEST", "REQUEST_ACK", "PREPARATION_FAILURE",
                                        "HANDOVER_CANCEL"}
              /\ At(k, i)'.type = "CONTEXT_RELEASE" =>
                    \E o \in Nat : /\ At(k, i)'.old = o
                                   /\ \/ Context(k, o).state = "NONE"
                                      \/ /\ k = Other(ueCell)
                                         /\ Context(k, o).state = "HANDOVER_LEAVING",
           \A k \in Cells : \A r \in Nat :
              /\ Sent("RAR", k, r)' => Sent("RAR", k, r)
              /\ Sent("RECONFIGURATION", k, r)' <=>
                    k = ueCell /\ r = ue.rnti /\ next.state = "CONNECTION_RECONFIGURATION"
              /\ ~Sent("RECONFIGURATION_COMPLETED", k, r)'
    PROVE  QueuesOk' /\ RadioOk'
<1>1. /\ ue' = ue /\ ueCell' = ueCell /\ ideal' = ideal /\ ideal = {}
      /\ ueCell \in Cells /\ ue.rnti \in Nat /\ ue.rrc = "CONNECTED_NORMALLY"
    BY Phases DEF Live, Serving
<1>2. Mine' = next /\ UeAt(ueCell, ue.rnti)'
    BY <1>1 DEF Becomes, Mine, UeAt
<1>3. \A k \in Cells : \A r \in Nat : Context(k, r).state \in Serving => k = ueCell /\ r = ue.rnti
    BY Phases
<1>4. \A k \in Cells : \A n \in Nat : /\ Context(k, n)'.state # "HANDOVER_JOINING"
                                      /\ Context(k, n)'.state # "HANDOVER_PATH_SWITCH"
    BY <1>3 DEF Becomes, Serving
<1>5. ContextReleaseOk'
    <2>1. ASSUME NEW k \in Cells, NEW i \in Places, At(k, i)'.type = "CONTEXT_RELEASE",
                 Context(k, At(k, i).old)'.state # "NONE"
          PROVE  k = Other(ueCell) /\ Context(k, At(k, i).old)'.state = "HANDOVER_LEAVING"
        <3>1. PICK o \in Nat : o = At(k, i)'.old
            BY <2>1
        <3>2. CASE k = ueCell /\ o = ue.rnti
            BY <1>1, <2>1, <3>1, <3>2, Others DEF Mine, Serving
        <3>3. CASE ~(k = ueCell /\ o = ue.rnti)
            BY <2>1, <3>1, <3>3 DEF Becomes
        <3> QED BY <3>2, <3>3
    <2>2. \A k \in Cells : \A j \in Places : At(k, j)'.type \notin {"REQUEST_ACK", "HANDOVER_REQUEST"}
        OBVIOUS
    <2> QED BY <1>1, <1>2, <2>1, <2>2, Others DEF ContextReleaseOk, UeAt
<1>6. TeidOk'
    BY <1>1 DEF InStep, QueuesOk, TeidOk, Becomes, Mine
<1>7. QueuesOk'
    BY <1>4, <1>5, <1>6 DEF QueuesOk, RequestOk, AckOk, FailureOk, NoCancel, CommandOk, JoiningOk,
                            SwitchOk
<1>8. OwnedOk'
    BY <1>1, <1>2, <1>3 DEF OwnedOk, Becomes, UeAt
<1>9. \A k \in Cells : \A r \in Nat : ~Sent("RAR", k, r)
    BY <1>1 DEF InStep, RadioOk, ResponseOk, Live
<1>10. ResponseOk' /\ CompletedOk' /\ ReconfigurationOk' /\ LostOk' /\ KnownOk'
    BY <1>1, <1>2, <1>9 DEF ResponseOk, CompletedOk, ReconfigurationOk, LostOk, Lost, KnownOk, UeAt
<1>11. PreambleOk' /\ IdealOk'
    BY <1>1 DEF InStep, RadioOk, PreambleOk, IdealOk, Alive
<1> QED BY <1>7, <1>8, <1>10, <1>11 DEF RadioOk

\* A message to either cell goes by that nobody waits for, or data is sent.
LEMMA QueuesKept ==
    ASSUME TypeOK, InStep, Live, UNCHANGED <<ue, ueCell, ideal>>, SameContexts,
           \A k \in Cells : \A o, n \in Nat : Commanded(k, o, n)' <=> Commanded(k, o, n),
           NEW d \in [Cells -> {0, 1}],
           \A k \in Cells : d[k] = 1 =>
              \/ At(k, 1).type = "UE_DATA"
              \/ At(k, 1).type = "CONTEXT_RELEASE" /\ Context(k, At(k, 1).old).state = "NONE",
           \A k \in Cells : \A i \in Places :
              IF At(k, i + d[k]) # NoMessage THEN At(k, i)' = At(k, i + d[k])
              ELSE At(k, i)'.type \in {"NONE", "UE_DATA"}
    PROVE  QueuesOk' /\ LostOk'
<1>1. /\ ue' = ue /\ ueCell' = ueCell /\ ideal' = ideal /\ ueCell \in Cells /\ ue.rnti \in Nat
      /\ Mine' = Mine /\ (Lost' <=> Lost) /\ (Live' <=> Live)
      /\ \A k \in Cells : \A r \in Nat : UeAt(k, r)' <=> UeAt(k, r)
    BY Phases DEF SameContexts, Mine, Lost, UeAt, Live, Alive
<1>2. \A k \in Cells : \A i \in Places :
         i + d[k] \in Places /\ At(k, i).old \in Nat /\ At(k, i).new \in Nat
    BY MessageTypes DEF Places
<1> DEFINE Heeded == {"HANDOVER_REQUEST", "REQUEST_ACK", "PREPARATION_FAILURE",
                      "HANDOVER_CANCEL"}
<1>3. \A k \in Cells : \A i \in Places :
         At(k, i)'.type \in Heeded \cup {"CONTEXT_RELEASE"} => At(k, i)' = At(k, i + d[k])
    OBVIOUS
<1>4. ASSUME NEW k \in Cells, NEW j \in Places, At(k, j).type \in Heeded
      PROVE  j - d[k] \in Places /\ At(k, j - d[k])' = At(k, j)
    <2>1. At(k, j) # NoMessage
        BY <1>4 DEF NoMessage
    <2>2. d[k] \in {0, 1} /\ (d[k] = 1 => j # 1)
        BY <1>4
    <2>3. j - d[k] \in Places /\ (j - d[k]) + d[k] = j
        BY <2>2 DEF Places
    <2> QED BY <2>1, <2>3
<1> HIDE DEF Heeded
<1>h. /\ "HANDOVER_REQUEST" \in Heeded /\ "REQUEST_ACK" \in Heeded
      /\ "PREPARATION_FAILURE" \in Heeded /\ "HANDOVER_CANCEL" \in Heeded
    BY DEF Heeded
<1>5. ASSUME NEW k \in Cells, NEW o \in Nat, NEW n \in Nat
      PROVE  Prepared(k, o, n)' <=> Prepared(k, o, n)
    <2>1. (\E j \in Places : At(k, j)'.type = "PREPARATION_FAILURE" /\ At(k, j)'.old = o)
             <=> (\E j \in Places : At(k, j).type = "PREPARATION_FAILURE" /\ At(k, j).old = o)
        BY <1>2, <1>3, <1>4, <1>h
    <2> QED BY <2>1, Others DEF Prepared, SameContexts
<1>p. ASSUME NEW k \in Cells, NEW i \in Places,
             At(k, i)'.type \in Heeded \cup {"CONTEXT_RELEASE"}
      PROVE  /\ i + d[k] \in Places /\ At(k, i)' = At(k, i + d[k])
             /\ \A j \in Places : /\ i + d[k] = j + d[k] => i = j
                                  /\ i + d[k] < j + d[k] => i < j
    BY <1>2, <1>3, <1>p DEF Places
<1>6. RequestOk'
    <2> SUFFICES ASSUME NEW k \in Cells, NEW i \in Places, At(k, i)'.type = "HANDOVER_REQUEST"
                 PROVE  /\ UeAt(Other(k), At(k, i).old)'
                        /\ Mine.state = "HANDOVER_PREPARATION"
                        /\ \A j \in Places : At(k, j)'.type = "HANDOVER_REQUEST" => j = i
                        /\ \A j \in Places : At(Other(k), j)'.type
                              \notin {"REQUEST_ACK", "PREPARATION_FAILURE"}
        BY <1>1 DEF RequestOk
    <2> DEFINE p == i + d[k]
    <2>1. p \in Places /\ At(k, i)' = At(k, p)
        BY <1>p, <1>h
    <2>2. /\ UeAt(Other(k), At(k, p).old) /\ Mine.state = "HANDOVER_PREPARATION"
          /\ \A j \in Places : At(k, j).type = "HANDOVER_REQUEST" => j = p
          /\ \A j \in Places : At(Other(k), j).type \notin {"REQUEST_ACK", "PREPARATION_FAILURE"}
        BY <2>1 DEF InStep, QueuesOk, RequestOk
    <2>3. UeAt(Other(k), At(k, i).old)'
        BY <1>1, <2>1, <2>2 DEF UeAt
    <2>4. \A j \in Places : At(k, j)'.type = "HANDOVER_REQUEST" => j = i
        BY <1>p, <1>h, <2>2
    <2>5. \A j \in Places : At(Other(k), j)'.type \notin {"REQUEST_ACK", "PREPARATION_FAILURE"}
        BY <1>p, <1>h, <2>2, Others
    <2> QED BY <2>2, <2>3, <2>4, <2>5
<1>7. AckOk'
    <2> SUFFICES ASSUME NEW k \in Cells, NEW i \in Places, At(k, i)'.type = "REQUEST_ACK"
                 PROVE  /\ UeAt(k, At(k, i).old)'
                        /\ Mine.state = "HANDOVER_PREPARATION"
                        /\ Prepared(k, At(k, i).old, At(k, i).new)'
                        /\ \A j \in Places : At(k, j)'.type = "REQUEST_ACK" => j = i
                        /\ \A j \in Places : At(k, j)'.type = "PREPARATION_FAILURE" => i < j
        BY <1>1 DEF AckOk
    <2> DEFINE p == i + d[k]
    <2>1. p \in Places /\ At(k, i)' = At(k, p)
        BY <1>p, <1>h
    <2>2. PICK o, n \in Nat : o = At(k, p).old /\ n = At(k, p).new
        BY <1>2, <2>1
    <2>3. /\ UeAt(k, o) /\ Mine.state = "HANDOVER_PREPARATION" /\ Prepared(k, o, n)
          /\ \A j \in Places : At(k, j).type = "REQUEST_ACK" => j = p
          /\ \A j \in Places : At(k, j).type = "PREPARATION_FAILURE" => p < j
        BY <2>1, <2>2 DEF InStep, QueuesOk, AckOk
    <2>4. UeAt(k, At(k, i).old)'
        BY <1>1, <2>1, <2>2, <2>3 DEF UeAt
    <2>5. Prepared(k, At(k, i).old, At(k, i).new)'
        <3>1. Prepared(k, o, n)'
            BY <1>5, <2>3
        <3> QED BY <2>1, <2>2, <3>1 DEF Prepared
    <2>6. \A j \in Places : At(k, j)'.type = "REQUEST_ACK" => j = i
        BY <1>p, <1>h, <2>3
    <2>7. \A j \in Places : At(k, j)'.type = "PREPARATION_FAILURE" => i < j
        BY <1>p, <1>h, <2>1, <2>3
    <2> QED BY <2>3, <2>4, <2>5, <2>6, <2>7
<1>8. FailureOk'
    <2> SUFFICES ASSUME NEW k \in Cells, NEW i \in Places, At(k, i)'.type = "PREPARATION_FAILURE",
                        NEW o \in Nat, o = At(k, i)'.old
                 PROVE  /\ \A j \in Places : At(k, j)'.type = "PREPARATION_FAILURE" => j = i
                        /\ \/ /\ UeAt(k, o)
                              /\ Mine.state \in {"HANDOVER_PREPARATION", "HANDOVER_LEAVING"}
                           \/ /\ ueCell = Other(k) /\ Lost
                              /\ Context(k, o).state = "HANDOVER_LEAVING"
        BY <1>1, <1>2, <1>3, <1>h DEF FailureOk, SameContexts, UeAt
    <2> DEFINE p == i + d[k]
    <2>1. p \in Places /\ At(k, i)' = At(k, p)
        BY <1>p, <1>h
    <2>2. /\ \A j \in Places : At(k, j).type = "PREPARATION_FAILURE" => j = p
          /\ \/ /\ UeAt(k, o)
                /\ Mine.state \in {"HANDOVER_PREPARATION", "HANDOVER_LEAVING"}
             \/ /\ ueCell = Other(k) /\ Lost
                /\ Context(k, o).state = "HANDOVER_LEAVING"
        BY <2>1 DEF InStep, QueuesOk, FailureOk
    <2> QED BY <1>p, <1>h, <2>2
<1>9. ContextReleaseOk'
    <2>0. \A k \in Cells : \A i \in Places : At(k, i)'.type = "CONTEXT_RELEASE" =>
             /\ At(k, i)'.old \in Nat
             /\ Context(k, At(k, i).old)' = Context(k, At(k, i)'.old)
        BY <1>2, <1>3 DEF SameContexts
    <2> SUFFICES ASSUME NEW k \in Cells, NEW i \in Places, At(k, i)'.type = "CONTEXT_RELEASE",
                        NEW o \in Nat, o = At(k, i)'.old, Context(k, o).state # "NONE"
                 PROVE  /\ Context(k, o).state = "HANDOVER_LEAVING"
                        /\ ue.rrc = "CONNECTED_NORMALLY" /\ ueCell = Other(k)
                        /\ Mine.state \in {"CONNECTED_NORMALLY", "CONNECTION_RECONFIGURATION",
                                           "HANDOVER_PREPARATION"}
                        /\ \A j \in Places : At(Other(k), j)'.type # "REQUEST_ACK"
                        /\ \A j \in Places : At(k, j)'.type = "HANDOVER_REQUEST" => i < j
        BY <1>1, <2>0 DEF ContextReleaseOk
    <2> DEFINE p == i + d[k]
    <2>1. p \in Places /\ At(k, i)' = At(k, p)
        BY <1>p
    <2>2. /\ Context(k, o).state = "HANDOVER_LEAVING"
          /\ ue.rrc = "CONNECTED_NORMALLY" /\ ueCell = Other(k)
          /\ Mine.state \in {"CONNECTED_NORMALLY", "CONNECTION_RECONFIGURATION",
                             "HANDOVER_PREPARATION"}
          /\ \A j \in Places : At(Other(k), j).type # "REQUEST_ACK"
          /\ \A j \in Places : At(k, j).type = "HANDOVER_REQUEST" => p < j
        BY <2>1 DEF InStep, QueuesOk, ContextReleaseOk
    <2>3. \A j \in Places : At(k, j)'.type = "HANDOVER_REQUEST" => i < j
        BY <1>p, <1>h, <2>1, <2>2
    <2>4. \A j \in Places : At(Other(k), j)'.type # "REQUEST_ACK"
        BY <1>p, <1>h, <2>2, Others
    <2> QED BY <2>2, <2>3, <2>4
<1>10. NoCancel'
    BY <1>1, <1>2, <1>3, <1>h DEF InStep, QueuesOk, NoCancel
<1>11. CommandOk'
    BY <1>1, <1>5 DEF InStep, QueuesOk, CommandOk
<1>12. JoiningOk'
    <2> SUFFICES ASSUME NEW k \in Cells, NEW n \in Nat, Context(k, n).state = "HANDOVER_JOINING",
                        NEW s \in Nat, s = Context(k, n).source
                 PROVE  /\ \A j \in Places : At(Other(k), j)'.type # "PREPARATION_FAILURE"
                        /\ \/ /\ ueCell = k /\ ue.rnti = n
                              /\ Context(Other(k), s).state = "HANDOVER_LEAVING"
                           \/ /\ UeAt(Other(k), s) /\ Mine.state = "HANDOVER_PREPARATION"
                              /\ \E i \in Places : /\ At(Other(k), i)'.type = "REQUEST_ACK"
                                                   /\ At(Other(k), i)'.old = s
                                                   /\ At(Other(k), i)'.new = n
                           \/ /\ UeAt(Other(k), s) /\ Mine.state = "HANDOVER_LEAVING"
                              /\ Commanded(Other(k), s, n)
        BY <1>1, Others, ContextTypes DEF JoiningOk, SameContexts
    <2>1. \A j \in Places : At(Other(k), j)'.type # "PREPARATION_FAILURE"
        BY <1>2, <1>3, <1>h, Others DEF InStep, QueuesOk, JoiningOk
    <2> QED BY <1>1, <1>4, <1>h, <2>1, Others DEF InStep, QueuesOk, JoiningOk
<1>13. SwitchOk' /\ TeidOk'
    BY <1>1, Others, ContextTypes DEF InStep, QueuesOk, SwitchOk, TeidOk, SameContexts
<1>14. LostOk'
    <2>1. PICK l \in Cells : l = Other(ueCell)
        BY <1>1, Others
    <2>2. ASSUME Lost
          PROVE  \E i \in Places : /\ At(l, i)'.type = "PREPARATION_FAILURE"
                                   /\ Context(l, At(l, i).old)'.state = "HANDOVER_LEAVING"
        <3>1. PICK j \in Places : /\ At(l, j).type = "PREPARATION_FAILURE"
                                  /\ Context(l, At(l, j).old).state = "HANDOVER_LEAVING"
            BY <2>1, <2>2 DEF InStep, RadioOk, LostOk, Live
        <3>2. PICK i \in Places : At(l, i)' = At(l, j)
            BY <1>4, <1>h, <3>1
        <3>3. Context(l, At(l, i).old)' = Context(l, At(l, j).old)
            BY <1>2, <3>1, <3>2 DEF SameContexts
        <3> QED BY <3>1, <3>2, <3>3
    <2> QED BY <1>1, <2>1, <2>2 DEF LostOk
<1> QED BY <1>6, <1>7, <1>8, <1>9, <1>10, <1>11, <1>12, <1>13, <1>14 DEF QueuesOk

\* Nothing the UE or its context waits for leaves the radio.
LEMMA AirKept ==
    ASSUME TypeOK, InStep, Live, UNCHANGED <<ueCell, ideal>>, Alike,
           \A k \in Cells : SameQueue(k),
           ue'.rrc = ue.rrc, ue'.rnti = ue.rnti,
           ue'.preambleSent => \/ ue.preambleSent
                               \/ /\ ue.rrc = "CONNECTED_HANDOVER"
                                  /\ \A r \in Nat : ~Sent("RAR", ueCell, r),
           \A k \in Cells : \A r \in Nat :
              /\ \A n \in Nat : Commanded(k, r, n)' => Commanded(k, r, n)
              /\ \A type \in AirTypes \ {"COMMAND"} : Sent(type, k, r)' => Sent(type, k, r)
              /\ k = ueCell /\ r = ue.rnti /\ ue.rrc = "CONNECTED_NORMALLY"
                 /\ Mine.state # "NONE" =>
                    /\ \A n \in Nat : Commanded(k, r, n) => Commanded(k, r, n)'
                    /\ \A type \in {"RECONFIGURATION", "RECONFIGURATION_COMPLETED"} :
                          Sent(type, k, r) => Sent(type, k, r)'
    PROVE  QueuesOk' /\ RadioOk'
<1>1. /\ ueCell' = ueCell /\ ideal' = ideal /\ ueCell \in Cells /\ ue.rnti \in Nat
      /\ Mine'.state = Mine.state /\ Mine'.target = Mine.target
      /\ (Lost' <=> Lost) /\ (Live' <=> Live) /\ (Alive' <=> Alive)
      /\ \A k \in Cells : \A r \in Nat : UeAt(k, r)' <=> UeAt(k, r)
    BY Phases DEF Alike, Mine, Lost, UeAt, Live, Alive
<1>2. \A k \in Cells : \A i \in Places : At(k, i)' = At(k, i) /\ At(k, i).old \in Nat
                                                           /\ At(k, i).new \in Nat
    BY MessageTypes DEF SameQueue
<1>3. ASSUME NEW k \in Cells, NEW o \in Nat, NEW n \in Nat
      PROVE  Prepared(k, o, n)' <=> Prepared(k, o, n)
    BY <1>2, Others DEF Prepared, Alike
<1>4. RequestOk'
    BY <1>1, <1>2, Others DEF InStep, QueuesOk, RequestOk
<1>5. AckOk'
    <2>1. \A k \in Cells : \A i \in Places : Prepared(k, At(k, i).old, At(k, i).new) =>
             Prepared(k, At(k, i).old, At(k, i).new)'
        BY <1>2, Others DEF Prepared, Alike
    <2> QED BY <1>1, <1>2, <2>1 DEF InStep, QueuesOk, AckOk
<1>6. FailureOk'
    BY <1>1, <1>2, Others DEF InStep, QueuesOk, FailureOk, Alike
<1>7. ContextReleaseOk'
    BY <1>1, <1>2, Others DEF InStep, QueuesOk, ContextReleaseOk, Alike
<1>8. NoCancel' /\ CommandOk' /\ SwitchOk' /\ TeidOk'
    <2>1. NoCancel' /\ CommandOk'
        BY <1>1, <1>2, <1>3 DEF InStep, QueuesOk, NoCancel, CommandOk
    <2>2. TeidOk'
        BY <1>1 DEF InStep, QueuesOk, TeidOk, Alike
    <2>3. SwitchOk'
        <3> SUFFICES ASSUME NEW k \in Cells, NEW n \in Nat,
                            Context(k, n)'.state = "HANDOVER_PATH_SWITCH",
                            NEW q, q = Context(k, n)'.source
                     PROVE  Context(Other(k), q)'.state = "HANDOVER_LEAVING"
            BY DEF SwitchOk
        <3>1. /\ q \in Nat /\ q = Context(k, n).source /\ Other(k) \in Cells
              /\ Context(k, n).state = "HANDOVER_PATH_SWITCH"
            BY Others, ContextTypes DEF Alike
        <3>2. Context(Other(k), q).state = "HANDOVER_LEAVING"
            BY <3>1 DEF InStep, QueuesOk, SwitchOk
        <3> QED BY <3>1, <3>2 DEF Alike
    <2> QED BY <2>1, <2>2, <2>3
<1>9. JoiningOk'
    BY <1>1, <1>2, Others, ContextTypes, Phases
    DEF InStep, QueuesOk, JoiningOk, Alike, UeAt
<1>10. LostOk'
    BY <1>1, <1>2, Others DEF InStep, RadioOk, LostOk, Alike
<1>11. /\ ResponseOk' /\ PreambleOk'
    BY <1>1 DEF InStep, RadioOk, ResponseOk, PreambleOk, Alike, AirTypes, Live
<1>12. ReconfigurationOk' /\ CompletedOk'
    BY <1>1 DEF InStep, RadioOk, ReconfigurationOk, CompletedOk, Alike, AirTypes, Live
<1>13. KnownOk'
    BY <1>1 DEF InStep, RadioOk, KnownOk
<1>14. OwnedOk' /\ IdealOk'
    BY <1>1 DEF InStep, RadioOk, OwnedOk, IdealOk, Alike
<1> QED BY <1>4, <1>5, <1>6, <1>7, <1>8, <1>9, <1>10, <1>11, <1>12, <1>13, <1>14
        DEF QueuesOk, RadioOk

\* The source is told that the target has prepared, and sends the command.
LEMMA AckKeeps ==
    ASSUME TypeOK, InStep, Live, NEW c \in Cells, ueCell = c, NEW u \in Nat, ue.rnti = u,
           NEW n \in Nat, At(c, 1).type = "REQUEST_ACK", At(c, 1).new = n,
           Taken(c), SameQueue(Other(c)), UNCHANGED <<ue, ueCell, ideal>>,
           NEW next, Becomes(c, u, next), next.state = "HANDOVER_LEAVING",
           next.source = Context(c, u).source, next.target = n,
           \A k \in Cells : \A r \in Nat :
              /\ \A m \in Nat : Commanded(k, r, m)' <=>
                    Commanded(k, r, m) \/ (k = c /\ r = u /\ m = n)
              /\ \A type \in AirTypes \ {"COMMAND"} : Sent(type, k, r)' <=> Sent(type, k, r)
    PROVE  QueuesOk' /\ RadioOk'
<1>1. /\ ue' = ue /\ ueCell' = c /\ ideal' = ideal /\ Live' /\ Alive' /\ Alive /\ ideal = {}
      /\ 1 \in Places /\ \A i \in Places : i + 1 \in Places /\ i + 1 # 1
      /\ Other(c) \in Cells /\ Other(c) # c
    BY Others DEF Live, Alive, Places
<1>2. /\ Mine = Context(c, u) /\ Mine' = next
    BY <1>1 DEF Mine, Becomes
<1>3. /\ At(c, 1).old = u /\ UeAt(c, u) /\ ue.rrc = "CONNECTED_NORMALLY"
      /\ Context(c, u).state = "HANDOVER_PREPARATION"
      /\ Prepared(c, u, n)
      /\ \A j \in Places : At(c, j).type = "REQUEST_ACK" => j = 1
      /\ \A j \in Places : At(c, j).type = "PREPARATION_FAILURE" => j # 1
    <2>1. At(c, 1).old = u
        BY <1>1, Phases
    <2> QED BY <1>1, <1>2, <2>1 DEF InStep, QueuesOk, AckOk, UeAt, Places
<1>4. UeAt(c, u)' /\ \A k \in Cells : \A r \in Nat : UeAt(k, r) <=> k = c /\ r = u
    BY <1>1, <1>3 DEF UeAt
<1>5. ASSUME NEW k \in Cells, NEW i \in Places
      PROVE  /\ At(k, i).type \notin {"HANDOVER_REQUEST", "HANDOVER_CANCEL"}
             /\ At(k, i).type = "REQUEST_ACK" => k = c /\ i = 1
             /\ At(k, i).type = "PREPARATION_FAILURE" => k = c /\ At(k, i).old = u /\ i # 1
             /\ At(k, i).type = "CONTEXT_RELEASE" => Context(k, At(k, i).old).state = "NONE"
    <2>1. At(k, i).type = "HANDOVER_REQUEST" => k = Other(c)
        BY <1>1, Phases
    <2>2. At(k, i).type # "HANDOVER_REQUEST"
        BY <1>1, <2>1, Others DEF InStep, QueuesOk, RequestOk
    <2>3. At(k, i).type = "CONTEXT_RELEASE" => Context(k, At(k, i).old).state = "NONE"
        BY <1>1, Others DEF InStep, QueuesOk, ContextReleaseOk
    <2> QED BY <1>2, <1>3, <2>2, <2>3, Phases DEF Lost
<1>6. \A k \in Cells : \A i \in Places : At(k, i)' = At(k, IF k = c THEN i + 1 ELSE i)
    BY Others DEF Taken, SameQueue
<1>7. ASSUME NEW k \in Cells, NEW i \in Places
      PROVE  /\ At(k, i)'.type \notin {"HANDOVER_REQUEST", "HANDOVER_CANCEL", "REQUEST_ACK"}
             /\ At(k, i)'.type = "PREPARATION_FAILURE" => k = c /\ At(k, i)'.old = u
             /\ At(k, i)'.type = "CONTEXT_RELEASE" => Context(k, At(k, i).old)'.state = "NONE"
    <2>1. PICK p \in Places : At(k, i)' = At(k, p) /\ (k = c => p # 1)
        BY <1>1, <1>6
    <2>2. PICK o \in Nat : At(k, p).old = o
        BY MessageTypes
    <2>3. Context(k, o).state = "NONE" => Context(k, o)'.state = "NONE"
        BY <1>3 DEF Becomes
    <2> QED BY <1>5, <2>1, <2>2, <2>3
<1>8. Prepared(c, u, n)'
    <2>1. \A r \in Nat : Context(Other(c), r)' = Context(Other(c), r)
        BY <1>1 DEF Becomes
    <2>2. ASSUME NEW j \in Places, At(c, j).type = "PREPARATION_FAILURE"
          PROVE  j - 1 \in Places /\ At(c, j - 1)' = At(c, j)
        BY <1>3, <1>6, <2>2 DEF Places
    <2>3. \A j \in Places : At(c, j)'.old = At(c, j + 1).old
        BY <1>6
    <2> QED BY <1>3, <2>1, <2>2 DEF Prepared
<1>9. \A k \in Cells : \A r \in Nat : Context(k, r)' = IF k = c /\ r = u THEN next ELSE Context(k, r)
    BY DEF Becomes
<1>10. \A k \in Cells : \A r \in Nat : Context(k, r).state \in Serving => k = c /\ r = u
    BY Phases
<1>11. FailureOk'
    <2>1. ASSUME NEW i \in Places, NEW j \in Places, At(c, i)'.type = "PREPARATION_FAILURE",
                 At(c, j)'.type = "PREPARATION_FAILURE"
          PROVE  i = j
        <3>1. i + 1 = j + 1
            BY <1>1, <1>6, <2>1 DEF InStep, QueuesOk, FailureOk
        <3> QED BY <3>1 DEF Places
    <2> QED BY <1>2, <1>4, <1>7, <2>1, <1>1 DEF FailureOk, UeAt
<1>12. JoiningOk'
    <2> SUFFICES ASSUME NEW k \in Cells, NEW m \in Nat, Context(k, m)'.state = "HANDOVER_JOINING",
                        NEW s \in Nat, s = Context(k, m)'.source
                 PROVE  /\ \A j \in Places : At(Other(k), j)'.type # "PREPARATION_FAILURE"
                        /\ UeAt(Other(k), s)' /\ Mine'.state = "HANDOVER_LEAVING"
                        /\ Commanded(Other(k), s, m)'
        BY <1>9, ContextTypes, <1>3 DEF JoiningOk
    <2>1. Context(k, m) = Context(k, m)' /\ k = Other(c) /\ s = u /\ Other(k) = c
        BY <1>2, <1>3, <1>9, Phases, Others
    <2>2. Commanded(c, u, m)'
        <3>1. Context(k, m).source # 0
            BY <2>1 DEF InStep, ContextsOk, ContextOk
        <3> QED BY <1>3, <2>1, <3>1 DEF Prepared
    <2>3. \A j \in Places : At(c, j).type # "PREPARATION_FAILURE"
        BY <1>1, <2>1 DEF InStep, QueuesOk, JoiningOk
    <2> QED BY <1>1, <1>2, <1>4, <1>6, <2>1, <2>2, <2>3
<1>13. CommandOk'
    BY <1>1, <1>2, <1>3, <1>4, <1>8, Phases DEF CommandOk
<1>14. TeidOk' /\ SwitchOk'
    BY <1>1, <1>2, <1>3, <1>9, <1>10 DEF InStep, QueuesOk, TeidOk, SwitchOk, Serving
<1>15. QueuesOk'
    BY <1>7, <1>11, <1>12, <1>13, <1>14 DEF QueuesOk, RequestOk, AckOk, NoCancel, ContextReleaseOk
<1>16. LostOk' /\ PreambleOk' /\ IdealOk'
    BY <1>1, <1>2 DEF InStep, RadioOk, LostOk, Lost, PreambleOk, IdealOk, Alive
<1>17. ResponseOk' /\ ReconfigurationOk' /\ CompletedOk'
    BY <1>1, <1>2, <1>3, <1>4
    DEF InStep, RadioOk, ResponseOk, ReconfigurationOk, CompletedOk, AirTypes
<1>18. KnownOk' /\ OwnedOk'
    BY <1>1, <1>2, <1>3, <1>4, <1>9 DEF InStep, RadioOk, KnownOk, OwnedOk, Serving
<1> QED BY <1>15, <1>16, <1>17, <1>18 DEF RadioOk

\* A handover is prepared and asked for.
LEMMA TriggerKeeps ==
    ASSUME TypeOK, InStep, Live, NEW c \in Cells, ueCell = c, NEW u \in Nat, ue.rnti = u,
           Mine.state = "CONNECTED_NORMALLY",
           NEW m, m.type = "HANDOVER_REQUEST", m.old = u,
           Put(Other(c), m), SameQueue(c), UNCHANGED <<ue, ueCell, ideal, air>>,
           NEW next, Becomes(c, u, next), next.state = "HANDOVER_PREPARATION",
           next.source = Context(c, u).source
    PROVE  QueuesOk' /\ RadioOk'
<1> DEFINE d == Other(c)
<1>1. /\ ue' = ue /\ ueCell' = c /\ ideal' = ideal /\ Live' /\ Alive' /\ Alive /\ ideal = {}
      /\ d \in Cells /\ d # c /\ Other(d) = c /\ \A k \in Cells : k = c \/ k = d
    BY Others DEF Live, Alive
<1> HIDE DEF d
<1>2. /\ Mine = Context(c, u) /\ Mine' = next /\ ue.rrc = "CONNECTED_NORMALLY"
      /\ \A k \in Cells : \A r \in Nat : Context(k, r)' = IF k = c /\ r = u THEN next ELSE Context(k, r)
    BY <1>1, Phases DEF Mine, Becomes
<1>3. /\ UeAt(c, u)' /\ \A k \in Cells : \A r \in Nat : UeAt(k, r)' <=> UeAt(k, r)
    BY <1>1, <1>2 DEF UeAt
<1>4. ASSUME NEW k \in Cells, NEW i \in Places
      PROVE  /\ At(k, i).type \notin {"HANDOVER_REQUEST", "HANDOVER_CANCEL", "REQUEST_ACK",
                                      "PREPARATION_FAILURE"}
             /\ At(k, i).type = "CONTEXT_RELEASE" /\ Context(k, At(k, i).old).state # "NONE" =>
                   k = d /\ Context(k, At(k, i).old).state = "HANDOVER_LEAVING"
    BY <1>1, Phases DEF Lost, d
<1>5. PICK p \in Places : /\ \A i \in Places : i < p <=> At(d, i) # NoMessage
                          /\ \A i \in Places : At(d, i)' = IF i = p THEN m ELSE At(d, i)
    BY DEF Put, d
<1>6. /\ \A i \in Places : At(c, i)' = At(c, i)
      /\ \A k \in Cells : \A i \in Places : At(k, i).type = "CONTEXT_RELEASE" => At(k, i) # NoMessage
    BY DEF SameQueue, NoMessage
<1>7. \A k \in Cells : \A r \in Nat : Context(k, r).state \in Serving => k = c /\ r = u
    BY Phases
<1>8. ASSUME NEW k \in Cells, NEW i \in Places
      PROVE  /\ At(k, i)'.type \notin {"HANDOVER_CANCEL", "REQUEST_ACK", "PREPARATION_FAILURE"}
             /\ At(k, i)'.type = "HANDOVER_REQUEST" => k = d /\ i = p /\ At(k, i)'.old = u
             /\ At(k, i)'.type = "CONTEXT_RELEASE" => At(k, i)' = At(k, i) /\ (k = d => i < p)
    BY <1>1, <1>4, <1>5, <1>6
<1>9. ContextReleaseOk'
    <2> SUFFICES ASSUME NEW k \in Cells, NEW i \in Places, At(k, i)'.type = "CONTEXT_RELEASE",
                        NEW o \in Nat, o = At(k, i)'.old, Context(k, o)'.state # "NONE"
                 PROVE  k = d /\ Context(k, o)'.state = "HANDOVER_LEAVING" /\ i < p
        BY <1>1, <1>2, <1>8, MessageTypes DEF ContextReleaseOk
    <2>1. Context(k, o).state # "NONE" => k = d /\ Context(k, o).state = "HANDOVER_LEAVING"
        BY <1>4, <1>8
    <2>2. Context(c, u).state # "NONE"
        BY <1>2
    <2> QED BY <1>1, <1>2, <1>8, <2>1, <2>2
<1>10. \A k \in Cells : \A r \in Nat : /\ Context(k, r)'.state # "HANDOVER_JOINING"
                                       /\ Context(k, r)'.state # "HANDOVER_PATH_SWITCH"
    BY <1>2, <1>1, <1>7, Phases DEF Serving
<1>11. CommandOk'
    BY <1>1, <1>2, Phases DEF CommandOk, Commanded
<1>12. TeidOk' /\ RequestOk'
    BY <1>1, <1>2, <1>3, <1>8 DEF InStep, QueuesOk, TeidOk, RequestOk
<1>13. QueuesOk'
    BY <1>8, <1>9, <1>10, <1>11, <1>12
    DEF QueuesOk, AckOk, FailureOk, NoCancel, JoiningOk, SwitchOk
<1>14. LostOk' /\ PreambleOk' /\ IdealOk'
    BY <1>1, <1>2 DEF InStep, RadioOk, LostOk, Lost, PreambleOk, IdealOk, Alive
<1>15. ResponseOk' /\ ReconfigurationOk' /\ CompletedOk'
    BY <1>1, <1>2, <1>3 DEF InStep, RadioOk, ResponseOk, ReconfigurationOk, CompletedOk, Sent
<1>16. KnownOk' /\ OwnedOk'
    BY <1>1, <1>2, <1>3 DEF InStep, RadioOk, KnownOk, OwnedOk, Serving
<1> QED BY <1>13, <1>14, <1>15, <1>16 DEF RadioOk

\* Nothing else of a handover is under way when its request arrives.
LEMMA Asked ==
    ASSUME TypeOK, InStep, Live, NEW c \in Cells, ueCell = c, NEW u \in Nat, ue.rnti = u,
           At(Other(c), 1).type = "HANDOVER_REQUEST"
    PROVE  /\ At(Other(c), 1).old = u /\ UeAt(c, u) /\ ue.rrc = "CONNECTED_NORMALLY"
           /\ Context(c, u).state = "HANDOVER_PREPARATION"
           /\ \A k \in Cells : \A i \in Places :
                 /\ At(k, i).type \notin {"REQUEST_ACK", "PREPARATION_FAILURE", "HANDOVER_CANCEL"}
                 /\ At(k, i).type = "HANDOVER_REQUEST" => k = Other(c) /\ i = 1
                 /\ At(k, i).type = "CONTEXT_RELEASE" => Context(k, At(k, i).old).state = "NONE"
           /\ \A k \in Cells : \A r \in Nat :
                 /\ Context(k, r).state \notin {"HANDOVER_JOINING", "HANDOVER_PATH_SWITCH"}
                 /\ \A n \in Nat : ~Commanded(k, r, n)
<1>1. /\ 1 \in Places /\ (\A i \in Places : i # 1 => ~(i < 1))
      /\ Other(c) \in Cells /\ Other(c) # c /\ Other(Other(c)) = c /\ ideal = {}
      /\ \A k \in Cells : k = c \/ k = Other(c)
    BY Others DEF Places, Live
<1>2. /\ Mine.state = "HANDOVER_PREPARATION" /\ Mine = Context(c, u)
      /\ ue.rrc = "CONNECTED_NORMALLY" /\ At(Other(c), 1).old = u
    BY <1>1, Phases DEF Mine
<1>3. ASSUME NEW k \in Cells, NEW i \in Places
      PROVE  /\ At(k, i).type \notin {"REQUEST_ACK", "PREPARATION_FAILURE", "HANDOVER_CANCEL"}
             /\ At(k, i).type = "HANDOVER_REQUEST" => k = Other(c) /\ i = 1
             /\ At(k, i).type = "CONTEXT_RELEASE" => Context(k, At(k, i).old).state = "NONE"
    <2>1. At(c, i).type \notin {"REQUEST_ACK", "PREPARATION_FAILURE"}
        BY <1>1 DEF InStep, QueuesOk, RequestOk
    <2>2. At(Other(c), i).type = "HANDOVER_REQUEST" => i = 1
        BY <1>1 DEF InStep, QueuesOk, RequestOk
    <2>3. At(k, i).type = "CONTEXT_RELEASE" => Context(k, At(k, i).old).state = "NONE"
        BY <1>1, Phases DEF InStep, QueuesOk, ContextReleaseOk, Places
    <2> QED BY <1>1, <1>2, <2>1, <2>2, <2>3, Phases DEF Lost
<1>4. ASSUME NEW k \in Cells, NEW r \in Nat
      PROVE  Context(k, r).state \notin {"HANDOVER_JOINING", "HANDOVER_PATH_SWITCH"}
    <2>1. Context(k, r).state # "HANDOVER_PATH_SWITCH"
        BY <1>2, Phases DEF Serving, Mine
    <2>2. ASSUME Context(k, r).state = "HANDOVER_JOINING"
          PROVE  FALSE
        <3>1. k = Other(c)
            BY <1>1, <1>2, <2>2, Phases DEF Mine
        <3> QED BY <1>1, <1>2, <1>3, <2>2, <3>1 DEF InStep, QueuesOk, JoiningOk
    <2> QED BY <2>1, <2>2
<1> QED BY <1>1, <1>2, <1>3, <1>4, Phases DEF UeAt

\* The target refuses.
LEMMA RefuseKeeps ==
    ASSUME TypeOK, InStep, Live, NEW c \in Cells, ueCell = c, NEW u \in Nat, ue.rnti = u,
           At(Other(c), 1).type = "HANDOVER_REQUEST", Taken(Other(c)),
           NEW m, m.type = "PREPARATION_FAILURE", m.old = u, Put(c, m),
           UNCHANGED <<ue, ueCell, ideal, air>>, SameContexts
    PROVE  QueuesOk' /\ RadioOk'
<1> DEFINE d == Other(c)
<1>1. /\ ue' = ue /\ ueCell' = c /\ ideal' = ideal /\ Live' /\ Alive' /\ Alive /\ ideal = {}
      /\ d \in Cells /\ d # c /\ Other(d) = c /\ \A k \in Cells : k = c \/ k = d
      /\ \A k \in Cells : \A r \in Nat : UeAt(k, r)' <=> UeAt(k, r)
      /\ \A i \in Places : i + 1 \in Places /\ i + 1 # 1
    BY Others DEF Live, Alive, UeAt, Places
<1>2. /\ Mine' = Mine /\ Mine = Context(c, u) /\ UeAt(c, u) /\ Mine.state = "HANDOVER_PREPARATION"
      /\ ue.rrc = "CONNECTED_NORMALLY"
      /\ \A k \in Cells : \A r \in Nat : Context(k, r)' = Context(k, r)
    BY <1>1, Asked DEF Mine, SameContexts
<1>3. PICK p \in Places : \A i \in Places : At(c, i)' = IF i = p THEN m ELSE At(c, i)
    BY DEF Put
<1>4. \A i \in Places : At(d, i)' = At(d, i + 1)
    BY DEF Taken
<1>5. ASSUME NEW k \in Cells, NEW i \in Places
      PROVE  /\ At(k, i)'.type \notin {"HANDOVER_REQUEST", "REQUEST_ACK", "HANDOVER_CANCEL"}
             /\ At(k, i)'.type = "PREPARATION_FAILURE" => k = c /\ i = p /\ At(k, i)'.old = u
             /\ At(k, i)'.type = "CONTEXT_RELEASE" => Context(k, At(k, i).old)'.state = "NONE"
    <2>1. CASE k = c /\ i = p
        BY <1>3, <2>1
    <2>2. CASE ~(k = c /\ i = p)
        <3>1. PICK q \in Places : At(k, i)' = At(k, q) /\ (k = d => q # 1)
            BY <1>1, <1>3, <1>4, <2>2
        <3>2. PICK o \in Nat : At(k, q).old = o
            BY MessageTypes
        <3> QED BY <1>1, <1>2, <3>1, <3>2, Asked
    <2> QED BY <2>1, <2>2
<1>6. \A k \in Cells : \A r \in Nat :
         /\ Context(k, r)'.state \notin {"HANDOVER_JOINING", "HANDOVER_PATH_SWITCH"}
         /\ \A n \in Nat : ~Commanded(k, r, n)'
    BY <1>2, Asked DEF Commanded
<1>7. TeidOk' /\ FailureOk'
    BY <1>1, <1>2, <1>5 DEF InStep, QueuesOk, TeidOk, FailureOk
<1>8. QueuesOk'
    BY <1>5, <1>6, <1>7
    DEF QueuesOk, RequestOk, AckOk, ContextReleaseOk, NoCancel, CommandOk, JoiningOk, SwitchOk
<1>9. LostOk' /\ PreambleOk' /\ IdealOk'
    BY <1>1, <1>2 DEF InStep, RadioOk, LostOk, Lost, PreambleOk, IdealOk, Alive
<1>10. ResponseOk' /\ ReconfigurationOk' /\ CompletedOk'
    BY <1>1, <1>2 DEF InStep, RadioOk, ResponseOk, ReconfigurationOk, CompletedOk, Sent
<1>11. KnownOk' /\ OwnedOk'
    BY <1>1, <1>2 DEF InStep, RadioOk, KnownOk, OwnedOk, Serving
<1> QED BY <1>8, <1>9, <1>10, <1>11 DEF RadioOk

\* The target prepares.
LEMMA AdmitKeeps ==
    ASSUME TypeOK, InStep, Live, NEW c \in Cells, ueCell = c, NEW u \in Nat, ue.rnti = u,
           At(Other(c), 1).type = "HANDOVER_REQUEST", Taken(Other(c)),
           NEW n \in Nat, Context(Other(c), n).state = "NONE",
           NEW m, m.type = "REQUEST_ACK", m.old = u, m.new = n, Put(c, m),
           \A r \in Nat : Context(Other(c), r).source = 0,
           \A i \in Places : At(Other(c), i).type = "CONTEXT_RELEASE" => At(Other(c), i).old # n,
           NEW next, Becomes(Other(c), n, next), next.state = "HANDOVER_JOINING",
           next.source = u,
           UNCHANGED <<ue, ueCell, ideal, air>>
    PROVE  QueuesOk' /\ RadioOk' /\ OneTeid'
<1> DEFINE d == Other(c)
<1>1. /\ ue' = ue /\ ueCell' = c /\ ideal' = ideal /\ Live' /\ Alive' /\ Alive /\ ideal = {}
      /\ d \in Cells /\ d # c /\ Other(d) = c /\ \A k \in Cells : k = c \/ k = d
      /\ \A k \in Cells : \A r \in Nat : UeAt(k, r)' <=> UeAt(k, r)
      /\ \A i \in Places : i + 1 \in Places /\ i + 1 # 1
    BY Others DEF Live, Alive, UeAt, Places
<1>2. /\ Mine' = Mine /\ Mine = Context(c, u) /\ UeAt(c, u) /\ Mine.state = "HANDOVER_PREPARATION"
      /\ ue.rrc = "CONNECTED_NORMALLY"
      /\ \A k \in Cells : \A r \in Nat : Context(k, r)' = IF k = d /\ r = n THEN next ELSE Context(k, r)
      /\ Context(d, n).state = "NONE" /\ \A r \in Nat : Context(d, r).source = 0
    BY <1>1, Asked DEF Mine, Becomes
<1>3. PICK p \in Places : \A i \in Places : At(c, i)' = IF i = p THEN m ELSE At(c, i)
    BY DEF Put
<1>4. \A i \in Places : At(d, i)' = At(d, i + 1)
    BY DEF Taken
<1>5. ASSUME NEW k \in Cells, NEW i \in Places
      PROVE  /\ At(k, i)'.type \notin {"HANDOVER_REQUEST", "PREPARATION_FAILURE", "HANDOVER_CANCEL"}
             /\ At(k, i)'.type = "REQUEST_ACK" => k = c /\ i = p
             /\ At(k, i)'.type = "CONTEXT_RELEASE" => Context(k, At(k, i).old)'.state = "NONE"
    <2>1. CASE k = c /\ i = p
        BY <1>3, <2>1
    <2>2. CASE ~(k = c /\ i = p)
        <3>1. PICK q \in Places : At(k, i)' = At(k, q) /\ (k = d => q # 1)
            BY <1>1, <1>3, <1>4, <2>2
        <3>2. PICK o \in Nat : At(k, q).old = o
            BY MessageTypes
        <3>3. At(k, q).type = "CONTEXT_RELEASE" => Context(k, o)' = Context(k, o)
            BY <1>2, <3>1, <3>2
        <3> QED BY <1>1, <3>1, <3>2, <3>3, Asked
    <2> QED BY <2>1, <2>2
<1>6. \A k \in Cells : \A r \in Nat :
         /\ Context(k, r)'.state = "HANDOVER_JOINING" => k = d /\ r = n
         /\ Context(k, r)'.state # "HANDOVER_PATH_SWITCH"
         /\ \A o \in Nat : ~Commanded(k, r, o)'
    BY <1>2, Asked DEF Commanded
<1>7. Prepared(c, u, n)'
    BY <1>1, <1>2 DEF Prepared
<1>8. AckOk'
    BY <1>1, <1>2, <1>3, <1>5, <1>7 DEF AckOk
<1>9. JoiningOk'
    BY <1>1, <1>2, <1>3, <1>5, <1>6 DEF JoiningOk
<1>10. TeidOk'
    BY <1>1, <1>2 DEF InStep, QueuesOk, TeidOk
<1>11. QueuesOk'
    BY <1>5, <1>6, <1>8, <1>9, <1>10
    DEF QueuesOk, RequestOk, FailureOk, ContextReleaseOk, NoCancel, CommandOk, SwitchOk
<1>12. LostOk' /\ PreambleOk' /\ IdealOk'
    BY <1>1, <1>2 DEF InStep, RadioOk, LostOk, Lost, PreambleOk, IdealOk, Alive
<1>13. ResponseOk' /\ ReconfigurationOk' /\ CompletedOk'
    BY <1>1, <1>2 DEF InStep, RadioOk, ResponseOk, ReconfigurationOk, CompletedOk, Sent
<1>14. KnownOk' /\ OwnedOk'
    BY <1>1, <1>2 DEF InStep, RadioOk, KnownOk, OwnedOk, Serving
<1>15. OneTeid'
    BY <1>1, <1>2 DEF InStep, OneTeid
<1> QED BY <1>11, <1>12, <1>13, <1>14, <1>15 DEF RadioOk

\* The source forgets a UE that the target serves.
LEMMA ForgottenKeeps ==
    ASSUME TypeOK, InStep, Live, NEW d \in Cells, NEW o \in Nat,
           At(d, 1).type = "CONTEXT_RELEASE", At(d, 1).old = o, Context(d, o).state # "NONE",
           Taken(d), SameQueue(Other(d)), Becomes(d, o, NoContext),
           UNCHANGED <<ue, ueCell, ideal, air>>
    PROVE  QueuesOk' /\ RadioOk'
<1>1. /\ ue' = ue /\ ideal' = ideal /\ Live' /\ Alive' /\ Alive /\ ideal = {}
      /\ 1 \in Places /\ \A i \in Places : i + 1 \in Places /\ i + 1 # 1
      /\ \A k \in Cells : \A r \in Nat : UeAt(k, r)' <=> UeAt(k, r)
    BY Others DEF Live, Alive, UeAt, Places
<1>2. PICK c \in Cells, u \in Nat : c = Other(d) /\ c = ueCell /\ u = ue.rnti
    BY <1>1, Phases, Others DEF InStep, QueuesOk, ContextReleaseOk
<1>3. ueCell' = c /\ d # c /\ d = Other(c) /\ \A k \in Cells : k = c \/ k = d
    BY <1>1, <1>2, Others
<1>4. \A k \in Cells : \A r \in Nat : Context(k, r)' = IF k = d /\ r = o THEN NoContext ELSE Context(k, r)
    BY DEF Becomes
<1>5. /\ Mine' = Mine /\ Mine = Context(c, u)
      /\ Mine.state \in {"CONNECTED_NORMALLY", "CONNECTION_RECONFIGURATION", "HANDOVER_PREPARATION"}
      /\ ue.rrc = "CONNECTED_NORMALLY" /\ UeAt(c, u)
    BY <1>1, <1>2, <1>3, <1>4, Phases DEF Mine, UeAt
<1>6. /\ \A j \in Places : At(c, j).type # "REQUEST_ACK"
      /\ \A j \in Places : At(d, j).type = "HANDOVER_REQUEST" => j # 1
    BY <1>1, <1>3 DEF InStep, QueuesOk, ContextReleaseOk, Places
<1>7. \A k \in Cells : \A i \in Places : At(k, i)' = At(k, IF k = d THEN i + 1 ELSE i)
    BY <1>2, <1>3 DEF Taken, SameQueue
<1>8. \A k \in Cells : \A r \in Nat : Context(k, r).state \notin {"HANDOVER_JOINING", "HANDOVER_PATH_SWITCH"}
    <2> SUFFICES ASSUME NEW k \in Cells, NEW r \in Nat
                 PROVE  Context(k, r).state \notin {"HANDOVER_JOINING", "HANDOVER_PATH_SWITCH"}
        OBVIOUS
    <2>1. Context(k, r).state # "HANDOVER_PATH_SWITCH"
        BY <1>2, <1>5, Phases DEF Serving
    <2>2. Context(k, r).state = "HANDOVER_JOINING" => k = d
        BY <1>2, <1>3, <1>5, Phases
    <2>3. ASSUME Context(d, r).state = "HANDOVER_JOINING"
          PROVE  FALSE
        <3>1. \/ ueCell = d \/ Mine.state = "HANDOVER_LEAVING"
              \/ \E i \in Places : At(Other(d), i).type = "REQUEST_ACK"
            BY <2>3 DEF InStep, QueuesOk, JoiningOk
        <3> QED BY <1>2, <1>3, <1>5, <1>6, <3>1
    <2> QED BY <2>1, <2>2, <2>3
<1>9. ASSUME NEW k \in Cells, NEW i \in Places
      PROVE  /\ At(k, i).type \notin {"REQUEST_ACK", "HANDOVER_CANCEL"}
             /\ At(k, i).type = "HANDOVER_REQUEST" => k = d /\ At(k, i).old = u /\ i # 1
             /\ At(k, i).type = "PREPARATION_FAILURE" => k = c /\ At(k, i).old = u
    BY <1>2, <1>3, <1>5, <1>6, Phases DEF Lost
<1>10. RequestOk'
    <2> SUFFICES ASSUME NEW k \in Cells, NEW i \in Places, At(k, i)'.type = "HANDOVER_REQUEST"
                 PROVE  /\ UeAt(Other(k), At(k, i).old)'
                        /\ Mine.state = "HANDOVER_PREPARATION"
                        /\ \A j \in Places : At(k, j)'.type = "HANDOVER_REQUEST" => j = i
                        /\ \A j \in Places : At(Other(k), j)'.type
                              \notin {"REQUEST_ACK", "PREPARATION_FAILURE"}
        BY <1>5 DEF RequestOk
    <2>1. /\ k = d /\ i + 1 \in Places /\ At(k, i)' = At(d, i + 1) /\ At(k, i)'.old = u
          /\ Other(k) = c
        BY <1>1, <1>2, <1>3, <1>7, <1>9, Others
    <2>2. /\ Mine.state = "HANDOVER_PREPARATION"
          /\ \A j \in Places : At(d, j).type = "HANDOVER_REQUEST" => j = i + 1
          /\ \A j \in Places : At(c, j).type \notin {"REQUEST_ACK", "PREPARATION_FAILURE"}
        BY <1>1, <2>1 DEF InStep, QueuesOk, RequestOk
    <2>3. \A j \in Places : j + 1 = i + 1 => j = i
        BY DEF Places
    <2>4. UeAt(Other(k), At(k, i).old)'
        BY <1>1, <1>5, <2>1 DEF UeAt
    <2> QED BY <1>1, <1>3, <1>7, <2>1, <2>2, <2>3, <2>4
<1>11. FailureOk'
    BY <1>1, <1>3, <1>5, <1>7, <1>9 DEF InStep, QueuesOk, FailureOk, UeAt
<1>12. ContextReleaseOk'
    <2> SUFFICES ASSUME NEW k \in Cells, NEW i \in Places, At(k, i)'.type = "CONTEXT_RELEASE",
                        NEW q \in Nat, q = At(k, i)'.old, Context(k, q)'.state # "NONE"
                 PROVE  /\ Context(k, q)'.state = "HANDOVER_LEAVING" /\ k = d
                        /\ \A j \in Places : At(k, j)'.type = "HANDOVER_REQUEST" => i < j
        <3>1. \A k \in Cells : \A i \in Places :
                 At(k, i)'.old \in Nat /\ At(k, i)'.type # "REQUEST_ACK"
            BY <1>1, <1>7, <1>9, MessageTypes
        <3> QED BY <1>1, <1>2, <1>3, <1>5, <3>1, Others DEF ContextReleaseOk
    <2>1. Context(k, q)' = Context(k, q) /\ Context(k, q).state # "NONE"
        BY <1>4 DEF NoContext
    <2>2. PICK p \in Places : At(k, i)' = At(k, p) /\ (k = d => p = i + 1)
        BY <1>1, <1>7
    <2>3. /\ k = d /\ Context(k, q).state = "HANDOVER_LEAVING"
          /\ \A j \in Places : At(k, j).type = "HANDOVER_REQUEST" => p < j
        BY <1>1, <1>3, <2>1, <2>2, Phases, <1>2 DEF InStep, QueuesOk, ContextReleaseOk
    <2>4. \A j \in Places : i + 1 < j + 1 => i < j
        BY DEF Places
    <2> QED BY <1>1, <1>7, <2>1, <2>2, <2>3, <2>4
<1>13. CommandOk' /\ TeidOk'
    BY <1>1, <1>2, <1>3, <1>4, <1>5, Phases DEF InStep, QueuesOk, TeidOk, CommandOk, Commanded
<1>14. QueuesOk'
    BY <1>1, <1>4, <1>7, <1>8, <1>9, <1>10, <1>11, <1>12, <1>13
    DEF QueuesOk, AckOk, NoCancel, JoiningOk, SwitchOk, NoContext
<1>15. LostOk' /\ PreambleOk' /\ IdealOk'
    BY <1>1, <1>5 DEF InStep, RadioOk, LostOk, Lost, PreambleOk, IdealOk, Alive
<1>16. ResponseOk' /\ ReconfigurationOk' /\ CompletedOk'
    BY <1>1, <1>2, <1>5 DEF InStep, RadioOk, ResponseOk, ReconfigurationOk, CompletedOk, Sent
<1>17. KnownOk' /\ OwnedOk'
    BY <1>1, <1>2, <1>4, <1>5 DEF InStep, RadioOk, KnownOk, OwnedOk, Serving, NoContext, Sent, Commanded
<1> QED BY <1>14, <1>15, <1>16, <1>17 DEF RadioOk

\* The UE does not come to the target in time, and the source is told.
LEMMA JoiningEnds ==
    ASSUME TypeOK, InStep, Live, NEW k \in Cells, NEW n \in Nat, NEW s \in Nat,
           Context(k, n).state = "HANDOVER_JOINING", Context(k, n).source = s,
           NEW m, m.type = "PREPARATION_FAILURE", m.old = s, Put(Other(k), m), SameQueue(k),
           Becomes(k, n, NoContext), UNCHANGED <<ue, ueCell, ideal, air>>
    PROVE  QueuesOk' /\ RadioOk'
<1> DEFINE l == Other(k)
<1>1. /\ ue' = ue /\ ueCell' = ueCell /\ ideal' = ideal /\ Live' /\ Alive' /\ Alive /\ ideal = {}
      /\ \A c \in Cells : \A r \in Nat : UeAt(c, r)' <=> UeAt(c, r)
      /\ l \in Cells /\ l # k /\ Other(l) = k /\ (\A c \in Cells : c = k \/ c = l)
      /\ ueCell \in Cells /\ ue.rnti \in Nat /\ s # 0
    BY Others, Phases DEF Live, Alive, UeAt, InStep, ContextsOk, ContextOk
<1> HIDE DEF l
<1>2. /\ \A c \in Cells : \A r \in Nat :
            Context(c, r)' = IF c = k /\ r = n THEN NoContext ELSE Context(c, r)
      /\ \A i \in Places : At(k, i)' = At(k, i)
      /\ NoContext.state = "NONE" /\ NoContext.source = 0
    BY DEF Becomes, SameQueue, NoContext
<1>3. PICK p \in Places : /\ \A i \in Places : i < p <=> At(l, i) # NoMessage
                          /\ \A i \in Places : At(l, i)' = IF i = p THEN m ELSE At(l, i)
    BY DEF Put, l
<1>4. \A i \in Places : At(l, i).type # "PREPARATION_FAILURE"
    BY DEF InStep, QueuesOk, JoiningOk, l
<1>5. \A c \in Cells : \A i \in Places : At(c, i)' = At(c, i) \/ (c = l /\ i = p /\ At(c, i)' = m)
    BY <1>1, <1>2, <1>3
<1>6. OneTeid => \A r \in Nat : Context(k, r).source # 0 => r = n
    BY <1>1 DEF OneTeid
<1>7. \A c \in Cells : \A r \in Nat : Context(c, r)'.state # "HANDOVER_JOINING"
    <2> SUFFICES ASSUME NEW c \in Cells, NEW r \in Nat, Context(c, r)'.state = "HANDOVER_JOINING"
                 PROVE  FALSE
        OBVIOUS
    <2>1. Context(c, r).state = "HANDOVER_JOINING" /\ ~(c = k /\ r = n)
        BY <1>2
    <2>2. Context(c, r).source # 0 /\ Context(k, n).source # 0
        BY <2>1, <1>1 DEF InStep, ContextsOk, ContextOk
    <2>3. c # k
        BY <1>6, <2>1, <2>2 DEF InStep
    <2>4. \/ c = ueCell /\ Mine.state = "HANDOVER_JOINING"
          \/ c = Other(ueCell) /\ Mine.state \in {"HANDOVER_PREPARATION", "HANDOVER_LEAVING"}
        BY <2>1, Phases DEF Mine
    <2>5. \/ k = ueCell /\ Mine.state = "HANDOVER_JOINING"
          \/ k = Other(ueCell) /\ Mine.state \in {"HANDOVER_PREPARATION", "HANDOVER_LEAVING"}
        BY Phases DEF Mine
    <2> QED BY <2>3, <2>4, <2>5
<1>8. /\ PreambleOk' /\ IdealOk'
    BY <1>1 DEF InStep, RadioOk, PreambleOk, IdealOk
\* The UE is on its way, or has come without being heard.
<1>9. CASE k = ueCell
    <2>1. /\ ue.rnti = n /\ Context(l, s).state = "HANDOVER_LEAVING" /\ l = Other(ueCell)
          /\ Mine.state = "HANDOVER_JOINING" /\ Mine' = NoContext
        <3>1. ue.rnti = n /\ Context(l, s).state = "HANDOVER_LEAVING"
            BY <1>1, <1>9 DEF InStep, QueuesOk, JoiningOk, UeAt, l
        <3> QED BY <1>2, <1>9, <3>1, <1>1 DEF Mine, l
    <2>2. ASSUME NEW c \in Cells, NEW i \in Places
          PROVE  /\ At(c, i).type \notin {"HANDOVER_REQUEST", "REQUEST_ACK", "HANDOVER_CANCEL",
                                          "PREPARATION_FAILURE"}
                 /\ At(c, i).type = "CONTEXT_RELEASE" => Context(c, At(c, i).old).state = "NONE"
        BY <2>1, Phases DEF Lost
    <2>3. Context(l, s)' = Context(l, s)
        BY <1>1, <1>2
    <2>4. FailureOk'
        <3>1. \A c \in Cells : \A i \in Places : At(c, i)'.type = "PREPARATION_FAILURE" =>
                 c = l /\ i = p /\ At(c, i)'.old = s
            BY <1>5, <2>2
        <3>2. Lost' /\ ueCell' = Other(l) /\ Context(l, s)'.state = "HANDOVER_LEAVING"
            BY <1>1, <1>2, <1>9, <2>1, <2>3 DEF Lost
        <3> QED BY <3>1, <3>2 DEF FailureOk
    <2>5. ContextReleaseOk'
        BY <1>1, <1>2, <1>5, <2>2, MessageTypes DEF ContextReleaseOk
    <2>6. \A c \in Cells : \A r \in Nat : Context(c, r)'.state # "HANDOVER_PATH_SWITCH"
        BY <1>2, <1>9, <2>1, Phases DEF Serving
    <2>7. TeidOk' /\ CommandOk'
        BY <1>1, <1>2, <1>6, <1>9, <2>1, Phases DEF InStep, TeidOk, CommandOk, Commanded
    <2>8. QueuesOk'
        BY <1>5, <1>7, <2>2, <2>4, <2>5, <2>6, <2>7
        DEF QueuesOk, RequestOk, AckOk, NoCancel, JoiningOk, SwitchOk
    <2>9. LostOk'
        <3>1. At(l, p)'.type = "PREPARATION_FAILURE" /\ At(l, p)'.old = s
            BY <1>3
        <3>2. Context(l, At(l, p).old)'.state = "HANDOVER_LEAVING"
            BY <2>1, <2>3, <3>1
        <3> QED BY <1>1, <2>1, <3>1, <3>2 DEF LostOk
    <2>10. ResponseOk' /\ ReconfigurationOk' /\ CompletedOk'
        BY <1>1, <1>2, <2>1 DEF InStep, RadioOk, ResponseOk, ReconfigurationOk, CompletedOk, Sent
    <2>11. KnownOk' /\ OwnedOk'
        BY <1>1, <1>2, <2>1 DEF InStep, RadioOk, KnownOk, OwnedOk, Serving
    <2> QED BY <1>8, <2>8, <2>9, <2>10, <2>11 DEF RadioOk
\* The UE is still with the source.
<1>10. CASE k # ueCell
    <2>1. /\ ueCell = l /\ UeAt(l, s) /\ ue.rnti = s /\ ue.rrc = "CONNECTED_NORMALLY"
          /\ Mine' = Mine /\ Mine = Context(l, s)
          /\ \/ /\ Mine.state = "HANDOVER_PREPARATION"
                /\ \E i \in Places : At(l, i).type = "REQUEST_ACK"
             \/ Mine.state = "HANDOVER_LEAVING" /\ Commanded(l, s, n)
        <3>1. UeAt(l, s) /\ \/ /\ Mine.state = "HANDOVER_PREPARATION"
                               /\ \E i \in Places : At(l, i).type = "REQUEST_ACK"
                            \/ Mine.state = "HANDOVER_LEAVING" /\ Commanded(l, s, n)
            BY <1>10 DEF InStep, QueuesOk, JoiningOk, l
        <3> QED BY <1>1, <1>2, <1>10, <3>1 DEF UeAt, Mine
    <2>2. ASSUME NEW c \in Cells, NEW i \in Places
          PROVE  /\ At(c, i).type \notin {"HANDOVER_REQUEST", "HANDOVER_CANCEL",
                                          "PREPARATION_FAILURE"}
                 /\ At(c, i).type = "REQUEST_ACK" => c = l /\ At(c, i).old = s
                 /\ At(c, i).type = "CONTEXT_RELEASE" => Context(c, At(c, i).old).state = "NONE"
        <3>1. At(c, i).type # "HANDOVER_REQUEST"
            <4> SUFFICES ASSUME At(c, i).type = "HANDOVER_REQUEST" PROVE FALSE
                OBVIOUS
            <4>1. Mine.state = "HANDOVER_PREPARATION" /\ c = k
                BY <1>1, <2>1, Phases
            <4>2. \A j \in Places : At(l, j).type # "REQUEST_ACK"
                BY <4>1 DEF InStep, QueuesOk, RequestOk, l
            <4> QED BY <2>1, <4>1, <4>2
        <3>2. At(c, i).type = "CONTEXT_RELEASE" => Context(c, At(c, i).old).state = "NONE"
            <4> SUFFICES ASSUME At(c, i).type = "CONTEXT_RELEASE",
                                Context(c, At(c, i).old).state # "NONE" PROVE FALSE
                OBVIOUS
            <4>1. Mine.state # "HANDOVER_LEAVING" /\ c = k
                BY <1>1, <2>1, Phases
            <4>2. \A j \in Places : At(l, j).type # "REQUEST_ACK"
                BY <4>1 DEF InStep, QueuesOk, ContextReleaseOk, l
            <4> QED BY <2>1, <4>1, <4>2
        <3> QED BY <1>1, <1>4, <2>1, <3>1, <3>2, Phases DEF Lost
    <2>3. ASSUME NEW o \in Nat, NEW q \in Nat, Prepared(l, o, q), o = s
          PROVE  Prepared(l, o, q)'
        <3>1. q = n
            BY <1>1, <2>3 DEF Prepared
        <3>2. \A r \in Nat : Context(k, r)'.source = 0
            BY <1>1, <1>2, <1>6 DEF InStep
        <3>3. At(l, p)'.type = "PREPARATION_FAILURE" /\ At(l, p)'.old = s
            BY <1>3
        <3> QED BY <1>1, <1>2, <2>3, <3>1, <3>2, <3>3 DEF Prepared
    <2>4. \A i \in Places : At(l, i)'.type = "REQUEST_ACK" => At(l, i)' = At(l, i) /\ i < p
        BY <1>1, <1>3, MessageTypes
    <2>5. AckOk'
        <3> SUFFICES ASSUME NEW c \in Cells, NEW i \in Places, At(c, i)'.type = "REQUEST_ACK"
                     PROVE  /\ UeAt(c, At(c, i).old)'
                            /\ Mine.state = "HANDOVER_PREPARATION"
                            /\ Prepared(c, At(c, i).old, At(c, i).new)'
                            /\ \A j \in Places : At(c, j)'.type = "REQUEST_ACK" => j = i
                            /\ \A j \in Places : At(c, j)'.type = "PREPARATION_FAILURE" => i < j
            BY <2>1 DEF AckOk
        <3>1. c = l /\ At(l, i)' = At(l, i) /\ i < p /\ At(l, i).type = "REQUEST_ACK"
            BY <1>5, <2>2, <2>4
        <3>2. PICK o, q \in Nat : o = At(l, i).old /\ q = At(l, i).new
            BY <1>1, MessageTypes
        <3>3. /\ o = s /\ Mine.state = "HANDOVER_PREPARATION" /\ Prepared(l, o, q)
              /\ \A j \in Places : At(l, j).type = "REQUEST_ACK" => j = i
            BY <1>1, <2>2, <3>1, <3>2 DEF InStep, QueuesOk, AckOk
        <3>4. Prepared(l, At(l, i).old, At(l, i).new)'
            <4>1. Prepared(l, o, q)'
                BY <2>3, <3>3
            <4> QED BY <3>1, <3>2, <4>1 DEF Prepared
        <3>5. UeAt(l, At(l, i).old)'
            BY <1>1, <2>1, <3>1, <3>2, <3>3 DEF UeAt
        <3>6. \A j \in Places : At(l, j)'.type = "PREPARATION_FAILURE" => j = p
            BY <1>3, <1>4
        <3> QED BY <2>4, <3>1, <3>3, <3>4, <3>5, <3>6
    <2>6. FailureOk'
        <3>1. \A c \in Cells : \A i \in Places : At(c, i)'.type = "PREPARATION_FAILURE" =>
                 c = l /\ i = p /\ At(c, i)'.old = s
            BY <1>5, <2>2
        <3> QED BY <1>1, <2>1, <3>1 DEF FailureOk
    <2>7. ContextReleaseOk'
        BY <1>1, <1>2, <1>5, <2>2, MessageTypes DEF ContextReleaseOk
    <2>8. CommandOk'
        <3> SUFFICES ASSUME NEW c \in Cells, NEW o \in Nat, NEW q \in Nat, Commanded(c, o, q)'
                     PROVE  /\ UeAt(c, o)' /\ Mine'.state = "HANDOVER_LEAVING"
                            /\ Mine'.target = q /\ Prepared(c, o, q)'
            BY DEF CommandOk
        <3>1. Commanded(c, o, q)
            BY DEF Commanded
        <3>2. UeAt(c, o) /\ Mine.state = "HANDOVER_LEAVING" /\ Mine.target = q /\ Prepared(c, o, q)
            BY <1>1, <3>1 DEF InStep, QueuesOk, CommandOk
        <3>3. c = l /\ o = s
            BY <2>1, <3>2 DEF UeAt
        <3> QED BY <1>1, <2>1, <2>3, <3>2, <3>3
    <2>9. TeidOk' /\ SwitchOk'
        BY <1>1, <1>2, <2>1, Phases DEF InStep, QueuesOk, TeidOk, SwitchOk, Serving
    <2>10. QueuesOk'
        BY <1>5, <1>7, <2>2, <2>5, <2>6, <2>7, <2>8, <2>9
        DEF QueuesOk, RequestOk, NoCancel, JoiningOk
    <2>11. LostOk'
        BY <2>1 DEF LostOk, Lost
    <2>12. ResponseOk' /\ ReconfigurationOk' /\ CompletedOk'
        BY <1>1, <2>1 DEF InStep, RadioOk, ResponseOk, ReconfigurationOk, CompletedOk, Sent
    <2>13. KnownOk' /\ OwnedOk'
        BY <1>1, <1>2, <2>1 DEF InStep, RadioOk, KnownOk, OwnedOk, Serving, Sent, Commanded
    <2> QED BY <1>8, <2>10, <2>11, <2>12, <2>13 DEF RadioOk
<1> QED BY <1>9, <1>10

\* Random access that nobody goes on with ends.
LEMMA AccessEnds ==
    ASSUME TypeOK, InStep, Live, NEW c \in Cells, NEW q \in Nat,
           Context(c, q).state = "INITIAL_RANDOM_ACCESS", Becomes(c, q, NoContext),
           \A k \in Cells : SameQueue(k), UNCHANGED <<ue, ueCell, ideal, air>>
    PROVE  QueuesOk' /\ RadioOk'
<1>1. /\ ue' = ue /\ ueCell' = ueCell /\ ideal' = ideal /\ Live' /\ Alive' /\ Alive /\ ideal = {}
      /\ \A k \in Cells : \A r \in Nat : UeAt(k, r)' <=> UeAt(k, r)
      /\ ueCell \in Cells /\ ue.rnti \in Nat
    BY Phases DEF Live, Alive, UeAt
<1>2. /\ \A k \in Cells : \A r \in Nat :
            Context(k, r)' = IF k = c /\ r = q THEN NoContext ELSE Context(k, r)
      /\ \A k \in Cells : \A i \in Places : At(k, i)' = At(k, i)
      /\ NoContext.state = "NONE" /\ NoContext.source = 0
      /\ Context(c, q).source = 0
    BY DEF Becomes, SameQueue, NoContext, InStep, ContextsOk, ContextOk
<1>3. /\ \/ Mine' = Mine
         \/ Mine.state = "INITIAL_RANDOM_ACCESS" /\ Mine' = NoContext
      /\ Lost' <=> Lost
    BY <1>1, <1>2 DEF Mine, Lost
<1>4. \A k \in Cells : \A r \in Nat : Context(k, r).state = "HANDOVER_LEAVING" => Context(k, r)' = Context(k, r)
    BY <1>2
<1>5. ASSUME NEW k \in Cells, NEW o \in Nat, NEW n \in Nat, Prepared(k, o, n)
      PROVE  Prepared(k, o, n)'
    <2>1. Other(k) \in Cells
        BY Others
    <2>2. \A r \in Nat : Context(Other(k), r)'.source # 0 => Context(Other(k), r).source # 0
        BY <1>2, <2>1
    <2> QED BY <1>2, <1>5, <2>1, <2>2 DEF Prepared
<1>6. RequestOk'
    BY <1>1, <1>2, <1>3, Others DEF InStep, QueuesOk, RequestOk, UeAt
<1>7. AckOk'
    <2> SUFFICES ASSUME NEW k \in Cells, NEW i \in Places, At(k, i).type = "REQUEST_ACK",
                        NEW o \in Nat, o = At(k, i).old, NEW n \in Nat, n = At(k, i).new
                 PROVE  /\ UeAt(k, o)
                        /\ Mine'.state = "HANDOVER_PREPARATION"
                        /\ Prepared(k, o, n)'
                        /\ \A j \in Places : At(k, j).type = "REQUEST_ACK" => j = i
                        /\ \A j \in Places : At(k, j).type = "PREPARATION_FAILURE" => i < j
        BY <1>1, <1>2, MessageTypes DEF AckOk, UeAt, Prepared
    <2> QED BY <1>1, <1>3, <1>5 DEF InStep, QueuesOk, AckOk
<1>8. FailureOk'
    <2> SUFFICES ASSUME NEW k \in Cells, NEW i \in Places, At(k, i).type = "PREPARATION_FAILURE",
                        NEW o \in Nat, o = At(k, i).old
                 PROVE  /\ \A j \in Places : At(k, j).type = "PREPARATION_FAILURE" => j = i
                        /\ \/ UeAt(k, o) /\ Mine'.state \in {"HANDOVER_PREPARATION", "HANDOVER_LEAVING"}
                           \/ ueCell = Other(k) /\ Lost /\ Context(k, o)'.state = "HANDOVER_LEAVING"
        BY <1>1, <1>2, <1>3, MessageTypes DEF FailureOk, UeAt
    <2> QED BY <1>1, <1>3, <1>4 DEF InStep, QueuesOk, FailureOk
<1>9. ContextReleaseOk'
    <2> SUFFICES ASSUME NEW k \in Cells, NEW i \in Places, At(k, i).type = "CONTEXT_RELEASE",
                        NEW o \in Nat, o = At(k, i).old, Context(k, o)'.state # "NONE"
                 PROVE  /\ Context(k, o)'.state = "HANDOVER_LEAVING"
                        /\ ue.rrc = "CONNECTED_NORMALLY" /\ ueCell = Other(k)
                        /\ Mine'.state \in {"CONNECTED_NORMALLY", "CONNECTION_RECONFIGURATION",
                                           "HANDOVER_PREPARATION"}
                        /\ \A j \in Places : At(Other(k), j).type # "REQUEST_ACK"
                        /\ \A j \in Places : At(k, j).type = "HANDOVER_REQUEST" => i < j
        BY <1>1, <1>2, Others, MessageTypes DEF ContextReleaseOk
    <2>1. Context(k, o).state # "NONE"
        BY <1>2
    <2> QED BY <1>1, <1>3, <1>4, <2>1 DEF InStep, QueuesOk, ContextReleaseOk
<1>10. NoCancel' /\ TeidOk'
    BY <1>1, <1>2 DEF InStep, QueuesOk, NoCancel, TeidOk
<1>11. CommandOk'
    BY <1>1, <1>3, <1>5 DEF InStep, QueuesOk, CommandOk, Commanded
<1>12. JoiningOk' /\ SwitchOk'
    <2>1. ASSUME NEW k \in Cells, NEW n \in Nat,
                 Context(k, n)'.state \in {"HANDOVER_JOINING", "HANDOVER_PATH_SWITCH"}
          PROVE  Context(k, n)' = Context(k, n) /\ Context(k, n).source \in Nat
        BY <1>2, <2>1, ContextTypes
    <2>2. JoiningOk'
        <3> SUFFICES ASSUME NEW k \in Cells, NEW n \in Nat, Context(k, n)'.state = "HANDOVER_JOINING",
                            NEW s \in Nat, s = Context(k, n)'.source
                     PROVE  /\ \A j \in Places : At(Other(k), j).type # "PREPARATION_FAILURE"
                            /\ \/ /\ ueCell = k /\ ue.rnti = n
                                  /\ Context(Other(k), s)'.state = "HANDOVER_LEAVING"
                               \/ /\ UeAt(Other(k), s) /\ Mine'.state = "HANDOVER_PREPARATION"
                                  /\ \E i \in Places : /\ At(Other(k), i).type = "REQUEST_ACK"
                                                       /\ At(Other(k), i).old = s
                                                       /\ At(Other(k), i).new = n
                               \/ /\ UeAt(Other(k), s) /\ Mine'.state = "HANDOVER_LEAVING"
                                  /\ Commanded(Other(k), s, n)
            BY <1>1, <1>2, <2>1, Others DEF JoiningOk, UeAt, Commanded
        <3> QED BY <1>1, <1>3, <1>4, <2>1, Others DEF InStep, QueuesOk, JoiningOk
    <2>3. SwitchOk'
        <3> SUFFICES ASSUME NEW k \in Cells, NEW n \in Nat, Context(k, n)'.state = "HANDOVER_PATH_SWITCH",
                            NEW s \in Nat, s = Context(k, n)'.source
                     PROVE  Context(Other(k), s)'.state = "HANDOVER_LEAVING"
            BY <2>1 DEF SwitchOk
        <3> QED BY <1>1, <1>4, <2>1, Others DEF InStep, QueuesOk, SwitchOk
    <2> QED BY <2>2, <2>3
<1>13. LostOk'
    <2>1. PICK l \in Cells : l = Other(ueCell)
        BY <1>1, Others
    <2>2. ASSUME Lost
          PROVE  \E j \in Places : /\ At(l, j)'.type = "PREPARATION_FAILURE"
                                   /\ Context(l, At(l, j).old)'.state = "HANDOVER_LEAVING"
        <3>1. PICK j \in Places : /\ At(l, j).type = "PREPARATION_FAILURE"
                                  /\ Context(l, At(l, j).old).state = "HANDOVER_LEAVING"
            BY <1>1, <2>1, <2>2 DEF InStep, RadioOk, LostOk
        <3>2. PICK o \in Nat : o = At(l, j).old
            BY MessageTypes
        <3>3. Context(l, o)' = Context(l, o)
            BY <1>4, <3>1, <3>2
        <3>4. Context(l, At(l, j).old)'.state = "HANDOVER_LEAVING"
            BY <1>2, <3>1, <3>2, <3>3
        <3> QED BY <1>2, <3>1, <3>4
    <2> QED BY <1>1, <1>3, <2>1, <2>2 DEF LostOk
<1>14. ResponseOk' /\ PreambleOk' /\ IdealOk'
    BY <1>1, <1>2, <1>3 DEF InStep, RadioOk, ResponseOk, PreambleOk, IdealOk, Sent
<1>15. ReconfigurationOk' /\ CompletedOk'
    BY <1>1, <1>3, <1>2 DEF InStep, RadioOk, ReconfigurationOk, CompletedOk, Sent
<1>16. KnownOk' /\ OwnedOk'
    BY <1>1, <1>2, <1>3 DEF InStep, RadioOk, KnownOk, OwnedOk, Serving, Sent, Commanded
<1> QED BY <1>6, <1>7, <1>8, <1>9, <1>10, <1>11, <1>12, <1>13, <1>14, <1>15, <1>16 DEF QueuesOk, RadioOk

\* The UE obeys the command.
LEMMA CommandKeeps ==
    ASSUME TypeOK, InStep, Live, NEW c \in Cells, ueCell = c, NEW u \in Nat, ue.rnti = u,
           NEW n \in Nat, Commanded(c, u, n),
           ueCell' = Other(c), ue'.rrc = "CONNECTED_HANDOVER", ue'.rnti = n,
           SameContexts, \A k \in Cells : SameQueue(k), ideal' = ideal,
           \A k \in Cells : \A r \in Nat :
              /\ \A q \in Nat : Commanded(k, r, q)' =>
                    Commanded(k, r, q) /\ ~(k = c /\ r = u /\ q = n)
              /\ \A type \in AirTypes \ {"COMMAND"} : Sent(type, k, r)' => Sent(type, k, r)
    PROVE  QueuesOk' /\ RadioOk'
<1> DEFINE d == Other(c)
<1>1. /\ ideal' = ideal /\ Live' /\ Alive' /\ Alive /\ ideal = {}
      /\ d \in Cells /\ d # c /\ Other(d) = c /\ \A k \in Cells : k = c \/ k = d
      /\ ueCell' = d
    BY Others DEF Live, Alive
<1> HIDE DEF d
<1>2. /\ \A k \in Cells : \A r \in Nat : Context(k, r)' = Context(k, r)
      /\ \A k \in Cells : \A i \in Places : At(k, i)' = At(k, i) /\ At(k, i).old \in Nat
      /\ Mine = Context(c, u) /\ Mine' = Context(d, n)
    BY <1>1, MessageTypes DEF SameContexts, SameQueue, Mine
<1>3. /\ UeAt(c, u) /\ Mine.state = "HANDOVER_LEAVING" /\ Mine.target = n
      /\ ue.rrc = "CONNECTED_NORMALLY" /\ Prepared(c, u, n)
    BY <1>1 DEF InStep, QueuesOk, CommandOk, UeAt
<1>4. ASSUME NEW k \in Cells, NEW i \in Places
      PROVE  /\ At(k, i).type \notin {"HANDOVER_REQUEST", "REQUEST_ACK", "HANDOVER_CANCEL"}
             /\ At(k, i).type = "PREPARATION_FAILURE" => k = c /\ At(k, i).old = u
             /\ At(k, i).type = "CONTEXT_RELEASE" => Context(k, At(k, i).old).state = "NONE"
    BY <1>1, <1>3, Phases DEF Lost
<1>5. \A r \in Nat : Context(d, r).source # 0 => r = n
    BY <1>3 DEF Prepared, d
<1>6. \/ Mine'.state = "NONE"
      \/ /\ Mine'.state = "HANDOVER_JOINING"
         /\ \A j \in Places : At(c, j).type # "PREPARATION_FAILURE"
    <2>1. CASE Context(d, n).state = "HANDOVER_JOINING"
        BY <1>1, <1>2, <2>1 DEF InStep, QueuesOk, JoiningOk
    <2>2. CASE Context(d, n).state # "HANDOVER_JOINING"
        BY <1>2, <1>3, <2>2 DEF Prepared, d
    <2> QED BY <2>1, <2>2
<1>7. \A k \in Cells : \A r \in Nat : Context(k, r).state = "HANDOVER_JOINING" =>
         k = d /\ r = n /\ Context(k, r).source = u
    <2> SUFFICES ASSUME NEW k \in Cells, NEW r \in Nat, Context(k, r).state = "HANDOVER_JOINING"
                 PROVE  k = d /\ r = n /\ Context(k, r).source = u
        OBVIOUS
    <2>1. k = d /\ Context(k, r).source = u
        BY <1>2, <1>3, Phases DEF d
    <2>2. Context(k, r).source # 0
        BY DEF InStep, ContextsOk, ContextOk
    <2> QED BY <1>5, <2>1, <2>2
<1>8. FailureOk'
    <2> SUFFICES ASSUME NEW k \in Cells, NEW i \in Places, At(k, i).type = "PREPARATION_FAILURE"
                 PROVE  /\ \A j \in Places : At(k, j).type = "PREPARATION_FAILURE" => j = i
                        /\ d = Other(k) /\ Lost' /\ Context(k, u).state = "HANDOVER_LEAVING"
        BY <1>1, <1>2, <1>4 DEF FailureOk
    <2>1. k = c /\ Mine'.state = "NONE"
        BY <1>4, <1>6
    <2> QED BY <1>1, <1>2, <1>3, <2>1 DEF InStep, QueuesOk, FailureOk, Lost, d
<1>9. ContextReleaseOk'
    BY <1>2, <1>4 DEF ContextReleaseOk
<1>10. JoiningOk'
    <2> SUFFICES ASSUME NEW k \in Cells, NEW r \in Nat, Context(k, r).state = "HANDOVER_JOINING"
                 PROVE  /\ \A j \in Places : At(Other(k), j).type # "PREPARATION_FAILURE"
                        /\ k = d /\ r = n /\ Other(k) = c /\ Context(k, r).source = u
        BY <1>1, <1>2, <1>3 DEF JoiningOk
    <2> QED BY <1>1, <1>7 DEF InStep, QueuesOk, JoiningOk
<1>11. SwitchOk' /\ TeidOk'
    <2>1. \A k \in Cells : \A r \in Nat : Context(k, r).state # "HANDOVER_PATH_SWITCH"
        BY <1>2, <1>3, Phases DEF Serving
    <2> QED BY <1>1, <1>2, <1>5, <2>1 DEF SwitchOk, TeidOk
<1>12. CommandOk'
    BY <1>2, <1>3, Phases DEF CommandOk
<1>13. QueuesOk'
    BY <1>2, <1>4, <1>8, <1>9, <1>10, <1>11, <1>12 DEF QueuesOk, RequestOk, AckOk, NoCancel
<1>14. LostOk'
    <2>1. CASE Mine'.state = "HANDOVER_JOINING"
        BY <2>1 DEF LostOk, Lost
    <2>2. CASE Mine'.state # "HANDOVER_JOINING"
        <3>1. Context(d, n).state # "HANDOVER_JOINING"
            BY <1>2, <2>2
        <3>2. PICK j \in Places : At(c, j).type = "PREPARATION_FAILURE" /\ At(c, j).old = u
            BY <1>3, <3>1 DEF Prepared, d
        <3>3. Context(c, At(c, j).old)' = Context(c, u)
            BY <1>2, <3>2
        <3> QED BY <1>1, <1>2, <1>3, <3>2, <3>3 DEF LostOk
    <2> QED BY <2>1, <2>2
<1>15. ResponseOk' /\ ReconfigurationOk' /\ CompletedOk'
    BY <1>1, <1>3 DEF InStep, RadioOk, ResponseOk, ReconfigurationOk, CompletedOk, AirTypes
<1>16. PreambleOk' /\ IdealOk'
    BY <1>1 DEF InStep, RadioOk, PreambleOk, IdealOk
<1>17. KnownOk' /\ OwnedOk'
    <2>1. \A k \in Cells : \A r \in Nat : Context(k, r).state \notin Serving
        BY <1>2, <1>3, Phases DEF Serving
    <2> QED BY <1>2, <1>6, <2>1 DEF KnownOk, OwnedOk
<1> QED BY <1>13, <1>14, <1>15, <1>16, <1>17 DEF RadioOk

\* The UE reconfigures itself.
LEMMA ReconfigurationKeeps ==
    ASSUME TypeOK, InStep, Live, NEW c \in Cells, ueCell = c, NEW u \in Nat, ue.rnti = u,
           Sent("RECONFIGURATION", c, u),
           UNCHANGED <<ue, ueCell, ideal>>, SameContexts, \A k \in Cells : SameQueue(k),
           \A k \in Cells : \A r \in Nat :
              /\ \A q \in Nat : Commanded(k, r, q)' <=> Commanded(k, r, q)
              /\ Sent("RAR", k, r)' => Sent("RAR", k, r)
              /\ Sent("RECONFIGURATION", k, r)' =>
                    Sent("RECONFIGURATION", k, r) /\ ~(k = c /\ r = u)
              /\ Sent("RECONFIGURATION_COMPLETED", k, r)' <=>
                    Sent("RECONFIGURATION_COMPLETED", k, r) \/ (k = c /\ r = u)
    PROVE  QueuesOk' /\ RadioOk'
<1>1. /\ ue' = ue /\ ueCell' = ueCell /\ ideal' = ideal /\ Live' /\ Alive' /\ Alive /\ ideal = {}
      /\ \A k \in Cells : \A r \in Nat : UeAt(k, r)' <=> UeAt(k, r)
      /\ Mine' = Mine /\ \A k \in Cells : \A r \in Nat : Context(k, r)' = Context(k, r)
    BY DEF Live, Alive, UeAt, Mine, SameContexts
<1>2. UeAt(c, u) /\ Mine.state = "CONNECTION_RECONFIGURATION" /\ ue.rrc = "CONNECTED_NORMALLY"
    BY <1>1 DEF InStep, RadioOk, ReconfigurationOk, UeAt
<1>3. QueuesOk' /\ LostOk'
    <2> DEFINE none == [k \in Cells |-> 0]
    <2>1. none \in [Cells -> {0, 1}] /\ \A k \in Cells : none[k] = 0
        OBVIOUS
    <2> HIDE DEF none
    <2>2. \A k \in Cells : \A i \in Places : i + none[k] = i
        BY <2>1 DEF Places
    <2>3. \A k \in Cells : \A i \in Places :
              IF At(k, i + none[k]) # NoMessage THEN At(k, i)' = At(k, i + none[k])
              ELSE At(k, i)'.type \in {"NONE", "UE_DATA"}
        BY <2>2 DEF SameQueue, NoMessage
    <2> QED BY <1>1, <2>1, <2>3, QueuesKept
<1>4. ResponseOk' /\ PreambleOk' /\ IdealOk'
    BY <1>1 DEF InStep, RadioOk, ResponseOk, PreambleOk, IdealOk
<1>5. ReconfigurationOk' /\ CompletedOk'
    BY <1>1, <1>2 DEF InStep, RadioOk, ReconfigurationOk, CompletedOk, UeAt
<1>6. KnownOk' /\ OwnedOk'
    BY <1>1, <1>2 DEF InStep, RadioOk, KnownOk, OwnedOk
<1> QED BY <1>3, <1>4, <1>5, <1>6 DEF RadioOk

\* The UE takes a response for its own, and confirms the handover.
LEMMA ResponseKeeps ==
    ASSUME TypeOK, InStep, Live, NEW c \in Cells, ueCell = c, NEW r \in Nat,
           Sent("RAR", c, r), ueCell' = c, ue'.rrc = "CONNECTED_NORMALLY", ue'.rnti = r,
           ue'.preambleSent = ue.preambleSent,
           SameContexts, \A k \in Cells : SameQueue(k), ideal' = ideal,
           \A k \in Cells : \A o \in Nat :
              /\ \A q \in Nat : Commanded(k, o, q)' => Commanded(k, o, q)
              /\ Sent("RAR", k, o)' => Sent("RAR", k, o) /\ ~(k = c /\ o = r)
              /\ Sent("RECONFIGURATION", k, o)' => Sent("RECONFIGURATION", k, o)
              /\ Sent("RECONFIGURATION_COMPLETED", k, o)' <=>
                    Sent("RECONFIGURATION_COMPLETED", k, o) \/ (k = c /\ o = r)
    PROVE  QueuesOk' /\ RadioOk'
<1> DEFINE d == Other(c)
<1>1. /\ ideal' = ideal /\ Live' /\ Alive' /\ Alive /\ ideal = {}
      /\ d \in Cells /\ d # c /\ Other(d) = c /\ \A k \in Cells : k = c \/ k = d
    BY Others DEF Live, Alive
<1> HIDE DEF d
<1>2. /\ \A k \in Cells : \A o \in Nat : Context(k, o)' = Context(k, o)
      /\ \A k \in Cells : \A i \in Places : At(k, i)' = At(k, i) /\ At(k, i).old \in Nat
      /\ Mine' = Context(c, r)
    BY MessageTypes DEF SameContexts, SameQueue, Mine
<1>3. PICK u \in Nat : u = ue.rnti
    BY Phases
<1>4. /\ ue.rrc = "CONNECTED_HANDOVER" /\ ~ue.preambleSent
      /\ \A k \in Cells : \A o \in Nat : Sent("RAR", k, o) => k = c /\ o = r
      /\ \/ r = u
         \/ Mine.state = "NONE" /\ Context(c, r).state \in {"NONE", "INITIAL_RANDOM_ACCESS"}
    BY <1>1, <1>3 DEF InStep, RadioOk, ResponseOk
<1>5. /\ Mine = Context(c, u) /\ Mine.state \in {"NONE", "HANDOVER_JOINING"}
      /\ r = u => Mine' = Mine
      /\ r # u => Lost /\ Lost'
      /\ Lost' <=> Lost
    BY <1>2, <1>3, <1>4 DEF InStep, RadioOk, KnownOk, Mine, Lost
<1>6. ASSUME NEW k \in Cells, NEW i \in Places
      PROVE  /\ At(k, i).type \notin {"HANDOVER_REQUEST", "REQUEST_ACK", "HANDOVER_CANCEL"}
             /\ At(k, i).type = "PREPARATION_FAILURE" =>
                   Lost /\ k = d /\ Context(k, At(k, i).old).state = "HANDOVER_LEAVING"
             /\ At(k, i).type = "CONTEXT_RELEASE" => Context(k, At(k, i).old).state = "NONE"
    BY <1>1, <1>5, Phases DEF d
<1>7. FailureOk'
    <2> SUFFICES ASSUME NEW k \in Cells, NEW i \in Places, At(k, i).type = "PREPARATION_FAILURE",
                        NEW o \in Nat, o = At(k, i).old
                 PROVE  /\ \A j \in Places : At(k, j).type = "PREPARATION_FAILURE" => j = i
                        /\ c = Other(k) /\ Lost' /\ Context(k, o).state = "HANDOVER_LEAVING"
        BY <1>2 DEF FailureOk
    <2> QED BY <1>1, <1>5, <1>6 DEF InStep, QueuesOk, FailureOk
<1>8. ContextReleaseOk'
    BY <1>2, <1>6 DEF ContextReleaseOk
<1>9. ASSUME NEW k \in Cells, NEW n \in Nat, Context(k, n).state = "HANDOVER_JOINING"
      PROVE  k = c /\ n = u /\ r = u
    <2>1. k = c /\ n = u
        BY <1>3, <1>5, <1>9, Phases
    <2> QED BY <1>4, <1>5, <1>9, <2>1
<1>10. JoiningOk'
    <2> SUFFICES ASSUME NEW k \in Cells, NEW n \in Nat, Context(k, n).state = "HANDOVER_JOINING",
                        NEW s \in Nat, s = Context(k, n).source
                 PROVE  /\ \A j \in Places : At(Other(k), j).type # "PREPARATION_FAILURE"
                        /\ k = c /\ n = r /\ Context(d, s).state = "HANDOVER_LEAVING"
        BY <1>1, <1>2, Others, ContextTypes DEF JoiningOk, d
    <2>1. k = c /\ n = u /\ r = u
        BY <1>9
    <2>2. /\ \A j \in Places : At(Other(k), j).type # "PREPARATION_FAILURE"
          /\ Context(Other(k), s).state = "HANDOVER_LEAVING"
        BY <1>4, <1>3, <2>1 DEF InStep, QueuesOk, JoiningOk, UeAt
    <2> QED BY <2>1, <2>2 DEF d
<1>11. SwitchOk' /\ TeidOk'
    <2>1. \A q \in Nat : Context(c, q).source # 0 => q = u
        BY <1>3 DEF InStep, QueuesOk, TeidOk
    <2>2. Mine.state = "NONE" => Context(c, u).source = 0
        BY <1>5, <1>3, ContextTypes DEF NoContext
    <2>3. \A k \in Cells : \A q \in Nat : Context(k, q).state # "HANDOVER_PATH_SWITCH"
        BY <1>4, Phases, <1>5, <1>3 DEF Serving
    <2> QED BY <1>2, <1>4, <2>1, <2>2, <2>3 DEF SwitchOk, TeidOk
<1>12. CommandOk'
    BY <1>5, Phases DEF CommandOk
<1>13. QueuesOk'
    BY <1>2, <1>6, <1>7, <1>8, <1>10, <1>11, <1>12 DEF QueuesOk, RequestOk, AckOk, NoCancel
<1>14. LostOk'
    <2>1. ASSUME Lost
          PROVE  \E j \in Places : /\ At(d, j)'.type = "PREPARATION_FAILURE"
                                   /\ Context(d, At(d, j).old)'.state = "HANDOVER_LEAVING"
        <3>1. PICK j \in Places : /\ At(d, j).type = "PREPARATION_FAILURE"
                                  /\ Context(d, At(d, j).old).state = "HANDOVER_LEAVING"
            BY <1>1, <2>1 DEF InStep, RadioOk, LostOk, d
        <3>2. Context(d, At(d, j).old)' = Context(d, At(d, j).old)
            BY <1>1, <1>2
        <3> QED BY <1>1, <1>2, <3>1, <3>2
    <2> QED BY <1>5, <2>1 DEF LostOk, d
<1>15. ResponseOk' /\ PreambleOk' /\ IdealOk'
    BY <1>1, <1>4 DEF InStep, RadioOk, ResponseOk, PreambleOk, IdealOk
<1>16. ReconfigurationOk' /\ CompletedOk'
    BY <1>1, <1>2, <1>4, <1>5
    DEF InStep, RadioOk, ReconfigurationOk, CompletedOk, UeAt
<1>17. KnownOk' /\ OwnedOk'
    BY <1>1, <1>2, <1>4, <1>5 DEF InStep, RadioOk, KnownOk, OwnedOk, UeAt
<1> QED BY <1>13, <1>14, <1>15, <1>16, <1>17 DEF RadioOk

\* The target hears the UE, and takes it for one that connects when it has
\* forgotten it.
LEMMA PreambleKeeps ==
    ASSUME TypeOK, InStep, Live, NEW c \in Cells, ueCell = c, NEW u \in Nat, ue.rnti = u,
           ue.preambleSent, ueCell' = c, ue'.rrc = ue.rrc, ue'.rnti = u, ue'.preambleSent = FALSE,
           \A k \in Cells : SameQueue(k), ideal' = ideal, NEW r \in Nat,
           \A k \in Cells : \A o \in Nat :
              /\ \A q \in Nat : Commanded(k, o, q)' <=> Commanded(k, o, q)
              /\ Sent("RAR", k, o)' => Sent("RAR", k, o) \/ (k = c /\ o = r)
              /\ Sent("RECONFIGURATION", k, o)' => Sent("RECONFIGURATION", k, o)
              /\ Sent("RECONFIGURATION_COMPLETED", k, o)' <=> Sent("RECONFIGURATION_COMPLETED", k, o),
           NEW next, next.state = "INITIAL_RANDOM_ACCESS", next.source = 0,
           \/ SameContexts /\ Context(c, r).source # 0
           \/ /\ \A q \in Nat : Context(c, q).source = 0
              /\ Context(c, r).state = "NONE" /\ r # u
              /\ \A i \in Places : At(c, i).type = "CONTEXT_RELEASE" => At(c, i).old # r
              /\ Becomes(c, r, next)
    PROVE  QueuesOk' /\ RadioOk'
<1> DEFINE d == Other(c)
<1>1. /\ ideal' = ideal /\ Live' /\ Alive' /\ Alive /\ ideal = {}
      /\ d \in Cells /\ d # c /\ Other(d) = c /\ \A k \in Cells : k = c \/ k = d
      /\ ue.rrc = "CONNECTED_HANDOVER"
    BY Others DEF Live, Alive, InStep, RadioOk, PreambleOk
<1> HIDE DEF d
<1>2. /\ \A k \in Cells : \A i \in Places : At(k, i)' = At(k, i) /\ At(k, i).old \in Nat
      /\ \A k \in Cells : \A o \in Nat : ~Sent("RAR", k, o)
    BY <1>1, MessageTypes DEF SameQueue, InStep, RadioOk, ResponseOk
<1>3. /\ Mine = Context(c, u) /\ Mine.state \in {"NONE", "HANDOVER_JOINING"}
    BY <1>1 DEF InStep, RadioOk, KnownOk, Mine
<1>4. /\ Context(c, r).source # 0 => r = u
      /\ (\A q \in Nat : Context(c, q).source = 0) => Mine.state = "NONE"
    BY <1>3 DEF InStep, QueuesOk, TeidOk, ContextsOk, ContextOk
<1>5. /\ Mine' = Mine
      /\ \A k \in Cells : \A o \in Nat :
            \/ Context(k, o)' = Context(k, o)
            \/ /\ k = c /\ o = r /\ Context(k, o).state = "NONE"
               /\ Context(k, o)'.state = "INITIAL_RANDOM_ACCESS" /\ Context(k, o)'.source = 0
               /\ \A i \in Places : At(c, i).type = "CONTEXT_RELEASE" => At(c, i).old # r
      /\ r = u \/ (Mine.state = "NONE" /\ Context(c, r)'.state = "INITIAL_RANDOM_ACCESS")
      /\ Lost' <=> Lost
    BY <1>3, <1>4 DEF SameContexts, Becomes, Mine, Lost
<1>6. ASSUME NEW k \in Cells, NEW i \in Places
      PROVE  /\ At(k, i).type \notin {"HANDOVER_REQUEST", "REQUEST_ACK", "HANDOVER_CANCEL"}
             /\ At(k, i).type = "PREPARATION_FAILURE" =>
                   Lost /\ k = d /\ Context(k, At(k, i).old)'.state = "HANDOVER_LEAVING"
             /\ At(k, i).type = "CONTEXT_RELEASE" => Context(k, At(k, i).old)'.state = "NONE"
    <2>1. PICK o \in Nat : o = At(k, i).old /\ At(k, i)' = At(k, i)
        BY <1>2
    <2>2. /\ At(k, i).type \notin {"HANDOVER_REQUEST", "REQUEST_ACK", "HANDOVER_CANCEL"}
          /\ At(k, i).type = "PREPARATION_FAILURE" =>
                Lost /\ k = d /\ Context(k, o).state = "HANDOVER_LEAVING"
          /\ At(k, i).type = "CONTEXT_RELEASE" => Context(k, o).state = "NONE"
        BY <1>3, <2>1, Phases DEF d
    <2> QED BY <1>5, <2>1, <2>2
<1>7. FailureOk'
    <2>1. \A k \in Cells : \A i, j \in Places : At(k, i).type = "PREPARATION_FAILURE"
             /\ At(k, j).type = "PREPARATION_FAILURE" => i = j
        BY DEF InStep, QueuesOk, FailureOk
    <2> SUFFICES ASSUME NEW k \in Cells, NEW i \in Places, At(k, i)'.type = "PREPARATION_FAILURE"
                 PROVE  /\ \A j \in Places : At(k, j)'.type = "PREPARATION_FAILURE" => j = i
                        /\ c = Other(k) /\ Lost' /\ Context(k, At(k, i).old)'.state = "HANDOVER_LEAVING"
        BY DEF FailureOk
    <2>2. At(k, i)' = At(k, i)
        BY <1>2
    <2>3. Context(k, At(k, i).old)'.state = "HANDOVER_LEAVING"
        BY <1>6, <2>2
    <2> QED BY <1>1, <1>2, <1>5, <1>6, <2>1, <2>2, <2>3
<1>8. ContextReleaseOk'
    <2>1. ASSUME NEW k \in Cells, NEW i \in Places, At(k, i)'.type = "CONTEXT_RELEASE"
          PROVE  Context(k, At(k, i).old)'.state = "NONE"
        <3>1. At(k, i)' = At(k, i)
            BY <1>2
        <3> QED BY <1>6, <2>1, <3>1
    <2> QED BY <2>1 DEF ContextReleaseOk
<1>9. JoiningOk'
    <2> SUFFICES ASSUME NEW k \in Cells, NEW n \in Nat, Context(k, n)'.state = "HANDOVER_JOINING",
                        NEW s \in Nat, s = Context(k, n)'.source
                 PROVE  /\ \A j \in Places : At(Other(k), j)'.type # "PREPARATION_FAILURE"
                        /\ k = c /\ n = u /\ Context(d, s)'.state = "HANDOVER_LEAVING"
        BY <1>1, <1>5, Others, ContextTypes DEF JoiningOk, d
    <2>1. Context(k, n)' = Context(k, n)
        BY <1>5
    <2>2. k = c /\ n = u
        BY <1>3, <2>1, Phases
    <2>3. /\ \A j \in Places : At(d, j).type # "PREPARATION_FAILURE"
          /\ Context(d, s).state = "HANDOVER_LEAVING"
        BY <1>1, <2>1, <2>2 DEF InStep, QueuesOk, JoiningOk, UeAt, d
    <2> QED BY <1>1, <1>2, <1>5, <2>2, <2>3 DEF d
<1>10. SwitchOk' /\ TeidOk'
    <2>1. \A k \in Cells : \A q \in Nat : Context(k, q).state # "HANDOVER_PATH_SWITCH"
        BY <1>3, Phases DEF Serving
    <2> QED BY <1>1, <1>5, <2>1 DEF SwitchOk, InStep, QueuesOk, TeidOk
<1>11. CommandOk'
    BY <1>3, Phases DEF CommandOk
<1>12. QueuesOk'
    BY <1>2, <1>6, <1>7, <1>8, <1>9, <1>10, <1>11 DEF QueuesOk, RequestOk, AckOk, NoCancel
<1>13. LostOk'
    <2>1. ASSUME Lost
          PROVE  \E j \in Places : /\ At(d, j)'.type = "PREPARATION_FAILURE"
                                   /\ Context(d, At(d, j).old)'.state = "HANDOVER_LEAVING"
        <3>1. PICK j \in Places : /\ At(d, j).type = "PREPARATION_FAILURE"
            BY <1>1, <2>1 DEF InStep, RadioOk, LostOk, d
        <3>2. Context(d, At(d, j).old)'.state = "HANDOVER_LEAVING"
            <4>1. At(d, j)' = At(d, j)
                BY <1>1, <1>2
            <4> QED BY <1>1, <1>6, <3>1, <4>1
        <3> QED BY <1>1, <1>2, <3>1, <3>2
    <2> QED BY <1>5, <2>1 DEF LostOk, d
<1>14. ResponseOk' /\ PreambleOk' /\ IdealOk'
    BY <1>1, <1>2, <1>5 DEF InStep, RadioOk, ResponseOk, PreambleOk, IdealOk
<1>15. ReconfigurationOk' /\ CompletedOk'
    BY <1>1, <1>5 DEF InStep, RadioOk, ReconfigurationOk, CompletedOk, UeAt
<1>16. KnownOk' /\ OwnedOk'
    BY <1>1, <1>3, <1>5 DEF InStep, RadioOk, KnownOk, OwnedOk, UeAt, Serving
<1> QED BY <1>12, <1>13, <1>14, <1>15, <1>16 DEF RadioOk

\* The target hears from the UE and asks for the path switch.
LEMMA JoinedKeeps ==
    ASSUME TypeOK, InStep, Live, NEW c \in Cells, ueCell = c, NEW u \in Nat, ue.rnti = u,
           Sent("RECONFIGURATION_COMPLETED", c, u), Context(c, u).state = "HANDOVER_JOINING",
           NEW next, Becomes(c, u, next), next.state = "HANDOVER_PATH_SWITCH",
           next.source = Context(c, u).source,
           UNCHANGED <<ue, ueCell, ideal>>, \A k \in Cells : SameQueue(k),
           \A k \in Cells : \A r \in Nat :
              /\ \A q \in Nat : Commanded(k, r, q)' <=> Commanded(k, r, q)
              /\ Sent("RAR", k, r)' => Sent("RAR", k, r)
              /\ Sent("RECONFIGURATION", k, r)' => Sent("RECONFIGURATION", k, r)
              /\ Sent("RECONFIGURATION_COMPLETED", k, r)' <=>
                    Sent("RECONFIGURATION_COMPLETED", k, r) /\ ~(k = c /\ r = u)
    PROVE  QueuesOk' /\ RadioOk'
<1> DEFINE d == Other(c)
<1>1. /\ ue' = ue /\ ueCell' = c /\ ideal' = ideal /\ Live' /\ Alive' /\ Alive /\ ideal = {}
      /\ d \in Cells /\ d # c /\ Other(d) = c /\ \A k \in Cells : k = c \/ k = d
      /\ \A k \in Cells : \A r \in Nat : UeAt(k, r)' <=> UeAt(k, r)
    BY Others DEF Live, Alive, UeAt
<1> HIDE DEF d
<1>2. /\ \A k \in Cells : \A r \in Nat : Context(k, r)' = IF k = c /\ r = u THEN next ELSE Context(k, r)
      /\ \A k \in Cells : \A i \in Places : At(k, i)' = At(k, i) /\ At(k, i).old \in Nat
      /\ Mine = Context(c, u) /\ Mine' = next
    BY <1>1, MessageTypes DEF Becomes, SameQueue, Mine
<1>3. UeAt(c, u) /\ ue.rrc = "CONNECTED_NORMALLY"
    BY <1>1 DEF InStep, RadioOk, CompletedOk, UeAt
<1>4. ASSUME NEW k \in Cells, NEW i \in Places
      PROVE  /\ At(k, i).type \notin {"HANDOVER_REQUEST", "REQUEST_ACK", "HANDOVER_CANCEL",
                                      "PREPARATION_FAILURE"}
             /\ At(k, i).type = "CONTEXT_RELEASE" => Context(k, At(k, i).old)'.state = "NONE"
    <2>1. PICK o \in Nat : o = At(k, i).old
        BY <1>2
    <2> QED BY <1>2, <2>1, Phases DEF Lost
<1>5. PICK s \in Nat : s = Context(c, u).source
    BY ContextTypes
<1>6. Context(d, s).state = "HANDOVER_LEAVING"
    BY <1>1, <1>3, <1>5 DEF InStep, QueuesOk, JoiningOk, UeAt, d
<1>7. \A k \in Cells : \A n \in Nat : /\ Context(k, n)'.state # "HANDOVER_JOINING"
                                      /\ Context(k, n)'.state = "HANDOVER_PATH_SWITCH" => k = c /\ n = u
    BY <1>2, Phases DEF Serving
<1>8. SwitchOk'
    <2>1. Context(d, s)' = Context(d, s) /\ Context(c, u)'.source = s
        BY <1>1, <1>2, <1>5
    <2> QED BY <1>1, <1>6, <1>7, <2>1 DEF SwitchOk, d
<1>9. ContextReleaseOk'
    <2>1. ASSUME NEW k \in Cells, NEW i \in Places, At(k, i)'.type = "CONTEXT_RELEASE"
          PROVE  Context(k, At(k, i).old)'.state = "NONE"
        <3>1. At(k, i)' = At(k, i)
            BY <1>2
        <3> QED BY <1>4, <2>1, <3>1
    <2> QED BY <2>1 DEF ContextReleaseOk
<1>10. TeidOk' /\ CommandOk'
    BY <1>1, <1>2, Phases DEF InStep, QueuesOk, TeidOk, CommandOk
<1>11. QueuesOk'
    BY <1>2, <1>4, <1>7, <1>8, <1>9, <1>10
    DEF QueuesOk, RequestOk, AckOk, FailureOk, NoCancel, JoiningOk
<1>12. LostOk' /\ PreambleOk' /\ IdealOk'
    BY <1>1, <1>2 DEF InStep, RadioOk, LostOk, Lost, PreambleOk, IdealOk
<1>13. ResponseOk' /\ ReconfigurationOk' /\ CompletedOk'
    BY <1>1, <1>2, <1>3 DEF InStep, RadioOk, ResponseOk, ReconfigurationOk, CompletedOk, UeAt
<1>14. KnownOk' /\ OwnedOk'
    BY <1>1, <1>2, <1>3 DEF InStep, RadioOk, KnownOk, OwnedOk
<1> QED BY <1>11, <1>12, <1>13, <1>14 DEF RadioOk

\* A request for a handover under way is for the UE that is served.
LEMMA AskedLive ==
    ASSUME InStep, Live, NEW k \in Cells, NEW r \in Nat, Asks(k, r)
    PROVE  k = ueCell /\ r = ue.rnti
<1>1. PICK i \in Places :
         \/ At(k, i).type = "REQUEST_ACK" /\ At(k, i).old = r
         \/ At(Other(k), i).type = "HANDOVER_REQUEST" /\ At(Other(k), i).old = r
    BY DEF Asks
<1>2. CASE At(k, i).type = "REQUEST_ACK" /\ At(k, i).old = r
    BY <1>2 DEF InStep, QueuesOk, AckOk, UeAt
<1>3. CASE At(Other(k), i).type = "HANDOVER_REQUEST" /\ At(Other(k), i).old = r
    BY <1>3, Others DEF InStep, QueuesOk, RequestOk, UeAt
<1> QED BY <1>1, <1>2, <1>3

\* The source gives the UE up.
LEMMA GivesUp ==
    ASSUME TypeOK, InStep, ideal = {}, ideal' = {Release}, UNCHANGED <<ue, ueCell, air>>,
           NEW c \in Cells, NEW o \in Nat, Context(c, o).state = "HANDOVER_LEAVING",
           Becomes(c, o, NoContext), \A k \in Cells : \A r \in Nat : Asks(k, r)' => Asks(k, r)
    PROVE  QueuesOk' /\ RadioOk' /\ AskedOk'
<1>1. /\ ue' = ue /\ ueCell' = ueCell /\ Release \in ideal' /\ ~Live'
      /\ \A k \in Cells : \A r \in Nat : /\ UeAt(k, r)' <=> UeAt(k, r)
                                         /\ Removal(k, r) \notin ideal
      /\ Alive' <=> Alive
    BY DEF Live, Alive, UeAt
<1>2. /\ \A k \in Cells : \A r \in Nat :
            Context(k, r)' = IF k = c /\ r = o THEN NoContext ELSE Context(k, r)
      /\ NoContext.state = "NONE"
    BY DEF Becomes, NoContext
<1>3. Mine' = Mine \/ (Mine.state = "HANDOVER_LEAVING" /\ Mine' = NoContext)
    BY <1>1, <1>2 DEF Mine, TypeOK, UeStates
<1>4. QueuesOk'
    BY <1>1 DEF QueuesOk, RequestOk, AckOk, FailureOk, ContextReleaseOk, NoCancel, CommandOk,
                JoiningOk, SwitchOk, TeidOk
<1>5. LostOk' /\ PreambleOk' /\ IdealOk'
    BY <1>1 DEF LostOk, InStep, RadioOk, PreambleOk, IdealOk
<1>6. ResponseOk'
    BY <1>1, <1>2, <1>3 DEF InStep, RadioOk, ResponseOk, Sent
<1>7. ReconfigurationOk' /\ CompletedOk'
    BY <1>1, <1>2, <1>3 DEF InStep, RadioOk, ReconfigurationOk, CompletedOk, Sent
<1>8. KnownOk' /\ OwnedOk'
    BY <1>1, <1>2, <1>3 DEF InStep, RadioOk, KnownOk, OwnedOk, Serving, Sent, Commanded
<1>9. AskedOk'
    <2> SUFFICES ASSUME NEW k \in Cells, NEW r \in Nat, Asks(k, r), Context(k, r)'.state # "NONE"
                 PROVE  Alive' /\ k = ueCell' /\ r = ue'.rnti
        BY DEF AskedOk
    <2>1. Context(k, r).state # "NONE"
        BY <1>2
    <2>2. CASE Live
        BY <1>1, <2>2, AskedLive DEF Live
    <2>3. CASE ~Live
        BY <1>1, <2>1, <2>3 DEF InStep, AskedOk
    <2> QED BY <2>2, <2>3
<1> QED BY <1>4, <1>5, <1>6, <1>7, <1>8, <1>9 DEF RadioOk

\* The UE leaves connected mode and asks for the removal of its context.
LEMMA Leaves ==
    ASSUME TypeOK, InStep, Alive, ue'.rrc = "IDLE_CELL_SEARCH",
           NEW c \in Cells, ueCell = c, NEW u \in Nat, ue.rnti = u, ideal' = {Removal(c, u)},
           SameContexts, air' = air, \A k \in Cells : \A r \in Nat : Asks(k, r)' => Asks(k, r)
    PROVE  QueuesOk' /\ RadioOk' /\ AskedOk'
<1>1. /\ ~Alive' /\ ~Live' /\ Removal(c, u) \in ideal'
      /\ \A k \in Cells : \A r \in Nat : /\ UeAt(k, r) => k = c /\ r = u
                                         /\ Removal(k, r) # Release
    BY DEF Alive, Live, UeAt, Removal, Release, Cells
<1>2. \A k \in Cells : \A r \in Nat : Removal(k, r) \notin ideal
    BY <1>1 DEF InStep, RadioOk, IdealOk
<1>3. CompletedOk'
    BY <1>1 DEF InStep, RadioOk, CompletedOk, Sent
<1>4. OwnedOk'
    BY <1>1, <1>2 DEF InStep, RadioOk, OwnedOk, SameContexts
<1>5. KnownOk'
    BY DEF KnownOk
<1>6. AskedOk'
    <2> SUFFICES ASSUME NEW k \in Cells, NEW r \in Nat, Asks(k, r), Context(k, r).state # "NONE"
                 PROVE  k = c /\ r = u
        BY <1>1 DEF AskedOk, SameContexts
    <2>1. CASE Live
        BY <2>1, AskedLive
    <2>2. CASE ~Live
        BY <1>2, <2>2 DEF InStep, AskedOk
    <2> QED BY <2>1, <2>2
<1> QED BY <1>1, <1>3, <1>4, <1>5, <1>6
    DEF QueuesOk, RequestOk, AckOk, FailureOk, ContextReleaseOk, NoCancel, CommandOk, JoiningOk,
        SwitchOk, TeidOk, RadioOk, LostOk, ResponseOk, PreambleOk, ReconfigurationOk, IdealOk

\* Without a UE that is connected, no context comes to serve one.
LEMMA DeadKeeps ==
    ASSUME TypeOK, InStep, ~Alive, ~Alive', IdealOk',
           \A k \in Cells : \A r \in Nat :
              /\ Context(k, r)'.state \in Serving =>
                    Context(k, r).state \in Serving /\ (Removal(k, r) \in ideal => Removal(k, r) \in ideal')
              /\ Sent("RECONFIGURATION_COMPLETED", k, r)' /\ Context(k, r)'.state # "NONE" =>
                    /\ Sent("RECONFIGURATION_COMPLETED", k, r)
                    /\ Context(k, r).state # "NONE"
                    /\ Removal(k, r) \in ideal => Removal(k, r) \in ideal'
              /\ Asks(k, r)' /\ Context(k, r)'.state # "NONE" =>
                    /\ Asks(k, r) /\ Context(k, r).state # "NONE"
                    /\ Removal(k, r) \in ideal => Removal(k, r) \in ideal'
    PROVE  QueuesOk' /\ RadioOk' /\ AskedOk'
<1>1. /\ ~Live' /\ ue'.rrc \notin {"CONNECTED_NORMALLY", "CONNECTED_HANDOVER"}
      /\ \A k \in Cells : \A r \in Nat : ~UeAt(k, r)
    BY DEF Live, Alive, UeAt
<1>2. CompletedOk'
    BY <1>1 DEF InStep, RadioOk, CompletedOk
<1>3. OwnedOk'
    BY <1>1 DEF InStep, RadioOk, OwnedOk
<1>4. KnownOk'
    BY <1>1 DEF KnownOk
<1>5. AskedOk'
    <2> SUFFICES ASSUME NEW k \in Cells, NEW r \in Nat, Asks(k, r), Context(k, r).state # "NONE",
                        Removal(k, r) \in ideal => Removal(k, r) \in ideal'
                 PROVE  Removal(k, r) \in ideal'
        BY DEF AskedOk
    <2> QED BY DEF InStep, AskedOk, Live
<1> QED BY <1>1, <1>2, <1>3, <1>4, <1>5
    DEF QueuesOk, RequestOk, AckOk, FailureOk, ContextReleaseOk, NoCancel, CommandOk, JoiningOk,
        SwitchOk, TeidOk, RadioOk, LostOk, ResponseOk, PreambleOk, ReconfigurationOk

-----------------------------------------------------------------------------
(* What a step leaves typed, and which RNTIs it may name.                  *)

Stored == /\ DOMAIN contexts = Cells
          /\ \A k \in Cells : /\ DOMAIN contexts[k] \subseteq 1 .. lastAllocatedRnti[k]
                              /\ \A r \in DOMAIN contexts[k] : contexts[k][r] \in Contexts

Grows == /\ lastAllocatedRnti' \in [Cells -> Nat]
         /\ \A k \in Cells : lastAllocatedRnti[k] <= lastAllocatedRnti'[k]

\* What is UNCHANGED, said with contexts, places and messages on air.
LEMMA Unchanging ==
    ASSUME TypeOK
    PROVE  /\ UNCHANGED lastAllocatedRnti => Grows
           /\ UNCHANGED <<contexts, lastAllocatedRnti>> => Stored'
           /\ UNCHANGED contexts => SameContexts
           /\ UNCHANGED x2 => \A k \in Cells : SameQueue(k)
           /\ UNCHANGED air => \A k \in Cells : \A r \in Nat :
                 /\ \A n \in Nat : Commanded(k, r, n)' <=> Commanded(k, r, n)
                 /\ \A type \in AirTypes : Sent(type, k, r)' <=> Sent(type, k, r)
<1>1. UNCHANGED lastAllocatedRnti => Grows
    BY DEF TypeOK, Grows
<1>2. UNCHANGED <<contexts, lastAllocatedRnti>> => Stored'
    BY DEF TypeOK, Stored
<1>3. UNCHANGED contexts => SameContexts
    BY DEF SameContexts, Context, Has
<1>4. UNCHANGED x2 => \A k \in Cells : SameQueue(k)
    BY DEF SameQueue, At
<1>5. UNCHANGED air => \A k \in Cells : \A r \in Nat :
         /\ \A n \in Nat : Commanded(k, r, n)' <=> Commanded(k, r, n)
         /\ \A type \in AirTypes : Sent(type, k, r)' <=> Sent(type, k, r)
    BY DEF Commanded, Sent
<1> QED BY <1>1, <1>2, <1>3, <1>4, <1>5

\* One context changes.
LEMMA ContextRefs ==
    ASSUME TypeOK, RefsOk, Grows,
           \/ SameContexts
           \/ \E c \in Cells : \E q \in Nat : \E next :
                 /\ Becomes(c, q, next) /\ next.source \in Nat /\ next.target \in Nat
                 /\ next.source <= lastAllocatedRnti[Other(c)]
                 /\ next.target <= lastAllocatedRnti[Other(c)]
    PROVE  ContextRefsOk'
<1> SUFFICES ASSUME NEW k \in Cells, NEW r \in Nat
             PROVE  /\ Context(k, r)'.source <= lastAllocatedRnti'[Other(k)]
                    /\ Context(k, r)'.target <= lastAllocatedRnti'[Other(k)]
    BY DEF ContextRefsOk
<1>1. /\ Context(k, r).source \in Nat /\ Context(k, r).target \in Nat
      /\ Context(k, r).source <= lastAllocatedRnti[Other(k)]
      /\ Context(k, r).target <= lastAllocatedRnti[Other(k)]
    BY ContextTypes DEF RefsOk, ContextRefsOk
<1>2. PICK a, b \in Nat : /\ a = lastAllocatedRnti[Other(k)] /\ b = lastAllocatedRnti'[Other(k)]
                          /\ a <= b
    BY Others DEF TypeOK, Grows
<1>3. /\ Context(k, r)'.source \in Nat /\ Context(k, r)'.target \in Nat
      /\ Context(k, r)'.source <= a /\ Context(k, r)'.target <= a
    BY <1>1, <1>2 DEF SameContexts, Becomes
<1> QED BY <1>2, <1>3

\* Messages come that name RNTIs given out.
LEMMA MessageRefs ==
    ASSUME TypeOK, RefsOk, Grows,
           \A k \in Cells : \A i \in Places :
              \/ \E j \in Places : At(k, i)' = At(k, j)
              \/ \E m \in X2Messages : At(k, i)' = m /\ MessageOk(k, m)'
    PROVE  MessageRefsOk'
<1> SUFFICES ASSUME NEW k \in Cells, NEW i \in Places, NEW j \in Places, At(k, i)' = At(k, j)
             PROVE  MessageOk(k, At(k, i))'
    BY DEF MessageRefsOk, MessageOk
<1>1. PICK m : m = At(k, j) /\ m.old \in Nat /\ m.new \in Nat
    BY MessageTypes
<1>2. MessageOk(k, m)
    BY <1>1 DEF RefsOk, MessageRefsOk
<1>3. MessageOk(k, m)'
    <2>1. \A l \in Cells : /\ lastAllocatedRnti[l] \in Nat /\ lastAllocatedRnti'[l] \in Nat
                           /\ lastAllocatedRnti[l] <= lastAllocatedRnti'[l]
        BY DEF TypeOK, Grows
    <2>2. Other(k) \in Cells
        BY Others
    <2> QED BY <1>1, <1>2, <2>1, <2>2 DEF MessageOk
<1> QED BY <1>1, <1>3 DEF MessageOk

\* No message on air names an RNTI not given out, if the new ones do not.
LEMMA AirRefs ==
    ASSUME TypeOK, RefsOk, Grows,
           \A k \in Cells : \A r \in Nat :
              /\ \A n \in Nat : Commanded(k, r, n)' =>
                    Commanded(k, r, n) \/ (/\ r \in 1 .. lastAllocatedRnti[k]
                                           /\ n <= lastAllocatedRnti[Other(k)])
              /\ \A type \in AirTypes \ {"COMMAND"} :
                    Sent(type, k, r)' => Sent(type, k, r) \/ r \in 1 .. lastAllocatedRnti'[k]
    PROVE  AirRefsOk'
<1>1. ASSUME NEW k \in Cells, NEW r \in Nat, NEW n \in Nat, Commanded(k, r, n)'
      PROVE  r \in 1 .. lastAllocatedRnti'[k] /\ n <= lastAllocatedRnti'[Other(k)]
    <2>1. r \in 1 .. lastAllocatedRnti[k] /\ n <= lastAllocatedRnti[Other(k)]
        BY <1>1 DEF RefsOk, AirRefsOk
    <2> QED BY <2>1, Others DEF TypeOK, Grows
<1>2. ASSUME NEW k \in Cells, NEW r \in Nat, NEW type \in AirTypes \ {"COMMAND"},
             Sent(type, k, r)'
      PROVE  r \in 1 .. lastAllocatedRnti'[k]
    <2>1. r \in 1 .. lastAllocatedRnti[k] \/ r \in 1 .. lastAllocatedRnti'[k]
        BY <1>2 DEF RefsOk, AirRefsOk
    <2>2. /\ lastAllocatedRnti[k] \in Nat /\ lastAllocatedRnti'[k] \in Nat
          /\ lastAllocatedRnti[k] <= lastAllocatedRnti'[k]
        BY DEF TypeOK, Grows
    <2> QED BY <2>1, <2>2
<1> QED BY <1>1, <1>2 DEF AirRefsOk

\* No X2 message names an RNTI not given out, if the new one does not.
LEMMA PutRefs ==
    ASSUME TypeOK, RefsOk, Grows, NEW c \in Cells, NEW m \in X2Messages, MessageOk(c, m)',
           Put(c, m), SameQueue(Other(c)) \/ Taken(Other(c))
    PROVE  MessageRefsOk'
<1> SUFFICES ASSUME NEW k \in Cells, NEW i \in Places
             PROVE  \/ \E j \in Places : At(k, i)' = At(k, j)
                    \/ \E n \in X2Messages : At(k, i)' = n /\ MessageOk(k, n)'
    BY MessageRefs
<1>1. CASE k = c
    BY <1>1 DEF Put
<1>2. CASE k = Other(c)
    <2>1. i + 1 \in Places
        BY DEF Places
    <2> QED BY <1>2, <2>1 DEF SameQueue, Taken
<1> QED BY <1>1, <1>2, Others

\* Taking a message names no RNTI.
LEMMA KeepRefs ==
    ASSUME TypeOK, RefsOk, Grows, \A k \in Cells : SameQueue(k) \/ Taken(k)
    PROVE  MessageRefsOk'
<1> SUFFICES ASSUME NEW k \in Cells, NEW i \in Places
             PROVE  \E j \in Places : At(k, i)' = At(k, j)
    BY MessageRefs
<1>1. i + 1 \in Places
    BY DEF Places
<1> QED BY <1>1 DEF SameQueue, Taken

\* Contexts stay typed when one is stored, removed or added.
LEMMA StoredTo ==
    ASSUME TypeOK, NEW cell \in Cells, NEW rnti, Has(cell, rnti), NEW next \in Contexts,
           ContextTo(cell, rnti, next), UNCHANGED lastAllocatedRnti
    PROVE  Stored'
<1>1. /\ DOMAIN contexts' = Cells
      /\ \A k \in Cells : DOMAIN (contexts'[k]) = DOMAIN contexts[k]
      /\ \A k \in Cells : \A r \in DOMAIN contexts[k] :
            contexts'[k][r] = IF k = cell /\ r = rnti THEN next ELSE contexts[k][r]
    BY ContextGoesTo
<1> SUFFICES ASSUME NEW k \in Cells, NEW r \in DOMAIN contexts[k]
             PROVE  r \in 1 .. lastAllocatedRnti[k] /\ contexts'[k][r] \in Contexts
    BY <1>1 DEF Stored
<1> QED BY <1>1 DEF TypeOK

LEMMA StoredGone ==
    ASSUME TypeOK, NEW cell \in Cells, NEW rnti, RemoveUe(cell, rnti), UNCHANGED lastAllocatedRnti
    PROVE  Stored'
<1>1. /\ DOMAIN contexts' = Cells
      /\ \A k \in Cells : \A r \in DOMAIN (contexts'[k]) :
            r \in DOMAIN contexts[k] /\ contexts'[k][r] = contexts[k][r]
    BY ContextGoes
<1> SUFFICES ASSUME NEW k \in Cells, NEW r \in DOMAIN (contexts'[k])
             PROVE  r \in 1 .. lastAllocatedRnti[k] /\ contexts'[k][r] \in Contexts
    BY <1>1 DEF Stored
<1> QED BY <1>1 DEF TypeOK

LEMMA StoredNew ==
    ASSUME TypeOK, NEW cell \in Cells, NEW context \in Contexts, AddUe(cell, context)
    PROVE  Stored' /\ Grows
<1> DEFINE new == lastAllocatedRnti[cell] + 1
<1>1. /\ DOMAIN contexts' = Cells
      /\ \A k \in Cells : DOMAIN (contexts'[k]) =
            IF k = cell THEN DOMAIN contexts[k] \cup {new} ELSE DOMAIN contexts[k]
      /\ \A k \in Cells : \A r \in DOMAIN (contexts'[k]) :
            contexts'[k][r] = IF k = cell /\ r = new THEN context ELSE contexts[k][r]
      /\ lastAllocatedRnti' = [lastAllocatedRnti EXCEPT ![cell] = new]
    BY ContextComes
<1>2. /\ new \in Nat /\ new # 0 /\ lastAllocatedRnti \in [Cells -> Nat]
      /\ lastAllocatedRnti[cell] \in Nat /\ lastAllocatedRnti[cell] <= new
    BY DEF TypeOK
<1>3. /\ lastAllocatedRnti' \in [Cells -> Nat] /\ lastAllocatedRnti'[cell] = new
      /\ \A k \in Cells : k # cell => lastAllocatedRnti'[k] = lastAllocatedRnti[k]
    BY <1>1, <1>2
<1>4. Grows
    BY <1>2, <1>3 DEF Grows
<1>5. \A k \in Cells : DOMAIN (contexts'[k]) \subseteq 1 .. lastAllocatedRnti'[k]
    <2> SUFFICES ASSUME NEW k \in Cells, NEW r \in DOMAIN (contexts'[k])
                 PROVE  r \in 1 .. lastAllocatedRnti'[k]
        OBVIOUS
    <2>1. CASE r \in DOMAIN contexts[k]
        BY <1>4, <2>1 DEF TypeOK, Grows
    <2>2. CASE r \notin DOMAIN contexts[k]
        <3>1. k = cell /\ r = new
            BY <1>1, <2>2
        <3> HIDE DEF new
        <3> QED BY <1>2, <1>3, <3>1
    <2> QED BY <2>1, <2>2
<1>6. \A k \in Cells : \A r \in DOMAIN (contexts'[k]) : contexts'[k][r] \in Contexts
    <2> SUFFICES ASSUME NEW k \in Cells, NEW r \in DOMAIN (contexts'[k])
                 PROVE  contexts'[k][r] \in Contexts
        OBVIOUS
    <2> HIDE DEF new
    <2>1. (k = cell /\ r = new) \/ r \in DOMAIN contexts[k]
        BY <1>1
    <2>2. r \in DOMAIN contexts[k] => contexts[k][r] \in Contexts
        BY DEF TypeOK
    <2> QED BY <1>1, <2>1, <2>2
<1> QED BY <1>1, <1>4, <1>5, <1>6 DEF Stored

\* Nobody is aborted where nothing is.
LEMMA NotAbortedNext ==
    ASSUME TypeOK', ~Aborted'
    PROVE  ue'.rrc # "ABORTED" /\ \A k \in Cells : \A r \in Nat : Context(k, r)'.state # "ABORTED"
<1>1. ue'.rrc # "ABORTED"
    BY DEF Aborted
<1>2. ASSUME NEW k \in Cells, NEW r \in Nat
      PROVE  Context(k, r)'.state # "ABORTED"
    BY DEF Aborted, Context, Has, NoContext
<1> QED BY <1>1, <1>2

\* Messages come to the radio and go.
LEMMA AirAdds ==
    ASSUME TypeOK, NEW t \in AirTypes \ {"COMMAND"}, NEW c \in Cells, NEW o \in Nat,
           air' = air \cup {Message(t, c, o)}
    PROVE  /\ air' \subseteq AirMessages
           /\ \A k \in Cells : \A r \in Nat :
                 /\ \A n \in Nat : Commanded(k, r, n)' <=> Commanded(k, r, n)
                 /\ \A type \in AirTypes \ {"COMMAND"} : Sent(type, k, r)' <=>
                       Sent(type, k, r) \/ (type = t /\ k = c /\ r = o)
<1>1. air' \subseteq AirMessages
    BY AirFacts DEF TypeOK
<1>2. \A k \in Cells : \A r, n \in Nat : Commanded(k, r, n)' <=> Commanded(k, r, n)
    BY AirFacts DEF Commanded
<1>3. \A k \in Cells : \A r \in Nat : \A type \in AirTypes \ {"COMMAND"} : Sent(type, k, r)' <=>
         Sent(type, k, r) \/ (type = t /\ k = c /\ r = o)
    BY AirFacts DEF Sent
<1> QED BY <1>1, <1>2, <1>3

\* A message leaves the air; is replaced by another; a command is sent.
LEMMA AirDrops ==
    ASSUME TypeOK, NEW m \in air, air' = air \ {m}
    PROVE  /\ air' \subseteq AirMessages /\ m.type \in AirTypes /\ m.cell \in Cells
           /\ m.rnti \in Nat /\ m.new \in Nat
           /\ IF m.type = "COMMAND" THEN Commanded(m.cell, m.rnti, m.new)
              ELSE Sent(m.type, m.cell, m.rnti)
           /\ \A k \in Cells : \A r \in Nat :
                 /\ \A n \in Nat : Commanded(k, r, n)' <=>
                       /\ Commanded(k, r, n)
                       /\ ~(m.type = "COMMAND" /\ k = m.cell /\ r = m.rnti /\ n = m.new)
                 /\ \A type \in AirTypes \ {"COMMAND"} : Sent(type, k, r)' <=>
                       Sent(type, k, r) /\ ~(type = m.type /\ k = m.cell /\ r = m.rnti)
<1>1. air' \subseteq AirMessages /\ m \in AirMessages
    BY DEF TypeOK
<1>2. /\ m.cell \in Cells /\ m.rnti \in Nat /\ m.new \in Nat /\ m.type \in AirTypes
      /\ IF m.type = "COMMAND" THEN m = Command(m.cell, m.rnti, m.new)
         ELSE m = Message(m.type, m.cell, m.rnti)
    BY <1>1, AirFacts DEF AirTypes
<1>3. IF m.type = "COMMAND" THEN Commanded(m.cell, m.rnti, m.new)
      ELSE Sent(m.type, m.cell, m.rnti)
    BY <1>2 DEF Commanded, Sent
<1>4. \A k \in Cells : \A r, n \in Nat : Commanded(k, r, n)' <=>
         /\ Commanded(k, r, n)
         /\ ~(m.type = "COMMAND" /\ k = m.cell /\ r = m.rnti /\ n = m.new)
    BY <1>2, AirFacts DEF Commanded
<1>5. \A k \in Cells : \A r \in Nat : \A type \in AirTypes \ {"COMMAND"} : Sent(type, k, r)' <=>
         Sent(type, k, r) /\ ~(type = m.type /\ k = m.cell /\ r = m.rnti)
    BY <1>2, AirFacts DEF Sent
<1> QED BY <1>1, <1>2, <1>3, <1>4, <1>5

LEMMA AirMoves ==
    ASSUME TypeOK, NEW m \in air, NEW t \in AirTypes \ {"COMMAND"}, NEW c \in Cells, NEW o \in Nat,
           air' = (air \ {m}) \cup {Message(t, c, o)}
    PROVE  /\ air' \subseteq AirMessages /\ m.type \in AirTypes /\ m.cell \in Cells
           /\ m.rnti \in Nat /\ m.new \in Nat
           /\ m.type # "COMMAND" => Sent(m.type, m.cell, m.rnti)
           /\ \A k \in Cells : \A r \in Nat :
                 /\ \A n \in Nat : Commanded(k, r, n)' <=>
                       /\ Commanded(k, r, n)
                       /\ ~(m.type = "COMMAND" /\ k = m.cell /\ r = m.rnti /\ n = m.new)
                 /\ \A type \in AirTypes \ {"COMMAND"} : Sent(type, k, r)' <=>
                       \/ Sent(type, k, r) /\ ~(type = m.type /\ k = m.cell /\ r = m.rnti)
                       \/ type = t /\ k = c /\ r = o
<1>1. air' \subseteq AirMessages /\ m \in AirMessages
    BY AirFacts DEF TypeOK
<1>2. /\ m.cell \in Cells /\ m.rnti \in Nat /\ m.new \in Nat /\ m.type \in AirTypes
      /\ IF m.type = "COMMAND" THEN m = Command(m.cell, m.rnti, m.new)
         ELSE m = Message(m.type, m.cell, m.rnti)
    BY <1>1, AirFacts DEF AirTypes
<1>3. m.type # "COMMAND" => Sent(m.type, m.cell, m.rnti)
    BY <1>2 DEF Sent
<1>4. \A k \in Cells : \A r, n \in Nat : Commanded(k, r, n)' <=>
         /\ Commanded(k, r, n)
         /\ ~(m.type = "COMMAND" /\ k = m.cell /\ r = m.rnti /\ n = m.new)
    <2> SUFFICES ASSUME NEW k \in Cells, NEW r \in Nat, NEW n \in Nat
                 PROVE  Commanded(k, r, n)' <=>
                           /\ Commanded(k, r, n)
                           /\ ~(m.type = "COMMAND" /\ k = m.cell /\ r = m.rnti /\ n = m.new)
        OBVIOUS
    <2>1. Command(k, r, n) # Message(t, c, o)
        BY AirFacts
    <2>2. Command(k, r, n) = m <=> m.type = "COMMAND" /\ k = m.cell /\ r = m.rnti /\ n = m.new
        <3>1. CASE m.type = "COMMAND"
            <4>1. m = Command(m.cell, m.rnti, m.new)
                BY <1>2, <3>1
            <4> QED BY <1>2, <3>1, <4>1, AirFacts
        <3>2. CASE m.type # "COMMAND"
            <4>1. m = Message(m.type, m.cell, m.rnti) /\ m.type \in AirTypes \ {"COMMAND"}
                BY <1>2, <3>2
            <4> QED BY <1>2, <3>2, <4>1, AirFacts
        <3> QED BY <3>1, <3>2
    <2> QED BY <2>1, <2>2 DEF Commanded
<1>5. \A k \in Cells : \A r \in Nat : \A type \in AirTypes \ {"COMMAND"} : Sent(type, k, r)' <=>
         \/ Sent(type, k, r) /\ ~(type = m.type /\ k = m.cell /\ r = m.rnti)
         \/ type = t /\ k = c /\ r = o
    BY <1>2, AirFacts DEF Sent
<1> QED BY <1>1, <1>2, <1>3, <1>4, <1>5

LEMMA AirCommands ==
    ASSUME TypeOK, NEW c \in Cells, NEW o \in Nat, NEW n \in Nat,
           air' = air \cup {Command(c, o, n)}
    PROVE  /\ air' \subseteq AirMessages
           /\ \A k \in Cells : \A r \in Nat :
                 /\ \A q \in Nat : Commanded(k, r, q)' <=>
                       Commanded(k, r, q) \/ (k = c /\ r = o /\ q = n)
                 /\ \A type \in AirTypes \ {"COMMAND"} : Sent(type, k, r)' <=> Sent(type, k, r)
<1>1. air' \subseteq AirMessages
    BY AirFacts DEF TypeOK
<1>2. \A k \in Cells : \A r, q \in Nat : Commanded(k, r, q)' <=>
         Commanded(k, r, q) \/ (k = c /\ r = o /\ q = n)
    BY AirFacts DEF Commanded
<1>3. \A k \in Cells : \A r \in Nat : \A type \in AirTypes \ {"COMMAND"} :
         Sent(type, k, r)' <=> Sent(type, k, r)
    <2>1. \A k \in Cells : \A r \in Nat : \A type \in AirTypes \ {"COMMAND"} :
             Message(type, k, r) # Command(c, o, n)
        BY AirFacts
    <2> QED BY <2>1 DEF Sent
<1> QED BY <1>1, <1>2, <1>3

\* The reconfiguration a context sends, if any, is added to what is on air.
LEMMA AnswerAdds ==
    ASSUME TypeOK, NEW c \in Cells, NEW o \in Nat, NEW d, d.state \in ContextStates,
           air' = air \cup AnswerOf(c, o, d)
    PROVE  /\ air' \subseteq AirMessages
           /\ \A k \in Cells : \A r \in Nat :
                 /\ \A n \in Nat : Commanded(k, r, n)' <=> Commanded(k, r, n)
                 /\ \A type \in AirTypes \ {"COMMAND"} : Sent(type, k, r)' <=>
                       \/ Sent(type, k, r)
                       \/ /\ d.state = "CONNECTION_RECONFIGURATION"
                          /\ type = "RECONFIGURATION" /\ k = c /\ r = o
<1>1. CASE d.state = "CONNECTION_RECONFIGURATION"
    <2>1. air' = air \cup {Message("RECONFIGURATION", c, o)}
        BY <1>1, Answers
    <2>2. "RECONFIGURATION" \in AirTypes \ {"COMMAND"}
        BY DEF AirTypes
    <2> QED BY <1>1, <2>1, <2>2, AirAdds
<1>2. CASE d.state # "CONNECTION_RECONFIGURATION"
    <2>1. air' = air
        BY <1>2, Answers
    <2> QED BY <1>2, <2>1, Unchanging DEF TypeOK
<1> QED BY <1>1, <1>2

\* The same, in place of the completion it answers.
LEMMA AnswerMoves ==
    ASSUME TypeOK, NEW m \in air, m.type = "RECONFIGURATION_COMPLETED",
           NEW c \in Cells, NEW o \in Nat, NEW d, d.state \in ContextStates,
           air' = (air \ {m}) \cup AnswerOf(c, o, d)
    PROVE  /\ air' \subseteq AirMessages
           /\ \A k \in Cells : \A r \in Nat :
                 /\ \A n \in Nat : Commanded(k, r, n)' <=> Commanded(k, r, n)
                 /\ Sent("RAR", k, r)' <=> Sent("RAR", k, r)
                 /\ Sent("RECONFIGURATION", k, r)' <=>
                       \/ Sent("RECONFIGURATION", k, r)
                       \/ d.state = "CONNECTION_RECONFIGURATION" /\ k = c /\ r = o
                 /\ Sent("RECONFIGURATION_COMPLETED", k, r)' <=>
                       Sent("RECONFIGURATION_COMPLETED", k, r) /\ ~(k = m.cell /\ r = m.rnti)
<1>1. {"RAR", "RECONFIGURATION", "RECONFIGURATION_COMPLETED"} \subseteq AirTypes \ {"COMMAND"}
    BY DEF AirTypes
<1>2. CASE d.state = "CONNECTION_RECONFIGURATION"
    <2>1. air' = (air \ {m}) \cup {Message("RECONFIGURATION", c, o)}
        BY <1>2, Answers
    <2> QED BY <1>1, <1>2, <2>1, AirMoves
<1>3. CASE d.state # "CONNECTION_RECONFIGURATION"
    <2>1. air' = air \ {m}
        BY <1>3, Answers
    <2> QED BY <1>1, <1>3, <2>1, AirDrops
<1> QED BY <1>2, <1>3

\* Contexts change, and name RNTIs given out.
LEMMA OneGoes ==
    ASSUME TypeOK, RefsOk, NEW c \in Cells, NEW r, Has(c, r), NEW next, NEW states,
           NEW target \in Nat, target <= lastAllocatedRnti[Other(c)],
           Goes(Context(c, r), next, states, target), ContextTo(c, r, next),
           UNCHANGED lastAllocatedRnti
    PROVE  Becomes(c, r, next) /\ Stored' /\ Grows /\ ContextRefsOk'
<1>1. next \in Contexts /\ next.source = Context(c, r).source /\ next.target = target
    BY DEF Goes
<1>2. r \in Nat
    BY DEF TypeOK, Has
<1>3. Becomes(c, r, next) /\ Stored' /\ Grows
    BY <1>1, ContextGoesTo, StoredTo, Unchanging
<1>4. /\ next.source \in Nat /\ next.source <= lastAllocatedRnti[Other(c)]
    BY <1>1, <1>2 DEF RefsOk, ContextRefsOk, Contexts
<1>5. ContextRefsOk'
    BY <1>1, <1>2, <1>3, <1>4, ContextRefs
<1> QED BY <1>3, <1>5

\* A removal names no RNTI, nor does a step that leaves contexts alone.
LEMMA OneLeaves ==
    ASSUME TypeOK, RefsOk, NEW c \in Cells, NEW r \in Nat, RemoveUe(c, r),
           UNCHANGED lastAllocatedRnti
    PROVE  Becomes(c, r, NoContext) /\ Stored' /\ Grows /\ ContextRefsOk'
<1>1. Becomes(c, r, NoContext) /\ Stored' /\ Grows
    BY ContextGoes, StoredGone, Unchanging
<1>2. /\ NoContext.source \in Nat /\ NoContext.target \in Nat
      /\ NoContext.source <= lastAllocatedRnti[Other(c)]
      /\ NoContext.target <= lastAllocatedRnti[Other(c)]
    BY Others DEF NoContext, TypeOK
<1>3. ContextRefsOk'
    BY <1>1, <1>2, ContextRefs
<1> QED BY <1>1, <1>3

LEMMA NoneGoes ==
    ASSUME TypeOK, RefsOk, UNCHANGED <<contexts, lastAllocatedRnti>>
    PROVE  SameContexts /\ Stored' /\ Grows /\ ContextRefsOk'
BY Unchanging, ContextRefs


-----------------------------------------------------------------------------
(***************************************************************************)
(* The actions, one at a time: what they do, and that they keep the        *)
(* invariant.                                                              *)
(***************************************************************************)

\* A live UE is asked about in its own cell only.
LEMMA Calm ==
    ASSUME Alive', ideal' = {}
    PROVE  AskedOk'
BY DEF AskedOk, Live

\* Nothing is asked anew.
LEMMA AsksKept ==
    ASSUME \A k \in Cells : \/ SameQueue(k) \/ Taken(k)
                            \/ \E m : Put(k, m) /\ m.type \notin {"HANDOVER_REQUEST", "REQUEST_ACK"}
    PROVE  \A k \in Cells : \A r \in Nat : Asks(k, r)' => Asks(k, r)
<1>1. ASSUME NEW k \in Cells, NEW i \in Places,
             At(k, i)'.type \in {"HANDOVER_REQUEST", "REQUEST_ACK"}
      PROVE  \E j \in Places : At(k, i)' = At(k, j)
    <2>1. i + 1 \in Places
        BY DEF Places
    <2>2. CASE \E m : Put(k, m) /\ m.type \notin {"HANDOVER_REQUEST", "REQUEST_ACK"}
        BY <1>1, <2>2 DEF Put
    <2> QED BY <2>1, <2>2 DEF SameQueue, Taken
<1> SUFFICES ASSUME NEW k \in Cells, NEW r \in Nat, NEW i \in Places,
                    \/ At(k, i)'.type = "REQUEST_ACK" /\ At(k, i)'.old = r
                    \/ At(Other(k), i)'.type = "HANDOVER_REQUEST" /\ At(Other(k), i)'.old = r
             PROVE  Asks(k, r)
    BY DEF Asks
<1>2. CASE At(k, i)'.type = "REQUEST_ACK" /\ At(k, i)'.old = r
    <2>1. PICK j \in Places : At(k, i)' = At(k, j)
        BY <1>1, <1>2
    <2> QED BY <1>2, <2>1 DEF Asks
<1>3. CASE At(Other(k), i)'.type = "HANDOVER_REQUEST" /\ At(Other(k), i)'.old = r
    <2>1. PICK j \in Places : At(Other(k), i)' = At(Other(k), j)
        BY <1>1, <1>3, Others
    <2> QED BY <1>3, <2>1 DEF Asks
<1> QED BY <1>2, <1>3

\* But for what is granted.
LEMMA AsksAnew ==
    ASSUME NEW c \in Cells, SameQueue(c) \/ Taken(c), NEW m, Put(Other(c), m),
           m.type # "HANDOVER_REQUEST"
    PROVE  \A k \in Cells : \A r \in Nat :
              Asks(k, r)' => Asks(k, r) \/ (k = Other(c) /\ r = m.old)
<1>1. ASSUME NEW k \in Cells, NEW i \in Places
      PROVE  \/ \E j \in Places : At(k, i)' = At(k, j)
             \/ k = Other(c) /\ At(k, i)' = m
    <2>1. i + 1 \in Places
        BY DEF Places
    <2>2. CASE k = Other(c)
        BY <2>2 DEF Put
    <2>3. CASE k = c
        BY <2>1, <2>3 DEF SameQueue, Taken
    <2> QED BY <2>2, <2>3, Others
<1> SUFFICES ASSUME NEW k \in Cells, NEW r \in Nat, NEW i \in Places,
                    \/ At(k, i)'.type = "REQUEST_ACK" /\ At(k, i)'.old = r
                    \/ At(Other(k), i)'.type = "HANDOVER_REQUEST" /\ At(Other(k), i)'.old = r
             PROVE  Asks(k, r) \/ (k = Other(c) /\ r = m.old)
    BY DEF Asks
<1>2. CASE At(k, i)'.type = "REQUEST_ACK" /\ At(k, i)'.old = r
    <2>1. CASE \E j \in Places : At(k, i)' = At(k, j)
        <3>1. PICK j \in Places : At(k, i)' = At(k, j)
            BY <2>1
        <3> QED BY <1>2, <3>1 DEF Asks
    <2> QED BY <1>1, <1>2, <2>1
<1>3. CASE At(Other(k), i)'.type = "HANDOVER_REQUEST" /\ At(Other(k), i)'.old = r
    <2>1. PICK j \in Places : At(Other(k), i)' = At(Other(k), j)
        BY <1>1, <1>3, Others
    <2> QED BY <1>3, <2>1 DEF Asks
<1> QED BY <1>2, <1>3

LEMMA TriggerSteps ==
    ASSUME TypeOK, RefsOk, NEW c \in Cells, NEW r \in DOMAIN contexts[c], TriggerHandover(c, r)
    PROVE  /\ TypeOK' /\ RefsOk'
           /\ Quiet /\ Has(c, r) /\ r \in Nat /\ Context(c, r).state = "CONNECTED_NORMALLY"
           /\ LET next == Enb!PrepareHandover(Context(c, r))
              IN  Becomes(c, r, next)
                  /\ Goes(Context(c, r), next, {"HANDOVER_PREPARATION"}, Context(c, r).target)
           /\ Put(Other(c), X2Message("HANDOVER_REQUEST", r, 0)) /\ SameQueue(c)
           /\ UNCHANGED <<ue, ueCell, air, ideal, pathSwitches, quickBackhaul>>
<1> DEFINE next == Enb!PrepareHandover(Context(c, r))
           m    == X2Message("HANDOVER_REQUEST", r, 0)
<1>1. /\ Has(c, r) /\ r \in Nat /\ r \in 1 .. lastAllocatedRnti[c]
      /\ Context(c, r) = contexts[c][r] /\ Context(c, r) \in Contexts
    BY DEF TypeOK, Has, Context
<1>2. /\ Quiet /\ Context(c, r).state = "CONNECTED_NORMALLY" /\ ContextTo(c, r, next)
      /\ X2Send(Other(c), <<m>>) /\ handovers' = handovers + 1
      /\ UNCHANGED <<ue, ueCell, lastAllocatedRnti, air, ideal, pathSwitches, mishaps, quickBackhaul>>
    BY <1>1 DEF TriggerHandover
<1>3. Goes(Context(c, r), next, {"HANDOVER_PREPARATION"}, Context(c, r).target)
    BY <1>1, <1>2, ContextPrepares
<1>4. next \in Contexts /\ next.source = Context(c, r).source /\ next.target = Context(c, r).target
    BY <1>3 DEF Goes
<1>5. Becomes(c, r, next) /\ Stored' /\ Grows
    BY <1>1, <1>2, <1>4, ContextGoesTo, StoredTo, Unchanging
<1>6. m \in X2Messages /\ MessageOk(Other(c), m)'
    BY <1>1, <1>2, Others DEF X2Message, X2Messages, X2Types, MessageOk
<1>7. /\ Put(Other(c), m) /\ SameQueue(c) /\ x2' \in [Cells -> Seq(X2Messages)]
    BY <1>2, <1>6, Others, IsPut
<1>8. TypeOK'
    BY <1>2, <1>5, <1>7 DEF TypeOK, Stored
<1>9. ContextRefsOk'
    <2>1. /\ next.source \in Nat /\ next.target \in Nat
          /\ next.source <= lastAllocatedRnti[Other(c)]
          /\ next.target <= lastAllocatedRnti[Other(c)]
        BY <1>1, <1>4 DEF RefsOk, ContextRefsOk, Contexts
    <2> QED BY <1>1, <1>5, <2>1, ContextRefs
<1>10. MessageRefsOk'
    BY <1>5, <1>6, <1>7, Others, PutRefs
<1>11. AirRefsOk' /\ UeRefsOk'
    BY <1>2, <1>5, Unchanging, AirRefs DEF RefsOk, UeRefsOk
<1> QED BY <1>1, <1>2, <1>3, <1>5, <1>7, <1>8, <1>9, <1>10, <1>11 DEF RefsOk

\* A dead UE is neither served nor about to be heard.
LEMMA Unserved ==
    ASSUME InStep, ideal = {}, ~Alive
    PROVE  \A k \in Cells : \A r \in Nat :
              /\ Context(k, r).state \notin Serving
              /\ Sent("RECONFIGURATION_COMPLETED", k, r) => Context(k, r).state = "NONE"
              /\ Asks(k, r) => Context(k, r).state = "NONE"
BY DEF InStep, RadioOk, OwnedOk, CompletedOk, UeAt, Alive, AskedOk, Live

LEMMA ScheduleSteps ==
    ASSUME TypeOK, RefsOk, ~Aborted, NEW c \in Cells, NEW r \in DOMAIN contexts[c],
           ScheduleRrcConnectionReconfiguration(c, r)
    PROVE  LET now  == Context(c, r)
               next == Enb!ScheduleRrcConnectionReconfiguration(now)
           IN  /\ TypeOK' /\ RefsOk'
               /\ Quiet /\ Has(c, r) /\ r \in Nat
               /\ now.state \notin {"INITIAL_RANDOM_ACCESS", "ABORTED", "NONE"}
               /\ Becomes(c, r, next)
               /\ Goes(now, next, IF now.state = "CONNECTED_NORMALLY"
                                  THEN {"CONNECTION_RECONFIGURATION"}
                                  ELSE IF now.state = "HANDOVER_PATH_SWITCH" THEN {"ABORTED"}
                                  ELSE {now.state}, now.target)
               /\ \A k \in Cells : SameQueue(k)
               /\ UNCHANGED <<ue, ueCell, ideal, pathSwitches, quickBackhaul>>
               /\ \A k \in Cells : \A o \in Nat :
                     /\ \A n \in Nat : Commanded(k, o, n)' <=> Commanded(k, o, n)
                     /\ \A type \in AirTypes \ {"COMMAND"} : Sent(type, k, o)' <=>
                           \/ Sent(type, k, o)
                           \/ /\ now.state = "CONNECTED_NORMALLY"
                              /\ type = "RECONFIGURATION" /\ k = c /\ o = r
<1> DEFINE now    == Context(c, r)
           next   == Enb!ScheduleRrcConnectionReconfiguration(now)
           states == IF now.state = "CONNECTED_NORMALLY" THEN {"CONNECTION_RECONFIGURATION"}
                     ELSE IF now.state = "HANDOVER_PATH_SWITCH" THEN {"ABORTED"} ELSE {now.state}
<1>1. /\ Has(c, r) /\ r \in Nat /\ r \in 1 .. lastAllocatedRnti[c]
      /\ now = contexts[c][r] /\ now \in Contexts
    BY DEF TypeOK, Has, Context
<1>2. /\ Quiet /\ now.state # "INITIAL_RANDOM_ACCESS" /\ ContextTo(c, r, next)
      /\ air' = IF next.state = now.state THEN air ELSE air \cup AnswerOf(c, r, next)
      /\ mishaps' = mishaps + 1
      /\ UNCHANGED <<ue, ueCell, lastAllocatedRnti, ideal, x2, pathSwitches, handovers, quickBackhaul>>
    BY <1>1 DEF ScheduleRrcConnectionReconfiguration, Mishap
<1>3. now.state # "ABORTED" /\ now.state # "NONE"
    BY <1>1, NotAborted DEF Contexts, ContextStates
<1>4. Goes(now, next, states, now.target)
    BY <1>1, <1>2, <1>3, ContextScheduled
<1> HIDE DEF now, next
<1>5. /\ next.state \in states /\ next.state \in ContextStates
    BY <1>4 DEF Goes, Contexts
<1>6. /\ air' \subseteq AirMessages
      /\ \A k \in Cells : \A o \in Nat :
            /\ \A n \in Nat : Commanded(k, o, n)' <=> Commanded(k, o, n)
            /\ \A type \in AirTypes \ {"COMMAND"} : Sent(type, k, o)' <=>
                  \/ Sent(type, k, o)
                  \/ /\ now.state = "CONNECTED_NORMALLY"
                     /\ type = "RECONFIGURATION" /\ k = c /\ o = r
    <2>1. CASE next.state = now.state
        BY <1>2, <1>5, <2>1, Unchanging DEF TypeOK
    <2>2. CASE next.state # now.state
        BY <1>1, <1>2, <1>5, <2>2, AnswerAdds
    <2> QED BY <2>1, <2>2
<1>7. Becomes(c, r, next) /\ Stored' /\ Grows /\ ContextRefsOk'
    <2>1. now.target \in Nat /\ now.target <= lastAllocatedRnti[Other(c)]
        BY <1>1 DEF Contexts, RefsOk, ContextRefsOk, now
    <2> QED BY <1>1, <1>2, <1>4, <2>1, OneGoes DEF now
<1>8. \A k \in Cells : SameQueue(k)
    BY <1>2, Unchanging
<1>9. TypeOK'
    BY <1>2, <1>6, <1>7 DEF TypeOK, Stored
<1>10. MessageRefsOk'
    BY <1>7, <1>8, KeepRefs
<1>11. AirRefsOk'
    BY <1>1, <1>2, <1>6, <1>7, AirRefs
<1>12. UeRefsOk'
    BY <1>2 DEF RefsOk, UeRefsOk
<1> QED BY <1>1, <1>2, <1>3, <1>4, <1>6, <1>7, <1>8, <1>9, <1>10, <1>11, <1>12 DEF RefsOk, now, next

\* Taking forwarded data, or a release of a context already gone, leaves
\* the invariant as it is.
LEMMA PassesBy ==
    ASSUME TypeOK, InStep, Live, UNCHANGED <<ue, ueCell, ideal, air>>, SameContexts,
           NEW c \in Cells,
           \/ SameQueue(c)
           \/ Taken(c) /\ \/ At(c, 1).type = "UE_DATA"
                          \/ At(c, 1).type = "CONTEXT_RELEASE"
                             /\ Context(c, At(c, 1).old).state = "NONE",
           \/ SameQueue(Other(c))
           \/ \E m : m.type = "UE_DATA" /\ Put(Other(c), m)
    PROVE  QueuesOk' /\ RadioOk'
<1>1. /\ ue' = ue /\ ueCell' = ueCell /\ ideal' = ideal
      /\ \A k \in Cells : \A r \in Nat : UeAt(k, r)' <=> UeAt(k, r)
      /\ Mine' = Mine /\ (Alive' <=> Alive)
      /\ \A k \in Cells : \A r \in Nat : Context(k, r)' = Context(k, r)
      /\ \A k \in Cells : \A o, n \in Nat : Commanded(k, o, n)' <=> Commanded(k, o, n)
      /\ \A k \in Cells : \A r \in Nat : \A t \in AirTypes : Sent(t, k, r)' <=> Sent(t, k, r)
      /\ ueCell \in Cells /\ ue.rnti \in Nat
    BY Phases DEF Alive, UeAt, Mine, SameContexts, Commanded, Sent
<1>2. QueuesOk' /\ LostOk'
    <2>1. PICK e \in {0, 1} : IF e = 1 THEN Taken(c) /\ \/ At(c, 1).type = "UE_DATA"
                                                        \/ At(c, 1).type = "CONTEXT_RELEASE"
                                                           /\ Context(c, At(c, 1).old).state = "NONE"
                              ELSE SameQueue(c)
        OBVIOUS
    <2> DEFINE d == [k \in Cells |-> IF k = c THEN e ELSE 0]
    <2>2. d \in [Cells -> {0, 1}] /\ \A k \in Cells : d[k] = IF k = c THEN e ELSE 0
        OBVIOUS
    <2> HIDE DEF d
    <2>3. ASSUME NEW i \in Places
          PROVE  IF At(c, i + e) # NoMessage THEN At(c, i)' = At(c, i + e)
                 ELSE At(c, i)'.type \in {"NONE", "UE_DATA"}
        <3>1. CASE e = 1
            BY <2>1, <3>1 DEF Taken, NoMessage
        <3>2. CASE e = 0
            <4>1. i + 0 = i
                BY DEF Places
            <4> QED BY <2>1, <3>2, <4>1 DEF SameQueue, NoMessage
        <3> QED BY <3>1, <3>2
    <2>4. ASSUME NEW i \in Places
          PROVE  IF At(Other(c), i) # NoMessage THEN At(Other(c), i)' = At(Other(c), i)
                 ELSE At(Other(c), i)'.type \in {"NONE", "UE_DATA"}
        <3>1. CASE SameQueue(Other(c))
            BY <3>1 DEF SameQueue, NoMessage
        <3>2. CASE \E m : m.type = "UE_DATA" /\ Put(Other(c), m)
            <4>1. PICK m : m.type = "UE_DATA" /\ Put(Other(c), m)
                BY <3>2
            <4>2. PICK p \in Places :
                     /\ \A j \in Places : j < p <=> At(Other(c), j) # NoMessage
                     /\ \A j \in Places : At(Other(c), j)' = IF j = p THEN m ELSE At(Other(c), j)
                BY <4>1 DEF Put
            <4>3. ~(p < p)
                BY DEF Places
            <4> QED BY <4>1, <4>2, <4>3 DEF NoMessage
        <3> QED BY <3>1, <3>2
    <2>5. \A k \in Cells : \A i \in Places :
             IF At(k, i + d[k]) # NoMessage THEN At(k, i)' = At(k, i + d[k])
             ELSE At(k, i)'.type \in {"NONE", "UE_DATA"}
        <3> SUFFICES ASSUME NEW k \in Cells, NEW i \in Places
                     PROVE  IF At(k, i + d[k]) # NoMessage THEN At(k, i)' = At(k, i + d[k])
                            ELSE At(k, i)'.type \in {"NONE", "UE_DATA"}
            OBVIOUS
        <3>1. CASE k = c
            BY <2>2, <2>3, <3>1
        <3>2. CASE k # c
            <4>1. k = Other(c) /\ i + d[k] = i
                BY <2>2, <3>2, Others DEF Places
            <4> QED BY <2>4, <4>1
        <3> QED BY <3>1, <3>2
    <2>6. \A k \in Cells : d[k] = 1 =>
             \/ At(k, 1).type = "UE_DATA"
             \/ At(k, 1).type = "CONTEXT_RELEASE" /\ Context(k, At(k, 1).old).state = "NONE"
        BY <2>1, <2>2
    <2> QED BY <1>1, <2>2, <2>5, <2>6, QueuesKept
<1>3. ResponseOk' /\ PreambleOk' /\ IdealOk'
    BY <1>1 DEF InStep, RadioOk, ResponseOk, PreambleOk, IdealOk, AirTypes
<1>4. ReconfigurationOk' /\ CompletedOk'
    BY <1>1 DEF InStep, RadioOk, ReconfigurationOk, CompletedOk, AirTypes
<1>5. KnownOk' /\ OwnedOk'
    BY <1>1 DEF InStep, RadioOk, KnownOk, OwnedOk, AirTypes
<1> QED BY <1>2, <1>3, <1>4, <1>5 DEF RadioOk

LEMMA ForwardSteps ==
    ASSUME TypeOK, RefsOk, NEW c \in Cells, NEW r \in DOMAIN contexts[c], SendData(c, r)
    PROVE  /\ TypeOK' /\ RefsOk' /\ Quiet /\ r \in Nat
           /\ Context(c, r).state = "HANDOVER_LEAVING"
           /\ SameContexts
           /\ Put(Other(c), X2Message("UE_DATA", 0, 0)) /\ SameQueue(c)
           /\ UNCHANGED <<ue, ueCell, air, ideal, pathSwitches, quickBackhaul, contexts>>
<1> DEFINE m == X2Message("UE_DATA", 0, 0)
<1>1. /\ Has(c, r) /\ r \in Nat /\ Context(c, r) = contexts[c][r]
    BY DEF TypeOK, Has, Context
<1>2. /\ Quiet /\ Context(c, r).state = "HANDOVER_LEAVING"
      /\ X2Send(Other(c), <<m>>) /\ mishaps' = mishaps + 1
      /\ UNCHANGED <<ue, ueCell, contexts, lastAllocatedRnti, air, ideal, pathSwitches, handovers,
                     quickBackhaul>>
    BY <1>1 DEF SendData, Mishap
<1>3. SameContexts /\ Stored' /\ Grows /\ ContextRefsOk'
    BY <1>2, NoneGoes
<1>4. m \in X2Messages /\ MessageOk(Other(c), m)'
    BY <1>3, Others DEF X2Message, X2Messages, X2Types, MessageOk, Grows
<1>5. /\ Put(Other(c), m) /\ SameQueue(c) /\ x2' \in [Cells -> Seq(X2Messages)]
    BY <1>2, <1>4, Others, IsPut
<1>6. TypeOK'
    BY <1>2, <1>3, <1>5 DEF TypeOK, Stored
<1>7. MessageRefsOk'
    BY <1>3, <1>4, <1>5, Others, PutRefs
<1>8. AirRefsOk' /\ UeRefsOk'
    BY <1>2, <1>3, Unchanging, AirRefs DEF RefsOk, UeRefsOk
<1> QED BY <1>1, <1>2, <1>3, <1>5, <1>6, <1>7, <1>8 DEF RefsOk

\* The next RNTI of a cell is named by nobody.
LEMMA Fresh ==
    ASSUME TypeOK, RefsOk, NEW c \in Cells, NEW n, n = lastAllocatedRnti[c] + 1
    PROVE  /\ n \in Nat /\ n # 0 /\ Context(c, n) = NoContext /\ ~Has(c, n)
           /\ ueCell = c => ue.rnti # n
           /\ \A i \in Places : At(c, i).type # "HANDOVER_REQUEST" => At(c, i).old # n
           /\ \A i \in Places : At(c, i).type = "HANDOVER_CANCEL" => At(c, i).new # n
           /\ \A r \in Nat : Context(Other(c), r).source # n /\ Context(Other(c), r).target # n
           /\ \A type \in AirTypes \ {"COMMAND"} : ~Sent(type, c, n)
           /\ \A o \in Nat : ~Commanded(Other(c), o, n)
           /\ ~Asks(c, n)
<1>1. /\ lastAllocatedRnti[c] \in Nat /\ n \in Nat /\ n # 0 /\ n > lastAllocatedRnti[c]
      /\ \A q \in Nat : q <= lastAllocatedRnti[c] => q # n
    BY DEF TypeOK
<1>2. ~Has(c, n) /\ Context(c, n) = NoContext
    BY <1>1 DEF TypeOK, Has, Context
<1>3. ueCell = c => ue.rnti # n
    BY <1>1 DEF TypeOK, UeStates, RefsOk, UeRefsOk
<1>4. ASSUME NEW i \in Places
      PROVE  /\ At(c, i).type # "HANDOVER_REQUEST" => At(c, i).old # n
             /\ At(c, i).type = "HANDOVER_CANCEL" => At(c, i).new # n
    <2>1. MessageOk(c, At(c, i)) /\ At(c, i).old \in Nat /\ At(c, i).new \in Nat
        BY MessageTypes DEF RefsOk, MessageRefsOk
    <2> QED BY <1>1, <2>1 DEF MessageOk
<1>5. ASSUME NEW r \in Nat
      PROVE  Context(Other(c), r).source # n /\ Context(Other(c), r).target # n
    <2>1. /\ Context(Other(c), r).source \in Nat /\ Context(Other(c), r).target \in Nat
          /\ Context(Other(c), r).source <= lastAllocatedRnti[c]
          /\ Context(Other(c), r).target <= lastAllocatedRnti[c]
        BY Others, ContextTypes DEF RefsOk, ContextRefsOk
    <2> QED BY <1>1, <2>1
<1>6. ASSUME NEW type \in AirTypes \ {"COMMAND"}, Sent(type, c, n)
      PROVE  FALSE
    BY <1>1, <1>6 DEF RefsOk, AirRefsOk
<1>7. ASSUME NEW o \in Nat, Commanded(Other(c), o, n)
      PROVE  FALSE
    <2>1. n <= lastAllocatedRnti[Other(Other(c))]
        BY <1>1, <1>7, Others DEF RefsOk, AirRefsOk
    <2> QED BY <1>1, <2>1, Others
<1>8. ASSUME NEW i \in Places, At(Other(c), i).type = "HANDOVER_REQUEST"
      PROVE  At(Other(c), i).old # n
    <2>1. MessageOk(Other(c), At(Other(c), i)) /\ At(Other(c), i).old \in Nat
        BY MessageTypes, Others DEF RefsOk, MessageRefsOk
    <2> QED BY <1>1, <1>8, <2>1, Others DEF MessageOk
<1>9. ~Asks(c, n)
    BY <1>4, <1>8 DEF Asks
<1> QED BY <1>1, <1>2, <1>3, <1>4, <1>5, <1>6, <1>7, <1>9

\* The contexts with TEIDs are those of a handover to the cell.
LEMMA Teids ==
    ASSUME TypeOK, NEW c \in Cells
    PROVE  /\ WithTeid(c) = {} <=> \A r \in Nat : Context(c, r).source = 0
           /\ \A r \in WithTeid(c) : r \in Nat /\ Has(c, r) /\ Context(c, r).source # 0
                                     /\ Context(c, r) = contexts[c][r]
<1>1. \A r \in WithTeid(c) : r \in Nat /\ Has(c, r) /\ Context(c, r).source # 0
                             /\ Context(c, r) = contexts[c][r]
    BY DEF TypeOK, WithTeid, Context, Has
<1>2. ASSUME NEW r \in Nat, Context(c, r).source # 0
      PROVE  r \in WithTeid(c)
    BY <1>2 DEF WithTeid, Context, Has, NoContext
<1> QED BY <1>1, <1>2

\* What is sent names RNTIs given out.
LEMMA Names ==
    ASSUME NEW c \in Cells, NEW t \in X2Types \ {"HANDOVER_REQUEST", "HANDOVER_CANCEL"},
           NEW old \in Nat, NEW new \in Nat,
           old <= lastAllocatedRnti'[c], new <= lastAllocatedRnti'[Other(c)]
    PROVE  X2Message(t, old, new) \in X2Messages /\ MessageOk(c, X2Message(t, old, new))'
<1> DEFINE m == X2Message(t, old, new)
<1>1. m.type = t /\ m.old = old /\ m.new = new /\ m \in X2Messages
    BY DEF X2Message, X2Messages
<1>2. t # "HANDOVER_REQUEST" /\ t # "HANDOVER_CANCEL"
    OBVIOUS
<1> HIDE DEF m
<1>3. MessageOk(c, m)'
    BY <1>1, <1>2 DEF MessageOk
<1> QED BY <1>1, <1>3 DEF m

LEMMA RequestSteps ==
    ASSUME TypeOK, RefsOk, NEW c \in Cells, RecvHandoverRequest(c)
    PROVE  /\ TypeOK' /\ RefsOk' /\ ideal = {}
           /\ At(c, 1).type = "HANDOVER_REQUEST" /\ Taken(c)
           /\ UNCHANGED <<ueCell, air, ideal, pathSwitches, quickBackhaul>>
           /\ At(c, 1).old \in Nat /\ At(c, 1).old # 0
           /\ \/ /\ SameContexts /\ ue' = ue
                 /\ Put(Other(c), X2Message("PREPARATION_FAILURE", At(c, 1).old, 0))
              \/ LET new == lastAllocatedRnti[c] + 1
                 IN  /\ Becomes(c, new, Enb!JoiningContext(At(c, 1).old))
                     /\ Put(Other(c), X2Message("REQUEST_ACK", At(c, 1).old, new))
                     /\ IF \A r \in Nat : Context(c, r).source = 0 THEN ue' = ue
                        ELSE ue' = Ue!Abort(ue)
<1>p. PICK d, old, new :
         d = Other(c) /\ old = Head(x2[c]).old /\ new = lastAllocatedRnti[c] + 1
    OBVIOUS
<1> DEFINE failure == X2Message("PREPARATION_FAILURE", old, 0)
           ack     == X2Message("REQUEST_ACK", old, new)
<1>0. /\ d \in Cells /\ Other(d) = c
      /\ UNCHANGED <<air, ideal>>
    BY <1>p, Others DEF RecvHandoverRequest
<1>1. \/ /\ RecvX2(c, "HANDOVER_REQUEST", <<failure>>)
         /\ \E given \in 0 .. 1 : lastAllocatedRnti' = [lastAllocatedRnti EXCEPT ![c] = @ + given]
         /\ mishaps' = mishaps + 1
         /\ UNCHANGED <<ue, contexts>>
      \/ /\ RecvX2(c, "HANDOVER_REQUEST", <<ack>>)
         /\ AddUe(c, Enb!JoiningContext(old))
         /\ IF WithTeid(c) = {} THEN UNCHANGED ue ELSE Halt
         /\ UNCHANGED mishaps
    BY <1>p DEF RecvHandoverRequest, Mishap
<1>2. /\ ideal = {} /\ At(c, 1) = Head(x2[c]) /\ At(c, 1).type = "HANDOVER_REQUEST"
      /\ At(c, 1) \in X2Messages /\ Taken(c)
      /\ UNCHANGED <<ueCell, pathSwitches, handovers, quickBackhaul>>
    BY <1>1, IsTaken
<1>3. /\ old = At(c, 1).old /\ old \in Nat /\ old # 0 /\ old <= lastAllocatedRnti[d]
    <2>1. 1 \in Places
        BY DEF Places
    <2>2. MessageOk(c, At(c, 1))
        BY <2>1 DEF RefsOk, MessageRefsOk
    <2> QED BY <1>p, <1>2, <2>2 DEF MessageOk, X2Messages
<1>4. failure \in X2Messages /\ ack \in X2Messages
    BY <1>p, <1>3 DEF X2Message, X2Messages, X2Types, TypeOK
<1> HIDE DEF failure, ack
<1>5. ASSUME RecvX2(c, "HANDOVER_REQUEST", <<failure>>),
             \E given \in 0 .. 1 : lastAllocatedRnti' = [lastAllocatedRnti EXCEPT ![c] = @ + given],
             mishaps' = mishaps + 1,
             UNCHANGED <<ue, contexts>>
      PROVE  /\ TypeOK' /\ RefsOk' /\ SameContexts /\ ue' = ue /\ Put(d, failure)
    <2>1. Put(d, failure) /\ x2' \in [Cells -> Seq(X2Messages)]
        BY <1>p, <1>4, <1>5, IsTaken
    <2>2. SameContexts
        BY <1>5, Unchanging
    <2>3. Grows
        <3>1. PICK given \in 0 .. 1 : lastAllocatedRnti' = [lastAllocatedRnti EXCEPT ![c] = @ + given]
            BY <1>5
        <3>2. lastAllocatedRnti \in [Cells -> Nat]
            BY DEF TypeOK
        <3> QED BY <3>1, <3>2 DEF Grows
    <2>4. Stored'
        <3> SUFFICES ASSUME NEW k \in Cells, NEW r \in DOMAIN contexts[k]
                     PROVE  r \in 1 .. lastAllocatedRnti'[k]
            BY <1>5 DEF TypeOK, Stored
        <3> QED BY <2>3 DEF TypeOK, Grows
    <2>5. TypeOK'
        BY <1>0, <1>2, <1>5, <2>1, <2>3, <2>4 DEF TypeOK, Stored, Grows
    <2>6. MessageOk(d, failure)'
        <3>1. old <= lastAllocatedRnti'[d] /\ 0 <= lastAllocatedRnti'[Other(d)]
            BY <1>0, <1>3, <2>3 DEF TypeOK, Grows
        <3>2. "PREPARATION_FAILURE" \in X2Types \ {"HANDOVER_REQUEST", "HANDOVER_CANCEL"}
            BY DEF X2Types
        <3> QED BY <1>0, <1>3, <3>1, <3>2, Names DEF failure
    <2>7. ContextRefsOk' /\ MessageRefsOk'
        <3>1. ContextRefsOk'
            BY <2>2, <2>3, ContextRefs
        <3>2. Taken(Other(d))
            BY <1>0, <1>2
        <3>3. MessageRefsOk'
            BY <1>0, <1>4, <2>1, <2>3, <2>6, <3>2, PutRefs
        <3> QED BY <3>1, <3>3
    <2>8. AirRefsOk'
        BY <1>0, <2>3, Unchanging, AirRefs
    <2>9. UeRefsOk'
        <3>1. ue' = ue /\ ueCell' = ueCell /\ ueCell \in Cells /\ ue.rnti \in Nat
              /\ lastAllocatedRnti[ueCell] \in Nat
            BY <1>2, <1>5 DEF TypeOK, UeStates
        <3>2. lastAllocatedRnti'[ueCell] \in Nat
              /\ lastAllocatedRnti[ueCell] <= lastAllocatedRnti'[ueCell]
            BY <2>3, <3>1 DEF Grows
        <3> QED BY <3>1, <3>2 DEF RefsOk, UeRefsOk
    <2> QED BY <1>5, <2>1, <2>2, <2>5, <2>7, <2>8, <2>9 DEF RefsOk
<1>6. ASSUME RecvX2(c, "HANDOVER_REQUEST", <<ack>>),
             AddUe(c, Enb!JoiningContext(old)),
             IF WithTeid(c) = {} THEN UNCHANGED ue ELSE Halt,
             UNCHANGED mishaps
      PROVE  /\ TypeOK' /\ RefsOk'
             /\ Becomes(c, new, Enb!JoiningContext(old)) /\ Put(d, ack)
             /\ IF \A r \in Nat : Context(c, r).source = 0 THEN ue' = ue ELSE ue' = Ue!Abort(ue)
    <2>1. Put(d, ack) /\ x2' \in [Cells -> Seq(X2Messages)]
        BY <1>p, <1>4, <1>6, IsTaken
    <2>2. /\ Becomes(c, new, Enb!JoiningContext(old)) /\ Stored' /\ Grows
          /\ new \in Nat /\ lastAllocatedRnti'[c] = new
        BY <1>3, <1>6, ContextComes, StoredNew, NewContexts, <1>p DEF TypeOK
    <2>3. /\ IF \A r \in Nat : Context(c, r).source = 0 THEN ue' = ue ELSE ue' = Ue!Abort(ue)
          /\ ue' \in UeStates /\ ue'.rnti = ue.rnti /\ (ue'.rrc = ue.rrc \/ ue'.rrc = "ABORTED")
        BY <1>6, Teids, UeAborts DEF Halt, TypeOK
    <2>4. TypeOK'
        BY <1>0, <1>2, <1>6, <2>1, <2>2, <2>3 DEF TypeOK, Stored, Grows
    <2>5. MessageOk(d, ack)'
        <3>1. old <= lastAllocatedRnti'[d] /\ new <= lastAllocatedRnti'[Other(d)]
            BY <1>0, <1>3, <2>2 DEF TypeOK, Grows
        <3>2. "REQUEST_ACK" \in X2Types \ {"HANDOVER_REQUEST", "HANDOVER_CANCEL"}
            BY DEF X2Types
        <3> QED BY <1>0, <1>3, <2>2, <3>1, <3>2, Names DEF ack
    <2>6. ContextRefsOk'
        <3>1. /\ Enb!JoiningContext(old).source = old /\ Enb!JoiningContext(old).target = 0
            BY <1>3, NewContexts
        <3>2. 0 <= lastAllocatedRnti[d]
            BY <1>0 DEF TypeOK
        <3> QED BY <1>3, <2>2, <3>1, <3>2, ContextRefs, <1>p
    <2>7. MessageRefsOk'
        <3>1. Taken(Other(d))
            BY <1>0, <1>2
        <3> QED BY <1>0, <1>4, <2>1, <2>2, <2>5, <3>1, PutRefs
    <2>8. AirRefsOk'
        BY <1>0, <2>2, Unchanging, AirRefs
    <2>9. UeRefsOk'
        <3>1. /\ ue'.rnti = ue.rnti /\ ueCell' = ueCell /\ ueCell \in Cells /\ ue.rnti \in Nat
              /\ lastAllocatedRnti[ueCell] \in Nat /\ (ue'.rrc = ue.rrc \/ ue'.rrc = "ABORTED")
            BY <1>2, <2>3 DEF TypeOK, UeStates
        <3>2. lastAllocatedRnti'[ueCell] \in Nat
              /\ lastAllocatedRnti[ueCell] <= lastAllocatedRnti'[ueCell]
            BY <2>2, <3>1 DEF Grows
        <3> QED BY <3>1, <3>2 DEF RefsOk, UeRefsOk
    <2> QED BY <2>1, <2>2, <2>3, <2>4, <2>6, <2>7, <2>8, <2>9 DEF RefsOk
<1> QED BY <1>0, <1>1, <1>2, <1>3, <1>5, <1>6, <1>p DEF failure, ack

LEMMA AckSteps ==
    ASSUME TypeOK, RefsOk, NEW c \in Cells, RecvHandoverRequestAck(c),
           NEW old, NEW new, old = At(c, 1).old, new = At(c, 1).new
    PROVE  LET next == Enb!RecvHandoverRequestAck(Context(c, old), new)
           IN  /\ TypeOK' /\ RefsOk' /\ ideal = {} /\ old \in Nat /\ new \in Nat
               /\ At(c, 1).type = "REQUEST_ACK" /\ Taken(c) /\ SameQueue(Other(c))
               /\ UNCHANGED <<ueCell, ideal, pathSwitches, quickBackhaul>>
               /\ IF Context(c, old).state # "NONE"
                  THEN /\ ue' = ue /\ Becomes(c, old, next) /\ Context(c, old) \in Contexts
                       /\ \A k \in Cells : \A r \in Nat :
                             /\ \A q \in Nat : Commanded(k, r, q)' <=>
                                   Commanded(k, r, q) \/ (k = c /\ r = old /\ q = new)
                             /\ \A type \in AirTypes \ {"COMMAND"} :
                                   Sent(type, k, r)' <=> Sent(type, k, r)
                  ELSE ue' = Ue!Abort(ue)
<1> DEFINE next == Enb!RecvHandoverRequestAck(Context(c, old), new)
<1>1. /\ RecvX2(c, "REQUEST_ACK", <<>>)
      /\ UNCHANGED <<lastAllocatedRnti, ideal, mishaps>>
    BY DEF RecvHandoverRequestAck
<1>2. /\ ideal = {} /\ At(c, 1) = Head(x2[c]) /\ At(c, 1).type = "REQUEST_ACK"
      /\ At(c, 1) \in X2Messages /\ Taken(c) /\ SameQueue(Other(c))
      /\ x2' \in [Cells -> Seq(X2Messages)]
      /\ UNCHANGED <<ueCell, pathSwitches, handovers, quickBackhaul>>
    BY <1>1, IsTaken
<1>3. /\ old \in Nat /\ new \in Nat /\ old <= lastAllocatedRnti[c]
      /\ new <= lastAllocatedRnti[Other(c)]
    <2>1. 1 \in Places
        BY DEF Places
    <2>2. MessageOk(c, At(c, 1))
        BY <2>1 DEF RefsOk, MessageRefsOk
    <2> QED BY <1>2, <2>2 DEF MessageOk, X2Messages
<1>4. Grows /\ MessageRefsOk'
    <2>1. Grows
        BY <1>1, Unchanging
    <2> QED BY <1>2, <2>1, Others, KeepRefs
<1>5. ASSUME Context(c, old).state # "NONE"
      PROVE  /\ TypeOK' /\ RefsOk' /\ ue' = ue /\ Becomes(c, old, next)
             /\ Context(c, old) \in Contexts
             /\ \A k \in Cells : \A r \in Nat :
                   /\ \A q \in Nat : Commanded(k, r, q)' <=>
                         Commanded(k, r, q) \/ (k = c /\ r = old /\ q = new)
                   /\ \A type \in AirTypes \ {"COMMAND"} :
                         Sent(type, k, r)' <=> Sent(type, k, r)
    <2>1. /\ Has(c, old) /\ Context(c, old) = contexts[c][old] /\ Context(c, old) \in Contexts
          /\ old \in 1 .. lastAllocatedRnti[c]
        BY <1>3, <1>5, ContextTypes DEF NoContext
    <2>2. /\ ContextTo(c, old, next) /\ air' = air \cup {Command(c, old, new)} /\ ue' = ue
        BY <1>2, <2>1 DEF RecvHandoverRequestAck, X2Old, X2New
    <2>3. /\ next \in Contexts /\ next.source = Context(c, old).source /\ next.target = new
        BY <1>3, <2>1, ContextLeaves
    <2> HIDE DEF next
    <2>4. Becomes(c, old, next) /\ Stored'
        BY <1>1, <2>1, <2>2, <2>3, ContextGoesTo, StoredTo
    <2>5. ContextRefsOk'
        <3>1. Context(c, old).source <= lastAllocatedRnti[Other(c)] /\ next.source \in Nat
            BY <1>3, <2>1, <2>3 DEF RefsOk, ContextRefsOk, Contexts
        <3> QED BY <1>3, <1>4, <2>3, <2>4, <3>1, ContextRefs
    <2>6. /\ air' \subseteq AirMessages
          /\ \A k \in Cells : \A r \in Nat :
                /\ \A q \in Nat : Commanded(k, r, q)' <=>
                      Commanded(k, r, q) \/ (k = c /\ r = old /\ q = new)
                /\ \A type \in AirTypes \ {"COMMAND"} : Sent(type, k, r)' <=> Sent(type, k, r)
        BY <1>3, <2>2, AirCommands
    <2>7. TypeOK'
        BY <1>1, <1>2, <1>4, <2>2, <2>4, <2>6 DEF TypeOK, Stored, Grows
    <2>8. AirRefsOk'
        BY <1>3, <1>4, <2>1, <2>6, AirRefs
    <2>9. UeRefsOk'
        BY <1>1, <1>2, <2>2 DEF RefsOk, UeRefsOk
    <2> QED BY <1>4, <2>1, <2>2, <2>4, <2>5, <2>6, <2>7, <2>8, <2>9 DEF RefsOk
<1>6. ASSUME Context(c, old).state = "NONE"
      PROVE  TypeOK' /\ RefsOk' /\ ue' = Ue!Abort(ue)
    <2>1. ~Has(c, old)
        BY <1>3, <1>6, ContextTypes
    <2>2. ue' = Ue!Abort(ue) /\ UNCHANGED <<contexts, air>>
        BY <1>2, <2>1 DEF RecvHandoverRequestAck, X2Old, X2New, Halt
    <2>3. /\ ue' \in UeStates /\ ue'.rnti = ue.rnti /\ ue'.rrc = "ABORTED"
        BY <2>2, UeAborts DEF TypeOK
    <2>4. Stored' /\ ContextRefsOk'
        BY <1>1, <2>2, NoneGoes
    <2>5. TypeOK'
        BY <1>1, <1>2, <1>4, <2>2, <2>3, <2>4 DEF TypeOK, Stored, Grows
    <2>6. AirRefsOk'
        BY <1>4, <2>2, Unchanging, AirRefs
    <2>7. UeRefsOk'
        BY <1>1, <1>2, <2>3 DEF RefsOk, UeRefsOk
    <2> QED BY <1>4, <2>2, <2>4, <2>5, <2>6, <2>7 DEF RefsOk
<1> QED BY <1>1, <1>2, <1>3, <1>5, <1>6

\* NoContext runs no timer.
LEMMA NoneOk == ContextOk(NoContext) /\ NoContext.state = "NONE" /\ NoContext.source = 0
BY DEF NoContext, ContextOk, TimersOf

LEMMA FailureSteps ==
    ASSUME TypeOK, RefsOk, ~Aborted, NEW c \in Cells, RecvHandoverPreparationFailure(c),
           NEW old, old = At(c, 1).old
    PROVE  LET now  == Context(c, old)
               next == Enb!RecvHandoverPreparationFailure(now)
           IN  /\ TypeOK' /\ RefsOk' /\ ideal = {} /\ old \in Nat
               /\ At(c, 1).type = "PREPARATION_FAILURE" /\ Taken(c) /\ SameQueue(Other(c))
               /\ UNCHANGED <<ue, ueCell, pathSwitches, quickBackhaul>>
               /\ \/ now.state = "NONE" /\ SameContexts /\ UNCHANGED <<air, ideal>>
                  \/ /\ now.state = "HANDOVER_LEAVING" /\ Becomes(c, old, NoContext)
                     /\ ideal' = {Release} /\ air' = air
                  \/ /\ now.state \notin {"NONE", "HANDOVER_LEAVING"} /\ Becomes(c, old, next)
                     /\ Goes(now, next, IF now.state = "HANDOVER_PREPARATION"
                                        THEN {"CONNECTED_NORMALLY", "CONNECTION_RECONFIGURATION"}
                                        ELSE {"ABORTED"}, now.target)
                     /\ ideal' = {}
                     /\ \A k \in Cells : \A r \in Nat :
                           /\ \A q \in Nat : Commanded(k, r, q)' <=> Commanded(k, r, q)
                           /\ \A type \in AirTypes \ {"COMMAND"} : Sent(type, k, r)' <=>
                                 \/ Sent(type, k, r)
                                 \/ /\ next.state = "CONNECTION_RECONFIGURATION"
                                    /\ type = "RECONFIGURATION" /\ k = c /\ r = old
<1> DEFINE now    == Context(c, old)
           next   == Enb!RecvHandoverPreparationFailure(now)
           states == IF now.state = "HANDOVER_PREPARATION"
                     THEN {"CONNECTED_NORMALLY", "CONNECTION_RECONFIGURATION"} ELSE {"ABORTED"}
<1>1. /\ RecvX2(c, "PREPARATION_FAILURE", <<>>)
      /\ UNCHANGED <<ue, lastAllocatedRnti, mishaps>>
    BY DEF RecvHandoverPreparationFailure
<1>2. /\ ideal = {} /\ At(c, 1) = Head(x2[c]) /\ At(c, 1).type = "PREPARATION_FAILURE"
      /\ At(c, 1) \in X2Messages /\ Taken(c) /\ SameQueue(Other(c))
      /\ x2' \in [Cells -> Seq(X2Messages)]
      /\ UNCHANGED <<ueCell, pathSwitches, handovers, quickBackhaul>>
    BY <1>1, IsTaken
<1>3. old \in Nat
    BY <1>2 DEF X2Messages
<1>4. Grows /\ MessageRefsOk'
    <2>1. Grows
        BY <1>1, Unchanging
    <2> QED BY <1>2, <2>1, Others, KeepRefs
<1>5. UeRefsOk'
    BY <1>1, <1>2 DEF RefsOk, UeRefsOk
<1>6. CASE ~Has(c, old)
    <2>1. UNCHANGED <<contexts, air, ideal>>
        BY <1>2, <1>6 DEF RecvHandoverPreparationFailure, X2Old
    <2>2. SameContexts /\ Stored' /\ ContextRefsOk'
        BY <1>1, <2>1, NoneGoes
    <2>3. TypeOK'
        BY <1>1, <1>2, <1>4, <2>1, <2>2 DEF TypeOK, Stored, Grows
    <2>4. AirRefsOk'
        BY <1>4, <2>1, Unchanging, AirRefs
    <2>5. now.state = "NONE"
        BY <1>6 DEF Context, NoContext
    <2> QED BY <1>1, <1>2, <1>3, <1>4, <1>5, <2>1, <2>2, <2>3, <2>4, <2>5 DEF RefsOk
<1>7. CASE Has(c, old)
    <2>1. /\ now = contexts[c][old] /\ now \in Contexts /\ now.state # "NONE"
          /\ now.state \in ContextStates /\ old \in 1 .. lastAllocatedRnti[c]
          /\ now.target \in Nat /\ now.target <= lastAllocatedRnti[Other(c)]
        BY <1>3, <1>7, ContextTypes DEF Contexts, NoContext, RefsOk, ContextRefsOk
    <2>2. IF next.state = "HANDOVER_LEAVING"
          THEN RemoveUe(c, old) /\ ideal' = ideal \cup {Release} /\ UNCHANGED air
          ELSE /\ ContextTo(c, old, next) /\ air' = air \cup AnswerOf(c, old, next)
               /\ UNCHANGED ideal
        BY <1>2, <1>7, <2>1 DEF RecvHandoverPreparationFailure, X2Old, ReleaseUe
    <2>3. CASE now.state = "HANDOVER_LEAVING"
        <3>1. next.state = "HANDOVER_LEAVING"
            BY <2>1, <2>3, ContextRefused
        <3>2. RemoveUe(c, old) /\ ideal' = {Release} /\ UNCHANGED air
            BY <1>2, <2>2, <3>1
        <3>3. Becomes(c, old, NoContext) /\ Stored' /\ ContextRefsOk'
            BY <1>1, <1>3, <3>2, OneLeaves
        <3>4. TypeOK'
            BY <1>1, <1>2, <1>4, <3>2, <3>3 DEF TypeOK, Stored, Grows
        <3>5. AirRefsOk'
            BY <1>4, <3>2, Unchanging, AirRefs
        <3> QED BY <1>1, <1>2, <1>3, <1>4, <1>5, <2>3, <3>2, <3>3, <3>4, <3>5 DEF RefsOk
    <2>4. CASE now.state # "HANDOVER_LEAVING"
        <3>1. Goes(now, next, states, now.target)
            BY <2>1, <2>4, ContextRefused
        <3>2. next.state \in ContextStates /\ next.state # "HANDOVER_LEAVING"
            BY <3>1 DEF Goes, Contexts
        <3> HIDE DEF next, now
        <3>3. ContextTo(c, old, next) /\ air' = air \cup AnswerOf(c, old, next) /\ ideal' = {}
            BY <1>2, <2>2, <3>2
        <3>4. Becomes(c, old, next) /\ Stored' /\ ContextRefsOk'
            BY <1>1, <1>7, <2>1, <3>1, <3>3, OneGoes DEF now
        <3>5. /\ air' \subseteq AirMessages
              /\ \A k \in Cells : \A r \in Nat :
                    /\ \A q \in Nat : Commanded(k, r, q)' <=> Commanded(k, r, q)
                    /\ \A type \in AirTypes \ {"COMMAND"} : Sent(type, k, r)' <=>
                          \/ Sent(type, k, r)
                          \/ /\ next.state = "CONNECTION_RECONFIGURATION"
                             /\ type = "RECONFIGURATION" /\ k = c /\ r = old
            BY <1>3, <3>2, <3>3, AnswerAdds
        <3>6. TypeOK'
            BY <1>1, <1>2, <1>4, <3>3, <3>4, <3>5 DEF TypeOK, Stored, Grows
        <3>7. AirRefsOk'
            BY <1>1, <1>4, <2>1, <3>5, AirRefs
        <3> QED BY <1>1, <1>2, <1>3, <1>4, <1>5, <2>1, <2>4, <3>1, <3>3, <3>4, <3>5, <3>6, <3>7
            DEF RefsOk, now, next
    <2> QED BY <2>3, <2>4
<1> QED BY <1>6, <1>7

LEMMA ForgetSteps ==
    ASSUME TypeOK, RefsOk, NEW c \in Cells, RecvUeContextRelease(c), NEW old, old = At(c, 1).old
    PROVE  /\ TypeOK' /\ RefsOk' /\ ideal = {} /\ old \in Nat
           /\ At(c, 1).type = "CONTEXT_RELEASE" /\ Taken(c) /\ SameQueue(Other(c))
           /\ UNCHANGED <<ue, ueCell, air, ideal, pathSwitches, quickBackhaul>>
           /\ \/ Context(c, old).state = "NONE" /\ SameContexts
              \/ Context(c, old).state = "HANDOVER_LEAVING" /\ Becomes(c, old, NoContext)
              \/ /\ Context(c, old).state \notin {"NONE", "HANDOVER_LEAVING"}
                 /\ Context(c, old)'.state = "ABORTED"
<1> DEFINE now  == Context(c, old)
           next == Enb!RecvUeContextRelease(now)
<1>1. /\ RecvX2(c, "CONTEXT_RELEASE", <<>>)
      /\ UNCHANGED <<ue, lastAllocatedRnti, air, ideal, mishaps>>
    BY DEF RecvUeContextRelease
<1>2. /\ ideal = {} /\ At(c, 1) = Head(x2[c]) /\ At(c, 1).type = "CONTEXT_RELEASE"
      /\ At(c, 1) \in X2Messages /\ Taken(c) /\ SameQueue(Other(c))
      /\ x2' \in [Cells -> Seq(X2Messages)]
      /\ UNCHANGED <<ueCell, pathSwitches, handovers, quickBackhaul>>
    BY <1>1, IsTaken
<1>3. old \in Nat
    BY <1>2 DEF X2Messages
<1>4. Grows /\ MessageRefsOk'
    <2>1. Grows
        BY <1>1, Unchanging
    <2> QED BY <1>2, <2>1, Others, KeepRefs
<1>5. UeRefsOk' /\ AirRefsOk'
    BY <1>1, <1>2, <1>4, Unchanging, AirRefs DEF RefsOk, UeRefsOk
<1>6. ASSUME Stored' PROVE TypeOK'
    BY <1>1, <1>2, <1>4, <1>6 DEF TypeOK, Stored, Grows
<1>7. CASE ~Has(c, old)
    <2>1. UNCHANGED contexts
        BY <1>2, <1>7 DEF RecvUeContextRelease, X2Old
    <2>2. SameContexts /\ Stored' /\ ContextRefsOk'
        BY <1>1, <2>1, NoneGoes
    <2>3. now.state = "NONE"
        BY <1>7 DEF Context, NoContext
    <2> QED BY <1>1, <1>2, <1>3, <1>4, <1>5, <1>6, <2>2, <2>3 DEF RefsOk
<1>8. CASE Has(c, old)
    <2>1. /\ now = contexts[c][old] /\ now \in Contexts /\ now.state # "NONE"
          /\ now.target \in Nat /\ now.target <= lastAllocatedRnti[Other(c)]
        BY <1>3, <1>8, ContextTypes DEF Contexts, NoContext, RefsOk, ContextRefsOk
    <2>2. IF next.state = "ABORTED" THEN ContextTo(c, old, next) ELSE RemoveUe(c, old)
        BY <1>2, <1>8, <2>1 DEF RecvUeContextRelease, X2Old
    <2>3. CASE now.state = "HANDOVER_LEAVING"
        <3>1. RemoveUe(c, old)
            BY <2>1, <2>2, <2>3, ContextReleased
        <3>2. Becomes(c, old, NoContext) /\ Stored' /\ ContextRefsOk'
            BY <1>1, <1>3, <3>1, OneLeaves
        <3> QED BY <1>1, <1>2, <1>3, <1>4, <1>5, <1>6, <2>3, <3>2 DEF RefsOk
    <2>4. CASE now.state # "HANDOVER_LEAVING"
        <3>1. Goes(now, next, {"ABORTED"}, now.target)
            BY <2>1, <2>4, ContextReleased
        <3>2. next.state = "ABORTED"
            BY <3>1 DEF Goes
        <3>3. Becomes(c, old, next) /\ Stored' /\ ContextRefsOk'
            BY <1>1, <1>8, <2>1, <2>2, <3>1, <3>2, OneGoes
        <3>4. Context(c, old)'.state = "ABORTED"
            BY <1>3, <3>2, <3>3 DEF Becomes
        <3> QED BY <1>1, <1>2, <1>3, <1>4, <1>5, <1>6, <2>1, <2>4, <3>3, <3>4 DEF RefsOk
    <2> QED BY <2>3, <2>4
<1> QED BY <1>7, <1>8

LEMMA CancelSteps ==
    ASSUME TypeOK, RefsOk, NEW c \in Cells, RecvHandoverCancel(c), NEW new, new = At(c, 1).new
    PROVE  LET next == Enb!RecvHandoverCancel(Context(c, new))
           IN  /\ TypeOK' /\ RefsOk' /\ ideal = {} /\ new \in Nat
               /\ At(c, 1).type = "HANDOVER_CANCEL" /\ Taken(c) /\ SameQueue(Other(c))
               /\ UNCHANGED <<ue, ueCell, air, ideal, pathSwitches, quickBackhaul>>
               /\ \/ Context(c, new).state = "NONE" /\ SameContexts
                  \/ /\ Context(c, new).state # "NONE" /\ Becomes(c, new, next)
                     /\ Goes(Context(c, new), next,
                             IF Context(c, new).state = "HANDOVER_JOINING"
                             THEN {"HANDOVER_JOINING"} ELSE {"ABORTED"}, Context(c, new).target)
<1> DEFINE now  == Context(c, new)
           next == Enb!RecvHandoverCancel(now)
<1>1. /\ RecvX2(c, "HANDOVER_CANCEL", <<>>)
      /\ UNCHANGED <<ue, lastAllocatedRnti, air, ideal, mishaps>>
    BY DEF RecvHandoverCancel
<1>2. /\ ideal = {} /\ At(c, 1) = Head(x2[c]) /\ At(c, 1).type = "HANDOVER_CANCEL"
      /\ At(c, 1) \in X2Messages /\ Taken(c) /\ SameQueue(Other(c))
      /\ x2' \in [Cells -> Seq(X2Messages)]
      /\ UNCHANGED <<ueCell, pathSwitches, handovers, quickBackhaul>>
    BY <1>1, IsTaken
<1>3. new \in Nat
    BY <1>2 DEF X2Messages
<1>4. Grows /\ MessageRefsOk'
    <2>1. Grows
        BY <1>1, Unchanging
    <2> QED BY <1>2, <2>1, Others, KeepRefs
<1>5. UeRefsOk' /\ AirRefsOk'
    BY <1>1, <1>2, <1>4, Unchanging, AirRefs DEF RefsOk, UeRefsOk
<1>6. ASSUME Stored' PROVE TypeOK'
    BY <1>1, <1>2, <1>4, <1>6 DEF TypeOK, Stored, Grows
<1>7. CASE ~Has(c, new)
    <2>1. UNCHANGED contexts
        BY <1>2, <1>7 DEF RecvHandoverCancel, X2New
    <2>2. SameContexts /\ Stored' /\ ContextRefsOk'
        BY <1>1, <2>1, NoneGoes
    <2>3. now.state = "NONE"
        BY <1>7 DEF Context, NoContext
    <2> QED BY <1>1, <1>2, <1>3, <1>4, <1>5, <1>6, <2>2, <2>3 DEF RefsOk
<1>8. CASE Has(c, new)
    <2>1. /\ now = contexts[c][new] /\ now \in Contexts /\ now.state # "NONE"
          /\ now.target \in Nat /\ now.target <= lastAllocatedRnti[Other(c)]
        BY <1>3, <1>8, ContextTypes DEF Contexts, NoContext, RefsOk, ContextRefsOk
    <2>2. ContextTo(c, new, next)
        BY <1>2, <1>8, <2>1 DEF RecvHandoverCancel, X2New
    <2>3. Goes(now, next, IF now.state = "HANDOVER_JOINING" THEN {"HANDOVER_JOINING"}
                          ELSE {"ABORTED"}, now.target)
        BY <2>1, ContextCancelled
    <2>4. Becomes(c, new, next) /\ Stored' /\ ContextRefsOk'
        BY <1>1, <1>8, <2>1, <2>2, <2>3, OneGoes
    <2> QED BY <1>1, <1>2, <1>3, <1>4, <1>5, <1>6, <2>1, <2>3, <2>4 DEF RefsOk
<1> QED BY <1>7, <1>8

LEMMA DataSteps ==
    ASSUME TypeOK, RefsOk, NEW c \in Cells, RecvUeData(c)
    PROVE  /\ TypeOK' /\ RefsOk' /\ ideal = {}
           /\ At(c, 1).type = "UE_DATA" /\ Taken(c) /\ SameContexts
           /\ UNCHANGED <<ueCell, air, ideal, pathSwitches, quickBackhaul>>
           /\ \/ /\ \A r \in Nat : Context(c, r).source = 0
                 /\ ue' = Ue!Abort(ue) /\ SameQueue(Other(c))
              \/ /\ ue' = ue
                 /\ \/ SameQueue(Other(c))
                    \/ /\ Put(Other(c), X2Message("UE_DATA", 0, 0))
                       /\ \E r \in Nat : /\ Context(c, r).source # 0
                                         /\ Context(c, r).state = "HANDOVER_LEAVING"
<1> DEFINE m == X2Message("UE_DATA", 0, 0)
<1>1. UNCHANGED <<contexts, lastAllocatedRnti, air, ideal, mishaps>>
    BY DEF RecvUeData
<1>2. SameContexts /\ Stored' /\ Grows /\ ContextRefsOk'
    BY <1>1, NoneGoes
<1>3. PICK answers :
         /\ RecvX2(c, "UE_DATA", answers)
         /\ \/ answers = <<>> /\ ue' = ue
            \/ /\ answers = <<m>> /\ ue' = ue
               /\ \E r \in WithTeid(c) : contexts[c][r].state = "HANDOVER_LEAVING"
            \/ answers = <<>> /\ WithTeid(c) = {} /\ Halt
    BY DEF RecvUeData
<1>4. m \in X2Messages /\ MessageOk(Other(c), m)'
    <2>1. "UE_DATA" \in X2Types \ {"HANDOVER_REQUEST", "HANDOVER_CANCEL"}
        BY DEF X2Types
    <2>2. 0 <= lastAllocatedRnti'[Other(c)] /\ 0 <= lastAllocatedRnti'[Other(Other(c))]
        BY <1>2, Others DEF Grows
    <2> QED BY <2>1, <2>2, Others, Names
<1>5. /\ ideal = {} /\ At(c, 1).type = "UE_DATA" /\ Taken(c)
      /\ UNCHANGED <<ueCell, pathSwitches, handovers, quickBackhaul>>
      /\ IF answers = <<>> THEN SameQueue(Other(c)) ELSE Put(Other(c), m)
      /\ x2' \in [Cells -> Seq(X2Messages)]
    BY <1>3, <1>4, IsTaken
<1>6. MessageRefsOk'
    <2>1. CASE SameQueue(Other(c))
        BY <1>2, <1>5, <2>1, Others, KeepRefs
    <2>2. CASE Put(Other(c), m)
        <3>1. Taken(Other(Other(c)))
            BY <1>5, Others
        <3> QED BY <1>2, <1>4, <2>2, <3>1, Others, PutRefs
    <2> QED BY <1>5, <2>1, <2>2
<1>7. ue' \in UeStates /\ ue'.rnti = ue.rnti /\ (ue'.rrc = ue.rrc \/ ue'.rrc = "ABORTED")
    BY <1>3, UeAborts DEF TypeOK, Halt
<1>8. TypeOK'
    BY <1>1, <1>2, <1>5, <1>7 DEF TypeOK, Stored, Grows
<1>9. AirRefsOk' /\ UeRefsOk'
    BY <1>1, <1>2, <1>5, <1>7, Unchanging, AirRefs DEF RefsOk, UeRefsOk
<1>10. \/ /\ \A r \in Nat : Context(c, r).source = 0
          /\ ue' = Ue!Abort(ue) /\ SameQueue(Other(c))
       \/ /\ ue' = ue
          /\ \/ SameQueue(Other(c))
             \/ /\ Put(Other(c), m)
                /\ \E r \in Nat : /\ Context(c, r).source # 0
                                  /\ Context(c, r).state = "HANDOVER_LEAVING"
    <2>1. CASE answers = <<>>
        BY <1>3, <1>5, <2>1, Teids DEF Halt
    <2>2. CASE answers # <<>>
        <3>1. PICK r \in WithTeid(c) : contexts[c][r].state = "HANDOVER_LEAVING"
            BY <1>3, <2>2
        <3> QED BY <1>3, <1>5, <2>2, <3>1, Teids
    <2> QED BY <2>1, <2>2
<1> QED BY <1>1, <1>2, <1>5, <1>6, <1>8, <1>9, <1>10 DEF RefsOk

LEMMA SwitchSteps ==
    ASSUME TypeOK, RefsOk, NEW c, NEW r, PathSwitchRequestAcknowledge(c, r)
    PROVE  LET now  == Context(c, r)
               next == Enb!SendUeContextRelease(now)
           IN  /\ TypeOK' /\ RefsOk' /\ ideal = {} /\ c \in Cells /\ r \in Nat
               /\ Removal(c, r) \in pathSwitches
               /\ pathSwitches' = pathSwitches \ {Removal(c, r)}
               /\ UNCHANGED <<ueCell, ideal, quickBackhaul>>
               /\ \/ now.state = "NONE" /\ ue' = Ue!Abort(ue)
                  \/ /\ now.state # "NONE" /\ ue' = ue /\ Becomes(c, r, next)
                     /\ Goes(now, next, IF now.state = "HANDOVER_PATH_SWITCH"
                                        THEN {"CONNECTED_NORMALLY", "CONNECTION_RECONFIGURATION"}
                                        ELSE {"ABORTED"}, now.target)
                     /\ Put(Other(c), X2Message("CONTEXT_RELEASE", now.source, r)) /\ SameQueue(c)
                     /\ \A k \in Cells : \A o \in Nat :
                           /\ \A q \in Nat : Commanded(k, o, q)' <=> Commanded(k, o, q)
                           /\ \A type \in AirTypes \ {"COMMAND"} : Sent(type, k, o)' <=>
                                 \/ Sent(type, k, o)
                                 \/ /\ next.state = "CONNECTION_RECONFIGURATION"
                                    /\ type = "RECONFIGURATION" /\ k = c /\ o = r
<1> DEFINE now    == Context(c, r)
           next   == Enb!SendUeContextRelease(now)
           states == IF now.state = "HANDOVER_PATH_SWITCH"
                     THEN {"CONNECTED_NORMALLY", "CONNECTION_RECONFIGURATION"} ELSE {"ABORTED"}
<1>1. /\ ideal = {} /\ Removal(c, r) \in pathSwitches
      /\ pathSwitches' = pathSwitches \ {Removal(c, r)}
      /\ UNCHANGED <<ueCell, lastAllocatedRnti, ideal, handovers, quickBackhaul>>
    BY DEF PathSwitchRequestAcknowledge, Bounds
<1>2. mishaps' = mishaps
    BY DEF PathSwitchRequestAcknowledge, Bounds
<1>3. c \in Cells /\ r \in Nat
    BY <1>1 DEF TypeOK, Removals, Removal
<1>4. Grows
    BY <1>1, Unchanging
<1>5. CASE ~Has(c, r)
    <2>1. ue' = Ue!Abort(ue) /\ UNCHANGED <<contexts, air, x2>>
        BY <1>5 DEF PathSwitchRequestAcknowledge, Halt
    <2>2. /\ ue' \in UeStates /\ ue'.rnti = ue.rnti /\ ue'.rrc = "ABORTED"
        BY <2>1, UeAborts DEF TypeOK
    <2>3. SameContexts /\ Stored' /\ ContextRefsOk' /\ \A k \in Cells : SameQueue(k)
        BY <1>1, <2>1, NoneGoes, Unchanging
    <2>4. TypeOK'
        BY <1>1, <1>2, <1>4, <2>1, <2>2, <2>3 DEF TypeOK, Stored, Grows
    <2>5. MessageRefsOk' /\ AirRefsOk'
        BY <1>4, <2>1, <2>3, KeepRefs, Unchanging, AirRefs
    <2>6. UeRefsOk'
        BY <1>1, <2>2 DEF RefsOk, UeRefsOk
    <2>7. now.state = "NONE"
        BY <1>5 DEF Context, NoContext
    <2> QED BY <1>1, <1>3, <2>1, <2>3, <2>4, <2>5, <2>6, <2>7 DEF RefsOk
<1>6. CASE Has(c, r)
    <2>1. /\ now = contexts[c][r] /\ now \in Contexts /\ now.state # "NONE"
          /\ r \in 1 .. lastAllocatedRnti[c]
          /\ now.source \in Nat /\ now.source <= lastAllocatedRnti[Other(c)]
          /\ now.target \in Nat /\ now.target <= lastAllocatedRnti[Other(c)]
        BY <1>3, <1>6, ContextTypes DEF Contexts, NoContext, RefsOk, ContextRefsOk
    <2>2. /\ ContextTo(c, r, next) /\ air' = air \cup AnswerOf(c, r, next) /\ ue' = ue
          /\ X2Send(Other(c), <<X2Message("CONTEXT_RELEASE", next.source, r)>>)
        BY <1>6, <2>1 DEF PathSwitchRequestAcknowledge
    <2>3. Goes(now, next, states, now.target)
        BY <2>1, ContextSwitched
    <2>4. next.state \in ContextStates /\ next.source = now.source
        BY <2>3 DEF Goes, Contexts
    <2>5. PICK s : s = now.source /\ s \in Nat
        BY <2>1
    <2> DEFINE m == X2Message("CONTEXT_RELEASE", s, r)
    <2>6. m \in X2Messages /\ MessageOk(Other(c), m)'
        <3>1. "CONTEXT_RELEASE" \in X2Types \ {"HANDOVER_REQUEST", "HANDOVER_CANCEL"}
            BY DEF X2Types
        <3>2. s <= lastAllocatedRnti'[Other(c)] /\ r <= lastAllocatedRnti'[Other(Other(c))]
            BY <1>1, <1>3, <2>1, <2>5, Others DEF TypeOK
        <3> QED BY <1>3, <2>5, <3>1, <3>2, Others, Names
    <2> HIDE DEF next, now
    <2>7. Becomes(c, r, next) /\ Stored' /\ ContextRefsOk'
        BY <1>1, <1>3, <1>6, <2>1, <2>2, <2>3, OneGoes DEF now
    <2>8. /\ air' \subseteq AirMessages
          /\ \A k \in Cells : \A o \in Nat :
                /\ \A q \in Nat : Commanded(k, o, q)' <=> Commanded(k, o, q)
                /\ \A type \in AirTypes \ {"COMMAND"} : Sent(type, k, o)' <=>
                      \/ Sent(type, k, o)
                      \/ /\ next.state = "CONNECTION_RECONFIGURATION"
                         /\ type = "RECONFIGURATION" /\ k = c /\ o = r
        BY <1>3, <2>2, <2>4, AnswerAdds
    <2>9. /\ Put(Other(c), m) /\ SameQueue(c) /\ x2' \in [Cells -> Seq(X2Messages)]
        <3>1. X2Send(Other(c), <<m>>)
            BY <2>2, <2>4, <2>5
        <3> QED BY <1>3, <2>6, <3>1, Others, IsPut
    <2>10. TypeOK'
        BY <1>1, <1>2, <1>4, <2>2, <2>7, <2>8, <2>9 DEF TypeOK, Stored, Grows
    <2>11. MessageRefsOk' /\ AirRefsOk'
        <3>1. MessageRefsOk'
            BY <1>3, <1>4, <2>6, <2>9, Others, PutRefs
        <3>2. AirRefsOk'
            BY <1>1, <1>4, <2>1, <2>8, AirRefs
        <3> QED BY <3>1, <3>2
    <2>12. UeRefsOk'
        BY <1>1, <2>2 DEF RefsOk, UeRefsOk
    <2>13. Put(Other(c), X2Message("CONTEXT_RELEASE", now.source, r))
        BY <2>5, <2>9
    <2> QED BY <1>1, <1>3, <2>1, <2>2, <2>3, <2>7, <2>8, <2>9, <2>10, <2>11, <2>12, <2>13
        DEF RefsOk, now, next
<1> QED BY <1>5, <1>6

LEMMA RadioSteps ==
    ASSUME TypeOK, RefsOk,
           UNCHANGED <<contexts, lastAllocatedRnti, x2, pathSwitches, handovers, quickBackhaul>>,
           mishaps' \in Nat, ue' \in UeStates, ueCell' \in Cells,
           ideal' \subseteq Removals \cup {Release}, air' \subseteq AirMessages,
           ue'.rnti <= lastAllocatedRnti[ueCell'], ue'.rrc = "IDLE_CELL_SEARCH" => ue'.rnti = 0,
           \A k \in Cells : \A r \in Nat :
              /\ \A n \in Nat : Commanded(k, r, n)' => Commanded(k, r, n)
              /\ \A type \in AirTypes \ {"COMMAND"} :
                    Sent(type, k, r)' => Sent(type, k, r) \/ r \in 1 .. lastAllocatedRnti[k]
    PROVE  TypeOK' /\ RefsOk' /\ SameContexts /\ \A k \in Cells : SameQueue(k)
<1>1. SameContexts /\ Stored' /\ Grows /\ ContextRefsOk' /\ \A k \in Cells : SameQueue(k)
    BY NoneGoes, Unchanging
<1>2. TypeOK'
    BY <1>1 DEF TypeOK, Stored, Grows
<1>3. MessageRefsOk'
    BY <1>1, KeepRefs
<1>4. AirRefsOk'
    BY <1>1, AirRefs
<1>5. UeRefsOk'
    BY DEF UeRefsOk
<1> QED BY <1>1, <1>2, <1>3, <1>4, <1>5 DEF RefsOk

LEMMA CommandSteps ==
    ASSUME TypeOK, RefsOk, InStep, ~Aborted, NEW m \in air, ArriveCommand(m)
    PROVE  /\ TypeOK' /\ RefsOk' /\ Quiet /\ SameContexts /\ \A k \in Cells : SameQueue(k)
           /\ UNCHANGED <<ideal, pathSwitches, quickBackhaul>>
           /\ m.cell \in Cells /\ m.rnti \in Nat /\ m.new \in Nat
           /\ Commanded(m.cell, m.rnti, m.new)
           /\ IF m.cell = ueCell /\ m.rnti = ue.rnti
              THEN /\ ue.rrc = "CONNECTED_NORMALLY"
                   /\ ueCell' = Other(ueCell) /\ ue' = Ue!RecvHandoverCommand(ue, m.new)
              ELSE UNCHANGED <<ue, ueCell>>
           /\ \A k \in Cells : \A r \in Nat :
                 /\ \A n \in Nat : Commanded(k, r, n)' <=>
                       Commanded(k, r, n) /\ ~(k = m.cell /\ r = m.rnti /\ n = m.new)
                 /\ \A type \in AirTypes \ {"COMMAND"} : Sent(type, k, r)' <=> Sent(type, k, r)
<1>1. /\ Quiet /\ m.type = "COMMAND" /\ air' = air \ {m}
      /\ UNCHANGED <<contexts, lastAllocatedRnti, x2, pathSwitches, handovers, quickBackhaul, ideal,
                     mishaps>>
      /\ IF m.cell = ueCell /\ m.rnti = ue.rnti
         THEN ueCell' = Other(ueCell) /\ ue' = Ue!RecvHandoverCommand(ue, m.new)
         ELSE UNCHANGED <<ue, ueCell>>
    BY DEF ArriveCommand, UeTo, IsForUe
<1>2. /\ air' \subseteq AirMessages /\ m.cell \in Cells /\ m.rnti \in Nat /\ m.new \in Nat
      /\ Commanded(m.cell, m.rnti, m.new)
      /\ \A k \in Cells : \A r \in Nat :
            /\ \A n \in Nat : Commanded(k, r, n)' <=>
                  Commanded(k, r, n) /\ ~(k = m.cell /\ r = m.rnti /\ n = m.new)
            /\ \A type \in AirTypes \ {"COMMAND"} : Sent(type, k, r)' <=> Sent(type, k, r)
    BY <1>1, AirDrops
<1>3. /\ ue \in UeStates /\ ueCell \in Cells
      /\ ue.rnti <= lastAllocatedRnti[ueCell]
      /\ ue.rrc = "IDLE_CELL_SEARCH" => ue.rnti = 0
    BY DEF TypeOK, RefsOk, UeRefsOk
<1>4. m.rnti \in 1 .. lastAllocatedRnti[m.cell] /\ m.new <= lastAllocatedRnti[Other(m.cell)]
    BY <1>2 DEF RefsOk, AirRefsOk
<1>5. m.cell = ueCell /\ m.rnti = ue.rnti => ue.rrc = "CONNECTED_NORMALLY"
    <2>1. CASE Live
        BY <1>2, <2>1 DEF InStep, QueuesOk, CommandOk, UeAt
    <2>2. CASE ~Live
        <3>1. ue.rrc = "IDLE_CELL_SEARCH"
            BY <1>1, <1>3, <2>2, NotAborted DEF Live, Alive, Quiet, UeStates, RrcStates
        <3> QED BY <1>3, <1>4, <3>1
    <2> QED BY <2>1, <2>2
<1>6. /\ ue' \in UeStates /\ ueCell' \in Cells
      /\ ue'.rnti <= lastAllocatedRnti[ueCell']
      /\ ue'.rrc = "IDLE_CELL_SEARCH" => ue'.rnti = 0
    <2>1. CASE m.cell = ueCell /\ m.rnti = ue.rnti
        <3>1. ueCell' = Other(ueCell) /\ ue' = Ue!RecvHandoverCommand(ue, m.new)
            BY <1>1, <2>1
        <3>2. ue' \in UeStates /\ ue'.rrc = "CONNECTED_HANDOVER" /\ ue'.rnti = m.new
            BY <1>2, <1>3, <1>5, <2>1, <3>1, UeHandsOver
        <3> QED BY <1>3, <1>4, <2>1, <3>1, <3>2, Others
    <2>2. CASE ~(m.cell = ueCell /\ m.rnti = ue.rnti)
        BY <1>1, <1>3, <2>2
    <2> QED BY <2>1, <2>2
<1>7. TypeOK' /\ RefsOk' /\ SameContexts /\ \A k \in Cells : SameQueue(k)
    <2>1. mishaps' \in Nat /\ ideal' \subseteq Removals \cup {Release}
        BY <1>1 DEF TypeOK
    <2> QED BY <1>1, <1>2, <1>6, <2>1, RadioSteps
<1> QED BY <1>1, <1>2, <1>5, <1>7

LEMMA ReconfigurationSteps ==
    ASSUME TypeOK, RefsOk, NEW m \in air, ArriveReconfiguration(m)
    PROVE  /\ TypeOK' /\ RefsOk' /\ Quiet /\ SameContexts /\ \A k \in Cells : SameQueue(k)
           /\ UNCHANGED <<ueCell, ideal, pathSwitches, quickBackhaul>>
           /\ m.cell \in Cells /\ m.rnti \in Nat /\ Sent("RECONFIGURATION", m.cell, m.rnti)
           /\ ue' = IF m.cell = ueCell /\ m.rnti = ue.rnti
                    THEN Ue!RecvRrcConnectionReconfiguration(ue) ELSE ue
           /\ \A k \in Cells : \A r \in Nat :
                 /\ \A n \in Nat : Commanded(k, r, n)' <=> Commanded(k, r, n)
                 /\ Sent("RAR", k, r)' <=> Sent("RAR", k, r)
                 /\ Sent("RECONFIGURATION", k, r)' <=>
                       Sent("RECONFIGURATION", k, r) /\ ~(k = m.cell /\ r = m.rnti)
                 /\ Sent("RECONFIGURATION_COMPLETED", k, r)' <=>
                       \/ Sent("RECONFIGURATION_COMPLETED", k, r)
                       \/ k = m.cell /\ r = m.rnti /\ m.cell = ueCell /\ m.rnti = ue.rnti
<1>1. /\ Quiet /\ m.type = "RECONFIGURATION"
      /\ air' = IF m.cell = ueCell /\ m.rnti = ue.rnti
                THEN (air \ {m}) \cup {Message("RECONFIGURATION_COMPLETED", ueCell, ue.rnti)}
                ELSE air \ {m}
      /\ UNCHANGED <<contexts, lastAllocatedRnti, x2, pathSwitches, handovers, quickBackhaul, ideal,
                     ueCell, mishaps>>
      /\ ue' = IF m.cell = ueCell /\ m.rnti = ue.rnti
               THEN Ue!RecvRrcConnectionReconfiguration(ue) ELSE ue
    BY DEF ArriveReconfiguration, UeTo, IsForUe
<1>2. ue \in UeStates /\ ueCell \in Cells /\ ue.rnti \in Nat
    BY DEF TypeOK, UeStates
<1>3. /\ air' \subseteq AirMessages /\ m.cell \in Cells /\ m.rnti \in Nat
      /\ Sent("RECONFIGURATION", m.cell, m.rnti)
      /\ \A k \in Cells : \A r \in Nat :
            /\ \A n \in Nat : Commanded(k, r, n)' <=> Commanded(k, r, n)
            /\ Sent("RAR", k, r)' <=> Sent("RAR", k, r)
            /\ Sent("RECONFIGURATION", k, r)' <=>
                  Sent("RECONFIGURATION", k, r) /\ ~(k = m.cell /\ r = m.rnti)
            /\ Sent("RECONFIGURATION_COMPLETED", k, r)' <=>
                  \/ Sent("RECONFIGURATION_COMPLETED", k, r)
                  \/ k = m.cell /\ r = m.rnti /\ m.cell = ueCell /\ m.rnti = ue.rnti
    <2>1. CASE m.cell = ueCell /\ m.rnti = ue.rnti
        <3>1. air' = (air \ {m}) \cup {Message("RECONFIGURATION_COMPLETED", ueCell, ue.rnti)}
            BY <1>1, <2>1
        <3> QED BY <1>1, <1>2, <2>1, <3>1, AirMoves DEF AirTypes
    <2>2. CASE ~(m.cell = ueCell /\ m.rnti = ue.rnti)
        <3>1. air' = air \ {m}
            BY <1>1, <2>2
        <3> QED BY <1>1, <2>2, <3>1, AirDrops DEF AirTypes
    <2> QED BY <2>1, <2>2
<1>4. ue' \in UeStates /\ ue'.rnti = ue.rnti /\ (ue' = ue \/ ue'.rrc = "ABORTED")
    BY <1>1, <1>2, UeReconfigures
<1>5. /\ ue'.rnti <= lastAllocatedRnti[ueCell']
      /\ ue'.rrc = "IDLE_CELL_SEARCH" => ue'.rnti = 0
    BY <1>1, <1>4 DEF RefsOk, UeRefsOk
<1>6. m.rnti \in 1 .. lastAllocatedRnti[m.cell]
    BY <1>3 DEF RefsOk, AirRefsOk, AirTypes
<1>7. \A k \in Cells : \A r \in Nat :
         /\ \A n \in Nat : Commanded(k, r, n)' => Commanded(k, r, n)
         /\ \A type \in AirTypes \ {"COMMAND"} :
               Sent(type, k, r)' => Sent(type, k, r) \/ r \in 1 .. lastAllocatedRnti[k]
    BY <1>3, <1>6 DEF AirTypes
<1>8. TypeOK' /\ RefsOk' /\ SameContexts /\ \A k \in Cells : SameQueue(k)
    <2>1. mishaps' \in Nat /\ ideal' \subseteq Removals \cup {Release} /\ ueCell' \in Cells
        BY <1>1 DEF TypeOK
    <2> QED BY <1>1, <1>3, <1>4, <1>5, <1>7, <2>1, RadioSteps
<1> QED BY <1>1, <1>3, <1>8

LEMMA ResponseSteps ==
    ASSUME TypeOK, RefsOk, NEW m \in air, ArriveRaResponse(m)
    PROVE  LET for == m.cell = ueCell /\ ue.rrc = "CONNECTED_HANDOVER"
           IN  /\ TypeOK' /\ RefsOk' /\ Quiet /\ SameContexts /\ \A k \in Cells : SameQueue(k)
               /\ UNCHANGED <<ueCell, ideal, pathSwitches, quickBackhaul>>
               /\ m.cell \in Cells /\ m.rnti \in Nat /\ Sent("RAR", m.cell, m.rnti)
               /\ ue' = IF for THEN Ue!RecvRaResponse(ue, m.rnti) ELSE ue
               /\ \A k \in Cells : \A r \in Nat :
                     /\ \A n \in Nat : Commanded(k, r, n)' <=> Commanded(k, r, n)
                     /\ Sent("RAR", k, r)' <=>
                           Sent("RAR", k, r) /\ ~(k = m.cell /\ r = m.rnti)
                     /\ Sent("RECONFIGURATION", k, r)' <=> Sent("RECONFIGURATION", k, r)
                     /\ Sent("RECONFIGURATION_COMPLETED", k, r)' <=>
                           \/ Sent("RECONFIGURATION_COMPLETED", k, r)
                           \/ k = m.cell /\ r = m.rnti /\ for
<1> DEFINE for == m.cell = ueCell /\ ue.rrc = "CONNECTED_HANDOVER"
<1>1. /\ Quiet /\ m.type = "RAR"
      /\ air' = IF for
                THEN (air \ {m}) \cup {Message("RECONFIGURATION_COMPLETED", ueCell, m.rnti)}
                ELSE air \ {m}
      /\ UNCHANGED <<contexts, lastAllocatedRnti, x2, pathSwitches, handovers, quickBackhaul, ideal,
                     ueCell, mishaps>>
      /\ ue' = IF for THEN Ue!RecvRaResponse(ue, m.rnti) ELSE ue
    BY DEF ArriveRaResponse, UeTo
<1>2. /\ ue \in UeStates /\ ueCell \in Cells /\ ue.rnti <= lastAllocatedRnti[ueCell]
      /\ ue.rrc = "IDLE_CELL_SEARCH" => ue.rnti = 0
    BY DEF TypeOK, RefsOk, UeRefsOk
<1>3. /\ air' \subseteq AirMessages /\ m.cell \in Cells /\ m.rnti \in Nat
      /\ Sent("RAR", m.cell, m.rnti)
      /\ \A k \in Cells : \A r \in Nat :
            /\ \A n \in Nat : Commanded(k, r, n)' <=> Commanded(k, r, n)
            /\ Sent("RAR", k, r)' <=> Sent("RAR", k, r) /\ ~(k = m.cell /\ r = m.rnti)
            /\ Sent("RECONFIGURATION", k, r)' <=> Sent("RECONFIGURATION", k, r)
            /\ Sent("RECONFIGURATION_COMPLETED", k, r)' <=>
                  \/ Sent("RECONFIGURATION_COMPLETED", k, r)
                  \/ k = m.cell /\ r = m.rnti /\ for
    <2>1. CASE for
        <3>1. air' = (air \ {m}) \cup {Message("RECONFIGURATION_COMPLETED", ueCell, m.rnti)}
            BY <1>1, <2>1
        <3>2. m.rnti \in Nat
            BY AirFacts DEF TypeOK
        <3> QED BY <1>1, <1>2, <2>1, <3>1, <3>2, AirMoves DEF AirTypes
    <2>2. CASE ~for
        <3>1. air' = air \ {m}
            BY <1>1, <2>2
        <3> QED BY <1>1, <2>2, <3>1, AirDrops DEF AirTypes
    <2> QED BY <2>1, <2>2
<1>4. m.rnti \in 1 .. lastAllocatedRnti[m.cell]
    BY <1>3 DEF RefsOk, AirRefsOk, AirTypes
<1>5. /\ ue' \in UeStates /\ ue'.rnti <= lastAllocatedRnti[ueCell']
      /\ ue'.rrc = "IDLE_CELL_SEARCH" => ue'.rnti = 0
    <2>1. CASE for
        <3>1. /\ ue' = Ue!RecvRaResponse(ue, m.rnti) /\ ue.rrc = "CONNECTED_HANDOVER"
              /\ ueCell' = m.cell
            BY <1>1, <2>1
        <3>2. ue' \in UeStates /\ ue'.rnti = m.rnti /\ ue'.rrc = "CONNECTED_NORMALLY"
            BY <1>2, <1>3, <3>1, UeAccesses
        <3>3. lastAllocatedRnti[m.cell] \in Nat
            BY <1>3 DEF TypeOK
        <3> QED BY <1>3, <1>4, <3>1, <3>2, <3>3
    <2>2. CASE ~for
        BY <1>1, <1>2, <2>2
    <2> QED BY <2>1, <2>2
<1>6. \A k \in Cells : \A r \in Nat :
         /\ \A n \in Nat : Commanded(k, r, n)' => Commanded(k, r, n)
         /\ \A type \in AirTypes \ {"COMMAND"} :
               Sent(type, k, r)' => Sent(type, k, r) \/ r \in 1 .. lastAllocatedRnti[k]
    BY <1>3, <1>4 DEF AirTypes
<1>7. TypeOK' /\ RefsOk' /\ SameContexts /\ \A k \in Cells : SameQueue(k)
    <2>1. mishaps' \in Nat /\ ideal' \subseteq Removals \cup {Release} /\ ueCell' \in Cells
        BY <1>1 DEF TypeOK
    <2> QED BY <1>1, <1>3, <1>5, <1>6, <2>1, RadioSteps
<1> QED BY <1>1, <1>3, <1>7

LEMMA TimeoutSteps ==
    ASSUME TypeOK, RefsOk, RaResponseTimeout
    PROVE  /\ TypeOK' /\ RefsOk' /\ Quiet /\ SameContexts /\ \A k \in Cells : SameQueue(k)
           /\ UNCHANGED <<ueCell, air, pathSwitches, quickBackhaul>>
           /\ ue.rrc = "CONNECTED_HANDOVER" /\ \A r \in Nat : ~Sent("RAR", ueCell, r)
           /\ \/ /\ ue'.rrc = "CONNECTED_HANDOVER" /\ ue'.rnti = ue.rnti
                 /\ ideal' = {}
              \/ /\ ue'.rrc = "IDLE_CELL_SEARCH"
                 /\ ideal' = {Removal(ueCell, ue.rnti)}
<1>1. /\ Quiet /\ ue.rrc = "CONNECTED_HANDOVER" /\ air' = air
      /\ ~ \E m \in air : m.type = "RAR" /\ m.cell = ueCell
      /\ UNCHANGED <<contexts, lastAllocatedRnti, x2, pathSwitches, handovers, quickBackhaul,
                     ueCell, mishaps>>
      /\ ue' = Ue!RaResponseTimeout(ue)
      /\ ideal' = IF ue'.rrc = "CONNECTED_HANDOVER" THEN {} ELSE {Removal(ueCell, ue.rnti)}
    BY DEF RaResponseTimeout, UeTo
<1>2. ue \in UeStates /\ ueCell \in Cells /\ ue.rnti \in Nat /\ ue.rnti <= lastAllocatedRnti[ueCell]
    BY DEF TypeOK, RefsOk, UeRefsOk, UeStates
<1>3. /\ ue' \in UeStates
      /\ \/ ue'.rrc = "CONNECTED_HANDOVER" /\ ue'.rnti = ue.rnti
         \/ ue'.rrc = "IDLE_CELL_SEARCH" /\ ue'.rnti = 0
    BY <1>1, <1>2, UeRepeats
<1>4. \A r \in Nat : ~Sent("RAR", ueCell, r)
    BY <1>1 DEF Sent, Message
<1>5. \A k \in Cells : \A r \in Nat :
         /\ \A n \in Nat : Commanded(k, r, n)' => Commanded(k, r, n)
         /\ \A type \in AirTypes \ {"COMMAND"} :
               Sent(type, k, r)' => Sent(type, k, r) \/ r \in 1 .. lastAllocatedRnti[k]
    BY <1>1, Unchanging
<1>6. TypeOK' /\ RefsOk' /\ SameContexts /\ \A k \in Cells : SameQueue(k)
    <2>1. mishaps' \in Nat /\ air' \subseteq AirMessages /\ ueCell' = ueCell
        BY <1>1 DEF TypeOK
    <2>2. ideal' \subseteq Removals \cup {Release}
        BY <1>1, <1>2 DEF Removals, Removal
    <2>3. /\ ue'.rnti <= lastAllocatedRnti[ueCell']
          /\ ue'.rrc = "IDLE_CELL_SEARCH" => ue'.rnti = 0
        BY <1>2, <1>3, <2>1 DEF TypeOK
    <2> QED BY <1>1, <1>2, <1>3, <1>5, <2>1, <2>2, <2>3, RadioSteps
<1> QED BY <1>1, <1>3, <1>4, <1>6

LEMMA LinkFailureSteps ==
    ASSUME TypeOK, RefsOk, RadioLinkFailureDetected
    PROVE  /\ TypeOK' /\ RefsOk' /\ Quiet /\ SameContexts /\ \A k \in Cells : SameQueue(k)
           /\ UNCHANGED <<ueCell, air, pathSwitches, quickBackhaul>>
           /\ ue.rrc = "CONNECTED_NORMALLY" /\ Mine.state # "HANDOVER_JOINING"
           /\ ue'.rrc = "IDLE_CELL_SEARCH" /\ ideal' = {Removal(ueCell, ue.rnti)}
<1>1. /\ Quiet /\ ue.rrc = "CONNECTED_NORMALLY" /\ air' = air
      /\ Has(ueCell, ue.rnti) => contexts[ueCell][ue.rnti].state # "HANDOVER_JOINING"
      /\ UNCHANGED <<contexts, lastAllocatedRnti, x2, pathSwitches, handovers, quickBackhaul,
                     ueCell>>
      /\ mishaps' = mishaps + 1
      /\ ue' = Ue!LeaveCell(ue) /\ ideal' = {Removal(ueCell, ue.rnti)}
    BY DEF RadioLinkFailureDetected, UeTo, Ue!Connected, Ue!RadioLinkFailureDetected, Mishap
<1>2. ue \in UeStates /\ ueCell \in Cells /\ ue.rnti \in Nat
    BY DEF TypeOK, UeStates
<1>3. ue' \in UeStates /\ ue'.rrc = "IDLE_CELL_SEARCH" /\ ue'.rnti = 0
    BY <1>1, <1>2, UeLeaves
<1>4. Mine.state # "HANDOVER_JOINING"
    BY <1>1 DEF Mine, Context, NoContext
<1>5. \A k \in Cells : \A r \in Nat :
         /\ \A n \in Nat : Commanded(k, r, n)' => Commanded(k, r, n)
         /\ \A type \in AirTypes \ {"COMMAND"} :
               Sent(type, k, r)' => Sent(type, k, r) \/ r \in 1 .. lastAllocatedRnti[k]
    BY <1>1, Unchanging
<1>6. TypeOK' /\ RefsOk' /\ SameContexts /\ \A k \in Cells : SameQueue(k)
    <2>1. mishaps' \in Nat /\ air' \subseteq AirMessages /\ ueCell' = ueCell
        BY <1>1 DEF TypeOK
    <2>2. ideal' \subseteq Removals \cup {Release}
        BY <1>1, <1>2 DEF Removals, Removal
    <2>3. ue'.rnti <= lastAllocatedRnti[ueCell']
        BY <1>2, <1>3, <2>1 DEF TypeOK
    <2> QED BY <1>1, <1>2, <1>3, <1>5, <2>1, <2>2, <2>3, RadioSteps
<1> QED BY <1>1, <1>3, <1>4, <1>6

LEMMA ReleaseSteps ==
    ASSUME TypeOK, RefsOk, InStep, RecvRrcConnectionRelease
    PROVE  /\ TypeOK' /\ RefsOk' /\ SameContexts /\ \A k \in Cells : SameQueue(k)
           /\ UNCHANGED <<ueCell, air, pathSwitches, quickBackhaul>>
           /\ ideal = {Release}
           /\ IF Alive THEN /\ ue'.rrc = "IDLE_CELL_SEARCH"
                            /\ ideal' = {Removal(ueCell, ue.rnti)}
              ELSE ue' = ue /\ ideal' = {}
<1>1. /\ Release \in ideal /\ air' = air
      /\ UNCHANGED <<contexts, lastAllocatedRnti, x2, pathSwitches, handovers, quickBackhaul,
                     ueCell, mishaps>>
      /\ ue' = Ue!RecvRrcConnectionRelease(ue)
      /\ ideal' = (ideal \ {Release})
                    \cup (IF ue' = ue THEN {} ELSE {Removal(ueCell, ue.rnti)})
    BY DEF RecvRrcConnectionRelease, UeTo
<1>2. /\ ue \in UeStates /\ ueCell \in Cells /\ ue.rnti \in Nat
      /\ ue.rnti <= lastAllocatedRnti[ueCell]
      /\ ue.rrc = "IDLE_CELL_SEARCH" => ue.rnti = 0
    BY DEF TypeOK, UeStates, RefsOk, UeRefsOk
<1>3. ideal = {Release}
    <2>1. \A k \in Cells : \A r \in Nat : Removal(k, r) # Release
        BY DEF Removal, Release, Cells
    <2> QED BY <1>1, <2>1 DEF InStep, RadioOk, IdealOk
<1>4. /\ ue' \in UeStates
      /\ IF Alive THEN ue' # ue /\ ue'.rrc = "IDLE_CELL_SEARCH" /\ ue'.rnti = 0 ELSE ue' = ue
    BY <1>1, <1>2, UeIsReleased DEF Alive
<1>5. IF Alive THEN ideal' = {Removal(ueCell, ue.rnti)} ELSE ideal' = {}
    BY <1>1, <1>3, <1>4
<1>6. \A k \in Cells : \A r \in Nat :
         /\ \A n \in Nat : Commanded(k, r, n)' => Commanded(k, r, n)
         /\ \A type \in AirTypes \ {"COMMAND"} :
               Sent(type, k, r)' => Sent(type, k, r) \/ r \in 1 .. lastAllocatedRnti[k]
    BY <1>1, Unchanging
<1>7. TypeOK' /\ RefsOk' /\ SameContexts /\ \A k \in Cells : SameQueue(k)
    <2>1. mishaps' \in Nat /\ air' \subseteq AirMessages /\ ueCell' = ueCell
        BY <1>1 DEF TypeOK
    <2>2. ideal' \subseteq Removals \cup {Release}
        BY <1>2, <1>5 DEF Removals, Removal
    <2>3. /\ ue'.rnti <= lastAllocatedRnti[ueCell']
          /\ ue'.rrc = "IDLE_CELL_SEARCH" => ue'.rnti = 0
        <3>1. lastAllocatedRnti[ueCell] \in Nat
            BY <1>2 DEF TypeOK
        <3> QED BY <1>2, <1>4, <2>1, <3>1
    <2> QED BY <1>1, <1>2, <1>4, <1>6, <2>1, <2>2, <2>3, RadioSteps
<1> QED BY <1>1, <1>3, <1>4, <1>5, <1>7

Responds(c, r, new) ==
    /\ \A k \in Cells : \A o \in Nat :
          /\ \A q \in Nat : Commanded(k, o, q)' <=> Commanded(k, o, q)
          /\ \A type \in AirTypes \ {"COMMAND"} : Sent(type, k, o)' <=>
                Sent(type, k, o) \/ (type = "RAR" /\ k = c /\ o = r)
    /\ \/ SameContexts /\ Context(c, r).source # 0
       \/ /\ \A q \in Nat : Context(c, q).source = 0
          /\ r = new /\ Becomes(c, new, Enb!InitContext)

LEMMA PreambleSteps ==
    ASSUME TypeOK, RefsOk, RecvPreamble, NEW c, c = ueCell, NEW new, new = lastAllocatedRnti[c] + 1
    PROVE  /\ TypeOK' /\ RefsOk' /\ Quiet /\ c \in Cells /\ \A k \in Cells : SameQueue(k)
           /\ UNCHANGED <<ueCell, ideal, pathSwitches, quickBackhaul>>
           /\ ue.preambleSent /\ ue'.rrc = ue.rrc /\ ue'.rnti = ue.rnti /\ ue'.preambleSent = FALSE
           /\ \E r \in Nat : Responds(c, r, new)
<1>1. /\ Quiet /\ ue.preambleSent /\ ue' = [ue EXCEPT !.preambleSent = FALSE]
      /\ UNCHANGED <<ueCell, handovers, quickBackhaul, ideal, x2, pathSwitches, mishaps>>
      /\ \/ /\ WithTeid(c) = {} /\ AddUe(c, Enb!InitContext)
            /\ air' = air \cup {Message("RAR", c, lastAllocatedRnti'[c])}
         \/ \E r \in WithTeid(c) : /\ air' = air \cup {Message("RAR", c, r)}
                                   /\ UNCHANGED <<contexts, lastAllocatedRnti>>
    BY DEF RecvPreamble, EnbTo
<1>2. /\ ue \in UeStates /\ c \in Cells /\ ue.rnti \in Nat /\ new \in Nat
      /\ ue.rnti <= lastAllocatedRnti[c] /\ lastAllocatedRnti[c] \in Nat
      /\ ue.rrc = "IDLE_CELL_SEARCH" => ue.rnti = 0
    BY DEF TypeOK, RefsOk, UeRefsOk, UeStates
<1>3. /\ ue' \in UeStates /\ ue'.rrc = ue.rrc /\ ue'.rnti = ue.rnti
      /\ ue'.preambleSent = FALSE
    <2>1. ue \in UeStates /\ ue' = [ue EXCEPT !.preambleSent = FALSE]
        BY <1>1, <1>2
    <2> QED BY <2>1 DEF UeStates
<1>4. (\A k \in Cells : SameQueue(k)) /\ "RAR" \in AirTypes \ {"COMMAND"}
    BY <1>1, Unchanging DEF AirTypes
<1>5. ASSUME NEW r \in Nat, air' = air \cup {Message("RAR", c, r)}
      PROVE  /\ air' \subseteq AirMessages
             /\ \A k \in Cells : \A o \in Nat :
                   /\ \A q \in Nat : Commanded(k, o, q)' <=> Commanded(k, o, q)
                   /\ \A type \in AirTypes \ {"COMMAND"} : Sent(type, k, o)' <=>
                         Sent(type, k, o) \/ (type = "RAR" /\ k = c /\ o = r)
    BY <1>2, <1>4, <1>5, AirAdds
<1>6. ASSUME Stored', Grows, ContextRefsOk', air' \subseteq AirMessages, NEW r \in Nat,
             r \in 1 .. lastAllocatedRnti'[c],
             \A k \in Cells : \A o \in Nat :
                   /\ \A q \in Nat : Commanded(k, o, q)' <=> Commanded(k, o, q)
                   /\ \A type \in AirTypes \ {"COMMAND"} : Sent(type, k, o)' <=>
                         Sent(type, k, o) \/ (type = "RAR" /\ k = c /\ o = r)
      PROVE  TypeOK' /\ RefsOk'
    <2>1. TypeOK'
        BY <1>1, <1>3, <1>6 DEF TypeOK, Stored, Grows
    <2>2. MessageRefsOk'
        BY <1>4, <1>6, KeepRefs
    <2>3. AirRefsOk'
        BY <1>6, AirRefs
    <2>4. UeRefsOk'
        <3>1. /\ lastAllocatedRnti[c] <= lastAllocatedRnti'[c] /\ lastAllocatedRnti'[c] \in Nat
              /\ ueCell' = c
            BY <1>1, <1>2, <1>6 DEF Grows
        <3> QED BY <1>2, <1>3, <3>1 DEF UeRefsOk
    <2> QED BY <1>6, <2>1, <2>2, <2>3, <2>4 DEF RefsOk
<1>7. CASE /\ WithTeid(c) = {} /\ AddUe(c, Enb!InitContext)
           /\ air' = air \cup {Message("RAR", c, lastAllocatedRnti'[c])}
    <2>1. /\ Becomes(c, new, Enb!InitContext) /\ Stored' /\ Grows
          /\ new # 0 /\ lastAllocatedRnti'[c] = new /\ Enb!InitContext \in Contexts
        BY <1>2, <1>7, ContextComes, StoredNew, NewContexts DEF TypeOK
    <2>2. \A q \in Nat : Context(c, q).source = 0
        BY <1>2, <1>7, Teids
    <2>3. ContextRefsOk'
        <3>1. 0 <= lastAllocatedRnti[Other(c)]
            BY <1>2, Others DEF TypeOK
        <3> QED BY <1>2, <2>1, <3>1, NewContexts, ContextRefs
    <2>4. air' = air \cup {Message("RAR", c, new)} /\ new \in 1 .. lastAllocatedRnti'[c]
        BY <1>2, <1>7, <2>1
    <2>5. /\ air' \subseteq AirMessages
          /\ \A k \in Cells : \A o \in Nat :
                /\ \A q \in Nat : Commanded(k, o, q)' <=> Commanded(k, o, q)
                /\ \A type \in AirTypes \ {"COMMAND"} : Sent(type, k, o)' <=>
                      Sent(type, k, o) \/ (type = "RAR" /\ k = c /\ o = new)
        BY <1>2, <1>5, <2>4
    <2>6. TypeOK' /\ RefsOk'
        BY <1>2, <1>6, <2>1, <2>3, <2>4, <2>5
    <2>7. Responds(c, new, new)
        BY <2>1, <2>2, <2>5 DEF Responds
    <2> QED BY <1>1, <1>2, <1>3, <1>4, <2>6, <2>7
<1>8. ASSUME NEW r \in WithTeid(c), air' = air \cup {Message("RAR", c, r)},
             UNCHANGED <<contexts, lastAllocatedRnti>>
      PROVE  /\ TypeOK' /\ RefsOk' /\ SameContexts /\ r \in Nat /\ Context(c, r).source # 0
             /\ \A k \in Cells : \A o \in Nat :
                   /\ \A q \in Nat : Commanded(k, o, q)' <=> Commanded(k, o, q)
                   /\ \A type \in AirTypes \ {"COMMAND"} : Sent(type, k, o)' <=>
                         Sent(type, k, o) \/ (type = "RAR" /\ k = c /\ o = r)
    <2>1. SameContexts /\ Stored' /\ Grows /\ ContextRefsOk'
        BY <1>8, NoneGoes
    <2>2. r \in Nat /\ Context(c, r).source # 0 /\ Has(c, r)
        BY <1>2, <1>8, Teids
    <2>3. r \in 1 .. lastAllocatedRnti'[c]
        BY <1>2, <1>8, <2>2, ContextTypes
    <2>4. /\ air' \subseteq AirMessages
          /\ \A k \in Cells : \A o \in Nat :
                /\ \A q \in Nat : Commanded(k, o, q)' <=> Commanded(k, o, q)
                /\ \A type \in AirTypes \ {"COMMAND"} : Sent(type, k, o)' <=>
                      Sent(type, k, o) \/ (type = "RAR" /\ k = c /\ o = r)
        BY <1>5, <1>8, <2>2
    <2> QED BY <1>6, <2>1, <2>2, <2>3, <2>4
<1> QED BY <1>1, <1>2, <1>3, <1>4, <1>7, <1>8 DEF Responds

Confirmed(state) ==
    IF state = "CONNECTION_RECONFIGURATION"
    THEN {"CONNECTED_NORMALLY", "CONNECTION_RECONFIGURATION"}
    ELSE IF state = "HANDOVER_JOINING" THEN {"HANDOVER_PATH_SWITCH"}
    ELSE IF state \in {"CONNECTED_NORMALLY", "HANDOVER_LEAVING"} THEN {state} ELSE {"ABORTED"}

\* The states a completed reconfiguration leaves a context in.
LEMMA Confirms ==
    ASSUME NEW now \in Contexts
    PROVE  Goes(now, Enb!RecvRrcConnectionReconfigurationCompleted(now), Confirmed(now.state),
                now.target)
<1>1. CASE now.state \in {"CONNECTED_NORMALLY", "HANDOVER_LEAVING"}
    <2>1. Enb!RecvRrcConnectionReconfigurationCompleted(now) = now
        BY <1>1, ContextConfirmed
    <2>2. Goes(now, now, {now.state}, now.target)
        BY DEF Goes
    <2> QED BY <1>1, <2>1, <2>2 DEF Confirmed
<1>2. CASE now.state \notin {"CONNECTED_NORMALLY", "HANDOVER_LEAVING"}
    BY <1>2, ContextConfirmed DEF Confirmed
<1> QED BY <1>1, <1>2

LEMMA CompletedSteps ==
    ASSUME TypeOK, RefsOk, NEW m \in air, ArriveCompleted(m),
           NEW c, NEW r, c = m.cell, r = m.rnti
    PROVE  LET now  == Context(c, r)
               next == Enb!RecvRrcConnectionReconfigurationCompleted(now)
           IN  /\ TypeOK' /\ RefsOk' /\ Quiet /\ c \in Cells /\ r \in Nat
               /\ Sent("RECONFIGURATION_COMPLETED", c, r)
               /\ \A k \in Cells : SameQueue(k)
               /\ UNCHANGED <<ue, ueCell, ideal, quickBackhaul>>
               /\ \/ now.state = "NONE" /\ SameContexts /\ UNCHANGED pathSwitches
                  \/ /\ now.state # "NONE" /\ Becomes(c, r, next)
                     /\ Goes(now, next, Confirmed(now.state), now.target)
                     /\ pathSwitches' = pathSwitches \cup
                           (IF next.state = "HANDOVER_PATH_SWITCH" THEN {Removal(c, r)} ELSE {})
               /\ \A k \in Cells : \A o \in Nat :
                     /\ \A q \in Nat : Commanded(k, o, q)' <=> Commanded(k, o, q)
                     /\ Sent("RAR", k, o)' <=> Sent("RAR", k, o)
                     /\ Sent("RECONFIGURATION", k, o)' <=>
                           \/ Sent("RECONFIGURATION", k, o)
                           \/ /\ now.state # "NONE" /\ next.state = "CONNECTION_RECONFIGURATION"
                              /\ k = c /\ o = r
                     /\ Sent("RECONFIGURATION_COMPLETED", k, o)' <=>
                           Sent("RECONFIGURATION_COMPLETED", k, o) /\ ~(k = c /\ o = r)
<1> DEFINE now  == Context(c, r)
           next == Enb!RecvRrcConnectionReconfigurationCompleted(now)
<1>1. /\ Quiet /\ m.type = "RECONFIGURATION_COMPLETED"
      /\ UNCHANGED <<ue, lastAllocatedRnti, ideal, x2, mishaps, ueCell, handovers, quickBackhaul>>
    BY DEF ArriveCompleted, EnbTo
<1>2. /\ c \in Cells /\ r \in Nat /\ Sent("RECONFIGURATION_COMPLETED", c, r)
      /\ "RECONFIGURATION_COMPLETED" \in AirTypes \ {"COMMAND"}
    <2>1. m \in AirMessages /\ m.type # "COMMAND"
        BY <1>1 DEF TypeOK
    <2>2. m.cell \in Cells /\ m.rnti \in Nat /\ m = Message(m.type, m.cell, m.rnti)
        BY <2>1, AirFacts
    <2> QED BY <1>1, <2>2 DEF Sent, AirTypes
<1>3. r \in 1 .. lastAllocatedRnti[c]
    BY <1>2 DEF RefsOk, AirRefsOk
<1>4. /\ Grows /\ (\A k \in Cells : SameQueue(k)) /\ MessageRefsOk' /\ UeRefsOk'
    <2>1. Grows /\ \A k \in Cells : SameQueue(k)
        BY <1>1, Unchanging
    <2> QED BY <1>1, <2>1, KeepRefs DEF RefsOk, UeRefsOk
<1>5. ASSUME \A k \in Cells : \A o \in Nat :
                /\ \A q \in Nat : Commanded(k, o, q)' <=> Commanded(k, o, q)
                /\ Sent("RAR", k, o)' <=> Sent("RAR", k, o)
                /\ Sent("RECONFIGURATION", k, o)' =>
                      Sent("RECONFIGURATION", k, o) \/ (k = c /\ o = r)
                /\ Sent("RECONFIGURATION_COMPLETED", k, o)' =>
                      Sent("RECONFIGURATION_COMPLETED", k, o),
             Stored', air' \subseteq AirMessages, ContextRefsOk', pathSwitches' \subseteq Removals
      PROVE  TypeOK' /\ RefsOk'
    <2>1. TypeOK'
        BY <1>1, <1>4, <1>5 DEF TypeOK, Stored, Grows
    <2>2. \A k \in Cells : \A o \in Nat :
             /\ \A q \in Nat : Commanded(k, o, q)' => Commanded(k, o, q)
             /\ \A type \in AirTypes \ {"COMMAND"} :
                   Sent(type, k, o)' => Sent(type, k, o) \/ o \in 1 .. lastAllocatedRnti'[k]
        BY <1>1, <1>3, <1>5 DEF AirTypes
    <2>3. AirRefsOk'
        BY <1>4, <2>2, AirRefs
    <2> QED BY <1>4, <1>5, <2>1, <2>3 DEF RefsOk
<1>6. CASE ~Has(c, r)
    <2>1. air' = air \ {m} /\ UNCHANGED <<contexts, pathSwitches>>
        BY <1>6 DEF ArriveCompleted, EnbTo
    <2>2. SameContexts /\ Stored' /\ ContextRefsOk'
        BY <1>1, <2>1, NoneGoes
    <2>3. /\ air' \subseteq AirMessages
          /\ \A k \in Cells : \A o \in Nat :
                /\ \A q \in Nat : Commanded(k, o, q)' <=> Commanded(k, o, q)
                /\ Sent("RAR", k, o)' <=> Sent("RAR", k, o)
                /\ Sent("RECONFIGURATION", k, o)' <=> Sent("RECONFIGURATION", k, o)
                /\ Sent("RECONFIGURATION_COMPLETED", k, o)' <=>
                      Sent("RECONFIGURATION_COMPLETED", k, o) /\ ~(k = c /\ o = r)
        BY <1>1, <2>1, AirDrops DEF AirTypes
    <2>4. TypeOK' /\ RefsOk'
        BY <1>5, <2>1, <2>2, <2>3 DEF TypeOK
    <2>5. now.state = "NONE"
        BY <1>6 DEF Context, NoContext
    <2> QED BY <1>1, <1>2, <1>4, <2>1, <2>2, <2>3, <2>4, <2>5
<1>7. CASE Has(c, r)
    <2>1. /\ now = contexts[c][r] /\ now \in Contexts /\ now.state # "NONE"
          /\ now.target \in Nat /\ now.target <= lastAllocatedRnti[Other(c)]
        BY <1>2, <1>7, ContextTypes DEF Contexts, NoContext, RefsOk, ContextRefsOk
    <2>2. /\ ContextTo(c, r, next)
          /\ air' = (air \ {m}) \cup AnswerOf(c, r, next)
          /\ pathSwitches' = pathSwitches \cup
                (IF next.state = "HANDOVER_PATH_SWITCH" THEN {Removal(c, r)} ELSE {})
        BY <1>7, <2>1 DEF ArriveCompleted, EnbTo
    <2>3. Goes(now, next, Confirmed(now.state), now.target)
        BY <2>1, Confirms
    <2>4. next.state \in ContextStates
        BY <2>3 DEF Goes, Contexts
    <2> HIDE DEF next, now
    <2>5. Becomes(c, r, next) /\ Stored' /\ ContextRefsOk'
        BY <1>1, <1>2, <1>7, <2>1, <2>2, <2>3, OneGoes DEF now
    <2>6. /\ air' \subseteq AirMessages
          /\ \A k \in Cells : \A o \in Nat :
                /\ \A q \in Nat : Commanded(k, o, q)' <=> Commanded(k, o, q)
                /\ Sent("RAR", k, o)' <=> Sent("RAR", k, o)
                /\ Sent("RECONFIGURATION", k, o)' <=>
                      \/ Sent("RECONFIGURATION", k, o)
                      \/ next.state = "CONNECTION_RECONFIGURATION" /\ k = c /\ o = r
                /\ Sent("RECONFIGURATION_COMPLETED", k, o)' <=>
                      Sent("RECONFIGURATION_COMPLETED", k, o) /\ ~(k = c /\ o = r)
        BY <1>1, <1>2, <2>2, <2>4, AnswerMoves
    <2>7. pathSwitches' \subseteq Removals
        BY <1>2, <2>2 DEF TypeOK, Removals, Removal
    <2>8. TypeOK' /\ RefsOk'
        BY <1>5, <2>5, <2>6, <2>7
    <2> QED BY <1>1, <1>2, <1>4, <2>1, <2>2, <2>3, <2>5, <2>6, <2>8 DEF next, now
<1> QED BY <1>6, <1>7

LEMMA FadeSteps ==
    ASSUME TypeOK, RefsOk, Lose \/ DropUnsent
    PROVE  /\ TypeOK' /\ RefsOk' /\ Quiet /\ SameContexts /\ \A k \in Cells : SameQueue(k)
           /\ UNCHANGED <<ueCell, ideal, pathSwitches, quickBackhaul>>
           /\ ue'.rrc = ue.rrc /\ ue'.rnti = ue.rnti
           /\ ue'.preambleSent => ue.preambleSent
           /\ \A k \in Cells : \A r \in Nat :
                 /\ \A n \in Nat : Commanded(k, r, n)' => Commanded(k, r, n)
                 /\ \A type \in AirTypes \ {"COMMAND"} : Sent(type, k, r)' => Sent(type, k, r)
                 /\ k = ueCell /\ r = ue.rnti /\ Context(k, r).state # "NONE" =>
                       /\ \A n \in Nat : Commanded(k, r, n) => Commanded(k, r, n)'
                       /\ \A type \in {"RECONFIGURATION", "RECONFIGURATION_COMPLETED"} :
                             Sent(type, k, r) => Sent(type, k, r)'
<1>1. /\ Quiet
      /\ UNCHANGED <<contexts, lastAllocatedRnti, ideal, x2, pathSwitches, ueCell, handovers,
                     quickBackhaul>>
      /\ mishaps' \in Nat
      /\ \/ ue' = [ue EXCEPT !.preambleSent = FALSE] /\ air' = air
         \/ /\ ue' = ue
            /\ \E m \in air :
                  /\ air' = air \ {m}
                  /\ \/ m.type = "RAR"
                     \/ m.type = "RECONFIGURATION_COMPLETED" /\ ~IsForUe(m)
                     \/ m.type # "RECONFIGURATION_COMPLETED" /\ ~Has(m.cell, m.rnti)
    BY DEF Lose, DropUnsent, EnbTo, Mishap, TypeOK
<1>2. /\ ue \in UeStates /\ ueCell \in Cells /\ ue.rnti \in Nat
      /\ ue.rnti <= lastAllocatedRnti[ueCell]
      /\ ue.rrc = "IDLE_CELL_SEARCH" => ue.rnti = 0
    BY DEF TypeOK, UeStates, RefsOk, UeRefsOk
<1>3. /\ ue' \in UeStates /\ ue'.rrc = ue.rrc /\ ue'.rnti = ue.rnti
      /\ ue'.preambleSent => ue.preambleSent
    <2>1. ue \in UeStates /\ (ue' = ue \/ ue' = [ue EXCEPT !.preambleSent = FALSE])
        BY <1>1, <1>2
    <2> QED BY <2>1 DEF UeStates
<1>4. /\ air' \subseteq AirMessages
      /\ \A k \in Cells : \A r \in Nat :
            /\ \A n \in Nat : Commanded(k, r, n)' => Commanded(k, r, n)
            /\ \A type \in AirTypes \ {"COMMAND"} : Sent(type, k, r)' => Sent(type, k, r)
            /\ k = ueCell /\ r = ue.rnti /\ Context(k, r).state # "NONE" =>
                  /\ \A n \in Nat : Commanded(k, r, n) => Commanded(k, r, n)'
                  /\ \A type \in {"RECONFIGURATION", "RECONFIGURATION_COMPLETED"} :
                        Sent(type, k, r) => Sent(type, k, r)'
    <2>1. {"RECONFIGURATION", "RECONFIGURATION_COMPLETED"} \subseteq AirTypes \ {"COMMAND"}
        BY DEF AirTypes
    <2>2. CASE air' = air
        BY <2>1, <2>2, Unchanging DEF TypeOK
    <2>3. ASSUME NEW m \in air, air' = air \ {m},
                 \/ m.type = "RAR"
                 \/ m.type = "RECONFIGURATION_COMPLETED" /\ ~IsForUe(m)
                 \/ m.type # "RECONFIGURATION_COMPLETED" /\ ~Has(m.cell, m.rnti)
          PROVE  <1>4!1 /\ <1>4!2
        <3>1. /\ air' \subseteq AirMessages /\ m.cell \in Cells /\ m.rnti \in Nat
              /\ \A k \in Cells : \A r \in Nat :
                    /\ \A n \in Nat : Commanded(k, r, n)' <=>
                          /\ Commanded(k, r, n)
                          /\ ~(m.type = "COMMAND" /\ k = m.cell /\ r = m.rnti /\ n = m.new)
                    /\ \A type \in AirTypes \ {"COMMAND"} : Sent(type, k, r)' <=>
                          Sent(type, k, r) /\ ~(type = m.type /\ k = m.cell /\ r = m.rnti)
            BY <2>3, AirDrops
        <3>2. m.type # "RAR" /\ m.cell = ueCell /\ m.rnti = ue.rnti =>
                 Context(ueCell, ue.rnti).state = "NONE"
            BY <2>3 DEF IsForUe, Context, NoContext
        <3> QED BY <2>1, <3>1, <3>2
    <2> QED BY <1>1, <2>2, <2>3
<1>5. TypeOK' /\ RefsOk' /\ SameContexts /\ \A k \in Cells : SameQueue(k)
    <2>1. ideal' \subseteq Removals \cup {Release} /\ ueCell' \in Cells
        BY <1>1 DEF TypeOK
    <2>2. /\ ue'.rnti <= lastAllocatedRnti[ueCell']
          /\ ue'.rrc = "IDLE_CELL_SEARCH" => ue'.rnti = 0
        BY <1>1, <1>2, <1>3
    <2> QED BY <1>1, <1>3, <1>4, <2>1, <2>2, RadioSteps
<1> QED BY <1>1, <1>3, <1>4, <1>5

LEMMA RemoveSteps ==
    ASSUME TypeOK, RefsOk, NEW m \in ideal \ {Release},
           RecvIdealUeContextRemoveRequest(m.to, m.rnti),
           NEW c, NEW r, c = m.to, r = m.rnti, NEW s, s = Context(c, r).source
    PROVE  /\ TypeOK' /\ RefsOk' /\ c \in Cells /\ r \in Nat /\ Removal(c, r) \in ideal
           /\ ideal' = ideal \ {Removal(c, r)} /\ Becomes(c, r, NoContext) /\ SameQueue(c)
           /\ IF Context(c, r).state = "HANDOVER_JOINING"
              THEN Put(Other(c), X2Message("PREPARATION_FAILURE", s, 0))
              ELSE SameQueue(Other(c))
           /\ UNCHANGED <<ue, ueCell, air, pathSwitches, quickBackhaul>>
<1> DEFINE d       == Other(c)
           failure == X2Message("PREPARATION_FAILURE", s, 0)
<1>1. c \in Cells /\ r \in Nat
    BY DEF TypeOK, Removals
<1>2. /\ Removal(c, r) \in ideal /\ ideal' = ideal \ {Removal(c, r)} /\ RemoveUe(c, r)
      /\ IF Has(c, r) /\ contexts[c][r].state = "HANDOVER_JOINING"
         THEN X2Send(d, <<X2Message("PREPARATION_FAILURE", contexts[c][r].source, 0)>>)
         ELSE UNCHANGED x2
      /\ UNCHANGED <<ue, ueCell, air, handovers, quickBackhaul, lastAllocatedRnti, pathSwitches,
                     mishaps>>
    BY DEF RecvIdealUeContextRemoveRequest, EnbTo
<1>3. Becomes(c, r, NoContext) /\ Stored' /\ Grows /\ ContextRefsOk'
    BY <1>1, <1>2, OneLeaves
<1>4. /\ AirRefsOk'
      /\ UeRefsOk'
    BY <1>2, <1>3, Unchanging, AirRefs DEF RefsOk, UeRefsOk
<1>5. d \in Cells /\ Other(d) = c /\ c # d
    BY <1>1, Others
<1>6. /\ MessageRefsOk' /\ x2' \in [Cells -> Seq(X2Messages)] /\ SameQueue(c)
      /\ IF Context(c, r).state = "HANDOVER_JOINING" THEN Put(d, failure) ELSE SameQueue(d)
    <2>1. CASE Context(c, r).state = "HANDOVER_JOINING"
        <3>1. Has(c, r) /\ Context(c, r) = contexts[c][r]
            BY <2>1 DEF Context, NoContext
        <3>2. X2Send(d, <<failure>>)
            BY <1>2, <2>1, <3>1
        <3>3. s \in Nat /\ s <= lastAllocatedRnti'[d] /\ 0 <= lastAllocatedRnti'[Other(d)]
            BY <1>1, <1>2, <1>5, ContextTypes DEF RefsOk, ContextRefsOk, TypeOK
        <3>4. failure \in X2Messages /\ MessageOk(d, failure)'
            <4>1. "PREPARATION_FAILURE" \in X2Types \ {"HANDOVER_REQUEST", "HANDOVER_CANCEL"}
                BY DEF X2Types
            <4> QED BY <1>5, <3>3, <4>1, Names
        <3> HIDE DEF failure
        <3>5. Put(d, failure) /\ SameQueue(c) /\ x2' \in [Cells -> Seq(X2Messages)]
            BY <1>5, <3>2, <3>4, IsPut
        <3> QED BY <1>3, <1>5, <2>1, <3>4, <3>5, PutRefs
    <2>2. CASE Context(c, r).state # "HANDOVER_JOINING"
        <3>1. UNCHANGED x2
            BY <1>2, <2>2 DEF Context
        <3>2. \A k \in Cells : SameQueue(k)
            BY <3>1, Unchanging
        <3> QED BY <1>1, <1>3, <1>5, <2>2, <3>1, <3>2, KeepRefs DEF TypeOK
    <2> QED BY <2>1, <2>2
<1>7. TypeOK'
    BY <1>2, <1>3, <1>6 DEF TypeOK, Stored, Grows
<1> QED BY <1>1, <1>2, <1>3, <1>4, <1>6, <1>7 DEF RefsOk

LEMMA ExpireSteps ==
    ASSUME TypeOK, RefsOk, InStep, ~Aborted, NEW c \in Cells, NEW r \in DOMAIN contexts[c],
           NEW timer \in Enb!Timers, ExpireTimer(c, r, timer), NEW now, now = Context(c, r)
    PROVE  /\ TypeOK' /\ RefsOk' /\ Quiet /\ r \in Nat
           /\ UNCHANGED <<ue, ueCell, air, pathSwitches, quickBackhaul>>
           /\ Becomes(c, r, NoContext) /\ SameQueue(c)
           /\ \/ now.state = "INITIAL_RANDOM_ACCESS" /\ ideal' = {} /\ SameQueue(Other(c))
              \/ /\ now.state = "HANDOVER_JOINING" /\ ideal' = {}
                 /\ Put(Other(c), X2Message("PREPARATION_FAILURE", now.source, 0))
              \/ /\ now.state = "HANDOVER_LEAVING" /\ ideal' = {Release}
                 /\ Put(Other(c), X2Message("HANDOVER_CANCEL", 0, now.target))
<1> DEFINE d       == Other(c)
           failure == X2Message("PREPARATION_FAILURE", now.source, 0)
           cancel  == X2Message("HANDOVER_CANCEL", 0, now.target)
<1>1. /\ r \in Nat /\ Has(c, r) /\ now = contexts[c][r] /\ now \in Contexts
      /\ d \in Cells /\ Other(d) = c /\ c # d
    BY Others DEF TypeOK, Has, Context
<1>2. /\ Quiet /\ timer \in now.timers
      /\ UNCHANGED <<ue, ueCell, air, handovers, quickBackhaul, lastAllocatedRnti, pathSwitches,
                     mishaps>>
      /\ now.state = Enb!ExpectedState[timer] =>
            /\ X2Send(d, SentOnTimeout(timer, now))
            /\ RemoveUe(c, r)
            /\ IF timer = "handoverLeavingTimeout" THEN ideal' = ideal \cup {Release}
               ELSE ideal' = ideal
    BY <1>1 DEF ExpireTimer, EnbTo, ReleaseUe
<1>3. ideal = {}
    BY <1>2 DEF Quiet
<1>4. timer \in TimersOf(now.state)
    BY <1>1, <1>2 DEF InStep, ContextsOk, ContextOk
<1>5. \/ now.state = "INITIAL_RANDOM_ACCESS" /\ timer = "connectionRequestTimeout"
      \/ now.state = "HANDOVER_JOINING" /\ timer = "handoverJoiningTimeout"
      \/ now.state = "HANDOVER_LEAVING" /\ timer = "handoverLeavingTimeout"
    BY <1>4 DEF TimersOf
<1>6. now.state = Enb!ExpectedState[timer]
    BY <1>5 DEF Enb!ExpectedState
<1>7. Becomes(c, r, NoContext) /\ Stored' /\ Grows /\ ContextRefsOk'
    BY <1>1, <1>2, <1>6, OneLeaves
<1>8. AirRefsOk' /\ UeRefsOk'
    BY <1>2, <1>7, Unchanging, AirRefs DEF RefsOk, UeRefsOk
<1>9. /\ now.source \in Nat /\ now.target \in Nat
      /\ now.source <= lastAllocatedRnti'[d] /\ now.target <= lastAllocatedRnti'[d]
      /\ lastAllocatedRnti'[d] \in Nat /\ lastAllocatedRnti'[c] \in Nat
    BY <1>1, <1>2 DEF Contexts, RefsOk, ContextRefsOk, TypeOK
<1>10. ASSUME NEW m \in X2Messages, MessageOk(d, m)', X2Send(d, <<m>>)
       PROVE  /\ Put(d, m) /\ SameQueue(c) /\ MessageRefsOk'
              /\ x2' \in [Cells -> Seq(X2Messages)]
    <2>1. Put(d, m) /\ SameQueue(c) /\ x2' \in [Cells -> Seq(X2Messages)]
        BY <1>1, <1>10, IsPut
    <2> QED BY <1>1, <1>7, <1>10, <2>1, PutRefs
<1>11. ASSUME MessageRefsOk', x2' \in [Cells -> Seq(X2Messages)],
              ideal' \subseteq {Release}
       PROVE  TypeOK' /\ RefsOk'
    <2>1. TypeOK'
        BY <1>2, <1>7, <1>11 DEF TypeOK, Stored, Grows
    <2> QED BY <1>7, <1>8, <1>11, <2>1 DEF RefsOk
<1>12. CASE now.state = "INITIAL_RANDOM_ACCESS" /\ timer = "connectionRequestTimeout"
    <2>1. X2Send(d, <<>>) /\ ideal' = {}
        BY <1>2, <1>3, <1>6, <1>12 DEF SentOnTimeout
    <2>2. x2' = x2
        <3>1. x2[d] \o <<>> = x2[d]
            BY <1>1, AppendPlaces DEF TypeOK
        <3> QED BY <1>1, <2>1, <3>1 DEF X2Send, TypeOK
    <2>3. \A k \in Cells : SameQueue(k)
        BY <2>2, Unchanging
    <2>4. TypeOK' /\ RefsOk'
        <3>1. MessageRefsOk'
            BY <1>7, <2>3, KeepRefs
        <3> QED BY <1>11, <2>1, <2>2, <3>1 DEF TypeOK
    <2> QED BY <1>1, <1>2, <1>7, <1>12, <2>1, <2>3, <2>4
<1>13. CASE now.state = "HANDOVER_JOINING" /\ timer = "handoverJoiningTimeout"
    <2>1. X2Send(d, <<failure>>) /\ ideal' = {}
        BY <1>2, <1>3, <1>6, <1>13 DEF SentOnTimeout
    <2>2. failure \in X2Messages /\ MessageOk(d, failure)'
        <3>1. "PREPARATION_FAILURE" \in X2Types \ {"HANDOVER_REQUEST", "HANDOVER_CANCEL"}
            BY DEF X2Types
        <3>2. 0 <= lastAllocatedRnti'[Other(d)]
            BY <1>1, <1>9
        <3> QED BY <1>1, <1>9, <3>1, <3>2, Names
    <2> HIDE DEF failure
    <2>3. /\ Put(d, failure) /\ SameQueue(c) /\ MessageRefsOk'
          /\ x2' \in [Cells -> Seq(X2Messages)]
        BY <1>10, <2>1, <2>2
    <2>4. TypeOK' /\ RefsOk'
        BY <1>11, <2>1, <2>3
    <2> QED BY <1>1, <1>2, <1>7, <1>13, <2>1, <2>3, <2>4 DEF failure
<1>14. CASE now.state = "HANDOVER_LEAVING" /\ timer = "handoverLeavingTimeout"
    <2>1. X2Send(d, <<cancel>>) /\ ideal' = {Release}
        BY <1>2, <1>3, <1>6, <1>14 DEF SentOnTimeout
    <2>2. cancel \in X2Messages /\ MessageOk(d, cancel)'
        <3>1. cancel \in X2Messages
            BY <1>9 DEF X2Messages, X2Message, X2Types
        <3>2. /\ cancel.type = "HANDOVER_CANCEL" /\ cancel.old = 0 /\ cancel.new = now.target
            BY DEF X2Message
        <3> HIDE DEF cancel
        <3>3. MessageOk(d, cancel)'
            BY <1>9, <3>2 DEF MessageOk
        <3> QED BY <3>1, <3>3
    <2> HIDE DEF cancel
    <2>3. /\ Put(d, cancel) /\ SameQueue(c) /\ MessageRefsOk'
          /\ x2' \in [Cells -> Seq(X2Messages)]
        BY <1>10, <2>1, <2>2
    <2>4. TypeOK' /\ RefsOk'
        BY <1>11, <2>1, <2>3
    <2> QED BY <1>1, <1>2, <1>7, <1>14, <2>1, <2>3, <2>4 DEF cancel
<1> QED BY <1>5, <1>12, <1>13, <1>14

================================================================================
