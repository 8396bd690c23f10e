------------------------ MODULE LteHandover_proofs ------------------------
EXTENDS LteHandoverSteps_proofs

-----------------------------------------------------------------------------
(***************************************************************************)
(* Each action keeps the invariant over both backhauls: RefsOk from what   *)
(* it names, InStep from what the Keeps lemmas say of its kind of step.    *)
(***************************************************************************)

LEMMA TriggerInv ==
    ASSUME HandoverInv, ~Aborted, NEW c \in Cells, NEW r \in DOMAIN contexts[c],
           TriggerHandover(c, r)
    PROVE  HandoverInv'
<1> DEFINE next == Enb!PrepareHandover(Context(c, r))
<1>1. TypeOK /\ RefsOk /\ InStep
    BY DEF HandoverInv
<1>2. /\ TypeOK' /\ RefsOk' /\ Quiet /\ r \in Nat
      /\ Context(c, r).state = "CONNECTED_NORMALLY"
      /\ Becomes(c, r, next)
      /\ Goes(Context(c, r), next, {"HANDOVER_PREPARATION"}, Context(c, r).target)
      /\ Put(Other(c), X2Message("HANDOVER_REQUEST", r, 0)) /\ SameQueue(c)
      /\ UNCHANGED <<ue, ueCell, air, ideal>>
    BY <1>1, TriggerSteps
<1> HIDE DEF next
<1>3. /\ next.state = "HANDOVER_PREPARATION" /\ next.source = Context(c, r).source
      /\ ContextOk(next)
    BY <1>1, <1>2 DEF Goes, InStep, ContextsOk
<1>4. Live /\ ueCell = c /\ ue.rnti = r /\ Mine.state = "CONNECTED_NORMALLY"
    <2>1. ideal = {}
        BY <1>2 DEF Quiet
    <2>2. Live
        BY <1>1, <1>2, <2>1, Unserved DEF Live, Serving
    <2> QED BY <1>1, <1>2, <2>2, Phases DEF Serving, Mine
<1>5. ContextsOk' /\ OneTeid'
    BY <1>1, <1>2, <1>3, ContextsKept, TeidKept DEF InStep
<1>6. QueuesOk' /\ RadioOk'
    <2>1. /\ X2Message("HANDOVER_REQUEST", r, 0).type = "HANDOVER_REQUEST"
          /\ X2Message("HANDOVER_REQUEST", r, 0).old = r
        BY DEF X2Message
    <2> QED BY <1>1, <1>2, <1>3, <1>4, <2>1, TriggerKeeps
<1>7. AskedOk'
    BY <1>2, <1>4, Calm DEF Live, Alive, Quiet
<1> QED BY <1>2, <1>5, <1>6, <1>7 DEF HandoverInv, InStep

LEMMA ScheduleInv ==
    ASSUME HandoverInv, ~Aborted, NEW c \in Cells, NEW r \in DOMAIN contexts[c],
           ScheduleRrcConnectionReconfiguration(c, r)
    PROVE  HandoverInv'
<1> DEFINE now  == Context(c, r)
           next == Enb!ScheduleRrcConnectionReconfiguration(now)
<1>1. TypeOK /\ RefsOk /\ InStep
    BY DEF HandoverInv
<1>2. /\ TypeOK' /\ RefsOk' /\ Quiet /\ r \in Nat
      /\ now.state \notin {"INITIAL_RANDOM_ACCESS", "ABORTED", "NONE"}
      /\ Becomes(c, r, next)
      /\ Goes(now, next, IF now.state = "CONNECTED_NORMALLY" THEN {"CONNECTION_RECONFIGURATION"}
                         ELSE IF now.state = "HANDOVER_PATH_SWITCH" THEN {"ABORTED"}
                         ELSE {now.state}, now.target)
      /\ \A k \in Cells : SameQueue(k)
      /\ UNCHANGED <<ue, ueCell, ideal>>
    BY <1>1, ScheduleSteps
<1>3. \A k \in Cells : \A o \in Nat :
         /\ \A n \in Nat : Commanded(k, o, n)' <=> Commanded(k, o, n)
         /\ \A type \in AirTypes \ {"COMMAND"} : Sent(type, k, o)' <=>
               \/ Sent(type, k, o)
               \/ /\ now.state = "CONNECTED_NORMALLY"
                  /\ type = "RECONFIGURATION" /\ k = c /\ o = r
    BY <1>1, ScheduleSteps
<1> HIDE DEF now, next
<1> SUFFICES ASSUME ~Aborted' PROVE InStep'
    BY <1>2 DEF HandoverInv
<1>4. /\ now = Context(c, r)
      /\ next.state = IF now.state = "CONNECTED_NORMALLY" THEN "CONNECTION_RECONFIGURATION"
                      ELSE now.state
      /\ next.source = now.source /\ next.target = now.target
      /\ now.state # "HANDOVER_PATH_SWITCH" /\ next.state # "ABORTED"
      /\ Context(c, r)' = next
    BY <1>2, NotAbortedNext DEF Goes, Becomes, now
<1>5. ContextsOk' /\ OneTeid'
    <2>1. ContextOk(next)
        BY <1>1, <1>2, <1>4 DEF Goes, InStep, ContextsOk
    <2> QED BY <1>1, <1>2, <1>4, <2>1, ContextsKept, TeidKept DEF InStep
<1>6. ideal = {} /\ ideal' = {} /\ (Alive <=> Alive')
    BY <1>2 DEF Quiet, Alive
<1>7. CASE Alive /\ now.state = "CONNECTED_NORMALLY"
    <2>1. Live /\ ueCell = c /\ ue.rnti = r /\ Mine = now
        BY <1>1, <1>2, <1>4, <1>6, <1>7, Phases DEF Live, Mine, Serving
    <2>2. \A k \in Cells : \A i \in Places :
             /\ At(k, i)' = At(k, i) /\ At(k, i).old \in Nat
             /\ At(k, i).type \notin {"HANDOVER_REQUEST", "REQUEST_ACK", "PREPARATION_FAILURE",
                                      "HANDOVER_CANCEL"}
             /\ At(k, i).type = "CONTEXT_RELEASE" =>
                   \/ Context(k, At(k, i).old).state = "NONE"
                   \/ k = Other(ueCell) /\ Context(k, At(k, i).old).state = "HANDOVER_LEAVING"
        BY <1>1, <1>2, <1>7, <2>1, Phases, MessageTypes DEF SameQueue, Lost
    <2>3. \A k \in Cells : \A o \in Nat : /\ ~Sent("RECONFIGURATION", k, o)
                                          /\ ~Sent("RECONFIGURATION_COMPLETED", k, o)
        BY <1>1, <1>6, <1>7, <2>1 DEF InStep, RadioOk, ReconfigurationOk, CompletedOk
    <2>4. \A k \in Cells : \A o \in Nat :
             /\ Sent("RAR", k, o)' => Sent("RAR", k, o)
             /\ Sent("RECONFIGURATION", k, o)' <=>
                   k = ueCell /\ o = ue.rnti /\ next.state = "CONNECTION_RECONFIGURATION"
             /\ ~Sent("RECONFIGURATION_COMPLETED", k, o)'
        BY <1>3, <1>4, <1>7, <2>1, <2>3 DEF AirTypes
    <2>5. \A k \in Cells : \A o, n \in Nat : ~Commanded(k, o, n)'
        BY <1>1, <1>3, <1>7, <2>1, Phases
    <2>6. \A k \in Cells : \A n \in Nat : Context(k, n).state # "HANDOVER_JOINING"
        BY <1>1, <1>7, <2>1, Phases DEF Mine
    <2>7. QueuesOk' /\ RadioOk'
        BY <1>1, <1>2, <1>4, <1>7, <2>1, <2>2, <2>4, <2>5, <2>6, Settles DEF Serving
    <2> QED BY <1>5, <1>6, <1>7, <2>7, Calm DEF InStep
<1>8. CASE Alive /\ now.state # "CONNECTED_NORMALLY"
    <2>1. Alike
        BY <1>2, <1>4, <1>8 DEF Alike, Becomes
    <2>2. QueuesOk' /\ RadioOk'
        BY <1>1, <1>2, <1>3, <1>6, <1>8, <2>1, AirKept DEF Live, AirTypes
    <2> QED BY <1>5, <1>6, <1>8, <2>2, Calm DEF InStep
<1>9. CASE ~Alive
    <2>1. now.state \notin Serving
        BY <1>1, <1>2, <1>6, <1>9, Unserved DEF now
    <2>2. \A k \in Cells : \A o \in Nat : Context(k, o)'.state = Context(k, o).state
        BY <1>2, <1>4, <2>1 DEF Becomes, Serving
    <2>3. \A k \in Cells : \A o \in Nat : Asks(k, o)' => Asks(k, o)
        BY <1>2, AsksKept
    <2>4. QueuesOk' /\ RadioOk' /\ AskedOk'
        BY <1>1, <1>2, <1>3, <1>6, <1>9, <2>2, <2>3, DeadKeeps DEF IdealOk, AirTypes
    <2> QED BY <1>5, <2>4 DEF InStep
<1> QED BY <1>7, <1>8, <1>9

\* Data goes by, or a message about a context that is gone.
LEMMA ForwardInv ==
    ASSUME HandoverInv, ~Aborted, NEW c \in Cells, NEW r \in DOMAIN contexts[c], SendData(c, r)
    PROVE  HandoverInv'
<1>1. TypeOK /\ RefsOk /\ InStep
    BY DEF HandoverInv
<1>2. /\ TypeOK' /\ RefsOk' /\ Quiet /\ SameContexts
      /\ Put(Other(c), X2Message("UE_DATA", 0, 0)) /\ SameQueue(c)
      /\ UNCHANGED <<ue, ueCell, air, ideal>>
    BY <1>1, ForwardSteps
<1>3. ideal = {} /\ (Alive' <=> Alive)
    BY <1>2 DEF Quiet, Alive
<1>4. ContextsOk' /\ OneTeid'
    BY <1>1, <1>2 DEF SameContexts, InStep, ContextsOk, OneTeid
<1>5. X2Message("UE_DATA", 0, 0).type = "UE_DATA"
    BY DEF X2Message
<1>6. CASE Alive
    <2>1. QueuesOk' /\ RadioOk'
        BY <1>1, <1>2, <1>3, <1>6, <1>5, PassesBy DEF Live
    <2> QED BY <1>2, <1>3, <1>4, <1>6, <2>1, Calm DEF HandoverInv, InStep
<1>7. CASE ~Alive
    <2>1. \A k \in Cells : \A o \in Nat : Asks(k, o)' => Asks(k, o)
        BY <1>2, <1>5, Others, AsksKept
    <2>2. QueuesOk' /\ RadioOk' /\ AskedOk'
        BY <1>1, <1>2, <1>3, <1>7, <2>1, DeadKeeps DEF IdealOk, SameContexts, Sent
    <2> QED BY <1>2, <1>4, <2>2 DEF HandoverInv, InStep
<1> QED BY <1>6, <1>7

\* The next RNTI is nobody's.
LEMMA RequestInv ==
    ASSUME HandoverInv, ~Aborted, NEW c \in Cells, RecvHandoverRequest(c)
    PROVE  HandoverInv'
<1> DEFINE d   == Other(c)
           old == At(c, 1).old
           new == lastAllocatedRnti[c] + 1
           next == Enb!JoiningContext(old)
<1>1. /\ TypeOK /\ RefsOk /\ InStep /\ d \in Cells /\ Other(d) = c /\ d # c
    BY Others DEF HandoverInv
<1>2. /\ TypeOK' /\ RefsOk' /\ ideal = {}
      /\ At(c, 1).type = "HANDOVER_REQUEST" /\ Taken(c)
      /\ UNCHANGED <<ueCell, air, ideal>>
      /\ old \in Nat /\ old # 0
      /\ \/ SameContexts /\ ue' = ue /\ Put(d, X2Message("PREPARATION_FAILURE", old, 0))
         \/ /\ Becomes(c, new, next)
            /\ Put(d, X2Message("REQUEST_ACK", old, new))
            /\ IF \A r \in Nat : Context(c, r).source = 0 THEN ue' = ue ELSE ue' = Ue!Abort(ue)
    BY <1>1, RequestSteps
<1>3. /\ new \in Nat /\ Context(c, new) = NoContext
      /\ \A i \in Places : At(c, i).type = "CONTEXT_RELEASE" => At(c, i).old # new
      /\ ~Sent("RECONFIGURATION_COMPLETED", c, new)
    <2>1. "RECONFIGURATION_COMPLETED" \in AirTypes \ {"COMMAND"}
        BY DEF AirTypes
    <2> QED BY <1>1, <2>1, Fresh
<1>4. /\ next.state = "HANDOVER_JOINING" /\ next.source = old /\ ContextOk(next)
    BY <1>2, NewContexts
<1> HIDE DEF d, old, new, next
<1> SUFFICES ASSUME ~Aborted' PROVE InStep'
    BY <1>2 DEF HandoverInv
<1>5. ue' = ue
    <2>1. Ue!Abort(ue).rrc = "ABORTED" /\ ue'.rrc # "ABORTED"
        BY <1>1, <1>2, UeAborts, NotAbortedNext DEF TypeOK
    <2> QED BY <1>2, <2>1
<1>6. CASE Alive
    <2>0. AskedOk'
        BY <1>2, <1>5, <1>6, Calm DEF Alive
    <2>1. /\ Live /\ ueCell = d /\ c = Other(d) /\ ue.rnti = old /\ ue.rnti \in Nat
        <3>1. Live /\ 1 \in Places
            BY <1>2, <1>6 DEF Live, Places
        <3>2. c = Other(ueCell) /\ old = ue.rnti
            BY <1>1, <1>2, <3>1, Phases DEF old
        <3> QED BY <1>1, <1>2, <3>1, <3>2, Phases, Others DEF d
    <2>2. CASE SameContexts /\ Put(d, X2Message("PREPARATION_FAILURE", old, 0))
        <3>1. /\ X2Message("PREPARATION_FAILURE", old, 0).type = "PREPARATION_FAILURE"
              /\ X2Message("PREPARATION_FAILURE", old, 0).old = old
            BY DEF X2Message
        <3>2. QueuesOk' /\ RadioOk'
            BY <1>1, <1>2, <1>5, <2>1, <2>2, <3>1, RefuseKeeps
        <3>3. ContextsOk' /\ OneTeid'
            BY <1>1, <2>2 DEF SameContexts, InStep, ContextsOk, OneTeid
        <3> QED BY <2>0, <3>2, <3>3 DEF InStep
    <2>3. CASE /\ Becomes(c, new, next)
               /\ Put(d, X2Message("REQUEST_ACK", old, new))
               /\ IF \A r \in Nat : Context(c, r).source = 0 THEN ue' = ue ELSE ue' = Ue!Abort(ue)
        <3>1. /\ X2Message("REQUEST_ACK", old, new).type = "REQUEST_ACK"
              /\ X2Message("REQUEST_ACK", old, new).old = old
              /\ X2Message("REQUEST_ACK", old, new).new = new
            BY DEF X2Message
        <3>2. \A r \in Nat : Context(c, r).source = 0
            <4>1. Ue!Abort(ue).rrc = "ABORTED" /\ ue'.rrc # "ABORTED"
                BY <1>1, <1>2, UeAborts, NotAbortedNext DEF TypeOK
            <4> QED BY <2>3, <4>1
        <3>3. Context(c, new).state = "NONE"
            BY <1>3 DEF NoContext
        <3>4. QueuesOk' /\ RadioOk' /\ OneTeid'
            BY <1>1, <1>2, <1>3, <1>4, <1>5, <2>1, <2>3, <3>1, <3>2, <3>3, AdmitKeeps
        <3>5. ContextsOk'
            BY <1>1, <1>4, <2>3, ContextsKept DEF InStep
        <3> QED BY <2>0, <3>4, <3>5 DEF InStep
    <2> QED BY <1>2, <2>2, <2>3
<1>7. CASE ~Alive
    <2>0. \A k \in Cells : \A r \in Nat : Asks(k, r)' /\ Context(k, r)'.state # "NONE" =>
             Asks(k, r) /\ Context(k, r).state # "NONE"
        <3> SUFFICES ASSUME NEW k \in Cells, NEW r \in Nat, Asks(k, r)', Context(k, r)'.state # "NONE"
                     PROVE  Asks(k, r) /\ Context(k, r).state # "NONE"
            OBVIOUS
        <3>1. PICK m : /\ Put(d, m) /\ m.type # "HANDOVER_REQUEST" /\ m.old = old
            BY <1>2 DEF X2Message
        <3>2. Asks(k, r) \/ (k = d /\ r = old)
            BY <1>1, <1>2, <3>1, AsksAnew DEF d
        <3>3. Asks(d, old)
            BY <1>1, <1>2 DEF Asks, d, old, Places
        <3>4. Context(k, r)' = Context(k, r) \/ (k = c /\ r = new)
            BY <1>2 DEF SameContexts, Becomes
        <3>5. ~(k = c /\ r = new)
            <4>1. ~Asks(c, new)
                BY <1>1, Fresh DEF new
            <4> QED BY <1>1, <3>2, <4>1
        <3> QED BY <3>2, <3>3, <3>4, <3>5
    <2>1. ~Alive' /\ ideal' = {}
        BY <1>2, <1>5, <1>7 DEF Alive
    <2>2. CASE SameContexts
        <3>1. ContextsOk' /\ OneTeid'
            BY <1>1, <2>2 DEF SameContexts, InStep, ContextsOk, OneTeid
        <3>2. QueuesOk' /\ RadioOk' /\ AskedOk'
            BY <1>1, <1>2, <1>7, <2>0, <2>1, <2>2, DeadKeeps DEF IdealOk, SameContexts, Sent
        <3> QED BY <3>1, <3>2 DEF InStep
    <2>3. CASE /\ Becomes(c, new, next)
               /\ IF \A r \in Nat : Context(c, r).source = 0 THEN ue' = ue ELSE ue' = Ue!Abort(ue)
        <3>1. ContextsOk'
            BY <1>1, <1>4, <2>3, ContextsKept DEF InStep
        <3>2. OneTeid'
            <4>1. Ue!Abort(ue).rrc = "ABORTED" /\ ue'.rrc # "ABORTED"
                BY <1>1, <1>2, UeAborts, NotAbortedNext DEF TypeOK
            <4>2. \A r \in Nat : Context(c, r).source = 0
                BY <2>3, <4>1
            <4> QED BY <1>1, <2>3, <4>2 DEF OneTeid, Becomes, InStep
        <3>3. \A k \in Cells : \A r \in Nat :
                 Context(k, r)' = Context(k, r) \/ (k = c /\ r = new /\ Context(k, r)' = next)
            BY <2>3 DEF Becomes
        <3>4. QueuesOk' /\ RadioOk' /\ AskedOk'
            BY <1>1, <1>2, <1>3, <1>4, <1>7, <2>0, <2>1, <3>3, DeadKeeps DEF IdealOk, Serving, Sent
        <3> QED BY <3>1, <3>2, <3>4 DEF InStep
    <2> QED BY <1>2, <2>2, <2>3
<1> QED BY <1>6, <1>7

LEMMA AckInv ==
    ASSUME HandoverInv, ~Aborted, NEW c \in Cells, RecvHandoverRequestAck(c)
    PROVE  HandoverInv'
<1>1. TypeOK /\ RefsOk /\ InStep
    BY DEF HandoverInv
<1>2. PICK old, new : old = At(c, 1).old /\ new = At(c, 1).new
    OBVIOUS
<1> DEFINE now  == Context(c, old)
           next == Enb!RecvHandoverRequestAck(now, new)
<1>3. /\ TypeOK' /\ RefsOk' /\ ideal = {} /\ old \in Nat /\ new \in Nat
      /\ At(c, 1).type = "REQUEST_ACK" /\ Taken(c) /\ SameQueue(Other(c))
      /\ UNCHANGED <<ueCell, ideal>>
      /\ IF now.state # "NONE"
         THEN /\ ue' = ue /\ Becomes(c, old, next) /\ now \in Contexts
              /\ \A k \in Cells : \A r \in Nat :
                    /\ \A q \in Nat : Commanded(k, r, q)' <=>
                          Commanded(k, r, q) \/ (k = c /\ r = old /\ q = new)
                    /\ \A type \in AirTypes \ {"COMMAND"} :
                          Sent(type, k, r)' <=> Sent(type, k, r)
         ELSE ue' = Ue!Abort(ue)
    BY <1>1, <1>2, AckSteps
<1>4. now.state # "NONE" =>
         /\ next.state = "HANDOVER_LEAVING" /\ next.source = now.source /\ next.target = new
         /\ ContextOk(now) /\ now.state = "HANDOVER_PREPARATION" => ContextOk(next)
    BY <1>3, ContextLeaves
<1> HIDE DEF next
<1> SUFFICES ASSUME ~Aborted' PROVE InStep'
    BY <1>3 DEF HandoverInv
<1>5. now.state # "NONE"
    <2>1. Ue!Abort(ue).rrc = "ABORTED" /\ ue'.rrc # "ABORTED"
        BY <1>1, <1>3, UeAborts, NotAbortedNext DEF TypeOK
    <2> QED BY <1>3, <2>1
<1>6. CASE Alive
    <2>1. Live /\ ueCell = c /\ ue.rnti = old /\ now.state = "HANDOVER_PREPARATION"
        <3>1. Live /\ 1 \in Places
            BY <1>3, <1>6 DEF Live, Places
        <3> QED BY <1>1, <1>2, <1>3, <3>1, Phases DEF Mine
    <2>2. ContextsOk' /\ OneTeid'
        <3>1. ContextOk(next)
            BY <1>1, <1>3, <1>4, <1>5, <2>1 DEF InStep, ContextsOk
        <3> QED BY <1>1, <1>3, <1>4, <1>5, <3>1, ContextsKept, TeidKept DEF InStep
    <2>3. QueuesOk' /\ RadioOk'
        BY <1>1, <1>2, <1>3, <1>4, <1>5, <2>1, AckKeeps
    <2>4. AskedOk'
        BY <1>3, <1>5, <1>6, Calm DEF Alive
    <2> QED BY <2>2, <2>3, <2>4 DEF InStep
<1>7. Alive
    <2>1. Asks(c, old)
        BY <1>2, <1>3 DEF Asks, Places
    <2> QED BY <1>1, <1>3, <1>5, <2>1, Unserved
<1> QED BY <1>6, <1>7

LEMMA FailureInv ==
    ASSUME HandoverInv, ~Aborted, NEW c \in Cells, RecvHandoverPreparationFailure(c)
    PROVE  HandoverInv'
<1>1. TypeOK /\ RefsOk /\ InStep
    BY DEF HandoverInv
<1>2. PICK old : old = At(c, 1).old
    OBVIOUS
<1> DEFINE now  == Context(c, old)
           next == Enb!RecvHandoverPreparationFailure(now)
<1>3. /\ TypeOK' /\ RefsOk' /\ ideal = {} /\ old \in Nat
      /\ At(c, 1).type = "PREPARATION_FAILURE" /\ Taken(c) /\ SameQueue(Other(c))
      /\ UNCHANGED <<ue, ueCell>>
      /\ \/ now.state = "NONE" /\ SameContexts /\ UNCHANGED <<air, ideal>>
         \/ /\ now.state = "HANDOVER_LEAVING" /\ Becomes(c, old, NoContext)
            /\ ideal' = {Release} /\ air' = air
         \/ /\ now.state \notin {"NONE", "HANDOVER_LEAVING"} /\ Becomes(c, old, next)
            /\ Goes(now, next, IF now.state = "HANDOVER_PREPARATION"
                               THEN {"CONNECTED_NORMALLY", "CONNECTION_RECONFIGURATION"}
                               ELSE {"ABORTED"}, now.target)
            /\ ideal' = {}
            /\ \A k \in Cells : \A r \in Nat :
                  /\ \A q \in Nat : Commanded(k, r, q)' <=> Commanded(k, r, q)
                  /\ \A type \in AirTypes \ {"COMMAND"} : Sent(type, k, r)' <=>
                        \/ Sent(type, k, r)
                        \/ /\ next.state = "CONNECTION_RECONFIGURATION"
                           /\ type = "RECONFIGURATION" /\ k = c /\ r = old
    BY <1>1, <1>2, FailureSteps
<1> HIDE DEF next
<1> SUFFICES ASSUME ~Aborted' PROVE InStep'
    BY <1>3 DEF HandoverInv
<1>4. \A k \in Cells : \A r \in Nat : Asks(k, r)' => Asks(k, r)
    BY <1>3, Others, AsksKept
<1>5. 1 \in Places
    BY DEF Places
<1>6. CASE now.state = "NONE"
    <2>1. SameContexts /\ UNCHANGED <<air, ideal>>
        BY <1>3, <1>6
    <2>2. ~Alive
        BY <1>1, <1>2, <1>3, <1>5, <1>6, Phases DEF Live, Mine
    <2>3. ContextsOk' /\ OneTeid'
        BY <1>1, <2>1 DEF SameContexts, InStep, ContextsOk, OneTeid
    <2>4. QueuesOk' /\ RadioOk' /\ AskedOk'
        BY <1>1, <1>3, <1>4, <2>1, <2>2, DeadKeeps DEF IdealOk, SameContexts, Sent, Alive
    <2> QED BY <2>3, <2>4 DEF InStep
<1>7. CASE now.state = "HANDOVER_LEAVING"
    <2>1. Becomes(c, old, NoContext) /\ ideal' = {Release} /\ air' = air
        BY <1>3, <1>7
    <2>2. QueuesOk' /\ RadioOk' /\ AskedOk'
        BY <1>1, <1>3, <1>4, <1>7, <2>1, GivesUp
    <2>3. ContextsOk' /\ OneTeid'
        BY <1>1, <1>3, <2>1, NoneOk, ContextsKept, TeidKept DEF InStep
    <2> QED BY <2>2, <2>3 DEF InStep
<1>8. CASE now.state \notin {"NONE", "HANDOVER_LEAVING"}
    <2>1. /\ Becomes(c, old, next)
          /\ Goes(now, next, IF now.state = "HANDOVER_PREPARATION"
                             THEN {"CONNECTED_NORMALLY", "CONNECTION_RECONFIGURATION"}
                             ELSE {"ABORTED"}, now.target)
          /\ ideal' = {}
          /\ \A k \in Cells : \A r \in Nat :
                /\ \A q \in Nat : Commanded(k, r, q)' <=> Commanded(k, r, q)
                /\ \A type \in AirTypes \ {"COMMAND"} : Sent(type, k, r)' <=>
                      \/ Sent(type, k, r)
                      \/ /\ next.state = "CONNECTION_RECONFIGURATION"
                         /\ type = "RECONFIGURATION" /\ k = c /\ r = old
        BY <1>3, <1>8
    <2>2. /\ now.state = "HANDOVER_PREPARATION" /\ next.source = now.source
          /\ next.state \in {"CONNECTED_NORMALLY", "CONNECTION_RECONFIGURATION"}
        <3>1. next.state # "ABORTED"
            BY <1>3, <2>1, NotAbortedNext DEF Becomes
        <3> QED BY <2>1, <3>1 DEF Goes
    <2>3. ContextsOk' /\ OneTeid'
        <3>1. ContextOk(next)
            BY <1>1, <1>3, <2>1, <2>2 DEF Goes, InStep, ContextsOk
        <3> QED BY <1>1, <1>3, <2>1, <2>2, <3>1, ContextsKept, TeidKept DEF InStep
    <2>4. Live /\ Alive' /\ ueCell = c /\ ue.rnti = old /\ Mine = now
        <3>1. Alive
            BY <1>1, <1>3, <2>2, Unserved DEF Serving
        <3>2. Live /\ Alive'
            BY <1>3, <3>1 DEF Live, Alive
        <3> QED BY <1>1, <1>3, <2>2, <3>2, Phases DEF Serving, Mine
    <2>5. /\ \A k \in Cells : \A i \in Places : At(k, i).type \notin {"HANDOVER_REQUEST", "HANDOVER_CANCEL"}
          /\ \A i \in Places : At(c, i).type # "REQUEST_ACK"
          /\ \A i \in Places : At(Other(c), i).type # "REQUEST_ACK"
          /\ \A i \in Places : At(c, i).type = "PREPARATION_FAILURE" => i = 1
          /\ \A i \in Places : At(Other(c), i).type # "PREPARATION_FAILURE"
        <3>1. \A k \in Cells : \A i \in Places :
                 At(k, i).type \notin {"HANDOVER_REQUEST", "HANDOVER_CANCEL"}
            BY <1>1, <1>3, <1>5, <2>4, Phases, Others DEF InStep, QueuesOk, RequestOk
        <3>2. \A i \in Places : At(c, i).type # "REQUEST_ACK"
            <4>1. \A i \in Places : ~(i < 1)
                BY DEF Places
            <4> QED BY <1>1, <1>3, <1>5, <2>4, <4>1 DEF InStep, QueuesOk, AckOk
        <3>3. \A i \in Places : At(Other(c), i).type # "REQUEST_ACK"
            BY <1>1, <2>4, Phases, Others
        <3>4. \A i \in Places : At(c, i).type = "PREPARATION_FAILURE" => i = 1
            BY <1>1, <1>3, <1>5, <2>4 DEF InStep, QueuesOk, FailureOk
        <3>5. \A i \in Places : At(Other(c), i).type # "PREPARATION_FAILURE"
            BY <1>1, <2>2, <2>4, Phases, Others DEF Lost
        <3> QED BY <3>1, <3>2, <3>3, <3>4, <3>5
    <2>6. \A k \in Cells : \A i \in Places :
             /\ At(k, i)'.type \notin {"HANDOVER_REQUEST", "REQUEST_ACK", "PREPARATION_FAILURE",
                                       "HANDOVER_CANCEL"}
             /\ At(k, i)'.type = "CONTEXT_RELEASE" =>
                   \E o \in Nat : /\ At(k, i)'.old = o
                                  /\ \/ Context(k, o).state = "NONE"
                                     \/ k = Other(ueCell) /\ Context(k, o).state = "HANDOVER_LEAVING"
        <3> SUFFICES ASSUME NEW k \in Cells, NEW i \in Places
                     PROVE  /\ At(k, i)'.type \notin {"HANDOVER_REQUEST", "REQUEST_ACK",
                                                      "PREPARATION_FAILURE", "HANDOVER_CANCEL"}
                            /\ At(k, i)'.type = "CONTEXT_RELEASE" =>
                                  \E o \in Nat : /\ At(k, i)'.old = o
                                                 /\ \/ Context(k, o).state = "NONE"
                                                    \/ /\ k = Other(ueCell)
                                                       /\ Context(k, o).state = "HANDOVER_LEAVING"
            OBVIOUS
        <3>1. PICK j \in Places : At(k, i)' = At(k, j) /\ (k = c => j # 1)
            <4>1. i + 1 \in Places /\ i + 1 # 1
                BY DEF Places
            <4> QED BY <1>3, <4>1, Others DEF Taken, SameQueue
        <3>2. At(k, j).type \notin {"HANDOVER_REQUEST", "REQUEST_ACK", "PREPARATION_FAILURE",
                                    "HANDOVER_CANCEL"}
            BY <2>5, <3>1, Others
        <3>3. /\ At(k, j).old \in Nat
              /\ At(k, j).type = "CONTEXT_RELEASE" =>
                    \/ Context(k, At(k, j).old).state = "NONE"
                    \/ k = Other(ueCell) /\ Context(k, At(k, j).old).state = "HANDOVER_LEAVING"
            BY <1>1, <2>4, Phases, MessageTypes
        <3> QED BY <3>1, <3>2, <3>3
    <2>7. \A k \in Cells : \A n \in Nat : Context(k, n).state # "HANDOVER_JOINING"
        <3>1. ASSUME NEW k \in Cells, NEW n \in Nat, Context(k, n).state = "HANDOVER_JOINING"
              PROVE  FALSE
            <4>1. k = Other(c)
                BY <1>1, <2>2, <2>4, <3>1, Phases
            <4>2. At(Other(k), 1).type # "PREPARATION_FAILURE"
                BY <1>1, <1>5, <2>4, <3>1 DEF InStep, QueuesOk, JoiningOk
            <4> QED BY <1>3, <4>1, <4>2, Others
        <3> QED BY <3>1
    <2>8. \A k \in Cells : \A r \in Nat : /\ ~Sent("RECONFIGURATION", k, r)
                                          /\ ~Sent("RECONFIGURATION_COMPLETED", k, r)
        BY <1>1, <2>2, <2>4 DEF Live, InStep, RadioOk, ReconfigurationOk, CompletedOk
    <2>9. \A k \in Cells : \A r \in Nat :
             /\ Sent("RAR", k, r)' => Sent("RAR", k, r)
             /\ Sent("RECONFIGURATION", k, r)' <=>
                   k = ueCell /\ r = ue.rnti /\ next.state = "CONNECTION_RECONFIGURATION"
             /\ ~Sent("RECONFIGURATION_COMPLETED", k, r)'
        BY <2>1, <2>4, <2>8 DEF AirTypes
    <2>10. \A k \in Cells : \A o, n \in Nat : ~Commanded(k, o, n)'
        BY <1>1, <2>1, <2>2, <2>4, Phases
    <2>11. QueuesOk' /\ RadioOk'
        <3>1. Mine.state \in Serving /\ Becomes(ueCell, ue.rnti, next) /\ next.source = Mine.source
            BY <2>1, <2>2, <2>4 DEF Serving
        <3>2. ideal' = ideal
            BY <1>3, <2>1
        <3> HIDE DEF now
        <3> QED BY <1>1, <1>3, <2>2, <2>4, <2>6, <2>7, <2>9, <2>10, <3>1, <3>2, Settles
    <2> QED BY <2>1, <2>3, <2>4, <2>11, Calm DEF InStep
<1> QED BY <1>6, <1>7, <1>8

LEMMA ForgetInv ==
    ASSUME HandoverInv, ~Aborted, NEW c \in Cells, RecvUeContextRelease(c)
    PROVE  HandoverInv'
<1>1. TypeOK /\ RefsOk /\ InStep
    BY DEF HandoverInv
<1>2. PICK old : old = At(c, 1).old
    OBVIOUS
<1> DEFINE now == Context(c, old)
<1>3. /\ TypeOK' /\ RefsOk' /\ ideal = {} /\ old \in Nat
      /\ At(c, 1).type = "CONTEXT_RELEASE" /\ Taken(c) /\ SameQueue(Other(c))
      /\ UNCHANGED <<ue, ueCell, air, ideal>>
      /\ \/ now.state = "NONE" /\ SameContexts
         \/ now.state = "HANDOVER_LEAVING" /\ Becomes(c, old, NoContext)
         \/ now.state \notin {"NONE", "HANDOVER_LEAVING"} /\ Context(c, old)'.state = "ABORTED"
    BY <1>1, <1>2, ForgetSteps
<1> SUFFICES ASSUME ~Aborted' PROVE InStep'
    BY <1>3 DEF HandoverInv
<1>4. \A k \in Cells : \A r \in Nat : Asks(k, r)' => Asks(k, r)
    BY <1>3, Others, AsksKept
<1>5. \/ now.state = "NONE" /\ SameContexts
      \/ now.state = "HANDOVER_LEAVING" /\ Becomes(c, old, NoContext)
    BY <1>3, NotAbortedNext
<1>6. ContextsOk' /\ OneTeid'
    <2>1. CASE SameContexts
        BY <1>1, <2>1 DEF SameContexts, InStep, ContextsOk, OneTeid
    <2>2. CASE Becomes(c, old, NoContext)
        BY <1>1, <1>3, <2>2, NoneOk, ContextsKept, TeidKept DEF InStep
    <2> QED BY <1>5, <2>1, <2>2
<1>7. CASE Alive
    <2>1. Live /\ Alive' /\ ideal' = {}
        BY <1>3, <1>7 DEF Live, Alive
    <2>2. CASE now.state = "NONE" /\ SameContexts
        <3>1. QueuesOk' /\ RadioOk'
            BY <1>1, <1>2, <1>3, <2>1, <2>2, PassesBy
        <3> QED BY <1>6, <2>1, <3>1, Calm DEF InStep
    <2>3. CASE now.state = "HANDOVER_LEAVING" /\ Becomes(c, old, NoContext)
        <3>1. QueuesOk' /\ RadioOk'
            BY <1>1, <1>2, <1>3, <2>1, <2>3, ForgottenKeeps
        <3> QED BY <1>6, <2>1, <3>1, Calm DEF InStep
    <2> QED BY <1>5, <2>2, <2>3
<1>8. CASE ~Alive
    <2>1. \A k \in Cells : \A r \in Nat :
             Context(k, r)'.state # "NONE" => Context(k, r)' = Context(k, r)
        BY <1>5, NoneOk DEF SameContexts, Becomes
    <2>2. QueuesOk' /\ RadioOk' /\ AskedOk'
        BY <1>1, <1>3, <1>4, <1>8, <2>1, DeadKeeps DEF IdealOk, Sent, Alive, Serving
    <2> QED BY <1>6, <2>2 DEF InStep
<1> QED BY <1>7, <1>8

LEMMA CancelInv ==
    ASSUME HandoverInv, ~Aborted, NEW c \in Cells, RecvHandoverCancel(c)
    PROVE  HandoverInv'
<1>1. TypeOK /\ RefsOk /\ InStep
    BY DEF HandoverInv
<1>2. PICK new : new = At(c, 1).new
    OBVIOUS
<1> DEFINE now  == Context(c, new)
           next == Enb!RecvHandoverCancel(now)
<1>3. /\ TypeOK' /\ RefsOk' /\ ideal = {} /\ new \in Nat
      /\ At(c, 1).type = "HANDOVER_CANCEL" /\ Taken(c) /\ SameQueue(Other(c))
      /\ UNCHANGED <<ue, ueCell, air, ideal>>
      /\ \/ now.state = "NONE" /\ SameContexts
         \/ /\ now.state # "NONE" /\ Becomes(c, new, next)
            /\ Goes(now, next, IF now.state = "HANDOVER_JOINING" THEN {"HANDOVER_JOINING"}
                               ELSE {"ABORTED"}, now.target)
    BY <1>1, <1>2, CancelSteps
<1> HIDE DEF next
<1> SUFFICES ASSUME ~Aborted' PROVE InStep'
    BY <1>3 DEF HandoverInv
<1>4. \A k \in Cells : \A r \in Nat : Asks(k, r)' => Asks(k, r)
    BY <1>3, Others, AsksKept
<1>5. ~Alive
    BY <1>1, <1>3 DEF Live, InStep, QueuesOk, NoCancel, Places
<1>6. \/ SameContexts
      \/ /\ Becomes(c, new, next) /\ now.state = "HANDOVER_JOINING"
         /\ next.state = "HANDOVER_JOINING" /\ next.source = now.source
         /\ ContextOk(now) => ContextOk(next)
    <2>1. CASE Becomes(c, new, next) /\ Goes(now, next, {"ABORTED"}, now.target)
        <3>1. Context(c, new)'.state = "ABORTED"
            BY <1>3, <2>1 DEF Becomes, Goes
        <3> QED BY <1>3, <3>1, NotAbortedNext
    <2> QED BY <1>3, <2>1 DEF Goes
<1>7. ContextsOk' /\ OneTeid'
    <2>1. CASE SameContexts
        BY <1>1, <2>1 DEF SameContexts, InStep, ContextsOk, OneTeid
    <2>2. CASE ~SameContexts
        BY <1>1, <1>3, <1>6, <2>2, ContextsKept, TeidKept DEF InStep, ContextsOk
    <2> QED BY <2>1, <2>2
<1>8. \A k \in Cells : \A r \in Nat : Context(k, r)'.state = Context(k, r).state
    BY <1>6 DEF SameContexts, Becomes
<1>9. QueuesOk' /\ RadioOk' /\ AskedOk'
    BY <1>1, <1>3, <1>4, <1>5, <1>8, DeadKeeps DEF IdealOk, Sent, Alive
<1> QED BY <1>7, <1>9 DEF InStep

LEMMA DataInv ==
    ASSUME HandoverInv, ~Aborted, NEW c \in Cells, RecvUeData(c)
    PROVE  HandoverInv'
<1> DEFINE m == X2Message("UE_DATA", 0, 0)
<1>1. TypeOK /\ RefsOk /\ InStep
    BY DEF HandoverInv
<1>2. /\ TypeOK' /\ RefsOk' /\ ideal = {}
      /\ At(c, 1).type = "UE_DATA" /\ Taken(c) /\ SameContexts
      /\ UNCHANGED <<ueCell, air, ideal>>
      /\ ue' = Ue!Abort(ue) \/ (ue' = ue /\ (SameQueue(Other(c)) \/ Put(Other(c), m)))
    BY <1>1, DataSteps
<1>3. m.type = "UE_DATA"
    BY DEF X2Message
<1> HIDE DEF m
<1> SUFFICES ASSUME ~Aborted' PROVE InStep'
    BY <1>2 DEF HandoverInv
<1>4. ue' = ue /\ (SameQueue(Other(c)) \/ Put(Other(c), m))
    <2>1. Ue!Abort(ue).rrc = "ABORTED" /\ ue'.rrc # "ABORTED"
        BY <1>1, <1>2, UeAborts, NotAbortedNext DEF TypeOK
    <2> QED BY <1>2, <2>1
<1>5. ContextsOk' /\ OneTeid'
    BY <1>1, <1>2 DEF SameContexts, InStep, ContextsOk, OneTeid
<1>6. CASE Alive
    <2>1. Live /\ Alive'
        BY <1>2, <1>4, <1>6 DEF Live, Alive
    <2>2. QueuesOk' /\ RadioOk'
        BY <1>1, <1>2, <1>3, <1>4, <2>1, PassesBy
    <2> QED BY <1>2, <1>5, <2>1, <2>2, Calm DEF InStep
<1>7. CASE ~Alive
    <2>1. \A k \in Cells : \A r \in Nat : Asks(k, r)' => Asks(k, r)
        BY <1>2, <1>3, <1>4, Others, AsksKept
    <2>2. QueuesOk' /\ RadioOk' /\ AskedOk'
        BY <1>1, <1>2, <1>4, <1>7, <2>1, DeadKeeps DEF IdealOk, SameContexts, Sent, Alive
    <2> QED BY <1>5, <2>2 DEF InStep
<1> QED BY <1>6, <1>7

LEMMA SwitchInv ==
    ASSUME HandoverInv, ~Aborted, NEW c, NEW r, PathSwitchRequestAcknowledge(c, r)
    PROVE  HandoverInv'
<1> DEFINE now  == Context(c, r)
           next == Enb!SendUeContextRelease(now)
<1>1. TypeOK /\ RefsOk /\ InStep
    BY DEF HandoverInv
<1>2. PICK s : s = now.source
    OBVIOUS
<1> DEFINE m == X2Message("CONTEXT_RELEASE", s, r)
<1>3. /\ TypeOK' /\ RefsOk' /\ ideal = {} /\ c \in Cells /\ r \in Nat
      /\ UNCHANGED <<ueCell, ideal>>
      /\ \/ now.state = "NONE" /\ ue' = Ue!Abort(ue)
         \/ /\ now.state # "NONE" /\ ue' = ue /\ Becomes(c, r, next)
            /\ Goes(now, next, IF now.state = "HANDOVER_PATH_SWITCH"
                               THEN {"CONNECTED_NORMALLY", "CONNECTION_RECONFIGURATION"}
                               ELSE {"ABORTED"}, now.target)
            /\ Put(Other(c), m) /\ SameQueue(c)
            /\ \A k \in Cells : \A o \in Nat :
                  /\ \A q \in Nat : Commanded(k, o, q)' <=> Commanded(k, o, q)
                  /\ \A type \in AirTypes \ {"COMMAND"} : Sent(type, k, o)' <=>
                        \/ Sent(type, k, o)
                        \/ /\ next.state = "CONNECTION_RECONFIGURATION"
                           /\ type = "RECONFIGURATION" /\ k = c /\ o = r
    BY <1>1, <1>2, SwitchSteps
<1>4. m.type = "CONTEXT_RELEASE" /\ m.old = s
    BY DEF X2Message
<1> HIDE DEF next, m
<1> SUFFICES ASSUME ~Aborted' PROVE InStep'
    BY <1>3 DEF HandoverInv
<1>5. /\ ue' = ue /\ Becomes(c, r, next)
      /\ Goes(now, next, IF now.state = "HANDOVER_PATH_SWITCH"
                         THEN {"CONNECTED_NORMALLY", "CONNECTION_RECONFIGURATION"}
                         ELSE {"ABORTED"}, now.target)
      /\ Put(Other(c), m) /\ SameQueue(c)
      /\ \A k \in Cells : \A o \in Nat :
            /\ \A q \in Nat : Commanded(k, o, q)' <=> Commanded(k, o, q)
            /\ \A type \in AirTypes \ {"COMMAND"} : Sent(type, k, o)' <=>
                  \/ Sent(type, k, o)
                  \/ /\ next.state = "CONNECTION_RECONFIGURATION"
                     /\ type = "RECONFIGURATION" /\ k = c /\ o = r
    <2>1. Ue!Abort(ue).rrc = "ABORTED" /\ ue'.rrc # "ABORTED"
        BY <1>1, <1>3, UeAborts, NotAbortedNext DEF TypeOK
    <2> QED BY <1>3, <2>1
<1>6. /\ now.state = "HANDOVER_PATH_SWITCH" /\ next.source = now.source
      /\ next.state \in {"CONNECTED_NORMALLY", "CONNECTION_RECONFIGURATION"}
    <2>1. next.state # "ABORTED"
        BY <1>3, <1>5, NotAbortedNext DEF Becomes
    <2> QED BY <1>5, <2>1 DEF Goes
<1>7. ContextsOk' /\ OneTeid'
    <2>1. ContextOk(next)
        BY <1>1, <1>3, <1>5, <1>6 DEF Goes, InStep, ContextsOk
    <2> QED BY <1>1, <1>3, <1>5, <1>6, <2>1, ContextsKept, TeidKept DEF InStep
<1>8. Live /\ Alive' /\ ueCell = c /\ ue.rnti = r /\ Mine = now
    <2>1. Alive
        BY <1>1, <1>3, <1>6, Unserved DEF Serving
    <2>2. Live /\ Alive'
        BY <1>3, <1>5, <2>1 DEF Live, Alive
    <2> QED BY <1>1, <1>3, <1>6, <2>2, Phases DEF Serving, Mine
<1>9. \A k \in Cells : \A i \in Places :
         /\ At(k, i)'.type \notin {"HANDOVER_REQUEST", "REQUEST_ACK", "PREPARATION_FAILURE",
                                   "HANDOVER_CANCEL"}
         /\ At(k, i)'.type = "CONTEXT_RELEASE" =>
               \E o \in Nat : /\ At(k, i)'.old = o
                              /\ \/ Context(k, o).state = "NONE"
                                 \/ k = Other(ueCell) /\ Context(k, o).state = "HANDOVER_LEAVING"
    <2> SUFFICES ASSUME NEW k \in Cells, NEW i \in Places
                 PROVE  /\ At(k, i)'.type \notin {"HANDOVER_REQUEST", "REQUEST_ACK",
                                                  "PREPARATION_FAILURE", "HANDOVER_CANCEL"}
                        /\ At(k, i)'.type = "CONTEXT_RELEASE" =>
                              \E o \in Nat : /\ At(k, i)'.old = o
                                             /\ \/ Context(k, o).state = "NONE"
                                                \/ /\ k = Other(ueCell)
                                                   /\ Context(k, o).state = "HANDOVER_LEAVING"
        OBVIOUS
    <2>1. At(k, i)' = At(k, i) \/ (k = Other(c) /\ At(k, i)' = m)
        <3>1. CASE k = c
            BY <1>5, <3>1 DEF SameQueue
        <3>2. CASE k = Other(c)
            BY <1>5, <3>2 DEF Put
        <3> QED BY <1>3, <3>1, <3>2, Others
    <2>2. CASE At(k, i)' = At(k, i)
        <3>1. /\ At(k, i).type \notin {"HANDOVER_REQUEST", "REQUEST_ACK", "PREPARATION_FAILURE",
                                       "HANDOVER_CANCEL"}
              /\ At(k, i).old \in Nat
              /\ At(k, i).type = "CONTEXT_RELEASE" =>
                    \/ Context(k, At(k, i).old).state = "NONE"
                    \/ k = Other(ueCell) /\ Context(k, At(k, i).old).state = "HANDOVER_LEAVING"
            BY <1>1, <1>6, <1>8, Phases, MessageTypes DEF Lost
        <3> QED BY <2>2, <3>1
    <2>3. CASE k = Other(c) /\ At(k, i)' = m
        <3>1. s \in Nat /\ Context(Other(c), s).state = "HANDOVER_LEAVING"
            BY <1>1, <1>2, <1>3, <1>6, <1>8, ContextTypes DEF InStep, QueuesOk, SwitchOk
        <3> QED BY <1>4, <1>8, <2>3, <3>1
    <2> QED BY <2>1, <2>2, <2>3
<1>10. \A k \in Cells : \A n \in Nat : Context(k, n).state # "HANDOVER_JOINING"
    BY <1>1, <1>6, <1>8, Phases DEF Mine
<1>11. \A k \in Cells : \A o \in Nat : /\ ~Sent("RECONFIGURATION", k, o)
                                       /\ ~Sent("RECONFIGURATION_COMPLETED", k, o)
    BY <1>1, <1>6, <1>8 DEF Live, InStep, RadioOk, ReconfigurationOk, CompletedOk
<1>12. \A k \in Cells : \A o \in Nat :
          /\ Sent("RAR", k, o)' => Sent("RAR", k, o)
          /\ Sent("RECONFIGURATION", k, o)' <=>
                k = ueCell /\ o = ue.rnti /\ next.state = "CONNECTION_RECONFIGURATION"
          /\ ~Sent("RECONFIGURATION_COMPLETED", k, o)'
    BY <1>5, <1>8, <1>11 DEF AirTypes
<1>13. \A k \in Cells : \A o, n \in Nat : ~Commanded(k, o, n)'
    BY <1>1, <1>5, <1>6, <1>8, Phases
<1>14. QueuesOk' /\ RadioOk'
    <2>1. Mine.state \in Serving /\ Becomes(ueCell, ue.rnti, next) /\ next.source = Mine.source
        BY <1>5, <1>6, <1>8 DEF Serving
    <2> HIDE DEF now
    <2> QED BY <1>1, <1>3, <1>5, <1>6, <1>8, <1>9, <1>10, <1>12, <1>13, <2>1, Settles
<1> QED BY <1>3, <1>7, <1>8, <1>14, Calm DEF InStep

\* What goes on between the UE and the radio.
LEMMA CommandInv ==
    ASSUME HandoverInv, ~Aborted, NEW m \in air, ArriveCommand(m)
    PROVE  HandoverInv'
<1>1. TypeOK /\ RefsOk /\ InStep
    BY DEF HandoverInv
<1>2. PICK c, u, n : c = m.cell /\ u = m.rnti /\ n = m.new
    OBVIOUS
<1>3. /\ TypeOK' /\ RefsOk' /\ Quiet /\ SameContexts /\ \A k \in Cells : SameQueue(k)
      /\ ideal' = ideal /\ c \in Cells /\ u \in Nat /\ n \in Nat /\ Commanded(c, u, n)
      /\ IF c = ueCell /\ u = ue.rnti
         THEN /\ ue.rrc = "CONNECTED_NORMALLY"
              /\ ueCell' = Other(ueCell) /\ ue' = Ue!RecvHandoverCommand(ue, n)
         ELSE UNCHANGED <<ue, ueCell>>
      /\ \A k \in Cells : \A r \in Nat :
            /\ \A q \in Nat : Commanded(k, r, q)' <=>
                  Commanded(k, r, q) /\ ~(k = c /\ r = u /\ q = n)
            /\ \A type \in AirTypes \ {"COMMAND"} : Sent(type, k, r)' <=> Sent(type, k, r)
    BY <1>1, <1>2, CommandSteps
<1>4. ideal = {}
    BY <1>3 DEF Quiet
<1> SUFFICES ASSUME ~Aborted' PROVE InStep'
    BY <1>3 DEF HandoverInv
<1>5. ContextsOk' /\ OneTeid'
    BY <1>1, <1>3 DEF SameContexts, InStep, ContextsOk, OneTeid
<1>6. CASE Alive
    <2>1. Live /\ c = ueCell /\ u = ue.rnti
        BY <1>1, <1>3, <1>4, <1>6, Phases DEF Live
    <2>2. ue'.rrc = "CONNECTED_HANDOVER" /\ ue'.rnti = n /\ ueCell' = Other(c)
        <3>1. /\ ue \in UeStates /\ ue.rrc = "CONNECTED_NORMALLY" /\ n \in Nat
              /\ ueCell' = Other(ueCell) /\ ue' = Ue!RecvHandoverCommand(ue, n)
            BY <1>1, <1>3, <2>1 DEF TypeOK
        <3> QED BY <2>1, <3>1, UeHandsOver
    <2>3. QueuesOk' /\ RadioOk'
        BY <1>1, <1>3, <2>1, <2>2, CommandKeeps
    <2> QED BY <1>3, <1>4, <1>5, <2>2, <2>3, Calm DEF InStep, Alive
<1>7. CASE ~Alive
    <2>1. ue' = ue /\ ueCell' = ueCell
        BY <1>3, <1>7 DEF Alive
    <2>2. \A k \in Cells : \A r \in Nat : Asks(k, r)' => Asks(k, r)
        BY <1>3, AsksKept
    <2>3. QueuesOk' /\ RadioOk' /\ AskedOk'
        BY <1>1, <1>3, <1>4, <1>7, <2>1, <2>2, DeadKeeps DEF IdealOk, SameContexts, AirTypes, Alive
    <2> QED BY <1>5, <2>3 DEF InStep
<1> QED BY <1>6, <1>7

LEMMA ReconfigurationInv ==
    ASSUME HandoverInv, ~Aborted, NEW m \in air, ArriveReconfiguration(m)
    PROVE  HandoverInv'
<1>1. TypeOK /\ RefsOk /\ InStep
    BY DEF HandoverInv
<1>2. PICK c, u : c = m.cell /\ u = m.rnti
    OBVIOUS
<1>3. /\ TypeOK' /\ RefsOk' /\ Quiet /\ SameContexts /\ \A k \in Cells : SameQueue(k)
      /\ UNCHANGED <<ueCell, ideal>>
      /\ c \in Cells /\ u \in Nat /\ Sent("RECONFIGURATION", c, u)
      /\ ue' = IF c = ueCell /\ u = ue.rnti THEN Ue!RecvRrcConnectionReconfiguration(ue) ELSE ue
      /\ \A k \in Cells : \A r \in Nat :
            /\ \A n \in Nat : Commanded(k, r, n)' <=> Commanded(k, r, n)
            /\ Sent("RAR", k, r)' <=> Sent("RAR", k, r)
            /\ Sent("RECONFIGURATION", k, r)' <=>
                  Sent("RECONFIGURATION", k, r) /\ ~(k = c /\ r = u)
            /\ Sent("RECONFIGURATION_COMPLETED", k, r)' <=>
                  \/ Sent("RECONFIGURATION_COMPLETED", k, r)
                  \/ k = c /\ r = u /\ c = ueCell /\ u = ue.rnti
    BY <1>1, <1>2, ReconfigurationSteps
<1>4. ideal = {}
    BY <1>3 DEF Quiet
<1> SUFFICES ASSUME ~Aborted' PROVE InStep'
    BY <1>3 DEF HandoverInv
<1>5. ContextsOk' /\ OneTeid'
    BY <1>1, <1>3 DEF SameContexts, InStep, ContextsOk, OneTeid
<1>6. ue' = ue /\ (c = ueCell /\ u = ue.rnti => Alive)
    <2>1. CASE c = ueCell /\ u = ue.rnti
        <3>1. ue \in UeStates /\ ue' = Ue!RecvRrcConnectionReconfiguration(ue)
            BY <1>1, <1>3, <2>1 DEF TypeOK
        <3>2. ue'.rrc # "ABORTED"
            BY <1>3, NotAbortedNext
        <3> QED BY <3>1, <3>2, UeReconfigures DEF Alive
    <2> QED BY <1>3, <2>1
<1>7. CASE Alive
    <2>1. Live /\ Alive' /\ c = ueCell /\ u = ue.rnti
        BY <1>1, <1>3, <1>4, <1>6, <1>7 DEF Live, Alive, InStep, RadioOk, ReconfigurationOk, UeAt
    <2>2. QueuesOk' /\ RadioOk'
        BY <1>1, <1>3, <1>6, <2>1, ReconfigurationKeeps
    <2> QED BY <1>3, <1>4, <1>5, <2>1, <2>2, Calm DEF InStep
<1>8. CASE ~Alive
    <2>1. \A k \in Cells : \A r \in Nat : Asks(k, r)' => Asks(k, r)
        BY <1>3, AsksKept
    <2>2. QueuesOk' /\ RadioOk' /\ AskedOk'
        BY <1>1, <1>3, <1>4, <1>6, <1>8, <2>1, DeadKeeps DEF IdealOk, SameContexts, Alive
    <2> QED BY <1>5, <2>2 DEF InStep
<1> QED BY <1>7, <1>8

LEMMA ResponseInv ==
    ASSUME HandoverInv, ~Aborted, NEW m \in air, ArriveRaResponse(m)
    PROVE  HandoverInv'
<1>1. TypeOK /\ RefsOk /\ InStep
    BY DEF HandoverInv
<1>2. PICK c, u : c = m.cell /\ u = m.rnti
    OBVIOUS
<1> DEFINE for == c = ueCell /\ ue.rrc = "CONNECTED_HANDOVER"
<1>3. /\ TypeOK' /\ RefsOk' /\ Quiet /\ SameContexts /\ \A k \in Cells : SameQueue(k)
      /\ UNCHANGED <<ueCell, ideal>>
      /\ c \in Cells /\ u \in Nat /\ Sent("RAR", c, u)
      /\ ue' = IF for THEN Ue!RecvRaResponse(ue, u) ELSE ue
      /\ \A k \in Cells : \A r \in Nat :
            /\ \A n \in Nat : Commanded(k, r, n)' <=> Commanded(k, r, n)
            /\ Sent("RAR", k, r)' <=> Sent("RAR", k, r) /\ ~(k = c /\ r = u)
            /\ Sent("RECONFIGURATION", k, r)' <=> Sent("RECONFIGURATION", k, r)
            /\ Sent("RECONFIGURATION_COMPLETED", k, r)' <=>
                  Sent("RECONFIGURATION_COMPLETED", k, r) \/ (k = c /\ r = u /\ for)
    BY <1>1, <1>2, ResponseSteps
<1>4. ideal = {}
    BY <1>3 DEF Quiet
<1> SUFFICES ASSUME ~Aborted' PROVE InStep'
    BY <1>3 DEF HandoverInv
<1>5. ContextsOk' /\ OneTeid'
    BY <1>1, <1>3 DEF SameContexts, InStep, ContextsOk, OneTeid
<1>6. CASE Alive
    <2>1. Live /\ for
        BY <1>1, <1>3, <1>4, <1>6 DEF Live, InStep, RadioOk, ResponseOk
    <2>2. /\ ue'.rrc = "CONNECTED_NORMALLY" /\ ue'.rnti = u /\ ue'.preambleSent = ue.preambleSent
          /\ ueCell' = c
        BY <1>1, <1>3, <2>1, UeAccesses DEF TypeOK
    <2>3. QueuesOk' /\ RadioOk'
        BY <1>1, <1>3, <2>1, <2>2, ResponseKeeps
    <2> QED BY <1>3, <1>4, <1>5, <2>2, <2>3, Calm DEF InStep, Alive
<1>7. CASE ~Alive
    <2>1. ue' = ue /\ ~for
        BY <1>3, <1>7 DEF Alive
    <2>2. \A k \in Cells : \A r \in Nat : Asks(k, r)' => Asks(k, r)
        BY <1>3, AsksKept
    <2>3. QueuesOk' /\ RadioOk' /\ AskedOk'
        BY <1>1, <1>3, <1>4, <1>7, <2>1, <2>2, DeadKeeps DEF IdealOk, SameContexts, Alive
    <2> QED BY <1>5, <2>3 DEF InStep
<1> QED BY <1>6, <1>7

LEMMA TimeoutInv ==
    ASSUME HandoverInv, ~Aborted, RaResponseTimeout
    PROVE  HandoverInv'
<1>1. TypeOK /\ RefsOk /\ InStep
    BY DEF HandoverInv
<1>2. /\ TypeOK' /\ RefsOk' /\ Quiet /\ SameContexts /\ \A k \in Cells : SameQueue(k)
      /\ UNCHANGED <<ueCell, air>>
      /\ ue.rrc = "CONNECTED_HANDOVER" /\ \A r \in Nat : ~Sent("RAR", ueCell, r)
      /\ \/ /\ ue'.rrc = "CONNECTED_HANDOVER" /\ ue'.rnti = ue.rnti
            /\ ideal' = {}
         \/ /\ ue'.rrc = "IDLE_CELL_SEARCH"
            /\ ideal' = {Removal(ueCell, ue.rnti)}
    BY <1>1, TimeoutSteps
<1> SUFFICES InStep'
    BY <1>2 DEF HandoverInv
<1>3. ideal = {} /\ Alive /\ Live
    BY <1>2 DEF Quiet, Alive, Live
<1>4. ContextsOk' /\ OneTeid'
    BY <1>1, <1>2 DEF SameContexts, InStep, ContextsOk, OneTeid
<1>5. CASE ue'.rrc = "CONNECTED_HANDOVER" /\ ue'.rnti = ue.rnti /\ ideal' = {}
    <2>1. \A k \in Cells : \A r \in Nat :
             /\ \A n \in Nat : Commanded(k, r, n)' <=> Commanded(k, r, n)
             /\ \A type \in AirTypes : Sent(type, k, r)' <=> Sent(type, k, r)
        BY <1>1, <1>2, Unchanging
    <2>2. Alike
        BY <1>2 DEF SameContexts, Alike
    <2>3. QueuesOk' /\ RadioOk'
        <3>1. UNCHANGED <<ueCell, ideal>> /\ ue'.rrc = ue.rrc /\ ue'.rnti = ue.rnti
            BY <1>2, <1>3, <1>5
        <3>2. \A k \in Cells : \A r \in Nat :
                 k = ueCell /\ r = ue.rnti /\ ue.rrc = "CONNECTED_NORMALLY"
                 /\ Mine.state # "NONE" => FALSE
            BY <1>2
        <3> QED BY <1>1, <1>2, <1>3, <2>1, <2>2, <3>1, <3>2, AirKept
    <2> QED BY <1>4, <1>5, <2>3, Calm DEF InStep, Alive
<1>6. CASE ue'.rrc = "IDLE_CELL_SEARCH" /\ ideal' = {Removal(ueCell, ue.rnti)}
    <2>1. \A k \in Cells : \A r \in Nat : Asks(k, r)' => Asks(k, r)
        BY <1>2, AsksKept
    <2>2. PICK c \in Cells, u \in Nat : ueCell = c /\ ue.rnti = u
        BY <1>1 DEF TypeOK, UeStates
    <2>3. QueuesOk' /\ RadioOk' /\ AskedOk'
        BY <1>1, <1>2, <1>3, <1>6, <2>1, <2>2, Leaves
    <2> QED BY <1>4, <2>3 DEF InStep
<1> QED BY <1>2, <1>5, <1>6

LEMMA LinkFailureInv ==
    ASSUME HandoverInv, ~Aborted, RadioLinkFailureDetected
    PROVE  HandoverInv'
<1>1. TypeOK /\ RefsOk /\ InStep
    BY DEF HandoverInv
<1>2. /\ TypeOK' /\ RefsOk' /\ SameContexts /\ \A k \in Cells : SameQueue(k)
      /\ air' = air /\ ue.rrc = "CONNECTED_NORMALLY"
      /\ ue'.rrc = "IDLE_CELL_SEARCH" /\ ideal' = {Removal(ueCell, ue.rnti)}
    BY <1>1, LinkFailureSteps
<1>3. ContextsOk' /\ OneTeid'
    BY <1>1, <1>2 DEF SameContexts, InStep, ContextsOk, OneTeid
<1>4. \A k \in Cells : \A r \in Nat : Asks(k, r)' => Asks(k, r)
    BY <1>2, AsksKept
<1>5. PICK c \in Cells, u \in Nat : ueCell = c /\ ue.rnti = u
    BY <1>1 DEF TypeOK, UeStates
<1>6. QueuesOk' /\ RadioOk' /\ AskedOk'
    BY <1>1, <1>2, <1>4, <1>5, Leaves DEF Alive
<1> QED BY <1>2, <1>3, <1>6 DEF HandoverInv, InStep

LEMMA ReleaseInv ==
    ASSUME HandoverInv, ~Aborted, RecvRrcConnectionRelease
    PROVE  HandoverInv'
<1>1. TypeOK /\ RefsOk /\ InStep
    BY DEF HandoverInv
<1>2. /\ TypeOK' /\ RefsOk' /\ SameContexts /\ \A k \in Cells : SameQueue(k)
      /\ UNCHANGED <<ueCell, air>> /\ ideal = {Release}
      /\ IF Alive THEN ue'.rrc = "IDLE_CELL_SEARCH" /\ ideal' = {Removal(ueCell, ue.rnti)}
         ELSE ue' = ue /\ ideal' = {}
    BY <1>1, ReleaseSteps
<1>3. ContextsOk' /\ OneTeid'
    BY <1>1, <1>2 DEF SameContexts, InStep, ContextsOk, OneTeid
<1>4. \A k \in Cells : \A r \in Nat : Asks(k, r)' => Asks(k, r)
    BY <1>2, AsksKept
<1>5. PICK c \in Cells, u \in Nat : ueCell = c /\ ue.rnti = u
    BY <1>1 DEF TypeOK, UeStates
<1>6. CASE Alive
    <2>1. QueuesOk' /\ RadioOk' /\ AskedOk'
        BY <1>1, <1>2, <1>4, <1>5, <1>6, Leaves
    <2> QED BY <1>2, <1>3, <2>1 DEF HandoverInv, InStep
<1>7. CASE ~Alive
    <2>1. \A k \in Cells : \A r \in Nat : Removal(k, r) \notin ideal
        BY <1>2 DEF Removal, Release, Cells
    <2>2. \A k \in Cells : \A r \in Nat :
             Sent("RECONFIGURATION_COMPLETED", k, r)' => Sent("RECONFIGURATION_COMPLETED", k, r)
        BY <1>2 DEF Sent
    <2>3. ~Alive' /\ IdealOk'
        BY <1>2, <1>7 DEF Alive, IdealOk
    <2>4. QueuesOk' /\ RadioOk' /\ AskedOk'
        BY <1>1, <1>2, <1>4, <1>7, <2>1, <2>2, <2>3, DeadKeeps DEF SameContexts
    <2> QED BY <1>2, <1>3, <2>4 DEF HandoverInv, InStep
<1> QED BY <1>6, <1>7

\* A random access response goes to r, which has joined or is new.
LEMMA PreambleInv ==
    ASSUME HandoverInv, ~Aborted, RecvPreamble
    PROVE  HandoverInv'
<1>1. TypeOK /\ RefsOk /\ InStep
    BY DEF HandoverInv
<1>2. PICK c \in Cells, u \in Nat : c = ueCell /\ u = ue.rnti
    BY <1>1 DEF TypeOK, UeStates
<1>3. PICK new : new = lastAllocatedRnti[c] + 1
    OBVIOUS
<1>4. /\ TypeOK' /\ RefsOk' /\ Quiet /\ (\A k \in Cells : SameQueue(k))
      /\ UNCHANGED <<ueCell, ideal>>
      /\ ue.preambleSent /\ ue'.rrc = ue.rrc /\ ue'.rnti = ue.rnti /\ ue'.preambleSent = FALSE
      /\ \E r \in Nat : Responds(c, r, new)
    BY <1>1, <1>2, <1>3, PreambleSteps
<1>5. PICK r \in Nat :
         /\ \A k \in Cells : \A o \in Nat :
               /\ \A q \in Nat : Commanded(k, o, q)' <=> Commanded(k, o, q)
               /\ \A type \in AirTypes \ {"COMMAND"} : Sent(type, k, o)' <=>
                     Sent(type, k, o) \/ (type = "RAR" /\ k = c /\ o = r)
         /\ \/ SameContexts /\ Context(c, r).source # 0
            \/ /\ \A q \in Nat : Context(c, q).source = 0
               /\ r = new /\ Becomes(c, new, Enb!InitContext)
    BY <1>4 DEF Responds
<1> SUFFICES InStep'
    BY <1>4 DEF HandoverInv
<1>6. /\ new \in Nat /\ Context(c, new).state = "NONE" /\ new # u /\ ~Asks(c, new)
      /\ \A i \in Places : At(c, i).type = "CONTEXT_RELEASE" => At(c, i).old # new
      /\ ~Sent("RECONFIGURATION_COMPLETED", c, new)
    <2>1. "RECONFIGURATION_COMPLETED" \in AirTypes \ {"COMMAND"}
        BY DEF AirTypes
    <2> QED BY <1>1, <1>2, <1>3, <2>1, Fresh DEF NoContext
<1>7. /\ Enb!InitContext.state = "INITIAL_RANDOM_ACCESS" /\ Enb!InitContext.source = 0
      /\ ContextOk(Enb!InitContext)
    BY NewContexts
<1>8. ContextsOk' /\ OneTeid'
    <2>1. CASE SameContexts
        BY <1>1, <2>1 DEF SameContexts, InStep, ContextsOk, OneTeid
    <2>2. CASE Becomes(c, new, Enb!InitContext)
        BY <1>1, <1>6, <1>7, <2>2, ContextsKept, TeidKept DEF InStep
    <2> QED BY <1>5, <2>1, <2>2
<1>9. ideal = {} /\ ideal' = {}
    BY <1>4 DEF Quiet
<1>10. \A k \in Cells : \A o \in Nat :
          /\ Sent("RAR", k, o)' => Sent("RAR", k, o) \/ (k = c /\ o = r)
          /\ Sent("RECONFIGURATION", k, o)' => Sent("RECONFIGURATION", k, o)
          /\ Sent("RECONFIGURATION_COMPLETED", k, o)' <=> Sent("RECONFIGURATION_COMPLETED", k, o)
    BY <1>5 DEF AirTypes
<1>11. CASE Alive
    <2> DEFINE next == Enb!InitContext
    <2>1. Live /\ Alive'
        BY <1>4, <1>9, <1>11 DEF Live, Alive
    <2>2. \/ SameContexts /\ Context(c, r).source # 0
          \/ /\ \A q \in Nat : Context(c, q).source = 0
             /\ Context(c, r).state = "NONE" /\ r # u
             /\ \A i \in Places : At(c, i).type = "CONTEXT_RELEASE" => At(c, i).old # r
             /\ Becomes(c, r, next)
        BY <1>5, <1>6
    <2>3. QueuesOk' /\ RadioOk'
        <3>1. /\ ueCell = c /\ ue.rnti = u /\ ueCell' = c /\ ue'.rnti = u /\ ideal' = ideal
              /\ ue.preambleSent /\ ue'.rrc = ue.rrc /\ ue'.preambleSent = FALSE
              /\ (\A k \in Cells : SameQueue(k)) /\ c \in Cells /\ u \in Nat /\ r \in Nat
            BY <1>2, <1>4, <1>5
        <3>2. \A k \in Cells : \A o \in Nat :
                 /\ \A q \in Nat : Commanded(k, o, q)' <=> Commanded(k, o, q)
                 /\ Sent("RAR", k, o)' => Sent("RAR", k, o) \/ (k = c /\ o = r)
                 /\ Sent("RECONFIGURATION", k, o)' => Sent("RECONFIGURATION", k, o)
                 /\ Sent("RECONFIGURATION_COMPLETED", k, o)' <=>
                       Sent("RECONFIGURATION_COMPLETED", k, o)
            BY <1>5, <1>10
        <3>3. next.state = "INITIAL_RANDOM_ACCESS" /\ next.source = 0
            BY <1>7
        <3> HIDE DEF next
        <3> QED BY <1>1, <2>1, <2>2, <3>1, <3>2, <3>3, PreambleKeeps
    <2> QED BY <1>8, <1>9, <2>1, <2>3, Calm DEF InStep
<1>12. CASE ~Alive
    <2>1. ~Alive' /\ IdealOk'
        BY <1>4, <1>9, <1>12 DEF Alive, IdealOk
    <2>2. \A k \in Cells : \A o \in Nat : Asks(k, o)' => Asks(k, o)
        BY <1>4, AsksKept
    <2>3. \A k \in Cells : \A o \in Nat :
             \/ Context(k, o)' = Context(k, o)
             \/ k = c /\ o = new /\ Context(k, o)'.state = "INITIAL_RANDOM_ACCESS"
        BY <1>5, <1>7 DEF SameContexts, Becomes
    <2>4. QueuesOk' /\ RadioOk' /\ AskedOk'
        BY <1>1, <1>6, <1>9, <1>10, <1>12, <2>1, <2>2, <2>3, DeadKeeps DEF Serving
    <2> QED BY <1>8, <2>4 DEF InStep
<1> QED BY <1>11, <1>12

\* Where a context goes when its UE confirms a reconfiguration.
LEMMA CompletedInv ==
    ASSUME HandoverInv, ~Aborted, NEW m \in air, ArriveCompleted(m)
    PROVE  HandoverInv'
<1>1. TypeOK /\ RefsOk /\ InStep
    BY DEF HandoverInv
<1>2. PICK c, r : c = m.cell /\ r = m.rnti
    OBVIOUS
<1> DEFINE now  == Context(c, r)
           next == Enb!RecvRrcConnectionReconfigurationCompleted(now)
<1>3. /\ TypeOK' /\ RefsOk' /\ Quiet /\ c \in Cells /\ r \in Nat
      /\ Sent("RECONFIGURATION_COMPLETED", c, r)
      /\ \A k \in Cells : SameQueue(k)
      /\ UNCHANGED <<ue, ueCell, ideal>>
      /\ \/ now.state = "NONE" /\ SameContexts
         \/ /\ now.state # "NONE" /\ Becomes(c, r, next)
            /\ Goes(now, next, Confirmed(now.state), now.target)
      /\ \A k \in Cells : \A o \in Nat :
            /\ \A q \in Nat : Commanded(k, o, q)' <=> Commanded(k, o, q)
            /\ Sent("RAR", k, o)' <=> Sent("RAR", k, o)
            /\ Sent("RECONFIGURATION", k, o)' <=>
                  \/ Sent("RECONFIGURATION", k, o)
                  \/ /\ now.state # "NONE" /\ next.state = "CONNECTION_RECONFIGURATION"
                     /\ k = c /\ o = r
            /\ Sent("RECONFIGURATION_COMPLETED", k, o)' <=>
                  Sent("RECONFIGURATION_COMPLETED", k, o) /\ ~(k = c /\ o = r)
    BY <1>1, <1>2, CompletedSteps
<1> HIDE DEF next
<1> SUFFICES ASSUME ~Aborted' PROVE InStep'
    BY <1>3 DEF HandoverInv
<1>4. ideal = {}
    BY <1>3 DEF Quiet
<1>5. \A k \in Cells : \A o \in Nat : Asks(k, o)' => Asks(k, o)
    BY <1>3, AsksKept
<1>6. CASE ~Alive
    <2>1. now.state = "NONE" /\ SameContexts
        BY <1>1, <1>3, <1>4, <1>6, Unserved
    <2>2. ContextsOk' /\ OneTeid'
        BY <1>1, <2>1 DEF SameContexts, InStep, ContextsOk, OneTeid
    <2>3. QueuesOk' /\ RadioOk' /\ AskedOk'
        <3>1. ~Alive' /\ IdealOk' /\ \A k \in Cells : \A o \in Nat :
                 Sent("RECONFIGURATION_COMPLETED", k, o)' => Sent("RECONFIGURATION_COMPLETED", k, o)
            BY <1>3, <1>4, <1>6 DEF IdealOk, Alive
        <3> QED BY <1>1, <1>3, <1>4, <1>5, <1>6, <2>1, <3>1, DeadKeeps DEF SameContexts
    <2> QED BY <2>2, <2>3 DEF InStep
<1>7. CASE Alive
    <2>1. Live /\ Alive' /\ ideal' = {}
        BY <1>3, <1>4, <1>7 DEF Live, Alive
    <2>2. /\ ueCell = c /\ ue.rnti = r /\ Mine = now /\ ue.rrc = "CONNECTED_NORMALLY"
          /\ now.state \in {"NONE", "INITIAL_RANDOM_ACCESS", "CONNECTION_RECONFIGURATION",
                            "HANDOVER_JOINING"}
        BY <1>1, <1>3, <1>7 DEF InStep, RadioOk, CompletedOk, UeAt, Mine
    <2>3. CASE now.state = "NONE"
        <3>1. SameContexts /\ Alike
            BY <1>3, <2>3 DEF SameContexts, Alike
        <3>2. ContextsOk' /\ OneTeid'
            BY <1>1, <3>1 DEF SameContexts, InStep, ContextsOk, OneTeid
        <3>3. \A k \in Cells : \A o \in Nat :
                 /\ \A q \in Nat : Commanded(k, o, q)' => Commanded(k, o, q)
                 /\ \A type \in AirTypes \ {"COMMAND"} : Sent(type, k, o)' => Sent(type, k, o)
            BY <1>3, <2>3 DEF AirTypes
        <3>4. QueuesOk' /\ RadioOk'
            BY <1>1, <1>3, <2>1, <2>2, <2>3, <3>1, <3>3, AirKept
        <3> QED BY <2>1, <3>2, <3>4, Calm DEF InStep
    <2>4. CASE now.state # "NONE"
        <3>1. /\ Becomes(c, r, next) /\ Goes(now, next, Confirmed(now.state), now.target)
              /\ next.source = now.source
              /\ next.state # "ABORTED"
            BY <1>3, <2>4, NotAbortedNext DEF Becomes, Goes
        <3>2. ContextsOk' /\ OneTeid'
            <4>1. ContextOk(next)
                BY <1>1, <1>3, <3>1 DEF Goes, InStep, ContextsOk
            <4> QED BY <1>1, <1>3, <3>1, <4>1, ContextsKept, TeidKept DEF InStep
        <3>3. \A k \in Cells : \A o \in Nat :
                 /\ ~Sent("RECONFIGURATION", k, o)
                 /\ Sent("RECONFIGURATION_COMPLETED", k, o) => k = c /\ o = r
            BY <1>1, <1>3, <1>7, <2>2 DEF InStep, RadioOk, ReconfigurationOk, CompletedOk, UeAt
        <3>4. CASE now.state = "HANDOVER_JOINING"
            <4>1. next.state = "HANDOVER_PATH_SWITCH"
                BY <3>1, <3>4 DEF Goes, Confirmed
            <4>2. \A k \in Cells : \A o \in Nat :
                     /\ \A q \in Nat : Commanded(k, o, q)' <=> Commanded(k, o, q)
                     /\ Sent("RAR", k, o)' => Sent("RAR", k, o)
                     /\ Sent("RECONFIGURATION", k, o)' => Sent("RECONFIGURATION", k, o)
                     /\ Sent("RECONFIGURATION_COMPLETED", k, o)' <=>
                           Sent("RECONFIGURATION_COMPLETED", k, o) /\ ~(k = c /\ o = r)
                BY <1>3, <4>1
            <4>3. QueuesOk' /\ RadioOk'
                BY <1>1, <1>3, <2>1, <2>2, <3>1, <3>4, <4>1, <4>2, JoinedKeeps
            <4> QED BY <2>1, <3>2, <4>3, Calm DEF InStep
        <3>5. CASE now.state # "HANDOVER_JOINING"
            <4>1. /\ now.state = "CONNECTION_RECONFIGURATION"
                  /\ next.state \in {"CONNECTED_NORMALLY", "CONNECTION_RECONFIGURATION"}
                BY <2>2, <2>4, <3>1, <3>5 DEF Goes, Confirmed
            <4>2. /\ Mine.state \in Serving /\ Becomes(ueCell, ue.rnti, next)
                  /\ next.source = Mine.source
                BY <2>2, <3>1, <4>1 DEF Serving
            <4>3. \A k \in Cells : \A n \in Nat : Context(k, n).state # "HANDOVER_JOINING"
                BY <1>1, <2>1, <2>2, <4>1, Phases
            <4>4. \A k \in Cells : \A o, n \in Nat : ~Commanded(k, o, n)'
                BY <1>1, <1>3, <2>1, <2>2, <4>1, Phases
            <4>5. \A k \in Cells : \A i \in Places :
                     /\ At(k, i)'.type \notin {"HANDOVER_REQUEST", "REQUEST_ACK",
                                               "PREPARATION_FAILURE", "HANDOVER_CANCEL"}
                     /\ At(k, i)'.type = "CONTEXT_RELEASE" =>
                           \E o \in Nat : /\ At(k, i)'.old = o
                                          /\ \/ Context(k, o).state = "NONE"
                                             \/ /\ k = Other(ueCell)
                                                /\ Context(k, o).state = "HANDOVER_LEAVING"
                <5> SUFFICES ASSUME NEW k \in Cells, NEW i \in Places
                             PROVE  /\ At(k, i)'.type \notin {"HANDOVER_REQUEST", "REQUEST_ACK",
                                                              "PREPARATION_FAILURE", "HANDOVER_CANCEL"}
                                    /\ At(k, i)'.type = "CONTEXT_RELEASE" =>
                                          \E o \in Nat :
                                             /\ At(k, i)'.old = o
                                             /\ \/ Context(k, o).state = "NONE"
                                                \/ /\ k = Other(ueCell)
                                                   /\ Context(k, o).state = "HANDOVER_LEAVING"
                    OBVIOUS
                <5>1. At(k, i)' = At(k, i)
                    BY <1>3 DEF SameQueue
                <5>2. /\ At(k, i).type \notin {"HANDOVER_REQUEST", "REQUEST_ACK",
                                               "PREPARATION_FAILURE", "HANDOVER_CANCEL"}
                      /\ At(k, i).old \in Nat
                      /\ At(k, i).type = "CONTEXT_RELEASE" =>
                            \/ Context(k, At(k, i).old).state = "NONE"
                            \/ /\ k = Other(ueCell)
                               /\ Context(k, At(k, i).old).state = "HANDOVER_LEAVING"
                    BY <1>1, <2>1, <2>2, <4>1, Phases, MessageTypes DEF Lost
                <5> QED BY <5>1, <5>2
            <4>6. \A k \in Cells : \A o \in Nat :
                     /\ Sent("RAR", k, o)' => Sent("RAR", k, o)
                     /\ Sent("RECONFIGURATION", k, o)' <=>
                           k = ueCell /\ o = ue.rnti /\ next.state = "CONNECTION_RECONFIGURATION"
                     /\ ~Sent("RECONFIGURATION_COMPLETED", k, o)'
                BY <1>3, <2>2, <2>4, <3>3
            <4>7. QueuesOk' /\ RadioOk'
                <5> HIDE DEF now
                <5> QED BY <1>1, <1>3, <2>1, <4>1, <4>2, <4>3, <4>4, <4>5, <4>6, Settles
            <4> QED BY <2>1, <3>2, <4>7, Calm DEF InStep
        <3> QED BY <3>4, <3>5
    <2> QED BY <2>3, <2>4
<1> QED BY <1>6, <1>7

\* Lost, or dropped with the context or the connection that would send it.
LEMMA FadeInv ==
    ASSUME HandoverInv, ~Aborted, Lose \/ DropUnsent
    PROVE  HandoverInv'
<1>1. TypeOK /\ RefsOk /\ InStep
    BY DEF HandoverInv
<1>2. /\ TypeOK' /\ RefsOk' /\ Quiet /\ SameContexts /\ (\A k \in Cells : SameQueue(k))
      /\ UNCHANGED <<ueCell, ideal>>
      /\ ue'.rrc = ue.rrc /\ ue'.rnti = ue.rnti
      /\ ue'.preambleSent => ue.preambleSent
    BY <1>1, FadeSteps
<1>3. \A k \in Cells : \A r \in Nat :
         /\ \A n \in Nat : Commanded(k, r, n)' => Commanded(k, r, n)
         /\ \A type \in AirTypes \ {"COMMAND"} : Sent(type, k, r)' => Sent(type, k, r)
         /\ k = ueCell /\ r = ue.rnti /\ Context(k, r).state # "NONE" =>
               /\ \A n \in Nat : Commanded(k, r, n) => Commanded(k, r, n)'
               /\ \A type \in {"RECONFIGURATION", "RECONFIGURATION_COMPLETED"} :
                     Sent(type, k, r) => Sent(type, k, r)'
    BY <1>1, FadeSteps
<1> SUFFICES InStep'
    BY <1>2 DEF HandoverInv
<1>4. ideal = {} /\ ideal' = {}
    BY <1>2 DEF Quiet
<1>5. ContextsOk' /\ OneTeid'
    BY <1>1, <1>2 DEF SameContexts, InStep, ContextsOk, OneTeid
<1>6. CASE Alive
    <2>1. Live /\ Alive' /\ Alike
        BY <1>2, <1>4, <1>6 DEF Live, Alive, SameContexts, Alike
    <2>2. \A k \in Cells : \A r \in Nat :
             /\ \A n \in Nat : Commanded(k, r, n)' => Commanded(k, r, n)
             /\ \A type \in AirTypes \ {"COMMAND"} : Sent(type, k, r)' => Sent(type, k, r)
             /\ k = ueCell /\ r = ue.rnti /\ ue.rrc = "CONNECTED_NORMALLY"
                /\ Mine.state # "NONE" =>
                   /\ \A n \in Nat : Commanded(k, r, n) => Commanded(k, r, n)'
                   /\ \A type \in {"RECONFIGURATION", "RECONFIGURATION_COMPLETED"} :
                         Sent(type, k, r) => Sent(type, k, r)'
        BY <1>3 DEF Mine
    <2>3. QueuesOk' /\ RadioOk'
        BY <1>1, <1>2, <2>1, <2>2, AirKept
    <2> QED BY <1>4, <1>5, <2>1, <2>3, Calm DEF InStep
<1>7. CASE ~Alive
    <2>1. ~Alive' /\ IdealOk'
        BY <1>2, <1>4, <1>7 DEF Alive, IdealOk
    <2>2. \A k \in Cells : \A r \in Nat : Asks(k, r)' => Asks(k, r)
        BY <1>2, AsksKept
    <2>3. \A k \in Cells : \A r \in Nat :
             Sent("RECONFIGURATION_COMPLETED", k, r)' => Sent("RECONFIGURATION_COMPLETED", k, r)
        BY <1>3 DEF AirTypes
    <2>4. QueuesOk' /\ RadioOk' /\ AskedOk'
        BY <1>1, <1>2, <1>4, <1>7, <2>1, <2>2, <2>3, DeadKeeps DEF SameContexts
    <2> QED BY <1>5, <2>4 DEF InStep
<1> QED BY <1>6, <1>7

LEMMA RemoveInv ==
    ASSUME HandoverInv, ~Aborted, NEW m \in ideal \ {Release},
           RecvIdealUeContextRemoveRequest(m.to, m.rnti)
    PROVE  HandoverInv'
<1>1. TypeOK /\ RefsOk /\ InStep
    BY DEF HandoverInv
<1>2. PICK c, r : c = m.to /\ r = m.rnti
    OBVIOUS
<1>3. PICK s : s = Context(c, r).source
    OBVIOUS
<1>4. /\ TypeOK' /\ RefsOk' /\ c \in Cells /\ r \in Nat /\ Removal(c, r) \in ideal
      /\ ideal' = ideal \ {Removal(c, r)} /\ Becomes(c, r, NoContext) /\ SameQueue(c)
      /\ SameQueue(Other(c)) \/ Put(Other(c), X2Message("PREPARATION_FAILURE", s, 0))
      /\ UNCHANGED <<ue, ueCell, air>>
    BY <1>1, <1>2, <1>3, RemoveSteps
<1> SUFFICES InStep'
    BY <1>4 DEF HandoverInv
<1>5. ContextsOk' /\ OneTeid'
    BY <1>1, <1>4, NoneOk, ContextsKept, TeidKept DEF InStep
<1>6. \A k \in Cells : \A o \in Nat : Asks(k, o)' => Asks(k, o)
    <2>1. X2Message("PREPARATION_FAILURE", s, 0).type = "PREPARATION_FAILURE"
        BY DEF X2Message
    <2>2. \A k \in Cells : k = c \/ k = Other(c)
        BY <1>4, Others
    <2> QED BY <1>4, <2>1, <2>2, AsksKept
<1>7. ~Alive /\ ideal = {Removal(c, r)}
    <2>1. Removal(c, r) # Release
        BY <1>4 DEF Removal, Release, Cells
    <2> QED BY <1>1, <1>4, <2>1 DEF InStep, RadioOk, IdealOk
<1>8. /\ ideal' = {} /\ ~Alive' /\ IdealOk'
      /\ \A k \in Cells : \A o \in Nat : Removal(k, o) \in ideal => k = c /\ o = r
    BY <1>4, <1>7 DEF IdealOk, Alive, Removal
<1>9. \A k \in Cells : \A o \in Nat :
         /\ Context(k, o)'.state # "NONE" =>
               Context(k, o)' = Context(k, o) /\ Removal(k, o) \notin ideal
         /\ Sent("RECONFIGURATION_COMPLETED", k, o)' <=> Sent("RECONFIGURATION_COMPLETED", k, o)
    BY <1>4, <1>8, NoneOk DEF Becomes, Sent
<1>10. QueuesOk' /\ RadioOk' /\ AskedOk'
    BY <1>1, <1>6, <1>7, <1>8, <1>9, DeadKeeps DEF Serving
<1> QED BY <1>5, <1>10 DEF InStep

LEMMA ExpireInv ==
    ASSUME HandoverInv, ~Aborted, NEW c \in Cells, NEW r \in DOMAIN contexts[c],
           NEW timer \in Enb!Timers, ExpireTimer(c, r, timer)
    PROVE  HandoverInv'
<1>1. TypeOK /\ RefsOk /\ InStep
    BY DEF HandoverInv
<1>2. PICK now : now = Context(c, r)
    OBVIOUS
<1> DEFINE failure == X2Message("PREPARATION_FAILURE", now.source, 0)
           cancel  == X2Message("HANDOVER_CANCEL", 0, now.target)
<1>3. /\ TypeOK' /\ RefsOk' /\ Quiet /\ r \in Nat
      /\ UNCHANGED <<ue, ueCell, air>>
      /\ Becomes(c, r, NoContext) /\ SameQueue(c)
      /\ \/ now.state = "INITIAL_RANDOM_ACCESS" /\ ideal' = {} /\ SameQueue(Other(c))
         \/ now.state = "HANDOVER_JOINING" /\ ideal' = {} /\ Put(Other(c), failure)
         \/ now.state = "HANDOVER_LEAVING" /\ ideal' = {Release} /\ Put(Other(c), cancel)
    BY <1>1, <1>2, ExpireSteps
<1>4. /\ failure.type = "PREPARATION_FAILURE" /\ failure.old = now.source
      /\ cancel.type = "HANDOVER_CANCEL"
    BY DEF X2Message
<1> HIDE DEF failure, cancel
<1> SUFFICES InStep'
    BY <1>3 DEF HandoverInv
<1>5. ContextsOk' /\ OneTeid'
    BY <1>1, <1>3, NoneOk, ContextsKept, TeidKept DEF InStep
<1>6. \A k \in Cells : \A o \in Nat : Asks(k, o)' => Asks(k, o)
    <2>1. \A k \in Cells : k = c \/ k = Other(c)
        BY Others
    <2> QED BY <1>3, <1>4, <2>1, AsksKept
<1>7. ideal = {}
    BY <1>3 DEF Quiet
<1>8. CASE now.state = "HANDOVER_LEAVING"
    <2>1. ideal' = {Release}
        BY <1>3, <1>8
    <2>2. QueuesOk' /\ RadioOk' /\ AskedOk'
        BY <1>1, <1>2, <1>3, <1>6, <1>7, <1>8, <2>1, GivesUp
    <2> QED BY <1>5, <2>2 DEF InStep
<1>9. CASE now.state # "HANDOVER_LEAVING" /\ ~Alive
    <2>1. ideal' = {} /\ ~Alive' /\ IdealOk'
        BY <1>3, <1>9 DEF IdealOk, Alive
    <2>2. \A k \in Cells : \A o \in Nat :
             /\ Context(k, o)'.state # "NONE" => Context(k, o)' = Context(k, o)
             /\ Sent("RECONFIGURATION_COMPLETED", k, o)' <=> Sent("RECONFIGURATION_COMPLETED", k, o)
        BY <1>3, NoneOk DEF Becomes, Sent
    <2>3. QueuesOk' /\ RadioOk' /\ AskedOk'
        BY <1>1, <1>6, <1>7, <1>9, <2>1, <2>2, DeadKeeps DEF Serving
    <2> QED BY <1>5, <2>3 DEF InStep
<1>10. CASE now.state # "HANDOVER_LEAVING" /\ Alive
    <2>1. Live /\ Alive' /\ ideal' = ideal
        BY <1>3, <1>7, <1>10 DEF Live, Alive
    <2>2. QueuesOk' /\ RadioOk'
        <3>1. CASE now.state = "INITIAL_RANDOM_ACCESS"
            <4>1. \A k \in Cells : SameQueue(k)
                BY <1>3, <3>1, Others
            <4> QED BY <1>1, <1>2, <1>3, <2>1, <3>1, <4>1, AccessEnds
        <3>2. CASE now.state = "HANDOVER_JOINING"
            <4>1. Put(Other(c), failure)
                BY <1>3, <3>2
            <4>2. PICK s : s = now.source
                OBVIOUS
            <4>3. s \in Nat
                BY <1>1, <1>2, <1>3, <4>2, ContextTypes
            <4> QED BY <1>1, <1>2, <1>3, <1>4, <2>1, <3>2, <4>1, <4>2, <4>3, JoiningEnds
        <3> QED BY <1>3, <1>10, <3>1, <3>2
    <2> QED BY <1>5, <1>7, <2>1, <2>2, Calm DEF InStep
<1> QED BY <1>8, <1>9, <1>10

-----------------------------------------------------------------------------
(* The invariant holds, always.                                            *)

\* A stuttering step, the initial states and every step.
LEMMA Stuttering ==
    ASSUME HandoverInv, UNCHANGED vars
    PROVE  HandoverInv'
<1>1. UNCHANGED <<ue, ueCell, contexts, lastAllocatedRnti, air, ideal, x2, pathSwitches, handovers,
                  mishaps, quickBackhaul>>
    BY DEF vars
<1>2. /\ \A k, r : Context(k, r)' = Context(k, r)
      /\ \A k, i : At(k, i)' = At(k, i)
      /\ \A k, r, n : Commanded(k, r, n)' <=> Commanded(k, r, n)
      /\ \A type, k, r : Sent(type, k, r)' <=> Sent(type, k, r)
      /\ \A k, r : UeAt(k, r)' <=> UeAt(k, r)
      /\ (Alive' <=> Alive) /\ (Live' <=> Live) /\ Mine' = Mine /\ (Lost' <=> Lost)
      /\ \A k, r : Asks(k, r)' <=> Asks(k, r)
      /\ Aborted' <=> Aborted
    BY <1>1 DEF Context, Has, At, Commanded, Sent, UeAt, Alive, Live, Mine, Lost, Asks, Aborted
<1>3. TypeOK' /\ RefsOk'
    BY <1>1 DEF HandoverInv, TypeOK, RefsOk, ContextRefsOk, MessageRefsOk, MessageOk, AirRefsOk,
                UeRefsOk, Context, Has, At, Commanded, Sent
<1> SUFFICES ASSUME InStep PROVE InStep'
    BY <1>2, <1>3 DEF HandoverInv
<1>4. ContextsOk' /\ OneTeid' /\ AskedOk'
    BY <1>1, <1>2 DEF InStep, ContextsOk, OneTeid, AskedOk
<1>5. QueuesOk'
    BY <1>1, <1>2 DEF InStep, QueuesOk, RequestOk, AckOk, FailureOk, ContextReleaseOk, NoCancel,
                      CommandOk, JoiningOk, SwitchOk, TeidOk, Prepared
<1>6. RadioOk'
    BY <1>1, <1>2 DEF InStep, RadioOk, LostOk, ResponseOk, PreambleOk, ReconfigurationOk,
                      CompletedOk, KnownOk, OwnedOk, IdealOk
<1> QED BY <1>4, <1>5, <1>6 DEF InStep

LEMMA Initially == Init => HandoverInv
<1> SUFFICES ASSUME Init PROVE HandoverInv
    OBVIOUS
<1> DEFINE served == [Enb!InitContext EXCEPT !.state = "CONNECTED_NORMALLY", !.timers = {}]
<1>1. /\ ue \in UeStates /\ ue.rrc = "CONNECTED_NORMALLY" /\ ue.rnti = 1 /\ ~ue.preambleSent
    BY DEF Init, Ue!InitUe, UeStates, RrcStates
<1>2. /\ served \in Contexts /\ served.state = "CONNECTED_NORMALLY" /\ served.timers = {}
      /\ served.source = 0 /\ served.target = 0
    BY NewContexts DEF Contexts, ContextStates
<1>3. /\ ueCell = 1 /\ air = {} /\ ideal = {} /\ x2 = [cell \in Cells |-> <<>>]
      /\ pathSwitches = {} /\ handovers = 0 /\ mishaps = 0 /\ quickBackhaul \in BOOLEAN
      /\ lastAllocatedRnti = [cell \in Cells |-> IF cell = 1 THEN 1 ELSE 0]
      /\ contexts = [cell \in Cells |-> IF cell = 1 THEN <<served>> ELSE <<>>]
    BY DEF Init
<1> HIDE DEF served
<1>4. /\ DOMAIN contexts = Cells /\ contexts[1] = <<served>> /\ contexts[2] = <<>>
      /\ lastAllocatedRnti[1] = 1 /\ lastAllocatedRnti[2] = 0
      /\ lastAllocatedRnti \in [Cells -> Nat] /\ Cells = {1, 2}
    BY <1>3 DEF Cells
<1>5. TypeOK
    <2>1. \A k \in Cells : /\ DOMAIN contexts[k] \subseteq 1 .. lastAllocatedRnti[k]
                           /\ \A r \in DOMAIN contexts[k] : contexts[k][r] \in Contexts
        BY <1>2, <1>4
    <2>2. x2 \in [Cells -> Seq(X2Messages)]
        BY <1>3
    <2> QED BY <1>1, <1>3, <1>4, <2>1, <2>2 DEF TypeOK
<1>6. \A k \in Cells : \A r \in Nat :
         Context(k, r) = IF k = 1 /\ r = 1 THEN served ELSE NoContext
    BY <1>4 DEF Context, Has
<1>7. /\ \A k \in Cells : \A i \in Places : At(k, i) = NoMessage
      /\ \A type, k, r : ~Sent(type, k, r)
      /\ \A k, r, n : ~Commanded(k, r, n)
    BY <1>3 DEF At, Sent, Commanded
<1>8. /\ NoMessage.type = "NONE" /\ NoMessage.old = 0 /\ NoMessage.new = 0
      /\ NoContext.state = "NONE" /\ NoContext.source = 0 /\ NoContext.target = 0
    BY DEF NoMessage, NoContext
<1>9. RefsOk
    <2>1. \A k \in Cells : Other(k) \in Cells /\ 0 <= lastAllocatedRnti[k]
        BY <1>4, Others
    <2>2. ContextRefsOk
        BY <1>2, <1>6, <1>8, <2>1 DEF ContextRefsOk
    <2>3. MessageRefsOk
        BY <1>7, <1>8, <2>1 DEF MessageRefsOk, MessageOk
    <2>4. AirRefsOk /\ UeRefsOk
        BY <1>1, <1>3, <1>4, <1>7 DEF AirRefsOk, UeRefsOk
    <2> QED BY <2>2, <2>3, <2>4 DEF RefsOk
<1>10. ContextsOk /\ OneTeid
    BY <1>2, <1>6, <1>8, NoneOk DEF ContextsOk, OneTeid, ContextOk, TimersOf
<1>11. /\ Mine = served /\ UeAt(1, 1) /\ Alive /\ ueCell \in Cells
       /\ \A k \in Cells : \A r \in Nat :
             Context(k, r).source = 0 /\ Context(k, r).state \in {"NONE", "CONNECTED_NORMALLY"}
    BY <1>1, <1>2, <1>3, <1>4, <1>6, <1>8 DEF Mine, UeAt, Alive
<1>12. QueuesOk
    BY <1>7, <1>8, <1>11
    DEF QueuesOk, RequestOk, AckOk, FailureOk, ContextReleaseOk, NoCancel, CommandOk, JoiningOk,
        SwitchOk, TeidOk
<1>13. OwnedOk
    BY <1>6, <1>8, <1>11 DEF OwnedOk, Serving
<1>14. RadioOk /\ AskedOk
    BY <1>1, <1>2, <1>3, <1>7, <1>11, <1>13
    DEF RadioOk, LostOk, Lost, ResponseOk, PreambleOk, ReconfigurationOk, CompletedOk, KnownOk,
        IdealOk, AskedOk, Live
<1> QED BY <1>5, <1>9, <1>10, <1>12, <1>14 DEF HandoverInv, InStep

LEMMA NextKeeps ==
    ASSUME HandoverInv, [Next]_vars
    PROVE  HandoverInv'
<1>1. CASE UNCHANGED vars
    BY <1>1, Stuttering
<1> SUFFICES ASSUME Next PROVE HandoverInv'
    BY <1>1
<1>2. ~Aborted
    BY DEF Next
<1>3. CASE \E c \in Cells : \E r \in DOMAIN contexts[c] : TriggerHandover(c, r)
    BY <1>2, <1>3, TriggerInv
<1>4. CASE \E c \in Cells : \E r \in DOMAIN contexts[c] :
              ScheduleRrcConnectionReconfiguration(c, r)
    BY <1>2, <1>4, ScheduleInv
<1>5. CASE \E c \in Cells : \E r \in DOMAIN contexts[c] : SendData(c, r)
    BY <1>2, <1>5, ForwardInv
<1>6. CASE \E c \in Cells : ArriveX2(c)
    BY <1>2, <1>6, RequestInv, AckInv, FailureInv, ForgetInv, CancelInv, DataInv DEF ArriveX2
<1>7. CASE ArriveS1
    BY <1>2, <1>7, SwitchInv DEF ArriveS1
<1>8. CASE ArriveAir
    BY <1>2, <1>8, CommandInv, ReconfigurationInv, ResponseInv, CompletedInv, PreambleInv
    DEF ArriveAir
<1>9. CASE ArriveIdeal
    BY <1>2, <1>9, ReleaseInv, RemoveInv DEF ArriveIdeal
<1>10. CASE RaResponseTimeout \/ RadioLinkFailureDetected \/ Lose \/ DropUnsent
    BY <1>2, <1>10, TimeoutInv, LinkFailureInv, FadeInv
<1>11. CASE ExpireTimers
    BY <1>2, <1>11, ExpireInv DEF ExpireTimers
<1> QED BY <1>3, <1>4, <1>5, <1>6, <1>7, <1>8, <1>9, <1>10, <1>11 DEF Next

\* The inductive invariant: what the variables hold, that every RNTI named was
\* given out, and, until the run is aborted, what each message under way and
\* each context says of the UE and of the other cell.
THEOREM Invariant == Spec => []HandoverInv
<1> QED BY Initially, NextKeeps, PTL DEF Spec

\* Every state the handlers of UE and eNBs leave is one the others know, and
\* no context is kept under an RNTI that was not given out.
THEOREM Typed == Spec => []TypeOK
<1>1. HandoverInv => TypeOK
    BY DEF HandoverInv
<1> QED BY <1>1, Invariant, PTL

-----------------------------------------------------------------------------
(***************************************************************************)
(* The invariant with quick links.  One message at a time, or a failure    *)
(* and a cancellation that miss each other, and the radio, the timers and  *)
(* the UE wait for it; so what a message or a request finds is what its    *)
(* sender left.                                                            *)
(***************************************************************************)

First(cell) == At(cell, 1)

NoDelay == quickBackhaul

FailureTo(cell, rnti) == First(cell).type = "PREPARATION_FAILURE" /\ First(cell).old = rnti
ReleaseTo(cell, rnti) == First(cell).type = "CONTEXT_RELEASE" /\ First(cell).old = rnti

QueuesQuick == \A k \in Cells :
    /\ \A i \in Places : i # 1 => At(k, i) = NoMessage
    /\ First(k).type \notin {"NONE", "HANDOVER_CANCEL"} =>
          ideal = {} /\ First(Other(k)).type \in {"NONE", "HANDOVER_CANCEL"}
    /\ First(k).type \notin {"NONE", "HANDOVER_CANCEL", "PREPARATION_FAILURE"} =>
          First(Other(k)).type = "NONE"
    /\ pathSwitches # {} => ideal = {} /\ First(k).type = "NONE"

\* The queue that a removal may need is empty.
RemovalsQuick == ideal # {} =>
    /\ Alive /\ Mine.state = "HANDOVER_JOINING" => First(Other(ueCell)).type = "NONE"
    /\ \A k \in Cells : \A r \in Nat :
          Removal(k, r) \in ideal /\ Context(k, r).state = "HANDOVER_JOINING" =>
             First(Other(k)).type = "NONE"

Refusable == {"NONE", "HANDOVER_PREPARATION", "HANDOVER_LEAVING"}

MessagesQuick == \A k \in Cells :
    /\ First(k).type \in {"HANDOVER_REQUEST", "REQUEST_ACK", "CONTEXT_RELEASE"} => Alive
    /\ First(k).type = "HANDOVER_REQUEST" => \A r \in Nat : Context(k, r).source = 0
    /\ First(k).type = "PREPARATION_FAILURE" => Context(k, First(k).old).state \in Refusable
    /\ First(k).type = "HANDOVER_CANCEL" =>
          Context(k, First(k).new).state \in {"NONE", "HANDOVER_JOINING"}
    /\ First(k).type = "UE_DATA" => \E r \in Nat : Context(k, r).state = "HANDOVER_JOINING"

SwitchQuick == \A k \in Cells : \A r \in Nat :
    Context(k, r).state = "HANDOVER_PATH_SWITCH" <=> Removal(k, r) \in pathSwitches

\* The cell that has given the UE away will hear from the other one.
LeavingQuick == \A k \in Cells : \A r \in Nat : Context(k, r).state = "HANDOVER_LEAVING" =>
    \/ /\ Context(Other(k), Context(k, r).target).state \in {"HANDOVER_JOINING",
                                                             "HANDOVER_PATH_SWITCH"}
       /\ Context(Other(k), Context(k, r).target).source = r
    \/ FailureTo(k, r)
    \/ ReleaseTo(k, r)

JoiningQuick == \A k \in Cells : \A r \in Nat : Context(k, r).state = "HANDOVER_JOINING" =>
    Context(Other(k), Context(k, r).source).state \in Refusable

\* While the UE is served, the other cell has no TEIDs for it: not when it is
\* asked to take the UE.
AtHome == {"CONNECTED_NORMALLY", "CONNECTION_RECONFIGURATION", "HANDOVER_PREPARATION"}

ServingQuick == Live /\ Mine.state \in AtHome =>
    \A r \in Nat : Context(Other(ueCell), r).source # 0 =>
       \/ ReleaseTo(Other(ueCell), r)
       \/ Mine.state = "HANDOVER_PREPARATION" /\ First(ueCell).type = "REQUEST_ACK"

SourceQuick == Live /\ Mine.state \in {"HANDOVER_JOINING", "HANDOVER_PATH_SWITCH"} =>
    \A r \in Nat : Context(Other(ueCell), r).source # 0 => r = Mine.source

AccessQuick == Alive => \A k \in Cells : \A r \in Nat :
    Context(k, r).state # "INITIAL_RANDOM_ACCESS"

QuickInv == /\ QueuesQuick /\ RemovalsQuick /\ MessagesQuick /\ SwitchQuick /\ LeavingQuick
            /\ JoiningQuick /\ ServingQuick /\ SourceQuick /\ AccessQuick

QuickBackhaulInv == NoDelay => ~Aborted /\ QuickInv

\* Nothing is aborted if neither the UE nor a context is.
LEMMA GoesOn ==
    ASSUME TypeOK', ue'.rrc # "ABORTED",
           \A k \in Cells : \A r \in Nat : Context(k, r)'.state # "ABORTED"
    PROVE  ~Aborted'
<1>1. ASSUME NEW k \in Cells, NEW r \in DOMAIN (contexts'[k]), contexts'[k][r].state = "ABORTED"
      PROVE  FALSE
    <2>1. r \in Nat
        BY DEF TypeOK
    <2>2. Context(k, r)' = contexts'[k][r]
        BY DEF Context, Has
    <2> QED BY <1>1, <2>1, <2>2
<1> QED BY <1>1 DEF Aborted

\* A queue of one place: a message is put, taken, or stays.
LEMMA PutFirst ==
    ASSUME TypeOK, QueuesQuick, NEW c \in Cells, First(c).type = "NONE", NEW m, Put(c, m)
    PROVE  /\ First(c)' = m
           /\ \A i \in Places : i # 1 => At(c, i)' = NoMessage
<1>1. PICK p \in Places : /\ \A i \in Places : i < p <=> At(c, i) # NoMessage
                          /\ \A i \in Places : At(c, i)' = IF i = p THEN m ELSE At(c, i)
    BY DEF Put
<1>2. 1 \in Places /\ At(c, 1) = NoMessage
    BY MessageTypes DEF Places, First
<1>3. p = 1
    BY <1>1, <1>2 DEF Places
<1> QED BY <1>1, <1>2, <1>3 DEF QueuesQuick, First

LEMMA TakenFirst ==
    ASSUME QueuesQuick, NEW c \in Cells, Taken(c)
    PROVE  /\ First(c)' = NoMessage /\ First(c)'.type = "NONE"
           /\ \A i \in Places : i # 1 => At(c, i)' = NoMessage
<1>1. 1 \in Places /\ \A i \in Places : i + 1 \in Places /\ i + 1 # 1
    BY DEF Places
<1>2. \A i \in Places : At(c, i)' = NoMessage
    BY <1>1 DEF QueuesQuick, Taken
<1> QED BY <1>1, <1>2 DEF First, NoMessage

LEMMA SameFirst ==
    ASSUME QueuesQuick, NEW c \in Cells, SameQueue(c)
    PROVE  /\ First(c)' = First(c)
           /\ \A i \in Places : i # 1 => At(c, i)' = NoMessage
<1>1. 1 \in Places
    BY DEF Places
<1> QED BY <1>1 DEF QueuesQuick, SameQueue, First

\* When X2 and S1 are quiet, no handover is being prepared or confirmed.
LEMMA Rests ==
    ASSUME TypeOK, InStep, QuickInv, NoDelay, Quiet
    PROVE  /\ ideal = {} /\ pathSwitches = {} /\ ueCell \in Cells /\ ue.rnti \in Nat
           /\ \A k \in Cells : \A i \in Places : At(k, i) = NoMessage
           /\ \A k \in Cells : First(k).type = "NONE"
           /\ \A k \in Cells : \A r \in Nat :
                 /\ Context(k, r).state # "HANDOVER_PATH_SWITCH"
                 /\ Context(k, r).state = "HANDOVER_LEAVING" =>
                       LET t == Context(Other(k), Context(k, r).target)
                       IN  t.state = "HANDOVER_JOINING" /\ t.source = r
           /\ Alive => Live /\ ~Lost
           /\ Alive /\ Mine.state \in AtHome =>
                 \A r \in Nat : Context(Other(ueCell), r).source = 0
<1>1. ideal = {} /\ pathSwitches = {} /\ ueCell \in Cells /\ ue.rnti \in Nat
    BY DEF Quiet, TypeOK, UeStates, NoDelay
<1>2. \A k \in Cells : \A i \in Places : At(k, i) = NoMessage
    BY DEF Quiet, At, NoDelay
<1>3. \A k \in Cells : First(k).type = "NONE"
    BY <1>2 DEF First, NoMessage, Places
<1>4. \A k \in Cells : \A r \in Nat : Context(k, r).state # "HANDOVER_PATH_SWITCH"
    BY <1>1 DEF QuickInv, SwitchQuick
<1>5. ASSUME NEW k \in Cells, NEW r \in Nat, Context(k, r).state = "HANDOVER_LEAVING"
      PROVE  LET t == Context(Other(k), Context(k, r).target)
             IN  t.state = "HANDOVER_JOINING" /\ t.source = r
    BY <1>3, <1>4, <1>5, ContextTypes, Others DEF QuickInv, LeavingQuick, FailureTo, ReleaseTo
<1>6. Alive => Live /\ ~Lost
    <2>1. \A i \in Places : At(Other(ueCell), i).type # "PREPARATION_FAILURE"
        BY <1>1, <1>2, Others DEF NoMessage
    <2> QED BY <1>1, <2>1 DEF InStep, RadioOk, LostOk, Live
<1>7. Alive /\ Mine.state \in AtHome => \A r \in Nat : Context(Other(ueCell), r).source = 0
    BY <1>1, <1>3, <1>6, Others DEF QuickInv, ServingQuick, ReleaseTo
<1> QED BY <1>1, <1>2, <1>3, <1>4, <1>5, <1>6, <1>7

\* But for a reconfiguration that begins or ends.
Still == \A k \in Cells : \A r \in Nat :
    /\ \/ Context(k, r)'.state = Context(k, r).state
       \/ {Context(k, r)'.state, Context(k, r).state} \subseteq
             {"CONNECTED_NORMALLY", "CONNECTION_RECONFIGURATION"}
    /\ Context(k, r)'.source = Context(k, r).source
    /\ Context(k, r)'.target = Context(k, r).target

\* What the radio does when X2 and S1 are quiet, the UE staying where it is.
LEMMA RestsOn ==
    ASSUME TypeOK, TypeOK', InStep, QuickInv, NoDelay, Quiet,
           \A k \in Cells : SameQueue(k), UNCHANGED <<ueCell, pathSwitches>>,
           Alive' => Alive /\ ue'.rnti = ue.rnti, Still
    PROVE  QuickInv'
<1>1. /\ pathSwitches' = {} /\ ueCell' = ueCell /\ ueCell \in Cells
      /\ ue.rnti \in Nat /\ Other(ueCell) \in Cells
      /\ \A k \in Cells : /\ First(k)'.type = "NONE"
                          /\ \A i \in Places : i # 1 => At(k, i)' = NoMessage
    BY Rests, SameFirst, Others DEF QuickInv
<1>2. QueuesQuick' /\ RemovalsQuick' /\ MessagesQuick'
    BY <1>1, Others DEF QueuesQuick, RemovalsQuick, MessagesQuick
<1>3. \A k \in Cells : \A r \in Nat : Context(k, r)'.state # "HANDOVER_PATH_SWITCH"
    BY Rests DEF Still
<1>4. SwitchQuick'
    BY <1>1, <1>3 DEF SwitchQuick
<1>5. LeavingQuick'
    <2>1. SUFFICES ASSUME NEW k \in Cells, NEW r \in Nat, Context(k, r)'.state = "HANDOVER_LEAVING"
          PROVE  LET t == Context(Other(k), Context(k, r).target)'
                 IN  t.state = "HANDOVER_JOINING" /\ t.source = r
        BY DEF LeavingQuick
    <2>2. PICK n \in Nat : n = Context(k, r).target
        BY ContextTypes
    <2>3. Context(k, r).state = "HANDOVER_LEAVING" /\ Context(k, r)'.target = n
        BY <2>1, <2>2 DEF Still
    <2>4. Context(Other(k), n).state = "HANDOVER_JOINING" /\ Context(Other(k), n).source = r
        BY <2>2, <2>3, Rests
    <2>5. Context(Other(k), n)'.state = "HANDOVER_JOINING" /\ Context(Other(k), n)'.source = r
        BY <2>4, Others DEF Still
    <2> QED BY <2>3, <2>5
<1>6. JoiningQuick'
    <2>1. SUFFICES ASSUME NEW k \in Cells, NEW r \in Nat, Context(k, r)'.state = "HANDOVER_JOINING"
          PROVE  Context(Other(k), Context(k, r).source)'.state \in Refusable
        BY DEF JoiningQuick
    <2>2. PICK s \in Nat : s = Context(k, r).source
        BY ContextTypes
    <2>3. Context(k, r).state = "HANDOVER_JOINING" /\ Context(k, r)'.source = s
        BY <2>1, <2>2 DEF Still
    <2>4. Context(Other(k), s).state \in Refusable
        BY <2>2, <2>3 DEF QuickInv, JoiningQuick
    <2>5. Context(Other(k), s)'.state = Context(Other(k), s).state
        BY <2>4, Others DEF Still, Refusable
    <2> QED BY <2>3, <2>4, <2>5
<1>7. /\ Alive' => Mine' = Context(ueCell, ue.rnti)'
      /\ Live' => Live
    BY <1>1, Rests DEF Mine, Live
<1>8. ServingQuick' /\ SourceQuick'
    <2>1. ASSUME Live' PROVE /\ Mine'.source = Mine.source
                             /\ Mine'.state \in AtHome => Mine.state \in AtHome
                             /\ Mine'.state \in {"HANDOVER_JOINING", "HANDOVER_PATH_SWITCH"} =>
                                   Mine.state = Mine'.state
        BY <1>1, <1>7, <2>1 DEF Still, Mine, Live, AtHome
    <2>2. \A r \in Nat : Context(Other(ueCell), r)'.source = Context(Other(ueCell), r).source
        BY <1>1 DEF Still
    <2>3. ServingQuick'
        BY <1>1, <1>7, <2>1, <2>2, Rests DEF ServingQuick, Live
    <2>4. SourceQuick'
        BY <1>1, <1>7, <2>1, <2>2 DEF QuickInv, SourceQuick
    <2> QED BY <2>3, <2>4
<1>9. AccessQuick'
    BY DEF QuickInv, AccessQuick, Still
<1> QED BY <1>2, <1>4, <1>5, <1>6, <1>8, <1>9 DEF QuickInv

-----------------------------------------------------------------------------
(* The radio, the program and the UE, with quick links.                    *)

LEMMA ScheduleQuick ==
    ASSUME HandoverInv, ~Aborted, QuickInv, NoDelay, NEW c \in Cells,
           NEW r \in DOMAIN contexts[c], ScheduleRrcConnectionReconfiguration(c, r)
    PROVE  ~Aborted' /\ QuickInv'
<1> DEFINE now  == Context(c, r)
           next == Enb!ScheduleRrcConnectionReconfiguration(now)
<1>1. TypeOK /\ RefsOk /\ InStep
    BY DEF HandoverInv
<1>2. /\ TypeOK' /\ Quiet /\ r \in Nat
      /\ Becomes(c, r, next)
      /\ Goes(now, next, IF now.state = "CONNECTED_NORMALLY" THEN {"CONNECTION_RECONFIGURATION"}
                         ELSE IF now.state = "HANDOVER_PATH_SWITCH" THEN {"ABORTED"}
                         ELSE {now.state}, now.target)
      /\ \A k \in Cells : SameQueue(k)
      /\ UNCHANGED <<ue, ueCell, ideal, pathSwitches>>
    BY <1>1, ScheduleSteps
<1> HIDE DEF next
<1>3. /\ now.state # "ABORTED" /\ now.state # "HANDOVER_PATH_SWITCH"
      /\ ue.rrc # "ABORTED" /\ \A k \in Cells : \A o \in Nat : Context(k, o).state # "ABORTED"
    BY <1>1, <1>2, NotAborted, Rests
<1>4. /\ next.state = now.state \/ {next.state, now.state} \subseteq
                                      {"CONNECTED_NORMALLY", "CONNECTION_RECONFIGURATION"}
      /\ next.state # "ABORTED" /\ next.source = now.source /\ next.target = now.target
    BY <1>2, <1>3 DEF Goes
<1>5. Still
    BY <1>2, <1>4 DEF Still, Becomes
<1>6. ~Aborted'
    BY <1>2, <1>3, <1>4, GoesOn DEF Becomes
<1>7. Alive' => Alive /\ ue'.rnti = ue.rnti
    BY <1>2 DEF Alive
<1> QED BY <1>1, <1>2, <1>5, <1>6, <1>7, RestsOn

\* The radio alone acts.
LEMMA RadioQuick ==
    ASSUME HandoverInv, ~Aborted, QuickInv, NoDelay, TypeOK', Quiet, SameContexts,
           \A k \in Cells : SameQueue(k), UNCHANGED <<ueCell, pathSwitches>>,
           Alive' => Alive /\ ue'.rnti = ue.rnti, ue'.rrc # "ABORTED"
    PROVE  ~Aborted' /\ QuickInv'
<1>1. TypeOK /\ InStep
    BY DEF HandoverInv
<1>2. ~Aborted'
    BY <1>1, NotAborted, GoesOn DEF SameContexts
<1>3. Still
    BY DEF Still, SameContexts
<1> QED BY <1>1, <1>2, <1>3, RestsOn

\* A UE that changes cells finds at the new one what the command promised.
LEMMA HandsOver ==
    ASSUME TypeOK, TypeOK', InStep, QuickInv, NoDelay, Quiet, Live, SameContexts,
           \A k \in Cells : SameQueue(k), UNCHANGED <<ideal, pathSwitches>>,
           NEW c \in Cells, ueCell = Other(c), ueCell' = c,
           NEW n \in Nat, Mine.state = "HANDOVER_LEAVING", Mine.target = n,
           ue'.rnti = n, ue'.rrc = "CONNECTED_HANDOVER"
    PROVE  QuickInv'
<1>1. /\ ideal' = {} /\ ideal = {} /\ pathSwitches' = {} /\ pathSwitches = {}
      /\ ue.rnti \in Nat /\ Other(c) \in Cells /\ Other(Other(c)) = c /\ ueCell \in Cells
      /\ \A k \in Cells : /\ First(k)' = First(k) /\ First(k).type = "NONE"
                          /\ \A i \in Places : i # 1 => At(k, i)' = NoMessage
    BY Rests, SameFirst, Others DEF QuickInv
<1>2. QueuesQuick' /\ RemovalsQuick' /\ MessagesQuick'
    BY <1>1 DEF QueuesQuick, RemovalsQuick, MessagesQuick
<1>3. \A k \in Cells : \A r \in Nat : Context(k, r)' = Context(k, r)
    BY DEF SameContexts
<1>4. SwitchQuick'
    BY <1>1, <1>3 DEF QuickInv, SwitchQuick
<1>5. LeavingQuick' /\ JoiningQuick'
    <2>1. \A k \in Cells : \A r \in Nat :
             /\ Context(k, r).source \in Nat /\ Context(k, r).target \in Nat /\ Other(k) \in Cells
        BY ContextTypes, Others
    <2>2. LeavingQuick'
        BY <1>1, <1>3, <2>1 DEF QuickInv, LeavingQuick, FailureTo, ReleaseTo
    <2>3. JoiningQuick'
        BY <1>3, <2>1 DEF QuickInv, JoiningQuick
    <2> QED BY <2>2, <2>3
<1>6. Context(c, n).state = "HANDOVER_JOINING" /\ Context(c, n).source = ue.rnti
    BY <1>1, Rests DEF Mine
<1>7. Mine' = Context(c, n)
    BY <1>3 DEF Mine
<1>8. ServingQuick'
    BY <1>6, <1>7 DEF ServingQuick, AtHome
<1>9. SourceQuick'
    BY <1>1, <1>3, <1>6, <1>7 DEF SourceQuick, InStep, QueuesOk, TeidOk
<1>10. AccessQuick'
    BY <1>3 DEF QuickInv, AccessQuick, Live
<1> QED BY <1>2, <1>4, <1>5, <1>8, <1>9, <1>10 DEF QuickInv

LEMMA CommandQuick ==
    ASSUME HandoverInv, ~Aborted, QuickInv, NoDelay, NEW m \in air, ArriveCommand(m)
    PROVE  ~Aborted' /\ QuickInv'
<1>1. TypeOK /\ RefsOk /\ InStep /\ ue \in UeStates
    BY DEF HandoverInv, TypeOK
<1>2. /\ TypeOK' /\ Quiet /\ SameContexts /\ \A k \in Cells : SameQueue(k)
      /\ UNCHANGED <<ideal, pathSwitches>>
      /\ m.cell \in Cells /\ m.rnti \in Nat /\ m.new \in Nat
      /\ Commanded(m.cell, m.rnti, m.new)
      /\ IF m.cell = ueCell /\ m.rnti = ue.rnti
         THEN /\ ue.rrc = "CONNECTED_NORMALLY"
              /\ ueCell' = Other(ueCell) /\ ue' = Ue!RecvHandoverCommand(ue, m.new)
         ELSE UNCHANGED <<ue, ueCell>>
    BY <1>1, CommandSteps
<1>3. ue.rrc # "ABORTED"
    BY <1>1, NotAborted
<1>4. CASE m.cell = ueCell /\ m.rnti = ue.rnti
    <2>1. Live
        BY <1>2, <1>4 DEF Live, Alive, Quiet
    <2>2. Mine.state = "HANDOVER_LEAVING" /\ Mine.target = m.new
        BY <1>1, <1>2, <2>1, Phases
    <2>3. ue'.rrc = "CONNECTED_HANDOVER" /\ ue'.rnti = m.new
        BY <1>1, <1>2, <1>4, UeHandsOver
    <2>4. /\ Other(ueCell) \in Cells /\ Other(Other(ueCell)) = ueCell /\ ueCell' = Other(ueCell)
        BY <1>2, <1>4, Others
    <2>5. QuickInv'
        BY <1>1, <1>2, <2>1, <2>2, <2>3, <2>4, HandsOver
    <2>6. ~Aborted'
        BY <1>1, <1>2, <2>3, NotAborted, GoesOn DEF SameContexts
    <2> QED BY <2>5, <2>6
<1>5. CASE ~(m.cell = ueCell /\ m.rnti = ue.rnti)
    <2>1. Alive' => Alive /\ ue'.rnti = ue.rnti
        BY <1>2, <1>5 DEF Alive
    <2> QED BY <1>2, <1>3, <1>5, <2>1, RadioQuick
<1> QED BY <1>4, <1>5

LEMMA ReconfigurationQuick ==
    ASSUME HandoverInv, ~Aborted, QuickInv, NoDelay, NEW m \in air, ArriveReconfiguration(m)
    PROVE  ~Aborted' /\ QuickInv'
<1>1. TypeOK /\ RefsOk /\ InStep /\ ue \in UeStates
    BY DEF HandoverInv, TypeOK
<1>2. /\ TypeOK' /\ RefsOk' /\ Quiet /\ SameContexts /\ \A k \in Cells : SameQueue(k)
      /\ UNCHANGED <<ueCell, ideal, pathSwitches>>
      /\ m.cell \in Cells /\ m.rnti \in Nat /\ Sent("RECONFIGURATION", m.cell, m.rnti)
      /\ ue' = IF m.cell = ueCell /\ m.rnti = ue.rnti
               THEN Ue!RecvRrcConnectionReconfiguration(ue) ELSE ue
    BY <1>1, ReconfigurationSteps
<1>3. ue' = ue
    <2>1. ASSUME m.cell = ueCell, m.rnti = ue.rnti PROVE ue.rrc = "CONNECTED_NORMALLY"
        <3>1. m.rnti # 0
            BY <1>1, <1>2 DEF RefsOk, AirRefsOk, AirTypes
        <3>2. Alive
            BY <1>1, <2>1, <3>1, NotAborted DEF RefsOk, UeRefsOk, Alive, UeStates, RrcStates
        <3> QED BY <1>1, <1>2, <3>2 DEF InStep, RadioOk, ReconfigurationOk, UeAt
    <2> QED BY <1>1, <1>2, <2>1, UeReconfigures
<1>4. ue'.rrc # "ABORTED" /\ (Alive' => Alive /\ ue'.rnti = ue.rnti)
    BY <1>1, <1>3, NotAborted DEF Alive
<1> QED BY <1>2, <1>4, RadioQuick

LEMMA ResponseQuick ==
    ASSUME HandoverInv, ~Aborted, QuickInv, NoDelay, NEW m \in air, ArriveRaResponse(m)
    PROVE  ~Aborted' /\ QuickInv'
<1>1. TypeOK /\ RefsOk /\ InStep /\ ue \in UeStates
    BY DEF HandoverInv, TypeOK
<1> DEFINE for == m.cell = ueCell /\ ue.rrc = "CONNECTED_HANDOVER"
<1>2. /\ TypeOK' /\ Quiet /\ SameContexts /\ \A k \in Cells : SameQueue(k)
      /\ UNCHANGED <<ueCell, ideal, pathSwitches>>
      /\ m.cell \in Cells /\ m.rnti \in Nat /\ Sent("RAR", m.cell, m.rnti)
      /\ ue' = IF for THEN Ue!RecvRaResponse(ue, m.rnti) ELSE ue
    BY <1>1, ResponseSteps
<1>3. CASE for
    <2>1. ue'.rrc = "CONNECTED_NORMALLY" /\ ue'.rnti = m.rnti /\ Alive
        BY <1>1, <1>2, <1>3, UeAccesses DEF Alive
    <2>2. m.rnti = ue.rnti
        BY <1>1, <1>2, <2>1, Rests DEF InStep, RadioOk, ResponseOk, Lost
    <2> QED BY <1>2, <2>1, <2>2, RadioQuick
<1>4. CASE ~for
    <2>1. ue'.rrc # "ABORTED" /\ (Alive' => Alive /\ ue'.rnti = ue.rnti)
        BY <1>1, <1>2, <1>4, NotAborted DEF Alive
    <2> QED BY <1>2, <2>1, RadioQuick
<1> QED BY <1>3, <1>4

LEMMA TimeoutQuick ==
    ASSUME HandoverInv, ~Aborted, QuickInv, NoDelay,
           RaResponseTimeout \/ RadioLinkFailureDetected
    PROVE  ~Aborted' /\ QuickInv'
<1>1. TypeOK /\ RefsOk
    BY DEF HandoverInv
<1>2. CASE RaResponseTimeout
    <2>1. /\ TypeOK' /\ Quiet /\ SameContexts /\ \A k \in Cells : SameQueue(k)
          /\ UNCHANGED <<ueCell, pathSwitches>> /\ ue.rrc = "CONNECTED_HANDOVER"
          /\ \/ ue'.rrc = "CONNECTED_HANDOVER" /\ ue'.rnti = ue.rnti
             \/ ue'.rrc = "IDLE_CELL_SEARCH"
        BY <1>1, <1>2, TimeoutSteps
    <2>2. ue'.rrc # "ABORTED" /\ (Alive' => Alive /\ ue'.rnti = ue.rnti)
        BY <2>1 DEF Alive
    <2> QED BY <2>1, <2>2, RadioQuick
<1>3. CASE RadioLinkFailureDetected
    <2>1. /\ TypeOK' /\ Quiet /\ SameContexts /\ \A k \in Cells : SameQueue(k)
          /\ UNCHANGED <<ueCell, pathSwitches>> /\ ue'.rrc = "IDLE_CELL_SEARCH"
        BY <1>1, <1>3, LinkFailureSteps
    <2>2. ue'.rrc # "ABORTED" /\ ~Alive'
        BY <2>1 DEF Alive
    <2> QED BY <2>1, <2>2, RadioQuick
<1> QED BY <1>2, <1>3

LEMMA FadeQuick ==
    ASSUME HandoverInv, ~Aborted, QuickInv, NoDelay, Lose \/ DropUnsent
    PROVE  ~Aborted' /\ QuickInv'
<1>1. TypeOK /\ RefsOk
    BY DEF HandoverInv
<1>2. /\ TypeOK' /\ Quiet /\ SameContexts /\ \A k \in Cells : SameQueue(k)
      /\ UNCHANGED <<ueCell, pathSwitches>> /\ ue'.rrc = ue.rrc /\ ue'.rnti = ue.rnti
    BY <1>1, FadeSteps
<1>3. ue'.rrc # "ABORTED" /\ (Alive' => Alive /\ ue'.rnti = ue.rnti)
    BY <1>1, <1>2, NotAborted DEF Alive
<1> QED BY <1>2, <1>3, RadioQuick

LEMMA PreambleQuick ==
    ASSUME HandoverInv, ~Aborted, QuickInv, NoDelay, RecvPreamble
    PROVE  ~Aborted' /\ QuickInv'
<1>1. TypeOK /\ RefsOk /\ InStep
    BY DEF HandoverInv
<1>2. PICK c, new : c = ueCell /\ new = lastAllocatedRnti[c] + 1
    OBVIOUS
<1>3. /\ TypeOK' /\ Quiet /\ c \in Cells /\ \A k \in Cells : SameQueue(k)
      /\ UNCHANGED <<ueCell, ideal, pathSwitches>>
      /\ ue.preambleSent /\ ue'.rrc = ue.rrc /\ ue'.rnti = ue.rnti
      /\ \E r \in Nat : Responds(c, r, new)
    BY <1>1, <1>2, PreambleSteps
<1>4. ue'.rrc # "ABORTED" /\ (Alive' => Alive /\ ue'.rnti = ue.rnti)
    BY <1>1, <1>3, NotAborted DEF Alive
<1>5. CASE SameContexts
    BY <1>3, <1>4, <1>5, RadioQuick
<1>6. CASE ~SameContexts
    <2> DEFINE next == Enb!InitContext
    <2>1. Becomes(c, new, next) /\ \A q \in Nat : Context(c, q).source = 0
        BY <1>3, <1>6 DEF Responds
    <2>2. next.state = "INITIAL_RANDOM_ACCESS" /\ next.source = 0
        BY NewContexts
    <2> HIDE DEF next
    <2>3. ~Alive /\ ~Alive'
        <3>1. SUFFICES ASSUME Alive PROVE FALSE
            BY <1>4
        <3>2. Mine.state = "HANDOVER_JOINING"
            BY <1>1, <1>3, <3>1, Rests
            DEF InStep, RadioOk, PreambleOk, KnownOk, Lost
        <3>3. Mine.source = 0 /\ Mine.source # 0
            BY <1>1, <1>2, <1>3, <2>1, <3>2, Rests DEF InStep, ContextsOk, ContextOk, Mine
        <3> QED BY <3>3
    <2>4. /\ new \in Nat /\ Context(c, new).state = "NONE"
          /\ \A r \in Nat : Context(Other(c), r).source # new
        BY <1>1, <1>2, <1>3, Fresh, NoneOk
    <2>5. /\ ideal = {} /\ pathSwitches' = {}
          /\ \A k \in Cells : /\ First(k)'.type = "NONE" /\ Other(k) \in Cells
                              /\ \A i \in Places : i # 1 => At(k, i)' = NoMessage
        BY <1>1, <1>3, Rests, SameFirst, Others DEF QuickInv
    <2>6. QueuesQuick' /\ RemovalsQuick' /\ MessagesQuick'
        BY <1>3, <2>5 DEF QueuesQuick, RemovalsQuick, MessagesQuick
    <2>7. SwitchQuick'
        BY <1>1, <1>3, <2>1, <2>2, <2>5, Rests DEF SwitchQuick, Becomes
    <2>8. LeavingQuick'
        <3>1. SUFFICES ASSUME NEW k \in Cells, NEW r \in Nat,
                              Context(k, r)'.state = "HANDOVER_LEAVING"
              PROVE  LET t == Context(Other(k), Context(k, r).target)'
                     IN  t.state = "HANDOVER_JOINING" /\ t.source = r
            BY DEF LeavingQuick
        <3>2. PICK n \in Nat : n = Context(k, r).target
            BY <1>1, ContextTypes
        <3>3. Context(k, r)' = Context(k, r) /\ Context(k, r).state = "HANDOVER_LEAVING"
            BY <2>1, <2>2, <3>1 DEF Becomes
        <3>4. Context(Other(k), n).state = "HANDOVER_JOINING" /\ Context(Other(k), n).source = r
            BY <1>1, <1>3, <3>2, <3>3, Rests
        <3>5. Context(Other(k), n)' = Context(Other(k), n)
            BY <2>1, <2>4, <2>5, <3>4 DEF Becomes
        <3> QED BY <3>2, <3>3, <3>4, <3>5
    <2>9. JoiningQuick'
        <3>1. SUFFICES ASSUME NEW k \in Cells, NEW r \in Nat,
                              Context(k, r)'.state = "HANDOVER_JOINING"
              PROVE  Context(Other(k), Context(k, r).source)'.state \in Refusable
            BY DEF JoiningQuick
        <3>2. PICK s \in Nat : s = Context(k, r).source
            BY <1>1, ContextTypes
        <3>3. Context(k, r)' = Context(k, r) /\ Context(k, r).state = "HANDOVER_JOINING"
            BY <2>1, <2>2, <3>1 DEF Becomes
        <3>4. Context(Other(k), s).state \in Refusable
            BY <3>2, <3>3 DEF QuickInv, JoiningQuick
        <3>5. Context(Other(k), s)' = Context(Other(k), s)
            BY <1>3, <2>1, <2>4, <2>5, <3>2, Others DEF Becomes
        <3> QED BY <3>2, <3>3, <3>4, <3>5
    <2>10. ServingQuick' /\ SourceQuick' /\ AccessQuick'
        BY <2>3 DEF ServingQuick, SourceQuick, AccessQuick, Live
    <2>11. ~Aborted'
        BY <1>1, <1>3, <1>4, <2>1, <2>2, NotAborted, GoesOn DEF Becomes
    <2> QED BY <2>6, <2>7, <2>8, <2>9, <2>10, <2>11 DEF QuickInv
<1> QED BY <1>5, <1>6

\* The UE has joined, and the path is to be switched.
LEMMA Joins ==
    ASSUME TypeOK, InStep, QuickInv, NoDelay, Quiet, Live,
           NEW c \in Cells, ueCell = c, NEW r \in Nat, ue.rnti = r,
           Context(c, r).state = "HANDOVER_JOINING", NEW next, Becomes(c, r, next),
           next.state = "HANDOVER_PATH_SWITCH", next.source = Context(c, r).source,
           next.target = Context(c, r).target,
           \A k \in Cells : SameQueue(k), UNCHANGED <<ue, ueCell, ideal>>,
           pathSwitches' = {Removal(c, r)}
    PROVE  QuickInv'
<1>1. /\ ideal' = {} /\ Other(c) \in Cells /\ Other(c) # c
      /\ \A k \in Cells : /\ First(k)'.type = "NONE" /\ Other(k) \in Cells
                          /\ \A i \in Places : i # 1 => At(k, i)' = NoMessage
    BY Rests, SameFirst, Others DEF QuickInv
<1>2. QueuesQuick' /\ RemovalsQuick' /\ MessagesQuick'
    BY <1>1 DEF QueuesQuick, RemovalsQuick, MessagesQuick
<1>3. SwitchQuick'
    <2>1. \A k \in Cells : \A q \in Nat : Removal(k, q) = Removal(c, r) <=> k = c /\ q = r
        BY DEF Removal
    <2> QED BY <2>1, Rests DEF SwitchQuick, Becomes
<1>4. LeavingQuick'
    <2>1. SUFFICES ASSUME NEW k \in Cells, NEW q \in Nat, Context(k, q)'.state = "HANDOVER_LEAVING"
          PROVE  LET t == Context(Other(k), Context(k, q).target)'
                 IN  /\ t.state \in {"HANDOVER_JOINING", "HANDOVER_PATH_SWITCH"}
                     /\ t.source = q
        BY DEF LeavingQuick
    <2>2. PICK n \in Nat : n = Context(k, q).target
        BY ContextTypes
    <2>3. Context(k, q)' = Context(k, q) /\ Context(k, q).state = "HANDOVER_LEAVING"
        BY <2>1 DEF Becomes
    <2>4. Context(Other(k), n).state = "HANDOVER_JOINING" /\ Context(Other(k), n).source = q
        BY <2>2, <2>3, Rests
    <2>5. /\ Context(Other(k), n)'.state \in {"HANDOVER_JOINING", "HANDOVER_PATH_SWITCH"}
          /\ Context(Other(k), n)'.source = q
        BY <1>1, <2>4 DEF Becomes
    <2> QED BY <2>2, <2>3, <2>5
<1>5. JoiningQuick'
    <2>1. SUFFICES ASSUME NEW k \in Cells, NEW q \in Nat, Context(k, q)'.state = "HANDOVER_JOINING"
          PROVE  Context(Other(k), Context(k, q).source)'.state \in Refusable
        BY DEF JoiningQuick
    <2>2. PICK s \in Nat : s = Context(k, q).source
        BY ContextTypes
    <2>3. Context(k, q)' = Context(k, q) /\ Context(k, q).state = "HANDOVER_JOINING"
        BY <2>1 DEF Becomes
    <2>4. Context(Other(k), s).state \in Refusable
        BY <2>2, <2>3 DEF QuickInv, JoiningQuick
    <2>5. Context(Other(k), s)' = Context(Other(k), s)
        BY <1>1, <2>4 DEF Becomes, Refusable
    <2> QED BY <2>2, <2>3, <2>4, <2>5
<1>6. Mine' = next /\ Mine = Context(c, r)
    BY DEF Mine, Becomes
<1>7. ServingQuick' /\ AccessQuick'
    BY <1>6 DEF ServingQuick, AccessQuick, AtHome, QuickInv, Becomes, Alive
<1>8. SourceQuick'
    BY <1>1, <1>6 DEF SourceQuick, QuickInv, Becomes, Live
<1> QED BY <1>2, <1>3, <1>4, <1>5, <1>7, <1>8 DEF QuickInv

LEMMA CompletedQuick ==
    ASSUME HandoverInv, ~Aborted, QuickInv, NoDelay, NEW m \in air, ArriveCompleted(m)
    PROVE  ~Aborted' /\ QuickInv'
<1>1. TypeOK /\ RefsOk /\ InStep
    BY DEF HandoverInv
<1>2. PICK c, r : c = m.cell /\ r = m.rnti
    OBVIOUS
<1> DEFINE now  == Context(c, r)
           next == Enb!RecvRrcConnectionReconfigurationCompleted(now)
<1>3. /\ TypeOK' /\ Quiet /\ c \in Cells /\ r \in Nat
      /\ Sent("RECONFIGURATION_COMPLETED", c, r)
      /\ \A k \in Cells : SameQueue(k)
      /\ UNCHANGED <<ue, ueCell, ideal>>
    BY <1>1, <1>2, CompletedSteps
<1>7. \/ now.state = "NONE" /\ SameContexts /\ UNCHANGED pathSwitches
      \/ /\ now.state # "NONE" /\ Becomes(c, r, next)
         /\ Goes(now, next, Confirmed(now.state), now.target)
         /\ pathSwitches' = pathSwitches \cup
               (IF next.state = "HANDOVER_PATH_SWITCH" THEN {Removal(c, r)} ELSE {})
    BY <1>1, <1>2, CompletedSteps
<1> HIDE DEF next
<1>4. ue'.rrc # "ABORTED" /\ (Alive' => Alive /\ ue'.rnti = ue.rnti)
    BY <1>1, <1>3, NotAborted DEF Alive
<1>5. CASE now.state = "NONE"
    BY <1>3, <1>4, <1>5, <1>7, RadioQuick
<1>6. CASE now.state # "NONE"
    <2>1. Alive /\ UeAt(c, r) /\ Live
        BY <1>1, <1>3, <1>6, Rests DEF InStep, RadioOk, CompletedOk
    <2>2. ueCell = c /\ ue.rnti = r /\ Mine = now
        BY <2>1 DEF UeAt, Mine
    <2>3. now.state \in {"CONNECTION_RECONFIGURATION", "HANDOVER_JOINING"}
        BY <1>1, <1>3, <1>6, <2>1, <2>2, Rests DEF InStep, RadioOk, CompletedOk, Lost
    <2>4. /\ next.source = now.source /\ next.target = now.target
          /\ next.state \in Confirmed(now.state)
        BY <1>6, <1>7 DEF Goes
    <2>5. ~Aborted'
        <3>1. next.state # "ABORTED"
            BY <2>3, <2>4 DEF Confirmed
        <3> QED BY <1>1, <1>3, <1>4, <1>6, <1>7, <3>1, NotAborted, GoesOn DEF Becomes
    <2>6. CASE now.state = "CONNECTION_RECONFIGURATION"
        <3>1. next.state \in {"CONNECTED_NORMALLY", "CONNECTION_RECONFIGURATION"}
            BY <2>4, <2>6 DEF Confirmed
        <3>2. Still
            BY <1>7, <2>4, <2>6, <3>1 DEF Still, Becomes
        <3>3. pathSwitches' = pathSwitches
            BY <1>6, <1>7, <3>1
        <3> QED BY <1>1, <1>3, <1>4, <2>5, <3>2, <3>3, RestsOn
    <2>7. CASE now.state = "HANDOVER_JOINING"
        <3>1. next.state = "HANDOVER_PATH_SWITCH"
            BY <2>4, <2>7 DEF Confirmed
        <3>2. pathSwitches' = {Removal(c, r)}
            BY <1>1, <1>3, <1>6, <1>7, <3>1, Rests
        <3> QED BY <1>1, <1>3, <1>6, <1>7, <2>1, <2>2, <2>4, <2>5, <2>7, <3>1, <3>2, Joins
    <2> QED BY <2>3, <2>6, <2>7
<1> QED BY <1>5, <1>6

-----------------------------------------------------------------------------
(* X2 and S1, with quick links.                                            *)

\* A cell that gave the UE away still hears of it.
LEMMA LeavingStays ==
    ASSUME TypeOK, LeavingQuick, NEW c \in Cells, NEW r \in Nat, NEW next, Becomes(c, r, next),
           next.state # "HANDOVER_LEAVING", NEW s, s = Context(c, r).source,
           Context(c, r).state \in {"HANDOVER_JOINING", "HANDOVER_PATH_SWITCH"} =>
              \/ /\ next.state \in {"HANDOVER_JOINING", "HANDOVER_PATH_SWITCH"}
                 /\ next.source = s
              \/ FailureTo(Other(c), s)'
              \/ ReleaseTo(Other(c), s)',
           \A k \in Cells : \A q \in Nat :
              /\ Context(k, q).state = "HANDOVER_LEAVING"
              /\ FailureTo(k, q) \/ ReleaseTo(k, q)
              /\ ~(k = c /\ q = r)
              => FailureTo(k, q)' \/ ReleaseTo(k, q)'
    PROVE  LeavingQuick'
<1> SUFFICES ASSUME NEW k \in Cells, NEW q \in Nat, Context(k, q)'.state = "HANDOVER_LEAVING"
             PROVE  \/ LET t == Context(Other(k), Context(k, q).target)'
                       IN  /\ t.state \in {"HANDOVER_JOINING", "HANDOVER_PATH_SWITCH"}
                           /\ t.source = q
                    \/ FailureTo(k, q)'
                    \/ ReleaseTo(k, q)'
    BY DEF LeavingQuick
<1>1. PICK n \in Nat : n = Context(k, q).target
    BY ContextTypes
<1>2. Other(k) \in Cells /\ Other(Other(k)) = k
    BY Others
<1>3. /\ ~(k = c /\ q = r)
      /\ Context(k, q)' = Context(k, q) /\ Context(k, q).state = "HANDOVER_LEAVING"
    BY DEF Becomes
<1>4. CASE FailureTo(k, q) \/ ReleaseTo(k, q)
    BY <1>3, <1>4
<1>5. CASE /\ Context(Other(k), n).state \in {"HANDOVER_JOINING", "HANDOVER_PATH_SWITCH"}
           /\ Context(Other(k), n).source = q
    <2>1. CASE Other(k) = c /\ n = r
        <3>1. s = q /\ Other(c) = k /\ Context(Other(k), n)' = next
            BY <1>1, <1>2, <1>5, <2>1 DEF Becomes
        <3> QED BY <1>1, <1>3, <1>5, <2>1, <3>1
    <2>2. CASE ~(Other(k) = c /\ n = r)
        <3>1. Context(Other(k), n)' = Context(Other(k), n)
            BY <1>1, <1>2, <2>2 DEF Becomes
        <3> QED BY <1>1, <1>3, <1>5, <3>1
    <2> QED BY <2>1, <2>2
<1> QED BY <1>1, <1>3, <1>4, <1>5 DEF LeavingQuick

\* The source of a context that joins can still take a refusal.
LEMMA JoiningStays ==
    ASSUME TypeOK, JoiningQuick, NEW c \in Cells, NEW r \in Nat, NEW next, Becomes(c, r, next),
           next.state # "HANDOVER_JOINING",
           \/ Context(c, r).state \in Refusable => next.state \in Refusable
           \/ \A q \in Nat : Context(Other(c), q).state = "HANDOVER_JOINING" =>
                 Context(Other(c), q).source # r
    PROVE  JoiningQuick'
<1> SUFFICES ASSUME NEW k \in Cells, NEW q \in Nat, Context(k, q)'.state = "HANDOVER_JOINING"
             PROVE  Context(Other(k), Context(k, q).source)'.state \in Refusable
    BY DEF JoiningQuick
<1>1. PICK s \in Nat : s = Context(k, q).source
    BY ContextTypes
<1>2. Other(k) \in Cells /\ Other(Other(k)) = k
    BY Others
<1>3. Context(k, q)' = Context(k, q) /\ Context(k, q).state = "HANDOVER_JOINING"
    BY DEF Becomes
<1>4. Context(Other(k), s).state \in Refusable
    BY <1>1, <1>3 DEF JoiningQuick
<1>5. Context(Other(k), s)'.state \in Refusable
    <2>1. CASE Other(k) = c /\ s = r
        <3>1. Other(c) = k /\ Context(Other(k), s)' = next
            BY <1>1, <1>2, <2>1 DEF Becomes
        <3> QED BY <1>1, <1>3, <1>4, <2>1, <3>1
    <2>2. CASE ~(Other(k) = c /\ s = r)
        BY <1>1, <1>2, <1>4, <2>2 DEF Becomes
    <2> QED BY <2>1, <2>2
<1> QED BY <1>1, <1>3, <1>5

\* A path switch asked for has its context.
LEMMA SwitchStays ==
    ASSUME SwitchQuick, NEW c \in Cells, NEW r \in Nat, NEW next, Becomes(c, r, next),
           next.state # "HANDOVER_PATH_SWITCH", Context(c, r).state # "HANDOVER_PATH_SWITCH",
           UNCHANGED pathSwitches
    PROVE  SwitchQuick'
BY DEF SwitchQuick, Becomes

\* A step that leaves the contexts alone and loses no answer to a source.
LEMMA ContextsStay ==
    ASSUME TypeOK, LeavingQuick, JoiningQuick, SwitchQuick, SameContexts, UNCHANGED pathSwitches,
           \A k \in Cells : \A q \in Nat :
              /\ Context(k, q).state = "HANDOVER_LEAVING"
              /\ FailureTo(k, q) \/ ReleaseTo(k, q)
              => FailureTo(k, q)' \/ ReleaseTo(k, q)'
    PROVE  LeavingQuick' /\ JoiningQuick' /\ SwitchQuick'
<1>1. \A k \in Cells : \A r \in Nat :
         /\ Context(k, r)' = Context(k, r)
         /\ Context(k, r).source \in Nat /\ Context(k, r).target \in Nat /\ Other(k) \in Cells
    BY ContextTypes, Others DEF SameContexts
<1>2. LeavingQuick'
    BY <1>1 DEF LeavingQuick
<1>3. JoiningQuick'
    <2> SUFFICES ASSUME NEW k \in Cells, NEW r \in Nat, Context(k, r)'.state = "HANDOVER_JOINING"
                 PROVE  Context(Other(k), Context(k, r).source)'.state \in Refusable
        BY <1>1 DEF JoiningQuick
    <2> DEFINE s == Context(k, r).source
    <2>1. s \in Nat /\ Other(k) \in Cells /\ Context(k, r)' = Context(k, r)
        BY <1>1
    <2>2. Context(Other(k), s)' = Context(Other(k), s)
        BY <1>1, <2>1
    <2> QED BY <2>1, <2>2 DEF JoiningQuick
<1>4. SwitchQuick'
    BY <1>1 DEF SwitchQuick
<1> QED BY <1>2, <1>3, <1>4

LEMMA TriggerQuick ==
    ASSUME HandoverInv, ~Aborted, QuickInv, NoDelay, NEW c \in Cells,
           NEW r \in DOMAIN contexts[c], TriggerHandover(c, r)
    PROVE  ~Aborted' /\ QuickInv'
<1> DEFINE next == Enb!PrepareHandover(Context(c, r))
           m    == X2Message("HANDOVER_REQUEST", r, 0)
<1>1. TypeOK /\ RefsOk /\ InStep
    BY DEF HandoverInv
<1>2. /\ TypeOK' /\ Quiet /\ r \in Nat
      /\ Context(c, r).state = "CONNECTED_NORMALLY"
      /\ Becomes(c, r, next)
      /\ Goes(Context(c, r), next, {"HANDOVER_PREPARATION"}, Context(c, r).target)
      /\ Put(Other(c), m) /\ SameQueue(c)
      /\ UNCHANGED <<ue, ueCell, ideal, pathSwitches>>
    BY <1>1, TriggerSteps
<1>3. m.type = "HANDOVER_REQUEST" /\ m.old = r
    BY DEF X2Message
<1> HIDE DEF next, m
<1>4. next.state = "HANDOVER_PREPARATION" /\ next.source = Context(c, r).source
    BY <1>2 DEF Goes
<1>5. ideal = {} /\ pathSwitches = {} /\ \A k \in Cells : First(k).type = "NONE"
    BY <1>1, <1>2, Rests
<1>6. Live /\ ueCell = c /\ ue.rnti = r
    <2>1. Live
        BY <1>1, <1>2, <1>5, Unserved DEF Live, Serving
    <2> QED BY <1>1, <1>2, <2>1, Phases DEF Serving
<1>7. /\ Mine = Context(c, r) /\ Mine' = next /\ Other(c) \in Cells /\ Other(c) # c
      /\ \A k \in Cells : k = c \/ k = Other(c)
    BY <1>2, <1>6, Others DEF Mine, Becomes
<1>8. \A q \in Nat : Context(Other(c), q).source = 0 /\ Context(Other(c), q)'.source = 0
    BY <1>1, <1>2, <1>6, <1>7, Rests DEF AtHome, Live, Becomes
<1>9. /\ First(Other(c))' = m /\ First(c)'.type = "NONE"
      /\ \A k \in Cells : \A i \in Places : i # 1 => At(k, i)' = NoMessage
    <2>1. /\ First(Other(c))' = m
          /\ \A i \in Places : i # 1 => At(Other(c), i)' = NoMessage
        BY <1>1, <1>2, <1>5, <1>7, PutFirst DEF QuickInv
    <2>2. /\ First(c)' = First(c)
          /\ \A i \in Places : i # 1 => At(c, i)' = NoMessage
        BY <1>2, SameFirst DEF QuickInv
    <2> QED BY <1>5, <1>7, <2>1, <2>2
<1>10. QueuesQuick' /\ RemovalsQuick'
    BY <1>2, <1>3, <1>5, <1>7, <1>9, Others DEF QueuesQuick, RemovalsQuick
<1>11. MessagesQuick'
    BY <1>2, <1>3, <1>6, <1>7, <1>8, <1>9 DEF MessagesQuick, Live, Alive
<1>12. LeavingQuick' /\ JoiningQuick' /\ SwitchQuick'
    <2>1. \A k \in Cells : \A q \in Nat : ~FailureTo(k, q) /\ ~ReleaseTo(k, q)
        BY <1>5 DEF FailureTo, ReleaseTo
    <2>2. LeavingQuick'
        BY <1>1, <1>2, <1>4, <2>1, LeavingStays DEF QuickInv
    <2>3. JoiningQuick'
        BY <1>1, <1>2, <1>4, JoiningStays DEF QuickInv, Refusable
    <2>4. SwitchQuick'
        BY <1>2, <1>4, SwitchStays DEF QuickInv
    <2> QED BY <2>2, <2>3, <2>4
<1>13. ServingQuick' /\ SourceQuick'
    BY <1>2, <1>4, <1>6, <1>7, <1>8 DEF ServingQuick, SourceQuick
<1>14. AccessQuick'
    BY <1>2, <1>4, <1>6 DEF QuickInv, AccessQuick, Becomes, Live
<1>15. ~Aborted'
    BY <1>1, <1>2, <1>4, NotAborted, GoesOn DEF Becomes
<1> QED BY <1>10, <1>11, <1>12, <1>13, <1>14, <1>15 DEF QuickInv

LEMMA ForwardQuick ==
    ASSUME HandoverInv, ~Aborted, QuickInv, NoDelay, NEW c \in Cells,
           NEW r \in DOMAIN contexts[c], SendData(c, r)
    PROVE  ~Aborted' /\ QuickInv'
<1> DEFINE m == X2Message("UE_DATA", 0, 0)
<1>1. TypeOK /\ RefsOk /\ InStep
    BY DEF HandoverInv
<1>2. /\ TypeOK' /\ Quiet /\ r \in Nat
      /\ Context(c, r).state = "HANDOVER_LEAVING"
      /\ SameContexts
      /\ Put(Other(c), m) /\ SameQueue(c)
      /\ UNCHANGED <<ue, ueCell, ideal, pathSwitches>>
    BY <1>1, ForwardSteps
<1>3. m.type = "UE_DATA"
    BY DEF X2Message
<1> HIDE DEF m
<1>4. /\ ideal = {} /\ pathSwitches = {} /\ \A k \in Cells : First(k).type = "NONE"
      /\ Other(c) \in Cells /\ Other(c) # c /\ \A k \in Cells : k = c \/ k = Other(c)
      /\ ueCell \in Cells /\ ue.rnti \in Nat /\ Other(ueCell) \in Cells
    BY <1>1, <1>2, Rests, Others
<1>5. PICK n \in Nat : n = Context(c, r).target
    BY <1>1, <1>2, ContextTypes
<1>6. Context(Other(c), n).state = "HANDOVER_JOINING"
    BY <1>1, <1>2, <1>5, Rests
<1>7. /\ First(Other(c))' = m /\ First(c)'.type = "NONE"
      /\ \A k \in Cells : \A i \in Places : i # 1 => At(k, i)' = NoMessage
    <2>1. /\ First(Other(c))' = m
          /\ \A i \in Places : i # 1 => At(Other(c), i)' = NoMessage
        BY <1>1, <1>2, <1>4, PutFirst DEF QuickInv
    <2>2. /\ First(c)' = First(c)
          /\ \A i \in Places : i # 1 => At(c, i)' = NoMessage
        BY <1>2, SameFirst DEF QuickInv
    <2> QED BY <1>4, <2>1, <2>2
<1>8. \A k \in Cells : \A q \in Nat : Context(k, q)' = Context(k, q)
    BY <1>2 DEF SameContexts
<1>9. QueuesQuick' /\ RemovalsQuick'
    BY <1>2, <1>3, <1>4, <1>7, Others DEF QueuesQuick, RemovalsQuick
<1>10. MessagesQuick'
    BY <1>3, <1>4, <1>6, <1>7, <1>8 DEF MessagesQuick
<1>11. LeavingQuick' /\ JoiningQuick' /\ SwitchQuick'
    BY <1>1, <1>2, <1>4, ContextsStay DEF QuickInv, FailureTo, ReleaseTo
<1>12. ServingQuick' /\ SourceQuick' /\ AccessQuick'
    <2>1. Mine' = Mine /\ (Live' <=> Live) /\ (Alive' <=> Alive)
        BY <1>2, <1>4, <1>8 DEF Mine, Live, Alive
    <2>2. ServingQuick'
        BY <1>1, <1>2, <1>4, <1>8, <2>1, Rests DEF ServingQuick, Live
    <2>3. SourceQuick' /\ AccessQuick'
        BY <1>2, <1>4, <1>8, <2>1 DEF QuickInv, SourceQuick, AccessQuick
    <2> QED BY <2>2, <2>3
<1>13. ~Aborted'
    BY <1>1, <1>2, <1>8, NotAborted, GoesOn
<1> QED BY <1>9, <1>10, <1>11, <1>12, <1>13 DEF QuickInv

LEMMA PathSwitchQuick ==
    ASSUME HandoverInv, ~Aborted, QuickInv, NoDelay, NEW c, NEW r,
           PathSwitchRequestAcknowledge(c, r)
    PROVE  ~Aborted' /\ QuickInv'
<1> DEFINE next == Enb!SendUeContextRelease(Context(c, r))
<1>1. TypeOK /\ RefsOk /\ InStep
    BY DEF HandoverInv
<1>2. /\ TypeOK' /\ ideal = {} /\ c \in Cells /\ r \in Nat
      /\ Removal(c, r) \in pathSwitches
      /\ pathSwitches' = pathSwitches \ {Removal(c, r)}
      /\ UNCHANGED <<ueCell, ideal>>
    BY <1>1, SwitchSteps
<1>3. Context(c, r).state = "HANDOVER_PATH_SWITCH"
    BY <1>2 DEF QuickInv, SwitchQuick
<1>4. PICK s \in Nat : s = Context(c, r).source
    BY <1>1, <1>2, ContextTypes
<1> DEFINE m == X2Message("CONTEXT_RELEASE", s, r)
<1>5. /\ ue' = ue /\ Becomes(c, r, next)
      /\ Goes(Context(c, r), next, {"CONNECTED_NORMALLY", "CONNECTION_RECONFIGURATION"},
              Context(c, r).target)
      /\ Put(Other(c), m) /\ SameQueue(c)
    BY <1>1, <1>3, <1>4, SwitchSteps
<1>6. m.type = "CONTEXT_RELEASE" /\ m.old = s
    BY DEF X2Message
<1> HIDE DEF next, m
<1>7. /\ next.state \in {"CONNECTED_NORMALLY", "CONNECTION_RECONFIGURATION"}
      /\ next.source = s
    BY <1>4, <1>5 DEF Goes
<1>8. UeAt(c, r) /\ Live /\ ueCell = c /\ ue.rnti = r
    BY <1>1, <1>2, <1>3 DEF InStep, RadioOk, OwnedOk, Serving, UeAt, Live, Alive
<1>9. /\ Mine = Context(c, r) /\ Mine' = next /\ Other(c) \in Cells /\ Other(c) # c
      /\ \A k \in Cells : k = c \/ k = Other(c)
    BY <1>2, <1>5, <1>8, Others DEF Mine, Becomes
<1>10. pathSwitches' = {}
    <2>1. ASSUME NEW x \in pathSwitches PROVE x = Removal(c, r)
        <3>1. x \in Removals /\ x = Removal(x.to, x.rnti) /\ x.to \in Cells /\ x.rnti \in Nat
            BY <1>1 DEF TypeOK, Removals, Removal
        <3>2. Context(x.to, x.rnti).state = "HANDOVER_PATH_SWITCH"
            BY <3>1 DEF QuickInv, SwitchQuick
        <3>3. UeAt(x.to, x.rnti)
            BY <1>1, <1>2, <3>1, <3>2 DEF InStep, RadioOk, OwnedOk, Serving
        <3> QED BY <1>8, <3>1, <3>3 DEF UeAt
    <2> QED BY <1>2, <2>1
<1>11. \A k \in Cells : First(k).type = "NONE"
    BY <1>2 DEF QuickInv, QueuesQuick
<1>12. /\ First(Other(c))' = m /\ First(c)'.type = "NONE"
       /\ \A k \in Cells : \A i \in Places : i # 1 => At(k, i)' = NoMessage
    <2>1. /\ First(Other(c))' = m
          /\ \A i \in Places : i # 1 => At(Other(c), i)' = NoMessage
        BY <1>1, <1>5, <1>9, <1>11, PutFirst DEF QuickInv
    <2>2. /\ First(c)' = First(c)
          /\ \A i \in Places : i # 1 => At(c, i)' = NoMessage
        BY <1>2, <1>5, SameFirst DEF QuickInv
    <2> QED BY <1>2, <1>9, <1>11, <2>1, <2>2
<1>13. QueuesQuick' /\ RemovalsQuick'
    BY <1>2, <1>6, <1>9, <1>10, <1>12, Others DEF QueuesQuick, RemovalsQuick
<1>14. MessagesQuick'
    BY <1>5, <1>6, <1>8, <1>9, <1>12 DEF MessagesQuick, Live, Alive
<1>15. FailureTo(Other(c), s)' \/ ReleaseTo(Other(c), s)'
    BY <1>6, <1>12 DEF ReleaseTo
<1>16. LeavingQuick'
    BY <1>1, <1>2, <1>4, <1>5, <1>7, <1>11, <1>15, LeavingStays DEF QuickInv, FailureTo, ReleaseTo
<1>17. JoiningQuick'
    BY <1>1, <1>2, <1>3, <1>5, <1>7, JoiningStays DEF QuickInv, Refusable
<1>18. SwitchQuick'
    <2>1. \A k \in Cells : \A q \in Nat : Removal(k, q) = Removal(c, r) <=> k = c /\ q = r
        BY DEF Removal
    <2> QED BY <1>2, <1>5, <1>7, <2>1 DEF QuickInv, SwitchQuick, Becomes
<1>19. \A q \in Nat : Context(Other(c), q)'.source # 0 => ReleaseTo(Other(c), q)'
    <2>1. \A q \in Nat : Context(Other(c), q)' = Context(Other(c), q)
        BY <1>5, <1>9 DEF Becomes
    <2>2. \A q \in Nat : Context(Other(c), q).source # 0 => q = s
        BY <1>3, <1>4, <1>8, <1>9 DEF QuickInv, SourceQuick
    <2> QED BY <1>6, <1>12, <2>1, <2>2 DEF ReleaseTo
<1>20. ServingQuick' /\ SourceQuick'
    BY <1>2, <1>7, <1>8, <1>9, <1>19 DEF ServingQuick, SourceQuick
<1>21. AccessQuick'
    BY <1>5, <1>7, <1>8 DEF QuickInv, AccessQuick, Becomes, Live
<1>22. ~Aborted'
    BY <1>1, <1>2, <1>5, <1>7, NotAborted, GoesOn DEF Becomes
<1> QED BY <1>13, <1>14, <1>16, <1>17, <1>18, <1>20, <1>21, <1>22 DEF QuickInv

\* What is known when a message is taken.
LEMMA Answered ==
    ASSUME TypeOK, QuickInv, NEW c \in Cells, Taken(c), First(c).type # "NONE"
    PROVE  /\ pathSwitches = {} /\ First(c)' = NoMessage /\ First(c)'.type = "NONE"
           /\ \A i \in Places : i # 1 => At(c, i)' = NoMessage
           /\ First(Other(c)).type \in {"NONE", "HANDOVER_CANCEL", "PREPARATION_FAILURE"}
           /\ First(c).type # "HANDOVER_CANCEL" =>
                 First(Other(c)).type \in {"NONE", "HANDOVER_CANCEL"}
           /\ First(c).type \notin {"HANDOVER_CANCEL", "PREPARATION_FAILURE"} =>
                 First(Other(c)).type = "NONE"
           /\ Other(c) \in Cells /\ Other(c) # c /\ Other(Other(c)) = c
           /\ \A k \in Cells : k = c \/ k = Other(c)
           /\ ueCell \in Cells /\ ue.rnti \in Nat
<1>1. /\ Other(c) \in Cells /\ Other(c) # c /\ Other(Other(c)) = c
      /\ \A k \in Cells : k = c \/ k = Other(c)
    BY Others
<1>2. ueCell \in Cells /\ ue.rnti \in Nat
    BY DEF TypeOK, UeStates
<1> QED BY <1>1, <1>2, TakenFirst DEF QuickInv, QueuesQuick

LEMMA RequestQuick ==
    ASSUME HandoverInv, ~Aborted, QuickInv, NoDelay, NEW c \in Cells, RecvHandoverRequest(c)
    PROVE  ~Aborted' /\ QuickInv'
<1>1. TypeOK /\ RefsOk /\ InStep
    BY DEF HandoverInv
<1>2. PICK o, new : o = At(c, 1).old /\ new = lastAllocatedRnti[c] + 1
    OBVIOUS
<1> DEFINE next == Enb!JoiningContext(o)
           fail == X2Message("PREPARATION_FAILURE", o, 0)
           ack  == X2Message("REQUEST_ACK", o, new)
<1>3. /\ TypeOK' /\ ideal = {}
      /\ First(c).type = "HANDOVER_REQUEST" /\ First(c).old = o /\ Taken(c)
      /\ UNCHANGED <<ueCell, ideal, pathSwitches>>
      /\ o \in Nat /\ o # 0
      /\ \/ SameContexts /\ ue' = ue /\ Put(Other(c), fail)
         \/ /\ Becomes(c, new, next) /\ Put(Other(c), ack)
            /\ (\A r \in Nat : Context(c, r).source = 0) => ue' = ue
    BY <1>1, <1>2, RequestSteps DEF First
<1>4. next.state = "HANDOVER_JOINING" /\ next.source = o
    BY <1>3, NewContexts
<1>5. /\ fail.type = "PREPARATION_FAILURE" /\ fail.old = o
      /\ ack.type = "REQUEST_ACK" /\ ack.old = o /\ ack.new = new
    BY DEF X2Message
<1> HIDE DEF next, fail, ack
<1>6. /\ pathSwitches = {} /\ First(c)'.type = "NONE" /\ First(Other(c)).type = "NONE"
      /\ \A i \in Places : i # 1 => At(c, i)' = NoMessage
      /\ Other(c) \in Cells /\ Other(c) # c /\ Other(Other(c)) = c
      /\ \A k \in Cells : k = c \/ k = Other(c)
    BY <1>1, <1>3, Answered
<1>7. Live /\ \A r \in Nat : Context(c, r).source = 0
    BY <1>3 DEF QuickInv, MessagesQuick, Live
<1>8. /\ ueCell = Other(c) /\ ue.rnti = o /\ Mine = Context(Other(c), o)
      /\ Mine.state = "HANDOVER_PREPARATION"
    <2>1. 1 \in Places
        BY DEF Places
    <2>2. ueCell \in Cells /\ c = Other(ueCell) /\ ue.rnti = o
          /\ Mine.state = "HANDOVER_PREPARATION"
        BY <1>1, <1>3, <1>7, <2>1, Phases DEF First
    <2> QED BY <1>6, <2>2, Others DEF Mine
<1>9. \A k \in Cells : \A q \in Nat : ~FailureTo(k, q) /\ ~ReleaseTo(k, q)
    BY <1>3, <1>6 DEF FailureTo, ReleaseTo
<1>10. CASE SameContexts /\ ue' = ue /\ Put(Other(c), fail)
    <2>1. /\ First(Other(c))' = fail
          /\ \A i \in Places : i # 1 => At(Other(c), i)' = NoMessage
        BY <1>1, <1>6, <1>10, PutFirst DEF QuickInv
    <2>2. \A k \in Cells : \A q \in Nat : Context(k, q)' = Context(k, q)
        BY <1>10 DEF SameContexts
    <2>3. QueuesQuick' /\ RemovalsQuick'
        BY <1>3, <1>5, <1>6, <2>1 DEF QueuesQuick, RemovalsQuick
    <2>4. MessagesQuick'
        BY <1>3, <1>5, <1>6, <1>8, <2>1, <2>2 DEF MessagesQuick, Refusable
    <2>5. LeavingQuick' /\ JoiningQuick' /\ SwitchQuick'
        BY <1>1, <1>3, <1>9, <1>10, ContextsStay DEF QuickInv
    <2>6. Mine' = Mine
        BY <1>3, <1>6, <1>8, <1>10, <2>2 DEF Mine
    <2>7. ServingQuick' /\ SourceQuick'
        BY <1>3, <1>6, <1>7, <1>8, <2>2, <2>6 DEF ServingQuick, SourceQuick
    <2>8. AccessQuick'
        BY <1>7, <2>2 DEF QuickInv, AccessQuick, Live
    <2>9. ~Aborted'
        BY <1>1, <1>3, <1>10, <2>2, NotAborted, GoesOn
    <2> QED BY <2>3, <2>4, <2>5, <2>7, <2>8, <2>9 DEF QuickInv
<1>11. CASE Becomes(c, new, next) /\ Put(Other(c), ack) /\ ue' = ue
    <2>1. /\ First(Other(c))' = ack
          /\ \A i \in Places : i # 1 => At(Other(c), i)' = NoMessage
        BY <1>1, <1>6, <1>11, PutFirst DEF QuickInv
    <2>2. /\ new \in Nat /\ Context(c, new).state = "NONE"
          /\ \A r \in Nat : Context(Other(c), r).source # new
        BY <1>1, <1>2, Fresh, NoneOk
    <2>3. QueuesQuick' /\ RemovalsQuick'
        BY <1>3, <1>5, <1>6, <2>1 DEF QueuesQuick, RemovalsQuick
    <2>4. MessagesQuick'
        BY <1>3, <1>5, <1>6, <1>7, <1>11, <2>1 DEF MessagesQuick, Live, Alive
    <2>5. Context(Other(c), o)' = Context(Other(c), o) /\ Mine' = Mine
        BY <1>3, <1>6, <1>8, <1>11 DEF Becomes, Mine
    <2>6. LeavingQuick'
        BY <1>1, <1>4, <1>9, <1>11, <2>2, LeavingStays DEF QuickInv
    <2>7. JoiningQuick'
        <3>1. SUFFICES ASSUME NEW k \in Cells, NEW q \in Nat,
                              Context(k, q)'.state = "HANDOVER_JOINING"
              PROVE  Context(Other(k), Context(k, q).source)'.state \in Refusable
            BY DEF JoiningQuick
        <3>2. CASE k = c /\ q = new
            <4>1. Context(k, q)' = next
                BY <1>11, <2>2, <3>2 DEF Becomes
            <4> QED BY <1>4, <1>8, <2>5, <3>2, <4>1 DEF Refusable
        <3>3. CASE ~(k = c /\ q = new)
            <4>1. PICK s \in Nat : s = Context(k, q).source
                BY <1>1, ContextTypes
            <4>2. Context(k, q)' = Context(k, q)
                BY <1>11, <3>3 DEF Becomes
            <4>3. Context(Other(k), s).state \in Refusable
                BY <3>1, <4>1, <4>2 DEF QuickInv, JoiningQuick
            <4>4. Context(Other(k), s)' = Context(Other(k), s)
                BY <1>6, <1>11, <2>2, <4>1 DEF Becomes
            <4> QED BY <4>1, <4>2, <4>3, <4>4
        <3> QED BY <3>2, <3>3
    <2>8. SwitchQuick'
        BY <1>3, <1>4, <1>11, <2>2, SwitchStays DEF QuickInv
    <2>9. ServingQuick' /\ SourceQuick'
        BY <1>3, <1>5, <1>8, <2>1, <2>5 DEF ServingQuick, SourceQuick
    <2>10. AccessQuick'
        BY <1>4, <1>7, <1>11 DEF QuickInv, AccessQuick, Becomes, Live
    <2>11. ~Aborted'
        BY <1>1, <1>3, <1>4, <1>11, NotAborted, GoesOn DEF Becomes
    <2> QED BY <2>3, <2>4, <2>6, <2>7, <2>8, <2>9, <2>10, <2>11 DEF QuickInv
<1> QED BY <1>3, <1>7, <1>10, <1>11

LEMMA AckQuick ==
    ASSUME HandoverInv, ~Aborted, QuickInv, NoDelay, NEW c \in Cells, RecvHandoverRequestAck(c)
    PROVE  ~Aborted' /\ QuickInv'
<1>1. TypeOK /\ RefsOk /\ InStep
    BY DEF HandoverInv
<1>2. PICK o, new : o = At(c, 1).old /\ new = At(c, 1).new
    OBVIOUS
<1> DEFINE next == Enb!RecvHandoverRequestAck(Context(c, o), new)
<1>3. /\ TypeOK' /\ ideal = {} /\ o \in Nat /\ new \in Nat
      /\ First(c).type = "REQUEST_ACK" /\ First(c).old = o /\ First(c).new = new
      /\ Taken(c) /\ SameQueue(Other(c))
      /\ UNCHANGED <<ueCell, ideal, pathSwitches>>
    BY <1>1, <1>2, AckSteps DEF First
<1>4. /\ pathSwitches = {} /\ First(c)'.type = "NONE" /\ First(Other(c)).type = "NONE"
      /\ \A i \in Places : i # 1 => At(c, i)' = NoMessage
      /\ Other(c) \in Cells /\ Other(c) # c /\ Other(Other(c)) = c
      /\ \A k \in Cells : k = c \/ k = Other(c)
    BY <1>1, <1>3, Answered
<1>5. Live
    BY <1>3 DEF QuickInv, MessagesQuick, Live
<1>6. /\ UeAt(c, o) /\ Mine.state = "HANDOVER_PREPARATION" /\ Prepared(c, o, new)
    <2>1. 1 \in Places
        BY DEF Places
    <2> QED BY <1>1, <1>3, <1>5, <2>1 DEF InStep, QueuesOk, AckOk, First
<1>7. Mine = Context(c, o) /\ ueCell = c /\ ue.rnti = o
    BY <1>6 DEF UeAt, Mine
<1>8. /\ ue' = ue /\ Becomes(c, o, next) /\ Context(c, o) \in Contexts
    BY <1>1, <1>2, <1>6, <1>7, AckSteps
<1>9. /\ next.state = "HANDOVER_LEAVING" /\ next.target = new
      /\ next.source = Context(c, o).source
    BY <1>3, <1>8, ContextLeaves
<1> HIDE DEF next
<1>10. Context(Other(c), new).state = "HANDOVER_JOINING" /\ Context(Other(c), new).source = o
    <2>1. \A j \in Places : At(c, j).type # "PREPARATION_FAILURE"
        BY <1>3 DEF QuickInv, QueuesQuick, First, NoMessage
    <2> QED BY <1>6, <2>1 DEF Prepared
<1>11. /\ \A k \in Cells : First(k)'.type = "NONE"
       /\ \A k \in Cells : \A i \in Places : i # 1 => At(k, i)' = NoMessage
    <2>1. /\ First(Other(c))' = First(Other(c))
          /\ \A i \in Places : i # 1 => At(Other(c), i)' = NoMessage
        BY <1>3, <1>4, SameFirst DEF QuickInv
    <2> QED BY <1>4, <2>1
<1>12. QueuesQuick' /\ RemovalsQuick' /\ MessagesQuick'
    BY <1>3, <1>4, <1>11 DEF QueuesQuick, RemovalsQuick, MessagesQuick
<1>13. LeavingQuick'
    <2>1. SUFFICES ASSUME NEW k \in Cells, NEW q \in Nat, Context(k, q)'.state = "HANDOVER_LEAVING"
          PROVE  LET t == Context(Other(k), Context(k, q).target)'
                 IN  /\ t.state \in {"HANDOVER_JOINING", "HANDOVER_PATH_SWITCH"}
                     /\ t.source = q
        BY DEF LeavingQuick
    <2>2. CASE k = c /\ q = o
        <3>1. Context(k, q)' = next /\ Context(Other(c), new)' = Context(Other(c), new)
            BY <1>3, <1>4, <1>8, <2>2 DEF Becomes
        <3> QED BY <1>9, <1>10, <2>2, <3>1
    <2>3. CASE ~(k = c /\ q = o)
        <3>1. PICK n \in Nat : n = Context(k, q).target
            BY <1>1, ContextTypes
        <3>2. Context(k, q)' = Context(k, q) /\ Context(k, q).state = "HANDOVER_LEAVING"
            BY <1>8, <2>1, <2>3 DEF Becomes
        <3>3. /\ Context(Other(k), n).state \in {"HANDOVER_JOINING", "HANDOVER_PATH_SWITCH"}
              /\ Context(Other(k), n).source = q
            BY <1>3, <1>4, <3>1, <3>2 DEF QuickInv, LeavingQuick, FailureTo, ReleaseTo
        <3>4. Context(Other(k), n)' = Context(Other(k), n)
            BY <1>4, <1>6, <1>7, <1>8, <3>3 DEF Becomes
        <3> QED BY <3>1, <3>2, <3>3, <3>4
    <2> QED BY <2>2, <2>3
<1>14. JoiningQuick'
    BY <1>1, <1>3, <1>8, <1>9, JoiningStays DEF QuickInv, Refusable
<1>15. SwitchQuick'
    BY <1>3, <1>6, <1>7, <1>8, <1>9, SwitchStays DEF QuickInv
<1>16. ServingQuick' /\ SourceQuick'
    <2>1. Mine' = next
        BY <1>3, <1>7, <1>8 DEF Mine, Becomes
    <2> QED BY <1>9, <2>1 DEF ServingQuick, SourceQuick, AtHome
<1>17. AccessQuick'
    BY <1>5, <1>8, <1>9 DEF QuickInv, AccessQuick, Becomes, Live
<1>18. ~Aborted'
    BY <1>1, <1>3, <1>8, <1>9, NotAborted, GoesOn DEF Becomes
<1> QED BY <1>12, <1>13, <1>14, <1>15, <1>16, <1>17, <1>18 DEF QuickInv

LEMMA FailureQuick ==
    ASSUME HandoverInv, ~Aborted, QuickInv, NoDelay, NEW c \in Cells,
           RecvHandoverPreparationFailure(c)
    PROVE  ~Aborted' /\ QuickInv'
<1>1. TypeOK /\ RefsOk /\ InStep
    BY DEF HandoverInv
<1>2. PICK o : o = At(c, 1).old
    OBVIOUS
<1> DEFINE now  == Context(c, o)
           next == Enb!RecvHandoverPreparationFailure(now)
<1>3. /\ TypeOK' /\ ideal = {} /\ o \in Nat
      /\ First(c).type = "PREPARATION_FAILURE" /\ First(c).old = o
      /\ Taken(c) /\ SameQueue(Other(c))
      /\ UNCHANGED <<ue, ueCell, pathSwitches>>
    BY <1>1, <1>2, FailureSteps DEF First
<1>4. now.state \in Refusable
    BY <1>3 DEF QuickInv, MessagesQuick
<1>5. \/ now.state = "NONE" /\ SameContexts /\ ideal' = ideal
      \/ now.state = "HANDOVER_LEAVING" /\ Becomes(c, o, NoContext) /\ ideal' = {Release}
      \/ /\ now.state = "HANDOVER_PREPARATION" /\ Becomes(c, o, next) /\ ideal' = {}
         /\ Goes(now, next, {"CONNECTED_NORMALLY", "CONNECTION_RECONFIGURATION"}, now.target)
    BY <1>1, <1>2, <1>4, FailureSteps DEF Refusable
<1> HIDE DEF next
<1>6. /\ pathSwitches = {} /\ First(c)'.type = "NONE"
      /\ First(Other(c)).type \in {"NONE", "HANDOVER_CANCEL"}
      /\ \A i \in Places : i # 1 => At(c, i)' = NoMessage
      /\ Other(c) \in Cells /\ Other(c) # c /\ Other(Other(c)) = c
      /\ \A k \in Cells : k = c \/ k = Other(c)
      /\ ueCell \in Cells /\ ue.rnti \in Nat
    BY <1>1, <1>3, Answered
<1>7. /\ First(Other(c))' = First(Other(c))
      /\ \A k \in Cells : \A i \in Places : i # 1 => At(k, i)' = NoMessage
    <2>1. /\ First(Other(c))' = First(Other(c))
          /\ \A i \in Places : i # 1 => At(Other(c), i)' = NoMessage
        BY <1>3, <1>6, SameFirst DEF QuickInv
    <2> QED BY <1>6, <2>1
<1>8. Live => First(Other(c)).type = "NONE"
    <2>1. 1 \in Places
        BY DEF Places
    <2> QED BY <1>1, <1>6, <2>1 DEF InStep, QueuesOk, NoCancel, First
<1>9. \A k \in Cells : \A q \in Nat : ~ReleaseTo(k, q) /\ (FailureTo(k, q) => k = c /\ q = o)
    BY <1>3, <1>6 DEF FailureTo, ReleaseTo
<1>10. /\ QueuesQuick' /\ (Alive' <=> Alive)
       /\ \A q \in Nat : Context(Other(c), q)' = Context(Other(c), q)
       /\ MessagesQuick'
    <2>1. \A q \in Nat : Context(Other(c), q)' = Context(Other(c), q)
        BY <1>5, <1>6 DEF SameContexts, Becomes
    <2>2. First(Other(c)).new \in Nat
        <3>1. 1 \in Places
            BY DEF Places
        <3> QED BY <1>1, <1>6, <3>1, MessageTypes DEF First
    <2>3. First(Other(c))'.type = "HANDOVER_CANCEL" =>
             Context(Other(c), First(Other(c)).new)'.state \in {"NONE", "HANDOVER_JOINING"}
        BY <1>6, <1>7, <2>1, <2>2 DEF QuickInv, MessagesQuick
    <2>4. MessagesQuick'
        BY <1>6, <1>7, <2>3 DEF MessagesQuick
    <2>5. QueuesQuick'
        BY <1>3, <1>6, <1>7 DEF QueuesQuick
    <2>6. Alive' <=> Alive
        BY <1>3 DEF Alive
    <2> QED BY <2>1, <2>4, <2>5, <2>6
<1>11. Live /\ Mine.state \in AtHome => \A q \in Nat : Context(Other(ueCell), q).source = 0
    <2>1. First(ueCell).type # "REQUEST_ACK" /\ Other(ueCell) \in Cells
        BY <1>3, <1>6, Others
    <2> QED BY <1>9, <2>1 DEF QuickInv, ServingQuick
<1>12. CASE now.state = "NONE" /\ SameContexts /\ ideal' = ideal
    <2>1. \A k \in Cells : \A q \in Nat : Context(k, q)' = Context(k, q)
        BY <1>12 DEF SameContexts
    <2>2. RemovalsQuick'
        BY <1>3, <1>12 DEF RemovalsQuick
    <2>3. LeavingQuick' /\ JoiningQuick' /\ SwitchQuick'
        BY <1>1, <1>3, <1>9, <1>12, ContextsStay DEF QuickInv
    <2>4. Mine' = Mine /\ (Live' <=> Live) /\ Other(ueCell) \in Cells
        BY <1>3, <1>6, <1>10, <1>12, <2>1, Others DEF Mine, Live
    <2>5. ServingQuick' /\ SourceQuick'
        BY <1>3, <1>11, <2>1, <2>4 DEF QuickInv, ServingQuick, SourceQuick
    <2>6. AccessQuick'
        BY <1>10, <2>1 DEF QuickInv, AccessQuick
    <2>7. ~Aborted'
        BY <1>1, <1>3, <2>1, NotAborted, GoesOn
    <2> QED BY <1>10, <2>2, <2>3, <2>5, <2>6, <2>7 DEF QuickInv
<1>13. CASE now.state = "HANDOVER_LEAVING" /\ Becomes(c, o, NoContext) /\ ideal' = {Release}
    <2>1. /\ NoContext.state = "NONE" /\ NoContext.source = 0
          /\ \A k \in Cells : \A q \in Nat : Removal(k, q) # Release
        BY NoneOk DEF Removal, Release, Cells
    <2>2. RemovalsQuick'
        <3>1. Alive => \A k \in Cells : First(k)'.type = "NONE"
            BY <1>3, <1>6, <1>7, <1>8 DEF Live
        <3>2. Alive' => First(Other(ueCell))'.type = "NONE"
            BY <1>3, <1>6, <1>10, <3>1, Others
        <3> QED BY <1>3, <1>13, <2>1, <3>2 DEF RemovalsQuick
    <2>3. LeavingQuick'
        BY <1>1, <1>3, <1>9, <1>13, <2>1, LeavingStays DEF QuickInv
    <2>4. JoiningQuick'
        BY <1>1, <1>3, <1>13, <2>1, JoiningStays DEF QuickInv, Refusable
    <2>5. SwitchQuick'
        BY <1>3, <1>13, <2>1, SwitchStays DEF QuickInv
    <2>6. ServingQuick' /\ SourceQuick'
        BY <1>13 DEF ServingQuick, SourceQuick, Live
    <2>7. AccessQuick'
        BY <1>10, <1>13, <2>1 DEF QuickInv, AccessQuick, Becomes
    <2>8. ~Aborted'
        BY <1>1, <1>3, <1>13, <2>1, NotAborted, GoesOn DEF Becomes
    <2> QED BY <1>10, <2>2, <2>3, <2>4, <2>5, <2>6, <2>7, <2>8 DEF QuickInv
<1>14. CASE /\ now.state = "HANDOVER_PREPARATION" /\ Becomes(c, o, next) /\ ideal' = {}
            /\ Goes(now, next, {"CONNECTED_NORMALLY", "CONNECTION_RECONFIGURATION"}, now.target)
    <2>1. next.state \in {"CONNECTED_NORMALLY", "CONNECTION_RECONFIGURATION"}
        BY <1>14 DEF Goes
    <2>2. UeAt(c, o) /\ Live
        BY <1>1, <1>3, <1>14
        DEF InStep, RadioOk, OwnedOk, Serving, UeAt, Live, Alive
    <2>3. ueCell = c /\ ue.rnti = o /\ Mine = now /\ Mine' = next
        BY <1>3, <1>14, <2>2 DEF UeAt, Mine, Becomes
    <2>4. \A q \in Nat : Context(Other(c), q).source = 0
        BY <1>11, <1>14, <2>2, <2>3 DEF AtHome
    <2>5. \A q \in Nat : Context(Other(c), q).state # "HANDOVER_JOINING"
        BY <1>1, <1>6, <2>4 DEF InStep, ContextsOk, ContextOk
    <2>6. RemovalsQuick'
        BY <1>14 DEF RemovalsQuick
    <2>7. LeavingQuick'
        BY <1>1, <1>3, <1>9, <1>14, <2>1, LeavingStays DEF QuickInv
    <2>8. JoiningQuick'
        BY <1>1, <1>3, <1>14, <2>1, <2>5, JoiningStays DEF QuickInv
    <2>9. SwitchQuick'
        BY <1>3, <1>14, <2>1, SwitchStays DEF QuickInv
    <2>10. ServingQuick' /\ SourceQuick'
        BY <1>3, <1>10, <2>1, <2>3, <2>4 DEF ServingQuick, SourceQuick
    <2>11. AccessQuick'
        BY <1>10, <1>14, <2>1 DEF QuickInv, AccessQuick, Becomes
    <2>12. ~Aborted'
        BY <1>1, <1>3, <1>14, <2>1, NotAborted, GoesOn DEF Becomes
    <2> QED BY <1>10, <2>6, <2>7, <2>8, <2>9, <2>10, <2>11, <2>12 DEF QuickInv
<1> QED BY <1>5, <1>12, <1>13, <1>14

LEMMA ForgetQuick ==
    ASSUME HandoverInv, ~Aborted, QuickInv, NoDelay, NEW c \in Cells, RecvUeContextRelease(c)
    PROVE  ~Aborted' /\ QuickInv'
<1>1. TypeOK /\ RefsOk /\ InStep
    BY DEF HandoverInv
<1>2. PICK o : o = At(c, 1).old
    OBVIOUS
<1>3. /\ TypeOK' /\ ideal = {} /\ o \in Nat
      /\ First(c).type = "CONTEXT_RELEASE" /\ First(c).old = o
      /\ Taken(c) /\ SameQueue(Other(c))
      /\ UNCHANGED <<ue, ueCell, ideal, pathSwitches>>
    BY <1>1, <1>2, ForgetSteps DEF First
<1>4. Live
    BY <1>3 DEF QuickInv, MessagesQuick, Live
<1>5. Context(c, o).state \in {"NONE", "HANDOVER_LEAVING"}
    <2>1. 1 \in Places
        BY DEF Places
    <2> QED BY <1>1, <1>3, <1>4, <2>1, Phases DEF First
<1>6. Becomes(c, o, NoContext)
    <2>1. Context(c, o).state = "NONE" => Context(c, o) = NoContext
        BY <1>1, <1>3, ContextTypes
    <2>2. SameContexts /\ Context(c, o) = NoContext => Becomes(c, o, NoContext)
        BY DEF SameContexts, Becomes
    <2> QED BY <1>1, <1>2, <1>5, <2>1, <2>2, ForgetSteps
<1>7. /\ pathSwitches = {} /\ First(c)'.type = "NONE" /\ First(Other(c)).type = "NONE"
      /\ \A i \in Places : i # 1 => At(c, i)' = NoMessage
      /\ Other(c) \in Cells /\ Other(c) # c /\ Other(Other(c)) = c
      /\ \A k \in Cells : k = c \/ k = Other(c)
      /\ ueCell \in Cells /\ ue.rnti \in Nat
    BY <1>1, <1>3, Answered
<1>8. /\ \A k \in Cells : First(k)'.type = "NONE"
      /\ \A k \in Cells : \A i \in Places : i # 1 => At(k, i)' = NoMessage
    <2>1. /\ First(Other(c))' = First(Other(c))
          /\ \A i \in Places : i # 1 => At(Other(c), i)' = NoMessage
        BY <1>3, <1>7, SameFirst DEF QuickInv
    <2> QED BY <1>7, <2>1
<1>9. QueuesQuick' /\ RemovalsQuick' /\ MessagesQuick'
    BY <1>3, <1>7, <1>8 DEF QueuesQuick, RemovalsQuick, MessagesQuick
<1>10. \A k \in Cells : \A q \in Nat : ~FailureTo(k, q) /\ (ReleaseTo(k, q) => k = c /\ q = o)
    BY <1>3, <1>7 DEF FailureTo, ReleaseTo
<1>11. LeavingQuick' /\ JoiningQuick' /\ SwitchQuick'
    <2>1. LeavingQuick'
        BY <1>1, <1>3, <1>5, <1>6, <1>10, NoneOk, LeavingStays DEF QuickInv
    <2>2. JoiningQuick'
        BY <1>1, <1>3, <1>6, NoneOk, JoiningStays DEF QuickInv, Refusable
    <2>3. SwitchQuick'
        BY <1>3, <1>5, <1>6, NoneOk, SwitchStays DEF QuickInv
    <2> QED BY <2>1, <2>2, <2>3
<1>12. /\ Mine'.state # "NONE" => Mine' = Mine
       /\ \A k \in Cells : \A q \in Nat : Context(k, q)'.source # 0 =>
             Context(k, q)' = Context(k, q) /\ ~(k = c /\ q = o)
    BY <1>3, <1>6, <1>7, NoneOk DEF Mine, Becomes
<1>13. ServingQuick'
    <2>1. SUFFICES ASSUME Live', Mine'.state \in AtHome, NEW q \in Nat,
                          Context(Other(ueCell), q)'.source # 0
          PROVE  FALSE
        BY <1>3 DEF ServingQuick
    <2>2. Mine.state \in AtHome /\ Other(ueCell) \in Cells
        BY <1>7, <1>12, <2>1, Others DEF AtHome
    <2>3. Context(Other(ueCell), q).source # 0 /\ ~(Other(ueCell) = c /\ q = o)
        BY <1>3, <1>12, <2>1, <2>2
    <2>4. First(ueCell).type # "REQUEST_ACK"
        BY <1>3, <1>7
    <2> QED BY <1>4, <1>10, <2>2, <2>3, <2>4 DEF QuickInv, ServingQuick
<1>14. SourceQuick'
    <2>1. SUFFICES ASSUME Live', Mine'.state \in {"HANDOVER_JOINING", "HANDOVER_PATH_SWITCH"},
                          NEW q \in Nat, Context(Other(ueCell), q)'.source # 0
          PROVE  q = Mine'.source
        BY <1>3 DEF SourceQuick
    <2>2. Mine' = Mine /\ Other(ueCell) \in Cells
        BY <1>7, <1>12, <2>1, Others
    <2>3. Context(Other(ueCell), q).source # 0
        BY <1>3, <1>12, <2>1, <2>2
    <2> QED BY <1>4, <2>1, <2>2, <2>3 DEF QuickInv, SourceQuick
<1>15. AccessQuick'
    BY <1>4, <1>6, NoneOk DEF QuickInv, AccessQuick, Becomes, Live
<1>16. ~Aborted'
    BY <1>1, <1>3, <1>6, NoneOk, NotAborted, GoesOn DEF Becomes
<1> QED BY <1>9, <1>11, <1>13, <1>14, <1>15, <1>16 DEF QuickInv

\* A message to a context that stays is taken, or data is.
LEMMA TakenQuick ==
    ASSUME TypeOK, TypeOK', InStep, QuickInv, ~Aborted, NEW c \in Cells, Taken(c),
           SameQueue(Other(c)),
           First(c).type \in {"HANDOVER_CANCEL", "UE_DATA"}, ideal = {},
           UNCHANGED <<ue, ueCell, ideal, pathSwitches>>,
           \A k \in Cells : \A r \in Nat : /\ Context(k, r)'.state = Context(k, r).state
                                           /\ Context(k, r)'.source = Context(k, r).source
                                           /\ Context(k, r)'.target = Context(k, r).target
    PROVE  ~Aborted' /\ QuickInv'
<1>1. /\ pathSwitches = {} /\ First(c)'.type = "NONE"
      /\ First(Other(c)).type \in {"NONE", "HANDOVER_CANCEL", "PREPARATION_FAILURE"}
      /\ \A i \in Places : i # 1 => At(c, i)' = NoMessage
      /\ Other(c) \in Cells /\ Other(c) # c /\ Other(Other(c)) = c
      /\ \A k \in Cells : k = c \/ k = Other(c)
      /\ ueCell \in Cells /\ ue.rnti \in Nat /\ Other(ueCell) \in Cells
    BY Answered, Others
<1>2. /\ First(Other(c))' = First(Other(c))
      /\ \A k \in Cells : \A i \in Places : i # 1 => At(k, i)' = NoMessage
    <2>1. /\ First(Other(c))' = First(Other(c))
          /\ \A i \in Places : i # 1 => At(Other(c), i)' = NoMessage
        BY <1>1, SameFirst DEF QuickInv
    <2> QED BY <1>1, <2>1
<1>3. QueuesQuick' /\ RemovalsQuick'
    BY <1>1, <1>2 DEF QueuesQuick, RemovalsQuick
<1>4. MessagesQuick'
    <2>1. First(Other(c)).old \in Nat /\ First(Other(c)).new \in Nat
        <3>1. 1 \in Places
            BY DEF Places
        <3> QED BY <1>1, <3>1, MessageTypes DEF First
    <2>2. PICK f \in Nat, n \in Nat : f = First(Other(c)).old /\ n = First(Other(c)).new
        BY <2>1
    <2>3. /\ First(Other(c)).type = "PREPARATION_FAILURE" => Context(Other(c), f)'.state \in Refusable
          /\ First(Other(c)).type = "HANDOVER_CANCEL" =>
                Context(Other(c), n)'.state \in {"NONE", "HANDOVER_JOINING"}
        BY <1>1, <2>2 DEF QuickInv, MessagesQuick
    <2> QED BY <1>1, <1>2, <2>2, <2>3 DEF MessagesQuick
<1>5. \A k \in Cells : \A q \in Nat :
         ~ReleaseTo(k, q) /\ (FailureTo(k, q) => FailureTo(k, q)')
    BY <1>1, <1>2 DEF FailureTo, ReleaseTo
<1>6. LeavingQuick'
    <2>1. SUFFICES ASSUME NEW k \in Cells, NEW q \in Nat, Context(k, q).state = "HANDOVER_LEAVING"
          PROVE  \/ LET t == Context(Other(k), Context(k, q).target)'
                    IN  /\ t.state \in {"HANDOVER_JOINING", "HANDOVER_PATH_SWITCH"}
                        /\ t.source = q
                 \/ FailureTo(k, q)'
        BY DEF LeavingQuick
    <2>2. PICK n \in Nat : n = Context(k, q).target
        BY ContextTypes
    <2>3. Context(k, q)'.target = n /\ Other(k) \in Cells
        BY <2>2, Others
    <2> QED BY <1>5, <2>1, <2>2, <2>3 DEF QuickInv, LeavingQuick
<1>7. JoiningQuick'
    <2>1. SUFFICES ASSUME NEW k \in Cells, NEW q \in Nat, Context(k, q).state = "HANDOVER_JOINING"
          PROVE  Context(Other(k), Context(k, q).source)'.state \in Refusable
        BY DEF JoiningQuick
    <2>2. PICK s \in Nat : s = Context(k, q).source
        BY ContextTypes
    <2>3. Context(k, q)'.source = s /\ Other(k) \in Cells
        BY <2>2, Others
    <2> QED BY <2>1, <2>2, <2>3 DEF QuickInv, JoiningQuick
<1>8. SwitchQuick'
    BY DEF QuickInv, SwitchQuick
<1>9. /\ Mine'.state = Mine.state /\ Mine'.source = Mine.source
      /\ (Live' <=> Live) /\ (Alive' <=> Alive)
    BY <1>1 DEF Mine, Live, Alive
<1>10. ServingQuick'
    <2>1. First(ueCell).type # "REQUEST_ACK"
        BY <1>1
    <2> QED BY <1>1, <1>5, <1>9, <2>1 DEF QuickInv, ServingQuick
<1>11. SourceQuick' /\ AccessQuick'
    BY <1>1, <1>9 DEF QuickInv, SourceQuick, AccessQuick
<1>12. ~Aborted'
    BY NotAborted, GoesOn
<1> QED BY <1>3, <1>4, <1>6, <1>7, <1>8, <1>10, <1>11, <1>12 DEF QuickInv

LEMMA CancelQuick ==
    ASSUME HandoverInv, ~Aborted, QuickInv, NoDelay, NEW c \in Cells, RecvHandoverCancel(c)
    PROVE  ~Aborted' /\ QuickInv'
<1>1. TypeOK /\ RefsOk /\ InStep
    BY DEF HandoverInv
<1>2. PICK n : n = At(c, 1).new
    OBVIOUS
<1> DEFINE next == Enb!RecvHandoverCancel(Context(c, n))
<1>3. /\ TypeOK' /\ ideal = {} /\ n \in Nat
      /\ First(c).type = "HANDOVER_CANCEL" /\ First(c).new = n
      /\ Taken(c) /\ SameQueue(Other(c))
      /\ UNCHANGED <<ue, ueCell, ideal, pathSwitches>>
    BY <1>1, <1>2, CancelSteps DEF First
<1>4. Context(c, n).state \in {"NONE", "HANDOVER_JOINING"}
    BY <1>3 DEF QuickInv, MessagesQuick
<1>5. \/ SameContexts
      \/ /\ Becomes(c, n, next)
         /\ Goes(Context(c, n), next, {"HANDOVER_JOINING"}, Context(c, n).target)
         /\ Context(c, n).state = "HANDOVER_JOINING"
    BY <1>1, <1>2, <1>4, CancelSteps
<1> HIDE DEF next
<1>6. \A k \in Cells : \A r \in Nat : /\ Context(k, r)'.state = Context(k, r).state
                                      /\ Context(k, r)'.source = Context(k, r).source
                                      /\ Context(k, r)'.target = Context(k, r).target
    BY <1>5 DEF SameContexts, Becomes, Goes
<1> QED BY <1>1, <1>3, <1>6, TakenQuick

LEMMA DataQuick ==
    ASSUME HandoverInv, ~Aborted, QuickInv, NoDelay, NEW c \in Cells, RecvUeData(c)
    PROVE  ~Aborted' /\ QuickInv'
<1>1. TypeOK /\ RefsOk /\ InStep
    BY DEF HandoverInv
<1>2. /\ TypeOK' /\ ideal = {}
      /\ First(c).type = "UE_DATA" /\ Taken(c) /\ SameContexts
      /\ UNCHANGED <<ueCell, ideal, pathSwitches>>
    BY <1>1, DataSteps DEF First
<1>3. PICK r \in Nat : Context(c, r).state = "HANDOVER_JOINING"
    BY <1>2 DEF QuickInv, MessagesQuick
<1>4. Context(c, r).source # 0
    BY <1>1, <1>3 DEF InStep, ContextsOk, ContextOk
<1>5. \A q \in Nat : Context(c, q).source # 0 => Context(c, q).state # "HANDOVER_LEAVING"
    BY <1>1, <1>3, <1>4 DEF InStep, OneTeid
<1>6. ue' = ue /\ SameQueue(Other(c))
    BY <1>1, <1>4, <1>5, DataSteps
<1>7. \A k \in Cells : \A q \in Nat : /\ Context(k, q)'.state = Context(k, q).state
                                      /\ Context(k, q)'.source = Context(k, q).source
                                      /\ Context(k, q)'.target = Context(k, q).target
    BY <1>2 DEF SameContexts
<1> QED BY <1>1, <1>2, <1>6, <1>7, TakenQuick

\* The release comes when no handover waits for an answer.
LEMMA ReleaseQuick ==
    ASSUME HandoverInv, ~Aborted, QuickInv, NoDelay, RecvRrcConnectionRelease
    PROVE  ~Aborted' /\ QuickInv'
<1>1. TypeOK /\ RefsOk /\ InStep
    BY DEF HandoverInv
<1>2. /\ TypeOK' /\ SameContexts /\ \A k \in Cells : SameQueue(k)
      /\ UNCHANGED <<ueCell, pathSwitches>> /\ ideal = {Release}
      /\ IF Alive THEN ue'.rrc = "IDLE_CELL_SEARCH" /\ ideal' = {Removal(ueCell, ue.rnti)}
         ELSE ue' = ue /\ ideal' = {}
    BY <1>1, ReleaseSteps
<1>3. ue'.rrc # "ABORTED" /\ ~Alive' /\ ueCell \in Cells /\ ue.rnti \in Nat
    BY <1>1, <1>2, NotAborted DEF Alive, TypeOK, UeStates
<1>4. /\ pathSwitches = {} /\ pathSwitches' = {}
      /\ \A k \in Cells : /\ First(k)' = First(k)
                          /\ First(k).type \in {"NONE", "HANDOVER_CANCEL"}
                          /\ \A i \in Places : i # 1 => At(k, i)' = NoMessage
    BY <1>2, <1>3, SameFirst DEF QuickInv, QueuesQuick
<1>5. QueuesQuick'
    BY <1>4, Others DEF QueuesQuick
<1>6. RemovalsQuick'
    <2>1. SUFFICES ASSUME NEW k \in Cells, NEW r \in Nat, Removal(k, r) \in ideal',
                          Context(k, r)'.state = "HANDOVER_JOINING"
          PROVE  First(Other(k))'.type = "NONE"
        BY <1>3 DEF RemovalsQuick
    <2>2. Alive /\ k = ueCell /\ r = ue.rnti
        BY <1>2, <1>3, <2>1 DEF Removal
    <2>3. Mine.state = "HANDOVER_JOINING"
        BY <1>2, <2>1, <2>2 DEF SameContexts, Mine
    <2>4. First(Other(k)).type = "NONE"
        BY <1>2, <2>2, <2>3 DEF QuickInv, RemovalsQuick
    <2> QED BY <1>4, <2>4, Others
<1>7. MessagesQuick'
    <2>1. SUFFICES ASSUME NEW k \in Cells, First(k).type = "HANDOVER_CANCEL"
          PROVE  Context(k, First(k).new)'.state \in {"NONE", "HANDOVER_JOINING"}
        BY <1>4 DEF MessagesQuick
    <2>2. PICK n \in Nat : n = First(k).new
        BY <1>1, MessageTypes DEF First, Places
    <2>3. Context(k, n)'.state \in {"NONE", "HANDOVER_JOINING"}
        BY <1>2, <2>1, <2>2 DEF QuickInv, MessagesQuick, SameContexts
    <2> QED BY <1>4, <2>2, <2>3
<1>8. LeavingQuick' /\ JoiningQuick' /\ SwitchQuick'
    <2>1. \A k \in Cells : \A q \in Nat : ~FailureTo(k, q) /\ ~ReleaseTo(k, q)
        BY <1>4 DEF FailureTo, ReleaseTo
    <2> QED BY <1>1, <1>2, <2>1, ContextsStay DEF QuickInv
<1>9. ServingQuick' /\ SourceQuick' /\ AccessQuick'
    BY <1>3 DEF ServingQuick, SourceQuick, AccessQuick, Live
<1>10. ~Aborted'
    BY <1>1, <1>2, <1>3, NotAborted, GoesOn DEF SameContexts
<1> QED BY <1>5, <1>6, <1>7, <1>8, <1>9, <1>10 DEF QuickInv

\* A context is removed, and its source cell told if it was joining.
LEMMA GoneQuick ==
    ASSUME TypeOK, TypeOK', ~Aborted, QuickInv, NEW c \in Cells, NEW r \in Nat,
           Becomes(c, r, NoContext), NEW s, s = Context(c, r).source,
           UNCHANGED <<ue, pathSwitches>>, pathSwitches = {},
           \A k \in Cells : First(k).type \in {"NONE", "HANDOVER_CANCEL"},
           Context(c, r).state = "HANDOVER_JOINING" => FailureTo(Other(c), s)'
    PROVE  ~Aborted' /\ LeavingQuick' /\ JoiningQuick' /\ SwitchQuick' /\ AccessQuick'
<1>1. \A k \in Cells : \A q \in Nat : /\ ~FailureTo(k, q) /\ ~ReleaseTo(k, q)
                                      /\ Context(k, q).state # "HANDOVER_PATH_SWITCH"
    BY DEF FailureTo, ReleaseTo, QuickInv, SwitchQuick
<1>2. LeavingQuick'
    BY <1>1, NoneOk, LeavingStays DEF QuickInv
<1>3. JoiningQuick'
    BY NoneOk, JoiningStays DEF QuickInv, Refusable
<1>4. SwitchQuick'
    BY <1>1, NoneOk, SwitchStays DEF QuickInv
<1>5. AccessQuick'
    BY NoneOk DEF QuickInv, AccessQuick, Becomes, Alive
<1>6. ~Aborted'
    BY NoneOk, NotAborted, GoesOn DEF Becomes
<1> QED BY <1>2, <1>3, <1>4, <1>5, <1>6

LEMMA RemoveQuick ==
    ASSUME HandoverInv, ~Aborted, QuickInv, NoDelay, NEW m \in ideal \ {Release},
           RecvIdealUeContextRemoveRequest(m.to, m.rnti)
    PROVE  ~Aborted' /\ QuickInv'
<1>1. TypeOK /\ RefsOk /\ InStep
    BY DEF HandoverInv
<1>2. PICK c, r : c = m.to /\ r = m.rnti
    OBVIOUS
<1>3. PICK s : s = Context(c, r).source
    OBVIOUS
<1> DEFINE failure == X2Message("PREPARATION_FAILURE", s, 0)
<1>4. /\ TypeOK' /\ c \in Cells /\ r \in Nat /\ Removal(c, r) \in ideal
      /\ ideal' = ideal \ {Removal(c, r)} /\ Becomes(c, r, NoContext) /\ SameQueue(c)
      /\ IF Context(c, r).state = "HANDOVER_JOINING" THEN Put(Other(c), failure)
         ELSE SameQueue(Other(c))
      /\ UNCHANGED <<ue, ueCell, pathSwitches>>
    BY <1>1, <1>2, <1>3, RemoveSteps
<1>5. failure.type = "PREPARATION_FAILURE" /\ failure.old = s
    BY DEF X2Message
<1> HIDE DEF failure
<1>6. /\ ~Alive /\ ~Alive' /\ ideal' = {}
    <2>1. Removal(c, r) # Release
        BY <1>4 DEF Removal, Release, Cells
    <2>2. ~Alive /\ ideal = {Removal(c, r)}
        BY <1>1, <1>4, <2>1 DEF InStep, RadioOk, IdealOk
    <2> QED BY <1>4, <2>2 DEF Alive
<1>7. /\ pathSwitches = {} /\ s \in Nat
      /\ \A k \in Cells : First(k).type \in {"NONE", "HANDOVER_CANCEL"}
      /\ Other(c) \in Cells /\ Other(c) # c /\ Other(Other(c)) = c
      /\ \A k \in Cells : k = c \/ k = Other(c)
    BY <1>1, <1>3, <1>4, ContextTypes, Others DEF QuickInv, QueuesQuick
<1>8. /\ First(c)' = First(c)
      /\ IF Context(c, r).state = "HANDOVER_JOINING" THEN First(Other(c))' = failure
         ELSE First(Other(c))' = First(Other(c))
      /\ \A k \in Cells : \A i \in Places : i # 1 => At(k, i)' = NoMessage
    <2>1. First(c)' = First(c) /\ \A i \in Places : i # 1 => At(c, i)' = NoMessage
        BY <1>4, SameFirst DEF QuickInv
    <2>2. CASE Context(c, r).state = "HANDOVER_JOINING"
        <3>1. First(Other(c)).type = "NONE"
            BY <1>4, <2>2 DEF QuickInv, RemovalsQuick
        <3>2. /\ First(Other(c))' = failure
              /\ \A i \in Places : i # 1 => At(Other(c), i)' = NoMessage
            BY <1>1, <1>4, <1>7, <2>2, <3>1, PutFirst DEF QuickInv
        <3> QED BY <1>7, <2>1, <2>2, <3>2
    <2>3. CASE Context(c, r).state # "HANDOVER_JOINING"
        <3>1. /\ First(Other(c))' = First(Other(c))
              /\ \A i \in Places : i # 1 => At(Other(c), i)' = NoMessage
            BY <1>4, <1>7, <2>3, SameFirst DEF QuickInv
        <3> QED BY <1>7, <2>1, <2>3, <3>1
    <2> QED BY <2>2, <2>3
<1>9. QueuesQuick' /\ RemovalsQuick'
    BY <1>4, <1>5, <1>6, <1>7, <1>8 DEF QueuesQuick, RemovalsQuick
<1>10. MessagesQuick'
    <2>1. \A k \in Cells : \A n \in Nat : First(k).type = "HANDOVER_CANCEL" /\ First(k).new = n =>
             Context(k, n)'.state \in {"NONE", "HANDOVER_JOINING"}
        BY <1>4, NoneOk DEF QuickInv, MessagesQuick, Becomes
    <2>2. \A k \in Cells : First(k).new \in Nat
        BY <1>1, MessageTypes DEF First, Places
    <2>3. Context(c, r).state = "HANDOVER_JOINING" => Context(Other(c), s)'.state \in Refusable
        BY <1>3, <1>4, <1>7 DEF QuickInv, JoiningQuick, Becomes
    <2>4. SUFFICES ASSUME NEW k \in Cells
          PROVE  /\ First(k)'.type \in {"NONE", "HANDOVER_CANCEL", "PREPARATION_FAILURE"}
                 /\ First(k)'.type = "PREPARATION_FAILURE" =>
                       Context(k, First(k).old)'.state \in Refusable
                 /\ First(k)'.type = "HANDOVER_CANCEL" =>
                       Context(k, First(k).new)'.state \in {"NONE", "HANDOVER_JOINING"}
        BY DEF MessagesQuick
    <2>5. CASE First(k)' = First(k)
        BY <1>7, <2>1, <2>2, <2>5
    <2>6. CASE k = Other(c) /\ First(k)' = failure /\ Context(c, r).state = "HANDOVER_JOINING"
        BY <1>5, <2>3, <2>6
    <2> QED BY <1>7, <1>8, <2>5, <2>6
<1>11. Context(c, r).state = "HANDOVER_JOINING" => FailureTo(Other(c), s)'
    BY <1>5, <1>8 DEF FailureTo
<1>12. ~Aborted' /\ LeavingQuick' /\ JoiningQuick' /\ SwitchQuick' /\ AccessQuick'
    BY <1>1, <1>3, <1>4, <1>7, <1>11, GoneQuick
<1>13. ServingQuick' /\ SourceQuick'
    BY <1>6 DEF ServingQuick, SourceQuick, Live
<1> QED BY <1>9, <1>10, <1>12, <1>13 DEF QuickInv

LEMMA ExpireQuick ==
    ASSUME HandoverInv, ~Aborted, QuickInv, NoDelay, NEW c \in Cells, NEW r \in DOMAIN contexts[c],
           NEW timer \in Enb!Timers, ExpireTimer(c, r, timer)
    PROVE  ~Aborted' /\ QuickInv'
<1>1. TypeOK /\ RefsOk /\ InStep
    BY DEF HandoverInv
<1>2. PICK now : now = Context(c, r)
    OBVIOUS
<1>3. PICK s, t : s = now.source /\ t = now.target
    OBVIOUS
<1> DEFINE failure == X2Message("PREPARATION_FAILURE", s, 0)
           cancel  == X2Message("HANDOVER_CANCEL", 0, t)
<1>4. /\ TypeOK' /\ Quiet /\ r \in Nat
      /\ UNCHANGED <<ue, ueCell, pathSwitches>>
      /\ Becomes(c, r, NoContext) /\ SameQueue(c)
      /\ \/ now.state = "INITIAL_RANDOM_ACCESS" /\ ideal' = {} /\ SameQueue(Other(c))
         \/ now.state = "HANDOVER_JOINING" /\ ideal' = {} /\ Put(Other(c), failure)
         \/ now.state = "HANDOVER_LEAVING" /\ ideal' = {Release} /\ Put(Other(c), cancel)
    BY <1>1, <1>2, <1>3, ExpireSteps
<1>5. /\ failure.type = "PREPARATION_FAILURE" /\ failure.old = s
      /\ cancel.type = "HANDOVER_CANCEL" /\ cancel.new = t
    BY DEF X2Message
<1> HIDE DEF failure, cancel
<1>6. /\ ideal = {} /\ pathSwitches = {} /\ ueCell \in Cells /\ ue.rnti \in Nat
      /\ \A k \in Cells : First(k).type = "NONE"
      /\ s \in Nat /\ t \in Nat
      /\ Other(c) \in Cells /\ Other(c) # c /\ Other(Other(c)) = c
      /\ Other(ueCell) \in Cells
      /\ \A k \in Cells : k = c \/ k = Other(c)
    BY <1>1, <1>2, <1>3, <1>4, ContextTypes, Others, Rests
<1>7. /\ First(c)' = First(c)
      /\ \/ now.state = "INITIAL_RANDOM_ACCESS" /\ First(Other(c))' = First(Other(c))
         \/ now.state = "HANDOVER_JOINING" /\ First(Other(c))' = failure
         \/ now.state = "HANDOVER_LEAVING" /\ First(Other(c))' = cancel
      /\ \A k \in Cells : \A i \in Places : i # 1 => At(k, i)' = NoMessage
    <2>1. First(c)' = First(c) /\ \A i \in Places : i # 1 => At(c, i)' = NoMessage
        BY <1>4, SameFirst DEF QuickInv
    <2>2. ASSUME NEW m, Put(Other(c), m)
          PROVE  First(Other(c))' = m /\ \A i \in Places : i # 1 => At(Other(c), i)' = NoMessage
        BY <1>1, <1>6, <2>2, PutFirst DEF QuickInv
    <2>3. ASSUME SameQueue(Other(c))
          PROVE  /\ First(Other(c))' = First(Other(c))
                 /\ \A i \in Places : i # 1 => At(Other(c), i)' = NoMessage
        BY <1>6, <2>3, SameFirst DEF QuickInv
    <2> QED BY <1>4, <1>6, <2>1, <2>2, <2>3
<1>8. QueuesQuick'
    BY <1>4, <1>5, <1>6, <1>7 DEF QueuesQuick
<1>9. now.state = "HANDOVER_LEAVING" =>
         Context(Other(c), t).state = "HANDOVER_JOINING" /\ Context(Other(c), t)' = Context(Other(c), t)
    <2>1. now.state = "HANDOVER_LEAVING" => Context(Other(c), t).state = "HANDOVER_JOINING"
        BY <1>1, <1>2, <1>3, <1>4, Rests
    <2> QED BY <1>4, <1>6, <2>1 DEF Becomes
<1>10. RemovalsQuick'
    <2>1. \A k \in Cells : \A q \in Nat : Removal(k, q) # Release
        BY DEF Removal, Release, Cells
    <2>2. SUFFICES ASSUME now.state = "HANDOVER_LEAVING", Alive', Mine'.state = "HANDOVER_JOINING"
          PROVE  First(Other(ueCell))'.type = "NONE"
        BY <1>4, <2>1 DEF RemovalsQuick
    <2>3. Live /\ Mine.state = "HANDOVER_JOINING"
        BY <1>4, <1>6, <2>2, NoneOk DEF Live, Alive, Mine, Becomes
    <2>4. ueCell = Other(c)
        BY <1>1, <1>6, <1>9, <2>2, <2>3 DEF InStep, QueuesOk, JoiningOk
    <2> QED BY <1>4, <1>6, <1>7, <2>4
<1>11. MessagesQuick'
    <2>1. now.state = "HANDOVER_JOINING" => Context(Other(c), s)'.state \in Refusable
        <3>1. now.state = "HANDOVER_JOINING" => Context(Other(c), s).state \in Refusable
            BY <1>2, <1>3, <1>4 DEF QuickInv, JoiningQuick
        <3> QED BY <1>4, <1>6, <3>1 DEF Becomes
    <2>2. SUFFICES ASSUME NEW k \in Cells
          PROVE  /\ First(k)'.type \in {"NONE", "HANDOVER_CANCEL", "PREPARATION_FAILURE"}
                 /\ First(k)'.type = "PREPARATION_FAILURE" =>
                       Context(k, First(k).old)'.state \in Refusable
                 /\ First(k)'.type = "HANDOVER_CANCEL" =>
                       Context(k, First(k).new)'.state \in {"NONE", "HANDOVER_JOINING"}
        BY DEF MessagesQuick
    <2>3. CASE First(k)' = First(k)
        BY <1>6, <2>3
    <2>4. CASE k = Other(c) /\ First(k)' = failure /\ now.state = "HANDOVER_JOINING"
        BY <1>5, <2>1, <2>4
    <2>5. CASE k = Other(c) /\ First(k)' = cancel /\ now.state = "HANDOVER_LEAVING"
        BY <1>5, <1>9, <2>5
    <2> QED BY <1>6, <1>7, <2>3, <2>4, <2>5
<1>12. ~Aborted' /\ LeavingQuick' /\ JoiningQuick' /\ SwitchQuick' /\ AccessQuick'
    <2>1. Context(c, r).state = "HANDOVER_JOINING" => FailureTo(Other(c), s)'
        BY <1>2, <1>5, <1>7 DEF FailureTo
    <2> QED BY <1>1, <1>2, <1>3, <1>4, <1>6, <2>1, GoneQuick
<1>13. /\ Live' => Live
       /\ Mine'.state # "NONE" => Mine' = Mine
       /\ \A q \in Nat : Context(Other(ueCell), q)'.source # 0 => Context(Other(ueCell), q).source # 0
    <2>1. Live' => Live
        BY <1>4, <1>6 DEF Live, Alive
    <2>2. Mine'.state # "NONE" => Mine' = Mine
        BY <1>4, <1>6, NoneOk DEF Mine, Becomes
    <2>3. \A q \in Nat : Context(Other(ueCell), q)'.source # 0 => Context(Other(ueCell), q).source # 0
        BY <1>4, <1>6, NoneOk DEF Becomes
    <2> QED BY <2>1, <2>2, <2>3
<1>14. ServingQuick'
    BY <1>1, <1>4, <1>6, <1>13, Rests DEF ServingQuick, Live, AtHome
<1>15. SourceQuick'
    BY <1>4, <1>13 DEF QuickInv, SourceQuick
<1> QED BY <1>8, <1>10, <1>11, <1>12, <1>14, <1>15 DEF QuickInv

-----------------------------------------------------------------------------
(* What holds with quick links, from Init on.                              *)

\* The backhaul is fixed by the configuration.
LEMMA Configured ==
    ASSUME [Next]_vars
    PROVE  quickBackhaul' = quickBackhaul
<1>1. CASE UNCHANGED vars
    BY <1>1 DEF vars
<1> SUFFICES ASSUME Next PROVE quickBackhaul' = quickBackhaul
    BY <1>1
<1>2. CASE \E c \in Cells : \E r \in DOMAIN contexts[c] :
              \/ TriggerHandover(c, r)
              \/ ScheduleRrcConnectionReconfiguration(c, r)
              \/ SendData(c, r)
    BY <1>2 DEF TriggerHandover, ScheduleRrcConnectionReconfiguration, SendData
<1>3. CASE \E c \in Cells : ArriveX2(c)
    <2>1. \A c, type, answers : RecvX2(c, type, answers) => quickBackhaul' = quickBackhaul
        BY DEF RecvX2
    <2> QED BY <1>3, <2>1 DEF ArriveX2, RecvHandoverRequest, RecvHandoverRequestAck,
                RecvHandoverPreparationFailure, RecvUeContextRelease, RecvHandoverCancel, RecvUeData
<1>4. CASE ArriveS1
    BY <1>4 DEF ArriveS1, PathSwitchRequestAcknowledge, Bounds
<1>5. CASE ArriveAir
    <2>1. \A sent : EnbTo(sent) => quickBackhaul' = quickBackhaul
        BY DEF EnbTo
    <2>2. \A next, consumed, sent : UeTo(next, consumed, sent) => quickBackhaul' = quickBackhaul
        BY DEF UeTo
    <2> QED BY <1>5, <2>1, <2>2 DEF ArriveAir, ArriveCommand, ArriveReconfiguration,
                ArriveRaResponse, ArriveCompleted, RecvPreamble
<1>6. CASE ArriveIdeal \/ ExpireTimers
    BY <1>6 DEF ArriveIdeal, RecvRrcConnectionRelease, RecvIdealUeContextRemoveRequest, UeTo,
                EnbTo, ExpireTimers, ExpireTimer
<1>7. CASE RaResponseTimeout \/ RadioLinkFailureDetected \/ Lose \/ DropUnsent
    BY <1>7 DEF RaResponseTimeout, RadioLinkFailureDetected, Lose, DropUnsent, UeTo, EnbTo
<1> QED BY <1>2, <1>3, <1>4, <1>5, <1>6, <1>7 DEF Next

LEMMA StutteringQuick ==
    ASSUME ~Aborted, QuickInv, UNCHANGED vars
    PROVE  ~Aborted' /\ QuickInv'
<1>1. UNCHANGED <<ue, ueCell, contexts, ideal, x2, pathSwitches>>
    BY DEF vars
<1>2. ~Aborted'
    BY <1>1 DEF Aborted
<1>3. QueuesQuick' /\ RemovalsQuick' /\ MessagesQuick'
    <2>1. QueuesQuick' /\ RemovalsQuick'
        BY <1>1 DEF QuickInv, QueuesQuick, RemovalsQuick, First, At, Alive, Mine, Context, Has
    <2>2. MessagesQuick'
        BY <1>1 DEF QuickInv, MessagesQuick, First, At, Alive, Mine, Context, Has
    <2> QED BY <2>1, <2>2
<1>4. SwitchQuick' /\ LeavingQuick' /\ JoiningQuick'
    <2>1. SwitchQuick' /\ LeavingQuick'
        BY <1>1 DEF QuickInv, SwitchQuick, LeavingQuick, FailureTo, ReleaseTo, First, At, Context,
                    Has
    <2>2. JoiningQuick'
        BY <1>1 DEF QuickInv, JoiningQuick, Context, Has
    <2> QED BY <2>1, <2>2
<1>5. ServingQuick' /\ SourceQuick' /\ AccessQuick'
    BY <1>1 DEF QuickInv, ServingQuick, SourceQuick, AccessQuick, ReleaseTo, First, At, Live,
                Alive, Mine, Context, Has
<1> QED BY <1>2, <1>3, <1>4, <1>5 DEF QuickInv

\* The initial states, every step, and the invariant.
LEMMA InitiallyQuick == Init => ~Aborted /\ QuickInv
<1> SUFFICES ASSUME Init PROVE ~Aborted /\ QuickInv
    OBVIOUS
<1> DEFINE served == [Enb!InitContext EXCEPT !.state = "CONNECTED_NORMALLY", !.timers = {}]
<1>1. ue.rrc = "CONNECTED_NORMALLY"
    BY DEF Init, Ue!InitUe
<1>2. served.state = "CONNECTED_NORMALLY" /\ served.source = 0
    BY NewContexts DEF Contexts
<1>3. /\ ueCell = 1 /\ ideal = {} /\ pathSwitches = {} /\ Cells = {1, 2}
      /\ x2 = [cell \in Cells |-> <<>>]
      /\ contexts = [cell \in Cells |-> IF cell = 1 THEN <<served>> ELSE <<>>]
    BY DEF Init, Cells
<1> HIDE DEF served
<1>4. /\ \A k \in Cells : \A r \in Nat :
            Context(k, r) = IF k = 1 /\ r = 1 THEN served ELSE NoContext
      /\ \A k \in Cells : \A r \in DOMAIN contexts[k] : contexts[k][r] = served
    BY <1>3 DEF Context, Has
<1>5. \A k \in Cells : /\ \A i \in Places : At(k, i) = NoMessage
                       /\ First(k).type = "NONE"
    BY <1>3 DEF At, First, NoMessage
<1>6. \A k \in Cells : \A r \in Nat :
         Context(k, r).source = 0 /\ Context(k, r).state \in {"NONE", "CONNECTED_NORMALLY"}
    BY <1>2, <1>4, NoneOk
<1>7. ~Aborted
    BY <1>1, <1>2, <1>4 DEF Aborted
<1>8. QueuesQuick /\ RemovalsQuick /\ MessagesQuick
    BY <1>3, <1>5 DEF QueuesQuick, RemovalsQuick, MessagesQuick
<1>9. SwitchQuick /\ LeavingQuick /\ JoiningQuick /\ AccessQuick
    BY <1>3, <1>6 DEF SwitchQuick, LeavingQuick, JoiningQuick, AccessQuick
<1>10. ServingQuick /\ SourceQuick
    BY <1>3, <1>6, Others DEF ServingQuick, SourceQuick
<1> QED BY <1>7, <1>8, <1>9, <1>10 DEF QuickInv

LEMMA NextQuick ==
    ASSUME HandoverInv, ~Aborted, QuickInv, NoDelay, [Next]_vars
    PROVE  ~Aborted' /\ QuickInv'
<1>1. CASE UNCHANGED vars
    BY <1>1, StutteringQuick
<1> SUFFICES ASSUME Next PROVE ~Aborted' /\ QuickInv'
    BY <1>1
<1>3. CASE \E c \in Cells : \E r \in DOMAIN contexts[c] : TriggerHandover(c, r)
    BY <1>3, TriggerQuick
<1>4. CASE \E c \in Cells : \E r \in DOMAIN contexts[c] :
              ScheduleRrcConnectionReconfiguration(c, r)
    BY <1>4, ScheduleQuick
<1>5. CASE \E c \in Cells : \E r \in DOMAIN contexts[c] : SendData(c, r)
    BY <1>5, ForwardQuick
<1>6. CASE \E c \in Cells : ArriveX2(c)
    BY <1>6, RequestQuick, AckQuick, FailureQuick, ForgetQuick, CancelQuick, DataQuick DEF ArriveX2
<1>7. CASE ArriveS1
    BY <1>7, PathSwitchQuick DEF ArriveS1
<1>8. CASE ArriveAir
    BY <1>8, CommandQuick, ReconfigurationQuick, ResponseQuick, CompletedQuick, PreambleQuick
    DEF ArriveAir
<1>9. CASE ArriveIdeal
    BY <1>9, ReleaseQuick, RemoveQuick DEF ArriveIdeal
<1>10. CASE RaResponseTimeout \/ RadioLinkFailureDetected \/ Lose \/ DropUnsent
    BY <1>10, TimeoutQuick, FadeQuick
<1>11. CASE ExpireTimers
    BY <1>11, ExpireQuick DEF ExpireTimers
<1> QED BY <1>3, <1>4, <1>5, <1>6, <1>7, <1>8, <1>9, <1>10, <1>11 DEF Next

LEMMA QuickBackhaul == Spec => []QuickBackhaulInv
<1>1. Init => QuickBackhaulInv
    BY InitiallyQuick DEF QuickBackhaulInv
<1>2. HandoverInv /\ QuickBackhaulInv /\ [Next]_vars => QuickBackhaulInv'
    <2>1. ASSUME HandoverInv, QuickBackhaulInv, [Next]_vars, NoDelay'
          PROVE  ~Aborted' /\ QuickInv'
        <3>1. NoDelay
            BY <2>1, Configured DEF NoDelay
        <3> QED BY <2>1, <3>1, NextQuick DEF QuickBackhaulInv
    <2> QED BY <2>1 DEF QuickBackhaulInv
<1> QED BY <1>1, <1>2, Invariant, PTL DEF Spec

\* With quick links no handler of UE or eNBs, no timer and no request finds
\* what its NS_FATAL_ERROR or its assertion says it never finds, however many
\* handovers are asked for and whatever is lost, refused or too late.
THEOREM NoneAborts == Spec => []NeverAborts
<1>1. QuickBackhaulInv => NeverAborts
    BY Zenon DEF QuickBackhaulInv, NeverAborts, NoDelay
<1> QED BY <1>1, QuickBackhaul, PTL

-----------------------------------------------------------------------------
(* What the cells know of the UE.                                          *)

\* The parts of CellsAgree, each from the invariants.
LEMMA ServedOwned ==
    ASSUME TypeOK, InStep
    PROVE  ServingIsOwned
<1> SUFFICES ASSUME NEW c \in Cells, NEW r \in DOMAIN contexts[c],
                    contexts[c][r].state \in Serving
             PROVE  \/ Ue!Connected(ue) /\ ueCell = c /\ ue.rnti = r
                    \/ Removal(c, r) \in ideal
    BY DEF ServingIsOwned, Serving
<1>1. r \in Nat /\ Context(c, r) = contexts[c][r]
    BY DEF TypeOK, Context, Has
<1> QED BY <1>1 DEF InStep, RadioOk, OwnedOk, UeAt, Ue!Connected

LEMMA LostTold ==
    ASSUME TypeOK, InStep
    PROVE  LostIsTold
<1> SUFFICES ASSUME Alive, ~Has(ueCell, ue.rnti)
             PROVE  \/ Release \in ideal
                    \/ \E i \in DOMAIN x2[Other(ueCell)] :
                          LET m == x2[Other(ueCell)][i]
                          IN  /\ m.type = "PREPARATION_FAILURE"
                              /\ Has(Other(ueCell), m.old)
                              /\ contexts[Other(ueCell)][m.old].state = "HANDOVER_LEAVING"
    BY DEF LostIsTold, Alive
<1>1. ueCell \in Cells /\ Other(ueCell) \in Cells
    BY Others DEF TypeOK
<1>2. Lost
    BY DEF Lost, Mine, Context, NoContext
<1>3. CASE Release \in ideal
    BY <1>3
<1>4. CASE \E j \in Places : LET m == At(Other(ueCell), j)
                             IN  /\ m.type = "PREPARATION_FAILURE"
                                 /\ Context(Other(ueCell), m.old).state = "HANDOVER_LEAVING"
    <2>1. PICK j \in Places : /\ At(Other(ueCell), j).type = "PREPARATION_FAILURE"
                              /\ Context(Other(ueCell), At(Other(ueCell), j).old).state =
                                    "HANDOVER_LEAVING"
        BY <1>4
    <2>2. j \in DOMAIN x2[Other(ueCell)] /\ At(Other(ueCell), j) = x2[Other(ueCell)][j]
        BY <1>1, <2>1 DEF At, NoMessage
    <2>3. PICK o : o = x2[Other(ueCell)][j].old
        OBVIOUS
    <2>4. Has(Other(ueCell), o) /\ contexts[Other(ueCell)][o].state = "HANDOVER_LEAVING"
        BY <2>1, <2>2, <2>3 DEF Context, NoContext
    <2> QED BY <2>1, <2>2, <2>3, <2>4
<1> QED BY <1>2, <1>3, <1>4 DEF InStep, RadioOk, LostOk

LEMMA CellKnows ==
    ASSUME TypeOK, InStep, ~Aborted, QuickBackhaulInv
    PROVE  CellKnowsUe
<1>1. ueCell \in Cells /\ ue.rnti \in Nat
    BY DEF TypeOK, UeStates
<1>2. /\ Has(ueCell, ue.rnti) => Mine = contexts[ueCell][ue.rnti]
      /\ Has(ueCell, ue.rnti) => Mine.state # "NONE"
    BY <1>1, ContextTypes DEF Mine
<1>3. ASSUME NEW type \in AirTypes \ {"COMMAND"}, Sent(type, ueCell, ue.rnti), NEW types, type \in types
      PROVE  UnderWay(types)
    <2>1. /\ Message(type, ueCell, ue.rnti).type = type
          /\ IsForUe(Message(type, ueCell, ue.rnti))
        BY DEF Message, IsForUe
    <2> QED BY <1>3, <2>1 DEF UnderWay, Sent
<1>4. ASSUME NEW n \in Nat, Commanded(ueCell, ue.rnti, n)
      PROVE  UnderWay({"COMMAND"})
    <2>1. /\ Command(ueCell, ue.rnti, n).type = "COMMAND"
          /\ IsForUe(Command(ueCell, ue.rnti, n))
        BY DEF Command, Message, IsForUe
    <2> QED BY <1>4, <2>1 DEF UnderWay, Commanded
<1>5. ASSUME ue.rrc = "CONNECTED_NORMALLY", Mine.state = "INITIAL_RANDOM_ACCESS"
      PROVE  ~quickBackhaul
    <2>1. ~QuickInv
        BY <1>1, <1>5 DEF QuickInv, AccessQuick, Mine, Alive
    <2> QED BY <2>1, Zenon DEF QuickBackhaulInv, NoDelay
<1>6. ASSUME ue.rrc = "CONNECTED_NORMALLY", Has(ueCell, ue.rnti)
      PROVE  \/ Mine.state \in {"CONNECTED_NORMALLY", "HANDOVER_PREPARATION",
                                "HANDOVER_PATH_SWITCH"}
             \/ /\ Mine.state = "CONNECTION_RECONFIGURATION"
                /\ UnderWay({"RECONFIGURATION", "RECONFIGURATION_COMPLETED"})
             \/ Mine.state = "HANDOVER_LEAVING" /\ UnderWay({"COMMAND"})
             \/ Mine.state = "HANDOVER_JOINING" /\ UnderWay({"RECONFIGURATION_COMPLETED"})
             \/ Mine.state = "INITIAL_RANDOM_ACCESS"
    <2>1. Sent("RECONFIGURATION", ueCell, ue.rnti) =>
             UnderWay({"RECONFIGURATION", "RECONFIGURATION_COMPLETED"})
        BY <1>3 DEF AirTypes
    <2>2. Sent("RECONFIGURATION_COMPLETED", ueCell, ue.rnti) =>
             /\ UnderWay({"RECONFIGURATION", "RECONFIGURATION_COMPLETED"})
             /\ UnderWay({"RECONFIGURATION_COMPLETED"})
        BY <1>3 DEF AirTypes
    <2> QED BY <1>2, <1>4, <1>6, <2>1, <2>2 DEF InStep, RadioOk, KnownOk
<1>7. ue.rrc = "CONNECTED_HANDOVER" /\ Has(ueCell, ue.rnti) => Mine.state = "HANDOVER_JOINING"
    BY <1>2 DEF InStep, RadioOk, KnownOk
<1>8. Ue!Connected(ue) => ue.rrc = "CONNECTED_NORMALLY"
    BY DEF Ue!Connected
<1> QED BY <1>2, <1>5, <1>6, <1>7, <1>8 DEF CellKnowsUe

\* However handovers, reconfigurations, timeouts, losses and failures follow
\* each other, over quick and slow links: the context a UE has in its cell is in
\* a state the UE's own state explains, a UE whose context is gone is about to
\* be told, and no cell serves a UE that is not there.
THEOREM CellsKnow == Spec => []CellsAgree
<1>1. HandoverInv /\ QuickBackhaulInv => CellsAgree
    BY ServedOwned, LostTold, CellKnows DEF HandoverInv, CellsAgree
<1> QED BY <1>1, Invariant, QuickBackhaul, PTL

================================================================================
