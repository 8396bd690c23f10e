# Verification of the V2X sidelink simulator

The repository is a fork of ns-3 that simulates vehicle-to-vehicle video over the NR sidelink
(PC5) out of coverage. Applications on two UEs exchange UDP packets of up to 28 000 bytes;
the path they take, and what this project is about, is

    application - IP - EpcUeNas::Send - LteUeRrc - LtePdcp - LteRlcUm - (NR MAC and PHY)

and the same upwards on the other UE. The NR MAC and PHY (5G-LENA, `contrib/nr`) are a
submodule whose contents are not in the repository, so they are an environment here. The part
that carries the program's own protocol logic, that the authors extended for the sidelink, and
on which every result of the simulator depends, is the RLC UM entity
(`src/lte/model/lte-rlc-um.cc`): it segments, numbers, reorders, reassembles and reports.
The project starts there and goes on to the parts of the same stack that the repository changes or that
everything runs on: RLC AM, the connection of a UE to an eNB and its handover to another, and the event scheduler.

## 1. Inventory

The protocol code runs in one thread: the event scheduler (`DefaultSimulatorImpl`) takes one event
at a time, so a handler is atomic, and concurrency is the order of events of different UEs,
timers and channels. Every action of the protocol models is one event. The scheduler itself is shared
with other threads, which hand in events; its model has an action per critical section.

| Component | State | Operations | Interacts with | What makes it correct |
|---|---|---|---|---|
| Sequence numbers `lte-rlc-sequence-number.h` | value, modulus base | assignment, `+ - ++`, comparisons | RLC UM | comparisons agree with distance from the base |
| RLC UM transmitter `lte-rlc-um.cc` | transmission buffer with status tags, its size, next number, report timer | SDU from PDCP, MAC opportunity, timer, report | PDCP (call), MAC (call) | no byte lost, repeated or over the grant; framing true; MAC informed |
| RLC UM receiver, reordering | VR(UR), VR(UX), VR(UH), reception buffer, t-Reordering | PDU, expiry | MAC (call), reassembly | window order, in-order release, nothing stranded |
| RLC UM receiver, reassembly | expected number, state, kept S0, SDU list | PDU released | PDCP (call) | SDUs whole, in order, at most once |
| NAS and RRC sidelink bearers `epc-ue-nas.cc`, `lte-ue-rrc.cc`, `nr-sl-ue-rrc.cc`, `lte-sl-tft.cc` | pending and activated templates, bearer maps, MAC's channels | activate, send, first reception | application helper, MAC | every channel has a bearer kept; data on the own bearer; no abort |
| PDCP `lte-pdcp.cc` | transmit and receive numbers | SDU, PDU | RRC, RLC | numbers in range |
| RLC AM `lte-rlc-am.cc` | VT(A), VT(S), VR(R), VR(X), VR(MS), VR(H), three buffers, five timers | SDU, PDU, STATUS PDU, opportunity, timers | as UM | windows nest; what is acknowledged was received; every SDU delivered once |
| RLC TM `lte-rlc-tm.cc` | queue | SDU, opportunity | as UM | a PDU never segmented |
| Headers `lte-rlc-header.cc`, `lte-rlc-am-header.cc` | extension bits, length indicators | serialise, parse | RLC | parse inverts serialise |
| UE connection `lte-ue-rrc.cc`, `epc-ue-nas.cc`, `lte-ue-mac.cc` | state of RRC and NAS, T300, failure counters, RNTI, EPS bearers | cell selection, random access, RRC messages, timers, attach, disconnect | each other (calls), eNB (messages) | UE and eNB agree; no method in a state that does not expect it; connected in the end |
| eNB RRC `lte-enb-rrc.cc` | a UeManager per RNTI, five timers, SRS indices, TEIDs of forwarded data | RRC messages, S1, X2, timers, removal | UE RRC, EPC, other eNBs (X2) | no leak of contexts; UE, source and target of a handover agree |
| Resource pool `nr-sl-comm-resource-pool.cc`, `nr-sl-ue-rrc.cc:165` | bitmaps | slot queries | RRC, MAC, PHY | slots absolute = pattern applied |
| Event scheduler `src/core/model` | event list, queue of other threads, destroy events, clock, uids | schedule, hand in, cancel, remove, run, stop, destroy | everything | time order, FIFO at equal time, EventIds that do not lie |
| Scenario and output `scratch/simulator` | topology, bearers, SQLite tables | build, run, trace callbacks | NAS, applications | bearers before traffic |

Hard behaviour: reordering and repetition by HARQ against a number space that wraps at 1024,
timers against late arrivals, comparisons of numbers whose modulus base is stale, segmentation at
byte boundaries, state that must agree between NAS, RRC and MAC in every order of activation and
first reception, polls and retransmissions crossing acknowledgements, connection attempts whose late
answers meet the next attempt, handovers whose two timeouts race the random access and the path switch, and a flag the scheduler reads without its mutex. `PROJECT.json` lists each hazard at its line. There is no persistence, so no crash recovery.

## 2. Modules

    SequenceNumber10                         arithmetic of class SequenceNumber10
      LteRlcUmReordering                     DoReceiveNrSlRlcPdu, DoReceivePdu, ExpireNrSlReorderingTimer
      LteRlcUmTransmitter                    DoTransmitNrSlPdcpPdu, DoNotifyNrSlTxOpportunity, ExpireNrSlRbsTimer
      LteRlcUmReassembly                     NrSlReassembleAndDeliver, as operators on a record
        LteRlcUmLink                         the three composed, with a channel;  refines  SduPipe
      LteRlcAmTransmitter                    DoTransmitPdcpPdu, DoNotifyTxOpportunity, STATUS PDUs, two timers
      LteRlcAmReceiver                       DoReceivePdu, STATUS PDUs, two timers
        LteRlcAmLink                         both and LteRlcUmReassembly, with a radio;  refines  ReliablePipe
    SduPipe, ReliablePipe                    what the two kinds of bearer promise (abstract)
    NrSlBearers                              EpcUeNas, LteUeRrc, NrSlUeRrc: sidelink bearers
    LteUeConnection                          LteUeRrc, EpcUeNas, LteUeMac, as operators on the state of a UE
    LteEnbConnection                         UeManager of LteEnbRrc, as operators on a context
      LteConnection                          the two composed, with messages, timers and the core
      LteHandover                            a UE and two cells, with X2, path switch, radio and timers
    DefaultSimulatorImpl                     the event scheduler;  refines  EventCalendar
    EventCalendar                            what the scheduler promises (abstract)
    LteRlcUmReordering_proofs, LteRlcUmTransmitter_proofs,
    LteRlcUmLink_proofs, LteRlcAmLink_proofs,
    LteRrc_proofs                            theorems about LteConnection and NrSlBearers
    LteHandoverSteps_proofs                  what each step of LteHandover does
    LteHandover_proofs                       theorems about LteHandover
    DefaultSimulatorImpl_proofs              theorems about the scheduler
    MCReordering, MCTransmitter, MCLink, MCAmLink,
    MCBearers, MCConnection, MCHandover,
    MCSimulator                              instances for TLC

**SequenceNumber10.** A number is a value and a modulus base. The C++ operators compute in `int` and
store in `uint16_t`; `%` of a negative `int` is negative, so a value below its base becomes a large
number (`Rank`). `SnMod` and `WindowSize` stand for 1024 and 512, with `SnMod = 2 * WindowSize`
(the default of the attribute WindowSize; others are not covered). Definitions whose name has a suffix
`_Something` under a comment `Bug:` are deliberately wrong variants, used only to test that the
properties notice.

**LteRlcUmReordering.** The variables are the fields `m_vrUr`, `m_vrUx`, `m_vrUh`, `m_rxBuffer`,
`m_reorderingTimer` (running or not) and `m_firstPduRxed`. A reception is one action: discard or place,
slide the window, release what it leaves, pull VR(UR), advance it, release, set the modulus base, stop
and start the timer, in the code's order. A PDU is any record of the set `Pdu` with a number. The order of the PDUs passed to reassembly is in `released`.
`ChannelType` "DTCH" is the cellular receiver, which differs in not adopting the first number.
`Spec` lets any PDU arrive at any time. `PacedSpec` adds the one condition under which RLC UM can work
at all: the window does not slide over a buffered PDU before t-Reordering fires.

**LteRlcUmTransmitter.** SDUs, buffered pieces and fragments are intervals of the stream of accepted
bytes. The `while` loop over three branches becomes: take pieces from the front until the k-th ends the
PDU (`EndsAt`), cut that one (`Cut`), give the rest back (`GivenBack`) with the tags of the code.
Header sizes are those of `LteRlcHeader::PushExtensionBit`. Grants are any of a set, at any time.

**LteRlcUmReassembly.** The code's table of two states, four framing informations and loss or not
is one formula for the expected number and one for a gap; the branch it logs as impossible is kept.

**LteRlcUmLink.** Two entities and a channel holding the last `env.lag` PDUs, any of which may arrive,
again and again, or never. `env` is the environment of a behaviour, one of `Environments`: SDU sizes and grants, how many SDUs, lag,
reach, lossy or not. Time is counted in PDUs: `env.reach` is how many the sender can send in one t-Reordering.
`KeepsPace` says that `env.lag + 2 * env.reach` is within the window. The timer counts twice, because a PDU that arrives while the
timer runs for an older one waits for that run and then for its own.

**NrSlBearers.** Each UE activates the templates of a plan in order; activation goes NAS, RRC, NAS as one
event. Sending and the MAC's report of an unknown logical channel interleave freely. `NS_FATAL_ERROR` and
failed assertions are the state `aborted`. Connected RRC states are out: the scenario attaches no UE.
The RNTI and the configuration fields of the bearers are left out; no guard reads them. The lists of pending and
activated templates are sets: their order decides only which template of one destination is found.

**LteRlcAmTransmitter, LteRlcAmReceiver, LteRlcAmLink.** The fields of `LteRlcAm` split by the side that
writes them, and one direction of a bearer: data one way, STATUS PDUs the other. How bytes are cut into PDUs is the
algorithm of LteRlcUmTransmitter and is not repeated: a PDU carries `PduUnits` units of a stream of SDUs of `SduUnits` units.
`DoNotifyTxOpportunity` is three actions, as its early returns divide it: a STATUS PDU, a retransmission, a new PDU; an
opportunity too small for any of them changes nothing. `m_pollPdu` is 1, as constructed, so every new
PDU polls, whatever `m_pollByte` (50). An RLC AM entity that starts at number 0 and one whose PDUs have all been acknowledged differ in the
numbers only, so `StartSns` starts the run just before the wrap. The radio loses PDUs of both kinds and reorders data; it does not
delay a data PDU past a whole window, nor reorder STATUS PDUs, which t-StatusProhibit keeps apart.
`m_statusPduBufferSize` is left out: it only repeats what `m_statusPduRequested` says.

**LteUeConnection, LteEnbConnection, LteConnection.** RRC, NAS and MAC of a UE call each other before a
handler returns, so the handlers are operators from a record to a record, and `NS_FATAL_ERROR` and failed assertions lead to a
state ABORTED. LteConnection gives each an action and carries the messages of `LteRrcProtocolReal`: those of
bearer 0 can be lost, those of bearer 1 (RLC AM) only delayed, and the UE's request to remove its context comes
about by a call scheduled later, as in the code. One UE with a context for each of its random accesses
stands for all, because UEs meet only in RNTIs and SRS indices. There is no clock: guards marked "Timing" keep the order
that the durations give (connection request timeout 15 ms, rejection 30 ms, T300 100 ms, setup timeout 150 ms, T310 1 s).
`MaxMishaps` bounds losses, refusals, late messages, weak cells, radio link failures, disconnections and reconfigurations together. An EPC
is present, as `LteHelper::Attach` to the strongest cell requires.

**LteHandover.** A connected UE, its contexts in two cells, and what is under way between them: X2 messages in the order sent (UDP over a
point-to-point link), path switch requests, RRC messages, and the calls `ideal`, which RRC_REAL_MSG_DELAY (zero) puts before
everything else. A target context is made by the handover request and found by the preamble; without it the preamble makes a
new one. Handovers go to and fro, as a UE handed over can be handed back. Forwarded data is a message that must find the
TEIDs of a context made while joining. `quickBackhaul` is chosen once: when TRUE, X2 and S1 messages arrive before radio and timers go on, which
is what `NoBackhaulEpcHelper` and `PointToPointEpcHelper` configure by default (links without delay); when FALSE everything interleaves. Guards marked "Timing" are the only other use of durations:
a radio link failure (1 s) does not come before the joining timeout of the cell the UE has just confirmed to. The two
handover timeouts are unordered, as they are attributes. SN STATUS TRANSFER, which the receiver ignores, is left out, and
a UE that leaves connected mode is not followed: LteConnection is. Its fields of that time are those of LteUeConnection.

**DefaultSimulatorImpl.** An action for each call a program, a handler or another thread can make and for each step of `Run`:
looking at `m_eventsWithContextEmpty` without the mutex, swapping the queues under it, inserting what was taken,
running the next event, returning. The list is a set ordered by `Before`, and an entry of EventCalendar has the uid as its turn. `HandIn`, of another thread, interleaves with all of these. Contexts, `Now` and `GetDelayLeft`,
which change nothing, and `SetScheduler` are left out; MapScheduler's order is the one all schedulers keep.

## 3. Runs

| Run | Instance | Shows | Distinct states |
|---|---|---|---|
| reordering_paced | SnMod 16, DTCH | TypeOK, ComparableAtExpiry, WindowOrder, BufferInWindow, NoneStranded, ReleasedInOrder | 15 819 |
| transmitter | SDUs of 1 and 6 bytes, LiMax 4, grants 2-12 | six properties of segmentation, accounting and reports | 17 382 |
| link | SnMod 8, start 4, four environments: split SDUs, a slow, a fast and a lossless sender | PipeSpec, ReassemblyClean; ArrivalsPaced and BufferDrains with the slow sender, AllDelivered without loss | 68 306 |
| bearers | three UEs, one group, TRANSMIT then RECEIVE or BIDIRECTIONAL | ChannelsBacked, SentOnOwnBearer, NoBearerAborts | 2 120 |
| am_link | SnMod 8, start 6, two SDUs of three units in PDUs of two, two PDUs and a STATUS PDU under way, one loss | windows, acknowledgements, polls, reports, ReassembledInSequence, PipeSpec, DeliveredUnlessStranded | 63 233 |
| connection | two failed attempts allowed, each of one preamble; two SRS indices, one bearer, three mishaps | NeverAborts, NasAgrees, SidesAgree, Reclaimed, EventuallyServed | 168 222 |
| handover | three handovers, three mishaps, preambleTransMax 2, both backhauls | NeverAborts, CellsAgree, EventuallySettled | 67 826 |
| simulator | three events, delays 0 and 1 | ExpiryTrue, EachKeptOnce, HandedInIsSeen, CalendarSpec | 79 248 |
| link_outside, bearers_map, am_stuck, am_status | as link (fast), bearers, am_link | the findings below | |

Bounds. The reordering run is unbounded in length: its state space is closed, every wrap of the
numbers included, and the proofs lift it to every modulus, to the sidelink receiver (which the link run has as well) and, for
TypeOK and ComparableAtExpiry, to arrivals without pace. The transmitter's branches depend on the
parity of the length indicators, on the <= 2 threshold and on LiMax: the SDU and grant sizes lie on both
sides of each, and four SDUs give three length indicators. The link's streams are no longer than a
modulus but start just before the wrap, so they cross it; timer, loss, repetition and reordering
occur on both sides, and the streams of whole SDUs are longer than the window. Streams as long as the modulus are not run: see
aliasing under hazards. In am_link three PDUs cross the wrap, the middle one with the end of one SDU and the beginning
of the next, and one loss suffices for a NACK, a retransmission, a lost poll and a lost STATUS PDU. `LateSubmits` is FALSE there, so that
PDCP submits its SDUs before the first PDU is cut; with TRUE, with four PDUs that fill the window (278 093 states), and for the safety
properties with two STATUS PDUs under way (780 000 states) it has been run as well, and the proofs cover all of these.
In connection three mishaps reach two failed attempts in a row (`ConnEstFailCount`) and one more
thing going wrong, a late Setup during the next random access, an orphaned UE, and both SRS indices
taken by contexts left behind; limits of 1 and 3, a second preamble (304 603 states), 1 and 3 SRS indices, and for safety four mishaps (2.8 million states) have
been run as well. In handover three handovers are there, back, and one asked for meanwhile; three mishaps let a refusal or two lost preambles meet forwarded
data or a reconfiguration; four mishaps (130 000 states) and four handovers have been run as well. In simulator three events give two of the same time, one of them handed in, while a
third is cancelled, removed or running; four (1.8 million states) have been run as well.

Fairness. The simulator runs every scheduled event, which is what `TimerFair` (t-Reordering, `lte-rlc-um.cc:1834`), the timers in
`TxFair` and `RxFair` and the timers and calls in LteConnection's `FairSpec` say. `GrantsFair` and the
opportunities in `TxFair` and `RxFair`: the MAC serves reported data. `ArrivalsFair` of the UM link: every PDU arrives in the lossless
environment; in the lossy ones no arrival is promised, so that the last PDUs may all be lost and t-Reordering alone has to empty the reception buffer (BufferDrains).
`Arrive` of RLC AM: a PDU that is not lost arrives. These concern 5G-LENA or the LTE MAC and are assumptions. Within
one entity of RLC AM fairness is weak and of the disjunction, so no event is promised before another.
LteConnection is fair to the broadcast of system information and to `LteHelper::Attach`, which the scenario
calls, and not to losses, refusals, failures or the application. LteHandover is fair to
X2, S1, the radio, the calls scheduled for now and the timers, and not to the handover algorithm, the scheduler or the traffic. The scheduler's run states no fairness: its properties are safety.
The two fairness conditions of the UM receiver are written as `[]<>` of the action instead of WF, because the
actions are always possible while there is something to do.

## 4. Findings

* `lte-rlc-um.cc:1849`, run link_outside: `NrSlReassembleOutsideWindow` walks raw keys, so PDUs above the wrap stay behind the
  window, against the comment at 1747. Such a PDU can also stay in the buffer with no timer running:
  BufferDrains holds only with a paced sender.
* `nr-sl-ue-rrc.cc:303`, run bearers_map: reception bearers go to `m_slDrbMap`, against the comment at `nr-sl-ue-rrc.h:216`.
  With one group and no unicast both ways nothing follows (run bearers). With two groups, or when two UEs
  have unicast bearers to each other, ChannelsBacked fails: the second bearer of a peer is not kept, its RLC
  entity goes with the last reference to it, and the MAC keeps a pointer to its SAP.
* `lte-rlc-am.cc:1748`, run am_stuck: a t-PollRetransmit that expires while PDUs wait to be sent again, which a STATUS PDU
  then acknowledges, leaves a lost last PDU in `m_txedBuffer` with nothing to send it. `Stranded` names that state;
  from every other state delivery follows (DeliveredUnlessStranded).
* `lte-rlc-am-header.cc:217`, run am_status: the parity of the bytes asked for one more NACK is swapped, and a STATUS PDU can be a byte
  longer than its opportunity.

Met while modelling and without a run of their own:

* `lte-rlc-um.cc:1785` (and `:570`): the search for the next VR(UR) is not reduced modulo 1024, so VR(UR)
  stops at 0 although 0 was received, against the comment at 1772. The cost is a delayed delivery, not a loss.
* `lte-ue-rrc.cc:3200` and the note at `lte-design.rst:2901` take it that the context is gone at the eNB when T300 expires. After an accepted
  request whose answer was lost it is in CONNECTION_SETUP for 50 ms more. `Reclaimed` shows that the setup timeout removes it.
* The setup timeout is 100 ms in the table of `lte-design.rst` and 150 ms in `lte-enb-rrc.cc:1983`.
* `Orphaned`: when it expires with the confirmation of the UE under way, the UE stays connected to nothing. `Crowded`: `EpcUeNas::Disconnect`
  (`epc-ue-nas.cc:175`) tells the eNB nothing, so the context keeps its SRS index; when all are taken no preamble is answered.
* `Leaked`: `DoRecvHandoverCancel` (`lte-enb-rrc.cc:3099`) tells the core, stops the joining timer and leaves the context, although the help of
  HandoverJoiningTimeoutDuration (1993) has it destroyed. If the UE never received its command, nothing removes it: RNTI, SRS index and preamble are lost.
  It takes a leaving timeout shorter than the joining timeout; the defaults are 500 and 200 ms.
* The comment at `lte-enb-rrc.cc:2887` says the source releases the UE when the target has no preamble; in HANDOVER_PREPARATION
  it goes back to CONNECTED_NORMALLY (1050), as for any refusal.
* With a slow backhaul NeverAborts fails in ways the quick one excludes: a HANDOVER REQUEST ACK for a context removed meanwhile (2963), a HANDOVER CANCEL that finds
  PATH_SWITCH (1098), a reconfiguration during PATH_SWITCH (651), forwarded data after the target's context is gone (3077), a confirmation to a
  context that a late preamble made (1297). Up to such an abort CellsAgree still holds, but that a UE may then have
  confirmed to a context in INITIAL_RANDOM_ACCESS.
* An event handed in after Run's last look stays in the queue when Run returns (`default-simulator-impl.cc:195`).

## 5. Proofs

All proofs are checked by TLAPS, for every value of the constants that satisfies the assumptions of the module (`SnAssumption`, `ChannelAssumption`,
`PduAssumption`, `TxAssumption`, `LinkAssumption`, `AmLinkAssumption`, `ConnectionAssumption`, `BearerAssumption`, `SimulatorAssumption`). These say
what is a number, and: the window is half the modulus and at least 2, and the modulus at most 32768, so that `uint16_t` ranks are distinct; at most eleven EPS bearers, as
`EpcUeNas` asserts; uids do not wrap within a run. Everything else, such as how many SDUs, losses, contexts, UEs, grants or events there are, is free.
Each invariant below was an invariant of a TLC run before it was proved.

`LteRlcUmReordering_proofs`, which begins with facts about sequence numbers (the proofs of the links repeat those they need): `Wrap` and the operators
stay in range; `Rank` compares like the distance above the base (`RankIsDistance`, `Distance`); distances under a moved base (`Rebase`); the
least-number principle, which the handlers' searches need.

* `TypeCorrect`, `Comparable` under `Spec`. `ComparableAtExpiry` alone is not inductive: a discarded PDU moves
  the base of VR(UR) and VR(UH) but not that of VR(UX). The invariant adds `BasesMatch`: while the timer runs, all three
  carry the base of the window. A discard does not move the window, so it keeps this.
* `WindowOrdered`, `BufferInside`, `NothingStranded` under `PacedSpec`, from the inductive invariant `PacedInv`: types,
  matching bases, every buffered PDU at or above VR(UR) and below VR(UH), the timer's number between them, and nothing buffered
  before the first sidelink PDU. Each handler is split as in the code: sliding (`SlidAbove`), advancing (`AdvancedAbove`),
  releasing (`TakenAbove`), timer (`TimerRules`). `SlidAbove` needs a window of at least 2: with a window of 1, a PDU a whole window ahead
  would leave VR(UR) at the same number.
* The last section says for the link what the timer waits for after each handler (`TimerFollows`, `ReceiveRearms`, `ExpireRearms`): it runs on for the same number, or
  it is started for everything received so far, and then what stays buffered was at or above the number waited for before.

`LteRlcUmTransmitter_proofs`:

* `Informed`: `MacInformed` is inductive by itself. An SDU cancels the timer but reports exactly (`TransmitInforms`), what an opportunity leaves
  starts the timer (`OpportunityInforms`), and the timer runs on while data waits (`ExpiryInforms`).
* `Typed`, `BufferAccounted`, `SegmentsTold`, from `TxInv`: types, `Accounting`, `SegmentsTrue`, and three facts that make them inductive: the
  buffer holds a piece of each of the last SDUs accepted, and only the first may be a rest (`BufferedInOrder`); their bytes lie one behind the other (`BytesInOrder`); the last PDU
  is of accepted SDUs (`PduOfAccepted`).
* `HeadTaken`, `Filled`, `Drained` are action properties: what one opportunity takes, leaves unused, and takes when it is as large as the report: every piece
  whole, and all of them unless one above LiMax (2047 bytes; the scenario's SDUs have 28 000) ends the PDU before the others, which then wait for the next report.

`LteRlcUmLink_proofs` puts the two together and discharges what the receiver's proofs suppose.

* `SenderImplements`, `ReceiverImplements`: each half of the link is a behaviour of its own specification, so the theorems above hold of every bearer.
* `ArrivalsArePaced`, `ReceiverPaced`, `KeptAreReleased`: pace is a consequence of the environment, not an assumption. `LinkInv` adds
  to `TxInv` that the PDUs under way are numbered without a gap up to the next number, and bounds the age of each buffered PDU, the PDUs sent since (`Behind`), by
  `lag` and the PDUs sent since the timer was started if it lies at or above VR(UX), and by `reach` more below, where it has waited for an earlier run (`KeptYoung`).
  With at most `reach` PDUs in one run, under `KeepsPace` that is within the window.
  With the timer counted once the invariant is false: TLC finds the PDU (window 9, lag and reach 3).
  The lemmas `Same...` translate between the instances the link runs and those the proofs are about.

`LteRlcAmLink_proofs`: `Typed`, `Nested`, `AckedReceived`, `NackedKept`, `PollsCovered`, `Reported` from `AmInv` = types and

* `Shared`: every number is placed by its distance above VT(A). `Windows` nests the two sides' variables; `Buffered` and `Kept` say which
  numbers are in the three buffers; `NoneForgotten` that an unacknowledged number is kept by its receiver or its sender, `OnAirOnly` that data under way
  lies between them, and `StatusesTrue` that a STATUS PDU under way, however old, acknowledges only what its receiver had then and misses only what the sender has;
* `Polled` and `BacklogReported`: which timers run.

TLC has checked `AmInv` on more than 1.8 million states of a larger instance (SnMod 4, three data PDUs and two STATUS PDUs under way, two losses, late submits).

`LteRrc_proofs`, of the connection: `Typed`, `NoneAborts`, `NasKnows`, `SidesKnow` from `ConnInv`. Besides types: one message of a connection is under way at a time, and its context (`InStep`) and the UE (`UeInStep`) are in the state it is about; the core is asked about the
contexts that wait for it (`CoreInStep`); a confirmation, and a context past its setup, is that of the connected UE unless its removal has been asked for or the application has left it
(`ConfirmedIsOwned`, `EstablishedIsOwned`); and a connected UE's context knows it or is about to (`ContextKnowsUe`). Each operator on a UE or a context has a lemma saying what it
returns. TLC has checked it on 534 045 states of an instance with two contexts, two bearers and three mishaps.

`LteRrc_proofs`, of the sidelink bearers, which share no variable with the connection: `ChannelsAreBacked`, `SentOnOwn`, `NoneCollides` under `GroupOfItsOwn`, the bearers of `scratch/simulator/main.cc`: the templates of
a UE concern one group, and the first, and only that, transmits. Without it, with two groups or unicast both ways, `ChannelsBacked`
is false (findings). `BearersInv`: a UE has activated nothing and been heard by nobody (`Fresh`), or its first template (`Joined`); it has reception bearers for
UEs it heard (`HeardOnly`); every channel has a bearer.

`LteHandoverSteps_proofs`, `LteHandover_proofs`: `Typed`, `Invariant`, `CellsKnow`, `NoneAborts`, for any number of handovers and mishaps. The first module says
what each step does to contexts (`Becomes`), queues (`Put`, `Taken`) and messages on air, and what that leaves true; the second that every step preserves the
invariants. TLC has checked both, with the definitions of these modules, on the 67 826 states of the run and on 392 023 states with four handovers and five mishaps.

* `HandoverInv`, over both backhauls: types; every RNTI named by a context, a message or the UE has been given out (`RefsOk`), so that a new context is named by nobody;
  and, until an abort, `InStep`. Of this `QueuesOk` says for each X2 message what UE, source and target are doing while it is under way and what cannot be behind it in the queue;
  `RadioOk` the same for each message on air, for a UE whose context is gone (`LostOk`), for the context that serves it (`KnownOk`) and for those that do not (`OwnedOk`);
  `OneTeid` that a cell has one context with TEIDs. `CellsAgree` follows from the last three. It is not inductive without the queues: a PREPARATION
  FAILURE of an earlier handover would refuse a later one. `QueuesOk` holds while the UE is connected and no removal is under way (`Live`); once it is not, only
  `AskedOk` is left: a request under way is for no context that will still be served.
* `QuickBackhaulInv`, over the quick one: nothing is aborted and `QuickInv`. It rests on one fact, `QueuesQuick`: each cell has at most one X2 message coming, both have one
  only when a HANDOVER CANCEL crosses another or a PREPARATION FAILURE, and none is under way with a path switch. So a message finds what its sender left: a request a source in preparation, forwarded data a joining context with its TEIDs, a HANDOVER CANCEL a context still
  joining, a release a leaving one (`MessagesQuick`, `LeavingQuick`); a removal finds a context it may remove (`RemovalsQuick`), and a confirmation one that expects it (`AccessQuick`). Each
  assertion of the handlers is then one lemma (`...Quick`).

`DefaultSimulatorImpl_proofs`: `Typed`, `ExpiryTold`, `KeptOnce`, `HandedInSeen` from `SimInv`: an event is in one of the five places (`EachInOnePlace`), uids
do not wrap (`UidsCounted`), neither a uid nor an event is used twice (`IdsTrue`), nothing listed lies before the clock and every later event of an EventId is listed or cancelled
(`ClockTrue`), and `HandedInIsSeen`. `CalendarImplemented`, the
refinement of EventCalendar, maps each action to one of the calendar or to none: an insertion enters (`EntersAgenda`), `Cancel` and `Remove` strike off, `ProcessOneEvent` invokes
or, for a cancelled event, lets time pass.

Only model-checked:

* Liveness and everything that rests on fairness, which TLAPS does not reach: `BufferDrains`, `AllDelivered`, `DeliveredUnlessStranded`, `Reclaimed`,
  `EventuallyServed`, `EventuallySettled`.
* `ReleasedInOrder` (its walk is a `SelectSeq`), `ReassembledInSequence` and the two refinements `PipeSpec` (reassembly folds over
  the fragments of a PDU): what a recursion over a sequence computes takes induction over data.
* `ReassemblyClean`: it holds of bounded streams only, because numbers alias after a modulus of losses (hazards).

## 6. Open

Every safety invariant the runs check is proved, but for the three named above. For `ReassembledInSequence` what could be proved without induction over data
is the step of one released PDU of one fragment. `ReassemblyClean` would need an environment that bounds the losses in a row by the modulus, which
nothing in the repository does. If the cellular transmission of RLC UM is changed to differ from the sidelink's, it needs a module of its own.

## 7. Not modelled

* The cellular transmission of RLC UM (`lte-rlc-um.cc:112-451`) is the sidelink's algorithm with a PDCP discard in front that
  only traces. PDCP adds a number nobody orders by; RLC TM is a queue of whole PDUs. The bit layout of headers is
  left to round trip tests; header sizes are modelled where they decide something.
* Handover between carriers of one eNB, load and resource status on X2, RRC re-establishment (whose messages the real protocol sends but no code triggers),
  measurement reports and the algorithms that trigger handovers (any time in LteHandover), carrier aggregation, closed subscriber groups, SRS periodicity and the counting of out-of-sync indications.
* The resource pool: stateless slot arithmetic for the MAC of `contrib/nr`, whose contents are not in the repository, like
  the NR MAC and PHY themselves.
* Scenario and output (`scratch/simulator`): it builds a topology and writes traces; its bearers are the instance of NrSlBearers.
* Channel models, error models and statistics (floating point and tables), the Python plots, the ns-3 modules the
  scenario does not exercise (`lr-wpan`, `dsr`, `olsr`, TCP and most of the 778 000 lines), generated and vendored code.
