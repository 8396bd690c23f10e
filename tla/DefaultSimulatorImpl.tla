----------------------- MODULE DefaultSimulatorImpl -----------------------
(***************************************************************************)
(* The event scheduler: DefaultSimulatorImpl over MapScheduler.  The main  *)
(* thread runs the program, Run and the handlers; other threads hand in    *)
(* events under a mutex, and the main thread looks for them after every    *)
(* event, reading m_eventsWithContextEmpty without the mutex.              *)
(*                                                                         *)
(* An EventImpl is the number of its creation.  Of an event's context only *)
(* its being carried along is known to the code: it is left out.           *)
(***************************************************************************)
EXTENDS Integers, Sequences, FiniteSets
SeqExt == INSTANCE SequencesExt

CONSTANTS Delays,     \* delays events are scheduled with
          MaxEvents,  \* bound: events created in a behaviour
          UidMod      \* 2^32: values of m_uid

\* m_uid does not wrap round: beyond 2^32 - 4 events uids repeat, and one of
\* them is taken for that of a destroy event.
ASSUME SimulatorAssumption ==
    /\ Delays \subseteq Nat
    /\ {MaxEvents, UidMod} \subseteq Nat
    /\ MaxEvents + 4 < UidMod

VARIABLES
    m_events,                 \* the event list: [impl, ts, uid]
    m_eventsWithContext,      \* from other threads: [impl, timestamp]
    m_eventsWithContextEmpty,
    m_destroyEvents,          \* EventIds, the first to run first
    m_stop, m_uid, m_currentTs, m_currentUid, m_unscheduledEvents,
    m_cancel,                 \* EventImpls whose m_cancel is set
    taken,                    \* eventsWithContext of ProcessEventsWithContext
    pc,                       \* what the main thread does
    created,                  \* EventImpls created
    ids,                      \* EventIds handed out to the program
    invoked,                  \* history: events of the list invoked, in order
    gone                      \* history: EventImpls no longer kept

list    == <<m_events, m_uid, m_unscheduledEvents>>
queue   == <<m_eventsWithContext, m_eventsWithContextEmpty>>
clock   == <<m_currentTs, m_currentUid>>
program == <<created, ids>>
history == <<invoked, gone>>

vars == <<list, queue, m_destroyEvents, m_stop, clock, m_cancel, taken, pc, program, history>>

INVALID == 0
DESTROY == 2
VALID   == 4

Init == /\ m_events = {}
        /\ m_eventsWithContext = <<>>
        /\ m_eventsWithContextEmpty = TRUE
        /\ m_destroyEvents = <<>>
        /\ m_stop = FALSE
        /\ m_uid = VALID
        /\ m_currentTs = 0
        /\ m_currentUid = INVALID
        /\ m_unscheduledEvents = 0
        /\ m_cancel = {}
        /\ taken = <<>>
        /\ pc = "program"
        /\ created = 0
        /\ ids = {}
        /\ invoked = <<>>
        /\ gone = {}

\* Bug: equal times are not ordered by uid.
Before_TimeOnly(a, b) == a.ts <= b.ts

\* operator< of Scheduler::EventKey, the order of MapScheduler.
Before(a, b) == a.ts < b.ts \/ (a.ts = b.ts /\ a.uid < b.uid)

Destroying == SeqExt!ToSet(m_destroyEvents)

\* Bug: the uid is not compared, so an event of the current time is expired.
IsExpired_TimeOnly(id) ==
    id.ts <= m_currentTs \/ id.impl \in m_cancel

\* Whether the id's event is past, running or cancelled.
IsExpired(id) ==
    IF id.uid = DESTROY
    THEN id.impl \in m_cancel \/ id \notin Destroying
    ELSE \/ id.ts < m_currentTs
         \/ id.ts = m_currentTs /\ id.uid <= m_currentUid
         \/ id.impl \in m_cancel

-----------------------------------------------------------------------------
(* What the program and its handlers call, on the main thread.             *)

Calling == pc \in {"program", "handler", "destroy"}

NextUid == (m_uid + 1) % UidMod

Insert(impl, delay) ==
    /\ m_events' = m_events \cup {[impl |-> impl, ts |-> m_currentTs + delay, uid |-> m_uid]}
    /\ m_uid' = NextUid
    /\ m_unscheduledEvents' = m_unscheduledEvents + 1

\* ScheduleNow is Schedule(0); the caller keeps the id.
Schedule(delay) ==
    /\ Calling /\ created < MaxEvents
    /\ created' = created + 1
    /\ Insert(created', delay)
    /\ ids' = ids \cup {[impl |-> created', ts |-> m_currentTs + delay, uid |-> m_uid]}
    /\ UNCHANGED <<queue, m_destroyEvents, m_stop, clock, m_cancel, taken, pc,
                   history>>

\* ScheduleWithContext from the main thread returns no id.
ScheduleWithContext(delay) ==
    /\ Calling /\ created < MaxEvents
    /\ created' = created + 1
    /\ Insert(created', delay)
    /\ UNCHANGED <<queue, m_destroyEvents, m_stop, clock, m_cancel, taken, pc,
                   ids, history>>

ScheduleDestroy ==
    /\ Calling /\ created < MaxEvents
    /\ created' = created + 1
    /\ LET id == [impl |-> created', ts |-> m_currentTs, uid |-> DESTROY]
       IN  /\ m_destroyEvents' = Append(m_destroyEvents, id)
           /\ ids' = ids \cup {id}
    /\ m_uid' = NextUid
    /\ UNCHANGED <<m_events, m_unscheduledEvents, queue, m_stop, clock,
                   m_cancel, taken, pc, history>>

Cancel(id) ==
    /\ Calling
    /\ ~IsExpired(id)
    /\ m_cancel' = m_cancel \cup {id.impl}
    /\ UNCHANGED <<list, queue, m_destroyEvents, m_stop, clock, taken, pc,
                   program, history>>

\* It erases the first that is equal to the id.
RemoveDestroyEvent(id) ==
    /\ \E i \in DOMAIN m_destroyEvents :
          /\ m_destroyEvents[i] = id
          /\ \A j \in 1 .. i - 1 : m_destroyEvents[j] # id
          /\ m_destroyEvents' = SeqExt!RemoveAt(m_destroyEvents, i)
    /\ gone' = gone \cup {id.impl}
    /\ UNCHANGED <<m_events, m_unscheduledEvents, m_cancel>>

\* Bug: the counter is not kept.
RemoveEvent_NotCounted(id) ==
    /\ ~IsExpired(id)
    /\ m_events' = {e \in m_events : e.ts # id.ts \/ e.uid # id.uid}
    /\ m_cancel' = m_cancel \cup {id.impl}
    /\ gone' = gone \cup {id.impl}
    /\ UNCHANGED <<m_destroyEvents, m_unscheduledEvents>>

\* MapScheduler::Remove erases what it finds under the key.
RemoveEvent(id) ==
    /\ ~IsExpired(id)
    /\ m_events' = {e \in m_events : e.ts # id.ts \/ e.uid # id.uid}
    /\ m_cancel' = m_cancel \cup {id.impl}
    /\ m_unscheduledEvents' = m_unscheduledEvents - 1
    /\ gone' = gone \cup {id.impl}
    /\ UNCHANGED m_destroyEvents

Remove(id) ==
    /\ Calling
    /\ IF id.uid = DESTROY THEN RemoveDestroyEvent(id) ELSE RemoveEvent(id)
    /\ UNCHANGED <<m_uid, queue, m_stop, clock, taken, pc, program, invoked>>

Stop == /\ Calling /\ ~m_stop
        /\ m_stop' = TRUE
        /\ UNCHANGED <<list, queue, m_destroyEvents, clock, m_cancel, taken,
                       pc, program, history>>

-----------------------------------------------------------------------------
(* Other threads.                                                          *)

\* ScheduleWithContext, under the mutex.
HandIn(delay) ==
    /\ pc # "disposed" /\ created < MaxEvents
    /\ created' = created + 1
    /\ m_eventsWithContext' =
           Append(m_eventsWithContext, [impl |-> created', timestamp |-> delay])
    /\ m_eventsWithContextEmpty' = FALSE
    /\ UNCHANGED <<list, m_destroyEvents, m_stop, clock, m_cancel, taken, pc,
                   ids, history>>

-----------------------------------------------------------------------------
(* The main thread in Run.                                                 *)

\* Run looks for handed-in events before it clears m_stop, which nothing in
\* between reads.
Run == /\ pc = "program"
       /\ pc' = "look"
       /\ m_stop' = FALSE
       /\ UNCHANGED <<list, queue, m_destroyEvents, clock, m_cancel, taken,
                      program, history>>

\* ProcessEventsWithContext reads the flag without the mutex: it may still see
\* the TRUE another thread has overwritten.
LookForHandedIn ==
    /\ pc = "look"
    /\ \E seenEmpty \in {m_eventsWithContextEmpty, TRUE} :
           pc' = IF seenEmpty THEN "loop" ELSE "swap"
    /\ UNCHANGED <<list, queue, m_destroyEvents, m_stop, clock, m_cancel,
                   taken, program, history>>

\* It takes the queue under the mutex.
SwapQueues ==
    /\ pc = "swap"
    /\ taken' = m_eventsWithContext
    /\ m_eventsWithContext' = <<>>
    /\ m_eventsWithContextEmpty' = TRUE
    /\ pc' = "insert"
    /\ UNCHANGED <<list, m_destroyEvents, m_stop, clock, m_cancel, program,
                   history>>

\* It enters the taken events one by one, from the current time.
InsertTaken ==
    /\ pc = "insert"
    /\ taken # <<>>
    /\ Insert(Head(taken).impl, Head(taken).timestamp)
    /\ taken' = Tail(taken)
    /\ UNCHANGED <<queue, m_destroyEvents, m_stop, clock, m_cancel, pc,
                   program, history>>

\* Bug: the flag is reset only here, outside the mutex.
InsertedAll_ResetsFlag ==
    /\ pc = "insert" /\ taken = <<>>
    /\ pc' = "loop"
    /\ m_eventsWithContextEmpty' = TRUE
    /\ UNCHANGED <<list, m_eventsWithContext, m_destroyEvents, m_stop, clock,
                   m_cancel, taken, program, history>>

InsertedAll ==
    /\ pc = "insert" /\ taken = <<>>
    /\ pc' = "loop"
    /\ UNCHANGED <<list, queue, m_destroyEvents, m_stop, clock, m_cancel,
                   taken, program, history>>

NextEvent == CHOOSE e \in m_events : \A other \in m_events \ {e} : Before(e, other)

\* ProcessOneEvent up to the handler, which a cancelled event does not call.
ProcessOneEvent ==
    /\ pc = "loop"
    /\ m_events # {} /\ ~m_stop
    /\ m_events' = m_events \ {NextEvent}
    /\ m_unscheduledEvents' = m_unscheduledEvents - 1
    /\ m_currentTs' = NextEvent.ts
    /\ m_currentUid' = NextEvent.uid
    /\ gone' = gone \cup {NextEvent.impl}
    /\ \/ /\ NextEvent.impl \notin m_cancel
          /\ invoked' = Append(invoked, NextEvent.impl)
          /\ pc' = "handler"
       \/ /\ NextEvent.impl \in m_cancel
          /\ pc' = "look"
          /\ UNCHANGED invoked
    /\ UNCHANGED <<m_uid, queue, m_destroyEvents, m_stop, m_cancel, taken,
                   program>>

\* The handler returns, or Run does.
Return ==
    /\ \/ pc = "handler" /\ pc' = "look"
       \/ pc = "loop" /\ (m_events = {} \/ m_stop) /\ pc' = "program"
    /\ UNCHANGED <<list, queue, m_destroyEvents, m_stop, clock, m_cancel,
                   taken, program, history>>

-----------------------------------------------------------------------------
(* Simulator::Destroy.                                                     *)

\* One turn of Destroy's loop: the next destroy event, whose handler may call.
RunDestroyEvent ==
    /\ pc \in {"program", "destroy", "skipped"}
    /\ m_destroyEvents # <<>>
    /\ m_destroyEvents' = Tail(m_destroyEvents)
    /\ gone' = gone \cup {Head(m_destroyEvents).impl}
    /\ pc' = IF Head(m_destroyEvents).impl \in m_cancel THEN "skipped" ELSE "destroy"
    /\ UNCHANGED <<list, queue, m_stop, clock, m_cancel, taken, program,
                   invoked>>

\* The loop ends and DoDispose releases what is left, taken or handed in.
Dispose ==
    /\ pc \in {"program", "destroy", "skipped"}
    /\ m_destroyEvents = <<>>
    /\ pc' = "disposed"
    /\ gone' = 1 .. created
    /\ m_events' = {} /\ m_eventsWithContext' = <<>> /\ m_eventsWithContextEmpty' = TRUE
    /\ UNCHANGED <<m_uid, m_unscheduledEvents, m_destroyEvents, m_stop, clock,
                   m_cancel, taken, program, invoked>>

Next == \/ \E delay \in Delays : \/ Schedule(delay)
                                 \/ ScheduleWithContext(delay)
                                 \/ HandIn(delay)
        \/ ScheduleDestroy
        \/ \E id \in ids : Cancel(id) \/ Remove(id)
        \/ Stop
        \/ Run
        \/ LookForHandedIn \/ SwapQueues \/ InsertTaken \/ InsertedAll
        \/ ProcessOneEvent
        \/ Return
        \/ RunDestroyEvent
        \/ Dispose

Spec == Init /\ [][Next]_vars

-----------------------------------------------------------------------------
(* Properties.                                                             *)

EventIds == [impl : 1 .. created, ts : Nat, uid : 0 .. UidMod - 1]

HandedIn == [impl : 1 .. created, timestamp : Delays]

\* The state is well typed; the ids in use are of events that were created.
TypeOK == /\ m_events \subseteq EventIds
          /\ m_eventsWithContext \in Seq(HandedIn)
          /\ m_eventsWithContextEmpty \in BOOLEAN
          /\ m_destroyEvents \in Seq(ids)
          /\ m_stop \in BOOLEAN
          /\ m_uid \in 0 .. UidMod - 1
          /\ m_currentTs \in Nat
          /\ m_currentUid \in 0 .. UidMod - 1
          /\ m_unscheduledEvents \in Nat
          /\ m_cancel \subseteq 1 .. created
          /\ taken \in Seq(HandedIn)
          /\ pc \in {"program", "handler", "destroy", "skipped", "disposed",
                     "look", "swap", "insert", "loop"}
          /\ created \in 0 .. MaxEvents
          /\ ids \subseteq EventIds
          /\ invoked \in Seq(1 .. created)
          /\ gone \subseteq 1 .. created

\* IsExpired infers from the clock what the list holds: of every EventId the
\* program may have kept, however old, it says "expired" exactly when the event
\* will not be invoked, so that Remove finds what it erases (the assertion of
\* MapScheduler::Remove) and a Cancel never misses.
ExpiryTrue ==
    pc # "disposed" =>
        \A id \in ids :
            ~IsExpired(id) <=> /\ id \in m_events \cup Destroying
                              /\ id.impl \notin m_cancel

\* How often a sequence of events holds EventImpl i.
Copies(events, i) == Cardinality({k \in DOMAIN events : events[k].impl = i})

\* No event is lost or kept twice on its way between the threads, the list and
\* its end, and m_unscheduledEvents counts the list, as Run asserts at its end.
EachKeptOnce ==
    /\ pc # "disposed" => m_unscheduledEvents = Cardinality(m_events)
    /\ \A i \in 1 .. created :
           Cardinality({e \in m_events : e.impl = i})
             + Copies(m_eventsWithContext, i) + Copies(taken, i) + Copies(m_destroyEvents, i)
             + (IF i \in gone THEN 1 ELSE 0) = 1

\* The flag read without the mutex never hides a handed-in event for good: it
\* is FALSE while the queue holds one, whatever is interleaved.
HandedInIsSeen == m_eventsWithContext # <<>> => ~m_eventsWithContextEmpty

\* The uncancelled events of the list.  Those of the same time take turns in
\* the order of their uids.
Entry(e) == [event |-> e.impl, time |-> e.ts, turn |-> e.uid]

Agenda == {Entry(e) : e \in {e \in m_events : e.impl \notin m_cancel}}

\* The scheduler implements EventCalendar: time never goes back, events of the
\* same time run in the order they were scheduled, those of other threads from
\* the moment they are taken in, and a cancelled or removed event never runs.
Calendar == INSTANCE EventCalendar WITH now <- m_currentTs, agenda <- Agenda
CalendarSpec == Calendar!Spec

=============================================================================
