--------------------- MODULE DefaultSimulatorImpl_proofs ---------------------
(***************************************************************************)
(* Proofs about DefaultSimulatorImpl for every set of delays and every     *)
(* number of events below the wrap of m_uid.                               *)
(***************************************************************************)
EXTENDS DefaultSimulatorImpl, FiniteSetTheorems, SequenceTheorems, WellFoundedInduction,
        TLAPS

-----------------------------------------------------------------------------
(* Data.                                                                   *)

\* A sequence over a set is one over every larger set.
LEMMA SeqOverMore ==
    ASSUME NEW S, NEW T, S \subseteq T, NEW s \in Seq(S)
    PROVE  s \in Seq(T)
<1>1. s = [i \in 1 .. Len(s) |-> s[i]] /\ Len(s) \in Nat
    OBVIOUS
<1>2. \A i \in 1 .. Len(s) : s[i] \in T
    OBVIOUS
<1> QED BY <1>1, <1>2

\* The EventImpls a sequence of events holds, and whether it holds none twice.
Impls(s) == {s[k].impl : k \in 1 .. Len(s)}
ImplsOnce(s) == \A j, k \in 1 .. Len(s) : s[j].impl = s[k].impl => j = k

LEMMA ImplsOfEmpty ==
    Impls(<<>>) = {} /\ ImplsOnce(<<>>)
BY DEF Impls, ImplsOnce

LEMMA ImplsOfAppend ==
    ASSUME NEW S, NEW s \in Seq(S), NEW e \in S, e.impl \notin Impls(s), ImplsOnce(s)
    PROVE  /\ Append(s, e) \in Seq(S)
           /\ Len(Append(s, e)) = Len(s) + 1
           /\ Impls(Append(s, e)) = Impls(s) \cup {e.impl}
           /\ ImplsOnce(Append(s, e))
<1> DEFINE t == Append(s, e)
<1>1. /\ t \in Seq(S)
      /\ Len(t) = Len(s) + 1
      /\ \A i \in 1 .. Len(s) : t[i] = s[i]
      /\ t[Len(s) + 1] = e
    BY AppendProperties
<1>2. Len(s) \in Nat
    OBVIOUS
<1> HIDE DEF t
<1>3. Impls(t) = Impls(s) \cup {e.impl}
    <2>1. ASSUME NEW x \in Impls(t) PROVE x \in Impls(s) \cup {e.impl}
        <3>1. PICK k \in 1 .. Len(t) : x = t[k].impl
            BY <2>1 DEF Impls
        <3>2. k \in 1 .. Len(s) \/ k = Len(s) + 1
            BY <1>1, <1>2
        <3> QED BY <1>1, <3>1, <3>2 DEF Impls
    <2>2. ASSUME NEW x \in Impls(s) PROVE x \in Impls(t)
        <3>1. PICK k \in 1 .. Len(s) : x = s[k].impl
            BY <2>2 DEF Impls
        <3>2. k \in 1 .. Len(t) /\ t[k] = s[k]
            BY <1>1, <1>2
        <3> QED BY <3>1, <3>2 DEF Impls
    <2>3. e.impl \in Impls(t)
        <3>1. Len(s) + 1 \in 1 .. Len(t)
            BY <1>1, <1>2
        <3> QED BY <1>1, <3>1 DEF Impls
    <2> QED BY <2>1, <2>2, <2>3
<1>4. ImplsOnce(t)
    <2> SUFFICES ASSUME NEW j \in 1 .. Len(t), NEW k \in 1 .. Len(t), t[j].impl = t[k].impl
                 PROVE  j = k
        BY DEF ImplsOnce
    <2>1. /\ j \in 1 .. Len(s) \/ j = Len(s) + 1
          /\ k \in 1 .. Len(s) \/ k = Len(s) + 1
        BY <1>1, <1>2
    <2>2. \A i \in 1 .. Len(s) : s[i].impl # e.impl
        BY DEF Impls
    <2> QED BY <1>1, <2>1, <2>2 DEF ImplsOnce
<1> QED BY <1>1, <1>3, <1>4 DEF t

\* An event taken out of a sequence at a place.
Without(s, t, i) ==
    /\ Len(t) = Len(s) - 1
    /\ \A k \in 1 .. Len(t) : t[k] = IF k < i THEN s[k] ELSE s[k + 1]

LEMMA ImplsWithout ==
    ASSUME NEW S, NEW s \in Seq(S), NEW t \in Seq(S), NEW i \in 1 .. Len(s),
           Without(s, t, i), ImplsOnce(s)
    PROVE  Impls(t) = Impls(s) \ {s[i].impl} /\ ImplsOnce(t)
<1>1. /\ Len(s) \in Nat /\ Len(t) = Len(s) - 1
      /\ \A k \in 1 .. Len(t) : t[k] = IF k < i THEN s[k] ELSE s[k + 1]
    BY DEF Without
<1>2. ASSUME NEW x \in Impls(t) PROVE x \in Impls(s) \ {s[i].impl}
    <2>1. PICK k \in 1 .. Len(t) : x = t[k].impl
        BY <1>2 DEF Impls
    <2>2. PICK j \in 1 .. Len(s) : j # i /\ t[k] = s[j]
        <3>1. CASE k < i
            <4>1. k \in 1 .. Len(s) /\ k # i
                BY <1>1, <3>1
            <4> QED BY <1>1, <3>1, <4>1
        <3>2. CASE ~(k < i)
            <4>1. k + 1 \in 1 .. Len(s) /\ k + 1 # i
                BY <1>1, <3>2
            <4> QED BY <1>1, <3>2, <4>1
        <3> QED BY <3>1, <3>2
    <2> QED BY <2>1, <2>2 DEF Impls, ImplsOnce
<1>3. ASSUME NEW x \in Impls(s), x # s[i].impl PROVE x \in Impls(t)
    <2>1. PICK j \in 1 .. Len(s) : x = s[j].impl
        BY <1>3 DEF Impls
    <2>2. CASE j < i
        <3>1. j \in 1 .. Len(t) /\ t[j] = s[j]
            BY <1>1, <2>2
        <3> QED BY <2>1, <3>1 DEF Impls
    <2>3. CASE j > i
        <3>1. j - 1 \in 1 .. Len(t) /\ ~(j - 1 < i) /\ (j - 1) + 1 = j
            BY <1>1, <2>3
        <3>2. t[j - 1] = s[j]
            BY <1>1, <3>1
        <3> QED BY <2>1, <3>1, <3>2 DEF Impls
    <2> QED BY <1>3, <2>1, <2>2, <2>3
<1>4. ASSUME NEW j \in 1 .. Len(t), NEW k \in 1 .. Len(t), t[j].impl = t[k].impl
      PROVE  j = k
    <2> DEFINE was(x) == IF x < i THEN x ELSE x + 1
    <2>1. \A x \in 1 .. Len(t) : was(x) \in 1 .. Len(s) /\ t[x] = s[was(x)]
        BY <1>1
    <2>2. was(j) = was(k)
        BY <1>4, <2>1 DEF ImplsOnce
    <2> QED BY <2>2
<1> QED BY <1>2, <1>3, <1>4 DEF ImplsOnce

LEMMA ImplsOfTail ==
    ASSUME NEW S, NEW s \in Seq(S), s # <<>>, ImplsOnce(s)
    PROVE  /\ Tail(s) \in Seq(S) /\ Head(s) \in S /\ Head(s) = s[1]
           /\ Len(s) \in Nat /\ 1 \in 1 .. Len(s)
           /\ Len(Tail(s)) = Len(s) - 1
           /\ Impls(Tail(s)) = Impls(s) \ {Head(s).impl}
           /\ ImplsOnce(Tail(s))
<1> DEFINE t == Tail(s)
<1>1. /\ t \in Seq(S) /\ Head(s) \in S /\ Len(t) = Len(s) - 1
      /\ \A i \in 1 .. Len(t) : t[i] = s[i + 1]
    BY HeadTailProperties
<1>2. Head(s) = s[1] /\ Len(s) \in Nat /\ 1 \in 1 .. Len(s)
    BY EmptySeq
<1> HIDE DEF t
<1>3. Without(s, t, 1)
    <2>1. \A k \in 1 .. Len(t) : ~(k < 1)
        BY <1>1, <1>2
    <2> QED BY <1>1, <2>1 DEF Without
<1>4. Impls(t) = Impls(s) \ {s[1].impl} /\ ImplsOnce(t)
    BY <1>1, <1>2, <1>3, ImplsWithout
<1> QED BY <1>1, <1>2, <1>4 DEF t

LEMMA ImplsOfRemoveAt ==
    ASSUME NEW S, NEW s \in Seq(S), NEW i \in 1 .. Len(s), ImplsOnce(s)
    PROVE  /\ SeqExt!RemoveAt(s, i) \in Seq(S)
           /\ Without(s, SeqExt!RemoveAt(s, i), i)
           /\ Impls(SeqExt!RemoveAt(s, i)) = Impls(s) \ {s[i].impl}
           /\ ImplsOnce(SeqExt!RemoveAt(s, i))
<1> DEFINE front == SubSeq(s, 1, i - 1)
           back  == SubSeq(s, i + 1, Len(s))
           t     == SeqExt!RemoveAt(s, i)
<1>1. Len(s) \in Nat /\ \A k \in 1 .. Len(s) : s[k] \in S
    OBVIOUS
<1>2. /\ front \in Seq(S) /\ Len(front) = i - 1
      /\ \A k \in 1 .. i - 1 : front[k] = s[k]
    BY <1>1
<1>3. /\ back \in Seq(S) /\ Len(back) = Len(s) - i
      /\ \A k \in 1 .. Len(s) - i : back[k] = s[i + k]
    BY <1>1
<1>4. t = front \o back
    BY DEF SeqExt!RemoveAt
<1> HIDE DEF front, back, t
<1>5. /\ t \in Seq(S) /\ Len(t) = Len(front) + Len(back)
      /\ \A k \in 1 .. Len(front) + Len(back) :
            t[k] = IF k <= Len(front) THEN front[k] ELSE back[k - Len(front)]
    BY <1>2, <1>3, <1>4, ConcatProperties
<1>6. ASSUME NEW k \in 1 .. Len(t) PROVE t[k] = IF k < i THEN s[k] ELSE s[k + 1]
    <2>1. CASE k < i
        <3>1. k <= Len(front) /\ k \in 1 .. i - 1 /\ k \in 1 .. Len(front) + Len(back)
            BY <1>1, <1>2, <1>3, <1>5, <2>1
        <3> QED BY <1>2, <1>5, <2>1, <3>1
    <2>2. CASE ~(k < i)
        <3>1. /\ ~(k <= Len(front)) /\ k - Len(front) \in 1 .. Len(s) - i
              /\ i + (k - Len(front)) = k + 1 /\ k \in 1 .. Len(front) + Len(back)
            BY <1>1, <1>2, <1>3, <1>5, <2>2
        <3>2. t[k] = back[k - Len(front)]
            BY <1>5, <3>1
        <3> QED BY <1>3, <2>2, <3>1, <3>2
    <2> QED BY <2>1, <2>2
<1>7. Len(t) = Len(s) - 1
    BY <1>1, <1>2, <1>3, <1>5
<1>8. Without(s, t, i)
    BY <1>6, <1>7 DEF Without
<1>9. Impls(t) = Impls(s) \ {s[i].impl} /\ ImplsOnce(t)
    BY <1>5, <1>8, ImplsWithout
<1> QED BY <1>5, <1>8, <1>9 DEF t
\* A set with at most one element has one if it has any.
LEMMA CardinalityOfOne ==
    ASSUME NEW S, \A x, y \in S : x = y
    PROVE  Cardinality(S) = IF S = {} THEN 0 ELSE 1
<1>1. CASE S = {}
    BY <1>1, FS_EmptySet
<1>2. CASE S # {}
    <2>1. PICK x : S = {x}
        BY <1>2
    <2> QED BY <1>2, <2>1, FS_Singleton
<1> QED BY <1>1, <1>2

\* A sequence that holds no EventImpl twice holds each once or not at all.
LEMMA CopiesOnce ==
    ASSUME NEW s, Len(s) \in Nat, DOMAIN s = 1 .. Len(s), ImplsOnce(s), NEW i
    PROVE  Copies(s, i) = IF i \in Impls(s) THEN 1 ELSE 0
<1> DEFINE at == {k \in DOMAIN s : s[k].impl = i}
<1>1. \A j, k \in at : j = k
    BY DEF ImplsOnce
<1>2. at = {} <=> i \notin Impls(s)
    BY DEF Impls
<1>3. Cardinality(at) = IF at = {} THEN 0 ELSE 1
    BY <1>1, CardinalityOfOne
<1> QED BY <1>2, <1>3 DEF Copies

\* The least-number principle, from the well-foundedness of < on Nat.
LEMMA LeastNumber ==
    ASSUME NEW S, S \subseteq Nat, S # {}
    PROVE  \E x \in S : \A y \in S : x <= y
<1>1. IsWellFoundedOn(OpToRel(<, Nat), Nat)
    BY NatLessThanWellFounded
<1>2. PICK R : R = OpToRel(<, Nat)
    OBVIOUS
<1>3. \A x, y \in Nat : y < x => <<y, x>> \in R
    BY <1>2 DEF OpToRel
<1>4. PICK x \in S : \A y \in S : <<y, x>> \notin R
    BY <1>1, <1>2, WFMin
<1>5. x \in Nat /\ \A y \in S : y \in Nat
    OBVIOUS
<1>6. \A y \in S : ~(y < x)
    BY <1>3, <1>4, <1>5, Zenon
<1> QED BY <1>5, <1>6

\* A list in which no two events have the same key has a next one.
LEMMA NextExists ==
    ASSUME NEW E, E # {},
           \A e \in E : e.ts \in Nat /\ e.uid \in Nat,
           \A e, f \in E : e.uid = f.uid => e = f
    PROVE  \E e \in E : \A other \in E \ {e} : Before(e, other)
<1>1. PICK ts \in {e.ts : e \in E} : \A y \in {e.ts : e \in E} : ts <= y
    <2>1. {e.ts : e \in E} \in SUBSET Nat /\ {e.ts : e \in E} # {}
        OBVIOUS
    <2> QED BY <2>1, LeastNumber
<1> DEFINE due == {e \in E : e.ts = ts}
<1>2. PICK uid \in {e.uid : e \in due} : \A y \in {e.uid : e \in due} : uid <= y
    <2>1. {e.uid : e \in due} \in SUBSET Nat /\ {e.uid : e \in due} # {}
        BY <1>1
    <2> QED BY <2>1, LeastNumber
<1>3. PICK e \in due : e.uid = uid
    BY <1>2
<1>4. ASSUME NEW other \in E \ {e} PROVE Before(e, other)
    <2>1. e.ts \in Nat /\ other.ts \in Nat /\ e.uid \in Nat /\ other.uid \in Nat
        OBVIOUS
    <2>2. e.uid # other.uid
        BY <1>4
    <2>3. ts <= other.ts /\ e.ts = ts
        BY <1>1
    <2>4. other.ts = ts => uid <= other.uid
        BY <1>2
    <2> QED BY <1>3, <2>1, <2>2, <2>3, <2>4 DEF Before
<1> QED BY <1>4

-----------------------------------------------------------------------------
(* The inductive invariant.                                                *)

\* Every EventImpl created is in one place: the list, the queue of other
\* threads, what was taken from it, the destroy events, or gone.
Split(L, Q, T, D, G, n) ==
    /\ L \cup Q \cup T \cup D \cup G = 1 .. n
    /\ \A i \in L : i \notin Q /\ i \notin T /\ i \notin D /\ i \notin G
    /\ \A i \in Q : i \notin T /\ i \notin D /\ i \notin G
    /\ \A i \in T : i \notin D /\ i \notin G
    /\ \A i \in D : i \notin G

LEMMA SplitEnter ==
    ASSUME NEW L, NEW Q, NEW T, NEW D, NEW G, NEW n \in Nat, Split(L, Q, T, D, G, n)
    PROVE  /\ Split(L \cup {n + 1}, Q, T, D, G, n + 1)
           /\ Split(L, Q \cup {n + 1}, T, D, G, n + 1)
           /\ Split(L, Q, T, D \cup {n + 1}, G, n + 1)
<1>1. 1 .. n + 1 = (1 .. n) \cup {n + 1} /\ n + 1 \notin 1 .. n
    OBVIOUS
<1> HIDE DEF Split
<1>2. n + 1 \notin L /\ n + 1 \notin Q /\ n + 1 \notin T /\ n + 1 \notin D /\ n + 1 \notin G
    BY <1>1 DEF Split
<1> QED BY <1>1, <1>2 DEF Split

LEMMA SplitMove ==
    ASSUME NEW L, NEW Q, NEW T, NEW D, NEW G, NEW n, Split(L, Q, T, D, G, n), NEW i
    PROVE  /\ i \in L => Split(L \ {i}, Q, T, D, G \cup {i}, n)
           /\ i \in D => Split(L, Q, T, D \ {i}, G \cup {i}, n)
           /\ i \in T => Split(L \cup {i}, Q, T \ {i}, D, G, n)
           /\ T = {} => Split(L, {}, Q, D, G, n)
BY DEF Split

\* The EventImpls in the list.
Listed == {e.impl : e \in m_events}

EachInOnePlace ==
    /\ Split(Listed, Impls(m_eventsWithContext), Impls(taken), Impls(m_destroyEvents), gone,
             created)
    /\ ImplsOnce(m_eventsWithContext) /\ ImplsOnce(taken) /\ ImplsOnce(m_destroyEvents)
    /\ IsFiniteSet(m_events)
    /\ pc # "disposed" => m_unscheduledEvents = Cardinality(m_events)
    /\ pc # "insert" => taken = <<>>

\* m_uid counts the events that were entered: it does not wrap round.
UidsCounted ==
    /\ VALID <= m_uid
    /\ m_uid + Len(m_eventsWithContext) + Len(taken) <= VALID + created
    /\ m_currentUid < m_uid

\* An event of the list or an id the program holds.
Known == m_events \cup ids

\* Neither a uid nor an EventImpl is used twice, so an id finds its own event.
IdsTrue ==
    /\ \A e \in m_events : e.uid # DESTROY
    /\ \A e \in Known : e.uid = DESTROY \/ e.uid < m_uid
    /\ \A e, f \in Known : e.uid = f.uid => e = f \/ e.uid = DESTROY
    /\ \A e, f \in Known : e.impl = f.impl => e = f
    /\ \A id \in ids : id.impl \notin Impls(m_eventsWithContext) /\ id.impl \notin Impls(taken)
    /\ \A k \in 1 .. Len(m_destroyEvents) : m_destroyEvents[k].uid = DESTROY

\* The clock has come to the event's key.
Past(id) == id.ts < m_currentTs \/ (id.ts = m_currentTs /\ id.uid <= m_currentUid)

\* The list holds no past event, and every later one the program has an id of,
\* unless that was cancelled.
ClockTrue ==
    /\ \A e \in m_events : ~Past(e)
    /\ pc # "disposed" =>
          \A id \in ids : \/ id.uid = DESTROY \/ id \in m_events
                          \/ Past(id) \/ id.impl \in m_cancel

SimInv == /\ TypeOK /\ EachInOnePlace /\ UidsCounted /\ IdsTrue /\ ClockTrue
          /\ HandedInIsSeen

LEMMA InitSimInv == Init => SimInv
<1> SUFFICES ASSUME Init PROVE SimInv
    OBVIOUS
<1>1. MaxEvents \in Nat /\ UidMod \in Nat /\ MaxEvents + 4 < UidMod
    BY SimulatorAssumption
<1>2. TypeOK
    <2>1. m_uid \in 0 .. UidMod - 1 /\ m_currentUid \in 0 .. UidMod - 1
        BY <1>1 DEF Init, VALID, INVALID
    <2>2. /\ m_eventsWithContext \in Seq(HandedIn) /\ taken \in Seq(HandedIn)
          /\ m_destroyEvents \in Seq(ids) /\ invoked \in Seq(1 .. created)
        BY EmptySeq DEF Init
    <2>3. /\ m_events \subseteq EventIds /\ ids \subseteq EventIds
          /\ m_cancel \subseteq 1 .. created /\ gone \subseteq 1 .. created
        BY DEF Init
    <2>4. m_eventsWithContextEmpty \in BOOLEAN /\ m_stop \in BOOLEAN /\ pc = "program"
        BY DEF Init
    <2>5. m_currentTs \in Nat /\ m_unscheduledEvents \in Nat /\ created \in 0 .. MaxEvents
        BY <1>1 DEF Init
    <2> QED BY <2>1, <2>2, <2>3, <2>4, <2>5 DEF TypeOK
<1>3. EachInOnePlace
    <2>1. Listed = {} /\ 1 .. created = {}
        BY DEF Init, Listed
    <2>2. Split({}, {}, {}, {}, {}, created)
        BY <2>1 DEF Split
    <2> QED BY <2>1, <2>2, ImplsOfEmpty, FS_EmptySet DEF Init, EachInOnePlace
<1>4. UidsCounted
    BY EmptySeq DEF Init, UidsCounted, VALID, INVALID
<1>5. IdsTrue /\ ClockTrue /\ HandedInIsSeen
    BY EmptySeq DEF Init, IdsTrue, Known, ClockTrue, HandedInIsSeen
<1> QED BY <1>2, <1>3, <1>4, <1>5 DEF SimInv
\* What is typed stays typed when one more event was created.
LEMMA TypedGrows ==
    ASSUME TypeOK, created' = created + 1, created < MaxEvents
    PROVE  /\ m_events \subseteq EventIds' /\ ids \subseteq EventIds'
           /\ m_eventsWithContext \in Seq(HandedIn') /\ taken \in Seq(HandedIn')
           /\ m_cancel \subseteq 1 .. created' /\ gone \subseteq 1 .. created'
           /\ invoked \in Seq(1 .. created')
           /\ created' \in 0 .. MaxEvents /\ created' \in 1 .. created' /\ created \in Nat
<1>1. created \in Nat /\ MaxEvents \in Nat
    BY SimulatorAssumption DEF TypeOK
<1>2. 1 .. created \subseteq 1 .. created'
    BY <1>1
<1>3. EventIds \subseteq EventIds' /\ HandedIn \subseteq HandedIn'
    BY <1>2 DEF EventIds, HandedIn
<1>4. /\ m_eventsWithContext \in Seq(HandedIn') /\ taken \in Seq(HandedIn')
      /\ invoked \in Seq(1 .. created')
    BY <1>2, <1>3, SeqOverMore DEF TypeOK
<1>5. created' \in 0 .. MaxEvents /\ created' \in 1 .. created'
    BY <1>1
<1> QED BY <1>1, <1>2, <1>3, <1>4, <1>5 DEF TypeOK

\* Entering an event gives it a key of its own, behind the clock.
Entered(impl, delay) == [impl |-> impl, ts |-> m_currentTs + delay, uid |-> m_uid]

LEMMA InsertEnters ==
    ASSUME SimInv, NEW impl \in 1 .. created', NEW delay \in Nat, Insert(impl, delay),
           UNCHANGED clock,
           m_uid < VALID + MaxEvents
    PROVE  /\ Entered(impl, delay) \in EventIds'
           /\ m_events' = m_events \cup {Entered(impl, delay)}
           /\ m_uid' = m_uid + 1 /\ m_uid' \in 0 .. UidMod - 1
           /\ m_unscheduledEvents' \in Nat
           /\ Entered(impl, delay) \notin m_events
           /\ IsFiniteSet(m_events')
           /\ pc # "disposed" => m_unscheduledEvents' = Cardinality(m_events')
           /\ Listed' = Listed \cup {impl}
           /\ \A e \in m_events' : ~Past(e)'
           /\ \A id \in ids : Past(id) => Past(id)'
<1> DEFINE e == Entered(impl, delay)
<1>1. /\ m_uid \in Nat /\ m_currentTs \in Nat /\ m_currentUid \in Nat
      /\ m_currentUid < m_uid /\ m_uid >= VALID /\ m_unscheduledEvents \in Nat
    BY DEF SimInv, TypeOK, UidsCounted, VALID
<1>2. UidMod \in Nat /\ MaxEvents \in Nat /\ m_uid + 1 < UidMod
    BY <1>1, SimulatorAssumption DEF VALID
<1>3. m_events' = m_events \cup {e} /\ m_unscheduledEvents' = m_unscheduledEvents + 1
    BY DEF Insert, Entered
<1>4. m_uid' = m_uid + 1 /\ m_uid' \in 0 .. UidMod - 1
    BY <1>1, <1>2 DEF Insert, NextUid
<1>5. e \in EventIds'
    BY <1>1, <1>2 DEF Entered, EventIds
<1>6. e \notin m_events
    <2>1. \A f \in m_events : f.uid < m_uid
        BY DEF SimInv, IdsTrue, Known
    <2>2. e.uid = m_uid
        BY DEF Entered
    <2> QED BY <1>1, <2>1, <2>2
<1>7. IsFiniteSet(m_events') /\ Cardinality(m_events') = Cardinality(m_events) + 1
    BY <1>3, <1>6, FS_AddElement DEF SimInv, EachInOnePlace
<1>8. Listed' = Listed \cup {impl}
    <2>1. e.impl = impl
        BY DEF Entered
    <2> QED BY <1>3, <2>1 DEF Listed
<1>9. \A f : Past(f)' <=> Past(f)
    BY DEF Past, clock
<1>10. ~Past(e)
    <2>1. e.ts = m_currentTs + delay /\ e.uid = m_uid
        BY DEF Entered
    <2> QED BY <1>1, <2>1 DEF Past
<1>11. \A f \in m_events' : ~Past(f)'
    BY <1>3, <1>9, <1>10 DEF SimInv, ClockTrue
<1>12. pc # "disposed" => m_unscheduledEvents' = Cardinality(m_events')
    BY <1>3, <1>7 DEF SimInv, EachInOnePlace
<1> QED BY <1>1, <1>3, <1>4, <1>5, <1>6, <1>7, <1>8, <1>9, <1>11, <1>12

\* One more event or id, with an EventImpl of its own and with a uid of its own
\* or that of destroy events.
LEMMA KnownGrows ==
    ASSUME SimInv, NEW new, Known' = Known \cup {new},
           \A e \in Known : e.impl # new.impl,
           new.uid \in {DESTROY, m_uid}, m_uid' = m_uid + 1
    PROVE  /\ \A e \in Known' : e.uid = DESTROY \/ e.uid < m_uid'
           /\ \A e, f \in Known' : e.uid = f.uid => e = f \/ e.uid = DESTROY
           /\ \A e, f \in Known' : e.impl = f.impl => e = f
<1>1. m_uid \in Nat /\ DESTROY = 2 /\ \A e \in Known : e.uid \in Nat
    <2>1. \A e \in EventIds : e.uid \in Nat
        BY DEF EventIds
    <2> QED BY <2>1 DEF SimInv, TypeOK, Known, DESTROY
<1>2. /\ \A e \in Known : e.uid = DESTROY \/ e.uid < m_uid
      /\ \A e, f \in Known : e.uid = f.uid => e = f \/ e.uid = DESTROY
      /\ \A e, f \in Known : e.impl = f.impl => e = f
    BY DEF SimInv, IdsTrue
<1>3. \A e \in Known : e.uid = new.uid => e.uid = DESTROY
    BY <1>1, <1>2
<1>4. \A e \in Known' : e.uid = DESTROY \/ e.uid < m_uid'
    BY <1>1, <1>2
<1> HIDE DEF Known
<1>5. \A e, f \in Known' : e.uid = f.uid => e = f \/ e.uid = DESTROY
    BY <1>2, <1>3
<1>6. \A e, f \in Known' : e.impl = f.impl => e = f
    BY <1>2
<1> QED BY <1>4, <1>5, <1>6
-----------------------------------------------------------------------------
(* Calls that create an event.                                             *)

\* Schedule and ScheduleWithContext enter a new event, whether or not the
\* program keeps its id.
LEMMA ScheduleSimInv ==
    ASSUME SimInv, NEW delay \in Delays, Calling, created < MaxEvents, created' = created + 1,
           Insert(created', delay),
           ids' = ids \/ ids' = ids \cup {Entered(created', delay)},
           UNCHANGED <<queue, m_destroyEvents, m_stop, clock, m_cancel, taken, pc, history>>
    PROVE  SimInv'
<1> DEFINE e == Entered(created', delay)
<1>1. delay \in Nat /\ MaxEvents \in Nat
    BY SimulatorAssumption
<1>2. /\ created \in Nat /\ m_uid \in Nat /\ m_currentUid \in Nat
      /\ Len(m_eventsWithContext) \in Nat /\ Len(taken) \in Nat
    BY DEF SimInv, TypeOK
<1>3. /\ m_events \subseteq EventIds' /\ ids \subseteq EventIds'
      /\ m_eventsWithContext \in Seq(HandedIn') /\ taken \in Seq(HandedIn')
      /\ m_cancel \subseteq 1 .. created' /\ gone \subseteq 1 .. created'
      /\ invoked \in Seq(1 .. created')
      /\ created' \in 0 .. MaxEvents /\ created' \in 1 .. created'
    BY TypedGrows DEF SimInv
<1>4. m_uid + Len(m_eventsWithContext) + Len(taken) <= VALID + created /\ VALID \in Nat
    BY DEF SimInv, UidsCounted, VALID
<1>5. m_uid < VALID + MaxEvents
    BY <1>1, <1>2, <1>4
<1>6. /\ e \in EventIds'
      /\ m_events' = m_events \cup {e}
      /\ m_uid' = m_uid + 1 /\ m_uid' \in 0 .. UidMod - 1
      /\ m_unscheduledEvents' \in Nat
      /\ IsFiniteSet(m_events')
      /\ pc # "disposed" => m_unscheduledEvents' = Cardinality(m_events')
      /\ Listed' = Listed \cup {created'}
      /\ \A f \in m_events' : ~Past(f)'
      /\ \A id \in ids : Past(id) => Past(id)'
    BY <1>1, <1>3, <1>5, InsertEnters
<1>7. e.impl = created + 1 /\ e.uid = m_uid
    BY DEF Entered
<1> HIDE DEF e
<1>8. UNCHANGED <<m_eventsWithContext, m_eventsWithContextEmpty, m_destroyEvents, m_stop,
                  m_currentTs, m_currentUid, m_cancel, taken, pc, invoked, gone>>
    BY DEF queue, clock, history
<1>9. ids' = ids \/ ids' = ids \cup {e}
    BY DEF e
<1>10. TypeOK'
    <2>1. ids' \subseteq EventIds' /\ m_events' \subseteq EventIds'
        BY <1>3, <1>6, <1>9
    <2>2. m_destroyEvents' \in Seq(ids')
        <3>1. ids \subseteq ids' /\ m_destroyEvents \in Seq(ids)
            BY <1>9 DEF SimInv, TypeOK
        <3> QED BY <1>8, <3>1, SeqOverMore
    <2>3. /\ m_eventsWithContextEmpty \in BOOLEAN /\ m_stop \in BOOLEAN
          /\ m_currentTs \in Nat /\ m_currentUid \in 0 .. UidMod - 1
          /\ pc \in {"program", "handler", "destroy", "skipped", "disposed",
                     "look", "swap", "insert", "loop"}
        BY DEF SimInv, TypeOK
    <2> QED BY <1>3, <1>6, <1>8, <2>1, <2>2, <2>3 DEF TypeOK
<1>11. EachInOnePlace'
    <2>1. Split(Listed \cup {created + 1}, Impls(m_eventsWithContext), Impls(taken),
                Impls(m_destroyEvents), gone, created + 1)
        BY <1>2, SplitEnter DEF SimInv, EachInOnePlace
    <2> QED BY <1>6, <1>8, <2>1 DEF SimInv, EachInOnePlace
<1>12. UidsCounted'
    BY <1>2, <1>4, <1>6, <1>8 DEF SimInv, UidsCounted
<1>13. IdsTrue'
    <2>1. Known' = Known \cup {e}
        BY <1>6, <1>9 DEF Known
    <2>2. \A f \in Known : f.impl # e.impl
        <3>1. \A f \in EventIds : f.impl \in 1 .. created
            BY DEF EventIds
        <3>2. Known \subseteq EventIds
            BY DEF SimInv, TypeOK, Known
        <3> QED BY <1>2, <1>7, <3>1, <3>2
    <2>3. /\ \A f \in Known' : f.uid = DESTROY \/ f.uid < m_uid'
          /\ \A f, g \in Known' : f.uid = g.uid => f = g \/ f.uid = DESTROY
          /\ \A f, g \in Known' : f.impl = g.impl => f = g
        BY <1>6, <1>7, <2>1, <2>2, KnownGrows
    <2>4. \A f \in m_events' : f.uid # DESTROY
        BY <1>2, <1>6, <1>7 DEF SimInv, IdsTrue, UidsCounted, DESTROY, VALID
    <2>5. \A id \in ids' : id.impl \notin Impls(m_eventsWithContext) /\ id.impl \notin Impls(taken)
        <3>1. created + 1 \notin Impls(m_eventsWithContext) /\ created + 1 \notin Impls(taken)
            BY <1>2 DEF SimInv, EachInOnePlace, Split
        <3> QED BY <1>7, <1>9, <3>1 DEF SimInv, IdsTrue
    <2> QED BY <1>8, <2>3, <2>4, <2>5 DEF SimInv, IdsTrue
<1>14. ClockTrue'
    <2>1. ASSUME pc # "disposed", NEW id \in ids'
          PROVE  \/ id.uid = DESTROY \/ id \in m_events'
                 \/ Past(id)' \/ id.impl \in m_cancel
        BY <1>6, <1>9, <2>1 DEF SimInv, ClockTrue
    <2> QED BY <1>6, <1>8, <2>1 DEF ClockTrue
<1>15. HandedInIsSeen'
    BY <1>8 DEF SimInv, HandedInIsSeen
<1> QED BY <1>10, <1>11, <1>12, <1>13, <1>14, <1>15 DEF SimInv

LEMMA ScheduleDestroySimInv ==
    ASSUME SimInv, ScheduleDestroy
    PROVE  SimInv'
<1> DEFINE id == [impl |-> created', ts |-> m_currentTs, uid |-> DESTROY]
<1>1. /\ created < MaxEvents /\ created' = created + 1
      /\ m_destroyEvents' = Append(m_destroyEvents, id)
      /\ ids' = ids \cup {id}
      /\ m_uid' = NextUid
      /\ UNCHANGED <<m_events, m_unscheduledEvents, m_eventsWithContext,
                     m_eventsWithContextEmpty, m_stop, m_currentTs, m_currentUid, m_cancel,
                     taken, pc, invoked, gone>>
    BY DEF ScheduleDestroy, queue, clock, history
<1>2. /\ created \in Nat /\ m_uid \in Nat /\ m_currentUid \in Nat /\ m_currentTs \in Nat
      /\ Len(m_eventsWithContext) \in Nat /\ Len(taken) \in Nat
    BY DEF SimInv, TypeOK
<1>3. /\ m_events \subseteq EventIds' /\ ids \subseteq EventIds'
      /\ m_eventsWithContext \in Seq(HandedIn') /\ taken \in Seq(HandedIn')
      /\ m_cancel \subseteq 1 .. created' /\ gone \subseteq 1 .. created'
      /\ invoked \in Seq(1 .. created')
      /\ created' \in 0 .. MaxEvents /\ created' \in 1 .. created'
    BY <1>1, TypedGrows DEF SimInv
<1>4. /\ m_uid + Len(m_eventsWithContext) + Len(taken) <= VALID + created
      /\ VALID = 4 /\ DESTROY = 2
    BY DEF SimInv, UidsCounted, VALID, DESTROY
<1>5. MaxEvents \in Nat /\ UidMod \in Nat /\ MaxEvents + 4 < UidMod
    BY SimulatorAssumption
<1>6. m_uid' = m_uid + 1 /\ m_uid' \in 0 .. UidMod - 1
    <2>1. m_uid + 1 < UidMod
        BY <1>1, <1>2, <1>4, <1>5
    <2> QED BY <1>1, <1>2, <1>5, <2>1 DEF NextUid
<1>7. id \in EventIds' /\ id.impl = created + 1 /\ id.uid = DESTROY
    BY <1>1, <1>2, <1>3, <1>4, <1>5 DEF EventIds
<1> HIDE DEF id
<1>8. created + 1 \notin Impls(m_destroyEvents) /\ created + 1 \notin Impls(m_eventsWithContext)
        /\ created + 1 \notin Impls(taken)
    BY <1>2 DEF SimInv, EachInOnePlace, Split
<1>9. /\ m_destroyEvents \in Seq(ids') /\ id \in ids'
    <2>1. ids \subseteq ids' /\ m_destroyEvents \in Seq(ids)
        BY <1>1 DEF SimInv, TypeOK
    <2> QED BY <1>1, <2>1, SeqOverMore
<1>10. /\ m_destroyEvents' \in Seq(ids')
       /\ Len(m_destroyEvents') = Len(m_destroyEvents) + 1
       /\ Impls(m_destroyEvents') = Impls(m_destroyEvents) \cup {created + 1}
       /\ ImplsOnce(m_destroyEvents')
    BY <1>1, <1>7, <1>8, <1>9, ImplsOfAppend DEF SimInv, EachInOnePlace
<1>11. TypeOK'
    <2>1. ids' \subseteq EventIds' /\ m_events' \subseteq EventIds'
        BY <1>1, <1>3, <1>7
    <2>2. /\ m_eventsWithContextEmpty \in BOOLEAN /\ m_stop \in BOOLEAN
          /\ m_currentTs \in Nat /\ m_currentUid \in 0 .. UidMod - 1
          /\ m_unscheduledEvents \in Nat
          /\ pc \in {"program", "handler", "destroy", "skipped", "disposed",
                     "look", "swap", "insert", "loop"}
        BY DEF SimInv, TypeOK
    <2> QED BY <1>1, <1>3, <1>6, <1>10, <2>1, <2>2 DEF TypeOK
<1>12. EachInOnePlace'
    <2>1. Split(Listed, Impls(m_eventsWithContext), Impls(taken),
                Impls(m_destroyEvents) \cup {created + 1}, gone, created + 1)
        BY <1>2, SplitEnter DEF SimInv, EachInOnePlace
    <2>2. Listed' = Listed
        BY <1>1 DEF Listed
    <2> QED BY <1>1, <1>10, <2>1, <2>2 DEF SimInv, EachInOnePlace
<1>13. UidsCounted'
    BY <1>1, <1>2, <1>4, <1>6 DEF SimInv, UidsCounted
<1>14. IdsTrue'
    <2>1. Known' = Known \cup {id}
        BY <1>1 DEF Known
    <2>2. \A f \in Known : f.impl # id.impl
        <3>1. \A f \in EventIds : f.impl \in 1 .. created
            BY DEF EventIds
        <3>2. Known \subseteq EventIds
            BY DEF SimInv, TypeOK, Known
        <3> QED BY <1>2, <1>7, <3>1, <3>2
    <2>3. /\ \A f \in Known' : f.uid = DESTROY \/ f.uid < m_uid'
          /\ \A f, g \in Known' : f.uid = g.uid => f = g \/ f.uid = DESTROY
          /\ \A f, g \in Known' : f.impl = g.impl => f = g
        BY <1>6, <1>7, <2>1, <2>2, KnownGrows
    <2>4. \A f \in ids' : f.impl \notin Impls(m_eventsWithContext) /\ f.impl \notin Impls(taken)
        BY <1>1, <1>7, <1>8 DEF SimInv, IdsTrue
    <2>5. ASSUME NEW k \in 1 .. Len(m_destroyEvents') PROVE m_destroyEvents'[k].uid = DESTROY
        <3>1. Len(m_destroyEvents) \in Nat /\ m_destroyEvents \in Seq(ids')
            BY <1>9
        <3>2. /\ \A i \in 1 .. Len(m_destroyEvents) : m_destroyEvents'[i] = m_destroyEvents[i]
              /\ m_destroyEvents'[Len(m_destroyEvents) + 1] = id
            BY <1>1, <1>9, AppendProperties
        <3>3. k \in 1 .. Len(m_destroyEvents) \/ k = Len(m_destroyEvents) + 1
            BY <1>10, <3>1
        <3> QED BY <1>7, <3>2, <3>3 DEF SimInv, IdsTrue
    <2> QED BY <1>1, <2>3, <2>4, <2>5 DEF SimInv, IdsTrue
<1>15. ClockTrue'
    BY <1>1, <1>7 DEF SimInv, ClockTrue, Past
<1>16. HandedInIsSeen'
    BY <1>1 DEF SimInv, HandedInIsSeen
<1> QED BY <1>11, <1>12, <1>13, <1>14, <1>15, <1>16 DEF SimInv

\* Another thread hands in an event.
LEMMA HandInSimInv ==
    ASSUME SimInv, NEW delay \in Delays, HandIn(delay)
    PROVE  SimInv'
<1> DEFINE e == [impl |-> created', timestamp |-> delay]
<1>1. /\ created < MaxEvents /\ created' = created + 1
      /\ m_eventsWithContext' = Append(m_eventsWithContext, e)
      /\ m_eventsWithContextEmpty' = FALSE
      /\ UNCHANGED <<m_events, m_uid, m_unscheduledEvents, m_destroyEvents, m_stop,
                     m_currentTs, m_currentUid, m_cancel, taken, pc, ids, invoked, gone>>
    BY DEF HandIn, list, clock, history
<1>2. /\ created \in Nat /\ m_uid \in Nat
      /\ Len(m_eventsWithContext) \in Nat /\ Len(taken) \in Nat
      /\ m_eventsWithContext \in Seq(HandedIn)
    BY DEF SimInv, TypeOK
<1>3. /\ m_events \subseteq EventIds' /\ ids \subseteq EventIds'
      /\ m_eventsWithContext \in Seq(HandedIn') /\ taken \in Seq(HandedIn')
      /\ m_cancel \subseteq 1 .. created' /\ gone \subseteq 1 .. created'
      /\ invoked \in Seq(1 .. created')
      /\ created' \in 0 .. MaxEvents /\ created' \in 1 .. created'
    BY <1>1, TypedGrows DEF SimInv
<1>4. e \in HandedIn' /\ e.impl = created + 1
    BY <1>1, <1>3 DEF HandedIn
<1> HIDE DEF e
<1>5. /\ created + 1 \notin Impls(m_eventsWithContext)
      /\ \A f \in Known : f.impl # created + 1
    <2>1. created + 1 \notin Impls(m_eventsWithContext)
        BY <1>2 DEF SimInv, EachInOnePlace, Split
    <2>2. \A f \in EventIds : f.impl \in 1 .. created
        BY DEF EventIds
    <2>3. Known \subseteq EventIds
        BY DEF SimInv, TypeOK, Known
    <2> QED BY <1>2, <2>1, <2>2, <2>3
<1>6. /\ m_eventsWithContext' \in Seq(HandedIn')
      /\ Len(m_eventsWithContext') = Len(m_eventsWithContext) + 1
      /\ Impls(m_eventsWithContext') = Impls(m_eventsWithContext) \cup {created + 1}
      /\ ImplsOnce(m_eventsWithContext')
    BY <1>1, <1>3, <1>4, <1>5, ImplsOfAppend DEF SimInv, EachInOnePlace
<1>7. TypeOK'
    <2>1. /\ m_stop \in BOOLEAN
          /\ m_currentTs \in Nat /\ m_currentUid \in 0 .. UidMod - 1 /\ m_uid \in 0 .. UidMod - 1
          /\ m_unscheduledEvents \in Nat /\ m_destroyEvents \in Seq(ids)
          /\ pc \in {"program", "handler", "destroy", "skipped", "disposed",
                     "look", "swap", "insert", "loop"}
        BY DEF SimInv, TypeOK
    <2> QED BY <1>1, <1>3, <1>6, <2>1 DEF TypeOK
<1>8. EachInOnePlace'
    <2>1. Split(Listed, Impls(m_eventsWithContext) \cup {created + 1}, Impls(taken),
                Impls(m_destroyEvents), gone, created + 1)
        BY <1>2, SplitEnter DEF SimInv, EachInOnePlace
    <2>2. Listed' = Listed
        BY <1>1 DEF Listed
    <2> QED BY <1>1, <1>6, <2>1, <2>2 DEF SimInv, EachInOnePlace
<1>9. UidsCounted'
    BY <1>1, <1>2, <1>6 DEF SimInv, UidsCounted, VALID
<1>10. IdsTrue'
    <2>1. Known' = Known /\ ids \subseteq Known
        BY <1>1 DEF Known
    <2>2. \A f \in ids' : f.impl \notin Impls(m_eventsWithContext') /\ f.impl \notin Impls(taken')
        BY <1>1, <1>5, <1>6, <2>1 DEF SimInv, IdsTrue
    <2> QED BY <1>1, <2>1, <2>2 DEF SimInv, IdsTrue
<1>11. ClockTrue'
    BY <1>1 DEF SimInv, ClockTrue, Past
<1>12. HandedInIsSeen'
    BY <1>1 DEF HandedInIsSeen
<1> QED BY <1>7, <1>8, <1>9, <1>10, <1>11, <1>12 DEF SimInv

-----------------------------------------------------------------------------
(* The main thread in Run.                                                 *)

\* An event taken from the queue enters the list.
LEMMA InsertTakenSimInv ==
    ASSUME SimInv, InsertTaken
    PROVE  SimInv'
<1> DEFINE impl  == Head(taken).impl
           delay == Head(taken).timestamp
           e     == Entered(impl, delay)
<1>1. /\ taken # <<>> /\ pc = "insert"
      /\ Insert(impl, delay)
      /\ taken' = Tail(taken)
      /\ UNCHANGED <<m_eventsWithContext, m_eventsWithContextEmpty, m_destroyEvents, m_stop,
                     m_currentTs, m_currentUid, m_cancel, pc, created, ids, invoked, gone>>
    BY DEF InsertTaken, queue, clock, program, history
<1>2. /\ created \in Nat /\ m_uid \in Nat /\ created <= MaxEvents /\ MaxEvents \in Nat
      /\ Len(m_eventsWithContext) \in Nat /\ Len(taken) \in Nat
      /\ taken \in Seq(HandedIn) /\ ImplsOnce(taken) /\ m_currentUid \in Nat
    BY SimulatorAssumption DEF SimInv, TypeOK, EachInOnePlace
<1>3. /\ taken' \in Seq(HandedIn) /\ Head(taken) \in HandedIn
      /\ Len(taken') = Len(taken) - 1 /\ 1 \in 1 .. Len(taken)
      /\ Impls(taken') = Impls(taken) \ {impl} /\ ImplsOnce(taken')
      /\ Head(taken) = taken[1]
    BY <1>1, <1>2, ImplsOfTail
<1>4. impl \in Impls(taken)
    BY <1>3 DEF Impls
<1>5. impl \in 1 .. created' /\ delay \in Nat
    <2>1. impl \in 1 .. created /\ delay \in Delays
        BY <1>3 DEF HandedIn
    <2> QED BY <1>1, <2>1, SimulatorAssumption
<1>6. m_uid + Len(m_eventsWithContext) + Len(taken) <= VALID + created /\ VALID \in Nat
    BY DEF SimInv, UidsCounted, VALID
<1>7. m_uid < VALID + MaxEvents
    BY <1>2, <1>3, <1>6
<1>8. UNCHANGED clock
    BY <1>1 DEF clock
<1> HIDE DEF impl, delay
<1>9. /\ e \in EventIds'
      /\ m_events' = m_events \cup {e}
      /\ m_uid' = m_uid + 1 /\ m_uid' \in 0 .. UidMod - 1
      /\ m_unscheduledEvents' \in Nat
      /\ IsFiniteSet(m_events')
      /\ pc # "disposed" => m_unscheduledEvents' = Cardinality(m_events')
      /\ Listed' = Listed \cup {impl}
      /\ \A f \in m_events' : ~Past(f)'
      /\ \A id \in ids : Past(id) => Past(id)'
    BY <1>1, <1>5, <1>7, <1>8, InsertEnters
<1>10. e.impl = impl /\ e.uid = m_uid
    BY DEF Entered
<1> HIDE DEF e
<1>11. TypeOK'
    <2>1. EventIds' = EventIds /\ HandedIn' = HandedIn
        BY <1>1 DEF EventIds, HandedIn
    <2>2. m_events' \subseteq EventIds'
        BY <1>9, <2>1 DEF SimInv, TypeOK
    <2>3. /\ m_eventsWithContext \in Seq(HandedIn)
          /\ m_eventsWithContextEmpty \in BOOLEAN /\ m_stop \in BOOLEAN
          /\ m_currentTs \in Nat /\ m_currentUid \in 0 .. UidMod - 1
          /\ m_destroyEvents \in Seq(ids) /\ ids \subseteq EventIds
          /\ m_cancel \subseteq 1 .. created /\ gone \subseteq 1 .. created
          /\ invoked \in Seq(1 .. created) /\ created \in 0 .. MaxEvents
          /\ pc \in {"program", "handler", "destroy", "skipped", "disposed",
                     "look", "swap", "insert", "loop"}
        BY DEF SimInv, TypeOK
    <2> QED BY <1>1, <1>3, <1>9, <2>1, <2>2, <2>3 DEF TypeOK
<1>12. EachInOnePlace'
    <2>1. Split(Listed \cup {impl}, Impls(m_eventsWithContext), Impls(taken) \ {impl},
                Impls(m_destroyEvents), gone, created)
        BY <1>4, SplitMove DEF SimInv, EachInOnePlace
    <2> QED BY <1>1, <1>3, <1>9, <2>1 DEF SimInv, EachInOnePlace
<1>13. UidsCounted'
    BY <1>1, <1>2, <1>3, <1>6, <1>9 DEF SimInv, UidsCounted
<1>14. IdsTrue'
    <2>1. Known' = Known \cup {e}
        BY <1>1, <1>9 DEF Known
    <2>2. \A f \in Known : f.impl # e.impl
        <3>1. impl \notin Listed
            BY <1>4 DEF SimInv, EachInOnePlace, Split
        <3>2. \A f \in m_events : f.impl # impl
            BY <3>1 DEF Listed
        <3> QED BY <1>4, <1>10, <3>2 DEF SimInv, IdsTrue, Known
    <2>3. /\ \A f \in Known' : f.uid = DESTROY \/ f.uid < m_uid'
          /\ \A f, g \in Known' : f.uid = g.uid => f = g \/ f.uid = DESTROY
          /\ \A f, g \in Known' : f.impl = g.impl => f = g
        BY <1>9, <1>10, <2>1, <2>2, KnownGrows
    <2>4. \A f \in m_events' : f.uid # DESTROY
        BY <1>2, <1>9, <1>10 DEF SimInv, IdsTrue, UidsCounted, DESTROY, VALID
    <2> QED BY <1>1, <1>3, <2>3, <2>4 DEF SimInv, IdsTrue
<1>15. ClockTrue'
    <2>1. \A id \in ids' : \/ id.uid = DESTROY \/ id \in m_events'
                            \/ Past(id)' \/ id.impl \in m_cancel
        BY <1>1, <1>9 DEF SimInv, ClockTrue
    <2> QED BY <1>1, <1>9, <2>1 DEF ClockTrue
<1>16. HandedInIsSeen'
    BY <1>1 DEF SimInv, HandedInIsSeen
<1> QED BY <1>11, <1>12, <1>13, <1>14, <1>15, <1>16 DEF SimInv

\* The main thread takes the queue.
LEMMA SwapSimInv ==
    ASSUME SimInv, SwapQueues
    PROVE  SimInv'
<1>1. /\ pc = "swap" /\ pc' = "insert"
      /\ taken' = m_eventsWithContext
      /\ m_eventsWithContext' = <<>> /\ m_eventsWithContextEmpty' = TRUE
      /\ UNCHANGED <<m_events, m_uid, m_unscheduledEvents, m_destroyEvents, m_stop,
                     m_currentTs, m_currentUid, m_cancel, created, ids, invoked, gone>>
    BY DEF SwapQueues, list, clock, program, history
<1>2. taken = <<>>
    BY <1>1 DEF SimInv, EachInOnePlace
<1>3. TypeOK'
    <2>1. EventIds' = EventIds /\ HandedIn' = HandedIn
        BY <1>1 DEF EventIds, HandedIn
    <2>2. m_eventsWithContext' \in Seq(HandedIn)
        BY <1>1, EmptySeq
    <2> QED BY <1>1, <2>1, <2>2 DEF SimInv, TypeOK
<1>4. EachInOnePlace'
    <2>1. Impls(taken) = {} /\ Impls(m_eventsWithContext') = {}
            /\ ImplsOnce(m_eventsWithContext')
        BY <1>1, <1>2, ImplsOfEmpty
    <2>2. Split(Listed, {}, Impls(m_eventsWithContext), Impls(m_destroyEvents), gone, created)
        BY <2>1, SplitMove DEF SimInv, EachInOnePlace
    <2>3. Listed' = Listed
        BY <1>1 DEF Listed
    <2> QED BY <1>1, <2>1, <2>2, <2>3 DEF SimInv, EachInOnePlace
<1>5. UidsCounted'
    <2>1. Len(taken) = 0 /\ Len(m_eventsWithContext') = 0
        BY <1>1, <1>2, EmptySeq
    <2>2. Len(m_eventsWithContext) \in Nat /\ m_uid \in Nat
        BY DEF SimInv, TypeOK
    <2> QED BY <1>1, <2>1, <2>2 DEF SimInv, UidsCounted
<1>6. IdsTrue'
    <2>1. Known' = Known
        BY <1>1 DEF Known
    <2>2. Impls(m_eventsWithContext') = {}
        BY <1>1, ImplsOfEmpty
    <2> QED BY <1>1, <2>1, <2>2 DEF SimInv, IdsTrue
<1>7. ClockTrue'
    BY <1>1 DEF SimInv, ClockTrue, Past
<1>8. HandedInIsSeen'
    BY <1>1 DEF HandedInIsSeen
<1> QED BY <1>3, <1>4, <1>5, <1>6, <1>7, <1>8 DEF SimInv

\* What leaves the list makes no other event past, and is known no more.
LEMMA EventLeaves ==
    ASSUME SimInv, NEW e \in m_events, m_events' = m_events \ {e},
           m_unscheduledEvents' = m_unscheduledEvents - 1,
           gone' = gone \cup {e.impl},
           UNCHANGED <<m_eventsWithContext, taken, m_destroyEvents, created, ids, m_uid>>,
           pc # "disposed", pc \notin {"insert"}
    PROVE  /\ Split(Listed', Impls(m_eventsWithContext'), Impls(taken'),
                    Impls(m_destroyEvents'), gone', created')
           /\ IsFiniteSet(m_events')
           /\ m_unscheduledEvents' = Cardinality(m_events')
           /\ m_unscheduledEvents' \in Nat
           /\ m_events' \subseteq EventIds' /\ gone' \subseteq 1 .. created'
           /\ IdsTrue'
<1>1. e.impl \in Listed /\ Listed' = Listed \ {e.impl}
    <2>1. \A f \in m_events : f.impl = e.impl => f = e
        BY DEF SimInv, IdsTrue, Known
    <2> QED BY <2>1 DEF Listed
<1>2. Split(Listed \ {e.impl}, Impls(m_eventsWithContext), Impls(taken),
            Impls(m_destroyEvents), gone \cup {e.impl}, created)
    BY <1>1, SplitMove DEF SimInv, EachInOnePlace
<1>3. /\ IsFiniteSet(m_events') /\ Cardinality(m_events') = Cardinality(m_events) - 1
      /\ Cardinality(m_events') \in Nat
    BY FS_RemoveElement, FS_CardinalityType DEF SimInv, EachInOnePlace
<1>4. m_unscheduledEvents = Cardinality(m_events)
    BY DEF SimInv, EachInOnePlace
<1>5. m_events' \subseteq EventIds' /\ gone' \subseteq 1 .. created'
    <2>1. EventIds' = EventIds
        BY DEF EventIds
    <2>2. e.impl \in 1 .. created
        BY DEF SimInv, TypeOK, EventIds
    <2> QED BY <2>1, <2>2 DEF SimInv, TypeOK
<1>6. IdsTrue'
    <2>1. Known' \subseteq Known
        BY DEF Known
    <2> QED BY <2>1 DEF SimInv, IdsTrue
<1> QED BY <1>1, <1>2, <1>3, <1>4, <1>5, <1>6
\* The next event leaves the list and sets the clock.
LEMMA ProcessSimInv ==
    ASSUME SimInv, ProcessOneEvent
    PROVE  SimInv'
<1>1. /\ pc = "loop" /\ m_events # {}
      /\ m_events' = m_events \ {NextEvent}
      /\ m_unscheduledEvents' = m_unscheduledEvents - 1
      /\ m_currentTs' = NextEvent.ts /\ m_currentUid' = NextEvent.uid
      /\ gone' = gone \cup {NextEvent.impl}
      /\ UNCHANGED <<m_uid, m_eventsWithContext, m_eventsWithContextEmpty, m_destroyEvents,
                     m_stop, m_cancel, taken, created, ids>>
      /\ \/ pc' = "handler" /\ invoked' = Append(invoked, NextEvent.impl)
         \/ pc' = "look" /\ invoked' = invoked
    BY DEF ProcessOneEvent, queue, program
<1>0. PICK e : e = NextEvent
    OBVIOUS
<1>2. m_events \subseteq EventIds /\ \A f \in EventIds : f.ts \in Nat /\ f.uid \in 0 .. UidMod - 1
    BY DEF SimInv, TypeOK, EventIds
<1>3. e \in m_events /\ \A other \in m_events \ {e} : Before(e, other)
    <2>1. \A f \in m_events : f.ts \in Nat /\ f.uid \in Nat
        BY <1>2
    <2>2. \A f, g \in m_events : f.uid = g.uid => f = g
        BY DEF SimInv, IdsTrue, Known
    <2>3. \E f \in m_events : \A other \in m_events \ {f} : Before(f, other)
        BY <1>1, <2>1, <2>2, NextExists
    <2> QED BY <1>0, <2>3 DEF NextEvent
<1>4. /\ Split(Listed', Impls(m_eventsWithContext'), Impls(taken'),
               Impls(m_destroyEvents'), gone', created')
      /\ IsFiniteSet(m_events')
      /\ m_unscheduledEvents' = Cardinality(m_events')
      /\ m_unscheduledEvents' \in Nat
      /\ m_events' \subseteq EventIds' /\ gone' \subseteq 1 .. created'
      /\ IdsTrue'
    <2>1. /\ m_events' = m_events \ {e} /\ gone' = gone \cup {e.impl}
          /\ pc # "disposed" /\ pc \notin {"insert"}
        BY <1>0, <1>1
    <2> QED BY <1>1, <1>3, <2>1, EventLeaves
<1>5. m_currentTs' = e.ts /\ m_currentUid' = e.uid /\ m_events' = m_events \ {e}
    BY <1>0, <1>1
<1>6. e.ts \in Nat /\ e.uid \in 0 .. UidMod - 1 /\ e.impl \in 1 .. created
    BY <1>3 DEF SimInv, TypeOK, EventIds
<1>7. TypeOK'
    <2>1. EventIds' = EventIds /\ HandedIn' = HandedIn
        BY <1>1 DEF EventIds, HandedIn
    <2>2. invoked' \in Seq(1 .. created)
        <3>1. invoked \in Seq(1 .. created)
            BY DEF SimInv, TypeOK
        <3>2. Append(invoked, e.impl) \in Seq(1 .. created)
            BY <1>6, <3>1, AppendProperties
        <3> QED BY <1>0, <1>1, <3>1, <3>2
    <2>3. pc' \in {"program", "handler", "destroy", "skipped", "disposed",
                   "look", "swap", "insert", "loop"}
        BY <1>1
    <2>4. /\ m_eventsWithContext \in Seq(HandedIn) /\ taken \in Seq(HandedIn)
          /\ m_eventsWithContextEmpty \in BOOLEAN /\ m_stop \in BOOLEAN
          /\ m_destroyEvents \in Seq(ids) /\ ids \subseteq EventIds
          /\ m_cancel \subseteq 1 .. created /\ created \in 0 .. MaxEvents
          /\ m_uid \in 0 .. UidMod - 1
        BY DEF SimInv, TypeOK
    <2> QED BY <1>1, <1>4, <1>5, <1>6, <2>1, <2>2, <2>3, <2>4 DEF TypeOK
<1>8. EachInOnePlace'
    BY <1>1, <1>4 DEF SimInv, EachInOnePlace
<1>9. UidsCounted'
    <2>1. e.uid < m_uid
        BY <1>3 DEF SimInv, IdsTrue, Known
    <2> QED BY <1>1, <1>5, <2>1 DEF SimInv, UidsCounted
<1>10. ~Past(e) /\ m_currentTs \in Nat /\ m_currentUid \in Nat
    BY <1>3 DEF SimInv, ClockTrue, TypeOK
\* The clock goes forward, to the event and not beyond the next.
<1>11. ASSUME NEW f, f.ts \in Nat, f.uid \in Nat, Past(f)
       PROVE  Past(f)'
    BY <1>5, <1>6, <1>10, <1>11 DEF Past
<1>12. Past(e)'
    BY <1>5, <1>6 DEF Past
<1>13. ASSUME NEW f \in m_events' PROVE ~Past(f)'
    <2>1. f \in m_events \ {e} /\ Before(e, f) /\ f.ts \in Nat /\ f.uid \in 0 .. UidMod - 1
        BY <1>2, <1>3, <1>5, <1>13
    <2>2. e.ts < f.ts \/ (e.ts = f.ts /\ e.uid < f.uid)
        BY <2>1 DEF Before
    <2> QED BY <1>5, <1>6, <2>1, <2>2 DEF Past
<1>14. ASSUME NEW id \in ids'
       PROVE  \/ id.uid = DESTROY \/ id \in m_events' \/ Past(id)' \/ id.impl \in m_cancel'
    <2>1. id \in ids /\ id.ts \in Nat /\ id.uid \in Nat
        BY <1>1, <1>2 DEF SimInv, TypeOK, EventIds
    <2>2. \/ id.uid = DESTROY \/ id \in m_events \/ Past(id) \/ id.impl \in m_cancel
        BY <1>1, <2>1 DEF SimInv, ClockTrue
    <2>3. CASE id \in m_events
        <3>1. CASE id = e
            BY <1>12, <3>1
        <3>2. CASE id # e
            BY <1>5, <2>3, <3>2
        <3> QED BY <3>1, <3>2
    <2> QED BY <1>1, <1>11, <2>1, <2>2, <2>3
<1>15. ClockTrue'
    BY <1>13, <1>14 DEF ClockTrue
<1>16. HandedInIsSeen'
    BY <1>1 DEF SimInv, HandedInIsSeen
<1> QED BY <1>4, <1>7, <1>8, <1>9, <1>15, <1>16 DEF SimInv

\* Steps that neither create nor move an event.
LEMMA QuietSimInv ==
    ASSUME SimInv,
           UNCHANGED <<list, queue, m_destroyEvents, clock, taken, program, history>>,
           m_stop' \in BOOLEAN, m_cancel \subseteq m_cancel', m_cancel' \subseteq 1 .. created,
           pc' \in {"program", "handler", "destroy", "skipped", "look", "swap", "insert", "loop"},
           pc # "disposed", pc' # "insert" => taken = <<>>
    PROVE  SimInv'
<1>1. UNCHANGED <<m_events, m_uid, m_unscheduledEvents, m_eventsWithContext,
                  m_eventsWithContextEmpty, m_destroyEvents, m_currentTs, m_currentUid,
                  taken, created, ids, invoked, gone>>
    BY DEF list, queue, clock, program, history
<1>2. TypeOK'
    <2>1. EventIds' = EventIds /\ HandedIn' = HandedIn
        BY <1>1 DEF EventIds, HandedIn
    <2> QED BY <1>1, <2>1 DEF SimInv, TypeOK
<1>3. EachInOnePlace'
    <2>1. Listed' = Listed
        BY <1>1 DEF Listed
    <2> QED BY <1>1, <2>1 DEF SimInv, EachInOnePlace
<1>4. UidsCounted'
    BY <1>1 DEF SimInv, UidsCounted
<1>5. IdsTrue'
    BY <1>1 DEF SimInv, IdsTrue, Known
<1>6. ClockTrue'
    BY <1>1 DEF SimInv, ClockTrue, Past
<1>7. HandedInIsSeen'
    BY <1>1 DEF SimInv, HandedInIsSeen
<1> QED BY <1>2, <1>3, <1>4, <1>5, <1>6, <1>7 DEF SimInv

-----------------------------------------------------------------------------
(* Calls that end an event.                                                *)

LEMMA CancelSimInv ==
    ASSUME SimInv, NEW id \in ids, Cancel(id)
    PROVE  SimInv'
<1>1. /\ pc \in {"program", "handler", "destroy"}
      /\ m_cancel' = m_cancel \cup {id.impl} /\ m_stop' = m_stop /\ pc' = pc
      /\ UNCHANGED <<list, queue, m_destroyEvents, clock, taken, program, history>>
    BY DEF Cancel, Calling
<1>2. id.impl \in 1 .. created /\ m_stop \in BOOLEAN /\ m_cancel \subseteq 1 .. created
    BY DEF SimInv, TypeOK, EventIds
<1>3. taken = <<>>
    BY <1>1 DEF SimInv, EachInOnePlace
<1> QED BY <1>1, <1>2, <1>3, QuietSimInv

\* An id that is not expired is in the list, and nothing else has its key.
LEMMA RemoveEventSimInv ==
    ASSUME SimInv, NEW id \in ids, Remove(id), id.uid # DESTROY
    PROVE  SimInv'
<1>1. /\ pc \in {"program", "handler", "destroy"}
      /\ ~IsExpired(id)
      /\ m_events' = {e \in m_events : e.ts # id.ts \/ e.uid # id.uid}
      /\ m_cancel' = m_cancel \cup {id.impl}
      /\ m_unscheduledEvents' = m_unscheduledEvents - 1
      /\ gone' = gone \cup {id.impl}
      /\ UNCHANGED <<m_uid, m_eventsWithContext, m_eventsWithContextEmpty, m_destroyEvents,
                     m_stop, m_currentTs, m_currentUid, taken, pc, created, ids, invoked>>
    BY DEF Remove, RemoveEvent, Calling, queue, clock, program
<1>2. id \in m_events
    BY <1>1 DEF IsExpired, SimInv, ClockTrue, Past
<1>3. m_events' = m_events \ {id}
    <2>1. \A e \in m_events : e.uid = id.uid => e = id
        BY DEF SimInv, IdsTrue, Known
    <2> QED BY <1>1, <2>1
<1>4. /\ Split(Listed', Impls(m_eventsWithContext'), Impls(taken'),
               Impls(m_destroyEvents'), gone', created')
      /\ IsFiniteSet(m_events')
      /\ m_unscheduledEvents' = Cardinality(m_events')
      /\ m_unscheduledEvents' \in Nat
      /\ m_events' \subseteq EventIds' /\ gone' \subseteq 1 .. created'
      /\ IdsTrue'
    <2>1. pc # "disposed" /\ pc \notin {"insert"}
        BY <1>1
    <2> QED BY <1>1, <1>2, <1>3, <2>1, EventLeaves
<1>5. TypeOK'
    <2>1. EventIds' = EventIds /\ HandedIn' = HandedIn
        BY <1>1 DEF EventIds, HandedIn
    <2>2. m_cancel' \subseteq 1 .. created
        BY <1>1 DEF SimInv, TypeOK, EventIds
    <2> QED BY <1>1, <1>4, <2>1, <2>2 DEF SimInv, TypeOK
<1>6. EachInOnePlace'
    BY <1>1, <1>4 DEF SimInv, EachInOnePlace
<1>7. UidsCounted'
    BY <1>1 DEF SimInv, UidsCounted
<1>8. ClockTrue'
    <2>1. ASSUME NEW i \in ids
          PROVE  \/ i.uid = DESTROY \/ i \in m_events' \/ Past(i) \/ i.impl \in m_cancel'
        BY <1>1, <1>3 DEF SimInv, ClockTrue
    <2>2. \A e : Past(e)' <=> Past(e)
        BY <1>1 DEF Past
    <2> QED BY <1>1, <1>3, <2>1, <2>2 DEF SimInv, ClockTrue
<1>9. HandedInIsSeen'
    BY <1>1 DEF SimInv, HandedInIsSeen
<1> QED BY <1>4, <1>5, <1>6, <1>7, <1>8, <1>9 DEF SimInv

\* A destroy event leaves its list, at whatever place.
LEMMA DestroyEventLeaves ==
    ASSUME SimInv, NEW i \in 1 .. Len(m_destroyEvents),
           Without(m_destroyEvents, m_destroyEvents', i), m_destroyEvents' \in Seq(ids),
           gone' = gone \cup {m_destroyEvents[i].impl},
           UNCHANGED <<list, queue, m_stop, clock, m_cancel, taken, program, invoked>>,
           pc # "disposed", pc # "insert", pc' \in {"program", "handler", "destroy", "skipped"}
    PROVE  SimInv'
<1>1. UNCHANGED <<m_events, m_uid, m_unscheduledEvents, m_eventsWithContext,
                  m_eventsWithContextEmpty, m_stop, m_currentTs, m_currentUid,
                  m_cancel, taken, created, ids, invoked>>
    BY DEF list, queue, clock, program
<1>2. /\ m_destroyEvents \in Seq(ids) /\ Len(m_destroyEvents) \in Nat
      /\ ImplsOnce(m_destroyEvents)
    BY DEF SimInv, TypeOK, EachInOnePlace
<1> DEFINE d == m_destroyEvents'
           impl == m_destroyEvents[i].impl
<1>3. Without(m_destroyEvents, d, i) /\ d \in Seq(ids)
    OBVIOUS
<1> HIDE DEF d
<1>4. Impls(d) = Impls(m_destroyEvents) \ {impl} /\ ImplsOnce(d)
    BY <1>2, <1>3, ImplsWithout
<1>5. impl \in Impls(m_destroyEvents) /\ impl \in 1 .. created
    <2>1. impl \in Impls(m_destroyEvents)
        BY DEF Impls
    <2>2. Impls(m_destroyEvents) \subseteq 1 .. created
        BY DEF SimInv, EachInOnePlace, Split
    <2> QED BY <2>1, <2>2
<1> HIDE DEF impl
<1>6. gone' = gone \cup {impl}
    BY DEF impl
<1>7. TypeOK'
    <2>1. EventIds' = EventIds /\ HandedIn' = HandedIn
        BY <1>1 DEF EventIds, HandedIn
    <2> QED BY <1>1, <1>5, <1>6, <2>1 DEF SimInv, TypeOK
<1>8. EachInOnePlace'
    <2>1. Split(Listed, Impls(m_eventsWithContext), Impls(taken),
                Impls(m_destroyEvents) \ {impl}, gone \cup {impl}, created)
        BY <1>5, SplitMove DEF SimInv, EachInOnePlace
    <2>2. Listed' = Listed
        BY <1>1 DEF Listed
    <2> QED BY <1>1, <1>4, <1>6, <2>1, <2>2 DEF SimInv, EachInOnePlace, d
<1>9. UidsCounted'
    BY <1>1 DEF SimInv, UidsCounted
<1>10. IdsTrue'
    <2>1. ASSUME NEW k \in 1 .. Len(d) PROVE d[k].uid = DESTROY
        <3>1. /\ Len(d) = Len(m_destroyEvents) - 1
              /\ d[k] = IF k < i THEN m_destroyEvents[k] ELSE m_destroyEvents[k + 1]
            BY <1>3 DEF Without
        <3>2. k \in 1 .. Len(m_destroyEvents) /\ k + 1 \in 1 .. Len(m_destroyEvents)
            BY <1>2, <3>1
        <3> QED BY <3>1, <3>2 DEF SimInv, IdsTrue
    <2>2. Known' = Known
        BY <1>1 DEF Known
    <2> QED BY <1>1, <2>1, <2>2 DEF SimInv, IdsTrue, d
<1>11. ClockTrue'
    BY <1>1 DEF SimInv, ClockTrue, Past
<1>12. HandedInIsSeen'
    BY <1>1 DEF SimInv, HandedInIsSeen
<1> QED BY <1>7, <1>8, <1>9, <1>10, <1>11, <1>12 DEF SimInv
LEMMA RemoveDestroyEventSimInv ==
    ASSUME SimInv, NEW id \in ids, Remove(id), id.uid = DESTROY
    PROVE  SimInv'
<1>1. /\ pc \in {"program", "handler", "destroy"}
      /\ gone' = gone \cup {id.impl}
      /\ UNCHANGED <<list, queue, m_stop, clock, m_cancel, taken, program, invoked, pc>>
    BY DEF Remove, RemoveDestroyEvent, Calling, list
<1>2. /\ m_destroyEvents \in Seq(ids) /\ Len(m_destroyEvents) \in Nat
      /\ ImplsOnce(m_destroyEvents)
    BY DEF SimInv, TypeOK, EachInOnePlace
<1>3. PICK i \in 1 .. Len(m_destroyEvents) :
          /\ m_destroyEvents[i] = id
          /\ m_destroyEvents' = SeqExt!RemoveAt(m_destroyEvents, i)
    BY <1>2 DEF Remove, RemoveDestroyEvent
<1>4. Without(m_destroyEvents, m_destroyEvents', i) /\ m_destroyEvents' \in Seq(ids)
    BY <1>2, <1>3, ImplsOfRemoveAt
<1>5. gone' = gone \cup {m_destroyEvents[i].impl} /\ pc # "disposed" /\ pc # "insert"
      /\ pc' \in {"program", "handler", "destroy", "skipped"}
    BY <1>1, <1>3
<1> QED BY <1>1, <1>3, <1>4, <1>5, DestroyEventLeaves

LEMMA RunDestroyEventSimInv ==
    ASSUME SimInv, RunDestroyEvent
    PROVE  SimInv'
<1>1. /\ pc \in {"program", "destroy", "skipped"} /\ pc' \in {"skipped", "destroy"}
      /\ m_destroyEvents # <<>> /\ m_destroyEvents' = Tail(m_destroyEvents)
      /\ gone' = gone \cup {Head(m_destroyEvents).impl}
      /\ UNCHANGED <<list, queue, m_stop, clock, m_cancel, taken, program, invoked>>
    BY DEF RunDestroyEvent
<1>2. m_destroyEvents \in Seq(ids)
    BY DEF SimInv, TypeOK
<1>3. /\ m_destroyEvents' \in Seq(ids)
      /\ Len(m_destroyEvents') = Len(m_destroyEvents) - 1
      /\ \A i \in 1 .. Len(m_destroyEvents') : m_destroyEvents'[i] = m_destroyEvents[i + 1]
    BY <1>1, <1>2, HeadTailProperties
<1>4. Head(m_destroyEvents) = m_destroyEvents[1] /\ Len(m_destroyEvents) \in Nat
      /\ 1 \in 1 .. Len(m_destroyEvents)
    BY <1>1, <1>2, EmptySeq
<1>5. Without(m_destroyEvents, m_destroyEvents', 1)
    <2>1. \A k \in 1 .. Len(m_destroyEvents') : ~(k < 1)
        BY <1>3, <1>4
    <2> QED BY <1>3, <2>1 DEF Without
<1>6. gone' = gone \cup {m_destroyEvents[1].impl} /\ pc # "disposed" /\ pc # "insert"
      /\ pc' \in {"program", "handler", "destroy", "skipped"}
    BY <1>1, <1>4
<1> QED BY <1>1, <1>3, <1>4, <1>5, <1>6, DestroyEventLeaves

\* What is left is released.
LEMMA DisposeSimInv ==
    ASSUME SimInv, Dispose
    PROVE  SimInv'
<1>1. /\ pc \in {"program", "destroy", "skipped"} /\ pc' = "disposed"
      /\ m_destroyEvents = <<>> /\ gone' = 1 .. created
      /\ m_events' = {} /\ m_eventsWithContext' = <<>> /\ m_eventsWithContextEmpty' = TRUE
      /\ UNCHANGED <<m_uid, m_unscheduledEvents, m_destroyEvents, m_stop, m_currentTs,
                     m_currentUid, m_cancel, taken, created, ids, invoked>>
    BY DEF Dispose, clock, program
<1>2. taken = <<>> /\ Len(taken) = 0 /\ Len(m_eventsWithContext') = 0
    BY <1>1, EmptySeq DEF SimInv, EachInOnePlace
<1>3. TypeOK'
    <2>1. EventIds' = EventIds /\ HandedIn' = HandedIn
        BY <1>1 DEF EventIds, HandedIn
    <2>2. m_eventsWithContext' \in Seq(HandedIn)
        BY <1>1, EmptySeq
    <2> QED BY <1>1, <2>1, <2>2 DEF SimInv, TypeOK
<1>4. EachInOnePlace'
    <2>1. /\ Listed' = {} /\ Impls(m_eventsWithContext') = {} /\ ImplsOnce(m_eventsWithContext')
          /\ Impls(taken') = {} /\ Impls(m_destroyEvents') = {}
          /\ IsFiniteSet({})
        BY <1>1, <1>2, ImplsOfEmpty, FS_EmptySet DEF Listed
    <2>2. Split({}, {}, {}, {}, 1 .. created, created)
        BY DEF Split
    <2> QED BY <1>1, <1>2, <2>1, <2>2 DEF SimInv, EachInOnePlace
<1>5. UidsCounted'
    <2>1. Len(m_eventsWithContext) \in Nat /\ m_uid \in Nat /\ created \in Nat
        BY DEF SimInv, TypeOK
    <2> QED BY <1>1, <1>2, <2>1 DEF SimInv, UidsCounted, VALID
<1>6. IdsTrue'
    <2>1. Known' \subseteq Known
        BY <1>1 DEF Known
    <2>2. Impls(m_eventsWithContext') = {}
        BY <1>1, ImplsOfEmpty
    <2> QED BY <1>1, <2>1, <2>2 DEF SimInv, IdsTrue
<1>7. ClockTrue'
    BY <1>1 DEF ClockTrue
<1>8. HandedInIsSeen'
    BY <1>1 DEF HandedInIsSeen
<1> QED BY <1>3, <1>4, <1>5, <1>6, <1>7, <1>8 DEF SimInv

-----------------------------------------------------------------------------
(* The theorems.                                                           *)

LEMMA NextSimInv == SimInv /\ [Next]_vars => SimInv'
<1> SUFFICES ASSUME SimInv, [Next]_vars PROVE SimInv'
    OBVIOUS
<1>1. ASSUME NEW delay \in Delays, Schedule(delay) PROVE SimInv'
    <2>1. ids' = ids \cup {Entered(created', delay)}
        BY <1>1 DEF Schedule, Entered
    <2> QED BY <1>1, <2>1, ScheduleSimInv DEF Schedule
<1>2. ASSUME NEW delay \in Delays, ScheduleWithContext(delay) PROVE SimInv'
    BY <1>2, ScheduleSimInv DEF ScheduleWithContext
<1>3. ASSUME NEW delay \in Delays, HandIn(delay) PROVE SimInv'
    BY <1>3, HandInSimInv
<1>4. CASE ScheduleDestroy
    BY <1>4, ScheduleDestroySimInv
<1>5. ASSUME NEW id \in ids, Cancel(id) PROVE SimInv'
    BY <1>5, CancelSimInv
<1>6. ASSUME NEW id \in ids, Remove(id) PROVE SimInv'
    BY <1>6, RemoveEventSimInv, RemoveDestroyEventSimInv
<1>7. TypeOK /\ (pc # "insert" => taken = <<>>)
    BY DEF SimInv, EachInOnePlace
<1>8. CASE Stop
    BY <1>7, <1>8, QuietSimInv DEF Stop, Calling, TypeOK
<1>9. CASE Run
    BY <1>7, <1>9, QuietSimInv DEF Run, TypeOK
<1>10. CASE LookForHandedIn
    BY <1>7, <1>10, QuietSimInv DEF LookForHandedIn, TypeOK
<1>11. CASE SwapQueues
    BY <1>11, SwapSimInv
<1>12. CASE InsertTaken
    BY <1>12, InsertTakenSimInv
<1>13. CASE InsertedAll
    BY <1>7, <1>13, QuietSimInv DEF InsertedAll, TypeOK
<1>14. CASE ProcessOneEvent
    BY <1>14, ProcessSimInv
<1>15. CASE Return
    BY <1>7, <1>15, QuietSimInv DEF Return, TypeOK
<1>16. CASE RunDestroyEvent
    BY <1>16, RunDestroyEventSimInv
<1>17. CASE Dispose
    BY <1>17, DisposeSimInv
<1>18. CASE UNCHANGED vars
    <2>1. UNCHANGED <<m_events, m_uid, m_unscheduledEvents, m_eventsWithContext,
                      m_eventsWithContextEmpty, m_destroyEvents, m_stop, m_currentTs,
                      m_currentUid, m_cancel, taken, pc, created, ids, invoked, gone>>
        BY <1>18 DEF vars, list, queue, clock, program, history
    <2>2. TypeOK'
        BY <1>7, <2>1 DEF TypeOK, EventIds, HandedIn
    <2>3. EachInOnePlace' /\ UidsCounted'
        BY <2>1 DEF SimInv, EachInOnePlace, Listed, UidsCounted
    <2>4. IdsTrue' /\ ClockTrue' /\ HandedInIsSeen'
        BY <2>1 DEF SimInv, IdsTrue, Known, ClockTrue, Past, HandedInIsSeen
    <2> QED BY <2>2, <2>3, <2>4 DEF SimInv
<1> QED BY <1>1, <1>2, <1>3, <1>4, <1>5, <1>6, <1>8, <1>9, <1>10, <1>11, <1>12, <1>13, <1>14,
           <1>15, <1>16, <1>17, <1>18 DEF Next

\* The invariant holds in every reachable state.
LEMMA Invariant == Spec => []SimInv
BY InitSimInv, NextSimInv, PTL DEF Spec

\* Type correctness.
THEOREM Typed == Spec => []TypeOK
<1>1. SimInv => TypeOK
    BY DEF SimInv
<1> QED BY <1>1, Invariant, PTL

\* IsExpired, which reads only the clock and the cancel flag, tells of every
\* EventId the program may have kept whether its event is still to be invoked.
THEOREM ExpiryTold == Spec => []ExpiryTrue
<1>1. SimInv => ExpiryTrue
    <2> SUFFICES ASSUME SimInv, pc # "disposed", NEW id \in ids
                 PROVE  ~IsExpired(id) <=> /\ id \in m_events \cup Destroying
                                          /\ id.impl \notin m_cancel
        BY DEF ExpiryTrue
    <2>1. id \in Destroying => id.uid = DESTROY
        BY DEF Destroying, SeqExt!ToSet, SimInv, IdsTrue, TypeOK
    <2>2. id \in m_events => id.uid # DESTROY /\ ~Past(id)
        BY DEF SimInv, IdsTrue, ClockTrue
    <2>3. \/ id.uid = DESTROY \/ id \in m_events \/ Past(id) \/ id.impl \in m_cancel
        BY DEF SimInv, ClockTrue
    <2> QED BY <2>1, <2>2, <2>3 DEF IsExpired, Past
<1> QED BY <1>1, Invariant, PTL

\* No event is lost or kept twice between the threads, the list, the destroy
\* events and its end, and m_unscheduledEvents counts the list.
THEOREM KeptOnce == Spec => []EachKeptOnce
<1>1. SimInv => EachKeptOnce
    <2> SUFFICES ASSUME SimInv PROVE EachKeptOnce
        OBVIOUS
    <2>1. ASSUME NEW i \in 1 .. created
          PROVE  Cardinality({e \in m_events : e.impl = i})
                   + Copies(m_eventsWithContext, i) + Copies(taken, i)
                   + Copies(m_destroyEvents, i) + (IF i \in gone THEN 1 ELSE 0) = 1
        <3> DEFINE of == {e \in m_events : e.impl = i}
        <3>1. Cardinality(of) = IF i \in Listed THEN 1 ELSE 0
            <4>1. \A e, f \in of : e = f
                BY DEF SimInv, IdsTrue, Known
            <4>2. of = {} <=> i \notin Listed
                BY DEF Listed
            <4>3. Cardinality(of) = IF of = {} THEN 0 ELSE 1
                BY <4>1, CardinalityOfOne
            <4> QED BY <4>2, <4>3
        <3>2. /\ Copies(m_eventsWithContext, i) = IF i \in Impls(m_eventsWithContext) THEN 1 ELSE 0
              /\ Copies(taken, i) = IF i \in Impls(taken) THEN 1 ELSE 0
              /\ Copies(m_destroyEvents, i) = IF i \in Impls(m_destroyEvents) THEN 1 ELSE 0
            <4>1. /\ m_eventsWithContext \in Seq(HandedIn) /\ taken \in Seq(HandedIn)
                  /\ m_destroyEvents \in Seq(ids)
                BY DEF SimInv, TypeOK
            <4>2. /\ ImplsOnce(m_eventsWithContext) /\ ImplsOnce(taken)
                  /\ ImplsOnce(m_destroyEvents)
                BY DEF SimInv, EachInOnePlace
            <4> QED BY <4>1, <4>2, CopiesOnce
        <3> HIDE DEF of
        <3>3. Split(Listed, Impls(m_eventsWithContext), Impls(taken), Impls(m_destroyEvents),
                    gone, created)
            BY DEF SimInv, EachInOnePlace
        <3>4. /\ \/ i \in Listed \/ i \in Impls(m_eventsWithContext) \/ i \in Impls(taken)
                 \/ i \in Impls(m_destroyEvents) \/ i \in gone
              /\ i \in Listed => /\ i \notin Impls(m_eventsWithContext) /\ i \notin Impls(taken)
                                 /\ i \notin Impls(m_destroyEvents) /\ i \notin gone
              /\ i \in Impls(m_eventsWithContext) =>
                    i \notin Impls(taken) /\ i \notin Impls(m_destroyEvents) /\ i \notin gone
              /\ i \in Impls(taken) => i \notin Impls(m_destroyEvents) /\ i \notin gone
              /\ i \in Impls(m_destroyEvents) => i \notin gone
            BY <3>3 DEF Split
        <3> QED BY <3>1, <3>2, <3>4 DEF of
    <2> QED BY <2>1 DEF EachKeptOnce, SimInv, EachInOnePlace
<1> QED BY <1>1, Invariant, PTL

\* m_eventsWithContextEmpty, read without the mutex, is FALSE while the queue
\* holds an event of another thread.
THEOREM HandedInSeen == Spec => []HandedInIsSeen
<1>1. SimInv => HandedInIsSeen
    BY DEF SimInv
<1> QED BY <1>1, Invariant, PTL

-----------------------------------------------------------------------------
(* The scheduler implements EventCalendar.                                 *)

\* Different events of the list have different entries.
LEMMA EntryOnce ==
    ASSUME SimInv, NEW e \in m_events
    PROVE  /\ \A x : Entry(x) = Entry(e) <=> x.impl = e.impl /\ x.ts = e.ts /\ x.uid = e.uid
           /\ Entry(e) \in Agenda <=> e.impl \notin m_cancel
           /\ e.ts \in Nat /\ e.ts >= m_currentTs /\ e.uid \in Nat /\ e.uid < m_uid
<1>1. e \in EventIds /\ m_currentTs \in Nat /\ m_uid \in Nat
    BY DEF SimInv, TypeOK
<1>2. \A x : Entry(x) = Entry(e) <=> x.impl = e.impl /\ x.ts = e.ts /\ x.uid = e.uid
    BY DEF Entry
<1>3. Entry(e) \in Agenda <=> e.impl \notin m_cancel
    BY <1>2 DEF Agenda
<1>4. ~Past(e) /\ e.uid < m_uid
    BY DEF SimInv, ClockTrue, IdsTrue, Known
<1>5. e.ts \in Nat /\ e.uid \in Nat
    BY <1>1 DEF EventIds
<1> QED BY <1>1, <1>2, <1>3, <1>4, <1>5 DEF Past

\* An event that enters the list enters the agenda behind all others, unless it
\* is already cancelled.
LEMMA EntersAgenda ==
    ASSUME SimInv, NEW e, m_events' = m_events \cup {e}, e.ts \in Nat,
           e.ts >= m_currentTs, e.uid = m_uid,
           UNCHANGED <<m_currentTs, m_cancel, invoked>>
    PROVE  [Calendar!Next]_(Calendar!vars)
<1>1. CASE e.impl \in m_cancel
    <2>1. Agenda' = Agenda
        BY <1>1 DEF Agenda, Entry
    <2> QED BY <2>1 DEF Calendar!vars
<1>2. CASE e.impl \notin m_cancel
    <2>1. Agenda' = Agenda \cup {Entry(e)}
        BY <1>2 DEF Agenda, Entry
    <2>2. Entry(e).time = e.ts /\ Entry(e).turn = m_uid
        BY DEF Entry
    <2>3. \A f \in Agenda : f.turn < m_uid
        BY EntryOnce DEF Agenda, Entry
    <2>4. Calendar!Enter(Entry(e))
        BY <2>1, <2>2, <2>3 DEF Calendar!Enter, Calendar!Precedes
    <2> QED BY <2>1, <2>4 DEF Calendar!Next
<1> QED BY <1>1, <1>2

\* What Insert adds is due, and the last of its time.
LEMMA InsertAdds ==
    ASSUME SimInv, NEW impl, NEW delay \in Nat, Insert(impl, delay)
    PROVE  \E e : /\ m_events' = m_events \cup {e}
                  /\ e.ts \in Nat /\ e.ts >= m_currentTs /\ e.uid = m_uid
<1> DEFINE e == [impl |-> impl, ts |-> m_currentTs + delay, uid |-> m_uid]
<1>1. m_events' = m_events \cup {e}
    BY DEF Insert
<1>2. e.ts \in Nat /\ e.ts >= m_currentTs /\ e.uid = m_uid
    BY DEF SimInv, TypeOK
<1> HIDE DEF e
<1> QED BY <1>1, <1>2

\* One event is taken off the agenda, or was not on it.
LEMMA AgendaLess ==
    ASSUME NEW e, Agenda' = Agenda \ {Entry(e)}, UNCHANGED <<m_currentTs, invoked>>
    PROVE  [Calendar!Next]_(Calendar!vars)
<1>1. CASE Entry(e) \in Agenda
    BY <1>1 DEF Calendar!Next, Calendar!Strike
<1>2. CASE Entry(e) \notin Agenda
    <2>1. Agenda' = Agenda
        BY <1>2
    <2> QED BY <2>1 DEF Calendar!vars
<1> QED BY <1>1, <1>2

\* A cancelled event leaves the agenda, though not the list.
LEMMA CancelStrikes ==
    ASSUME SimInv, NEW id \in ids, Cancel(id)
    PROVE  [Calendar!Next]_(Calendar!vars)
<1>1. /\ m_events' = m_events /\ m_cancel' = m_cancel \cup {id.impl}
      /\ UNCHANGED <<m_currentTs, invoked>>
    BY DEF Cancel, list, clock, history
<1>2. \A e \in m_events : e.impl = id.impl => e = id
    BY DEF SimInv, IdsTrue, Known
<1>3. \A e \in m_events : Entry(e) = Entry(id) => e.impl = id.impl
    BY DEF Entry
<1>4. Agenda' = Agenda \ {Entry(id)}
    BY <1>1, <1>2, <1>3 DEF Agenda
<1> QED BY <1>1, <1>4, AgendaLess

LEMMA RemoveStrikes ==
    ASSUME SimInv, NEW id \in ids, Remove(id)
    PROVE  [Calendar!Next]_(Calendar!vars)
<1>1. UNCHANGED <<m_currentTs, invoked>>
    BY DEF Remove, clock
<1>2. CASE id.uid = DESTROY
    <2>1. UNCHANGED <<m_events, m_cancel>>
        BY <1>2 DEF Remove, RemoveDestroyEvent
    <2>2. Agenda' = Agenda
        BY <2>1 DEF Agenda
    <2> QED BY <1>1, <2>2 DEF Calendar!vars
<1>3. CASE id.uid # DESTROY
    <2>1. /\ m_events' = {e \in m_events : e.ts # id.ts \/ e.uid # id.uid}
          /\ m_cancel' = m_cancel \cup {id.impl}
        BY <1>3 DEF Remove, RemoveEvent
    <2>2. \A e \in m_events : /\ e.impl = id.impl => e = id
                              /\ e.uid = id.uid => e = id
        BY <1>3 DEF SimInv, IdsTrue, Known
    <2>3. \A e \in m_events : Entry(e) = Entry(id) => e.impl = id.impl
        BY DEF Entry
    <2>4. Agenda' = Agenda \ {Entry(id)}
        BY <2>1, <2>2, <2>3 DEF Agenda
    <2> QED BY <1>1, <2>4, AgendaLess
<1> QED BY <1>2, <1>3

\* The event with the least key is invoked at its time; a cancelled one only
\* lets time pass, not beyond the next of the agenda.
LEMMA ProcessInvokes ==
    ASSUME SimInv, ProcessOneEvent
    PROVE  [Calendar!Next]_(Calendar!vars)
<1> DEFINE e == NextEvent
<1>1. /\ m_events # {} /\ m_events' = m_events \ {e} /\ m_currentTs' = e.ts
      /\ \/ e.impl \notin m_cancel /\ invoked' = Append(invoked, e.impl)
         \/ e.impl \in m_cancel /\ invoked' = invoked
      /\ m_cancel' = m_cancel
    BY DEF ProcessOneEvent
<1>2. e \in m_events /\ \A other \in m_events \ {e} : Before(e, other)
    <2>1. \A f \in m_events : f.ts \in Nat /\ f.uid \in Nat
        BY EntryOnce
    <2>2. \A f, g \in m_events : f.uid = g.uid => f = g
        BY DEF SimInv, IdsTrue, Known
    <2>3. \E f \in m_events : \A other \in m_events \ {f} : Before(f, other)
        BY <1>1, <2>1, <2>2, NextExists
    <2> QED BY <2>3 DEF NextEvent
<1> HIDE DEF e
<1>3. e.ts \in Nat /\ e.ts >= m_currentTs /\ m_currentTs \in Nat
    BY <1>2, EntryOnce DEF SimInv, TypeOK
<1>4. \A f \in m_events : f.impl = e.impl => f = e
    BY <1>2 DEF SimInv, IdsTrue, Known
<1>5. /\ \A f \in m_events : Entry(f) = Entry(e) => f = e
      /\ Entry(e).time = e.ts /\ Entry(e).event = e.impl
    BY <1>4 DEF Entry
<1>6. CASE e.impl \notin m_cancel
    <2>1. Entry(e) \in Agenda
        BY <1>2, <1>6 DEF Agenda
    <2>2. Agenda' = Agenda \ {Entry(e)}
        BY <1>1, <1>2, <1>5 DEF Agenda
    <2>3. \A f \in Agenda \ {Entry(e)} : Calendar!Precedes(Entry(e), f)
        BY <1>2 DEF Agenda, Entry, Before, Calendar!Precedes
    <2>4. Calendar!Invoke(Entry(e))
        BY <1>1, <1>5, <1>6, <2>2, <2>3 DEF Calendar!Invoke
    <2> QED BY <2>1, <2>4 DEF Calendar!Next
<1>7. CASE e.impl \in m_cancel
    <2>1. Agenda' = Agenda
        BY <1>1, <1>7 DEF Agenda
    <2>2. \A f \in Agenda : e.ts <= f.time
        <3>1. \A f \in m_events \ {e} : f.ts \in Nat /\ e.ts <= f.ts
            BY <1>2, <1>3, EntryOnce DEF Before
        <3> QED BY <1>7, <3>1 DEF Agenda, Entry
    <2>3. Calendar!Pass
        BY <1>1, <1>3, <1>7, <2>1, <2>2 DEF Calendar!Pass
    <2> QED BY <2>3 DEF Calendar!Next
<1> QED BY <1>6, <1>7

\* Every step of the scheduler is one of the calendar, or none.
LEMMA CalendarStep == SimInv /\ [Next]_vars => [Calendar!Next]_(Calendar!vars)
<1> SUFFICES ASSUME SimInv, [Next]_vars PROVE [Calendar!Next]_(Calendar!vars)
    OBVIOUS
<1>1. ASSUME UNCHANGED <<m_events, m_cancel, m_currentTs, invoked>>
      PROVE  [Calendar!Next]_(Calendar!vars)
    BY <1>1 DEF Agenda, Calendar!vars
<1>2. ASSUME NEW delay \in Delays, Schedule(delay) \/ ScheduleWithContext(delay)
      PROVE  [Calendar!Next]_(Calendar!vars)
    <2>1. delay \in Nat
        BY SimulatorAssumption
    <2>2. PICK impl : Insert(impl, delay)
        BY <1>2 DEF Schedule, ScheduleWithContext
    <2>3. UNCHANGED <<m_currentTs, m_cancel, invoked>>
        BY <1>2 DEF Schedule, ScheduleWithContext, clock, history
    <2> QED BY <2>1, <2>2, <2>3, InsertAdds, EntersAgenda
<1>3. ASSUME NEW delay \in Delays, HandIn(delay) PROVE [Calendar!Next]_(Calendar!vars)
    BY <1>1, <1>3 DEF HandIn, list, clock, history
<1>4. CASE ScheduleDestroy
    BY <1>1, <1>4 DEF ScheduleDestroy, clock, history
<1>5. ASSUME NEW id \in ids, Cancel(id) \/ Remove(id) PROVE [Calendar!Next]_(Calendar!vars)
    BY <1>5, CancelStrikes, RemoveStrikes
<1>6. CASE Stop \/ Run \/ LookForHandedIn \/ InsertedAll \/ Return
    BY <1>1, <1>6 DEF Stop, Run, LookForHandedIn, InsertedAll, Return, list, clock, history
<1>7. CASE SwapQueues \/ RunDestroyEvent
    BY <1>1, <1>7 DEF SwapQueues, RunDestroyEvent, list, clock, history
<1>8. CASE InsertTaken
    <2>1. /\ Insert(Head(taken).impl, Head(taken).timestamp) /\ taken # <<>>
          /\ UNCHANGED <<m_currentTs, m_cancel, invoked>>
        BY <1>8 DEF InsertTaken, clock, history
    <2>2. Head(taken) \in HandedIn
        BY <2>1, HeadTailProperties DEF SimInv, TypeOK
    <2>3. Head(taken).timestamp \in Nat
        BY <2>2, SimulatorAssumption DEF HandedIn
    <2>4. PICK impl, delay : delay \in Nat /\ Insert(impl, delay)
        BY <2>1, <2>3
    <2> QED BY <2>1, <2>4, InsertAdds, EntersAgenda
<1>9. CASE ProcessOneEvent
    BY <1>9, ProcessInvokes
<1>10. CASE Dispose
    <2>1. m_events' = {} /\ UNCHANGED <<m_currentTs, invoked>>
        BY <1>10 DEF Dispose, clock
    <2>2. Agenda' = {}
        BY <2>1 DEF Agenda
    <2> QED BY <2>1, <2>2 DEF Calendar!Next, Calendar!Clear
<1>11. CASE UNCHANGED vars
    BY <1>1, <1>11 DEF vars, list, clock, history
<1> QED BY <1>2, <1>3, <1>4, <1>5, <1>6, <1>7, <1>8, <1>9, <1>10, <1>11 DEF Next

\* For every set of delays and number of events: time never goes back, events
\* run at their time and, when it is the same, in the order they were entered,
\* those of other threads from the moment they are taken in; a cancelled or
\* removed event never runs.
THEOREM CalendarImplemented == Spec => CalendarSpec
<1>1. Init => Calendar!Init
    BY DEF Init, Calendar!Init, Agenda
<1> QED BY <1>1, CalendarStep, Invariant, PTL DEF Spec, CalendarSpec, Calendar!Spec
=============================================================================
