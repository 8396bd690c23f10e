------------------------ MODULE LteRlcAmLink_proofs ------------------------
(***************************************************************************)
(* One direction of an acknowledged bearer, for every modulus, window,     *)
(* size of SDUs and of grants, and for any number of PDUs under way and    *)
(* lost: the windows stay nested, nothing is acknowledged that was not     *)
(* received, what is missed can be sent again, and the transmitter keeps   *)
(* asking and keeps telling the MAC.                                       *)
(***************************************************************************)
EXTENDS LteRlcAmLink, WellFoundedInduction, FiniteSetTheorems, SequenceTheorems, TLAPS

-----------------------------------------------------------------------------
(***************************************************************************)
(* Facts about sequence numbers that hold for every modulus and window.    *)
(* The distance of a number v above a base b is Wrap(v - b).               *)
(***************************************************************************)

\* The least-number principle, from the well-foundedness of < on Nat.
LEMMA NatLessThanRelation ==
    \E R : /\ IsWellFoundedOn(R, Nat)
           /\ \A x, y \in Nat : y < x => <<y, x>> \in R
<1>1. \A x, y \in Nat : y < x => <<y, x>> \in OpToRel(<, Nat)
    BY DEF OpToRel
<1> QED BY <1>1, NatLessThanWellFounded

\* Every non-empty set of natural numbers has a least element; the searches of
\* the handlers for the first number not received rest on it.
LEMMA LeastNumber ==
    ASSUME NEW S, S \subseteq Nat, S # {}
    PROVE  \E x \in S : \A y \in S : x <= y
<1>1. PICK R : /\ IsWellFoundedOn(R, Nat)
               /\ \A x, y \in Nat : y < x => <<y, x>> \in R
    BY NatLessThanRelation
<1>2. PICK x \in S : \A y \in S : <<y, x>> \notin R
    BY <1>1, WFMin
<1>3. x \in Nat /\ \A y \in S : y \in Nat
    OBVIOUS
<1>4. \A y \in S : ~ (y < x)
    BY <1>1, <1>2, <1>3, Zenon
<1>5. \A y \in S : x <= y
    BY <1>3, <1>4
<1> QED BY <1>5

\* The sizes as the later proofs use them.
LEMMA Sizes ==
    /\ WindowSize \in Nat /\ WindowSize >= 2
    /\ SnMod = 2 * WindowSize
    /\ SnMod <= 32768
BY SnAssumption

\* Numbers of one base compare as their distances above it, although the
\* code's rank is not the distance: it is off by 2^16 - 1024 below the base.
LEMMA RankIsDistance ==
    ASSUME NEW u \in SnValue, NEW v \in SnValue, NEW b \in SnValue
    PROVE  /\ GreaterThan(Sn(u, b), Sn(v, b)) <=> Wrap(u - b) > Wrap(v - b)
           /\ LessOrEqual(Sn(u, b), Sn(v, b)) <=> Wrap(u - b) <= Wrap(v - b)
           /\ LessThan(Sn(u, b), Sn(v, b)) <=> Wrap(u - b) < Wrap(v - b)
<1>1. /\ u \in Int /\ 0 <= u /\ u < SnMod
      /\ v \in Int /\ 0 <= v /\ v < SnMod
      /\ b \in Int /\ 0 <= b /\ b < SnMod
    BY Sizes DEF SnValue
<1>2. Rank(u, b) > Rank(v, b) <=> Wrap(u - b) > Wrap(v - b)
    BY <1>1, Sizes DEF Rank, Wrap, UInt16
<1>3. GreaterThan(Sn(u, b), Sn(v, b)) <=> Wrap(u - b) > Wrap(v - b)
    BY <1>2 DEF GreaterThan, Sn
<1>4. Wrap(u - b) = Wrap(v - b) <=> u = v
    BY <1>1, Sizes DEF Wrap
<1>5. Wrap(u - b) \in Int /\ Wrap(v - b) \in Int
    BY <1>1, Sizes DEF Wrap
<1> QED BY <1>3, <1>4, <1>5 DEF LessOrEqual, LessThan, Sn

\* A number one modulus wide lies at exactly one distance above each base.
LEMMA Distance ==
    ASSUME NEW v \in SnValue, NEW b \in SnValue
    PROVE  /\ Wrap(v - b) \in 0 .. SnMod - 1
           /\ Wrap(b + Wrap(v - b)) = v
           /\ \A u \in SnValue : Wrap(u - b) = Wrap(v - b) => u = v
BY Sizes DEF Wrap, SnValue

-----------------------------------------------------------------------------
(***************************************************************************)
(* The inductive invariant.  All numbers are placed by their distances     *)
(* above VT(A): VT(A) itself is 0, and a distance of at least VT(S) +      *)
(* WindowSize belongs to a number of the window before.                    *)
(***************************************************************************)

\* How far b is above a.
Dist(a, b) == Wrap(b - a)

At(s) == Dist(vtA, s)

Pdu == [sn : SnValue, poll : BOOLEAN, from : Nat, to : Nat]

StatusPdus == [ack : SnValue, nacks : SUBSET SnValue]

\* A buffer holds PDUs by their sequence numbers.
Buffers(buffer) == /\ DOMAIN buffer \subseteq SnValue
                   /\ \A s \in DOMAIN buffer : buffer[s] \in Pdu /\ buffer[s].sn = s

TypeOK ==
    /\ accepted \in Nat /\ sent \in Nat /\ losses \in Nat /\ Tx!TxonBufferSize \in Nat
    /\ vtA \in SnValue /\ vtS \in SnValue /\ pollSn \in SnValue
    /\ vrR \in SnValue /\ vrX \in SnValue /\ vrMs \in SnValue /\ vrH \in SnValue
    /\ Buffers(txedBuffer) /\ Buffers(retxBuffer) /\ Buffers(rxonBuffer)
    /\ pollRetransmitTimer \in BOOLEAN /\ pollRetransmitTimerJustExpired \in BOOLEAN
    /\ rbsTimer \in BOOLEAN /\ reported \in BOOLEAN
    /\ reorderingTimer \in BOOLEAN /\ statusPduRequested \in BOOLEAN
    /\ statusProhibitTimer \in BOOLEAN /\ statusReported \in BOOLEAN
    /\ data \in Seq(Pdu)
    /\ statuses \in Seq(StatusPdus)

\* VT(A) <= VR(R) <= VR(MS) <= VR(H) <= VT(S) <= VT(MS), and VR(X) is in
\* between while t-Reordering runs.
Windows == /\ At(vrR) <= At(vrMs) /\ At(vrMs) <= At(vrH)
           /\ At(vrH) <= At(vtS) /\ At(vtS) <= WindowSize
           /\ reorderingTimer => At(vrR) < At(vrX) /\ At(vrX) <= At(vrH)

\* What the receiver keeps lies between VR(R) and VR(H), and VR(MS) is missing.
Buffered == /\ vrMs \notin DOMAIN rxonBuffer
            /\ \A s \in DOMAIN rxonBuffer : At(vrR) < At(s) /\ At(s) < At(vrH)

\* What the transmitter keeps lies between VT(A) and VT(S), in one buffer.
Kept == /\ DOMAIN txedBuffer \cap DOMAIN retxBuffer = {}
        /\ \A s \in DOMAIN txedBuffer \cup DOMAIN retxBuffer : At(s) < At(vtS)

Held(s) == s \in DOMAIN rxonBuffer \cup DOMAIN txedBuffer \cup DOMAIN retxBuffer

NoneForgotten ==
    \A s \in SnValue : At(vrR) <= At(s) /\ At(s) < At(vtS) => Held(s)

\* A data PDU under way is of this window or of the one before.
OnAir(s) == At(s) < At(vtS) \/ At(vtS) + WindowSize <= At(s)

OnAirOnly == \A i \in DOMAIN data : OnAir(data[i].sn)

Received(s) == At(s) < At(vrR) \/ s \in DOMAIN rxonBuffer

\* What a STATUS PDU acknowledges was received; what it misses is still kept.
Truthful(st) ==
    /\ At(st.ack) <= At(vtS)
    /\ \A s \in st.nacks : /\ At(s) < At(st.ack)
                           /\ s \in DOMAIN txedBuffer \cup DOMAIN retxBuffer
    /\ \A s \in SnValue : At(s) < At(st.ack) => s \in st.nacks \/ Received(s)

\* A younger STATUS PDU misses nothing that an older one acknowledges.
Succeeds(old, new) ==
    \A s \in new.nacks \cup {new.ack} : At(s) < At(old.ack) => s \in old.nacks

StatusesTrue ==
    /\ \A i \in DOMAIN statuses : Truthful(statuses[i])
    /\ \A i, j \in DOMAIN statuses : i < j => Succeeds(statuses[i], statuses[j])

\* While a PDU awaits its acknowledgement, t-PollRetransmit runs or has just
\* expired, or a PDU not sent yet will poll: a new one the window lets out, or
\* the last to be sent again.
Polled ==
    /\ pollSn = Wrap(vtS - 1)
    /\ DOMAIN txedBuffer # {} =>
          \/ pollRetransmitTimer
          \/ pollRetransmitTimerJustExpired
          \/ Tx!TxonBufferSize > 0 /\ vtS # Tx!VtMs
          \/ \E t \in DOMAIN retxBuffer : \A s \in DOMAIN txedBuffer : At(s) < At(t)

\* The window the two sides share, without the timers that ask about it.
Shared == /\ Windows /\ Buffered /\ Kept /\ NoneForgotten
          /\ OnAirOnly /\ StatusesTrue

AmInv == TypeOK /\ Shared /\ Polled /\ BacklogReported

-----------------------------------------------------------------------------
(* Distances.                                                              *)

LEMMA DistType ==
    ASSUME NEW a \in SnValue, NEW b \in SnValue
    PROVE  Dist(a, b) \in Nat /\ Dist(a, b) < SnMod /\ (Dist(a, b) = 0 <=> a = b)
BY Sizes DEF Dist, Wrap, SnValue

\* A number lies at one distance above a base only.
LEMMA DistOnce ==
    ASSUME NEW a \in SnValue, NEW b \in SnValue, NEW c \in SnValue,
           Dist(a, b) = Dist(a, c)
    PROVE  b = c
BY Sizes DEF Dist, Wrap, SnValue

\* k numbers on.
LEMMA Onward ==
    ASSUME NEW a \in SnValue, NEW k \in Nat, k < SnMod
    PROVE  Wrap(a + k) \in SnValue /\ Dist(a, Wrap(a + k)) = k
BY Sizes DEF Dist, Wrap, SnValue

\* The last number before b.
LEMMA OneBefore ==
    ASSUME NEW a \in SnValue, NEW b \in SnValue
    PROVE  /\ Wrap(b - 1) \in SnValue
           /\ Dist(a, b) > 0 => Dist(a, Wrap(b - 1)) = Dist(a, b) - 1
           /\ Dist(a, b) = 0 => Dist(a, Wrap(b - 1)) = SnMod - 1
BY Sizes DEF Dist, Wrap, SnValue

\* The next number after b.
LEMMA OneAfter ==
    ASSUME NEW a \in SnValue, NEW b \in SnValue, Dist(a, b) < SnMod - 1
    PROVE  Wrap(b + 1) \in SnValue /\ Dist(a, Wrap(b + 1)) = Dist(a, b) + 1
BY Sizes DEF Dist, Wrap, SnValue

\* The number a window after b.
LEMMA WindowAfter ==
    ASSUME NEW a \in SnValue, NEW b \in SnValue, Dist(a, b) < WindowSize
    PROVE  /\ Wrap(b + WindowSize) \in SnValue
           /\ Dist(a, Wrap(b + WindowSize)) = Dist(a, b) + WindowSize
BY Sizes DEF Dist, Wrap, SnValue

\* Distances above another base.
LEMMA Moved ==
    ASSUME NEW a \in SnValue, NEW b \in SnValue, NEW x \in SnValue
    PROVE  Dist(b, x) = IF Dist(a, b) <= Dist(a, x) THEN Dist(a, x) - Dist(a, b)
                        ELSE SnMod + Dist(a, x) - Dist(a, b)
BY Sizes DEF Dist, Wrap, SnValue

\* The numbers from b on that come before y.
LEMMA Between ==
    ASSUME NEW a \in SnValue, NEW b \in SnValue, NEW y \in SnValue, NEW s \in SnValue,
           Dist(a, b) <= Dist(a, y)
    PROVE  /\ Dist(b, s) < Dist(b, y) <=> Dist(a, b) <= Dist(a, s) /\ Dist(a, s) < Dist(a, y)
           /\ Dist(b, s) <= Dist(b, y) <=> Dist(a, b) <= Dist(a, s) /\ Dist(a, s) <= Dist(a, y)
<1>1. /\ Dist(b, s) = IF Dist(a, b) <= Dist(a, s) THEN Dist(a, s) - Dist(a, b)
                      ELSE SnMod + Dist(a, s) - Dist(a, b)
      /\ Dist(b, y) = Dist(a, y) - Dist(a, b)
    BY Moved
<1>2. /\ Dist(a, b) \in Nat
      /\ Dist(a, s) \in Nat
      /\ Dist(a, y) \in Nat /\ Dist(a, y) < SnMod
      /\ SnMod \in Nat
    BY DistType, Sizes
<1> QED BY <1>1, <1>2

\* Of any numbers one is the nearest above a base.
LEMMA Nearest ==
    ASSUME NEW S, S \subseteq SnValue, S # {}, NEW a \in SnValue
    PROVE  \E s \in S : \A t \in S : Dist(a, s) <= Dist(a, t)
<1> DEFINE distances == {Dist(a, s) : s \in S}
<1>1. distances \subseteq Nat /\ distances # {}
    BY DistType
<1>2. PICK d \in distances : \A e \in distances : d <= e
    BY <1>1, LeastNumber
<1> QED BY <1>2

\* There are as many numbers before b as b is far.
LEMMA CountBefore ==
    ASSUME NEW a \in SnValue, NEW b \in SnValue
    PROVE  Cardinality({s \in SnValue : Dist(a, s) < Dist(a, b)}) = Dist(a, b)
<1> DEFINE before == {s \in SnValue : Dist(a, s) < Dist(a, b)}
           d      == Dist(a, b)
           place  == [k \in 0 .. d - 1 |-> Wrap(a + k)]
<1>1. d \in Nat /\ d < SnMod
    BY DistType
<1>2. ASSUME NEW k \in 0 .. d - 1
      PROVE  Wrap(a + k) \in before /\ Dist(a, Wrap(a + k)) = k
    <2>1. k \in Nat /\ k < SnMod /\ k < d
        BY <1>1, Sizes
    <2> QED BY <2>1, Onward
<1>3. \A s \in before : Dist(a, s) \in 0 .. d - 1 /\ Wrap(a + Dist(a, s)) = s
    BY <1>1, DistType, Distance DEF Dist
<1> HIDE DEF before, d
<1>4. place \in [0 .. d - 1 -> before]
    BY <1>2
<1>5. \A k, l \in 0 .. d - 1 : place[k] = place[l] => k = l
    <2>1. \A k \in 0 .. d - 1 : place[k] = Wrap(a + k) /\ Dist(a, Wrap(a + k)) = k
        BY <1>2
    <2> QED BY <2>1
<1>6. \A s \in before : \E k \in 0 .. d - 1 : place[k] = s
    BY <1>3
<1> HIDE DEF place
<1>7. ExistsBijection(0 .. d - 1, before)
    BY <1>4, <1>5, <1>6 DEF ExistsBijection, Bijection, Injection, Surjection, IsInjective
<1>8. IsFiniteSet(0 .. d - 1) /\ Cardinality(0 .. d - 1) = d
    BY <1>1, FS_Interval
<1>9. Cardinality(before) = d
    BY <1>7, <1>8, FS_Bijection
<1> QED BY <1>9 DEF d, before

-----------------------------------------------------------------------------
(* The comparisons, searches and lists of the two entities.                *)

LEMMA RxBefore ==
    ASSUME NEW r \in SnValue, NEW s \in SnValue, NEW t \in SnValue
    PROVE  Rx!Before(s, t, r) <=> Dist(r, s) < Dist(r, t)
<1>1. Rx!Before(s, t, r) <=> LessThan(Sn(s, r), Sn(t, r))
    BY DEF Rx!Before, Rx!LessThan, Rx!GreaterThan, Rx!Rank, Rx!UInt16, Rx!Sn,
           LessThan, GreaterThan, Rank, UInt16, Sn
<1> QED BY <1>1, RankIsDistance DEF Dist

LEMMA TxBelow ==
    ASSUME vtA \in SnValue, NEW s \in SnValue, NEW t \in SnValue
    PROVE  Tx!Below(s, t) <=> At(s) < At(t)
<1>1. Tx!Below(s, t) <=> LessThan(Sn(s, vtA), Sn(t, vtA))
    BY DEF Tx!Below, Tx!LessThan, Tx!GreaterThan, Tx!Rank, Tx!UInt16, Tx!Sn,
           LessThan, GreaterThan, Rank, UInt16, Sn
<1> QED BY <1>1, RankIsDistance DEF Dist, At

LEMMA SameNumbers ==
    /\ Rx!SnValue = SnValue /\ Tx!SnValue = SnValue
    /\ \A x : Rx!Wrap(x) = Wrap(x) /\ Tx!Wrap(x) = Wrap(x)
BY DEF Rx!SnValue, Tx!SnValue, SnValue, Rx!Wrap, Tx!Wrap, Wrap

LEMMA SameCounts ==
    \A S : Rx!Cardinality(S) = Cardinality(S) /\ Tx!Cardinality(S) = Cardinality(S)
BY DEF Rx!Cardinality, Tx!Cardinality, Cardinality

\* VT(MS) is a window above VT(A).
LEMMA VtMsAt ==
    ASSUME vtA \in SnValue
    PROVE  Tx!VtMs \in SnValue /\ At(Tx!VtMs) = WindowSize
<1>1. WindowSize \in Nat /\ WindowSize < SnMod
    BY Sizes
<1> QED BY <1>1, Onward, SameNumbers DEF Tx!VtMs, At

\* The first number missing is not beyond any number missing.
LEMMA NextMissingFound ==
    ASSUME NEW buffer, NEW s \in SnValue, NEW h \in SnValue, h \notin DOMAIN buffer
    PROVE  LET m == Rx!NextMissing(buffer, s)
           IN  /\ m \in SnValue /\ m \notin DOMAIN buffer
               /\ Dist(s, m) <= Dist(s, h)
               /\ \A t \in SnValue : Dist(s, t) < Dist(s, m) => t \in DOMAIN buffer
<1> DEFINE missing == SnValue \ DOMAIN buffer
           m       == Rx!NextMissing(buffer, s)
<1>1. PICK n \in missing : \A t \in missing : Dist(s, n) <= Dist(s, t)
    BY Nearest
<1>2. \A t \in missing : Dist(s, t) \in Nat
    BY DistType
<1>3. \A t \in missing : ~Rx!Before(t, n, s)
    BY <1>1, <1>2, RxBefore
<1>4. m = CHOOSE x \in missing : \A t \in missing : ~Rx!Before(t, x, s)
    BY SameNumbers DEF Rx!NextMissing
<1>5. m \in missing /\ \A t \in missing : ~Rx!Before(t, m, s)
    BY <1>1, <1>3, <1>4
<1> HIDE DEF m
<1>6. \A t \in missing : ~(Dist(s, t) < Dist(s, m))
    BY <1>5, RxBefore
<1>7. Dist(s, m) <= Dist(s, h)
    BY <1>2, <1>5, <1>6
<1> QED BY <1>5, <1>6, <1>7 DEF m

\* What is released are the numbers before the new VR(R).
LEMMA RunReleases ==
    ASSUME vrR \in SnValue, NEW r \in SnValue
    PROVE  Rx!SeqExt!ToSet(Rx!Run(r)) = {s \in SnValue : Dist(vrR, s) < Dist(vrR, r)}
<1> DEFINE n   == Dist(vrR, r)
           run == Rx!Run(r)
<1>1. n \in Nat /\ n < SnMod
    BY DistType
<1>2. run = [i \in 1 .. n |-> Wrap(vrR + i - 1)]
    BY SameNumbers DEF Rx!Run, Dist
<1> HIDE DEF n, run
<1>3. ASSUME NEW i \in 1 .. n
      PROVE  run[i] \in SnValue /\ Dist(vrR, run[i]) < n
    <2>1. /\ i - 1 \in Nat /\ i - 1 < SnMod /\ i - 1 < n
          /\ vrR + i - 1 = vrR + (i - 1)
        BY <1>1, Sizes DEF SnValue
    <2>2. run[i] = Wrap(vrR + (i - 1))
        BY <1>2, <2>1
    <2> QED BY <2>1, <2>2, Onward
<1>4. ASSUME NEW s \in SnValue, Dist(vrR, s) < n
      PROVE  \E i \in 1 .. n : run[i] = s
    <2>1. Dist(vrR, s) \in Nat
        BY DistType
    <2>2. /\ Dist(vrR, s) + 1 \in 1 .. n
          /\ vrR + (Dist(vrR, s) + 1) - 1 = vrR + Dist(vrR, s)
        BY <1>1, <1>4, <2>1 DEF SnValue
    <2>3. run[Dist(vrR, s) + 1] = s
        BY <1>2, <2>2, Distance DEF Dist
    <2> QED BY <2>2, <2>3
<1>5. Rx!SeqExt!ToSet(run) = {run[i] : i \in 1 .. n}
    BY <1>2 DEF Rx!SeqExt!ToSet
<1> QED BY <1>3, <1>4, <1>5 DEF n, run

\* t is s without its i-th element.
Without(s, t, i) == /\ Len(t) = Len(s) - 1
                    /\ \A k \in 1 .. Len(t) : t[k] = IF k < i THEN s[k] ELSE s[k + 1]

LEMMA RemoveAtWithout ==
    ASSUME NEW S, NEW s \in Seq(S), NEW i \in 1 .. Len(s)
    PROVE  SeqExt!RemoveAt(s, i) \in Seq(S) /\ Without(s, SeqExt!RemoveAt(s, i), i)
<1> DEFINE front == SubSeq(s, 1, i - 1)
           back  == SubSeq(s, i + 1, Len(s))
           t     == SeqExt!RemoveAt(s, i)
<1>1. Len(s) \in Nat /\ \A k \in 1 .. Len(s) : s[k] \in S
    OBVIOUS
<1>2. /\ front \in Seq(S) /\ Len(front) = i - 1
      /\ \A k \in 1 .. i - 1 : front[k] = s[k]
    BY <1>1
<1>3. /\ back \in Seq(S) /\ Len(back) = Len(s) - i
      /\ \A k \in 1 .. Len(s) - i : back[k] = s[i + k]
    BY <1>1
<1>4. t = front \o back
    BY DEF SeqExt!RemoveAt
<1> HIDE DEF front, back, t
<1>5. /\ t \in Seq(S) /\ Len(t) = Len(front) + Len(back)
      /\ \A k \in 1 .. Len(front) + Len(back) :
            t[k] = IF k <= Len(front) THEN front[k] ELSE back[k - Len(front)]
    BY <1>2, <1>3, <1>4, ConcatProperties
<1>6. ASSUME NEW k \in 1 .. Len(t) PROVE t[k] = IF k < i THEN s[k] ELSE s[k + 1]
    <2>1. CASE k < i
        <3>1. k <= Len(front) /\ k \in 1 .. i - 1 /\ k \in 1 .. Len(front) + Len(back)
            BY <1>1, <1>2, <1>3, <1>5, <2>1
        <3> QED BY <1>2, <1>5, <2>1, <3>1
    <2>2. CASE ~(k < i)
        <3>1. /\ ~(k <= Len(front)) /\ k - Len(front) \in 1 .. Len(s) - i
              /\ i + (k - Len(front)) = k + 1 /\ k \in 1 .. Len(front) + Len(back)
            BY <1>1, <1>2, <1>3, <1>5, <2>2
        <3>2. t[k] = back[k - Len(front)]
            BY <1>5, <3>1
        <3> QED BY <1>3, <2>2, <3>1, <3>2
    <2> QED BY <2>1, <2>2
<1>7. Len(t) = Len(s) - 1
    BY <1>1, <1>2, <1>3, <1>5
<1> QED BY <1>5, <1>6, <1>7 DEF Without, t

\* The loop that pushes NACKs has room for a number of them.
LEMMA RoomType ==
    ASSUME NEW bytes \in Nat
    PROVE  Rx!Room(bytes) \in Nat
<1> DEFINE full(n) == ~Rx!OneMoreNackWouldFitIn(n, bytes)
           ends    == {n \in 0 .. bytes : full(n)}
<1>1. full(bytes)
    BY DEF Rx!OneMoreNackWouldFitIn, Rx!HeaderLength
<1> HIDE DEF full
<1>2. bytes \in ends /\ ends \subseteq Nat
    BY <1>1
<1>3. PICK n \in ends : \A k \in ends : n <= k
    BY <1>2, LeastNumber
<1>4. \A k \in 0 .. n - 1 : k \in 0 .. bytes /\ ~(n <= k)
    BY <1>2, <1>3
<1>5. n \in 0 .. bytes /\ full(n) /\ \A k \in 0 .. n - 1 : ~full(k)
    BY <1>3, <1>4
<1>6. \E k \in 0 .. bytes : /\ ~Rx!OneMoreNackWouldFitIn(k, bytes)
                            /\ \A l \in 0 .. k - 1 : Rx!OneMoreNackWouldFitIn(l, bytes)
    BY <1>5 DEF full
<1>7. Rx!Room(bytes) \in 0 .. bytes
    BY <1>6, Zenon DEF Rx!Room
<1> QED BY <1>7

\* What a new STATUS PDU says: all that is missing before ACK_SN, which is
\* itself missing and at most VR(MS).
LEMMA StatusSays ==
    ASSUME vrR \in SnValue, vrMs \in SnValue, vrMs \notin DOMAIN rxonBuffer,
           NEW bytes \in Nat
    PROVE  LET ack   == Rx!AckSn(bytes)
               nacks == Rx!Nacks(bytes)
           IN  /\ ack \in SnValue \ DOMAIN rxonBuffer
               /\ Dist(vrR, ack) <= Dist(vrR, vrMs)
               /\ nacks \subseteq SnValue \ DOMAIN rxonBuffer
               /\ \A s \in nacks : Dist(vrR, s) < Dist(vrR, ack)
               /\ \A s \in SnValue \ DOMAIN rxonBuffer :
                     Dist(vrR, s) < Dist(vrR, ack) => s \in nacks
<1> DEFINE missing  == Rx!Missing
           nacks    == Rx!Nacks(bytes)
           rest     == (missing \ nacks) \cup {vrMs}
           ack      == Rx!AckSn(bytes)
           room     == Rx!Room(bytes)
           below(s) == {t \in missing : Rx!Before(t, s, vrR)}
<1>1. \A s : s \in missing <=> /\ s \in SnValue \ DOMAIN rxonBuffer
                               /\ Dist(vrR, s) < Dist(vrR, vrMs)
    BY RxBefore, SameNumbers DEF Rx!Missing
<1>2. nacks = {s \in missing : Cardinality(below(s)) < room}
    BY SameCounts DEF Rx!Nacks
<1>3. room \in Nat
    BY RoomType
<1>4. \A s \in SnValue : Dist(vrR, s) \in Nat
    BY DistType
<1>5. ack = CHOOSE s \in rest : \A t \in rest : ~Rx!Before(t, s, vrR)
    BY DEF Rx!AckSn
<1>6. rest \subseteq SnValue /\ rest # {}
    BY <1>1
<1> HIDE DEF missing, nacks, ack, room
<1>7. PICK n \in rest : \A t \in rest : Dist(vrR, n) <= Dist(vrR, t)
    BY <1>6, Nearest
<1>8. \A t \in rest : ~Rx!Before(t, n, vrR)
    BY <1>4, <1>6, <1>7, RxBefore
<1>9. ack \in rest /\ \A t \in rest : ~Rx!Before(t, ack, vrR)
    BY <1>5, <1>7, <1>8
<1>10. \A t \in rest : Dist(vrR, ack) <= Dist(vrR, t)
    BY <1>4, <1>6, <1>9, RxBefore
<1>11. ack \in SnValue \ DOMAIN rxonBuffer
    BY <1>1, <1>9
<1>12. nacks \subseteq missing
    BY <1>2
<1>13. ASSUME NEW s \in missing PROVE Cardinality(below(s)) \in Nat
    <2>1. SnValue = 0 .. SnMod - 1 /\ IsFiniteSet(SnValue)
        BY Sizes, FS_Interval DEF SnValue
    <2>2. below(s) \subseteq SnValue
        BY <1>1
    <2> QED BY <2>1, <2>2, FS_Subset, FS_CardinalityType
<1>14. ASSUME NEW s \in nacks, NEW a \in missing \ nacks
       PROVE  Dist(vrR, s) < Dist(vrR, a)
    <2>1. SUFFICES ASSUME Dist(vrR, a) <= Dist(vrR, s) PROVE FALSE
        BY <1>1, <1>4, <1>12
    <2>2. \A t \in missing : Rx!Before(t, a, vrR) => Rx!Before(t, s, vrR)
        BY <1>1, <1>4, <1>12, <2>1, RxBefore
    <2>3. below(a) \subseteq below(s) /\ below(s) \subseteq SnValue
        BY <1>1, <2>2
    <2>4. IsFiniteSet(SnValue)
        BY Sizes, FS_Interval DEF SnValue
    <2>5. Cardinality(below(a)) <= Cardinality(below(s))
        BY <2>3, <2>4, FS_Subset
    <2>6. Cardinality(below(s)) < room /\ ~(Cardinality(below(a)) < room)
        BY <1>2
    <2>7. Cardinality(below(s)) \in Nat /\ Cardinality(below(a)) \in Nat
        BY <1>12, <1>13
    <2> QED BY <1>3, <2>5, <2>6, <2>7
<1>15. \A s \in nacks : Dist(vrR, s) < Dist(vrR, ack)
    BY <1>1, <1>9, <1>12, <1>14
<1>16. ASSUME NEW s \in SnValue \ DOMAIN rxonBuffer, Dist(vrR, s) < Dist(vrR, ack)
       PROVE  s \in nacks
    <2>1. Dist(vrR, ack) <= Dist(vrR, vrMs)
        BY <1>10
    <2>2. s \in missing
        BY <1>1, <1>4, <1>11, <1>16, <2>1
    <2>3. s \notin rest
        BY <1>4, <1>10, <1>11, <1>16
    <2> QED BY <2>2, <2>3
<1>17. Dist(vrR, ack) <= Dist(vrR, vrMs)
    BY <1>10
<1> QED BY <1>1, <1>11, <1>12, <1>15, <1>16, <1>17 DEF nacks, ack

\* The numbers a STATUS PDU speaks of, when its ACK_SN is not beyond VT(S).
LEMMA CoveredIs ==
    ASSUME vtA \in SnValue, vtS \in SnValue, NEW ack \in SnValue, At(ack) <= At(vtS)
    PROVE  Tx!Covered(ack) = {s \in SnValue : At(s) < At(ack)}
<1>1. \A s \in SnValue : At(s) \in Nat
    BY DistType DEF At
<1> QED BY <1>1, TxBelow, SameNumbers DEF Tx!Covered

LEMMA EarliestOf ==
    ASSUME vtA \in SnValue, NEW S, S \subseteq SnValue, S # {}
    PROVE  Tx!Earliest(S) \in S /\ \A t \in S : At(Tx!Earliest(S)) <= At(t)
<1>1. PICK n \in S : \A t \in S : At(n) <= At(t)
    BY Nearest DEF At
<1>2. \A s \in SnValue : At(s) \in Nat
    BY DistType DEF At
<1>3. \A t \in S : ~Tx!Below(t, n)
    BY <1>1, <1>2, TxBelow
<1>4. Tx!Earliest(S) \in S /\ \A t \in S : ~Tx!Below(t, Tx!Earliest(S))
    BY <1>3 DEF Tx!Earliest
<1> QED BY <1>2, <1>4, TxBelow

\* VT(A) moves to the first number missed, or to ACK_SN.
LEMMA NewVtAIs ==
    ASSUME vtA \in SnValue, NEW ack \in SnValue, NEW covered, NEW nacked,
           covered = {s \in SnValue : At(s) < At(ack)}, nacked \subseteq covered
    PROVE  LET m == Tx!NewVtA(covered, nacked)
           IN  /\ m \in SnValue /\ At(m) <= At(ack)
               /\ m = ack \/ m \in nacked
               /\ \A s \in nacked : At(m) <= At(s)
<1>1. \A s \in SnValue : At(s) \in Nat /\ Wrap(vtA + At(s)) = s
    BY DistType, Distance DEF At, Dist
<1>2. CASE nacked = {}
    <2>1. Cardinality(covered) = At(ack)
        BY CountBefore DEF At
    <2>2. Tx!NewVtA(covered, nacked) = ack
        BY <1>1, <1>2, <2>1, SameNumbers, SameCounts DEF Tx!NewVtA
    <2> QED BY <1>1, <1>2, <2>2
<1>3. CASE nacked # {}
    <2>1. Tx!NewVtA(covered, nacked) = Tx!Earliest(nacked) /\ nacked \subseteq SnValue
        BY <1>3 DEF Tx!NewVtA
    <2>2. Tx!Earliest(nacked) \in nacked /\ \A t \in nacked : At(Tx!Earliest(nacked)) <= At(t)
        BY <1>3, <2>1, EarliestOf
    <2>3. Tx!Earliest(nacked) \in covered
        BY <2>2
    <2>4. At(Tx!Earliest(nacked)) < At(ack) /\ Tx!Earliest(nacked) \in SnValue
        BY <2>3
    <2>5. At(Tx!Earliest(nacked)) <= At(ack)
        BY <1>1, <2>4
    <2> QED BY <2>1, <2>2, <2>4, <2>5
<1> QED BY <1>2, <1>3

-----------------------------------------------------------------------------
(* What the steps have in common.                                          *)

LEMMA AtType ==
    ASSUME TypeOK
    PROVE  \A s \in SnValue : At(s) \in Nat /\ At(s) < SnMod
BY DistType DEF TypeOK, At

LEMMA AtOnce ==
    ASSUME TypeOK
    PROVE  \A s, t \in SnValue : At(s) = At(t) => s = t
BY DistOnce DEF TypeOK, At

LEMMA SharedKept ==
    ASSUME Shared,
           UNCHANGED <<vtA, vtS, txedBuffer, retxBuffer, vrR, vrX, vrMs, vrH,
                       rxonBuffer, reorderingTimer, data, statuses>>
    PROVE  Shared'
BY DEF Shared, Windows, Buffered, Kept, NoneForgotten, OnAirOnly, StatusesTrue,
       At, Held, OnAir, Truthful, Received, Succeeds

\* What was said stays true while VT(A) stands still and nothing is lost from
\* the buffers but what was received.
LEMMA StatusesStayTrue ==
    ASSUME TypeOK, StatusesTrue, vtA' = vtA, statuses' = statuses,
           vtS' \in SnValue, At(vtS) <= At(vtS)',
           \A s \in SnValue : Received(s) => Received(s)',
           DOMAIN txedBuffer \cup DOMAIN retxBuffer
               \subseteq DOMAIN txedBuffer' \cup DOMAIN retxBuffer'
    PROVE  StatusesTrue'
<1>1. \A s \in SnValue : Dist(vtA, s) \in Nat
    BY DistType DEF TypeOK
<1>2. ASSUME NEW i \in DOMAIN statuses
      PROVE  /\ statuses[i].ack \in SnValue /\ statuses[i].nacks \subseteq SnValue
             /\ Truthful(statuses[i])
    <2>1. statuses[i] \in StatusPdus
        BY DEF TypeOK
    <2> QED BY <2>1 DEF StatusPdus, StatusesTrue
<1>3. ASSUME NEW i \in DOMAIN statuses
      PROVE  Truthful(statuses[i])'
    <2>1. At(statuses[i].ack) <= At(vtS)
        BY <1>2 DEF Truthful
    <2>2. (At(statuses[i].ack) <= At(vtS))'
        BY <1>1, <1>2, <2>1 DEF At, TypeOK
    <2>3. \A s \in statuses[i].nacks :
              /\ Dist(vtA, s) < Dist(vtA, statuses[i].ack)
              /\ s \in DOMAIN txedBuffer' \cup DOMAIN retxBuffer'
        BY <1>2 DEF Truthful, At
    <2>4. \A s \in SnValue : Dist(vtA, s) < Dist(vtA, statuses[i].ack)
                                 => s \in statuses[i].nacks \/ Received(s)'
        BY <1>2 DEF Truthful, At
    <2> QED BY <2>2, <2>3, <2>4 DEF Truthful, At
<1>4. \A i, j \in DOMAIN statuses : i < j => Succeeds(statuses[i], statuses[j])'
    BY DEF StatusesTrue, Succeeds, At
<1> QED BY <1>3, <1>4 DEF StatusesTrue

\* The transmitter moves PDUs from one buffer to the other.
LEMMA BuffersShuffled ==
    ASSUME TypeOK, Shared,
           UNCHANGED <<vtA, vtS, vrR, vrX, vrMs, vrH, rxonBuffer, reorderingTimer,
                       statuses>>,
           DOMAIN txedBuffer' \cap DOMAIN retxBuffer' = {},
           DOMAIN txedBuffer' \cup DOMAIN retxBuffer'
               = DOMAIN txedBuffer \cup DOMAIN retxBuffer
    PROVE  Windows' /\ Buffered' /\ Kept' /\ NoneForgotten' /\ StatusesTrue'
<1>1. Windows' /\ Buffered'
    BY DEF Shared, Windows, Buffered, At
<1>2. Kept' /\ NoneForgotten'
    BY DEF Shared, Kept, NoneForgotten, Held, At
<1>3. \A s \in SnValue : Received(s) => Received(s)'
    BY DEF Received, At
<1>4. vtS' \in SnValue /\ At(vtS) <= At(vtS)'
    BY AtType DEF TypeOK, At
<1>5. StatusesTrue'
    BY <1>3, <1>4, StatusesStayTrue DEF Shared
<1> QED BY <1>1, <1>2, <1>5

\* A data PDU leaves the radio, by arriving or by being lost.
LEMMA DataLeaves ==
    ASSUME TypeOK, OnAirOnly, NEW i \in DOMAIN data,
           data' = SeqExt!RemoveAt(data, i), UNCHANGED <<vtA, vtS>>
    PROVE  data' \in Seq(Pdu) /\ OnAirOnly'
<1>1. data \in Seq(Pdu) /\ DOMAIN data = 1 .. Len(data) /\ Len(data) \in Nat
    BY DEF TypeOK
<1>2. data' \in Seq(Pdu) /\ Without(data, data', i)
    BY <1>1, RemoveAtWithout
<1>3. DOMAIN data' = 1 .. Len(data') /\ Len(data') = Len(data) - 1
    BY <1>2 DEF Without
<1>4. ASSUME NEW k \in DOMAIN data'
      PROVE  \E j \in DOMAIN data : data'[k] = data[j]
    <2>1. k \in DOMAIN data /\ k + 1 \in DOMAIN data
        BY <1>1, <1>3
    <2> QED BY <1>2, <1>3, <2>1 DEF Without
<1>5. \A j \in DOMAIN data : OnAir(data[j].sn)
    BY DEF OnAirOnly
<1>6. ASSUME NEW k \in DOMAIN data' PROVE OnAir(data[k].sn)'
    <2>1. PICK j \in DOMAIN data : data'[k] = data[j]
        BY <1>4
    <2> QED BY <1>5, <2>1 DEF OnAir, At
<1> QED BY <1>2, <1>6 DEF OnAirOnly

-----------------------------------------------------------------------------
(* The steps of the transmitter.                                           *)

LEMMA InitEstablishes ==
    ASSUME Init
    PROVE  AmInv
<1>1. PICK n \in StartSns : vtA = n /\ vtS = n /\ pollSn = Wrap(n - 1)
    BY SameNumbers DEF Init, Tx!Init
<1>2. vrR = vtA /\ vrMs = vtA /\ vrH = vtA
    BY <1>1 DEF Init, Rx!Init
<1>3. /\ vtA \in SnValue /\ vtS = vtA /\ pollSn = Wrap(vtA - 1)
      /\ pollSn \in SnValue /\ 0 \in SnValue
    BY <1>1, AmLinkAssumption, OneBefore, Sizes DEF SnValue
<1>4. Dist(vtA, vtA) = 0
    BY <1>3, DistType
<1>5. TypeOK
    <2>1. Tx!TxonBufferSize = 0
        BY AmLinkAssumption DEF Init, Tx!Init, Tx!TxonBufferSize
    <2>2. Buffers(<<>>)
        BY DEF Buffers
    <2>3. data \in Seq(Pdu) /\ statuses \in Seq(StatusPdus)
        BY DEF Init
    <2> QED BY <1>2, <1>3, <2>1, <2>2, <2>3 DEF TypeOK, Init, Tx!Init, Rx!Init
<1>6. \A s \in SnValue : At(s) \in Nat
    BY <1>5, AtType
<1>7. Windows /\ Buffered /\ Kept
    BY <1>2, <1>3, <1>4, Sizes DEF Windows, Buffered, Kept, At, Init, Tx!Init, Rx!Init
<1>8. NoneForgotten
    BY <1>2, <1>3, <1>4, <1>6 DEF NoneForgotten, At
<1>9. OnAirOnly /\ StatusesTrue
    BY DEF Init, OnAirOnly, StatusesTrue
<1>10. Polled /\ BacklogReported
    <2>1. ~Tx!Outstanding
        BY AmLinkAssumption DEF Init, Tx!Init, Tx!Outstanding, Tx!TxonBufferSize, Tx!Pending
    <2> QED BY <1>3, <2>1 DEF Init, Tx!Init, Polled, BacklogReported, Tx!BacklogReported
<1> QED BY <1>5, <1>7, <1>8, <1>9, <1>10 DEF AmInv, Shared

LEMMA SubmitKeeps ==
    ASSUME AmInv, Submit
    PROVE  AmInv'
<1>1. /\ accepted \in Nat /\ SduUnits \in Nat /\ sent \in Nat
      /\ accepted' \in {accepted, accepted + 1}
      /\ sent' = sent /\ rbsTimer' = TRUE
    BY AmLinkAssumption DEF AmInv, TypeOK, Submit, Tx!DoTransmitPdcpPdu
<1>2. (accepted + 1) * SduUnits = accepted * SduUnits + SduUnits
    BY <1>1
<1>3. Tx!TxonBufferSize \in Nat /\ Tx!TxonBufferSize' \in Nat
      /\ Tx!TxonBufferSize <= Tx!TxonBufferSize'
    <2>1. accepted * SduUnits \in Nat
        BY <1>1
    <2>2. CASE accepted' = accepted
        BY <1>1, <2>1, <2>2 DEF AmInv, TypeOK, Tx!TxonBufferSize
    <2>3. CASE accepted' = accepted + 1
        BY <1>1, <1>2, <2>1, <2>3 DEF AmInv, TypeOK, Tx!TxonBufferSize
    <2> QED BY <1>1, <2>2, <2>3
<1>4. TypeOK'
    BY <1>1, <1>3 DEF AmInv, TypeOK, Submit, Tx!DoTransmitPdcpPdu, TxOnly, rxVars,
       Tx!Outstanding, Tx!Pending
<1>5. Shared'
    BY SharedKept DEF AmInv, Submit, Tx!DoTransmitPdcpPdu, TxOnly, rxVars
<1>6. Polled'
    BY <1>3 DEF AmInv, Polled, Submit, Tx!DoTransmitPdcpPdu, Tx!VtMs, At
<1>7. BacklogReported'
    BY <1>1 DEF BacklogReported, Tx!BacklogReported
<1> QED BY <1>4, <1>5, <1>6, <1>7 DEF AmInv

LEMMA ReportBufferKeeps ==
    ASSUME AmInv, ReportBuffer
    PROVE  AmInv'
<1>1. TypeOK'
    BY DEF AmInv, TypeOK, ReportBuffer, Tx!ExpireRbsTimer, TxOnly, rxVars, Tx!TxonBufferSize
<1>2. Shared'
    BY SharedKept DEF AmInv, ReportBuffer, Tx!ExpireRbsTimer, TxOnly, rxVars
<1>3. Polled'
    BY DEF AmInv, Polled, ReportBuffer, Tx!ExpireRbsTimer, Tx!VtMs, Tx!TxonBufferSize, At
<1>4. BacklogReported'
    BY DEF AmInv, BacklogReported, Tx!BacklogReported, ReportBuffer, Tx!ExpireRbsTimer,
           Tx!StillReports, Tx!Outstanding, Tx!Pending, Tx!TxonBufferSize
<1> QED BY <1>1, <1>2, <1>3, <1>4 DEF AmInv

\* A new PDU takes the next number, which no PDU under way has.
LEMMA SendNewPduKeeps ==
    ASSUME AmInv, SendNewPdu
    PROVE  AmInv'
<1>1. PICK units \in PduUnits : Tx!SendNewPdu(units) /\ UnderWay(Tx!NewPdu(units))
    BY DEF SendNewPdu
<1> DEFINE pdu == Tx!NewPdu(units)
           old == Tx!TxonBufferSize
<1>2. /\ vtA \in SnValue /\ vtS \in SnValue /\ old \in Nat /\ sent \in Nat
      /\ units \in Nat \ {0} /\ At(vtS) <= WindowSize
    BY AmLinkAssumption DEF AmInv, TypeOK, Shared, Windows
<1>3. /\ old > 0 /\ vtS # Tx!VtMs /\ DOMAIN retxBuffer = {}
      /\ vtA' = vtA /\ vtS' = Wrap(vtS + 1) /\ pollSn' = vtS /\ pollRetransmitTimer' = TRUE
      /\ retxBuffer' = retxBuffer /\ rbsTimer' = rbsTimer
      /\ UNCHANGED <<rxVars, statuses>> /\ data' = Append(data, pdu)
    BY <1>1, SameNumbers DEF Tx!SendNewPdu, Tx!Poll, Tx!Pending, UnderWay
<1>4. At(vtS) < WindowSize /\ At(vtS) \in Nat /\ WindowSize \in Nat /\ SnMod = 2 * WindowSize
    <2>1. At(vtS) # WindowSize
        BY <1>2, <1>3, VtMsAt, DistOnce DEF At
    <2> QED BY <1>2, <2>1, DistType, Sizes DEF At
<1>5. vtS' \in SnValue /\ Dist(vtA, vtS') = At(vtS) + 1
    BY <1>2, <1>3, <1>4, OneAfter DEF At
<1>6. PICK fits \in Nat : /\ 0 < fits /\ fits <= old
                          /\ pdu = [sn |-> vtS, poll |-> TRUE, from |-> sent, to |-> sent + fits]
    <2>1. CASE units < old
        <3>1. pdu = [sn |-> vtS, poll |-> TRUE, from |-> sent, to |-> sent + units]
            BY <2>1 DEF Tx!NewPdu
        <3> HIDE DEF pdu, old
        <3>2. units \in Nat /\ 0 < units /\ units <= old
            BY <1>2, <2>1
        <3> QED BY <3>1, <3>2
    <2>2. CASE ~(units < old)
        <3>1. pdu = [sn |-> vtS, poll |-> TRUE, from |-> sent, to |-> sent + old]
            BY <2>2 DEF Tx!NewPdu
        <3>2. old \in Nat /\ 0 < old /\ old <= old
            BY <1>2, <1>3
        <3> HIDE DEF pdu, old
        <3> QED BY <3>1, <3>2
    <2> QED BY <2>1, <2>2
<1>7. pdu \in Pdu /\ pdu.sn = vtS /\ pdu.to = sent + fits
    BY <1>2, <1>6 DEF Pdu
<1>8. /\ DOMAIN txedBuffer' = DOMAIN txedBuffer \cup {vtS}
      /\ txedBuffer'[vtS] = pdu
      /\ \A s \in DOMAIN txedBuffer \ {vtS} : txedBuffer'[s] = txedBuffer[s]
    BY <1>1 DEF Tx!SendNewPdu, Tx!Copied
<1> HIDE DEF pdu
<1>9. TypeOK'
    <2>1. Tx!TxonBufferSize' \in Nat /\ sent' \in Nat /\ accepted' = accepted
        <3>1. accepted' = accepted /\ sent' = sent + fits
            BY <1>1, <1>7 DEF Tx!SendNewPdu, pdu
        <3>2. accepted * SduUnits \in Nat
            BY AmLinkAssumption DEF AmInv, TypeOK
        <3>3. old = accepted * SduUnits - sent
              /\ Tx!TxonBufferSize' = accepted * SduUnits - (sent + fits)
            BY <3>1 DEF Tx!TxonBufferSize
        <3> HIDE DEF old
        <3> QED BY <1>2, <1>6, <3>1, <3>2, <3>3
    <2>2. Buffers(txedBuffer)'
        BY <1>2, <1>7, <1>8 DEF AmInv, TypeOK, Buffers
    <2>3. data' \in Seq(Pdu)
        BY <1>3, <1>7 DEF AmInv, TypeOK
    <2>4. reported' = FALSE /\ pollRetransmitTimerJustExpired' = FALSE /\ losses' = losses
        BY <1>1 DEF Tx!SendNewPdu, Tx!Poll, UnderWay
    <2> QED BY <1>2, <1>3, <1>5, <2>1, <2>2, <2>3, <2>4 DEF AmInv, TypeOK, rxVars
<1>10. \A s \in SnValue : At(s) \in Nat /\ At(s) < SnMod /\ (At(s) = At(vtS) => s = vtS)
    BY <1>2, DistType, DistOnce DEF At
<1>11. At(vtS)' = At(vtS) + 1 /\ \A s \in SnValue : At(s)' = At(s)
    BY <1>3, <1>5 DEF At
<1>12. /\ vrR \in SnValue /\ vrX \in SnValue /\ vrMs \in SnValue /\ vrH \in SnValue
       /\ DOMAIN txedBuffer \subseteq SnValue /\ DOMAIN rxonBuffer \subseteq SnValue
    BY DEF AmInv, TypeOK, Buffers
<1>13. Windows'
    BY <1>3, <1>4, <1>10, <1>11, <1>12 DEF AmInv, Shared, Windows, rxVars, At
<1>14. Buffered'
    BY <1>3, <1>11, <1>12 DEF AmInv, Shared, Buffered, rxVars, At
<1>15. Kept'
    <2>1. \A s \in DOMAIN txedBuffer : At(s) < At(vtS)
        BY DEF AmInv, Shared, Kept
    <2>2. \A s \in DOMAIN txedBuffer' : s \in SnValue /\ At(s) < At(vtS) + 1
        BY <1>2, <1>4, <1>8, <1>10, <1>12, <2>1
    <2> QED BY <1>3, <1>11, <2>2 DEF Kept
<1>16. NoneForgotten'
    <2> SUFFICES ASSUME NEW s \in SnValue, At(vrR) <= At(s), At(s) < At(vtS) + 1
                 PROVE  Held(s)'
        BY <1>3, <1>11, <1>12 DEF NoneForgotten, rxVars, At
    <2>1. CASE s = vtS
        BY <1>8, <2>1 DEF Held
    <2>2. CASE s # vtS
        <3>1. At(s) < At(vtS)
            BY <1>4, <1>10, <2>2
        <3>2. Held(s)
            BY <3>1 DEF AmInv, Shared, NoneForgotten
        <3> QED BY <1>3, <1>8, <3>2 DEF Held, rxVars
    <2> QED BY <2>1, <2>2
<1>17. OnAirOnly'
    <2> SUFFICES ASSUME NEW i \in DOMAIN data'
                 PROVE  \/ At(data'[i].sn) < At(vtS) + 1
                        \/ (At(vtS) + 1) + WindowSize <= At(data'[i].sn)
        BY <1>3, <1>5 DEF OnAirOnly, OnAir, At
    <2>1. data \in Seq(Pdu) /\ Len(data) \in Nat
        BY DEF AmInv, TypeOK
    <2>2. /\ DOMAIN data = 1 .. Len(data) /\ DOMAIN data' = 1 .. Len(data) + 1
          /\ \A j \in 1 .. Len(data) : data'[j] = data[j] /\ data[j] \in Pdu
          /\ data'[Len(data) + 1] = pdu
        BY <1>3, <1>7, <2>1, AppendProperties
    <2>3. CASE i = Len(data) + 1
        BY <1>4, <1>7, <2>2, <2>3
    <2>4. CASE i \in 1 .. Len(data)
        <3> DEFINE sn == data[i].sn
        <3>1. data'[i].sn = sn /\ sn \in SnValue /\ OnAir(sn)
            BY <2>2, <2>4 DEF AmInv, Shared, OnAirOnly, Pdu
        <3>2. sn # Wrap(vtS + WindowSize)
            BY <2>2, <2>4 DEF SendNewPdu
        <3>3. /\ Wrap(vtS + WindowSize) \in SnValue
              /\ At(Wrap(vtS + WindowSize)) = At(vtS) + WindowSize
            BY <1>2, <1>4, WindowAfter DEF At
        <3>4. At(sn) # At(vtS) + WindowSize
            BY <1>2, <3>1, <3>2, <3>3, DistOnce DEF At
        <3>5. At(sn) < At(vtS) \/ At(vtS) + WindowSize <= At(sn)
            BY <3>1 DEF OnAir
        <3> HIDE DEF sn
        <3>6. At(sn) \in Nat
            BY <1>10, <3>1
        <3>7. At(sn) < At(vtS) + 1 \/ (At(vtS) + 1) + WindowSize <= At(sn)
            BY <1>4, <3>4, <3>5, <3>6
        <3> QED BY <3>1, <3>7
    <2> QED BY <2>1, <2>2, <2>3, <2>4
<1>18. StatusesTrue'
    <2>1. \A s \in SnValue : Received(s) => Received(s)'
        BY <1>3 DEF Received, rxVars, At
    <2>2. At(vtS) <= At(vtS)'
        BY <1>4, <1>11
    <2> QED BY <1>3, <1>5, <1>8, <2>1, <2>2, StatusesStayTrue DEF AmInv, Shared
<1>19. Polled'
    <2>1. pollSn' = Wrap(vtS' - 1)
        BY <1>2, <1>3, Sizes DEF Wrap, SnValue
    <2> QED BY <1>3, <2>1 DEF Polled
<1>20. BacklogReported'
    BY <1>3 DEF AmInv, BacklogReported, Tx!BacklogReported, Tx!Outstanding
<1> QED BY <1>9, <1>13, <1>14, <1>15, <1>16, <1>17, <1>18, <1>19, <1>20 DEF AmInv, Shared

\* A PDU is sent again.  When it does not poll, a later one will.
LEMMA RetransmitKeeps ==
    ASSUME AmInv, Retransmit
    PROVE  AmInv'
<1> DEFINE pdu == Tx!RetxPdu
           sn  == Tx!Earliest(DOMAIN retxBuffer)
<1>1. Tx!Retransmit /\ UnderWay(pdu)
    BY DEF Retransmit
<1>2. /\ vtA \in SnValue /\ vtS \in SnValue /\ Tx!TxonBufferSize \in Nat
      /\ Buffers(txedBuffer) /\ Buffers(retxBuffer)
    BY DEF AmInv, TypeOK
<1>3. DOMAIN retxBuffer # {} /\ DOMAIN retxBuffer \subseteq SnValue
    BY <1>1, <1>2 DEF Tx!Retransmit, Tx!Pending, Buffers
<1>4. sn \in DOMAIN retxBuffer /\ \A t \in DOMAIN retxBuffer : At(sn) <= At(t)
    BY <1>2, <1>3, EarliestOf
<1>5. pdu = [retxBuffer[sn] EXCEPT !.poll = Tx!RetxPolls(sn)]
    BY DEF Tx!RetxPdu
<1> HIDE DEF sn
<1>6. /\ retxBuffer[sn] \in Pdu /\ retxBuffer[sn].sn = sn
      /\ Tx!RetxPolls(sn) \in BOOLEAN
    BY <1>2, <1>4 DEF Buffers, Tx!RetxPolls
<1>7. pdu \in Pdu /\ pdu.sn = sn /\ pdu.poll = Tx!RetxPolls(sn)
    BY <1>5, <1>6 DEF Pdu
<1> HIDE DEF pdu
<1>8. /\ txedBuffer' = Tx!KeptAfterRetx(sn)
      /\ retxBuffer' = Tx!Removed(retxBuffer, {sn})
      /\ IF Tx!RetxPolls(sn) THEN Tx!Poll(Tx!Wrap(vtS - 1))
         ELSE UNCHANGED <<pollSn, pollRetransmitTimer, pollRetransmitTimerJustExpired>>
      /\ reported' = FALSE
      /\ UNCHANGED <<accepted, sent, vtA, vtS, rbsTimer>>
    BY <1>1, <1>7 DEF Tx!Retransmit, pdu
<1>9. /\ data' = Append(data, pdu)
      /\ UNCHANGED <<rxVars, reassembly, statuses, losses>>
    BY <1>1 DEF UnderWay
<1>10. /\ DOMAIN txedBuffer' = DOMAIN txedBuffer \cup {sn}
       /\ txedBuffer'[sn] = retxBuffer[sn]
       /\ \A s \in DOMAIN txedBuffer \ {sn} : txedBuffer'[s] = txedBuffer[s]
       /\ DOMAIN retxBuffer' = DOMAIN retxBuffer \ {sn}
       /\ \A s \in DOMAIN retxBuffer \ {sn} : retxBuffer'[s] = retxBuffer[s]
    BY <1>8 DEF Tx!KeptAfterRetx, Tx!Copied, Tx!Removed
<1>11. pollSn' = Wrap(vtS' - 1) /\ pollSn' \in SnValue
    <2>1. pollSn = Wrap(vtS - 1) /\ Wrap(vtS - 1) \in SnValue
        BY <1>2, OneBefore DEF AmInv, Polled
    <2> QED BY <1>8, <2>1, SameNumbers DEF Tx!Poll
<1>12. TypeOK'
    <2>1. Buffers(txedBuffer)' /\ Buffers(retxBuffer)'
        BY <1>2, <1>3, <1>4, <1>6, <1>10 DEF Buffers
    <2>2. data' \in Seq(Pdu)
        BY <1>7, <1>9 DEF AmInv, TypeOK
    <2>3. Tx!TxonBufferSize' = Tx!TxonBufferSize
        BY <1>8 DEF Tx!TxonBufferSize
    <2>4. pollRetransmitTimer' \in BOOLEAN /\ pollRetransmitTimerJustExpired' \in BOOLEAN
        BY <1>8 DEF AmInv, TypeOK, Tx!Poll
    <2> QED BY <1>2, <1>8, <1>9, <1>11, <2>1, <2>2, <2>3, <2>4 DEF AmInv, TypeOK, rxVars
<1>13. /\ DOMAIN txedBuffer' \cap DOMAIN retxBuffer' = {}
       /\ DOMAIN txedBuffer' \cup DOMAIN retxBuffer' = DOMAIN txedBuffer \cup DOMAIN retxBuffer
    BY <1>4, <1>10 DEF AmInv, Shared, Kept
<1>14. Windows' /\ Buffered' /\ Kept' /\ NoneForgotten' /\ StatusesTrue'
    BY <1>8, <1>9, <1>13, BuffersShuffled DEF AmInv, rxVars
<1>15. OnAirOnly'
    <2>1. data \in Seq(Pdu) /\ Len(data) \in Nat
        BY DEF AmInv, TypeOK
    <2>2. /\ DOMAIN data = 1 .. Len(data) /\ DOMAIN data' = 1 .. Len(data) + 1
          /\ \A j \in 1 .. Len(data) : data'[j] = data[j]
          /\ data'[Len(data) + 1] = pdu
        BY <1>7, <1>9, <2>1, AppendProperties
    <2>3. At(sn) < At(vtS)
        BY <1>4 DEF AmInv, Shared, Kept
    <2>4. OnAir(pdu.sn) /\ \A j \in DOMAIN data : OnAir(data[j].sn)
        BY <1>7, <2>3 DEF AmInv, Shared, OnAirOnly, OnAir
    <2>5. ASSUME NEW i \in DOMAIN data' PROVE OnAir(data'[i].sn)
        BY <2>1, <2>2, <2>4
    <2> QED BY <1>8, <2>5 DEF OnAirOnly, OnAir, At
<1>16. Polled'
    <2>1. CASE Tx!RetxPolls(sn)
        BY <1>8, <1>11, <2>1 DEF Polled, Tx!Poll
    <2>2. CASE ~Tx!RetxPolls(sn)
        <3>1. /\ ~(Tx!TxonBufferSize = 0 /\ DOMAIN retxBuffer = {sn})
              /\ Tx!Below(vtS, Tx!VtMs)
              /\ UNCHANGED <<pollRetransmitTimer, pollRetransmitTimerJustExpired>>
            BY <1>8, <2>2 DEF Tx!RetxPolls
        <3>2. vtS # Tx!VtMs
            BY <3>1 DEF Tx!Below, Tx!LessThan, Tx!Sn
        <3>3. Tx!TxonBufferSize' = Tx!TxonBufferSize /\ Tx!VtMs' = Tx!VtMs /\ vtS' = vtS
            BY <1>8 DEF Tx!TxonBufferSize, Tx!VtMs
        <3>4. CASE Tx!TxonBufferSize > 0
            BY <1>11, <3>2, <3>3, <3>4 DEF Polled
        <3>5. CASE ~(Tx!TxonBufferSize > 0)
            <4>1. PICK u \in DOMAIN retxBuffer : u # sn
                BY <1>2, <1>4, <3>1, <3>5
            <4>2. \A s \in SnValue : At(s) \in Nat
                BY <1>2, DistType DEF At
            <4>3. \A t \in DOMAIN retxBuffer : t # sn => At(sn) < At(t)
                BY <1>2, <1>3, <1>4, <4>2, DistOnce DEF At
            <4>4. CASE pollRetransmitTimer \/ pollRetransmitTimerJustExpired
                BY <1>11, <3>1, <4>4 DEF Polled
            <4>5. CASE \A s \in DOMAIN txedBuffer : At(s) < At(sn)
                <5>1. u \in DOMAIN retxBuffer' /\ \A s \in DOMAIN txedBuffer' : At(s) < At(u)
                    BY <1>2, <1>3, <1>4, <1>10, <4>1, <4>2, <4>3, <4>5 DEF Buffers
                <5> QED BY <1>8, <1>11, <5>1 DEF Polled, At
            <4>6. CASE \E t \in DOMAIN retxBuffer : t # sn /\ \A s \in DOMAIN txedBuffer : At(s) < At(t)
                <5>1. PICK t \in DOMAIN retxBuffer :
                          t # sn /\ \A s \in DOMAIN txedBuffer : At(s) < At(t)
                    BY <4>6
                <5>2. t \in DOMAIN retxBuffer' /\ \A s \in DOMAIN txedBuffer' : At(s) < At(t)
                    BY <1>10, <4>3, <5>1
                <5> QED BY <1>8, <1>11, <5>2 DEF Polled, At
            <4>7. DOMAIN txedBuffer # {} =>
                    \/ pollRetransmitTimer \/ pollRetransmitTimerJustExpired
                    \/ \E t \in DOMAIN retxBuffer : \A s \in DOMAIN txedBuffer : At(s) < At(t)
                BY <3>5 DEF AmInv, Polled
            <4> QED BY <4>4, <4>5, <4>6, <4>7
        <3> QED BY <3>4, <3>5
    <2> QED BY <2>1, <2>2
<1>17. BacklogReported'
    <2>1. Tx!Outstanding
        BY <1>3 DEF Tx!Outstanding, Tx!Pending
    <2> QED BY <1>8, <2>1 DEF AmInv, BacklogReported, Tx!BacklogReported
<1> QED BY <1>12, <1>14, <1>15, <1>16, <1>17 DEF AmInv, Shared

\* What is not acknowledged is sent again, and the next PDU polls.
LEMMA PollExpiresKeeps ==
    ASSUME AmInv, PollExpires
    PROVE  AmInv'
<1>1. /\ Tx!ExpirePollRetransmitTimer
      /\ UNCHANGED <<rxVars, reassembly, data, statuses, losses>>
    BY DEF PollExpires, TxOnly
<1>2. /\ pollRetransmitTimer' = FALSE /\ pollRetransmitTimerJustExpired' = TRUE
      /\ UNCHANGED <<accepted, sent, vtA, vtS, pollSn, rbsTimer>>
      /\ reported' = (reported \/ Tx!Outstanding)
    BY <1>1 DEF Tx!ExpirePollRetransmitTimer
<1>3. /\ vtA \in SnValue /\ vtS \in SnValue /\ Buffers(txedBuffer) /\ Buffers(retxBuffer)
      /\ DOMAIN txedBuffer \subseteq SnValue /\ DOMAIN retxBuffer \subseteq SnValue
      /\ DOMAIN txedBuffer \cap DOMAIN retxBuffer = {}
      /\ \A s \in DOMAIN txedBuffer : At(s) < At(vtS)
    BY DEF AmInv, TypeOK, Buffers, Shared, Kept
<1>4. {s \in DOMAIN txedBuffer : Tx!Below(s, vtS)} = DOMAIN txedBuffer
    BY <1>3, TxBelow
<1>5. \/ /\ retxBuffer' = Tx!Copied(retxBuffer, txedBuffer, DOMAIN txedBuffer)
         /\ txedBuffer' = Tx!Removed(txedBuffer, DOMAIN txedBuffer)
      \/ UNCHANGED <<retxBuffer, txedBuffer>>
    BY <1>1, <1>4 DEF Tx!ExpirePollRetransmitTimer
<1>6. /\ DOMAIN txedBuffer' \cap DOMAIN retxBuffer' = {}
      /\ DOMAIN txedBuffer' \cup DOMAIN retxBuffer' = DOMAIN txedBuffer \cup DOMAIN retxBuffer
      /\ Buffers(txedBuffer)' /\ Buffers(retxBuffer)'
    BY <1>3, <1>5 DEF Tx!Copied, Tx!Removed, Buffers
<1>7. Tx!Outstanding \in BOOLEAN /\ Tx!TxonBufferSize' = Tx!TxonBufferSize
    BY <1>2 DEF Tx!Outstanding, Tx!TxonBufferSize, Tx!Pending
<1>8. TypeOK'
    BY <1>1, <1>2, <1>6, <1>7 DEF AmInv, TypeOK, rxVars
<1>9. Windows' /\ Buffered' /\ Kept' /\ NoneForgotten' /\ StatusesTrue'
    BY <1>1, <1>2, <1>6, BuffersShuffled DEF AmInv, rxVars
<1>10. OnAirOnly'
    BY <1>1, <1>2 DEF AmInv, Shared, OnAirOnly, OnAir, At
<1>11. Polled'
    BY <1>2 DEF AmInv, Polled
<1>12. BacklogReported'
    <2>1. Tx!Outstanding' => Tx!Outstanding
        BY <1>6, <1>7 DEF Tx!Outstanding, Tx!Pending
    <2> QED BY <1>2, <2>1 DEF AmInv, BacklogReported, Tx!BacklogReported
<1> QED BY <1>8, <1>9, <1>10, <1>11, <1>12 DEF AmInv, Shared

\* The oldest STATUS PDU arrives: VT(A) moves to the first number it misses or
\* to its ACK_SN, and so not beyond VR(R).
LEMMA ArriveStatusKeeps ==
    ASSUME AmInv, ArriveStatus
    PROVE  AmInv'
<1>1. PICK st : st = statuses[1]
    OBVIOUS
<1>2. PICK nacked : nacked = Tx!Covered(st.ack) \cap st.nacks
    OBVIOUS
<1>3. PICK covered : covered = Tx!Covered(st.ack)
    OBVIOUS
<1>4. /\ statuses # <<>> /\ statuses' = Tail(statuses)
      /\ Tx!ReceiveStatus(st.ack, st.nacks)
      /\ UNCHANGED <<rxVars, reassembly, data, losses>>
    BY <1>1 DEF ArriveStatus
<1>5. /\ txedBuffer' = Tx!Removed(txedBuffer, covered)
      /\ retxBuffer' = Tx!Copied(Tx!Removed(retxBuffer, covered \ nacked), txedBuffer,
                                 nacked \cap DOMAIN txedBuffer)
      /\ vtA' = Tx!NewVtA(covered, nacked)
      /\ pollRetransmitTimer' = (pollRetransmitTimer /\ ~Tx!PollAnswered(covered))
      /\ UNCHANGED <<accepted, sent, vtS, pollSn, pollRetransmitTimerJustExpired,
                     rbsTimer, reported>>
    BY <1>2, <1>3, <1>4 DEF Tx!ReceiveStatus
<1>6. /\ statuses \in Seq(StatusPdus) /\ Len(statuses) \in Nat
      /\ DOMAIN statuses = 1 .. Len(statuses) /\ 1 \in DOMAIN statuses
      /\ DOMAIN statuses' = 1 .. Len(statuses) - 1 /\ statuses' \in Seq(StatusPdus)
      /\ \A i \in DOMAIN statuses' : /\ i + 1 \in DOMAIN statuses
                                     /\ statuses'[i] = statuses[i + 1] /\ 1 < i + 1
    BY <1>4 DEF AmInv, TypeOK
<1>7. st.ack \in SnValue /\ st.nacks \subseteq SnValue /\ Truthful(st)
    <2>1. st \in StatusPdus
        BY <1>1, <1>6
    <2> QED BY <1>1, <1>6, <2>1 DEF StatusPdus, AmInv, Shared, StatusesTrue
<1>8. /\ vtA \in SnValue /\ vtS \in SnValue /\ vrR \in SnValue /\ vrX \in SnValue
      /\ vrMs \in SnValue /\ vrH \in SnValue
      /\ Buffers(txedBuffer) /\ Buffers(retxBuffer) /\ Buffers(rxonBuffer)
      /\ Tx!TxonBufferSize \in Nat
    BY DEF AmInv, TypeOK
<1>9. \A s \in SnValue : At(s) \in Nat /\ At(s) < SnMod
    BY AtType DEF AmInv
<1>10. At(st.ack) <= At(vtS)
    BY <1>7 DEF Truthful
<1>11. covered = {s \in SnValue : At(s) < At(st.ack)} /\ nacked = st.nacks
    <2>1. covered = {s \in SnValue : At(s) < At(st.ack)}
        BY <1>3, <1>7, <1>8, <1>10, CoveredIs
    <2>2. st.nacks \subseteq covered
        BY <1>7, <2>1 DEF Truthful
    <2> QED BY <1>2, <1>3, <2>1, <2>2
<1>12. /\ vtA' \in SnValue /\ At(vtA') <= At(st.ack)
       /\ vtA' = st.ack \/ vtA' \in nacked
       /\ \A s \in nacked : At(vtA') <= At(s)
    <2>1. nacked \subseteq covered
        BY <1>2, <1>3
    <2>2. PICK m : m = Tx!NewVtA(covered, nacked)
        OBVIOUS
    <2>3. /\ m \in SnValue /\ At(m) <= At(st.ack)
          /\ m = st.ack \/ m \in nacked
          /\ \A s \in nacked : At(m) <= At(s)
        BY <1>7, <1>8, <1>11, <2>1, <2>2, NewVtAIs
    <2> QED BY <1>5, <2>2, <2>3
<1> DEFINE A(s) == Dist(vtA, s)
           B(s) == Dist(vtA', s)
           m    == A(vtA')
<1>13. \A s \in SnValue : A(s) \in Nat /\ A(s) < SnMod /\ B(s) \in Nat /\ B(s) < SnMod
    BY <1>8, <1>12, DistType
<1>14. \A s \in SnValue : B(s) = IF m <= A(s) THEN A(s) - m ELSE SnMod + A(s) - m
    BY <1>8, <1>12, Moved
<1>15. \A s \in SnValue : A(s) < m => Received(s)
    <2> SUFFICES ASSUME NEW s \in SnValue, A(s) < m PROVE Received(s)
        OBVIOUS
    <2>1. A(s) < A(st.ack) /\ s \notin nacked
        BY <1>7, <1>12, <1>13 DEF At
    <2> QED BY <1>7, <1>11, <2>1 DEF Truthful, At
<1>16. /\ A(vrR) <= A(vrMs) /\ A(vrMs) <= A(vrH) /\ A(vrH) <= A(vtS) /\ A(vtS) <= WindowSize
       /\ reorderingTimer => A(vrR) < A(vrX) /\ A(vrX) <= A(vrH)
    BY DEF AmInv, Shared, Windows, At
<1>17. vrMs \notin DOMAIN rxonBuffer
       /\ \A s \in DOMAIN rxonBuffer : A(vrR) < A(s) /\ A(s) < A(vrH)
    BY DEF AmInv, Shared, Buffered, At
<1>18. m <= A(vrR) /\ m \in Nat /\ m <= A(st.ack)
    <2>1. vrR \notin DOMAIN rxonBuffer /\ ~(A(vrR) < A(vrR))
        BY <1>8, <1>13, <1>17
    <2>2. ~(A(vrR) < m)
        BY <1>8, <1>15, <2>1 DEF Received, At
    <2> QED BY <1>8, <1>12, <1>13, <2>2 DEF At
<1>19. WindowSize \in Nat /\ SnMod = 2 * WindowSize
    BY Sizes
\* What lies at or after the new VT(A) keeps its order.
<1>20. \A s, t \in SnValue : m <= A(t) =>
           /\ B(s) < B(t) <=> m <= A(s) /\ A(s) < A(t)
           /\ B(s) <= B(t) <=> m <= A(s) /\ A(s) <= A(t)
    BY <1>8, <1>12, Between
<1> HIDE DEF A, B, m
<1>21. \A s \in SnValue : m <= A(s) => B(s) = A(s) - m /\ B(s) <= A(s)
    BY <1>13, <1>14, <1>18
<1>22. \A s : At(s)' = B(s)
    BY DEF At, B
<1>23. DOMAIN txedBuffer' = DOMAIN txedBuffer \ covered
       /\ \A s \in DOMAIN txedBuffer' : txedBuffer'[s] = txedBuffer[s]
    BY <1>5 DEF Tx!Removed
<1>24. /\ DOMAIN retxBuffer' = (DOMAIN retxBuffer \ (covered \ nacked))
                                   \cup (nacked \cap DOMAIN txedBuffer)
       /\ \A s \in DOMAIN retxBuffer' : \/ s \in DOMAIN txedBuffer
                                           /\ retxBuffer'[s] = txedBuffer[s]
                                        \/ s \in DOMAIN retxBuffer
                                           /\ retxBuffer'[s] = retxBuffer[s]
    BY <1>5 DEF Tx!Removed, Tx!Copied
<1>25. /\ DOMAIN txedBuffer \cap DOMAIN retxBuffer = {}
       /\ \A s \in DOMAIN txedBuffer \cup DOMAIN retxBuffer : s \in SnValue /\ A(s) < A(vtS)
    BY <1>8 DEF AmInv, Shared, Kept, Buffers, At, A
\* Exactly what was acknowledged is forgotten.
<1>26. DOMAIN txedBuffer' \cup DOMAIN retxBuffer'
           = (DOMAIN txedBuffer \cup DOMAIN retxBuffer) \ (covered \ nacked)
    BY <1>2, <1>3, <1>23, <1>24
<1>27. \A s \in covered \ nacked : s \in SnValue /\ Received(s)
    BY <1>7, <1>11 DEF Truthful
<1>28. \A s \in SnValue \ (covered \ nacked) : m <= A(s)
    BY <1>7, <1>11, <1>12, <1>13, <1>18 DEF At, A, m
<1>29. TypeOK'
    <2>1. Buffers(txedBuffer)'
        BY <1>8, <1>23 DEF Buffers
    <2>2. Buffers(retxBuffer)'
        BY <1>8, <1>24 DEF Buffers
    <2>3. Tx!TxonBufferSize' = Tx!TxonBufferSize /\ pollRetransmitTimer' \in BOOLEAN
        BY <1>5 DEF Tx!TxonBufferSize, AmInv, TypeOK, Tx!PollAnswered
    <2> QED BY <1>4, <1>5, <1>6, <1>12, <2>1, <2>2, <2>3 DEF AmInv, TypeOK, rxVars
<1>30. UNCHANGED <<vrR, vrX, vrMs, vrH, rxonBuffer, reorderingTimer>> /\ vtS' = vtS
    BY <1>4, <1>5 DEF rxVars
<1>31. /\ m <= A(vrR) /\ m <= A(vrMs) /\ m <= A(vrH) /\ m <= A(vtS)
       /\ reorderingTimer => m <= A(vrX)
    BY <1>8, <1>13, <1>16, <1>18
<1>32. Windows'
    <2>1. B(vrR) <= B(vrMs) /\ B(vrMs) <= B(vrH) /\ B(vrH) <= B(vtS)
        BY <1>8, <1>16, <1>20, <1>31
    <2>2. B(vtS) <= WindowSize
        BY <1>8, <1>13, <1>16, <1>19, <1>21, <1>31
    <2>3. reorderingTimer => B(vrR) < B(vrX) /\ B(vrX) <= B(vrH)
        BY <1>8, <1>16, <1>20, <1>31
    <2> QED BY <1>22, <1>30, <2>1, <2>2, <2>3 DEF Windows, At, B
<1>33. Buffered'
    <2>1. \A s \in DOMAIN rxonBuffer : s \in SnValue /\ m <= A(s)
        BY <1>8, <1>13, <1>17, <1>18 DEF Buffers, A
    <2>2. \A s \in DOMAIN rxonBuffer : B(vrR) < B(s) /\ B(s) < B(vrH)
        BY <1>8, <1>17, <1>20, <1>31, <2>1 DEF A
    <2> QED BY <1>17, <1>30, <2>2 DEF Buffered, At, B
<1>34. Kept'
    <2>1. DOMAIN txedBuffer' \cap DOMAIN retxBuffer' = {}
        BY <1>2, <1>3, <1>23, <1>24, <1>25
    <2>2. \A s \in DOMAIN txedBuffer' \cup DOMAIN retxBuffer' : B(s) < B(vtS)
        BY <1>8, <1>20, <1>25, <1>26, <1>28, <1>31
    <2> QED BY <1>30, <2>1, <2>2 DEF Kept, At, B
<1>35. NoneForgotten'
    <2> SUFFICES ASSUME NEW s \in SnValue, B(vrR) <= B(s), B(s) < B(vtS) PROVE Held(s)'
        BY <1>30 DEF NoneForgotten, At, B
    <2>1. m <= A(s) /\ A(s) < A(vtS)
        BY <1>8, <1>20, <1>31
    <2>2. A(vrR) <= A(s)
        BY <1>8, <1>20, <2>1
    <2>3. Held(s)
        BY <2>1, <2>2 DEF AmInv, Shared, NoneForgotten, At, A
    <2>4. CASE s \in covered \ nacked
        <3>1. ~(A(s) < A(vrR))
            BY <1>8, <1>13, <2>2
        <3>2. s \in DOMAIN rxonBuffer
            BY <1>27, <2>4, <3>1 DEF Received, At, A
        <3> QED BY <1>30, <3>2 DEF Held
    <2>5. CASE s \notin covered \ nacked
        BY <1>26, <1>30, <2>3, <2>5 DEF Held
    <2> QED BY <2>4, <2>5
<1>36. OnAirOnly'
    <2> SUFFICES ASSUME NEW i \in DOMAIN data
                 PROVE  B(data[i].sn) < B(vtS) \/ B(vtS) + WindowSize <= B(data[i].sn)
        BY <1>4, <1>30 DEF OnAirOnly, OnAir, At, B
    <2>1. PICK sn : sn = data[i].sn
        OBVIOUS
    <2>2. sn \in SnValue
        <3>1. data[i] \in Pdu
            BY DEF AmInv, TypeOK
        <3> QED BY <2>1, <3>1 DEF Pdu
    <2>3. A(sn) < A(vtS) \/ A(vtS) + WindowSize <= A(sn)
        BY <2>1 DEF AmInv, Shared, OnAirOnly, OnAir, At, A
    <2>4. B(sn) < B(vtS) \/ B(vtS) + WindowSize <= B(sn)
        <3>1. A(sn) \in Nat /\ A(vtS) \in Nat
            BY <1>8, <1>13, <2>2
        <3>2. B(sn) = IF m <= A(sn) THEN A(sn) - m ELSE SnMod + A(sn) - m
            BY <1>14, <2>2
        <3>3. B(vtS) = A(vtS) - m
            BY <1>8, <1>21, <1>31
        <3> QED BY <1>16, <1>18, <1>19, <1>31, <2>3, <3>1, <3>2, <3>3
    <2> QED BY <2>1, <2>4
<1>37. StatusesTrue'
    <2>1. ASSUME NEW i \in DOMAIN statuses, 1 < i
          PROVE  /\ statuses[i].ack \in SnValue /\ statuses[i].nacks \subseteq SnValue
                 /\ Truthful(statuses[i]) /\ Succeeds(st, statuses[i])
                 /\ \A s \in statuses[i].nacks \cup {statuses[i].ack} :
                       m <= A(s) /\ s \notin covered \ nacked
        <3>1. statuses[i] \in StatusPdus
            BY <1>6
        <3>2. Truthful(statuses[i]) /\ Succeeds(st, statuses[i])
            BY <1>1, <1>6, <2>1 DEF AmInv, Shared, StatusesTrue
        <3>3. \A s \in statuses[i].nacks \cup {statuses[i].ack} :
                  s \in SnValue /\ s \notin covered \ nacked
            BY <1>11, <3>1, <3>2 DEF Succeeds, StatusPdus
        <3> QED BY <1>28, <3>1, <3>2, <3>3 DEF StatusPdus
    <2> DEFINE BTruthful(new) ==
                   /\ B(new.ack) <= B(vtS)
                   /\ \A s \in new.nacks :
                         /\ B(s) < B(new.ack)
                         /\ s \in DOMAIN txedBuffer' \cup DOMAIN retxBuffer'
                   /\ \A s \in SnValue : B(s) < B(new.ack) =>
                         s \in new.nacks \/ B(s) < B(vrR) \/ s \in DOMAIN rxonBuffer
               BSucceeds(old, new) ==
                   \A s \in new.nacks \cup {new.ack} : B(s) < B(old.ack) => s \in old.nacks
    <2>2. ASSUME NEW i \in DOMAIN statuses, 1 < i
          PROVE  BTruthful(statuses[i])
        <3>1. PICK new : new = statuses[i]
            OBVIOUS
        <3>2. /\ new.ack \in SnValue /\ new.nacks \subseteq SnValue /\ Truthful(new)
              /\ \A s \in new.nacks \cup {new.ack} : m <= A(s) /\ s \notin covered \ nacked
            BY <2>1, <2>2, <3>1
        <3>3. B(new.ack) <= B(vtS)
            BY <1>8, <1>20, <1>31, <3>2 DEF Truthful, At, A
        <3>4. \A s \in new.nacks : B(s) < B(new.ack)
            BY <1>20, <3>2 DEF Truthful, At, A
        <3>5. \A s \in new.nacks : s \in DOMAIN txedBuffer' \cup DOMAIN retxBuffer'
            BY <1>26, <3>2 DEF Truthful
        <3>6. ASSUME NEW s \in SnValue, B(s) < B(new.ack), s \notin new.nacks
              PROVE  B(s) < B(vrR) \/ s \in DOMAIN rxonBuffer
            <4>1. m <= A(s) /\ A(s) < A(new.ack)
                BY <1>20, <3>2, <3>6
            <4>2. A(s) < A(vrR) \/ s \in DOMAIN rxonBuffer
                BY <3>2, <3>6, <4>1 DEF Truthful, Received, At, A
            <4> QED BY <1>8, <1>20, <1>31, <4>1, <4>2
        <3>7. BTruthful(new)
            BY <3>3, <3>4, <3>5, <3>6
        <3> QED BY <3>1, <3>7
    <2>3. ASSUME NEW i \in DOMAIN statuses, NEW j \in DOMAIN statuses, 1 < i, i < j
          PROVE  BSucceeds(statuses[i], statuses[j])
        <3>1. Succeeds(statuses[i], statuses[j])
            BY <2>3 DEF AmInv, Shared, StatusesTrue
        <3>2. 1 < j
            BY <1>6, <2>3
        <3>3. /\ \A s \in statuses[j].nacks \cup {statuses[j].ack} : s \in SnValue
              /\ m <= A(statuses[i].ack) /\ statuses[i].ack \in SnValue
            BY <2>1, <2>3, <3>2
        <3> QED BY <1>20, <3>1, <3>3 DEF Succeeds, At, A
    <2>4. \A i \in DOMAIN statuses' :
              /\ i + 1 \in DOMAIN statuses /\ 1 < i + 1 /\ statuses'[i] = statuses[i + 1]
              /\ \A j \in DOMAIN statuses' : i < j => i + 1 < j + 1
        BY <1>6
    <2> HIDE DEF BTruthful, BSucceeds
    <2>5. /\ \A i \in DOMAIN statuses' : BTruthful(statuses'[i])
          /\ \A i, j \in DOMAIN statuses' : i < j => BSucceeds(statuses'[i], statuses'[j])
        BY <2>2, <2>3, <2>4
    <2> QED BY <1>30, <2>5 DEF StatusesTrue, Truthful, Succeeds, Received, At, B,
                               BTruthful, BSucceeds
<1>38. Polled'
    <2>1. pollSn' = Wrap(vtS' - 1) /\ pollSn = Wrap(vtS - 1)
        BY <1>5 DEF AmInv, Polled
    <2>2. CASE Tx!PollAnswered(covered)
        <3>1. pollSn \in SnValue /\ A(pollSn) < A(st.ack)
            BY <1>11, <2>2 DEF Tx!PollAnswered, At, A
        <3>2. /\ A(vtS) > 0 => A(pollSn) = A(vtS) - 1
              /\ A(vtS) = 0 => A(pollSn) = SnMod - 1
            BY <1>8, <2>1, OneBefore DEF A
        <3>3. A(st.ack) <= A(vtS)
            BY <1>10 DEF At, A
        <3>4. A(vtS) <= A(st.ack)
            BY <1>7, <1>8, <1>13, <1>19, <3>1, <3>2, <3>3
        <3>5. DOMAIN txedBuffer \subseteq covered
            BY <1>7, <1>8, <1>11, <1>13, <1>25, <3>4 DEF At, A
        <3> QED BY <1>23, <2>1, <3>5 DEF Polled
    <2>3. CASE ~Tx!PollAnswered(covered) /\ DOMAIN txedBuffer' # {}
        <3>1. /\ pollRetransmitTimer' = pollRetransmitTimer
              /\ pollRetransmitTimerJustExpired' = pollRetransmitTimerJustExpired
            BY <1>5, <2>3 DEF AmInv, TypeOK
        <3>2. \/ pollRetransmitTimer \/ pollRetransmitTimerJustExpired
              \/ Tx!TxonBufferSize > 0 /\ vtS # Tx!VtMs
              \/ \E t \in DOMAIN retxBuffer : \A s \in DOMAIN txedBuffer : A(s) < A(t)
            BY <1>23, <2>3 DEF AmInv, Polled, At, A
        <3>3. CASE pollRetransmitTimer \/ pollRetransmitTimerJustExpired
            BY <2>1, <3>1, <3>3 DEF Polled
        <3>4. CASE Tx!TxonBufferSize > 0 /\ vtS # Tx!VtMs
            <4>1. Tx!VtMs \in SnValue /\ A(Tx!VtMs) = WindowSize
                BY <1>8, VtMsAt DEF At, A
            <4>2. Tx!VtMs' \in SnValue /\ B(Tx!VtMs') = WindowSize
                BY <1>12, <1>19, Onward, SameNumbers, Sizes DEF Tx!VtMs, B
            <4>3. A(vtS) # WindowSize
                BY <1>8, <3>4, <4>1, DistOnce DEF A
            <4>4. B(vtS) # WindowSize
                BY <1>8, <1>13, <1>16, <1>18, <1>19, <1>21, <1>31, <4>3
            <4>5. Tx!TxonBufferSize' = Tx!TxonBufferSize
                BY <1>5 DEF Tx!TxonBufferSize
            <4> QED BY <1>30, <2>1, <3>4, <4>2, <4>4, <4>5 DEF Polled
        <3>5. CASE \E t \in DOMAIN retxBuffer : \A s \in DOMAIN txedBuffer : A(s) < A(t)
            <4>1. PICK t \in DOMAIN retxBuffer : \A s \in DOMAIN txedBuffer : A(s) < A(t)
                BY <3>5
            <4>2. PICK u \in DOMAIN txedBuffer' : TRUE
                BY <2>3
            <4>3. u \in DOMAIN txedBuffer /\ u \in SnValue /\ t \in SnValue
                  /\ ~(A(u) < A(st.ack)) /\ A(u) < A(t)
                BY <1>11, <1>23, <1>25, <4>1, <4>2 DEF At, A
            <4>4. ~(A(t) < A(st.ack))
                BY <1>7, <1>13, <4>3
            <4>5. t \notin covered
                BY <1>11, <4>4 DEF At, A
            <4>6. t \in DOMAIN retxBuffer' /\ m <= A(t)
                BY <1>24, <1>28, <4>1, <4>3, <4>5
            <4>7. ASSUME NEW s \in DOMAIN txedBuffer' PROVE B(s) < B(t)
                <5>1. s \in DOMAIN txedBuffer /\ s \in SnValue /\ m <= A(s) /\ A(s) < A(t)
                    BY <1>23, <1>25, <1>28, <4>1
                <5> QED BY <1>20, <4>3, <4>6, <5>1
            <4> QED BY <2>1, <4>6, <4>7 DEF Polled, At, B
        <3> QED BY <3>2, <3>3, <3>4, <3>5
    <2>4. CASE DOMAIN txedBuffer' = {}
        BY <2>1, <2>4 DEF Polled
    <2> QED BY <2>2, <2>3, <2>4
<1>39. BacklogReported'
    <2>1. Tx!Outstanding' => Tx!Outstanding
        <3>1. Tx!TxonBufferSize' = Tx!TxonBufferSize
            BY <1>5 DEF Tx!TxonBufferSize
        <3> QED BY <1>26, <3>1 DEF Tx!Outstanding, Tx!Pending
    <2> QED BY <1>5, <2>1 DEF AmInv, BacklogReported, Tx!BacklogReported
<1> QED BY <1>29, <1>32, <1>33, <1>34, <1>35, <1>36, <1>37, <1>38, <1>39 DEF AmInv, Shared

-----------------------------------------------------------------------------
(* The steps of the receiver and of the radio.                             *)

\* Where a received PDU of the window puts the receiver: everything it needs is
\* a distance above VT(A).
LEMMA PlacePduPlaces ==
    ASSUME TypeOK, Windows, Buffered, NEW pdu \in Pdu, OnAir(pdu.sn),
           Rx!IsInsideReceivingWindow(pdu.sn, vrR), Rx!PlacePdu(pdu),
           UNCHANGED <<vtA, vtS>>
    PROVE  /\ vrR' \in SnValue /\ vrX' \in SnValue /\ vrMs' \in SnValue /\ vrH' \in SnValue
           /\ reorderingTimer' \in BOOLEAN /\ Buffers(rxonBuffer)'
           /\ Windows' /\ Buffered' /\ At(vrR) <= At(vrR')
           /\ \A s \in DOMAIN rxonBuffer : s \in DOMAIN rxonBuffer' \/ At(s) < At(vrR')
<1> DEFINE buffer == Rx!Placed(pdu)
           sn     == pdu.sn
           r      == IF sn = vrR THEN Rx!NextMissing(buffer, vrR) ELSE vrR
           h      == Rx!NewVrH(sn)
           ms     == Rx!NextMissing(buffer, vrMs)
           A(s)   == Dist(vtA, s)
<1>1. /\ vtA \in SnValue /\ vtS \in SnValue /\ vrR \in SnValue /\ vrX \in SnValue
      /\ vrMs \in SnValue /\ vrH \in SnValue /\ sn \in SnValue
      /\ reorderingTimer \in BOOLEAN
      /\ Buffers(rxonBuffer) /\ DOMAIN rxonBuffer \subseteq SnValue
    BY DEF TypeOK, Buffers, Pdu
<1>2. \A s, t \in SnValue : /\ A(s) \in Nat /\ A(s) < SnMod
                            /\ A(s) = A(t) => s = t
    BY <1>1, DistType, DistOnce
<1>3. /\ A(vrR) <= A(vrMs) /\ A(vrMs) <= A(vrH) /\ A(vrH) <= A(vtS) /\ A(vtS) <= WindowSize
      /\ reorderingTimer => A(vrR) < A(vrX) /\ A(vrX) <= A(vrH)
      /\ vrMs \notin DOMAIN rxonBuffer
      /\ \A s \in DOMAIN rxonBuffer : A(vrR) < A(s) /\ A(s) < A(vrH)
      /\ A(sn) < A(vtS) \/ A(vtS) + WindowSize <= A(sn)
    BY DEF Windows, Buffered, OnAir, At
<1>4. WindowSize \in Nat /\ WindowSize >= 2 /\ SnMod = 2 * WindowSize
    BY Sizes
<1>5. /\ vrR' = r /\ vrH' = h /\ vrMs' = ms
      /\ rxonBuffer' = [s \in DOMAIN buffer \ Rx!SeqExt!ToSet(Rx!Run(r)) |-> buffer[s]]
      /\ vrX' = IF Rx!StartsTimer(r, h) THEN h ELSE vrX
      /\ reorderingTimer' = ((reorderingTimer /\ ~Rx!TimerStops(r)) \/ Rx!StartsTimer(r, h))
    BY DEF Rx!PlacePdu
<1>6. /\ DOMAIN buffer = DOMAIN rxonBuffer \cup {sn}
      /\ \A s \in DOMAIN rxonBuffer : buffer[s] = rxonBuffer[s]
      /\ sn \notin DOMAIN rxonBuffer => buffer[sn] = pdu
    BY DEF Rx!Placed
<1> HIDE DEF buffer, sn, A, ms, h, r
\* The PDU is of the receiving window, and so not yet acknowledged.
<1>7. A(vrR) <= A(sn) /\ A(sn) < A(vtS)
    <2>1. /\ Rx!VrMr(vrR) \in SnValue /\ Dist(vrR, Rx!VrMr(vrR)) = WindowSize
        BY <1>1, <1>4, Onward, SameNumbers DEF Rx!VrMr
    <2>2. Dist(vrR, sn) < WindowSize
        BY <1>1, <2>1, RxBefore DEF Rx!IsInsideReceivingWindow, sn
    <2>3. Dist(vrR, sn) = IF A(vrR) <= A(sn) THEN A(sn) - A(vrR) ELSE SnMod + A(sn) - A(vrR)
        BY <1>1, Moved DEF A
    <2>4. A(vrR) \in Nat /\ A(sn) \in Nat /\ A(vtS) \in Nat /\ A(vrMs) \in Nat /\ A(vrH) \in Nat
        BY <1>1, <1>2
    <2>5. A(vrR) <= A(vtS)
        BY <1>3, <2>4
    <2> QED BY <1>3, <1>4, <2>2, <2>3, <2>4, <2>5
<1>8. \A s, t, b \in SnValue : A(b) <= A(t) =>
          /\ Dist(b, s) < Dist(b, t) <=> A(b) <= A(s) /\ A(s) < A(t)
          /\ Dist(b, s) <= Dist(b, t) <=> A(b) <= A(s) /\ A(s) <= A(t)
    BY <1>1, Between DEF A
<1>9. A(vrR) <= A(vrH)
    BY <1>1, <1>2, <1>3
<1>10. /\ h \in SnValue /\ A(vrH) <= A(h) /\ A(sn) < A(h) /\ A(h) <= A(vtS)
    <2>1. Rx!Before(sn, vrH, vrR) <=> A(sn) < A(vrH)
        BY <1>1, <1>7, <1>8, <1>9, RxBefore
    <2>2. CASE A(sn) < A(vrH)
        BY <1>1, <1>2, <1>3, <2>1, <2>2 DEF h, Rx!NewVrH
    <2>3. CASE ~(A(sn) < A(vrH))
        <3>1. A(sn) < SnMod - 1
            BY <1>1, <1>2, <1>3, <1>4, <1>7
        <3>2. Wrap(sn + 1) \in SnValue /\ A(Wrap(sn + 1)) = A(sn) + 1
            BY <1>1, <3>1, OneAfter DEF A
        <3>3. h = Wrap(sn + 1)
            BY <2>1, <2>3, SameNumbers DEF h, Rx!NewVrH
        <3> QED BY <1>1, <1>2, <1>3, <1>7, <2>3, <3>2, <3>3
    <2> QED BY <2>2, <2>3
<1>11. /\ DOMAIN buffer \subseteq SnValue /\ h \notin DOMAIN buffer
       /\ \A s \in DOMAIN buffer : A(vrR) <= A(s) /\ A(s) < A(h)
    <2>1. \A s \in DOMAIN buffer : s \in SnValue /\ A(vrR) <= A(s) /\ A(s) < A(h)
        BY <1>1, <1>2, <1>3, <1>6, <1>7, <1>10
    <2>2. ~(A(h) < A(h))
        BY <1>2, <1>10
    <2> QED BY <2>1, <2>2
<1>12. A(vrR) <= A(h) /\ A(vrMs) <= A(h)
    BY <1>1, <1>2, <1>3, <1>9, <1>10
<1>13. /\ ms \in SnValue /\ ms \notin DOMAIN buffer /\ A(vrMs) <= A(ms) /\ A(ms) <= A(h)
    <2>1. /\ ms \in SnValue /\ ms \notin DOMAIN buffer /\ Dist(vrMs, ms) <= Dist(vrMs, h)
        BY <1>1, <1>10, <1>11, NextMissingFound DEF ms
    <2> QED BY <1>1, <1>8, <1>10, <1>12, <2>1
<1>14. /\ r \in SnValue /\ r \notin DOMAIN buffer /\ A(vrR) <= A(r) /\ A(r) <= A(ms)
    <2>1. CASE sn = vrR
        <3>1. r = Rx!NextMissing(buffer, vrR)
            BY <2>1 DEF r
        <3>2. PICK n : n = Rx!NextMissing(buffer, vrR)
            OBVIOUS
        <3>3. /\ n \in SnValue /\ n \notin DOMAIN buffer /\ Dist(vrR, n) <= Dist(vrR, h)
              /\ \A t \in SnValue : Dist(vrR, t) < Dist(vrR, n) => t \in DOMAIN buffer
            BY <1>1, <1>10, <1>11, <3>2, NextMissingFound
        <3>4. A(vrR) <= A(n)
            BY <1>1, <1>8, <1>10, <1>12, <3>3
        <3>5. ~(Dist(vrR, ms) < Dist(vrR, n))
            BY <1>13, <3>3
        <3>6. ~(A(vrR) <= A(ms) /\ A(ms) < A(n))
            BY <1>1, <1>8, <1>13, <3>3, <3>4, <3>5
        <3>7. A(n) <= A(ms)
            BY <1>1, <1>2, <1>3, <1>13, <3>3, <3>6
        <3> QED BY <3>1, <3>2, <3>3, <3>4, <3>7
    <2>2. CASE sn # vrR
        <3>1. r = vrR
            BY <2>2 DEF r
        <3>2. ~(A(vrR) < A(vrR))
            BY <1>1, <1>2
        <3> QED BY <1>1, <1>2, <1>3, <1>6, <1>13, <2>2, <3>1, <3>2
    <2> QED BY <2>1, <2>2
<1>15. /\ DOMAIN rxonBuffer' = {s \in DOMAIN buffer : A(r) <= A(s)}
       /\ \A s \in DOMAIN rxonBuffer' : rxonBuffer'[s] = buffer[s]
    <2>1. Rx!SeqExt!ToSet(Rx!Run(r)) = {s \in SnValue : Dist(vrR, s) < Dist(vrR, r)}
        BY <1>1, <1>14, RunReleases
    <2>2. \A s \in DOMAIN buffer : Dist(vrR, s) < Dist(vrR, r) <=> ~(A(r) <= A(s))
        BY <1>1, <1>2, <1>8, <1>11, <1>14
    <2> QED BY <1>5, <1>11, <2>1, <2>2
<1>16. A(r) <= A(h) /\ A(r) <= A(vtS) /\ A(r) <= WindowSize
    <2>1. A(r) \in Nat /\ A(ms) \in Nat /\ A(h) \in Nat /\ A(vtS) \in Nat
        BY <1>1, <1>2, <1>10, <1>13, <1>14
    <2> QED BY <1>3, <1>4, <1>10, <1>13, <1>14, <2>1
\* t-Reordering stops when VR(X) is reached or left behind.
<1>17. reorderingTimer /\ ~Rx!TimerStops(r) => A(r) < A(vrX) /\ A(vrX) <= A(h)
    <2> SUFFICES ASSUME reorderingTimer, ~Rx!TimerStops(r)
                 PROVE  A(r) < A(vrX) /\ A(vrX) <= A(h)
        OBVIOUS
    <2>1. A(vrR) < A(vrX) /\ A(vrX) <= A(vrH) /\ A(vrX) <= A(h)
        BY <1>1, <1>2, <1>3, <1>10
    <2>2. /\ Rx!VrMr(r) \in SnValue /\ Dist(r, Rx!VrMr(r)) = WindowSize
        BY <1>4, <1>14, Onward, SameNumbers DEF Rx!VrMr
    <2>3. vrX # r /\ (Dist(r, vrX) < WindowSize \/ vrX = Rx!VrMr(r))
        BY <1>1, <1>14, <2>2, RxBefore DEF Rx!TimerStops, Rx!IsInsideReceivingWindow
    <2>4. Dist(r, vrX) <= WindowSize
        BY <1>1, <1>4, <1>14, <2>2, <2>3, DistType
    <2>5. Dist(r, vrX) = IF A(r) <= A(vrX) THEN A(vrX) - A(r) ELSE SnMod + A(vrX) - A(r)
        BY <1>1, <1>14, Moved DEF A
    <2>6. /\ A(r) \in Nat /\ A(vrX) \in Nat /\ A(vrX) > 0 /\ A(r) # A(vrX)
        BY <1>1, <1>2, <1>14, <2>1, <2>3
    <2>7. A(r) <= A(vrX)
        BY <1>4, <1>16, <2>4, <2>5, <2>6
    <2> QED BY <2>1, <2>6, <2>7
<1>18. Rx!StartsTimer(r, h) => A(r) < A(h)
    <2>1. Rx!StartsTimer(r, h) => Dist(r, r) < Dist(r, h)
        BY <1>10, <1>14, RxBefore DEF Rx!StartsTimer
    <2> QED BY <1>8, <1>10, <1>14, <1>16, <2>1
<1>19. \A s : At(s)' = A(s) /\ At(s) = A(s)
    BY DEF At, A
<1>20. vrX' \in SnValue /\ reorderingTimer' \in BOOLEAN
    BY <1>1, <1>5, <1>10
<1>21. Windows'
    <2>1. A(h) <= A(h)
        BY <1>2, <1>10
    <2>2. reorderingTimer' => A(r) < A(vrX') /\ A(vrX') <= A(h)
        BY <1>5, <1>17, <1>18, <2>1
    <2> QED BY <1>3, <1>5, <1>10, <1>13, <1>14, <2>2 DEF Windows, At, A
<1>22. Buffered'
    <2>1. \A s \in DOMAIN rxonBuffer' : A(r) < A(s) /\ A(s) < A(h)
        BY <1>2, <1>11, <1>14, <1>15
    <2> QED BY <1>5, <1>13, <1>15, <2>1 DEF Buffered, At, A
<1>23. Buffers(rxonBuffer)'
    <2>1. \A s \in DOMAIN buffer : buffer[s] \in Pdu /\ buffer[s].sn = s
        BY <1>1, <1>6 DEF Buffers, sn
    <2> QED BY <1>11, <1>15, <2>1 DEF Buffers
<1>24. \A s \in DOMAIN rxonBuffer : s \in DOMAIN rxonBuffer' \/ A(s) < A(r)
    BY <1>1, <1>2, <1>6, <1>14, <1>15
<1> QED BY <1>5, <1>10, <1>13, <1>14, <1>19, <1>20, <1>21, <1>22, <1>23, <1>24

LEMMA ArriveDataKeeps ==
    ASSUME AmInv, NEW i \in 1 .. MaxInFlight, ArriveData(i)
    PROVE  AmInv'
<1>1. PICK pdu : pdu = data[i]
    OBVIOUS
<1>2. /\ i \in DOMAIN data /\ data' = SeqExt!RemoveAt(data, i)
      /\ UNCHANGED <<txVars, statuses, losses>>
      /\ Rx!ReceivePdu(pdu)
    BY <1>1 DEF ArriveData
<1>3. /\ UNCHANGED <<accepted, sent, vtA, vtS, pollSn, txedBuffer, retxBuffer,
                     pollRetransmitTimer, pollRetransmitTimerJustExpired, rbsTimer, reported>>
      /\ Tx!TxonBufferSize' = Tx!TxonBufferSize
    BY <1>2 DEF txVars, Tx!TxonBufferSize
<1>4. pdu \in Pdu /\ OnAir(pdu.sn) /\ pdu.poll \in BOOLEAN
    <2>1. pdu \in Pdu
        BY <1>1, <1>2 DEF AmInv, TypeOK
    <2> QED BY <1>1, <1>2, <2>1 DEF AmInv, Shared, OnAirOnly, Pdu
<1>5. data' \in Seq(Pdu) /\ OnAirOnly'
    BY <1>2, <1>3, DataLeaves DEF AmInv, Shared
<1>6. /\ statusPduRequested' \in BOOLEAN /\ statusReported' \in BOOLEAN
      /\ statusProhibitTimer' = statusProhibitTimer
    BY <1>2, <1>4 DEF Rx!ReceivePdu, Rx!RequestStatus, AmInv, TypeOK
\* What the receiver keeps after the PDU, placed or not.
<1>7. /\ vrR' \in SnValue /\ vrX' \in SnValue /\ vrMs' \in SnValue /\ vrH' \in SnValue
      /\ reorderingTimer' \in BOOLEAN /\ Buffers(rxonBuffer)'
      /\ Windows' /\ Buffered' /\ At(vrR) <= At(vrR')
      /\ \A s \in DOMAIN rxonBuffer : s \in DOMAIN rxonBuffer' \/ At(s) < At(vrR')
    <2>1. CASE Rx!IsInsideReceivingWindow(pdu.sn, vrR)
        <3>1. Rx!PlacePdu(pdu)
            BY <1>2, <2>1 DEF Rx!ReceivePdu
        <3> QED BY <1>3, <1>4, <2>1, <3>1, PlacePduPlaces DEF AmInv, Shared
    <2>2. CASE ~Rx!IsInsideReceivingWindow(pdu.sn, vrR)
        <3>1. UNCHANGED <<vrR, vrX, vrMs, vrH, rxonBuffer, reorderingTimer>>
            BY <1>2, <2>2 DEF Rx!ReceivePdu
        <3>2. At(vrR) <= At(vrR')
            BY <3>1, AtType DEF AmInv, TypeOK
        <3> QED BY <1>3, <3>1, <3>2 DEF AmInv, TypeOK, Shared, Windows, Buffered, Buffers, At
    <2> QED BY <2>1, <2>2
<1>8. TypeOK'
    BY <1>2, <1>3, <1>5, <1>6, <1>7 DEF AmInv, TypeOK, Buffers
<1>9. \A s \in SnValue : At(s) \in Nat /\ At(s)' = At(s)
    BY <1>3, AtType DEF AmInv, At
<1>10. vrR \in SnValue /\ vrR' \in SnValue /\ At(vrR)' = At(vrR')
       /\ At(vrR) \in Nat /\ At(vrR') \in Nat
    BY <1>3, <1>7, <1>9 DEF AmInv, TypeOK, At
<1>11. \A s \in SnValue : Received(s) => Received(s)'
    BY <1>7, <1>9, <1>10 DEF Received
<1>12. Kept'
    BY <1>3 DEF AmInv, Shared, Kept, At
<1>13. NoneForgotten'
    <2> SUFFICES ASSUME NEW s \in SnValue, At(vrR') <= At(s), At(s) < At(vtS) PROVE Held(s)'
        BY <1>3, <1>10 DEF NoneForgotten, At
    <2>1. At(vrR) <= At(s) /\ ~(At(s) < At(vrR'))
        BY <1>7, <1>9, <1>10
    <2>2. Held(s)
        BY <2>1 DEF AmInv, Shared, NoneForgotten
    <2> QED BY <1>3, <1>7, <2>1, <2>2 DEF Held
<1>14. StatusesTrue'
    <2>1. vtS' \in SnValue /\ At(vtS) <= At(vtS)'
        BY <1>3, <1>9 DEF AmInv, TypeOK, At
    <2> QED BY <1>2, <1>3, <1>11, <2>1, StatusesStayTrue DEF AmInv, Shared
<1>15. Polled' /\ BacklogReported'
    BY <1>3 DEF AmInv, Polled, BacklogReported, Tx!BacklogReported, Tx!Outstanding,
                Tx!Pending, Tx!VtMs, At
<1> QED BY <1>5, <1>7, <1>8, <1>12, <1>13, <1>14, <1>15 DEF AmInv, Shared

\* What the receiver and the radio do leaves alone what the transmitter is sure of.
LEMMA TransmitterUntouched ==
    ASSUME AmInv, UNCHANGED txVars
    PROVE  Polled' /\ BacklogReported' /\ Tx!TxonBufferSize' = Tx!TxonBufferSize
BY DEF AmInv, txVars, Polled, BacklogReported, Tx!BacklogReported, Tx!Outstanding,
       Tx!Pending, Tx!VtMs, Tx!TxonBufferSize, At

\* A new STATUS PDU tells the truth, and misses nothing an older one acknowledges.
LEMMA SendStatusKeeps ==
    ASSUME AmInv, SendStatus
    PROVE  AmInv'
<1>1. PICK bytes \in StatusGrants : /\ Rx!SendStatus(bytes)
                                    /\ statuses' = Append(statuses, Rx!StatusPdu(bytes))
    BY DEF SendStatus
<1>2. PICK st : st = Rx!StatusPdu(bytes)
    OBVIOUS
<1>3. /\ UNCHANGED <<txVars, data, losses>>
      /\ UNCHANGED <<vrR, vrX, vrMs, vrH, rxonBuffer, reorderingTimer>>
      /\ statusPduRequested' = FALSE /\ statusProhibitTimer' = TRUE /\ statusReported' = FALSE
      /\ statuses' = Append(statuses, st)
    BY <1>1, <1>2 DEF SendStatus, Rx!SendStatus
<1>4. UNCHANGED <<accepted, sent, vtA, vtS, pollSn, txedBuffer, retxBuffer,
                  pollRetransmitTimer, pollRetransmitTimerJustExpired, rbsTimer, reported>>
    BY <1>3 DEF txVars
<1>5. /\ vtA \in SnValue /\ vtS \in SnValue /\ vrR \in SnValue /\ vrMs \in SnValue
      /\ vrH \in SnValue /\ bytes \in Nat
    BY AmLinkAssumption DEF AmInv, TypeOK
<1>6. /\ At(vrR) <= At(vrMs) /\ At(vrMs) <= At(vrH) /\ At(vrH) <= At(vtS)
      /\ vrMs \notin DOMAIN rxonBuffer
    BY DEF AmInv, Shared, Windows, Buffered
<1>7. \A s \in SnValue : At(s) \in Nat
    BY AtType DEF AmInv
<1>8. /\ st.ack \in SnValue \ DOMAIN rxonBuffer
      /\ Dist(vrR, st.ack) <= Dist(vrR, vrMs)
      /\ st.nacks \subseteq SnValue \ DOMAIN rxonBuffer
      /\ \A s \in st.nacks : Dist(vrR, s) < Dist(vrR, st.ack)
      /\ \A s \in SnValue \ DOMAIN rxonBuffer : Dist(vrR, s) < Dist(vrR, st.ack) => s \in st.nacks
    BY <1>2, <1>5, <1>6, StatusSays DEF Rx!StatusPdu
<1>9. st \in StatusPdus
    BY <1>2, <1>8 DEF Rx!StatusPdu, StatusPdus
<1>10. At(vrR) <= At(st.ack) /\ At(st.ack) <= At(vrMs)
    BY <1>5, <1>6, <1>8, Between DEF At
<1>11. \A s \in SnValue : Dist(vrR, s) < Dist(vrR, st.ack)
                             <=> At(vrR) <= At(s) /\ At(s) < At(st.ack)
    BY <1>5, <1>8, <1>10, Between DEF At
<1>12. Truthful(st)
    <2>1. At(st.ack) <= At(vtS)
        BY <1>5, <1>6, <1>7, <1>8, <1>10
    <2>2. ASSUME NEW s \in st.nacks
          PROVE  At(s) < At(st.ack) /\ s \in DOMAIN txedBuffer \cup DOMAIN retxBuffer
        <3>1. s \in SnValue /\ s \notin DOMAIN rxonBuffer
              /\ At(vrR) <= At(s) /\ At(s) < At(st.ack)
            BY <1>8, <1>11
        <3>2. At(s) < At(vtS)
            BY <1>5, <1>7, <1>8, <2>1, <3>1
        <3>3. Held(s)
            BY <3>1, <3>2 DEF AmInv, Shared, NoneForgotten
        <3> QED BY <3>1, <3>3 DEF Held
    <2>3. \A s \in SnValue : At(s) < At(st.ack) => s \in st.nacks \/ Received(s)
        BY <1>5, <1>7, <1>8, <1>11 DEF Received
    <2> QED BY <2>1, <2>2, <2>3 DEF Truthful
<1>13. ASSUME NEW old, old \in StatusPdus, Truthful(old)
       PROVE  Succeeds(old, st)
    <2> SUFFICES ASSUME NEW s \in st.nacks \cup {st.ack}, At(s) < At(old.ack)
                 PROVE  s \in old.nacks
        BY DEF Succeeds
    <2>1. s \in SnValue /\ s \notin DOMAIN rxonBuffer /\ At(vrR) <= At(s)
        BY <1>8, <1>10, <1>11
    <2>2. ~Received(s)
        BY <1>5, <1>7, <2>1 DEF Received
    <2> QED BY <1>13, <2>1, <2>2 DEF Truthful
<1>14. statuses \in Seq(StatusPdus) /\ Len(statuses) \in Nat
    BY DEF AmInv, TypeOK
<1>15. /\ statuses' \in Seq(StatusPdus) /\ DOMAIN statuses' = 1 .. Len(statuses) + 1
       /\ DOMAIN statuses = 1 .. Len(statuses)
       /\ \A k \in DOMAIN statuses : statuses'[k] = statuses[k]
       /\ statuses'[Len(statuses) + 1] = st
    BY <1>3, <1>9, <1>14, AppendProperties
<1>16. \A k \in DOMAIN statuses' : k \in DOMAIN statuses \/ k = Len(statuses) + 1
    BY <1>14, <1>15
<1>17. TypeOK'
    BY <1>3, <1>4, <1>15, TransmitterUntouched DEF AmInv, TypeOK
<1>18. \A k \in DOMAIN statuses' : Truthful(statuses'[k])
    BY <1>12, <1>15, <1>16 DEF AmInv, Shared, StatusesTrue
<1>19. ASSUME NEW k \in DOMAIN statuses', NEW l \in DOMAIN statuses', k < l
       PROVE  Succeeds(statuses'[k], statuses'[l])
    <2>1. k \in DOMAIN statuses
        BY <1>14, <1>15, <1>19
    <2>2. CASE l \in DOMAIN statuses
        BY <1>15, <1>19, <2>1, <2>2 DEF AmInv, Shared, StatusesTrue
    <2>3. CASE l = Len(statuses) + 1
        <3>1. statuses[k] \in StatusPdus /\ Truthful(statuses[k])
            BY <1>14, <2>1 DEF AmInv, Shared, StatusesTrue
        <3> QED BY <1>13, <1>15, <2>1, <2>3, <3>1
    <2> QED BY <1>16, <2>2, <2>3
<1>20. StatusesTrue'
    BY <1>3, <1>4, <1>18, <1>19 DEF StatusesTrue, Truthful, Succeeds, Received, At
<1>21. Windows' /\ Buffered' /\ Kept' /\ NoneForgotten' /\ OnAirOnly'
    BY <1>3, <1>4 DEF AmInv, Shared, Windows, Buffered, Kept, NoneForgotten, OnAirOnly,
                      At, Held, OnAir
<1> QED BY <1>3, <1>17, <1>20, <1>21, TransmitterUntouched DEF AmInv, Shared

\* t-Reordering moves VR(MS) to the first number missing from VR(X) on.
LEMMA ExpireReorderingKeeps ==
    ASSUME AmInv, ExpireReordering
    PROVE  AmInv'
<1> DEFINE ms == Rx!ExpiredVrMs
<1>1. /\ UNCHANGED <<txVars, data, statuses, losses>>
      /\ UNCHANGED <<vrR, vrH, rxonBuffer, statusProhibitTimer, statusReported>>
      /\ reorderingTimer /\ vrMs' = ms /\ statusPduRequested' = TRUE
      /\ reorderingTimer' = Rx!Before(ms, vrH, vrR)
      /\ vrX' = IF Rx!Before(ms, vrH, vrR) THEN vrH ELSE vrX
    BY DEF ExpireReordering, Rx!ExpireReorderingTimer, RxOnly
<1>2. UNCHANGED <<accepted, sent, vtA, vtS, pollSn, txedBuffer, retxBuffer,
                  pollRetransmitTimer, pollRetransmitTimerJustExpired, rbsTimer, reported>>
    BY <1>1 DEF txVars
<1>3. /\ vtA \in SnValue /\ vtS \in SnValue /\ vrR \in SnValue /\ vrX \in SnValue
      /\ vrH \in SnValue /\ Buffers(rxonBuffer)
    BY DEF AmInv, TypeOK
<1>4. /\ At(vrH) <= At(vtS) /\ At(vtS) <= WindowSize
      /\ At(vrR) < At(vrX) /\ At(vrX) <= At(vrH)
      /\ \A s \in DOMAIN rxonBuffer : At(vrR) < At(s) /\ At(s) < At(vrH)
    BY <1>1 DEF AmInv, Shared, Windows, Buffered
<1>5. \A s \in SnValue : At(s) \in Nat
    BY AtType DEF AmInv
<1>6. vrH \notin DOMAIN rxonBuffer
    BY <1>3, <1>4, <1>5
<1>7. ms \in SnValue /\ ms \notin DOMAIN rxonBuffer /\ Dist(vrX, ms) <= Dist(vrX, vrH)
    BY <1>3, <1>6, NextMissingFound DEF Rx!ExpiredVrMs
<1> HIDE DEF ms
<1>8. At(vrX) <= At(ms) /\ At(ms) <= At(vrH)
    BY <1>3, <1>4, <1>7, Between DEF At
<1>9. Rx!Before(ms, vrH, vrR) \in BOOLEAN
    BY DEF Rx!Before, Rx!LessThan
<1>10. TypeOK'
    BY <1>1, <1>2, <1>3, <1>7, <1>9, TransmitterUntouched DEF AmInv, TypeOK
<1>11. Windows'
    <2>1. At(vrR) < At(vrH) /\ At(vrR) <= At(ms) /\ At(vrH) <= At(vrH)
        BY <1>3, <1>4, <1>5, <1>7, <1>8
    <2> QED BY <1>1, <1>2, <1>4, <1>8, <2>1 DEF Windows, At
<1>12. Buffered'
    BY <1>1, <1>2, <1>7 DEF AmInv, Shared, Buffered, At
<1>13. Kept' /\ NoneForgotten' /\ OnAirOnly' /\ StatusesTrue'
    BY <1>1, <1>2 DEF AmInv, Shared, Kept, NoneForgotten, OnAirOnly, StatusesTrue,
                      At, Held, OnAir, Truthful, Succeeds, Received
<1> QED BY <1>1, <1>10, <1>11, <1>12, <1>13, TransmitterUntouched DEF AmInv, Shared

LEMMA ProhibitExpiresKeeps ==
    ASSUME AmInv, ProhibitExpires
    PROVE  AmInv'
<1>1. /\ UNCHANGED <<txVars, data, statuses, losses>>
      /\ UNCHANGED <<vrR, vrX, vrMs, vrH, rxonBuffer, reorderingTimer,
                     statusPduRequested, statusReported>>
      /\ statusProhibitTimer' = FALSE
    BY DEF ProhibitExpires, Rx!ExpireStatusProhibitTimer, RxOnly
<1>2. TypeOK'
    BY <1>1, TransmitterUntouched DEF AmInv, TypeOK, txVars
<1>3. Shared'
    BY <1>1, SharedKept DEF AmInv, txVars
<1> QED BY <1>1, <1>2, <1>3, TransmitterUntouched DEF AmInv

LEMMA LoseKeeps ==
    ASSUME AmInv, Lose
    PROVE  AmInv'
<1>1. UNCHANGED <<txVars, rxVars, reassembly>> /\ losses' = losses + 1
    BY DEF Lose
<1>2. /\ UNCHANGED <<accepted, sent, vtA, vtS, pollSn, txedBuffer, retxBuffer,
                     pollRetransmitTimer, pollRetransmitTimerJustExpired, rbsTimer, reported>>
      /\ UNCHANGED <<vrR, vrX, vrMs, vrH, rxonBuffer, reorderingTimer,
                     statusPduRequested, statusProhibitTimer, statusReported>>
      /\ losses' \in Nat
    BY <1>1 DEF txVars, rxVars, AmInv, TypeOK
<1>3. Windows' /\ Buffered' /\ Kept' /\ NoneForgotten'
    BY <1>2 DEF AmInv, Shared, Windows, Buffered, Kept, NoneForgotten, At, Held
<1>4. CASE \E i \in DOMAIN data : data' = SeqExt!RemoveAt(data, i) /\ UNCHANGED statuses
    <2>1. data' \in Seq(Pdu) /\ OnAirOnly' /\ statuses' = statuses
        BY <1>2, <1>4, DataLeaves DEF AmInv, Shared
    <2>2. TypeOK'
        BY <1>1, <1>2, <2>1, TransmitterUntouched DEF AmInv, TypeOK
    <2>3. StatusesTrue'
        BY <1>2, <2>1 DEF AmInv, Shared, StatusesTrue, At, Truthful, Succeeds, Received
    <2> QED BY <1>1, <1>3, <2>1, <2>2, <2>3, TransmitterUntouched DEF AmInv, Shared
<1>5. CASE \E i \in DOMAIN statuses : statuses' = SeqExt!RemoveAt(statuses, i) /\ UNCHANGED data
    <2>1. PICK i \in DOMAIN statuses : statuses' = SeqExt!RemoveAt(statuses, i) /\ data' = data
        BY <1>5
    <2>2. /\ statuses \in Seq(StatusPdus) /\ DOMAIN statuses = 1 .. Len(statuses)
          /\ Len(statuses) \in Nat
        BY DEF AmInv, TypeOK
    <2>3. statuses' \in Seq(StatusPdus) /\ Without(statuses, statuses', i)
        BY <2>1, <2>2, RemoveAtWithout
    <2>4. DOMAIN statuses' = 1 .. Len(statuses') /\ Len(statuses') = Len(statuses) - 1
        BY <2>3 DEF Without
    <2> DEFINE was(k) == IF k < i THEN k ELSE k + 1
    <2>5. \A k \in DOMAIN statuses' :
              /\ was(k) \in DOMAIN statuses /\ statuses'[k] = statuses[was(k)]
              /\ \A l \in DOMAIN statuses' : k < l => was(k) < was(l)
        BY <2>1, <2>2, <2>3, <2>4 DEF Without
    <2> HIDE DEF was
    <2>6. /\ \A k \in DOMAIN statuses' : Truthful(statuses'[k])
          /\ \A k, l \in DOMAIN statuses' : k < l => Succeeds(statuses'[k], statuses'[l])
        BY <2>5 DEF AmInv, Shared, StatusesTrue
    <2>7. StatusesTrue'
        BY <1>2, <2>6 DEF StatusesTrue, At, Truthful, Succeeds, Received
    <2>8. OnAirOnly'
        BY <1>2, <2>1 DEF AmInv, Shared, OnAirOnly, OnAir, At
    <2>9. TypeOK'
        BY <1>1, <1>2, <2>1, <2>3, TransmitterUntouched DEF AmInv, TypeOK
    <2> QED BY <1>1, <1>3, <2>7, <2>8, <2>9, TransmitterUntouched DEF AmInv, Shared
<1> QED BY <1>4, <1>5 DEF Lose

-----------------------------------------------------------------------------
(* The invariant and what follows from it.                                 *)

LEMMA NextKeeps ==
    ASSUME AmInv, [Next]_vars
    PROVE  AmInv'
<1>1. CASE UNCHANGED vars
    <2>1. /\ UNCHANGED txVars /\ UNCHANGED rxVars
          /\ UNCHANGED <<data, statuses, losses>>
        BY <1>1 DEF vars
    <2>2. TypeOK'
        BY <2>1, TransmitterUntouched DEF AmInv, TypeOK, txVars, rxVars
    <2>3. Shared'
        BY <2>1, SharedKept DEF AmInv, txVars, rxVars
    <2> QED BY <2>1, <2>2, <2>3, TransmitterUntouched DEF AmInv
<1>2. CASE Next
    BY <1>2, SubmitKeeps, ReportBufferKeeps, PollExpiresKeeps, SendNewPduKeeps,
       RetransmitKeeps, ArriveStatusKeeps, ArriveDataKeeps, SendStatusKeeps,
       ExpireReorderingKeeps, ProhibitExpiresKeeps, LoseKeeps DEF Next
<1> QED BY <1>1, <1>2

LEMMA Invariant == Spec => []AmInv
<1>1. Init => AmInv
    BY InitEstablishes
<1>2. AmInv /\ [Next]_vars => AmInv'
    BY NextKeeps
<1> QED BY <1>1, <1>2, PTL DEF Spec

\* Every state is of the types of the code: numbers stay below the modulus,
\* the buffers hold PDUs by their numbers, and no more is taken out of
\* m_txonBuffer than was put in.
THEOREM Typed == Spec => []TypeOK
<1>1. AmInv => TypeOK
    BY DEF AmInv
<1> QED BY <1>1, Invariant, PTL

\* The windows of the two sides stay nested, so that half the modulus is enough
\* to tell numbers apart and the loops that search a window end.
THEOREM Nested == Spec => []WindowsNested
<1>1. ASSUME AmInv PROVE WindowsNested
    <2>1. /\ vtA \in SnValue /\ vtS \in SnValue /\ vrR \in SnValue
          /\ vrMs \in SnValue /\ vrH \in SnValue
        BY <1>1 DEF AmInv, TypeOK
    <2>2. Tx!VtMs \in SnValue /\ At(Tx!VtMs) = WindowSize
        BY <2>1, VtMsAt
    <2>3. /\ At(vrR) <= At(vrMs) /\ At(vrMs) <= At(vrH)
          /\ At(vrH) <= At(vtS) /\ At(vtS) <= At(Tx!VtMs)
        BY <1>1, <2>2 DEF AmInv, Shared, Windows
    <2> QED BY <2>1, <2>2, <2>3, RankIsDistance DEF WindowsNested, Ordered, At, Dist
<1> QED BY <1>1, Invariant, PTL

\* No PDU is acknowledged before it was received: each one from VR(R) to VT(S)
\* is in the buffer of its receiver or still in one of its sender.
THEOREM AckedReceived == Spec => []AckedWasReceived
<1>1. ASSUME AmInv PROVE AckedWasReceived
    <2> SUFFICES ASSUME NEW s \in SnValue, Rx!Before(s, vtS, vrR) PROVE Held(s)
        BY DEF AckedWasReceived, Held
    <2>1. /\ vtA \in SnValue /\ vtS \in SnValue /\ vrR \in SnValue
          /\ vrMs \in SnValue /\ vrH \in SnValue
        BY <1>1 DEF AmInv, TypeOK
    <2>2. At(vrR) <= At(vtS)
        BY <1>1, <2>1, AtType DEF AmInv, Shared, Windows
    <2>3. At(vrR) <= At(s) /\ At(s) < At(vtS)
        BY <2>1, <2>2, RxBefore, Between DEF At
    <2> QED BY <1>1, <2>3 DEF AmInv, Shared, NoneForgotten
<1> QED BY <1>1, Invariant, PTL

\* What a STATUS PDU misses is in one of the two buffers when it arrives, to be
\* sent again, and no PDU is in both.
THEOREM NackedKept == Spec => []NackedIsKept
<1>1. ASSUME AmInv PROVE NackedIsKept
    <2>1. vtA \in SnValue /\ vtS \in SnValue /\ Buffers(txedBuffer) /\ Buffers(retxBuffer)
        BY <1>1 DEF AmInv, TypeOK
    <2>2. Tx!BuffersApart
        BY <1>1, <2>1, TxBelow DEF AmInv, Shared, Kept, Buffers, Tx!BuffersApart
    <2>3. ASSUME statuses # <<>>
          PROVE  statuses[1].nacks \subseteq DOMAIN txedBuffer \cup DOMAIN retxBuffer
        <3>1. 1 \in DOMAIN statuses
            BY <1>1, <2>3 DEF AmInv, TypeOK
        <3> QED BY <1>1, <3>1 DEF AmInv, Shared, StatusesTrue, Truthful
    <2> QED BY <2>2, <2>3 DEF NackedIsKept
<1> QED BY <1>1, Invariant, PTL

\* Something sent and not acknowledged is asked about: t-PollRetransmit runs or
\* a PDU that will poll can be sent, unless the transmitter is stranded.
THEOREM PollsCovered == Spec => []PollCovered
<1>1. ASSUME AmInv PROVE PollCovered
    <2>1. Tx!TxonBufferSize \in Nat
        BY <1>1 DEF AmInv, TypeOK
    <2>2. DOMAIN txedBuffer # {} /\ DOMAIN retxBuffer = {} =>
              \/ pollRetransmitTimer
              \/ pollRetransmitTimerJustExpired
              \/ Tx!TxonBufferSize > 0 /\ vtS # Tx!VtMs
        BY <1>1 DEF AmInv, Polled
    <2>3. Tx!TxonBufferSize > 0 \/ Tx!TxonBufferSize = 0
        BY <2>1
    <2> QED BY <2>2, <2>3, Zenon DEF PollCovered, Tx!PollCovered, Tx!Stranded, Tx!Pending
<1> QED BY <1>1, Invariant, PTL

\* While anything is new, unacknowledged or to be sent again, m_rbsTimer runs
\* and repeats the report to the MAC.
THEOREM Reported == Spec => []BacklogReported
<1>1. AmInv => BacklogReported
    BY DEF AmInv
<1> QED BY <1>1, Invariant, PTL

=============================================================================
