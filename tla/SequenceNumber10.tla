-------------------------- MODULE SequenceNumber10 --------------------------
(***************************************************************************)
(* The sequence numbers of RLC UM: class SequenceNumber10 of               *)
(* src/lte/model/lte-rlc-sequence-number.h.  A number carries its value    *)
(* and the modulus base it is compared from.  The code's modulus is 1024   *)
(* and its reordering window 512; SnMod and WindowSize stand for them.     *)
(***************************************************************************)
EXTENDS Integers

CONSTANTS SnMod,       \* number of sequence numbers (1024)
          WindowSize   \* UM_Window_Size, m_windowSize of LteRlcUm (512)

ASSUME SnAssumption == /\ WindowSize \in Nat \ {0, 1}
                       /\ SnMod = 2 * WindowSize
                       /\ SnMod <= 32768

UInt16 == 65536
SnValue == 0 .. SnMod - 1
SeqNum  == [val : SnValue, base : SnValue]

Sn(v, b) == [val |-> v, base |-> b]

\* Bug: the modulus itself is not reduced.
Wrap_OffByOne(x) == IF x > SnMod THEN x - SnMod ELSE IF x < 0 THEN x + SnMod ELSE x

\* (x % 1024) for x at most one modulus away from the values.  The code's
\* int-to-uint16_t conversion of a negative x changes nothing, because 1024
\* divides 2^16.
Wrap(x) == IF x >= SnMod THEN x - SnMod ELSE IF x < 0 THEN x + SnMod ELSE x

Plus(s, d)  == [s EXCEPT !.val = Wrap(s.val + d)]
Minus(s, d) == [s EXCEPT !.val = Wrap(s.val - d)]

SetModulusBase(s, b) == [s EXCEPT !.base = b]

\* uint16_t v = (m_value - m_modulusBase) % 1024.  In C++ the remainder of a
\* negative int is negative, so a value below its base becomes a large uint16_t.
Rank(v, b) == IF v >= b THEN v - b ELSE UInt16 + (v - b)

GreaterThan(a, b) == Rank(a.val, a.base) > Rank(b.val, b.base)
LessOrEqual(a, b) == ~GreaterThan(a, b)
LessThan(a, b)    == ~GreaterThan(a, b) /\ a.val # b.val

=============================================================================
