------------------------------- MODULE Decimal -------------------------------
(***************************************************************************)
(* The fixed-point numbers of internal/decimal: an integer of limited      *)
(* width that counts units of 1/Scale, its arithmetic with the overflows   *)
(* of machine integers, and its text form.  A text is a sign, the integer  *)
(* part as a number and the digits after the point.                        *)
(***************************************************************************)
EXTENDS Integers, SequencesExt

CONSTANTS
    MaxInt,    \* the largest integer (2^63 - 1 in the code)
    Precision, \* digits after the point (8)
    Scale,     \* units of one (10^8)
    Direct     \* the operands Mul multiplies without big integers (2^31)

(* The powers of ten. *)
Tens[n \in 0..Precision] == IF n = 0 THEN 1 ELSE 10 * Tens[n - 1]

ASSUME DecimalAssumption ==
    /\ MaxInt \in Nat
    /\ Precision \in Nat \ {0}
    /\ Scale \in 1..MaxInt /\ Scale = Tens[Precision]
    /\ Direct \in Nat /\ Direct * Direct <= MaxInt

MinInt == -MaxInt - 1
D == MinInt..MaxInt

(* What the machine keeps of an integer. *)
Wrap(n) == ((n - MinInt) % (2 * (MaxInt + 1))) + MinInt

(* The nearest representable number. *)
Clamp(n) == IF n > MaxInt THEN MaxInt ELSE IF n < MinInt THEN MinInt ELSE n

Magnitude(n) == IF n < 0 THEN -n ELSE n

(* Division of Go, which truncates toward zero. *)
Truncated(n, d) ==
    LET q == Magnitude(n) \div Magnitude(d) IN IF n < 0 <=> d < 0 THEN q ELSE -q

-----------------------------------------------------------------------------
(* Arithmetic *)

(* The sum of the machine, unless its sign shows an overflow: then the bound
   on the side of a.  It does not panic, as its comment says it does. *)
Add(a, b) ==
    LET sum == Wrap(a + b)
    IN  IF sum >= 0 <=> a >= 0 THEN sum
        ELSE IF sum >= 0 <=> b >= 0 THEN sum
        ELSE IF a > 0 THEN MaxInt ELSE MinInt

(* Mul of a variant that never takes the detour through big integers. *)
MulDirect(a, b) == Truncated(Wrap(a * b), Scale)

(* Small operands are multiplied by the machine and the quotient truncated;
   with big integers the division rounds down and the low bits are kept. *)
Mul(a, b) ==
    IF Magnitude(a) <= Direct /\ Magnitude(b) <= Direct
      THEN Truncated(Wrap(a * b), Scale)
      ELSE Wrap((a * b) \div Scale)

(* The dividend is scaled by the machine, which wraps.  b = 0 panics. *)
Quo(a, b) == Wrap(Truncated(Wrap(a * Scale), b))

-----------------------------------------------------------------------------
(* Text *)

Text == [neg : BOOLEAN, whole : Nat, frac : Seq(0..9)]

(* A text that is no number, such as the one the smallest integer is given:
   its digits carry signs of their own. *)
Malformed == [neg |-> FALSE, whole |-> -1, frac |-> <<>>]

(* The first Precision digits after the point, missing ones being zero. *)
Fraction(frac) ==
    LET read[n \in 0..Precision] ==
            IF n = 0 THEN 0
            ELSE 10 * read[n - 1] + (IF n <= Len(frac) THEN frac[n] ELSE 0)
    IN  read[Precision]

(* FromString, whose callers take the zero of a failed parse for the number. *)
FromString(s) ==
    IF s = Malformed THEN 0
    ELSE LET v == Wrap(Wrap(s.whole) * Scale + Fraction(s.frac))
         IN  IF s.neg THEN Wrap(-v) ELSE v

(* pad of a variant that leaves out the zeros in front. *)
PadNothing(v) == SelectSeq([i \in 1..Precision |-> (v \div Tens[Precision - i]) % 10],
                           LAMBDA d : d # 0)

(* The digits of a fraction, with zeros in front. *)
Pad(v) == [i \in 1..Precision |-> (v \div Tens[Precision - i]) % 10]

String(a) ==
    IF a = MinInt THEN Malformed
    ELSE [neg |-> a < 0, whole |-> Magnitude(a) \div Scale, frac |-> Pad(Magnitude(a) % Scale)]

(* String without the zeros at the end. *)
Trimmed(a) ==
    LET s == String(a)
        keep == {n \in 0..Len(s.frac) : \A i \in (n + 1)..Len(s.frac) : s.frac[i] = 0}
    IN  [s EXCEPT !.frac = SubSeq(@, 1, CHOOSE n \in keep : \A m \in keep : n <= m)]
=============================================================================
