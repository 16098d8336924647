------------------------- MODULE Tlcs900hArithmetic -------------------------
(***************************************************************************)
(* The arithmetic of the main processor: TLCS900h_interpret.h, the helpers *)
(* of TLCS900h_interpret.c, and what the handlers share.  A size s is 0    *)
(* (byte), 1 (word) or 2 (long), as in the code.  The code has a copy of   *)
(* each function for every size; here one operator stands for the copies.  *)
(* F is the set of the flags of SR that are 1: X and Y are the two bits    *)
(* without a meaning.  LongHigh is 65536 in the chip; TLC, whose integers  *)
(* have 32 bits, runs with longs whose upper half is narrower.             *)
(***************************************************************************)
EXTENDS Bytes

CONSTANT LongHigh    \* how many values the upper half of a long has

ASSUME LongHighAssumption == LongHigh \in 256..65536 /\ LongHigh % 256 = 0

Size == 0..2
\* The weight of the sign bit, and one more than the largest value.
Half(s) == CASE s = 0 -> 128 [] s = 1 -> 32768 [] s = 2 -> 32768 * LongHigh
Mod(s) == 2 * Half(s)
Value(s) == 0..(Mod(s) - 1)
Negative(s, x) == x >= Half(s)
Signed(s, x) == IF Negative(s, x) THEN x - Mod(s) ELSE x
\* A sum or a difference of two values, cut to the size.
Wrap(s, x) == IF x < 0 THEN x + Mod(s) ELSE IF x >= Mod(s) THEN x - Mod(s) ELSE x

Carried(F) == IF "C" \in F THEN 1 ELSE 0
\* The flags of a result r; half carry is not touched for a long.
Outcome(s, r, F, h, v, n, c) == (F \cap {"X", "Y"}) \cup (IF s = 2 THEN F \cap {"H"} ELSE Only(h, "H"))
                                  \cup Only(Negative(s, r), "S") \cup Only(r = 0, "Z") \cup Only(v, "V")
                                  \cup Only(n, "N") \cup Only(c, "C")
SameSign(s, a, b) == Negative(s, a) <=> Negative(s, b)

\* Each returns its result and the new flags.
GenericADC(s, dst, src, F) ==
    LET t == dst + src + Carried(F)
        r == Wrap(s, t)
    IN  <<r, Outcome(s, r, F, (dst % 16) + (src % 16) + Carried(F) > 15,
                     SameSign(s, dst, src) /\ ~SameSign(s, dst, r), FALSE, t >= Mod(s))>>
GenericADD(s, dst, src, F) == GenericADC(s, dst, src, F \ {"C"})
\* Fault: the overflow of an addition.
GenericSUBOverflow(s, dst, src, F) ==
    LET t == dst - src
        r == Wrap(s, t)
    IN  <<r, Outcome(s, r, F, (dst % 16) < (src % 16), SameSign(s, dst, src) /\ ~SameSign(s, dst, r), TRUE, t < 0)>>
GenericSUB(s, dst, src, F) ==
    LET t == dst - src
        r == Wrap(s, t)
    IN  <<r, Outcome(s, r, F, (dst % 16) < (src % 16),
                     ~SameSign(s, dst, src) /\ SameSign(s, src, r), TRUE, t < 0)>>
\* The second case of the overflow asks for a negative source, as the addition does.
GenericSBC(s, dst, src, F) ==
    LET t == dst - src - Carried(F)
        r == Wrap(s, t)
    IN  <<r, Outcome(s, r, F, (dst % 16) < (src % 16) + Carried(F),
                     \/ ~Negative(s, dst) /\ Negative(s, src) /\ Negative(s, r)
                     \/ Negative(s, dst) /\ Negative(s, src) /\ ~Negative(s, r), TRUE, t < 0)>>

\* INC and DEC of a byte or a word in memory, and of a byte register, keep C.
Increased(s, dst, n, F) ==
    LET r == Wrap(s, dst + n)
    IN  <<r, Outcome(s, r, F, (dst % 16) + n > 15, ~Negative(s, dst) /\ Negative(s, r), FALSE, "C" \in F)>>
Decreased(s, dst, n, F) ==
    LET r == Wrap(s, dst - n)
    IN  <<r, Outcome(s, r, F, (dst % 16) < n, Negative(s, dst) /\ ~Negative(s, r), TRUE, "C" \in F)>>

\* The word parity joins the parities of the two bytes by exclusive or; a long leaves V alone.
Parities(s, r, F) == CASE s = 0 -> Only(EvenOnes(r), "V")
                       [] s = 1 -> Only(EvenOnes(r) # EvenOnes(r \div 256), "V")
                       [] s = 2 -> F \cap {"V"}
\* The flags of the logical operations (h, and C as given) and of the shifts (H and N off).
Logical(s, r, F, h, c) == (F \cap {"X", "Y"}) \cup Only(h, "H") \cup Only(Negative(s, r), "S") \cup Only(r = 0, "Z")
                            \cup Parities(s, r, F) \cup Only(c, "C")

\* One position of each rotation and shift: the new value and the bit that left.
RotateLeft(s, v, c) == <<Wrap(s, 2 * v) + (IF Negative(s, v) THEN 1 ELSE 0), Negative(s, v)>>
RotateRight(s, v, c) == <<v \div 2 + (IF v % 2 = 1 THEN Half(s) ELSE 0), v % 2 = 1>>
CarryLeft(s, v, c) == <<Wrap(s, 2 * v) + (IF c THEN 1 ELSE 0), Negative(s, v)>>
CarryRight(s, v, c) == <<v \div 2 + (IF c THEN Half(s) ELSE 0), v % 2 = 1>>
ShiftLeft(s, v, c) == <<Wrap(s, 2 * v), Negative(s, v)>>
ShiftRight(s, v, c) == <<v \div 2, v % 2 = 1>>
ShiftArithmetic(s, v, c) == <<v \div 2 + (IF Negative(s, v) THEN Half(s) ELSE 0), v % 2 = 1>>
Position(op, s, v, c) ==
    CASE op = "RLC" -> RotateLeft(s, v, c) [] op = "RRC" -> RotateRight(s, v, c)
      [] op = "RL" -> CarryLeft(s, v, c)   [] op = "RR" -> CarryRight(s, v, c)
      [] op \in {"SLA", "SLL"} -> ShiftLeft(s, v, c)
      [] op = "SRA" -> ShiftArithmetic(s, v, c) [] op = "SRL" -> ShiftRight(s, v, c)
\* n positions; a count of 0 stands for 16.
Repeated(op, s, v, F, n) ==
    LET after[k \in 0..16] == IF k = 0 THEN <<v, "C" \in F>> ELSE Position(op, s, after[k - 1][1], after[k - 1][2])
        last == after[IF n = 0 THEN 16 ELSE n]
    IN  <<last[1], Logical(s, last[1], F, FALSE, last[2])>>

\* Division leaves the quotient in the lower half; s is the size of the divisor.
Joined(s, low, high) == (low % Mod(s)) + Mod(s) * (high % (Mod(s + 1) \div Mod(s)))
Overflow(F, c) == (F \ {"V"}) \cup Only(c, "V")
GenericDIV(s, val, div, F) ==
    IF div = 0 THEN <<Joined(s, Mod(s) - 1 - val \div Mod(s), val), F \cup {"V"}>>
    ELSE <<Joined(s, val \div div, val % div), Overflow(F, val \div div >= Mod(s))>>
\* C divides towards zero.
Quotient(a, b) == LET Magnitude(x) == IF x < 0 THEN -x ELSE x
                      q == Magnitude(a) \div Magnitude(b)
                  IN  IF (a < 0) = (b < 0) THEN q ELSE -q
GenericDIVS(s, val, div, F) ==
    LET a == Signed(s + 1, val)
        b == Signed(s, div)
        q == Quotient(a, b)
    IN  IF div = 0 THEN <<Joined(s, Mod(s) - 1 - ((a \div Mod(s)) % Mod(s)), IF a < 0 THEN -1 ELSE val), F \cup {"V"}>>
        ELSE <<Joined(s, q, a - q * b), Overflow(F, q >= Half(s) \/ q < -Half(s))>>

\* DAA of a byte.
Adjusted(src, F) ==
    LET low   == src % 16
        high  == src \div 16
        added == IF "C" \in F THEN (IF "H" \in F \/ low > 9 THEN 102 ELSE 96)
                 ELSE IF "H" \in F THEN (IF src < 154 THEN 6 ELSE 102)
                 ELSE IF high < 9 /\ low > 9 THEN 6
                 ELSE IF high > 8 /\ low > 9 THEN 102
                 ELSE IF high > 9 THEN 96 ELSE 0
        r     == IF "N" \in F THEN Wrap(0, src - added) ELSE Wrap(0, src + added)
        half  == IF "N" \in F THEN low < added % 16 ELSE low + (added % 16) > 15
        over  == IF "N" \in F THEN r > src ELSE r < src
    IN  <<r, (F \cap {"X", "Y", "N"}) \cup Only(Negative(0, r), "S") \cup Only(r = 0, "Z") \cup Only(half, "H")
               \cup Parities(0, r, F) \cup Only("C" \in F \/ over, "C")>>

conditionCode(cc, F) ==
    CASE cc = 0 -> FALSE
      [] cc = 1 -> ("S" \in F) # ("V" \in F)
      [] cc = 2 -> "Z" \in F \/ ("S" \in F) # ("V" \in F)
      [] cc = 3 -> "C" \in F \/ "Z" \in F
      [] cc = 4 -> "V" \in F
      [] cc = 5 -> "S" \in F
      [] cc = 6 -> "Z" \in F
      [] cc = 7 -> "C" \in F
      [] cc = 8 -> TRUE
      [] cc = 9 -> ("S" \in F) = ("V" \in F)
      [] cc = 10 -> "Z" \notin F /\ ("S" \in F) = ("V" \in F)
      [] cc = 11 -> "C" \notin F /\ "Z" \notin F
      [] cc = 12 -> "V" \notin F
      [] cc = 13 -> "S" \notin F
      [] cc = 14 -> "Z" \notin F
      [] cc = 15 -> "C" \notin F
=============================================================================
