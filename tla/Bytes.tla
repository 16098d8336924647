-------------------------------- MODULE Bytes --------------------------------
\* What both processors need of binary numbers.
EXTENDS Integers

Octet == 0..255
\* Bit n of v.
BitOf(v, n) == (v \div 2^n) % 2
\* (int8)v
SignedByte(v) == IF v < 128 THEN v ELSE v - 256
\* The set that holds the flag g when c does.
Only(c, g) == IF c THEN {g} ELSE {}
\* The lowest eight bits of v hold an even number of ones.
EvenOnes(v) == (BitOf(v, 0) + BitOf(v, 1) + BitOf(v, 2) + BitOf(v, 3)
                + BitOf(v, 4) + BitOf(v, 5) + BitOf(v, 6) + BitOf(v, 7)) % 2 = 0
\* The bits of a byte that are 1, and the byte in which these are.
Bits(v) == {n \in 0..7 : BitOf(v, n) = 1}
ByteOf(bits) == LET Add(n) == IF n \in bits THEN 2^n ELSE 0
                IN  Add(0) + Add(1) + Add(2) + Add(3) + Add(4) + Add(5) + Add(6) + Add(7)
\* The operators &, | and ^ on bytes.
And(a, b) == ByteOf(Bits(a) \cap Bits(b))
Or(a, b) == ByteOf(Bits(a) \cup Bits(b))
Xor(a, b) == ByteOf((Bits(a) \ Bits(b)) \cup (Bits(b) \ Bits(a)))
\* A memory with the bytes of another written over it, or with one byte written.
Over(n, m) == [a \in DOMAIN n \cup DOMAIN m |-> IF a \in DOMAIN n THEN n[a] ELSE m[a]]
Written(m, a, v) == IF a \in DOMAIN m THEN [m EXCEPT ![a] = v] ELSE Over([b \in {a} |-> v], m)
=============================================================================
