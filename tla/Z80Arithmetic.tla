---------------------------- MODULE Z80Arithmetic ----------------------------
(***************************************************************************)
(* The flag macros of the Z80 (mednafen/hw_cpu/z80-fuse/z80_macros.h) on   *)
(* bytes.  F is the set of the flags that are 1; each macro is an operator *)
(* that returns its result and the new F as a pair, as the C macros assign *)
(* both.  Half carry and overflow are looked up by one bit of the two      *)
(* operands and of the result, as in z80_ops.c.                            *)
(***************************************************************************)
EXTENDS Bytes

FlagBit == [C |-> 0, N |-> 1, P |-> 2, X |-> 3, H |-> 4, Y |-> 5, Z |-> 6, S |-> 7]
Flag == DOMAIN FlagBit

\* F as the byte that PUSH AF writes, and back.
FByte(F) == LET Add(g) == IF g \in F THEN 2^FlagBit[g] ELSE 0
            IN  Add("C") + Add("N") + Add("P") + Add("X") + Add("H") + Add("Y") + Add("Z") + Add("S")
FSet(v) == {g \in Flag : BitOf(v, FlagBit[g]) = 1}

\* sz53_table, parity_table and sz53p_table of z80_init().
SZ53(v) == Only(v = 0, "Z") \cup (FSet(v) \cap {"S", "Y", "X"})
Parity(v) == Only(EvenOnes(v), "P")
SZ53P(v) == SZ53(v) \cup Parity(v)

\* The four lookup tables: the indices at which they hold the flag.
HalfcarryAdd == {1, 2, 3, 7}
HalfcarrySub == {2, 4, 6, 7}
OverflowAdd == {3, 4}
OverflowSub == {1, 6}
Lookup(a, v, r, n) == BitOf(a, n) + 2 * BitOf(v, n) + 4 * BitOf(r, n)

ADC(a, v, c) == LET t == a + v + c
                    r == t % 256
                IN  <<r, SZ53(r) \cup Only(t > 255, "C") \cup Only(Lookup(a, v, r, 3) \in HalfcarryAdd, "H")
                           \cup Only(Lookup(a, v, r, 7) \in OverflowAdd, "P")>>
SBC(a, v, c) == LET t == a - v - c
                    r == t % 256
                IN  <<r, SZ53(r) \cup {"N"} \cup Only(t < 0, "C") \cup Only(Lookup(a, v, r, 3) \in HalfcarrySub, "H")
                           \cup Only(Lookup(a, v, r, 7) \in OverflowSub, "P")>>
ADD(a, v) == ADC(a, v, 0)
SUB(a, v) == SBC(a, v, 0)
\* CP keeps A and takes the undocumented flags from the operand.
CP(a, v) == <<a, (SUB(a, v)[2] \ {"X", "Y"}) \cup (FSet(v) \cap {"X", "Y"})>>
AND(a, v) == <<And(a, v), SZ53P(And(a, v)) \cup {"H"}>>
OR(a, v) == <<Or(a, v), SZ53P(Or(a, v))>>
XOR(a, v) == <<Xor(a, v), SZ53P(Xor(a, v))>>
\* Fault: 255 is followed by 256.
INCWide(v, F) == <<v + 1, SZ53(v + 1) \cup (F \cap {"C"}) \cup Only(v = 127, "P") \cup Only(v % 16 = 15, "H")>>
INC(v, F) == LET r == (v + 1) % 256
             IN  <<r, SZ53(r) \cup (F \cap {"C"}) \cup Only(r = 128, "P") \cup Only(r % 16 = 0, "H")>>
DEC(v, F) == LET r == (v - 1) % 256
             IN  <<r, SZ53(r) \cup (F \cap {"C"}) \cup {"N"} \cup Only(r = 127, "P") \cup Only(v % 16 = 0, "H")>>

\* The 16-bit additions leave S, Z and P alone, the others set all flags.
ADD16(x, v, F) == LET t == x + v
                      r == t % 65536
                  IN  <<r, (F \cap {"P", "Z", "S"}) \cup Only(t > 65535, "C") \cup (FSet(r \div 256) \cap {"X", "Y"})
                             \cup Only(Lookup(x, v, r, 11) \in HalfcarryAdd, "H")>>
ADC16(x, v, c) == LET t == x + v + c
                      r == t % 65536
                  IN  <<r, (FSet(r \div 256) \cap {"X", "Y", "S"}) \cup Only(r = 0, "Z") \cup Only(t > 65535, "C")
                             \cup Only(Lookup(x, v, r, 11) \in HalfcarryAdd, "H")
                             \cup Only(Lookup(x, v, r, 15) \in OverflowAdd, "P")>>
SBC16(x, v, c) == LET t == x - v - c
                      r == t % 65536
                  IN  <<r, (FSet(r \div 256) \cap {"X", "Y", "S"}) \cup Only(r = 0, "Z") \cup {"N"} \cup Only(t < 0, "C")
                             \cup Only(Lookup(x, v, r, 11) \in HalfcarrySub, "H")
                             \cup Only(Lookup(x, v, r, 15) \in OverflowSub, "P")>>

\* DAA: the correction is chosen before it is added or taken away.
DAA(a, F) == LET low  == "H" \in F \/ a % 16 > 9
                 high == "C" \in F \/ a > 153
                 add  == (IF low THEN 6 ELSE 0) + (IF high THEN 96 ELSE 0)
                 r    == IF "N" \in F THEN SUB(a, add) ELSE ADD(a, add)
             IN  <<r[1], (r[2] \ {"C", "P"}) \cup Only(high, "C") \cup Parity(r[1])>>

\* Rotates and shifts of z80_cb.c: the bit that leaves becomes C.
Shifted(r, out) == <<r, SZ53P(r) \cup Only(out = 1, "C")>>
RLC(v) == Shifted(((2 * v) % 256) + v \div 128, v \div 128)
RRC(v) == Shifted(v \div 2 + 128 * (v % 2), v % 2)
RL(v, c) == Shifted(((2 * v) % 256) + c, v \div 128)
RR(v, c) == Shifted(v \div 2 + 128 * c, v % 2)
SLA(v) == Shifted((2 * v) % 256, v \div 128)
SRA(v) == Shifted(v \div 2 + (v \div 128) * 128, v % 2)
SLL(v) == Shifted(((2 * v) % 256) + 1, v \div 128)
SRL(v) == Shifted(v \div 2, v % 2)

\* BIT: P follows Z, S is set for bit 7 only.
BIT(n, v, F, undoc) == (F \cap {"C"}) \cup {"H"} \cup (FSet(undoc) \cap {"X", "Y"})
                         \cup (IF BitOf(v, n) = 0 THEN {"P", "Z"} ELSE {}) \cup Only(n = 7 /\ v > 127, "S")
=============================================================================
