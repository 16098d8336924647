---------------------------- MODULE Tlcs900hReg ----------------------------
(***************************************************************************)
(* The instructions that work on a register: TLCS900h_interpret_reg.c.     *)
(* r is the operand that i.code names, and R the register of the second    *)
(* opcode byte.  An operation that has no long form ignores a long.        *)
(***************************************************************************)
EXTENDS Tlcs900hRegisters, FiniteSetsExt

r(c, i) == rCode(c, i.size, i.code)
Put(c, i, v) == SetCode(c, i.size, i.code, v)
R(c, i) == reg(c, i.size, i.R)
PutR(c, i, v) == SetReg(c, i.size, i.R, v)
Short(i) == i.size < 2

\* The logical operations, and the comparison, which keeps its operand.
OfBytes(b) == b[0] + 256 * b[1] + 65536 * b[2] + 16777216 * b[3]
Conjoined(a, b) == OfBytes([k \in 0..3 |-> And(NthByte(a, k), NthByte(b, k))])
Disjoined(a, b) == OfBytes([k \in 0..3 |-> Or(NthByte(a, k), NthByte(b, k))])
Differing(a, b) == OfBytes([k \in 0..3 |-> Xor(NthByte(a, k), NthByte(b, k))])
Anded(s, a, b, F) == <<Conjoined(a, b), Logical(s, Conjoined(a, b), F, TRUE, FALSE)>>
Ored(s, a, b, F) == <<Disjoined(a, b), Logical(s, Disjoined(a, b), F, FALSE, FALSE)>>
Xored(s, a, b, F) == <<Differing(a, b), Logical(s, Differing(a, b), F, FALSE, FALSE)>>
Compared(s, a, b, F) == <<a, GenericSUB(s, a, b, F)[2]>>

\* The products and quotients of a register of twice the size.
Multiplied(c, s, code, v) ==
    SetCode(c, s + 1, code, ((rCode(c, s + 1, code) % Mod(s)) * v) % Mod(s + 1))
SignMultiplied(c, s, code, v) ==
    SetCode(c, s + 1, code, (Signed(s, rCode(c, s + 1, code) % Mod(s)) * Signed(s, v)) % Mod(s + 1))
\* o is a result with its flags.
WithCode(c, s, code, o) == SetF(SetCode(c, s, code, o[1]), o[2])
Divided(c, s, code, v) == WithCode(c, s + 1, code, GenericDIV(s, rCode(c, s + 1, code), v, c.f))
SignDivided(c, s, code, v) == WithCode(c, s + 1, code, GenericDIVS(s, rCode(c, s + 1, code), v, c.f))

-----------------------------------------------------------------------------
regLDi(c, i) == Put(Past(c, i.size), i, Fetch(c, i.size))
regPUSH(c, i) == Push(c, i.size, r(c, i))
regPOP(c, i) == Put(Dropped(c, i.size), i, Top(c, i.size))
regCPL(c, i) == SetF(IF Short(i) THEN Put(c, i, Mod(i.size) - 1 - r(c, i)) ELSE c, c.f \cup {"H", "N"})
regNEG(c, i) == IF Short(i) THEN WithCode(c, i.size, i.code, GenericSUB(i.size, 0, r(c, i), c.f)) ELSE c
regMULi(c, i) == IF Short(i) THEN Multiplied(Past(c, i.size), i.size, get_rr_Target(i), Fetch(c, i.size)) ELSE c
regMULSi(c, i) == IF Short(i) THEN SignMultiplied(Past(c, i.size), i.size, get_rr_Target(i), Fetch(c, i.size)) ELSE c
regDIVi(c, i) == IF Short(i) THEN Divided(Past(c, i.size), i.size, get_rr_Target(i), Fetch(c, i.size)) ELSE c
regDIVSi(c, i) == IF Short(i) THEN SignDivided(Past(c, i.size), i.size, get_rr_Target(i), Fetch(c, i.size)) ELSE c
Linked(c, i, room) == [SetCode(c, 2, i.code, c.regs[XSP]) EXCEPT !.regs[XSP] = (@ + Signed(1, room)) % Mod(2)]
regLINK(c, i) == Linked(Push(Past(c, 1), 2, rCode(c, 2, i.code)), i, Fetch(c, 1))
regUNLK(c, i) == LET d == [c EXCEPT !.regs[XSP] = rCode(c, 2, i.code)] IN SetCode(Dropped(d, 2), 2, i.code, Top(d, 2))
\* The search for a set bit ends before the fifteenth bit it would look at.
Ones(c, i) == {n \in 0..15 : BitOf(rCode(c, 1, i.code), n) = 1}
Found(c, bits, bit) == IF bits = {} THEN SetF(c, c.f \cup {"V"}) ELSE SetF(SetA(c, bit), c.f \ {"V"})
regBS1F(c, i) == LET low == Ones(c, i) \ {15} IN Found(c, low, IF low = {} THEN 0 ELSE Min(low))
regBS1B(c, i) == LET high == Ones(c, i) \ {0} IN Found(c, high, IF high = {} THEN 0 ELSE Max(high))
regDAA(c, i) == WithCode(c, 0, i.code, Adjusted(rCode(c, 0, i.code), c.f))
regEXTZ(c, i) == IF i.size = 0 THEN c ELSE Put(c, i, r(c, i) % Mod(i.size - 1))
regEXTS(c, i) == IF i.size = 0 THEN c ELSE Put(c, i, Signed(i.size - 1, r(c, i) % Mod(i.size - 1)) % Mod(i.size))
regPAA(c, i) == IF i.size # 0 /\ r(c, i) % 2 = 1 THEN Put(c, i, Wrap(i.size, r(c, i) + 1)) ELSE c
Mirrored(byte) == ByteOf({7 - n : n \in Bits(byte)})
regMIRR(c, i) == SetCode(c, 1, i.code, 256 * Mirrored(rCode(c, 1, i.code) % 256) + Mirrored(rCode(c, 1, i.code) \div 256))
\* The sum sets flags, and is not kept.
regMULA(c, i) == LET src == (Signed(1, Load(c, 1, reg(c, 2, 2))) * Signed(1, Load(c, 1, reg(c, 2, 3)))) % Mod(2)
                     Flags(a, b, sum) == (c.f \ {"S", "Z", "V"}) \cup Only(Negative(2, sum), "S") \cup Only(sum = 0, "Z")
                                           \cup Only(SameSign(2, a, b) /\ ~SameSign(2, a, sum), "V")
                 IN  SetF(c, Flags(rCode(c, 2, i.code), src, Wrap(2, rCode(c, 2, i.code) + src)))
regDJNZ(c, i) == LET left == Wrap(i.size, r(c, i) - 1)
                     d    == Put(Past(c, 0), i, left)
                 IN  IF ~Short(i) THEN Past(c, 0) ELSE IF left = 0 THEN d ELSE Jump(d, 0, Fetch(c, 0))

\* C and a bit of the register; a byte has no bits 8 to 15.
HasBit(i, bit) == i.size = 1 \/ (i.size = 0 /\ bit < 8)
CarryOp(c, i, bit) == LET one == BitOf(r(c, i), bit) = 1
                          old == "C" \in c.f
                          new == CASE i.second % 8 = 0 -> old /\ one [] i.second % 8 = 1 -> old \/ one
                                   [] i.second % 8 = 2 -> old # one  [] i.second % 8 = 3 -> one
                      IN  IF HasBit(i, bit) THEN SetF(c, (c.f \ {"C"}) \cup Only(new, "C")) ELSE c
CarryStored(c, i, bit) == IF HasBit(i, bit) THEN Put(c, i, (r(c, i) - 2^bit * BitOf(r(c, i), bit))
                                                            + (IF "C" \in c.f THEN 2^bit ELSE 0)) ELSE c
\* ANDCF, ORCF, XORCF and LDCF, then STCF, with the number of the bit behind the opcode or in A.
regCFi(c, i) == CarryOp(Past(c, 0), i, Fetch(c, 0) % 16)
regSTCFi(c, i) == CarryStored(Past(c, 0), i, Fetch(c, 0) % 16)
regCFA(c, i) == CarryOp(c, i, REGA(c) % 16)
regSTCFA(c, i) == CarryStored(c, i, REGA(c) % 16)

\* The registers of the micro-DMA that a byte, a word or a long can reach.
DmaCodes == <<{34, 38, 42, 46}, {32, 36, 40, 44}, {0, 4, 8, 12, 16, 20, 24, 28}>>
regLDCcrr(c, i) == LET cr == Fetch(c, 0)
                   IN  IF cr \in DmaCodes[i.size + 1] THEN [Past(c, 0) EXCEPT !.dma[cr] = r(c, i)] ELSE Past(c, 0)
regLDCrcr(c, i) == LET cr == Fetch(c, 0)
                   IN  Put(Past(c, 0), i, IF cr \in DmaCodes[i.size + 1] THEN c.dma[cr] ELSE 0)

\* The register with one bit changed; a byte ignores the bits it does not have.
BitPut(c, i, bit, one) == IF HasBit(i, bit) THEN Put(c, i, (r(c, i) - 2^bit * BitOf(r(c, i), bit))
                                                            + (IF one THEN 2^bit ELSE 0)) ELSE c
NthBit(c, i) == Fetch(c, 0) % 16
IsOne(c, i) == HasBit(i, NthBit(c, i)) /\ BitOf(r(c, i), NthBit(c, i)) = 1
regRES(c, i) == BitPut(Past(c, 0), i, NthBit(c, i), FALSE)
regSET(c, i) == BitPut(Past(c, 0), i, NthBit(c, i), TRUE)
regCHG(c, i) == BitPut(Past(c, 0), i, NthBit(c, i), ~IsOne(c, i))
TestFlags(c, i) == ((IF Short(i) THEN (c.f \ {"Z"}) \cup Only(~IsOne(c, i), "Z") ELSE c.f) \ {"N"}) \cup {"H"}
regBIT(c, i) == SetF(Past(c, 0), TestFlags(c, i))
regTSET(c, i) == SetF(BitPut(Past(c, 0), i, NthBit(c, i), TRUE), TestFlags(c, i))

\* Steps of 1, 2 or 4 within blocks of num, which follows the opcode less the step.
RingStep(i) == <<1, 2, 4>>[(i.second % 4) + 1]
regMINC(c, i) == LET n   == RingStep(i)
                     num == (Fetch(c, 1) + n) % 65536
                     new == IF (r(c, i) % num) = num - n THEN r(c, i) - (num - n) ELSE r(c, i) + n
                 IN  IF i.size = 1 /\ num # 0 THEN Put(Past(c, 1), i, new % 65536) ELSE Past(c, 1)
regMDEC(c, i) == LET n   == RingStep(i)
                     num == (Fetch(c, 1) + n) % 65536
                     new == IF (r(c, i) % num) = 0 THEN (r(c, i) + num) - n ELSE r(c, i) - n
                 IN  IF i.size = 1 /\ num # 0 THEN Put(Past(c, 1), i, new % 65536) ELSE Past(c, 1)

-----------------------------------------------------------------------------
regMUL(c, i) == IF Short(i) THEN Multiplied(c, i.size, get_RR_Target(i), r(c, i)) ELSE c
regMULS(c, i) == IF Short(i) THEN SignMultiplied(c, i.size, get_RR_Target(i), r(c, i)) ELSE c
regDIV(c, i) == IF Short(i) THEN Divided(c, i.size, get_RR_Target(i), r(c, i)) ELSE c
regDIVS(c, i) == IF Short(i) THEN SignDivided(c, i.size, get_RR_Target(i), r(c, i)) ELSE c
\* 1 to 8: the field 0 stands for 8.
Count(i) == IF i.R = 0 THEN 8 ELSE i.R
\* Only the byte forms set flags.
Counted(c, i, o) == SetF(Put(c, i, o[1]), IF i.size = 0 THEN o[2] ELSE c.f)
regINC(c, i) == Counted(c, i, Increased(i.size, r(c, i), Count(i), c.f))
regDEC(c, i) == Counted(c, i, Decreased(i.size, r(c, i), Count(i), c.f))
regSCC(c, i) == IF Short(i) THEN Put(c, i, IF conditionCode(i.second % 16, c.f) THEN 1 ELSE 0) ELSE c
regLDRr(c, i) == PutR(c, i, r(c, i))
regLDrR(c, i) == Put(c, i, R(c, i))
regLDr3(c, i) == Put(c, i, i.R)
regEX(c, i) == Put(PutR(c, i, r(c, i)), i, R(c, i))

\* The result of an operation on R and r, or on r and what follows the opcode.
WithR(c, i, o) == SetF(PutR(c, i, o[1]), o[2])
IntoR(c, i, Op(_, _, _, _)) == WithR(c, i, Op(i.size, R(c, i), r(c, i), c.f))
WithNext(c, i, Op(_, _, _, _)) ==
    WithCode(Past(c, i.size), i.size, i.code, Op(i.size, r(c, i), Fetch(c, i.size), c.f))
regADD(c, i) == IntoR(c, i, GenericADD)
regADC(c, i) == IntoR(c, i, GenericADC)
regSUB(c, i) == IntoR(c, i, GenericSUB)
regSBC(c, i) == IntoR(c, i, GenericSBC)
regADDi(c, i) == WithNext(c, i, GenericADD)
regADCi(c, i) == WithNext(c, i, GenericADC)
regSUBi(c, i) == WithNext(c, i, GenericSUB)
regSBCi(c, i) == WithNext(c, i, GenericSBC)
regCPi(c, i) == WithNext(c, i, Compared)
regANDi(c, i) == WithNext(c, i, Anded)
regORi(c, i) == WithNext(c, i, Ored)
regXORi(c, i) == WithNext(c, i, Xored)
regAND(c, i) == IntoR(c, i, Anded)
regOR(c, i) == IntoR(c, i, Ored)
regXOR(c, i) == IntoR(c, i, Xored)
regCPr3(c, i) == IF Short(i) THEN SetF(c, Compared(i.size, r(c, i), i.R, c.f)[2]) ELSE c
regCP(c, i) == IntoR(c, i, Compared)

\* By the count behind the opcode, or the one in A, taken before A itself may be shifted.
Shift(c, i, op, n) == WithCode(c, i.size, i.code, Repeated(op, i.size, r(c, i), c.f, n % 16))
regRLCi(c, i) == Shift(Past(c, 0), i, "RLC", Fetch(c, 0))
regRRCi(c, i) == Shift(Past(c, 0), i, "RRC", Fetch(c, 0))
regRLi(c, i) == Shift(Past(c, 0), i, "RL", Fetch(c, 0))
regRRi(c, i) == Shift(Past(c, 0), i, "RR", Fetch(c, 0))
regSLAi(c, i) == Shift(Past(c, 0), i, "SLA", Fetch(c, 0))
regSRAi(c, i) == Shift(Past(c, 0), i, "SRA", Fetch(c, 0))
regSLLi(c, i) == Shift(Past(c, 0), i, "SLL", Fetch(c, 0))
regSRLi(c, i) == Shift(Past(c, 0), i, "SRL", Fetch(c, 0))
regRLCA(c, i) == Shift(c, i, "RLC", REGA(c))
regRRCA(c, i) == Shift(c, i, "RRC", REGA(c))
regRLA(c, i) == Shift(c, i, "RL", REGA(c))
regRRA(c, i) == Shift(c, i, "RR", REGA(c))
regSLAA(c, i) == Shift(c, i, "SLA", REGA(c))
regSRAA(c, i) == Shift(c, i, "SRA", REGA(c))
regSLLA(c, i) == Shift(c, i, "SLL", REGA(c))
regSRLA(c, i) == Shift(c, i, "SRL", REGA(c))
=============================================================================
