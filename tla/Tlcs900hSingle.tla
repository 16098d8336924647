--------------------------- MODULE Tlcs900hSingle ---------------------------
(***************************************************************************)
(* The instructions of one opcode byte (TLCS900h_interpret_single.c) and   *)
(* those that write to the addressed memory (TLCS900h_interpret_dst.c).    *)
(* Each handler takes the processor that has fetched the opcode and i, how *)
(* it was decoded: first, second, R, size and code (rCode).                *)
(***************************************************************************)
EXTENDS Tlcs900hRegisters

\* NOP, NORMAL, MAX and HALT do nothing here: HALT does not wait.
sngNOP(c) == c
sngPUSHSR(c) == Push(c, 1, 256 * c.sh + StatusByte(c.f))
sngPOPSR(c) == SetSR(Dropped(c, 1), Top(c, 1))
sngEI(c) == int_check_pending(setStatusIFF(Past(c, 0), Fetch(c, 0)))
\* Fault: the level is not brought back.
sngRETILevel(c) == LET d == Dropped(c, 1) IN SetF([Dropped(d, 2) EXCEPT !.pc = Top(d, 2)], StatusFlags(Top(c, 1) % 256))
sngRETI(c) == LET d == Dropped(c, 1) IN SetSR([Dropped(d, 2) EXCEPT !.pc = Top(d, 2)], Top(c, 1))
sngLD8_8(c) == storeB(Past(c, 1), Fetch(c, 0), loadB(c, c.pc + 1))
sngPUSH8(c) == Push(Past(c, 0), 0, Fetch(c, 0))
sngLD8_16(c) == Store(Past(Past(c, 0), 1), 1, Fetch(c, 0), Fetch(Past(c, 0), 1))
sngPUSH16(c) == Push(Past(c, 1), 1, Fetch(c, 1))
sngINCF(c) == setStatusRFP(c, statusRFP(c) + 1)
sngDECF(c) == setStatusRFP(c, statusRFP(c) - 1)
sngRET(c) == [Dropped(c, 2) EXCEPT !.pc = Top(c, 2)]
sngRETD(c) == LET sp == Wrap(2, c.regs[XSP] + 4)
              IN  [c EXCEPT !.pc = Top(c, 2), !.regs[XSP] = (sp + Signed(1, Fetch(c, 1))) % Mod(2)]
sngRCF(c) == SetF(c, c.f \ {"N", "V", "C"})
sngSCF(c) == SetF(c, (c.f \ {"H", "N"}) \cup {"C"})
sngCCF(c) == SetF(c, (c.f \ {"N", "C"}) \cup Only("C" \notin c.f, "C"))
sngZCF(c) == SetF(c, (c.f \ {"N", "C"}) \cup Only("Z" \notin c.f, "C"))
sngPUSHA(c) == Push(c, 0, REGA(c))
sngPOPA(c) == SetA(Dropped(c, 0), Top(c, 0))
sngEX(c) == [c EXCEPT !.f = StatusFlags(c.fdash), !.fdash = StatusByte(c.f)]
sngLDF(c) == setStatusRFP(Past(c, 0), Fetch(c, 0))
sngPUSHF(c) == Push(c, 0, StatusByte(c.f))
sngPOPF(c) == SetF(Dropped(c, 0), StatusFlags(Top(c, 0)))
sngJP16(c) == [c EXCEPT !.pc = Fetch(c, 1)]
sngJP24(c) == [c EXCEPT !.pc = fetch24(c)]
sngCALL16(c) == [Push(c, 2, c.pc + 2) EXCEPT !.pc = Fetch(c, 1)]
sngCALL24(c) == [Push(c, 2, c.pc + 3) EXCEPT !.pc = fetch24(c)]
sngCALR(c) == Jump(Push(Past(c, 1), 2, c.pc + 2), 1, Fetch(c, 1))
sngLDB(c, i) == SetReg(Past(c, 0), 0, i.first % 8, Fetch(c, 0))
sngPUSHW(c, i) == Push(c, 1, reg(c, 1, i.first % 8))
sngLDW(c, i) == SetReg(Past(c, 1), 1, i.first % 8, Fetch(c, 1))
sngPUSHL(c, i) == Push(c, 2, reg(c, 2, i.first % 8))
sngLDL(c, i) == SetReg(Past(c, 2), 2, i.first % 8, Fetch(c, 2))
sngPOPW(c, i) == SetReg(Dropped(c, 1), 1, i.first % 8, Top(c, 1))
sngPOPL(c, i) == SetReg(Dropped(c, 2), 2, i.first % 8, Top(c, 2))
sngJR(c, i) == IF conditionCode(i.first % 16, c.f) THEN Jump(Past(c, 0), 0, Fetch(c, 0)) ELSE Past(c, 0)
sngJRL(c, i) == IF conditionCode(i.first % 16, c.f) THEN Jump(Past(c, 1), 1, Fetch(c, 1)) ELSE Past(c, 1)
sngLDX(c) == storeB([c EXCEPT !.pc = (@ + 5) % Mod(2)], loadB(c, c.pc + 1), loadB(c, c.pc + 3))
\* SWI 1 calls the BIOS through its table; 3 to 6 raise requests that nothing delivers.
sngSWI(c, i) == CASE i.first % 8 = 1 -> [Push(c, 2, c.pc) EXCEPT
                                            !.pc = Load(c, 2, 16776704 + 4 * (rCode(c, 0, 49) % 32))]
                  [] i.first % 8 \in 3..6 -> set_interrupt(c, (i.first % 8) - 3)
                  [] OTHER -> c

-----------------------------------------------------------------------------
\* TLCS900h_interpret_dst.c
dstLDi(c, s) == Store(Past(c, s), s, c.mem, Fetch(c, s))
dstPOP(c, s) == Store(Dropped(c, s), s, c.mem, Top(c, s))
dstLDm16(c, s) == Store(Past(c, 1), s, c.mem, Load(c, s, Fetch(c, 1)))
dstLDA(c, s, i) == SetReg(c, s, i.R, c.mem % Mod(s))
dstLDR(c, s, i) == Store(c, s, c.mem, reg(c, s, i.R))

\* C and a bit of a byte; the bits 8 to 15 that A may ask for do not exist.
MemBit(c, bit) == BitOf(loadB(c, c.mem), bit) = 1
WithC(c, v) == SetF(c, (c.f \ {"C"}) \cup Only(v, "C"))
ANDCF(c, bit) == IF bit < 8 THEN WithC(c, MemBit(c, bit) /\ "C" \in c.f) ELSE c
ORCF(c, bit) == IF bit < 8 THEN WithC(c, MemBit(c, bit) \/ "C" \in c.f) ELSE c
XORCF(c, bit) == IF bit < 8 THEN WithC(c, MemBit(c, bit) # ("C" \in c.f)) ELSE c
LDCF(c, bit) == IF bit < 8 THEN WithC(c, MemBit(c, bit)) ELSE c
\* v with the bit set to one or to zero.
SetBit(v, bit, one) == (v - 2^bit * BitOf(v, bit)) + (IF one THEN 2^bit ELSE 0)
STCF(c, bit) == IF bit < 8 THEN storeB(c, c.mem, SetBit(loadB(c, c.mem), bit, "C" \in c.f)) ELSE c
dstCFA(c, i) == LET By(bit) == CASE i.second = 40 -> ANDCF(c, bit) [] i.second = 41 -> ORCF(c, bit)
                                 [] i.second = 42 -> XORCF(c, bit) [] i.second = 43 -> LDCF(c, bit)
                                 [] i.second = 44 -> STCF(c, bit)
                IN  By(REGA(c) % 16)
dstCF(c, i) == CASE i.second \in 128..135 -> ANDCF(c, i.R) [] i.second \in 144..151 -> ORCF(c, i.R)
                 [] i.second \in 152..159 -> XORCF(c, i.R) [] i.second \in 160..167 -> LDCF(c, i.R)
                 [] i.second \in 168..175 -> STCF(c, i.R)
Tested(F, zero) == (F \ {"Z", "N"}) \cup Only(zero, "Z") \cup {"H"}
\* TSET stores before it sets H and clears N.
dstTSET(c, i) == LET zero == ~MemBit(c, i.R)
                     d    == SetF(c, (c.f \ {"Z"}) \cup Only(zero, "Z"))
                 IN  SetF(storeB(d, c.mem, SetBit(loadB(c, c.mem), i.R, TRUE)), Tested(c.f, zero))
dstRES(c, i) == storeB(c, c.mem, SetBit(loadB(c, c.mem), i.R, FALSE))
dstSET(c, i) == storeB(c, c.mem, SetBit(loadB(c, c.mem), i.R, TRUE))
dstCHG(c, i) == storeB(c, c.mem, SetBit(loadB(c, c.mem), i.R, ~MemBit(c, i.R)))
dstBIT(c, i) == SetF(c, Tested(c.f, ~MemBit(c, i.R)))
dstJP(c, i) == IF conditionCode(i.second % 16, c.f) THEN [c EXCEPT !.pc = c.mem] ELSE c
dstCALL(c, i) == IF conditionCode(i.second % 16, c.f) THEN [Push(c, 2, c.pc) EXCEPT !.pc = c.mem] ELSE c
dstRET(c, i) == IF conditionCode(i.second % 16, c.f) THEN sngRET(c) ELSE c
=============================================================================
