------------------------------ MODULE Tlcs900h ------------------------------
(***************************************************************************)
(* The main processor: TLCS900h_threaded.c fetches an opcode, works out    *)
(* the address it names, and calls the handler.  An instruction is one     *)
(* step, as in the code: requests arrive between two instructions, and     *)
(* set_interrupt() starts the handler at once if the level allows it.      *)
(***************************************************************************)
EXTENDS Tlcs900hSingle, Tlcs900hSrc

VARIABLE cpu

\* The four opcodes of an addressing mode of the table's second half: for bytes, words, longs and stores.
Mode(first, k) == first \in {192 + k, 208 + k, 224 + k, 240 + k}
Indirect(first) == first \in 128..191
Sum(a, d) == (a + d) % Mod(2)

\* xa_R32: a register, with a displacement, with another register as index, or relative to pc.
RegisterIndirect(c) ==
    LET b  == Past(c, 0)
        rs == rCode(b, 2, Fetch(b, 0))
        ri(s) == Signed(s, rCode(b, s, Fetch(Past(b, 0), 0)))
        By(d) == CASE d = 3  -> [Past(b, 1) EXCEPT !.mem = Sum(rs, ri(0))]
                   [] d = 7  -> [Past(b, 1) EXCEPT !.mem = Sum(rs, ri(1))]
                   [] d = 19 -> [Past(b, 1) EXCEPT !.mem = Sum(b.pc + 2, Signed(1, Fetch(b, 1)))]
                   [] d \notin {3, 7, 19} /\ d % 4 = 1 -> [Past(b, 1) EXCEPT !.mem = Sum(rCode(b, 2, d), Signed(1, Fetch(b, 1)))]
                   [] d \notin {3, 7, 19} /\ d % 4 # 1 -> [b EXCEPT !.mem = rCode(b, 2, d)]
    IN  By(Fetch(c, 0))
\* xa_Dec and xa_Inc: by 1, 2 or 4; the fourth code leaves the address of an earlier instruction.
Stepped(c, before) ==
    LET b == Past(c, 0)
        To(at, new, mem) == [SetCode(b, 2, at, new) EXCEPT !.mem = mem]
        Down(at, x) == To(at, x, x)
        By(at, k) == IF k = 3 THEN b
                     ELSE IF before THEN Down(at, Wrap(2, rCode(c, 2, at) - <<1, 2, 4>>[k + 1]))
                     ELSE To(at, Wrap(2, rCode(c, 2, at) + <<1, 2, 4>>[k + 1]), rCode(c, 2, at))
    IN  By(Fetch(c, 0) - (Fetch(c, 0) % 4), Fetch(c, 0) % 4)
\* The processor after the bytes of the addressing mode.
Addressed(c, first) ==
    CASE Indirect(first) /\ first % 16 < 8 -> [c EXCEPT !.mem = reg(c, 2, first % 8)]
      [] Indirect(first) /\ first % 16 > 7 -> [Past(c, 0) EXCEPT !.mem = Sum(reg(c, 2, first % 8), Signed(0, Fetch(c, 0)))]
      [] Mode(first, 0) -> [Past(c, 0) EXCEPT !.mem = Fetch(c, 0)]
      [] Mode(first, 1) -> [Past(c, 1) EXCEPT !.mem = Fetch(c, 1)]
      [] Mode(first, 2) -> [c EXCEPT !.pc = (@ + 3) % Mod(2), !.mem = fetch24(c)]
      [] Mode(first, 3) -> RegisterIndirect(c)
      [] Mode(first, 4) -> Stepped(c, TRUE)
      [] Mode(first, 5) -> Stepped(c, FALSE)
      [] first \in {199, 215, 231} -> Past(c, 0)
      [] OTHER -> c

-----------------------------------------------------------------------------
\* The handlers of the opcodes that are complete with their first byte, in the order of op_labels.
\* 1Fh calls the replaced BIOS (see Interrupts and FlashStore) and does nothing here.
Single(c, i) ==
    LET op == i.first
    IN  CASE op = 2 -> sngPUSHSR(c)   [] op = 3 -> sngPOPSR(c)    [] op = 6 -> sngEI(c)       [] op = 7 -> sngRETI(c)
          [] op = 8 -> sngLD8_8(c)    [] op = 9 -> sngPUSH8(c)    [] op = 10 -> sngLD8_16(c)  [] op = 11 -> sngPUSH16(c)
          [] op = 12 -> sngINCF(c)    [] op = 13 -> sngDECF(c)    [] op = 14 -> sngRET(c)     [] op = 15 -> sngRETD(c)
          [] op = 16 -> sngRCF(c)     [] op = 17 -> sngSCF(c)     [] op = 18 -> sngCCF(c)     [] op = 19 -> sngZCF(c)
          [] op = 20 -> sngPUSHA(c)   [] op = 21 -> sngPOPA(c)    [] op = 22 -> sngEX(c)      [] op = 23 -> sngLDF(c)
          [] op = 24 -> sngPUSHF(c)   [] op = 25 -> sngPOPF(c)    [] op = 26 -> sngJP16(c)    [] op = 27 -> sngJP24(c)
          [] op = 28 -> sngCALL16(c)  [] op = 29 -> sngCALL24(c)  [] op = 30 -> sngCALR(c)
          [] op \in 32..39 -> sngLDB(c, i)    [] op \in 40..47 -> sngPUSHW(c, i) [] op \in 48..55 -> sngLDW(c, i)
          [] op \in 56..63 -> sngPUSHL(c, i)  [] op \in 64..71 -> sngLDL(c, i)   [] op \in 72..79 -> sngPOPW(c, i)
          [] op \in 88..95 -> sngPOPL(c, i)   [] op \in 96..111 -> sngJR(c, i)   [] op \in 112..127 -> sngJRL(c, i)
          [] op = 247 -> sngLDX(c)            [] op > 247 -> sngSWI(c, i)        [] OTHER -> sngNOP(c)

\* The lower and the upper half of the table of second bytes.
LowerSrc(c, i) ==
    LET op == i.second
    IN  CASE op = 4 -> srcPUSH(c, i)    [] op = 6 -> srcRLD(c)        [] op = 7 -> srcRRD(c)
          [] op = 16 -> srcLDI(c, i)    [] op = 17 -> srcLDIR(c, i)   [] op = 18 -> srcLDD(c, i)   [] op = 19 -> srcLDDR(c, i)
          [] op = 20 -> srcCPI(c, i)    [] op = 21 -> srcCPIR(c, i)   [] op = 22 -> srcCPD(c, i)   [] op = 23 -> srcCPDR(c, i)
          [] op = 25 -> srcLD16m(c, i)  [] op \in 32..39 -> srcLD(c, i)  [] op \in 48..55 -> srcEX(c, i)
          [] op = 56 -> srcADDi(c, i)   [] op = 57 -> srcADCi(c, i)   [] op = 58 -> srcSUBi(c, i)  [] op = 59 -> srcSBCi(c, i)
          [] op = 60 -> srcANDi(c, i)   [] op = 61 -> srcXORi(c, i)   [] op = 62 -> srcORi(c, i)   [] op = 63 -> srcCPi(c, i)
          [] op \in 64..71 -> srcMUL(c, i)      [] op \in 72..79 -> srcMULS(c, i)
          [] op \in 80..87 -> srcDIV(c, i)      [] op \in 88..95 -> srcDIVS(c, i)
          [] op \in 96..103 -> srcINC(c, i)     [] op \in 104..111 -> srcDEC(c, i)
          [] op = 120 -> srcRLC(c, i)   [] op = 121 -> srcRRC(c, i)   [] op = 122 -> srcRL(c, i)   [] op = 123 -> srcRR(c, i)
          [] op = 124 -> srcSLA(c, i)   [] op = 125 -> srcSRA(c, i)   [] op = 126 -> srcSLL(c, i)  [] op = 127 -> srcSRL(c, i)
          [] OTHER -> c
UpperSrc(c, i) ==
    LET op == i.second
    IN  CASE op \in 128..135 -> srcADDRm(c, i)  [] op \in 136..143 -> srcADDmR(c, i)
          [] op \in 144..151 -> srcADCRm(c, i)  [] op \in 152..159 -> srcADCmR(c, i)
          [] op \in 160..167 -> srcSUBRm(c, i)  [] op \in 168..175 -> srcSUBmR(c, i)
          [] op \in 176..183 -> srcSBCRm(c, i)  [] op \in 184..191 -> srcSBCmR(c, i)
          [] op \in 192..199 -> srcANDRm(c, i)  [] op \in 200..207 -> srcANDmR(c, i)
          [] op \in 208..215 -> srcXORRm(c, i)  [] op \in 216..223 -> srcXORmR(c, i)
          [] op \in 224..231 -> srcORRm(c, i)   [] op \in 232..239 -> srcORmR(c, i)
          [] op \in 240..247 -> srcCPRm(c, i)   [] op > 247 -> srcCPmR(c, i)
tlcs_dispatch_src(c, i) == IF i.second < 128 THEN LowerSrc(c, i) ELSE UpperSrc(c, i)

tlcs_dispatch_dst(c, i) ==
    LET op == i.second
    IN  CASE op \in {0, 2} -> dstLDi(c, op \div 2)              [] op \in {4, 6} -> dstPOP(c, (op - 4) \div 2)
          [] op \in {20, 22} -> dstLDm16(c, (op - 20) \div 2)   [] op \in 32..39 -> dstLDA(c, 1, i)
          [] op \in 40..44 -> dstCFA(c, i)                      [] op \in 48..55 -> dstLDA(c, 2, i)
          [] op \in 64..71 -> dstLDR(c, 0, i)                   [] op \in 80..87 -> dstLDR(c, 1, i)
          [] op \in 96..103 -> dstLDR(c, 2, i)                  [] op \in (128..135) \cup (144..175) -> dstCF(c, i)
          [] op \in 176..183 -> dstTSET(c, i)                   [] op \in 184..191 -> dstRES(c, i)
          [] op \in 192..199 -> dstSET(c, i)                    [] op \in 200..207 -> dstCHG(c, i)
          [] op \in 208..215 -> dstBIT(c, i)                    [] op \in 216..223 -> dstJP(c, i)
          [] op \in 224..239 -> dstCALL(c, i)                   [] op > 239 -> dstRET(c, i)
          [] OTHER -> c

LowerReg(c, i) ==
    LET op == i.second
    IN  CASE op = 3 -> regLDi(c, i)      [] op = 4 -> regPUSH(c, i)     [] op = 5 -> regPOP(c, i)      [] op = 6 -> regCPL(c, i)
          [] op = 7 -> regNEG(c, i)      [] op = 8 -> regMULi(c, i)     [] op = 9 -> regMULSi(c, i)    [] op = 10 -> regDIVi(c, i)
          [] op = 11 -> regDIVSi(c, i)   [] op = 12 -> regLINK(c, i)    [] op = 13 -> regUNLK(c, i)    [] op = 14 -> regBS1F(c, i)
          [] op = 15 -> regBS1B(c, i)    [] op = 16 -> regDAA(c, i)     [] op = 18 -> regEXTZ(c, i)    [] op = 19 -> regEXTS(c, i)
          [] op = 20 -> regPAA(c, i)     [] op = 22 -> regMIRR(c, i)    [] op = 25 -> regMULA(c, i)    [] op = 28 -> regDJNZ(c, i)
          [] op \in 32..35 -> regCFi(c, i)      [] op = 36 -> regSTCFi(c, i)
          [] op \in 40..43 -> regCFA(c, i)      [] op = 44 -> regSTCFA(c, i)
          [] op = 46 -> regLDCcrr(c, i)  [] op = 47 -> regLDCrcr(c, i)  [] op = 48 -> regRES(c, i)     [] op = 49 -> regSET(c, i)
          [] op = 50 -> regCHG(c, i)     [] op = 51 -> regBIT(c, i)     [] op = 52 -> regTSET(c, i)
          [] op \in 56..58 -> regMINC(c, i)     [] op \in 60..62 -> regMDEC(c, i)
          [] op \in 64..71 -> regMUL(c, i)      [] op \in 72..79 -> regMULS(c, i)
          [] op \in 80..87 -> regDIV(c, i)      [] op \in 88..95 -> regDIVS(c, i)
          [] op \in 96..103 -> regINC(c, i)     [] op \in 104..111 -> regDEC(c, i)  [] op \in 112..127 -> regSCC(c, i)
          [] OTHER -> c
UpperReg(c, i) ==
    LET op == i.second
    IN  CASE op \in 128..135 -> regADD(c, i)    [] op \in 136..143 -> regLDRr(c, i)
          [] op \in 144..151 -> regADC(c, i)    [] op \in 152..159 -> regLDrR(c, i)   [] op \in 160..167 -> regSUB(c, i)
          [] op \in 168..175 -> regLDr3(c, i)   [] op \in 176..183 -> regSBC(c, i)    [] op \in 184..191 -> regEX(c, i)
          [] op \in 192..199 -> regAND(c, i)    [] op \in 208..215 -> regXOR(c, i)    [] op \in 216..223 -> regCPr3(c, i)
          [] op \in 224..231 -> regOR(c, i)     [] op \in 240..247 -> regCP(c, i)
          [] op = 200 -> regADDi(c, i)   [] op = 201 -> regADCi(c, i)   [] op = 202 -> regSUBi(c, i)   [] op = 203 -> regSBCi(c, i)
          [] op = 204 -> regANDi(c, i)   [] op = 205 -> regXORi(c, i)   [] op = 206 -> regORi(c, i)    [] op = 207 -> regCPi(c, i)
          [] op = 232 -> regRLCi(c, i)   [] op = 233 -> regRRCi(c, i)   [] op = 234 -> regRLi(c, i)    [] op = 235 -> regRRi(c, i)
          [] op = 236 -> regSLAi(c, i)   [] op = 237 -> regSRAi(c, i)   [] op = 238 -> regSLLi(c, i)   [] op = 239 -> regSRLi(c, i)
          [] op = 248 -> regRLCA(c, i)   [] op = 249 -> regRRCA(c, i)   [] op = 250 -> regRLA(c, i)    [] op = 251 -> regRRA(c, i)
          [] op = 252 -> regSLAA(c, i)   [] op = 253 -> regSRAA(c, i)   [] op = 254 -> regSLLA(c, i)   [] op = 255 -> regSRLA(c, i)
tlcs_dispatch_reg(c, i) == IF i.second < 128 THEN LowerReg(c, i) ELSE UpperReg(c, i)

\* Which of the four decoders an opcode goes to.
IsSrc(first) == first \in (128..175) \cup (192..197) \cup (208..213) \cup (224..229)
IsDst(first) == first \in (176..191) \cup (240..245)
IsReg(first) == first \in (199..207) \cup (215..223) \cup (231..239)

Dispatched(c, i) ==
    CASE IsSrc(i.first) -> tlcs_dispatch_src(Past(c, 0), i)
      [] IsDst(i.first) -> tlcs_dispatch_dst(Past(c, 0), i)
      [] IsReg(i.first) -> tlcs_dispatch_reg(Past(c, 0), i)
      [] OTHER -> Single(c, [i EXCEPT !.second = 0, !.R = 0])
\* How the instruction is decoded; code is that of the register it names.
Decoded(first, second, named) ==
    LET size == (first \div 16) % 4
    IN  [first |-> first, second |-> second, R |-> second % 8, size |-> size,
         code |-> IF first % 16 = 7 THEN named ELSE Code(size, first % 8)]
Fetched(c, first, b) == Dispatched(b, Decoded(first, Fetch(b, 0), Fetch(Past(c, 0), 0)))
\* TLCS900h_interpret().
Executed(c) ==
    Fetched(c, Fetch(c, 0), Addressed([Past(c, 0) EXCEPT !.bus = <<>>], Fetch(c, 0)))

-----------------------------------------------------------------------------
\* Registers, flags, control bits and memory of the main processor have their widths.
RegisterBanks == [0..20 -> Value(2)]
FlagSets == SUBSET SRFlag
Requests == SUBSET (0..12)
Levels == [0..10 -> Octet]
DmaRegisters == {d \in [DmaCodes[1] \cup DmaCodes[2] \cup DmaCodes[3] -> Value(2)] :
                   \A s \in Size : \A k \in DmaCodes[s + 1] : d[k] \in Value(s)}
BusWrites == Seq({185, 186, 188} \X Octet)
AddressSpace == 0..(2^24 - 1)
OctetsIn(ram) == DOMAIN ram \subseteq AddressSpace /\ ram \in [DOMAIN ram -> Octet]
Typed(c) ==
    /\ c \in [regs : RegisterBanks, pc : Value(2), sh : Octet, f : FlagSets, fdash : Octet, mem : Value(2), ram : {c.ram},
              ipending : Requests, prio : Levels, dma : DmaRegisters, bus : BusWrites]
    /\ OctetsIn(c.ram)
=============================================================================
