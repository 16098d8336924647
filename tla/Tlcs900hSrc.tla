---------------------------- MODULE Tlcs900hSrc ----------------------------
(***************************************************************************)
(* The instructions that read the addressed memory:                        *)
(* TLCS900h_interpret_src.c.  A store into the interrupt controller can    *)
(* start a handler in the middle of the instruction: the flags that the    *)
(* code sets after the store are set here after the Store.                 *)
(***************************************************************************)
EXTENDS Tlcs900hReg

m(c, i) == Load(c, i.size, c.mem)

srcPUSH(c, i) == IF Short(i) THEN Push(c, i.size, m(c, i)) ELSE c
\* The digit that moves between A and the byte in memory.
Rotated(c, a, byte) ==
    SetF(storeB(SetA(c, a), c.mem, byte), Logical(0, a, c.f, FALSE, "C" \in c.f))
srcRLD(c) == LET b == loadB(c, c.mem)
             IN  Rotated(c, (REGA(c) - (REGA(c) % 16)) + b \div 16, 16 * (b % 16) + (REGA(c) % 16))
srcRRD(c) == LET b == loadB(c, c.mem)
             IN  Rotated(c, (REGA(c) - (REGA(c) % 16)) + (b % 16), 16 * (REGA(c) % 16) + b \div 16)

\* BC less one; V is set until it is 0.
OneLess(c, F) == LET Set(left) == SetF(SetReg(c, 1, 1, left), (F \ {"V"}) \cup Only(left # 0, "V"))
                 IN  Set(Wrap(1, REGBC(c) - 1))
Walked(c, i, n, step) == SetReg(c, 2, n, Wrap(2, reg(c, 2, n) + step * Width(i.size)))

\* One transfer from the address in XHL to the one in XDE, or from XIY to XIX, and BC less one.
Moved(c, i, step) ==
    LET dst == IF i.first % 16 = 5 THEN 4 ELSE 2
        src == dst + 1
    IN  OneLess(IF ~Short(i) THEN c
                ELSE Walked(Walked(Store(c, i.size, reg(c, 2, dst), Load(c, i.size, reg(c, 2, src))), i, dst, step),
                            i, src, step), c.f)
MovedOnce(c, i, step) == [Moved(c, i, step) EXCEPT !.f = @ \ {"H", "N"}]
\* The repeated forms run until BC is 0 within one instruction.
MovedAll(c, i, step) ==
    LET times == IF REGBC(c) = 0 THEN 65536 ELSE REGBC(c)
        after[k \in 0..times] == IF k = 0 THEN c ELSE Moved(after[k - 1], i, step)
    IN  [after[times] EXCEPT !.f = @ \ {"H", "N"}]
srcLDI(c, i) == MovedOnce(c, i, 1)
srcLDIR(c, i) == MovedAll(c, i, 1)
srcLDD(c, i) == MovedOnce(c, i, -1)
srcLDDR(c, i) == MovedAll(c, i, -1)

\* A or WA against the memory that the register of the first opcode points to.
Sought(c, i, step) ==
    LET n == i.first % 8
        o == GenericSUB(i.size, IF i.size = 0 THEN REGA(c) ELSE reg(c, 1, 0), Load(c, i.size, reg(c, 2, n)), c.f)
    IN  IF Short(i) THEN OneLess(Walked(c, i, n, step), o[2]) ELSE OneLess(c, c.f)
\* Until BC is 0 or the value was found.
SoughtAll(c, i, step) ==
    LET more == IF REGBC(c) = 0 THEN 65535 ELSE REGBC(c) - 1
        next(d) == IF "V" \in d.f /\ "Z" \notin d.f THEN Sought(d, i, step) ELSE d
        after[k \in 0..more] == IF k = 0 THEN Sought(c, i, step) ELSE next(after[k - 1])
    IN  after[more]
srcCPI(c, i) == Sought(c, i, 1)
srcCPIR(c, i) == SoughtAll(c, i, 1)
srcCPD(c, i) == Sought(c, i, -1)
srcCPDR(c, i) == SoughtAll(c, i, -1)

srcLD16m(c, i) == IF Short(i) THEN Store(Past(c, 1), i.size, Fetch(c, 1), m(c, i)) ELSE c
srcLD(c, i) == PutR(c, i, m(c, i))
srcEX(c, i) == IF Short(i) THEN Store(PutR(c, i, m(c, i)), i.size, c.mem, R(c, i)) ELSE c

-----------------------------------------------------------------------------
\* Arithmetic sets its flags and stores; the logical operations store first.
WithM(c, i, o) == Store(SetF(c, o[2]), i.size, c.mem, o[1])
MWith(c, i, o) == SetF(Store(c, i.size, c.mem, o[1]), o[2])
ArithmeticNext(c, i, Op(_, _, _, _)) ==
    IF Short(i) THEN WithM(Past(c, i.size), i, Op(i.size, m(c, i), Fetch(c, i.size), c.f)) ELSE c
LogicNext(c, i, Op(_, _, _, _), h) ==
    IF Short(i) THEN MWith(Past(c, i.size), i, Op(i.size, m(c, i), Fetch(c, i.size), c.f))
    ELSE SetF(c, (c.f \ {"H", "N", "C"}) \cup h)
srcADDi(c, i) == ArithmeticNext(c, i, GenericADD)
srcADCi(c, i) == ArithmeticNext(c, i, GenericADC)
srcSUBi(c, i) == ArithmeticNext(c, i, GenericSUB)
srcSBCi(c, i) == ArithmeticNext(c, i, GenericSBC)
srcANDi(c, i) == LogicNext(c, i, Anded, {"H"})
srcORi(c, i) == LogicNext(c, i, Ored, {})
srcXORi(c, i) == LogicNext(c, i, Xored, {})
srcCPi(c, i) == IF Short(i) THEN SetF(Past(c, i.size), Compared(i.size, m(c, i), Fetch(c, i.size), c.f)[2]) ELSE c

\* A register that has no double is left alone.
HasDouble(i) == Short(i) /\ get_RR_Target(i) # 128
srcMUL(c, i) == IF HasDouble(i) THEN Multiplied(c, i.size, get_RR_Target(i), m(c, i)) ELSE c
srcMULS(c, i) == IF HasDouble(i) THEN SignMultiplied(c, i.size, get_RR_Target(i), m(c, i)) ELSE c
srcDIV(c, i) == IF HasDouble(i) THEN Divided(c, i.size, get_RR_Target(i), m(c, i)) ELSE c
srcDIVS(c, i) == IF HasDouble(i) THEN SignDivided(c, i.size, get_RR_Target(i), m(c, i)) ELSE c

srcINC(c, i) == IF Short(i) THEN WithM(c, i, Increased(i.size, m(c, i), Count(i), c.f)) ELSE c
srcDEC(c, i) == IF Short(i) THEN WithM(c, i, Decreased(i.size, m(c, i), Count(i), c.f)) ELSE c

\* One position; early are the flags set before the store, and kept those that RL and RR do not clear.
ShiftFlags(c, i, o, kept) == (Logical(i.size, o[1], c.f, FALSE, o[2]) \ kept) \cup (c.f \cap kept)
ShiftStored(c, i, early, v, F) == MWith(SetF(c, (c.f \ early) \cup (F \cap early)), i, <<v, F>>)
Shifted(c, i, early, kept, o) == ShiftStored(c, i, early, o[1], ShiftFlags(c, i, o, kept))
ShiftOnce(c, i, op, early, kept) ==
    IF Short(i) THEN Shifted(c, i, early, kept, Position(op, i.size, m(c, i), "C" \in c.f))
    ELSE SetF(c, c.f \ ({"H", "N"} \ kept))
srcRLC(c, i) == ShiftOnce(c, i, "RLC", {"C"}, {})
srcRRC(c, i) == ShiftOnce(c, i, "RRC", {"C"}, {})
srcRL(c, i) == ShiftOnce(c, i, "RL", {"C"}, {"H", "N"})
srcRR(c, i) == ShiftOnce(c, i, "RR", {"C"}, {"H", "N"})
srcSLA(c, i) == ShiftOnce(c, i, "SLA", {"C", "S"}, {})
srcSRA(c, i) == ShiftOnce(c, i, "SRA", {"C", "S"}, {})
srcSLL(c, i) == ShiftOnce(c, i, "SLL", {"C", "S"}, {})
srcSRL(c, i) == ShiftOnce(c, i, "SRL", {"C", "S"}, {})

\* Rm: the result goes to R.  mR: it goes to memory.
Rm(c, i, Op(_, _, _, _)) == WithR(c, i, Op(i.size, R(c, i), m(c, i), c.f))
mR(c, i, Op(_, _, _, _)) == WithM(c, i, Op(i.size, m(c, i), R(c, i), c.f))
LogicmR(c, i, Op(_, _, _, _)) == MWith(c, i, Op(i.size, m(c, i), R(c, i), c.f))
srcADDRm(c, i) == Rm(c, i, GenericADD)
srcADDmR(c, i) == mR(c, i, GenericADD)
srcADCRm(c, i) == Rm(c, i, GenericADC)
srcADCmR(c, i) == mR(c, i, GenericADC)
srcSUBRm(c, i) == Rm(c, i, GenericSUB)
srcSUBmR(c, i) == mR(c, i, GenericSUB)
srcSBCRm(c, i) == Rm(c, i, GenericSBC)
srcSBCmR(c, i) == mR(c, i, GenericSBC)
srcANDRm(c, i) == Rm(c, i, Anded)
srcANDmR(c, i) == LogicmR(c, i, Anded)
srcXORRm(c, i) == Rm(c, i, Xored)
srcXORmR(c, i) == LogicmR(c, i, Xored)
srcORRm(c, i) == Rm(c, i, Ored)
srcORmR(c, i) == LogicmR(c, i, Ored)
srcCPRm(c, i) == Rm(c, i, Compared)
srcCPmR(c, i) == SetF(c, Compared(i.size, m(c, i), R(c, i), c.f)[2])
=============================================================================
