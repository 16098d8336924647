--------------------------------- MODULE Z80 ---------------------------------
(***************************************************************************)
(* The sound processor: mednafen/hw_cpu/z80-fuse with the memory map and   *)
(* the lines of mednafen/ngp/Z80_interface.c, built with NGP_Z80.  The     *)
(* operators down to DoOpcode are the switches of opcodes_base.c,          *)
(* z80_cb.c, z80_ed.c, z80_ddfd.c and z80_ddfdcb.c: each takes a processor *)
(* that has fetched the opcode and returns the one after it.  An opcode is *)
(* read as its fields x (two bits), y (three) and w (three).  Time is left *)
(* out but for what it decides: `fresh` says that z80_tstates still is     *)
(* interrupts_enabled_at.                                                  *)
(***************************************************************************)
EXTENDS Z80Arithmetic, Sequences

CONSTANTS Fill       \* what the main CPU left in RAM that no program covers

VARIABLE z80

Names == {"A", "B", "C", "D", "E", "H", "L"}
Halves == {"IXH", "IXL", "IYH", "IYL"}
High == [BC |-> "B", DE |-> "D", HL |-> "H", IX |-> "IXH", IY |-> "IYH"]
Low == [BC |-> "C", DE |-> "E", HL |-> "L", IX |-> "IXL", IY |-> "IYL"]

\* Memory: 4 KB of RAM, the byte shared with the main CPU, three outputs of
\* which `out` keeps the last one written by the current instruction.
ReadByte(z, a) == CASE a < 4096 -> (IF a \in DOMAIN z.ram THEN z.ram[a] ELSE Fill)
                    [] a = 32768 -> z.comm
                    [] OTHER -> 0
WriteByte(z, a, v) == CASE a < 4096 -> [z EXCEPT !.ram = Written(@, a, v)]
                        [] a = 32768 -> [z EXCEPT !.comm = v]
                        [] a \in {16384, 16385, 49152} -> [z EXCEPT !.out = a]
                        [] OTHER -> z
\* A write to any port takes the interrupt line back; ports read as 0.
WritePort(z) == [z EXCEPT !.iline = FALSE]

Next16(a) == (a + 1) % 65536
ReadWord(z, a) == ReadByte(z, a) + 256 * ReadByte(z, Next16(a))
WriteWord(z, a, v) == WriteByte(WriteByte(z, a, v % 256), Next16(a), v \div 256)
Pair(z, rr) == IF rr = "SP" THEN z.sp ELSE 256 * z.reg[High[rr]] + z.reg[Low[rr]]
SetPair(z, rr, v) == IF rr = "SP" THEN [z EXCEPT !.sp = v]
                     ELSE [z EXCEPT !.reg[High[rr]] = v \div 256, !.reg[Low[rr]] = v % 256]
Set(z, r, v) == [z EXCEPT !.reg[r] = v]
\* A macro's pair of result and flags, put into a register.
Result(z, r, p) == [z EXCEPT !.reg[r] = p[1], !.f = p[2]]
Flags(z, F) == [z EXCEPT !.f = F]
Carry(z) == IF "C" \in z.f THEN 1 ELSE 0

\* What follows the opcode.
Byte(z) == ReadByte(z, z.pc)
Wide(z) == ReadWord(z, z.pc)
Skip(z, n) == [z EXCEPT !.pc = (@ + n) % 65536]

PUSH16(z, v) == [WriteByte(WriteByte(z, (z.sp - 1) % 65536, v \div 256), (z.sp - 2) % 65536, v % 256)
                   EXCEPT !.sp = (z.sp - 2) % 65536]
Popped(z) == [z EXCEPT !.sp = (@ + 2) % 65536]
RET(z) == [Popped(z) EXCEPT !.pc = ReadWord(z, z.sp)]
JP(z) == [z EXCEPT !.pc = Wide(z)]
JR(z) == Skip(z, SignedByte(Byte(z)) + 1)
CALL(z) == [PUSH16(z, (z.pc + 2) % 65536) EXCEPT !.pc = Wide(z)]
RST(z, a) == [PUSH16(z, z.pc) EXCEPT !.pc = a]
\* LD16_NNRR and LD16_RRNN.
StoreWide(z, rr) == WriteWord(Skip(z, 2), Wide(z), Pair(z, rr))
LoadWide(z, rr) == SetPair(Skip(z, 2), rr, ReadWord(z, Wide(z)))
\* EX (SP),HL and its indexed forms.
Exchange(z, rr) == SetPair(WriteWord(z, z.sp, Pair(z, rr)), rr, ReadWord(z, z.sp))

\* The order of registers, pairs and conditions in the opcodes; 6 is (HL).
Operand == <<"B", "C", "D", "E", "H", "L", "(HL)", "A">>
WordOf(y) == <<"BC", "DE", "HL", "SP">>[y \div 2 + 1]
Get(z, n) == IF n = 6 THEN ReadByte(z, Pair(z, "HL")) ELSE z.reg[Operand[n + 1]]
Put(z, n, v) == IF n = 6 THEN WriteByte(z, Pair(z, "HL"), v) ELSE Set(z, Operand[n + 1], v)
PutResult(z, n, p) == [Put(z, n, p[1]) EXCEPT !.f = p[2]]
Holds(z, y) == (<<"Z", "C", "P", "S">>[y \div 2 + 1] \in z.f) <=> (y % 2 = 1)

-----------------------------------------------------------------------------
\* opcodes_base.c
Added(z, y, v) == CASE y = 0 -> ADD(z.reg.A, v) [] y = 1 -> ADC(z.reg.A, v, Carry(z))
                    [] y = 2 -> SUB(z.reg.A, v) [] y = 3 -> SBC(z.reg.A, v, Carry(z))
Logic(z, y, v) == CASE y = 4 -> AND(z.reg.A, v) [] y = 5 -> XOR(z.reg.A, v)
                    [] y = 6 -> OR(z.reg.A, v)  [] y = 7 -> CP(z.reg.A, v)
Alu(z, y, v) == Result(z, "A", IF y < 4 THEN Added(z, y, v) ELSE Logic(z, y, v))

\* RLCA, RRCA, RLA and RRA keep S, Z and P.
RotateA(z, p) == Result(z, "A", <<p[1], (z.f \cap {"S", "Z", "P"}) \cup (p[2] \cap {"C", "X", "Y"})>>)
KeepSZP(z) == (z.f \cap {"S", "Z", "P"}) \cup (FSet(z.reg.A) \cap {"X", "Y"})

\* The columns that are alike in the rows 0x to 3x.
Column(z, y, w) ==
    LET rr == WordOf(y)
    IN  CASE w = 1 /\ y % 2 = 0 -> SetPair(Skip(z, 2), rr, Wide(z))
          [] w = 1 -> LET p == ADD16(Pair(z, "HL"), Pair(z, rr), z.f) IN Flags(SetPair(z, "HL", p[1]), p[2])
          [] w = 3 /\ y % 2 = 0 -> SetPair(z, rr, Next16(Pair(z, rr)))
          [] w = 3 -> SetPair(z, rr, (Pair(z, rr) - 1) % 65536)
          [] w = 4 -> PutResult(z, y, INC(Get(z, y), z.f))
          [] w = 5 -> PutResult(z, y, DEC(Get(z, y), z.f))
          [] w = 6 -> Put(Skip(z, 1), y, Byte(z))

Row0(z, op) == CASE op = 0 -> z
                 [] op = 2 -> WriteByte(z, Pair(z, "BC"), z.reg.A)
                 [] op = 7 -> RotateA(z, RLC(z.reg.A))
                 [] op = 8 -> [z EXCEPT !.reg.A = z.alt.A, !.alt.A = z.reg.A, !.f = z.altf, !.altf = z.f]
                 [] op = 10 -> Set(z, "A", ReadByte(z, Pair(z, "BC")))
                 [] op = 15 -> RotateA(z, RRC(z.reg.A))
                 [] OTHER -> Column(z, op \div 8, op % 8)

Row1(z, op) == CASE op = 16 -> LET d == Set(z, "B", (z.reg.B - 1) % 256)     \* DJNZ
                               IN  IF d.reg.B # 0 THEN JR(d) ELSE Skip(d, 1)
                 [] op = 18 -> WriteByte(z, Pair(z, "DE"), z.reg.A)
                 [] op = 23 -> RotateA(z, RL(z.reg.A, Carry(z)))
                 [] op = 24 -> JR(z)
                 [] op = 26 -> Set(z, "A", ReadByte(z, Pair(z, "DE")))
                 [] op = 31 -> RotateA(z, RR(z.reg.A, Carry(z)))
                 [] OTHER -> Column(z, op \div 8, op % 8)

Row2(z, op) == CASE op \in {32, 40} -> IF Holds(z, op \div 8 - 4) THEN JR(z) ELSE Skip(z, 1)
                 [] op = 34 -> StoreWide(z, "HL")
                 [] op = 39 -> Result(z, "A", DAA(z.reg.A, z.f))
                 [] op = 42 -> LoadWide(z, "HL")
                 [] op = 47 -> LET a == 255 - z.reg.A                         \* CPL
                               IN  Result(z, "A", <<a, (z.f \cap {"C", "P", "Z", "S"}) \cup (FSet(a) \cap {"X", "Y"}) \cup {"N", "H"}>>)
                 [] OTHER -> Column(z, op \div 8, op % 8)

Row3(z, op) == CASE op \in {48, 56} -> IF Holds(z, op \div 8 - 4) THEN JR(z) ELSE Skip(z, 1)
                 [] op = 50 -> WriteByte(Skip(z, 2), Wide(z), z.reg.A)
                 [] op = 55 -> Flags(z, KeepSZP(z) \cup {"C"})
                 [] op = 58 -> Set(Skip(z, 2), "A", ReadByte(z, Wide(z)))
                 [] op = 63 -> Flags(z, KeepSZP(z) \cup (IF "C" \in z.f THEN {"H"} ELSE {"C"}))
                 [] OTHER -> Column(z, op \div 8, op % 8)

LoadRegister(z, y, w) == Put(z, y, Get(z, w))
HALT(z) == [z EXCEPT !.halted = TRUE, !.pc = (@ - 1) % 65536]
Accumulate(z, y, w) == Alu(z, y, Get(z, w))

\* The columns that are alike in the rows Cx to Fx.
Branch(z, y, w) ==
    CASE w = 0 -> IF Holds(z, y) THEN RET(z) ELSE z
      [] w = 1 -> SetPair(Popped(z), WordOf(y), ReadWord(z, z.sp))
      [] w = 2 -> IF Holds(z, y) THEN JP(z) ELSE Skip(z, 2)
      [] w = 4 -> IF Holds(z, y) THEN CALL(z) ELSE Skip(z, 2)
      [] w = 5 -> PUSH16(z, Pair(z, WordOf(y)))
      [] w = 6 -> Alu(Skip(z, 1), y, Byte(z))
      [] w = 7 -> RST(z, 8 * y)

-----------------------------------------------------------------------------
\* z80_cb.c
Rotate(y, v, c) == CASE y = 0 -> RLC(v) [] y = 1 -> RRC(v) [] y = 2 -> RL(v, c) [] y = 3 -> RR(v, c)
Shift(y, v) == CASE y = 4 -> SLA(v) [] y = 5 -> SRA(v) [] y = 6 -> SLL(v) [] y = 7 -> SRL(v)
RES(n, v) == IF BitOf(v, n) = 1 THEN v - 2^n ELSE v
SET(n, v) == IF BitOf(v, n) = 0 THEN v + 2^n ELSE v

CBRotate(z, y, w) == PutResult(z, w, Rotate(y, Get(z, w), Carry(z)))
CBShift(z, y, w) == PutResult(z, w, Shift(y, Get(z, w)))
CBBit(z, y, w) == Flags(z, BIT(y, Get(z, w), z.f, Get(z, w)))
CBRes(z, y, w) == Put(z, w, RES(y, Get(z, w)))
CBSet(z, y, w) == Put(z, w, SET(y, Get(z, w)))
CB(z, op) == LET y == (op \div 8) % 8
                 w == op % 8
             IN  CASE op < 32 -> CBRotate(z, y, w)
                   [] op \in 32..63 -> CBShift(z, y, w)
                   [] op \in 64..127 -> CBBit(z, y, w)
                   [] op \in 128..191 -> CBRes(z, y, w)
                   [] op > 191 -> CBSet(z, y, w)

-----------------------------------------------------------------------------
\* z80_ed.c; s is 1 for the instructions that count up, -1 for those that count down.
EDPort(z, y, w) ==
    LET in == Flags(z, (z.f \cap {"C"}) \cup SZ53P(0))        \* every port reads as 0
    IN  CASE w = 1 -> WritePort(z)
          [] y = 6 -> in
          [] OTHER -> Set(in, Operand[y + 1], 0)
EDWide(z, y, w) ==
    LET rr == WordOf(y)
        p  == IF y % 2 = 1 THEN ADC16(Pair(z, "HL"), Pair(z, rr), Carry(z)) ELSE SBC16(Pair(z, "HL"), Pair(z, rr), Carry(z))
    IN  CASE w = 2 -> Flags(SetPair(z, "HL", p[1]), p[2])
          [] w = 3 -> IF y % 2 = 1 THEN LoadWide(z, rr) ELSE StoreWide(z, rr)

NEG(z) == Result(z, "A", SUB(0, z.reg.A))
\* Fault: the interrupts stay as the NMI left them.
RETNUnrestored(z) == RET(z)
RETN(z) == RET([z EXCEPT !.iff1 = z.iff2])
InterruptMode(z, y) == [z EXCEPT !.im = IF y \in {2, 6} THEN 1 ELSE IF y \in {3, 7} THEN 2 ELSE 0]
\* LD A,I and LD A,R show IFF2 in P.
LoadSpecial(z, v) == Result(z, "A", <<v, (z.f \cap {"C"}) \cup SZ53(v) \cup Only(z.iff2, "P")>>)
RRD(z) == LET a == z.reg.A
              m == ReadByte(z, Pair(z, "HL"))
              r == (a - (a % 16)) + (m % 16)
          IN  Result(WriteByte(z, Pair(z, "HL"), 16 * (a % 16) + m \div 16), "A", <<r, (z.f \cap {"C"}) \cup SZ53P(r)>>)
RLD(z) == LET a == z.reg.A
              m == ReadByte(z, Pair(z, "HL"))
              r == (a - (a % 16)) + m \div 16
          IN  Result(WriteByte(z, Pair(z, "HL"), 16 * (m % 16) + (a % 16)), "A", <<r, (z.f \cap {"C"}) \cup SZ53P(r)>>)
EDSpecial(z, op) == CASE op = 71 -> [z EXCEPT !.i = z.reg.A]
                      [] op = 79 -> [z EXCEPT !.r = z.reg.A % 128, !.r7 = z.reg.A]
                      [] op = 87 -> LoadSpecial(z, z.i)
                      [] op = 95 -> LoadSpecial(z, z.r + 128 * (z.r7 \div 128))
                      [] op = 103 -> RRD(z)
                      [] op = 111 -> RLD(z)
                      [] OTHER -> z

Move(z, rr, s) == SetPair(z, rr, (Pair(z, rr) + s) % 65536)
Again(z, c) == IF c THEN [z EXCEPT !.pc = (@ - 2) % 65536] ELSE z
LDI(z, s) ==
    LET v    == ReadByte(z, Pair(z, "HL"))
        t    == (v + z.reg.A) % 256
        left == (Pair(z, "BC") - 1) % 65536
    IN  Flags(Move(Move(SetPair(WriteByte(z, Pair(z, "DE"), v), "BC", left), "DE", s), "HL", s),
              (z.f \cap {"C", "Z", "S"}) \cup Only(left # 0, "P") \cup (FSet(t) \cap {"X"}) \cup Only(BitOf(t, 1) = 1, "Y"))
LDIR(z, s) == LET n == LDI(z, s) IN Again(n, Pair(n, "BC") # 0)
CPI(z, s) ==
    LET v    == ReadByte(z, Pair(z, "HL"))
        t    == (z.reg.A - v) % 256
        left == (Pair(z, "BC") - 1) % 65536
        half == Lookup(z.reg.A, v, t, 3) \in HalfcarrySub
        u    == IF half THEN (t - 1) % 256 ELSE t
    IN  Flags(Move(SetPair(z, "BC", left), "HL", s),
              (z.f \cap {"C"}) \cup {"N"} \cup Only(left # 0, "P") \cup Only(half, "H") \cup (SZ53(t) \cap {"Z", "S"})
                \cup (FSet(u) \cap {"X"}) \cup Only(BitOf(u, 1) = 1, "Y"))
CPIR(z, s) == LET n == CPI(z, s) IN Again(n, "P" \in n.f /\ "Z" \notin n.f)
\* v is the byte that went in or out, t what the flags are made from, b the new B.
BlockFlags(v, t, b) == Only(v > 127, "N") \cup (IF t < v THEN {"H", "C"} ELSE {}) \cup Parity(Xor(t % 8, b)) \cup SZ53(b)
INI(z, s) ==
    LET b == (z.reg.B - 1) % 256
    IN  Flags(Move(Set(WriteByte(z, Pair(z, "HL"), 0), "B", b), "HL", s), BlockFlags(0, (z.reg.C + s) % 256, b))
INIR(z, s) == LET n == INI(z, s) IN Again(n, n.reg.B # 0)
OUTI(z, s) ==
    LET v == ReadByte(z, Pair(z, "HL"))
        b == (z.reg.B - 1) % 256
        n == Move(Set(WritePort(z), "B", b), "HL", s)
    IN  Flags(n, BlockFlags(v, (v + n.reg.L) % 256, b))
OTIR(z, s) == LET n == OUTI(z, s) IN Again(n, n.reg.B # 0)

ED(z, op) ==
    LET y == (op \div 8) % 8
        w == op % 8
        s == IF y % 2 = 0 THEN 1 ELSE -1
    IN  CASE op \in 64..127 /\ w < 2 -> EDPort(z, y, w)
          [] op \in 64..127 /\ w \in 2..3 -> EDWide(z, y, w)
          [] op \in 64..127 /\ w = 4 -> NEG(z)
          [] op \in 64..127 /\ w = 5 -> RETN(z)
          [] op \in 64..127 /\ w = 6 -> InterruptMode(z, y)
          [] op \in 64..127 /\ w = 7 -> EDSpecial(z, op)
          [] op \in {160, 168} -> LDI(z, s)  [] op \in {161, 169} -> CPI(z, s)
          [] op \in {162, 170} -> INI(z, s)  [] op \in {163, 171} -> OUTI(z, s)
          [] op \in {176, 184} -> LDIR(z, s) [] op \in {177, 185} -> CPIR(z, s)
          [] op \in {178, 186} -> INIR(z, s) [] op \in {179, 187} -> OTIR(z, s)
          [] OTHER -> z

-----------------------------------------------------------------------------
\* z80_ddfd.c with REGISTER = ix, which is "IX" or "IY".
\* Fault: the displacement taken as unsigned.
IndexedUnsigned(z, ix) == (Pair(z, ix) + Byte(z)) % 65536
Indexed(z, ix) == (Pair(z, ix) + SignedByte(Byte(z))) % 65536
Half(ix, w) == IF w = 4 THEN High[ix] ELSE Low[ix]
IndexWord(z, ix, op) ==
    CASE op \in {9, 25, 41, 57} -> LET rr == IF op = 41 THEN ix ELSE WordOf(op \div 8)
                                       p  == ADD16(Pair(z, ix), Pair(z, rr), z.f)
                                   IN  Flags(SetPair(z, ix, p[1]), p[2])
      [] op = 33 -> SetPair(Skip(z, 2), ix, Wide(z))
      [] op = 34 -> StoreWide(z, ix)
      [] op = 35 -> SetPair(z, ix, Next16(Pair(z, ix)))
      [] op = 42 -> LoadWide(z, ix)
      [] op = 43 -> SetPair(z, ix, (Pair(z, ix) - 1) % 65536)
      [] op \in {36, 44} -> Result(z, Half(ix, op \div 8), INC(z.reg[Half(ix, op \div 8)], z.f))
      [] op \in {37, 45} -> Result(z, Half(ix, op \div 8), DEC(z.reg[Half(ix, op \div 8)], z.f))
      [] op \in {38, 46} -> Set(Skip(z, 1), Half(ix, op \div 8), Byte(z))
      [] op = 52 -> LET p == INC(ReadByte(z, Indexed(z, ix)), z.f) IN Flags(WriteByte(Skip(z, 1), Indexed(z, ix), p[1]), p[2])
      [] op = 53 -> LET p == DEC(ReadByte(z, Indexed(z, ix)), z.f) IN Flags(WriteByte(Skip(z, 1), Indexed(z, ix), p[1]), p[2])
      [] op = 54 -> WriteByte(Skip(z, 2), Indexed(z, ix), ReadByte(z, Next16(z.pc)))

\* LD r,IXH, LD r,IXL and LD r,(IX+d) for the registers other than H and L.
IndexLoad(z, ix, y, w) == IF w = 6 THEN Set(Skip(z, 1), Operand[y + 1], ReadByte(z, Indexed(z, ix)))
                          ELSE Set(z, Operand[y + 1], z.reg[Half(ix, w)])
\* The rows 6x: IXH and IXL take registers and each other, H and L take memory.
IndexHalves(z, ix, y, w) == CASE w = 6 -> Set(Skip(z, 1), Operand[y + 1], ReadByte(z, Indexed(z, ix)))
                              [] w \in {4, 5} -> Set(z, Half(ix, y), z.reg[Half(ix, w)])
                              [] OTHER -> Set(z, Half(ix, y), z.reg[Operand[w + 1]])
IndexStore(z, ix, w) == WriteByte(Skip(z, 1), Indexed(z, ix), z.reg[Operand[w + 1]])
IndexAlu(z, ix, y, w) == IF w = 6 THEN Alu(Skip(z, 1), y, ReadByte(z, Indexed(z, ix)))
                         ELSE Alu(z, y, z.reg[Half(ix, w)])
IndexStack(z, ix, op) == CASE op = 225 -> SetPair(Popped(z), ix, ReadWord(z, z.sp))
                           [] op = 227 -> Exchange(z, ix)
                           [] op = 229 -> PUSH16(z, Pair(z, ix))
                           [] op = 233 -> [z EXCEPT !.pc = Pair(z, ix)]
                           [] op = 249 -> [z EXCEPT !.sp = Pair(z, ix)]
\* An opcode that has nothing to do with HL is left to the next fetch.
Reparse(z) == [z EXCEPT !.pc = (@ - 1) % 65536, !.r = (@ - 1) % 128]

\* z80_ddfdcb.c: the result goes to memory and to a register as well.
IndexedResult(z, a, w, p) == LET m == [WriteByte(z, a, p[1]) EXCEPT !.f = p[2]]
                             IN  IF w = 6 THEN m ELSE Set(m, Operand[w + 1], p[1])
IndexedRotate(z, a, y, w) == IndexedResult(z, a, w, IF y = 0 THEN RLC(ReadByte(z, a)) ELSE RRC(ReadByte(z, a)))
IndexedRotateCarry(z, a, y, w) == IndexedResult(z, a, w, IF y = 2 THEN RL(ReadByte(z, a), Carry(z)) ELSE RR(ReadByte(z, a), Carry(z)))
IndexedShiftArithmetic(z, a, y, w) == IndexedResult(z, a, w, IF y = 4 THEN SLA(ReadByte(z, a)) ELSE SRA(ReadByte(z, a)))
IndexedShiftLogical(z, a, y, w) == IndexedResult(z, a, w, IF y = 6 THEN SLL(ReadByte(z, a)) ELSE SRL(ReadByte(z, a)))
IndexedBit(z, a, y) == Flags(z, BIT(y, ReadByte(z, a), z.f, a \div 256))
IndexedRes(z, a, y, w) == IndexedResult(z, a, w, <<RES(y, ReadByte(z, a)), z.f>>)
IndexedSet(z, a, y, w) == IndexedResult(z, a, w, <<SET(y, ReadByte(z, a)), z.f>>)
IndexedCB(z, a, op) ==
    LET y == (op \div 8) % 8
        w == op % 8
    IN  CASE op < 16 -> IndexedRotate(z, a, y, w)
          [] op \in 16..31 -> IndexedRotateCarry(z, a, y, w)
          [] op \in 32..47 -> IndexedShiftArithmetic(z, a, y, w)
          [] op \in 48..63 -> IndexedShiftLogical(z, a, y, w)
          [] op \in 64..127 -> IndexedBit(z, a, y)
          [] op \in 128..191 -> IndexedRes(z, a, y, w)
          [] op > 191 -> IndexedSet(z, a, y, w)

DDFD(z, ix, op) ==
    LET y == (op \div 8) % 8
        w == op % 8
    IN  CASE op \in {9, 25, 41, 57, 33, 34, 35, 36, 37, 38, 42, 43, 44, 45, 46, 52, 53, 54} -> IndexWord(z, ix, op)
          [] op \in 64..127 /\ y \in {0, 1, 2, 3, 7} /\ w \in 4..6 -> IndexLoad(z, ix, y, w)
          [] op \in 96..111 -> IndexHalves(z, ix, y, w)
          [] op \in 112..119 \ {118} -> IndexStore(z, ix, w)
          [] op \in 128..191 /\ w \in 4..6 -> IndexAlu(z, ix, y, w)
          [] op = 203 -> IndexedCB(Skip(z, 2), Indexed(z, ix), ReadByte(z, Next16(z.pc)))
          [] op \in {225, 227, 229, 233, 249} -> IndexStack(z, ix, op)
          [] OTHER -> Reparse(z)

-----------------------------------------------------------------------------
\* The rows Cx to Fx of opcodes_base.c, and the prefixes.
Fetched(z) == [Skip(z, 1) EXCEPT !.r = (@ + 1) % 128]
RowC(z, op) == CASE op = 195 -> JP(z)
                 [] op = 201 -> RET(z)
                 [] op = 203 -> CB(Fetched(z), Byte(z))
                 [] op = 205 -> CALL(z)
                 [] OTHER -> Branch(z, (op \div 8) % 8, op % 8)
RowD(z, op) == CASE op = 211 -> WritePort(Skip(z, 1))
                 [] op = 217 -> LET swap == {"B", "C", "D", "E", "H", "L"}                \* EXX
                                IN  [z EXCEPT !.reg = Over([r \in swap |-> z.alt[r]], @), !.alt = Over([r \in swap |-> z.reg[r]], @)]
                 [] op = 219 -> Set(Skip(z, 1), "A", 0)
                 [] op = 221 -> DDFD(Fetched(z), "IX", Byte(z))
                 [] OTHER -> Branch(z, (op \div 8) % 8, op % 8)
RowE(z, op) == CASE op = 227 -> Exchange(z, "HL")
                 [] op = 233 -> [z EXCEPT !.pc = Pair(z, "HL")]
                 [] op = 235 -> SetPair(SetPair(z, "DE", Pair(z, "HL")), "HL", Pair(z, "DE"))
                 [] op = 237 -> ED(Fetched(z), Byte(z))
                 [] OTHER -> Branch(z, (op \div 8) % 8, op % 8)
EI(z) == [z EXCEPT !.iff1 = TRUE, !.iff2 = TRUE, !.fresh = TRUE]
RowF(z, op) == CASE op = 241 -> LET v == ReadWord(z, z.sp)
                                IN  Result(Popped(z), "A", <<v \div 256, FSet(v % 256)>>)
                 [] op = 243 -> [z EXCEPT !.iff1 = FALSE, !.iff2 = FALSE]
                 [] op = 245 -> PUSH16(z, 256 * z.reg.A + FByte(z.f))
                 [] op = 249 -> [z EXCEPT !.sp = Pair(z, "HL")]
                 [] op = 251 -> EI(z)
                 [] op = 253 -> DDFD(Fetched(z), "IY", Byte(z))
                 [] OTHER -> Branch(z, (op \div 8) % 8, op % 8)

Execute(z, op) ==
    CASE op < 16 -> Row0(z, op)
      [] op \in 16..31 -> Row1(z, op)
      [] op \in 32..47 -> Row2(z, op)
      [] op \in 48..63 -> Row3(z, op)
      [] op = 118 -> HALT(z)
      [] op \in 64..127 \ {118} -> LoadRegister(z, (op \div 8) % 8, op % 8)
      [] op \in 128..191 -> Accumulate(z, (op \div 8) % 8, op % 8)
      [] op \in 192..207 -> RowC(z, op)
      [] op \in 208..223 -> RowD(z, op)
      [] op \in 224..239 -> RowE(z, op)
      [] op > 239 -> RowF(z, op)

\* z80_interrupt() and z80_nmi(): HALT stays on its own opcode until one of them steps over it.
Woken(z) == IF z.halted THEN [Skip(z, 1) EXCEPT !.halted = FALSE] ELSE z
Accepts(z) == z.iline /\ z.iff1 /\ ~z.fresh
Interrupt(z) == LET s == PUSH16(Woken(z), Woken(z).pc)
                IN  [s EXCEPT !.iff1 = FALSE, !.iff2 = FALSE, !.r = (@ + 1) % 128,
                              !.pc = IF z.im = 2 THEN ReadWord(s, (256 * z.i + 255) % 65536) ELSE 56]
NMI(z) == [PUSH16(Woken(z), Woken(z).pc) EXCEPT !.iff1 = FALSE, !.fresh = FALSE, !.pc = 102]

\* z80_do_opcode()
DoOpcode(z) == LET q == [z EXCEPT !.fresh = FALSE, !.out = 0]
               IN  IF Accepts(z) THEN Interrupt(q) ELSE Execute(Fetched(q), Byte(q))

\* z80_reset() leaves memory, the shared byte and the interrupt line alone.
Zeroed(z) == [z EXCEPT !.reg = [r \in Names \cup Halves |-> 0], !.f = {}, !.alt = [r \in Names |-> 0], !.altf = {},
                       !.sp = 0, !.pc = 0, !.i = 0, !.r = 0, !.r7 = 0, !.iff1 = FALSE, !.iff2 = FALSE, !.im = 0,
                       !.halted = FALSE, !.fresh = TRUE, !.out = 0]

-----------------------------------------------------------------------------
\* What the emulator does with the processor (Z80_interface.c).
IRQ == ~z80.iline /\ z80' = [z80 EXCEPT !.iline = TRUE]
RaiseNMI == z80' = NMI(z80)

\* Registers, flags, control bits and memory of the sound processor have their widths.
Registers == [Names \cup Halves -> Octet]
Alternates == [Names -> Octet]
FlagSets == SUBSET Flag
Address == 0..65535
Counts == 0..127
Modes == 0..2
Outputs == {0, 16384, 16385, 49152}
OctetsIn(ram) == DOMAIN ram \subseteq 0..4095 /\ ram \in [DOMAIN ram -> Octet]
Typed(z) ==
    /\ z \in [reg : Registers, f : FlagSets, alt : Alternates, altf : FlagSets, sp : Address, pc : Address,
              i : Octet, r : Counts, r7 : Octet, iff1 : BOOLEAN, iff2 : BOOLEAN, im : Modes, halted : BOOLEAN,
              fresh : BOOLEAN, out : Outputs, ram : {z.ram}, comm : Octet, enabled : BOOLEAN, iline : BOOLEAN]
    /\ OctetsIn(z.ram)
=============================================================================
