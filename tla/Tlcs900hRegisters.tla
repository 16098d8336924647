------------------------- MODULE Tlcs900hRegisters --------------------------
(***************************************************************************)
(* What the instructions of the main processor work on: the registers and  *)
(* their codes (TLCS900h_registers.c), the stack and the bytes that follow *)
(* an opcode (TLCS900h_interpret.c), memory as far as a program that runs  *)
(* in RAM or ROM sees it (mem.c), and the interrupts that a store or a     *)
(* change of SR may take in the middle of an instruction (interrupt.c).    *)
(* A processor is a record:                                                *)
(*   regs  the four banks of XWA, XBC, XDE, XHL (0 to 15), XIX, XIY, XIZ,  *)
(*         XSP (16 to 19) and rErr (20), which bad register codes name;    *)
(*   pc; sh, the upper half of sr; f, the flags in its lower half; fdash;  *)
(*   mem   the address that the last addressing mode left behind;          *)
(*   ram   bytes of memory, 0 where it has none;                           *)
(*   ipending, prio (IntPrio); dma, the registers of the micro-DMA;        *)
(*   bus   what the current instruction wrote for the sound processor.     *)
(***************************************************************************)
EXTENDS Tlcs900hArithmetic, Sequences

FlagWeight == [C |-> 0, N |-> 1, V |-> 2, X |-> 3, H |-> 4, Y |-> 5, Z |-> 6, S |-> 7]
SRFlag == DOMAIN FlagWeight
StatusByte(F) == LET Add(g) == IF g \in F THEN 2^FlagWeight[g] ELSE 0
                 IN  Add("C") + Add("N") + Add("V") + Add("X") + Add("H") + Add("Y") + Add("Z") + Add("S")
StatusFlags(v) == {g \in SRFlag : BitOf(v, FlagWeight[g]) = 1}

\* statusRFP, the register bank in use, and the interrupt level with 1 read as 0.
statusRFP(c) == c.sh % 4
statusIFF(c) == LET iff == (c.sh \div 16) % 8 IN IF iff = 1 THEN 0 ELSE iff

XSP == 19
rErr == 20
\* The register that a code names: the bank before bank 0 does not exist.
Place(c, code) == CASE code < 64 -> code \div 4
                    [] code \in 64..207 -> rErr
                    [] code \in 208..223 -> IF statusRFP(c) = 0 THEN rErr
                                            ELSE 4 * (statusRFP(c) - 1) + (code % 16) \div 4
                    [] code \in 224..239 -> 4 * statusRFP(c) + (code % 16) \div 4
                    [] code > 239 -> 16 + (code % 16) \div 4
\* Where in the register the byte or word begins.
ByteLane(code) == <<1, 256, 65536, 16777216>>[(code % 4) + 1]
WordLane(code) == <<1, 65536>>[((code % 4) \div 2) + 1]
Lane(place, s, code) == IF place = rErr \/ s = 2 THEN 1 ELSE IF s = 0 THEN ByteLane(code) ELSE WordLane(code)

\* rCodeB, rCodeW and rCodeL.
rCode(c, s, code) == LET Part(place) == (c.regs[place] \div Lane(place, s, code)) % Mod(s)
                     IN  Part(Place(c, code))
SetCode(c, s, code, v) ==
    LET With(x, unit) == x + unit * ((v % (Mod(2) \div unit)) - ((x \div unit) % Mod(s)))
        Into(place) == [c EXCEPT !.regs[place] = With(@, Lane(place, s, code))]
    IN  Into(Place(c, code))
\* regB, regW and regL: registers 0 to 7 of the current bank.
Code(s, r) == IF s = 0 THEN 224 + 4 * (r \div 2) + 1 - (r % 2) ELSE 224 + 4 * r
reg(c, s, r) == rCode(c, s, Code(s, r))
SetReg(c, s, r, v) == SetCode(c, s, Code(s, r), v)

REGA(c) == reg(c, 0, 1)
REGBC(c) == reg(c, 1, 1)
SetA(c, v) == SetReg(c, 0, 1, v)
SetF(c, F) == [c EXCEPT !.f = F]

-----------------------------------------------------------------------------
\* interrupt.c; the sources 5 to 12 have a priority each, in nibbles of IntPrio.
Address(a) == a % 16777216
Width(s) == <<1, 2, 4>>[s + 1]
RAM == 16384..32767
\* The lower of the two sources that share a priority register.
Sources == {113, 115, 116, 119}
Source(a) == CASE a = 113 -> 5 [] a = 115 -> 7 [] a = 116 -> 9 [] a = 119 -> 11
int_read8(c, n) == (IF n \in c.ipending THEN 8 ELSE 0) + (IF n + 1 \in c.ipending THEN 128 ELSE 0)
ByteAt(c, a) == CASE a \in DOMAIN c.ram -> c.ram[a]
                  [] a \in Sources -> int_read8(c, Source(a))
                  [] OTHER -> 0
loadB(c, addr) == ByteAt(c, Address(addr))
\* load of s bytes, words or longs; a long does not have to be aligned.
Load(c, s, a) ==
    LET Number(b) == CASE s = 0 -> b[0]
                       [] s = 1 -> b[0] + 256 * b[1]
                       [] s = 2 -> b[0] + 256 * b[1] + 65536 * ((b[2] + 256 * b[3]) % LongHigh)
    IN  Number([k \in 0..(Width(s) - 1) |-> loadB(c, a + k)])

\* A value of any size is taken apart into its bytes.
NthByte(v, k) == (v \div 256^k) % 256
Raw(c, a, v) == IF a \in RAM THEN [c EXCEPT !.ram = Written(@, a, v)] ELSE c
\* The words of the stack go to RAM, where a store can have no other effect.
PushRaw(c, s, v) ==
    LET sp    == Wrap(2, c.regs[XSP] - Width(s))
        Byte(d, k) == IF k < Width(s) THEN Raw(d, Address(sp + k), NthByte(v, k)) ELSE d
    IN  Byte(Byte(Byte(Byte([c EXCEPT !.regs[XSP] = sp], 0), 1), 2), 3)
setStatusIFF(c, iff) == [c EXCEPT !.sh = (@ - 16 * ((@ \div 16) % 8)) + 16 * (iff % 8)]
interrupt(c, index, level) ==
    [setStatusIFF(PushRaw(PushRaw(c, 2, c.pc), 1, 256 * c.sh + StatusByte(c.f)),
                  IF level < 7 THEN level + 1 ELSE 7) EXCEPT !.pc = Load(c, 2, 28600 + 4 * index)]
Priority(c, n) == LET b == c.prio[<<1, 1, 3, 3, 4, 4, 7, 7>>[n - 4]]
                  IN  IF n % 2 = 1 THEN b % 8 ELSE (b \div 16) % 8
Deliverable(c) == {n \in c.ipending \cap 5..12 : Priority(c, n) \notin {0, 7} /\ statusIFF(c) <= Priority(c, n)}
Serve(c, n) == interrupt([c EXCEPT !.ipending = @ \ {n}], n, Priority(c, n))
FirstOf(c, D) == IF D = {} THEN c ELSE Serve(c, CHOOSE k \in D : \A j \in D : k <= j)
int_check_pending(c) == FirstOf(c, Deliverable(c))
set_interrupt(c, n) == int_check_pending([c EXCEPT !.ipending = @ \cup {n}])
PrioritySet(c, a, v) == IF a \in 112..122 THEN int_check_pending([c EXCEPT !.prio[a - 112] = v]) ELSE c
\* A write to a priority register first takes back the requests whose bit is 0.
int_write8(c, a, v) ==
    LET gone == IF a \notin Sources THEN {}
                ELSE Only(BitOf(v, 3) = 0, Source(a)) \cup Only(BitOf(v, 7) = 0, Source(a) + 1)
    IN  PrioritySet([c EXCEPT !.ipending = @ \ gone], a, v)

StoredAt(c, a, v) == CASE a \in 112..127 -> int_write8(c, a, v)
                       [] a \in {185, 186, 188} -> [c EXCEPT !.bus = Append(@, <<a, v>>)]
                       [] OTHER -> Raw(c, a, v)
storeB(c, addr, v) == StoredAt(c, Address(addr), v)
\* Store s; wider values are stored byte by byte from the lowest.
Store(c, s, a, v) ==
    LET Byte(d, k) == IF k < Width(s) THEN storeB(d, a + k, NthByte(v, k)) ELSE d
    IN  Byte(Byte(Byte(Byte(c, 0), 1), 2), 3)

changedSP(c) == int_check_pending(c)
setStatusRFP(c, rfp) == changedSP([c EXCEPT !.sh = (@ - (@ % 8)) + (rfp % 4)])
SetSR(c, sr) == changedSP([c EXCEPT !.sh = sr \div 256, !.f = StatusFlags(sr % 256)])

-----------------------------------------------------------------------------
\* TLCS900h_interpret.c: the stack, and what follows an opcode.
Push(c, s, v) == LET sp == Wrap(2, c.regs[XSP] - Width(s)) IN Store([c EXCEPT !.regs[XSP] = sp], s, sp, v)
\* Pop is Top followed by Dropped.
Top(c, s) == Load(c, s, c.regs[XSP])
Dropped(c, s) == [c EXCEPT !.regs[XSP] = Wrap(2, @ + Width(s))]
Fetch(c, s) == Load(c, s, c.pc)
Past(c, s) == [c EXCEPT !.pc = (@ + Width(s)) % Mod(2)]
fetch24(c) == Load(c, 1, c.pc) + 65536 * loadB(c, c.pc + 2)
\* pc plus a signed displacement.
Jump(c, s, d) == [c EXCEPT !.pc = (@ + Signed(s, d)) % Mod(2)]

\* The double-width operand of MUL and DIV; 128 is a code that names no register.
get_rr_Target(i) == IF i.size = 0 /\ i.first = 199 THEN i.code
                    ELSE IF i.size = 1 THEN 224 + 4 * (i.first % 8)
                    ELSE IF i.size = 0 /\ i.first % 2 = 1 THEN 224 + 4 * ((i.first % 8) \div 2) ELSE 128
get_RR_Target(i) == IF i.size = 1 THEN 224 + 4 * i.R
                    ELSE IF i.size = 0 /\ i.R % 2 = 1 THEN 224 + 4 * (i.R \div 2) ELSE 128

reset_registers(startPC) ==
    [regs |-> [k \in 0..20 |-> CASE k = 16 -> 16720835 % Mod(2) [] k = 17 -> 16720863 % Mod(2) [] k = 18 -> 25728
                                 [] k = XSP -> 27648 [] OTHER -> 0],
     pc |-> startPC, sh |-> 248, f |-> {}, fdash |-> 0]
=============================================================================
