----------------------------- MODULE Processors -----------------------------
(***************************************************************************)
(* Both processors as Emulate() runs them (libretro.c): an instruction of  *)
(* the main one, what the timers ask for, then as many instructions of the *)
(* Z80 as its share of the time allows.  The shares are not modelled: any  *)
(* order of instructions may come, and requests between any two.  The two  *)
(* share 4 KB of RAM (0x7000 here, 0 there), a byte (0xBC, 0x8000), an     *)
(* interrupt each way and the enable register.  The sound RAM is kept in   *)
(* z80.ram and shown to the main processor while it executes.              *)
(***************************************************************************)
EXTENDS Tlcs900h

CONSTANTS Fill,      \* the sound RAM that no program covers
          Scenes     \* what the two start with: cpu, z80, left and goal

VARIABLES z80,
          left,      \* the requests still to come: irqs and nmis of the Z80, raises of the main processor
          goal,      \* what the programs are for (never changes)
          turn       \* which processor had its turn last

vars == <<cpu, z80, left, goal, turn>>
Sound == INSTANCE Z80

SharedRAM == 28672..32767
CommAddress == 188
Comm(z) == [a \in {CommAddress} |-> z.comm]
\* cpu with the sound RAM and the shared byte in its memory, and what of a memory stays its own.
Seen(z) == [cpu EXCEPT !.ram = Over(Comm(z), Over([a \in {28672 + k : k \in DOMAIN z.ram} |-> z.ram[a - 28672]], @))]
Shared == SharedRAM \cup {CommAddress}
Own(ram) == [a \in DOMAIN ram \ Shared |-> ram[a]]
SoundRAM(ram) == [k \in {a - 28672 : a \in DOMAIN ram \cap SharedRAM} |-> ram[k + 28672]]

\* Fault: a Z80 that is turned off is not reset.
ReceivedOff(z, write) ==
    CASE write[1] = 185 -> [z EXCEPT !.enabled = write[2] = 85]
      [] write[1] = 186 -> Sound!NMI(z)
      [] write[1] = 188 -> [z EXCEPT !.comm = write[2]]
\* storeB() at 0xB9, 0xBA and 0xBC.
Received(z, write) ==
    LET v == write[2]
    IN  CASE write[1] = 185 /\ v = 85  -> [z EXCEPT !.enabled = TRUE]
          [] write[1] = 185 /\ v = 170 -> Sound!Zeroed([z EXCEPT !.enabled = FALSE])
          [] write[1] = 186            -> Sound!NMI(z)
          [] write[1] = 188            -> [z EXCEPT !.comm = v]
          [] OTHER                     -> z

\* Both after neopop_reset(), with a program in memory.
Powered(ram, pc) ==
    Over(reset_registers(pc), [mem |-> 0, ram |-> ram, ipending |-> {}, prio |-> [n \in 0..10 |-> 0], bus |-> <<>>,
                            dma |-> [k \in DmaCodes[1] \cup DmaCodes[2] \cup DmaCodes[3] |-> 0]])
Silent(ram, on) ==
    Sound!Zeroed([reg |-> <<>>, f |-> {}, alt |-> <<>>, altf |-> {}, sp |-> 0, pc |-> 0, i |-> 0, r |-> 0, r7 |-> 0,
                  iff1 |-> FALSE, iff2 |-> FALSE, im |-> 0, halted |-> FALSE, fresh |-> TRUE, out |-> 0,
                  ram |-> ram, comm |-> 0, enabled |-> on, iline |-> FALSE])

\* The programs start from bytes.
ASSUME ScenesAssumption ==
    /\ Fill \in 0..255
    /\ \A s \in Scenes :
         /\ Typed(s.cpu) /\ DOMAIN s.cpu.ram \cap Shared = {} /\ Sound!Typed(s.z80)
         /\ s.left.raises \subseteq 5..12

Init == \E s \in Scenes : cpu = s.cpu /\ z80 = s.z80 /\ left = s.left /\ goal = s.goal /\ turn = "sound"

\* The writes that an instruction made for the sound processor, one after the other.
Delivered(z, bus) ==
    LET after[k \in 0..Len(bus)] == IF k = 0 THEN z ELSE Received(after[k - 1], bus[k]) IN after[Len(bus)]
\* The main processor has become c, which saw the memory of z.
Leaves(c, z) ==
    /\ cpu' = [c EXCEPT !.ram = Own(@), !.bus = <<>>]
    /\ z80' = Delivered([z EXCEPT !.ram = SoundRAM(c.ram)], c.bus)

MainStep ==
    \E c \in {Executed(Seen(z80))} :
      /\ Leaves(c, z80)
      /\ turn' = "main"
      /\ UNCHANGED <<left, goal>>

\* A write to 0xC000 asks for interrupt 6 of the main processor.  A HALT that is
\* executed again only counts R up: these steps are left out.
Waits == z80.halted /\ ~Sound!Accepts(z80)
SoundStep ==
    /\ z80.enabled /\ ~Waits
    /\ \E z \in {Sound!DoOpcode(z80)} :
         IF z.out = 49152 THEN Leaves(set_interrupt(Seen(z), 6), z) ELSE z80' = z /\ UNCHANGED cpu
    /\ turn' = "sound"
    /\ UNCHANGED <<left, goal>>
\* A Z80 that is off or waits takes all its time.
SoundIdle == (~z80.enabled \/ Waits) /\ turn' = "sound" /\ UNCHANGED <<cpu, z80, left, goal>>

\* A device asks for an interrupt of the main processor.
Raise(n) ==
    /\ n \in left.raises
    /\ Leaves(set_interrupt(Seen(z80), n), z80)
    /\ left' = [left EXCEPT !.raises = @ \ {n}]
    /\ UNCHANGED <<goal, turn>>

\* Timer 3 interrupts the Z80; programs set the stack up before they let it come.
Prepared == z80.enabled /\ z80.sp # 0
SoundIRQ ==
    /\ left.irqs > 0 /\ Prepared
    /\ Sound!IRQ
    /\ left' = [left EXCEPT !.irqs = @ - 1]
    /\ UNCHANGED <<cpu, goal, turn>>
\* The main processor, left out of this scene, writes 0xBA.
SoundNMI ==
    /\ left.nmis > 0 /\ Prepared
    /\ Sound!RaiseNMI
    /\ left' = [left EXCEPT !.nmis = @ - 1]
    /\ UNCHANGED <<cpu, goal, turn>>

Next == MainStep \/ SoundStep \/ SoundIdle \/ (\E n \in 5..12 : Raise(n)) \/ SoundIRQ \/ SoundNMI
\* The loop of Emulate() goes on, and gives each processor its turn.
Alternates == turn' \in {"main", "sound"} \ {turn}
Spec == Init /\ [][Next]_vars /\ WF_turn(Alternates)

-----------------------------------------------------------------------------
\* Whatever the two execute, and wherever requests fall, their registers, flags and control bits keep their
\* widths, and the bytes that they share are in the memory of one of them only.
TypeOK == Typed(cpu) /\ DOMAIN cpu.ram \cap Shared = {} /\ Sound!Typed(z80)

\* What a program left in memory.
Left(ram, result) == \A a \in DOMAIN result : a \in DOMAIN ram /\ ram[a] = result[a]

\* A program of the Z80 computes what it would without interrupts, wherever they
\* fall: it never leaves its code, and at its HALT the results are those of the
\* arithmetic it stands for, the stack is empty, interrupts are still on, and its
\* handlers have counted every request but one that waits (z80_do_opcode,
\* z80_interrupt and z80_nmi with all rows of instructions).
SoundProgramsSurvive ==
    goal.kind = "sound" =>
        /\ z80.pc \in DOMAIN z80.ram
        /\ z80.halted =>
             /\ z80.pc = goal.end
             /\ z80.sp = goal.sp /\ z80.iff1
             /\ Left(z80.ram, goal.result)
             /\ z80.ram[3585] = goal.nmis - left.nmis
             /\ z80.ram[3584] = goal.irqs - left.irqs - (IF z80.iline THEN 1 ELSE 0)

\* The same for the main processor, whose handlers change to another register
\* bank and whose programs change levels, banks and SR under pending requests: at
\* the end the bank, the level and the stack are back, and requests 5 and 7 were
\* served as often as they were raised unless they still wait (set_interrupt,
\* int_check_pending, RETI with all groups of instructions).
MainProgramsSurvive ==
    goal.kind = "main" =>
        /\ cpu.pc \in DOMAIN cpu.ram
        /\ cpu.pc = goal.end =>
             /\ cpu.regs[XSP] = goal.sp /\ statusRFP(cpu) = 0 /\ statusIFF(cpu) = 0
             /\ Left(cpu.ram, goal.result)
             /\ \A n \in goal.raises :
                  cpu.ram[28160 + n] = IF n \in left.raises \cup cpu.ipending THEN 0 ELSE 1

\* The Z80 after a prefixed instruction, told by the one without the prefix: the
\* index register stands in for HL, or for the address in HL less the displacement.
Exchanged(z, ix) == Sound!SetPair(Sound!SetPair(z, ix, Sound!Pair(z, "HL")), "HL", Sound!Pair(z, ix))
ByRegister(z, ix) == Exchanged(Sound!DoOpcode(Exchanged(Sound!Skip(z, 1), ix)), ix)
\* The opcode (CB for the fourth table) takes the place of the displacement.
ByAddress(z, ix, op) ==
    LET at == (z.pc + 2) % 65536
        to == (Sound!Pair(z, ix) + SignedByte(z.ram[at])) % 65536
        y  == Sound!DoOpcode([Sound!SetPair(z, "HL", to) EXCEPT !.pc = at, !.ram[at] = op])
    IN  Sound!SetPair([y EXCEPT !.ram[at] = z.ram[at]], "HL", Sound!Pair(z, "HL"))
OfIndex(op) == op \in {52, 53, 54, 119} \cup (112..117) \cup {k \in 64..191 : k % 8 = 6}
\* BIT shows the address and not the operand in X and Y; R counts fetches.
Alike(a, b, bit) == LET Shown(z) == [z EXCEPT !.r = 0, !.f = IF bit THEN @ \ {"X", "Y"} ELSE @]
                    IN  Shown(a) = Shown(b)
\* An instruction on IX, IY, their halves or (IX+d) does what the one on HL, H, L or
\* (HL) does, flags and memory included (z80_ddfd.c, z80_ddfdcb.c against
\* opcodes_base.c and z80_cb.c, four files with a copy each).  Loads and stores of H
\* and L themselves are told apart by the programs.
IndexedLikePlain ==
    LET first == Sound!Byte(z80)
        ix == IF first = 221 THEN "IX" ELSE "IY"
        op == Sound!ReadByte(z80, z80.pc + 1)
        last == Sound!ReadByte(z80, z80.pc + 3)
    IN  goal.kind = "instruction" /\ z80.enabled /\ first \in {221, 253} /\ op \notin {102, 110, 116, 117, 235} =>
          IF op = 203 THEN last % 8 = 6 => Alike(Sound!DoOpcode(z80), ByAddress(z80, ix, 203), last \in 64..127)
          ELSE IF OfIndex(op) THEN Alike(Sound!DoOpcode(z80), ByAddress(z80, ix, op), FALSE)
          ELSE Alike(Sound!DoOpcode(z80), ByRegister(z80, ix), FALSE)

\* What a condition says of two numbers a and b, which are x and y with their signs.
Says(cc, a, b, x, y) ==
    CASE cc = 6 -> a = b  [] cc = 14 -> a # b
      [] cc = 7 -> a < b  [] cc = 15 -> a >= b  [] cc = 3 -> a <= b  [] cc = 11 -> a > b
      [] cc = 1 -> x < y  [] cc = 9 -> x >= y   [] cc = 2 -> x <= y  [] cc = 10 -> x > y
Ordered(s, a, b, F) == \A cc \in {1, 2, 3, 6, 7, 9, 10, 11, 14, 15} :
                          conditionCode(cc, F) <=> Says(cc, a, b, Signed(s, a), Signed(s, b))
\* The two bytes of the opcode that the main processor is at, wherever the program is.
First == Fetch(Seen(z80), 0)
Second == Fetch(Past(Seen(z80), 0), 0)
\* After a comparison of any two registers of any size the conditions of the main
\* processor order the operands: LT, LE, GE and GT as signed numbers, ULT, ULE, UGE
\* and UGT as unsigned ones, at the ends of the ranges too (conditionCode on the
\* flags of regCP).
Compares == First \in (200..207) \cup (216..223) \cup (232..239) /\ Second \in 240..247
ComparisonsDecide ==
    [][Compares /\ MainStep =>
         LET s == (First \div 16) % 4 IN Ordered(s, reg(cpu, s, Second % 8), reg(cpu, s, First % 8), cpu'.f)]_vars

\* Every number that a main program leaves in the shared byte with an NMI comes back
\* as the Z80's answer and interrupt, whatever the order of their instructions and
\* over a stop and restart of the Z80 with a request of timer 3 on its line (the
\* stores to 0xB9, 0xBA and 0xBC, the writes to 0x8000 and 0xC000).
HandshakeDelivers == <>[](goal.kind = "handshake" => cpu.pc = goal.end /\ Left(cpu.ram, goal.result))

\* V after a logical operation on words is set when the result has an even number
\* of ones, as the comments in TLCS900h_interpret.c say of parityB and parityW.
\* The code sets it for an odd number: a word of 16 zeros gives two even bytes.
WordParity ==
    [][First = 217 /\ Second = 192 /\ MainStep =>
         ("V" \in cpu'.f <=> (EvenOnes(reg(cpu', 1, 0)) <=> EvenOnes(reg(cpu', 1, 0) \div 256)))]_vars
=============================================================================
