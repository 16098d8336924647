-------------------------- MODULE ProcessorsProofs --------------------------
(***************************************************************************)
(* Proofs about both processors, for every program, every memory and every *)
(* order of instructions and requests.                                     *)
(*                                                                         *)
(* TypeOK is inductive as it stands, but a step is any of some 700         *)
(* opcodes: the lemmas follow the source files from the operators on bytes *)
(* and flags to the helpers, to the handlers and to the tables, and say of *)
(* each that it leaves a processor as wide as it was.  Every lemma "...    *)
(* Typed" reads: a processor (a number, a byte) with its widths has them   *)
(* afterwards.  The Z80 comes first (up to DoOpcodeTyped and NMITyped),    *)
(* then the TLCS-900H (up to ExecutedTyped), then the steps of the two     *)
(* together.                                                               *)
(*                                                                         *)
(* ComparisonsDecide needs no more than that invariant: ComparisonsOrder   *)
(* relates the flags of a difference to its operands, and the lemmas at    *)
(* the end follow the two bytes of a comparison through the tables.        *)
(***************************************************************************)
EXTENDS Processors, TLAPS, WellFoundedInduction

-----------------------------------------------------------------------------

(* The sound processor: bits and bytes. *)
LEMMA Powers == 2^0 = 1 /\ 2^1 = 2 /\ 2^2 = 4 /\ 2^3 = 8 /\ 2^4 = 16 /\ 2^5 = 32 /\ 2^6 = 64 /\ 2^7 = 128
OBVIOUS
LEMMA PowerIsNat == ASSUME NEW n \in 0..7 PROVE 2^n \in Nat \ {0}
<1>1. CASE n = 0 BY <1>1, Powers
<1>2. CASE n = 1 BY <1>2, Powers
<1>3. CASE n = 2 BY <1>3, Powers
<1>4. CASE n = 3 BY <1>4, Powers
<1>5. CASE n = 4 BY <1>5, Powers
<1>6. CASE n = 5 BY <1>6, Powers
<1>7. CASE n = 6 BY <1>7, Powers
<1>8. CASE n = 7 BY <1>8, Powers
<1> QED BY <1>1, <1>2, <1>3, <1>4, <1>5, <1>6, <1>7, <1>8
LEMMA ByteOfBits == ASSUME NEW bits PROVE Sound!ByteOf(bits) \in Sound!Octet
BY Powers DEF Sound!ByteOf, Sound!Octet
LEMMA BitIsBit == ASSUME NEW v \in Sound!Octet, NEW n \in 0..7 PROVE Sound!BitOf(v, n) \in 0..1
BY PowerIsNat DEF Sound!BitOf, Sound!Octet
LEMMA AndOrXor ==
  ASSUME NEW a, NEW b
  PROVE  Sound!And(a, b) \in Sound!Octet /\ Sound!Or(a, b) \in Sound!Octet /\ Sound!Xor(a, b) \in Sound!Octet
BY ByteOfBits DEF Sound!And, Sound!Or, Sound!Xor
LEMMA FlagNames == Sound!Flag = {"C", "N", "P", "X", "H", "Y", "Z", "S"}
BY DEF Sound!Flag, Sound!FlagBit
LEMMA FByteIsByte == ASSUME NEW F PROVE Sound!FByte(F) \in Sound!Octet
BY Powers DEF Sound!FByte, Sound!FlagBit, Sound!Octet

(* Sets of flags. *)
LEMMA Flagged ==
  /\ \A c : \A g \in Sound!Flag : Sound!Only(c, g) \in Sound!FlagSets
  /\ \A F \in Sound!FlagSets : \A G \in Sound!FlagSets : F \cup G \in Sound!FlagSets
  /\ \A F \in Sound!FlagSets : \A G : F \cap G \in Sound!FlagSets /\ F \ G \in Sound!FlagSets
  /\ \A g \in Sound!Flag : {g} \in Sound!FlagSets
  /\ \A g \in Sound!Flag : \A h \in Sound!Flag : {g, h} \in Sound!FlagSets
  /\ {} \in Sound!FlagSets
BY DEF Sound!Only, Sound!FlagSets
LEMMA OnlyThat == \A c, g : \A x \in Sound!Only(c, g) : x = g
BY DEF Sound!Only
LEMMA FlagsOfByte ==
  ASSUME NEW v
  PROVE  /\ Sound!FSet(v) \in Sound!FlagSets /\ Sound!SZ53(v) \in Sound!FlagSets
         /\ Sound!Parity(v) \in Sound!FlagSets /\ Sound!SZ53P(v) \in Sound!FlagSets
<1>1. Sound!FSet(v) \in Sound!FlagSets
  BY DEF Sound!FSet, Sound!FlagSets
<1>2. Sound!SZ53(v) \in Sound!FlagSets
  BY <1>1, Flagged, FlagNames DEF Sound!SZ53
<1>3. Sound!Parity(v) \in Sound!FlagSets
  BY Flagged, FlagNames DEF Sound!Parity
<1> QED BY <1>1, <1>2, <1>3, Flagged DEF Sound!SZ53P

(* The macros: a byte with a set of flags, or a word. *)
ByteResult(p) == p[1] \in Sound!Octet /\ p[2] \in Sound!FlagSets
WordResult(p) == p[1] \in Sound!Address /\ p[2] \in Sound!FlagSets
LEMMA Sums ==
  ASSUME NEW a \in Sound!Octet, NEW v \in Sound!Octet, NEW c \in 0..1
  PROVE  ByteResult(Sound!ADC(a, v, c)) /\ ByteResult(Sound!SBC(a, v, c))
<1>1. (a + v + c) % 256 \in Sound!Octet /\ (a - v - c) % 256 \in Sound!Octet
  BY DEF Sound!Octet
<1>2. Sound!ADC(a, v, c)[2] \in Sound!FlagSets
  BY OnlyThat, FlagNames, FlagsOfByte DEF Sound!ADC, Sound!FlagSets
<1>3. Sound!SBC(a, v, c)[2] \in Sound!FlagSets
  BY OnlyThat, FlagNames, FlagsOfByte DEF Sound!SBC, Sound!FlagSets
<1> QED BY <1>1, <1>2, <1>3 DEF ByteResult, Sound!ADC, Sound!SBC
LEMMA PlainSums ==
  ASSUME NEW a \in Sound!Octet, NEW v \in Sound!Octet
  PROVE  ByteResult(Sound!ADD(a, v)) /\ ByteResult(Sound!SUB(a, v)) /\ ByteResult(Sound!CP(a, v))
<1>1. ByteResult(Sound!ADD(a, v)) /\ ByteResult(Sound!SUB(a, v))
  BY Sums DEF Sound!ADD, Sound!SUB
<1> QED BY <1>1, Flagged, FlagsOfByte DEF Sound!CP, ByteResult
LEMMA Logics ==
  ASSUME NEW a \in Sound!Octet, NEW v \in Sound!Octet
  PROVE  ByteResult(Sound!AND(a, v)) /\ ByteResult(Sound!OR(a, v)) /\ ByteResult(Sound!XOR(a, v))
BY AndOrXor, Flagged, FlagNames, FlagsOfByte DEF Sound!AND, Sound!OR, Sound!XOR, ByteResult
LEMMA Counts1 ==
  ASSUME NEW v \in Sound!Octet, NEW F \in Sound!FlagSets
  PROVE  ByteResult(Sound!INC(v, F)) /\ ByteResult(Sound!DEC(v, F))
<1>1. (v + 1) % 256 \in Sound!Octet /\ (v - 1) % 256 \in Sound!Octet
  BY DEF Sound!Octet
<1>2. Sound!INC(v, F)[2] \in Sound!FlagSets
  BY OnlyThat, FlagNames, FlagsOfByte DEF Sound!INC, Sound!FlagSets
<1>3. Sound!DEC(v, F)[2] \in Sound!FlagSets
  BY OnlyThat, FlagNames, FlagsOfByte DEF Sound!DEC, Sound!FlagSets
<1> QED BY <1>1, <1>2, <1>3 DEF ByteResult, Sound!INC, Sound!DEC

(* An address is a number of 16 bits: a form that suits sums. *)
LEMMA IsAddress == ASSUME NEW x \in Sound!Address PROVE x \in Int /\ 0 <= x /\ x <= 65535
BY SMTT(60) DEF Sound!Address
LEMMA ToAddress == ASSUME NEW x \in Int PROVE x \in Sound!Address <=> 0 <= x /\ x <= 65535
BY SMTT(60) DEF Sound!Address
LEMMA Addresses ==
  /\ \A x \in Sound!Address : x \in Int /\ 0 <= x /\ x <= 65535
  /\ \A x \in Int : 0 <= x /\ x <= 65535 => x \in Sound!Address
BY IsAddress, ToAddress
LEMMA WrappedAddress == ASSUME NEW x \in Int PROVE x % 65536 \in Sound!Address
BY Addresses
LEMMA WordSums ==
  ASSUME NEW x \in Sound!Address, NEW v \in Sound!Address, NEW c \in 0..1, NEW F \in Sound!FlagSets
  PROVE  WordResult(Sound!ADD16(x, v, F)) /\ WordResult(Sound!ADC16(x, v, c)) /\ WordResult(Sound!SBC16(x, v, c))
<1>1. /\ (x + v) % 65536 \in Sound!Address
      /\ (x + v + c) % 65536 \in Sound!Address
      /\ (x - v - c) % 65536 \in Sound!Address
  <2>1. x + v \in Int /\ x + v + c \in Int /\ x - v - c \in Int
    BY Addresses
  <2> QED BY <2>1, WrappedAddress
<1>2. Sound!ADD16(x, v, F)[2] \in Sound!FlagSets
  BY OnlyThat, FlagNames, FlagsOfByte DEF Sound!ADD16, Sound!FlagSets
<1>3. Sound!ADC16(x, v, c)[2] \in Sound!FlagSets
  BY OnlyThat, FlagNames, FlagsOfByte DEF Sound!ADC16, Sound!FlagSets
<1>4. Sound!SBC16(x, v, c)[2] \in Sound!FlagSets
  BY OnlyThat, FlagNames, FlagsOfByte DEF Sound!SBC16, Sound!FlagSets
<1> QED BY <1>1, <1>2, <1>3, <1>4 DEF WordResult, Sound!ADD16, Sound!ADC16, Sound!SBC16
LEMMA DecimalAdjust == ASSUME NEW a \in Sound!Octet, NEW F \in Sound!FlagSets PROVE ByteResult(Sound!DAA(a, F))
<1> DEFINE add == (IF "H" \in F \/ a % 16 > 9 THEN 6 ELSE 0) + (IF "C" \in F \/ a > 153 THEN 96 ELSE 0)
           res == IF "N" \in F THEN Sound!SUB(a, add) ELSE Sound!ADD(a, add)
<1>1. add \in Sound!Octet
  BY DEF Sound!Octet
<1>2. ByteResult(res)
  BY <1>1, PlainSums
<1> HIDE DEF add
<1>3. Sound!DAA(a, F) = <<res[1], (res[2] \ {"C", "P"}) \cup Sound!Only("C" \in F \/ a > 153, "C") \cup Sound!Parity(res[1])>>
  BY Zenon DEF Sound!DAA, add
<1> HIDE DEF res
<1>4. Sound!DAA(a, F)[2] \in Sound!FlagSets
  BY <1>2, <1>3, OnlyThat, FlagNames, FlagsOfByte DEF ByteResult, Sound!FlagSets
<1> QED BY <1>2, <1>3, <1>4 DEF ByteResult
LEMMA ShiftedTyped == ASSUME NEW res \in Sound!Octet, NEW out PROVE ByteResult(Sound!Shifted(res, out))
BY Flagged, FlagNames, FlagsOfByte DEF Sound!Shifted, ByteResult
LEMMA Rotations ==
  ASSUME NEW v \in Sound!Octet, NEW c \in 0..1
  PROVE  /\ ByteResult(Sound!RLC(v)) /\ ByteResult(Sound!RRC(v)) /\ ByteResult(Sound!RL(v, c)) /\ ByteResult(Sound!RR(v, c))
         /\ ByteResult(Sound!SLA(v)) /\ ByteResult(Sound!SRA(v)) /\ ByteResult(Sound!SLL(v)) /\ ByteResult(Sound!SRL(v))
<1>1. /\ ((2 * v) % 256) + v \div 128 \in Sound!Octet /\ v \div 2 + 128 * (v % 2) \in Sound!Octet
      /\ ((2 * v) % 256) + c \in Sound!Octet /\ v \div 2 + 128 * c \in Sound!Octet
      /\ (2 * v) % 256 \in Sound!Octet /\ v \div 2 + (v \div 128) * 128 \in Sound!Octet
      /\ ((2 * v) % 256) + 1 \in Sound!Octet /\ v \div 2 \in Sound!Octet
  BY DEF Sound!Octet
<1> QED BY <1>1, ShiftedTyped DEF Sound!RLC, Sound!RRC, Sound!RL, Sound!RR, Sound!SLA, Sound!SRA, Sound!SLL, Sound!SRL
LEMMA BitFlags ==
  ASSUME NEW n, NEW v, NEW F \in Sound!FlagSets, NEW undoc PROVE Sound!BIT(n, v, F, undoc) \in Sound!FlagSets
BY Flagged, FlagNames, FlagsOfByte DEF Sound!BIT
LEMMA BitsSetAndReset ==
  ASSUME NEW n \in 0..7, NEW v \in Sound!Octet
  PROVE  Sound!RES(n, v) \in Sound!Octet /\ Sound!SET(n, v) \in Sound!Octet
<1>1. n = 0 \/ n = 1 \/ n = 2 \/ n = 3 \/ n = 4 \/ n = 5 \/ n = 6 \/ n = 7
  OBVIOUS
<1> USE DEF Sound!RES, Sound!SET, Sound!BitOf, Sound!Octet
<1>2. CASE n = 0 BY <1>2, Powers
<1>3. CASE n = 1 BY <1>3, Powers
<1>4. CASE n = 2 BY <1>4, Powers
<1>5. CASE n = 3 BY <1>5, Powers
<1>6. CASE n = 4 BY <1>6, Powers
<1>7. CASE n = 5 BY <1>7, Powers
<1>8. CASE n = 6 BY <1>8, Powers
<1>9. CASE n = 7 BY <1>9, Powers
<1> QED BY <1>1, <1>2, <1>3, <1>4, <1>5, <1>6, <1>7, <1>8, <1>9

(* The parts of a processor, and what may be put into each. *)
LEMMA Fields ==
  ASSUME NEW z, Sound!Typed(z)
  PROVE  /\ z.reg \in Sound!Registers /\ z.f \in Sound!FlagSets /\ z.alt \in Sound!Alternates /\ z.altf \in Sound!FlagSets
         /\ z.sp \in Sound!Address /\ z.pc \in Sound!Address /\ z.i \in Sound!Octet /\ z.r \in Sound!Counts
         /\ z.r7 \in Sound!Octet
         /\ z.iff1 \in BOOLEAN /\ z.iff2 \in BOOLEAN /\ z.im \in Sound!Modes /\ z.halted \in BOOLEAN /\ z.fresh \in BOOLEAN
         /\ z.out \in Sound!Outputs /\ z.comm \in Sound!Octet /\ z.enabled \in BOOLEAN /\ z.iline \in BOOLEAN
         /\ Sound!OctetsIn(z.ram)
BY DEF Sound!Typed
LEMMA WithReg == ASSUME NEW z, Sound!Typed(z), NEW v, v \in Sound!Registers PROVE Sound!Typed([z EXCEPT !.reg = v])
BY DEF Sound!Typed
LEMMA WithF == ASSUME NEW z, Sound!Typed(z), NEW v, v \in Sound!FlagSets PROVE Sound!Typed([z EXCEPT !.f = v])
BY DEF Sound!Typed
LEMMA WithSP == ASSUME NEW z, Sound!Typed(z), NEW v, v \in Sound!Address PROVE Sound!Typed([z EXCEPT !.sp = v])
BY DEF Sound!Typed
LEMMA WithPC == ASSUME NEW z, Sound!Typed(z), NEW v, v \in Sound!Address PROVE Sound!Typed([z EXCEPT !.pc = v])
BY DEF Sound!Typed
LEMMA WithCount == ASSUME NEW z, Sound!Typed(z), NEW v, v \in Sound!Counts PROVE Sound!Typed([z EXCEPT !.r = v])
BY DEF Sound!Typed
LEMMA WithComm == ASSUME NEW z, Sound!Typed(z), NEW v, v \in Sound!Octet PROVE Sound!Typed([z EXCEPT !.comm = v])
BY DEF Sound!Typed
LEMMA WithOut == ASSUME NEW z, Sound!Typed(z), NEW v, v \in Sound!Outputs PROVE Sound!Typed([z EXCEPT !.out = v])
BY DEF Sound!Typed
LEMMA WithLine == ASSUME NEW z, Sound!Typed(z), NEW v, v \in BOOLEAN PROVE Sound!Typed([z EXCEPT !.iline = v])
BY DEF Sound!Typed
LEMMA WithEnabled == ASSUME NEW z, Sound!Typed(z), NEW v, v \in BOOLEAN PROVE Sound!Typed([z EXCEPT !.enabled = v])
BY DEF Sound!Typed
LEMMA WithRam == ASSUME NEW z, Sound!Typed(z), NEW v, Sound!OctetsIn(v) PROVE Sound!Typed([z EXCEPT !.ram = v])
BY DEF Sound!Typed

(* Memory. *)
LEMMA ReadTyped == ASSUME NEW z, Sound!Typed(z), NEW a PROVE Sound!ReadByte(z, a) \in Sound!Octet
<1>1. Fill \in Sound!Octet /\ 0 \in Sound!Octet
  BY ScenesAssumption DEF Sound!Octet
<1> QED BY <1>1, Fields DEF Sound!ReadByte, Sound!OctetsIn
LEMMA WriteTyped ==
  ASSUME NEW z, Sound!Typed(z), NEW a \in Sound!Address, NEW v \in Sound!Octet
  PROVE  Sound!Typed(Sound!WriteByte(z, a, v))
<1>1. ASSUME a < 4096 PROVE Sound!OctetsIn(Sound!Written(z.ram, a, v))
  <2>1. a \in 0..4095
    <3>1. a \in Int /\ 0 <= a
      BY Addresses
    <3> QED BY <1>1, <3>1, SMT
  <2>2. Sound!OctetsIn(z.ram)
    BY Fields
  <2>3. CASE a \in DOMAIN z.ram
    BY <2>2, <2>3 DEF Sound!OctetsIn, Sound!Written
  <2>4. CASE a \notin DOMAIN z.ram
    BY <2>1, <2>2, <2>4 DEF Sound!OctetsIn, Sound!Written, Sound!Over
  <2> QED BY <2>3, <2>4
<1>2. a \in {16384, 16385, 49152} => a \in Sound!Outputs
  BY DEF Sound!Outputs
<1> QED BY <1>1, <1>2, WithRam, WithComm, WithOut DEF Sound!WriteByte
LEMMA NextTyped == ASSUME NEW a \in Sound!Address PROVE Sound!Next16(a) \in Sound!Address
BY Addresses DEF Sound!Next16
LEMMA WordOfBytes ==
  ASSUME NEW h \in Sound!Octet, NEW l \in Sound!Octet
  PROVE  l + 256 * h \in Sound!Address /\ 256 * h + l \in Sound!Address
BY Addresses DEF Sound!Octet
LEMMA BytesOfWord == ASSUME NEW v \in Sound!Address PROVE v \div 256 \in Sound!Octet /\ v % 256 \in Sound!Octet
BY Addresses DEF Sound!Octet
LEMMA ReadWordTyped == ASSUME NEW z, Sound!Typed(z), NEW a PROVE Sound!ReadWord(z, a) \in Sound!Address
BY ReadTyped, WordOfBytes DEF Sound!ReadWord
LEMMA WriteWordTyped ==
  ASSUME NEW z, Sound!Typed(z), NEW a \in Sound!Address, NEW v \in Sound!Address
  PROVE  Sound!Typed(Sound!WriteWord(z, a, v))
<1>1. Sound!Typed(Sound!WriteByte(z, a, v % 256))
  BY WriteTyped, BytesOfWord
<1> QED BY <1>1, WriteTyped, BytesOfWord, NextTyped DEF Sound!WriteWord

(* Registers and pairs. *)
Pairs == {"BC", "DE", "HL", "IX", "IY"}
LEMMA PairNames ==
  ASSUME NEW rr \in Pairs
  PROVE  Sound!High[rr] \in Sound!Names \cup Sound!Halves /\ Sound!Low[rr] \in Sound!Names \cup Sound!Halves /\ rr # "SP"
BY DEF Pairs, Sound!High, Sound!Low, Sound!Names, Sound!Halves
LEMMA RegisterIsOctet ==
  ASSUME NEW z, Sound!Typed(z), NEW res \in Sound!Names \cup Sound!Halves PROVE z.reg[res] \in Sound!Octet
BY Fields DEF Sound!Registers
LEMMA WithRegister ==
  ASSUME NEW z, Sound!Typed(z), NEW res \in Sound!Names \cup Sound!Halves, NEW v, v \in Sound!Octet
  PROVE  Sound!Typed([z EXCEPT !.reg[res] = v])
<1>1. [z.reg EXCEPT ![res] = v] \in Sound!Registers
  BY Fields DEF Sound!Registers
<1>2. [z EXCEPT !.reg[res] = v] = [z EXCEPT !.reg = [z.reg EXCEPT ![res] = v]]
  OBVIOUS
<1> QED BY <1>1, <1>2, WithReg
LEMMA SetTyped ==
  ASSUME NEW z, Sound!Typed(z), NEW res \in Sound!Names \cup Sound!Halves, NEW v \in Sound!Octet
  PROVE  Sound!Typed(Sound!Set(z, res, v))
BY WithRegister DEF Sound!Set
LEMMA PairTyped ==
  ASSUME NEW z, Sound!Typed(z), NEW rr \in Pairs \cup {"SP"} PROVE Sound!Pair(z, rr) \in Sound!Address
<1>1. CASE rr = "SP"
  BY <1>1, Fields DEF Sound!Pair
<1>2. CASE rr \in Pairs
  BY <1>2, PairNames, RegisterIsOctet, WordOfBytes DEF Sound!Pair
<1> QED BY <1>1, <1>2
LEMMA SetPairTyped ==
  ASSUME NEW z, Sound!Typed(z), NEW rr \in Pairs \cup {"SP"}, NEW v \in Sound!Address
  PROVE  Sound!Typed(Sound!SetPair(z, rr, v))
<1>1. CASE rr = "SP"
  BY <1>1, WithSP DEF Sound!SetPair
<1>2. CASE rr \in Pairs
  <2>1. Sound!Typed([z EXCEPT !.reg[Sound!High[rr]] = v \div 256])
    BY <1>2, PairNames, WithRegister, BytesOfWord
  <2>2. Sound!Typed([[z EXCEPT !.reg[Sound!High[rr]] = v \div 256] EXCEPT !.reg[Sound!Low[rr]] = v % 256])
    BY ZenonT(60), <2>1, <1>2, PairNames, WithRegister, BytesOfWord
  <2>3. Sound!SetPair(z, rr, v) = [[z EXCEPT !.reg[Sound!High[rr]] = v \div 256] EXCEPT !.reg[Sound!Low[rr]] = v % 256]
    BY <1>2, PairNames DEF Sound!SetPair
  <2> QED BY <2>2, <2>3
<1> QED BY <1>1, <1>2

(* The steps that instructions are made of. *)
LEMMA FlagsTyped == ASSUME NEW z, Sound!Typed(z), NEW F \in Sound!FlagSets PROVE Sound!Typed(Sound!Flags(z, F))
BY WithF DEF Sound!Flags
LEMMA ResultTyped ==
  ASSUME NEW z, Sound!Typed(z), NEW res \in Sound!Names \cup Sound!Halves, NEW p, ByteResult(p)
  PROVE  Sound!Typed(Sound!Result(z, res, p))
<1>1. Sound!Typed([z EXCEPT !.reg[res] = p[1]])
  BY WithRegister DEF ByteResult
<1>2. Sound!Typed([[z EXCEPT !.reg[res] = p[1]] EXCEPT !.f = p[2]])
  BY <1>1, WithF DEF ByteResult
<1>3. Sound!Result(z, res, p) = [[z EXCEPT !.reg[res] = p[1]] EXCEPT !.f = p[2]]
  BY DEF Sound!Result
<1> QED BY <1>2, <1>3
LEMMA CarryIsBit == ASSUME NEW z PROVE Sound!Carry(z) \in 0..1
BY DEF Sound!Carry
LEMMA ByteTyped == ASSUME NEW z, Sound!Typed(z) PROVE Sound!Byte(z) \in Sound!Octet
BY ReadTyped DEF Sound!Byte
LEMMA WideTyped == ASSUME NEW z, Sound!Typed(z) PROVE Sound!Wide(z) \in Sound!Address
BY ReadWordTyped DEF Sound!Wide
LEMMA SkipTyped == ASSUME NEW z, Sound!Typed(z), NEW n \in Int PROVE Sound!Typed(Sound!Skip(z, n))
<1>1. z.pc \in Int
  BY Fields, Addresses
<1>2. z.pc + n \in Int
  BY <1>1
<1>3. (z.pc + n) % 65536 \in Sound!Address
  BY <1>2, WrappedAddress
<1> QED BY <1>3, WithPC DEF Sound!Skip
LEMMA StackPointers ==
  ASSUME NEW z, Sound!Typed(z)
  PROVE  \A n \in Int : (z.sp + n) % 65536 \in Sound!Address /\ (z.sp - n) % 65536 \in Sound!Address
<1>1. z.sp \in Int
  BY Fields, Addresses
<1>2. \A n \in Int : z.sp + n \in Int /\ z.sp - n \in Int
  BY <1>1
<1> QED BY <1>2, WrappedAddress
LEMMA PushTyped == ASSUME NEW z, Sound!Typed(z), NEW v \in Sound!Address PROVE Sound!Typed(Sound!PUSH16(z, v))
<1>1. (z.sp - 1) % 65536 \in Sound!Address /\ (z.sp - 2) % 65536 \in Sound!Address
  BY StackPointers
<1>2. Sound!Typed(Sound!WriteByte(z, (z.sp - 1) % 65536, v \div 256))
  BY <1>1, WriteTyped, BytesOfWord
<1>3. Sound!Typed(Sound!WriteByte(Sound!WriteByte(z, (z.sp - 1) % 65536, v \div 256), (z.sp - 2) % 65536, v % 256))
  BY <1>1, <1>2, WriteTyped, BytesOfWord
<1> QED BY <1>1, <1>3, WithSP DEF Sound!PUSH16
LEMMA PoppedTyped == ASSUME NEW z, Sound!Typed(z) PROVE Sound!Typed(Sound!Popped(z))
<1>1. z.sp \in Int
  BY Fields, Addresses
<1>2. z.sp + 2 \in Int
  BY <1>1
<1>3. (z.sp + 2) % 65536 \in Sound!Address
  BY <1>2, WrappedAddress
<1> QED BY SMT, <1>3, WithSP DEF Sound!Popped
LEMMA JumpsTyped ==
  ASSUME NEW z, Sound!Typed(z)
  PROVE  /\ Sound!Typed(Sound!RET(z)) /\ Sound!Typed(Sound!JP(z)) /\ Sound!Typed(Sound!JR(z)) /\ Sound!Typed(Sound!CALL(z))
         /\ \A a \in Sound!Address : Sound!Typed(Sound!RST(z, a))
<1>1. Sound!Typed(Sound!RET(z))
  BY PoppedTyped, ReadWordTyped, WithPC DEF Sound!RET
<1>2. Sound!Typed(Sound!JP(z))
  BY WideTyped, WithPC DEF Sound!JP
<1>3. Sound!SignedByte(Sound!Byte(z)) + 1 \in Int
  BY ByteTyped DEF Sound!SignedByte, Sound!Octet
<1>4. Sound!Typed(Sound!JR(z))
  BY <1>3, SkipTyped DEF Sound!JR
<1>5. (z.pc + 2) % 65536 \in Sound!Address
  <2>1. z.pc + 2 \in Int
    BY Fields, Addresses
  <2> QED BY <2>1, WrappedAddress
<1>6. Sound!Typed(Sound!CALL(z))
  <2>1. Sound!Typed(Sound!PUSH16(z, (z.pc + 2) % 65536))
    BY <1>5, PushTyped
  <2> QED BY <2>1, WideTyped, WithPC DEF Sound!CALL
<1>7. ASSUME NEW a \in Sound!Address PROVE Sound!Typed(Sound!RST(z, a))
  BY PushTyped, Fields, WithPC DEF Sound!RST
<1> QED BY <1>1, <1>2, <1>4, <1>6, <1>7
LEMMA WidesTyped ==
  ASSUME NEW z, Sound!Typed(z), NEW rr \in Pairs \cup {"SP"}
  PROVE  Sound!Typed(Sound!StoreWide(z, rr)) /\ Sound!Typed(Sound!LoadWide(z, rr)) /\ Sound!Typed(Sound!Exchange(z, rr))
<1>1. Sound!Typed(Sound!Skip(z, 2))
  BY SkipTyped
<1>2. Sound!Typed(Sound!WriteWord(z, z.sp, Sound!Pair(z, rr)))
  BY Fields, PairTyped, WriteWordTyped
<1> QED BY <1>1, <1>2, WideTyped, PairTyped, SetPairTyped, ReadWordTyped, WriteWordTyped
       DEF Sound!StoreWide, Sound!LoadWide, Sound!Exchange

(* The three fields of an opcode. *)
LEMMA OperandNames == ASSUME NEW n \in 0..7, n # 6 PROVE Sound!Operand[n + 1] \in Sound!Names \cup Sound!Halves
BY DEF Sound!Operand, Sound!Names
LEMMA WordNames == ASSUME NEW y \in 0..7 PROVE Sound!WordOf(y) \in Pairs \cup {"SP"}
<1>1. y \div 2 \in 0..3
  OBVIOUS
<1> QED BY <1>1 DEF Sound!WordOf, Pairs
LEMMA GetTyped == ASSUME NEW z, Sound!Typed(z), NEW n \in 0..7 PROVE Sound!Get(z, n) \in Sound!Octet
BY ReadTyped, OperandNames, RegisterIsOctet DEF Sound!Get
LEMMA PutTyped ==
  ASSUME NEW z, Sound!Typed(z), NEW n \in 0..7, NEW v \in Sound!Octet PROVE Sound!Typed(Sound!Put(z, n, v))
BY WriteTyped, PairTyped, OperandNames, SetTyped DEF Sound!Put, Pairs
LEMMA PutResultTyped ==
  ASSUME NEW z, Sound!Typed(z), NEW n \in 0..7, NEW p, ByteResult(p) PROVE Sound!Typed(Sound!PutResult(z, n, p))
BY PutTyped, WithF DEF Sound!PutResult, ByteResult
LEMMA Fields8 ==
  ASSUME NEW op \in Sound!Octet PROVE (op \div 8) % 8 \in 0..7 /\ op % 8 \in 0..7 /\ op \div 8 \in 0..31
BY DEF Sound!Octet
LEMMA Named ==
  /\ "A" \in Sound!Names \cup Sound!Halves /\ "B" \in Sound!Names \cup Sound!Halves
  /\ "BC" \in Pairs \cup {"SP"} /\ "DE" \in Pairs \cup {"SP"} /\ "HL" \in Pairs \cup {"SP"}
BY DEF Sound!Names, Pairs
LEMMA AIsOctet == ASSUME NEW z, Sound!Typed(z) PROVE z.reg.A \in Sound!Octet
BY RegisterIsOctet, Named
LEMMA BIsOctet == ASSUME NEW z, Sound!Typed(z) PROVE z.reg.B \in Sound!Octet
BY RegisterIsOctet, Named
LEMMA AluTyped ==
  ASSUME NEW z, Sound!Typed(z), NEW y \in 0..7, NEW v \in Sound!Octet PROVE Sound!Typed(Sound!Alu(z, y, v))
<1> DEFINE a == z.reg.A
           p == IF y < 4 THEN Sound!Added(z, y, v) ELSE Sound!Logic(z, y, v)
<1>1. a \in Sound!Octet /\ Sound!Carry(z) \in 0..1
  BY AIsOctet, CarryIsBit
<1>2. /\ ByteResult(Sound!ADD(a, v)) /\ ByteResult(Sound!ADC(a, v, Sound!Carry(z))) /\ ByteResult(Sound!SUB(a, v))
      /\ ByteResult(Sound!SBC(a, v, Sound!Carry(z)))
      /\ ByteResult(Sound!AND(a, v)) /\ ByteResult(Sound!XOR(a, v)) /\ ByteResult(Sound!OR(a, v))
      /\ ByteResult(Sound!CP(a, v))
  BY <1>1, Sums, PlainSums, Logics
<1>3. ByteResult(p)
  BY <1>2 DEF Sound!Added, Sound!Logic
<1>4. Sound!Typed(Sound!Result(z, "A", p))
  BY <1>3, ResultTyped, Named
<1> QED BY <1>4 DEF Sound!Alu
LEMMA RotateATyped == ASSUME NEW z, Sound!Typed(z), NEW p, ByteResult(p) PROVE Sound!Typed(Sound!RotateA(z, p))
<1> DEFINE q == <<p[1], (z.f \cap {"S", "Z", "P"}) \cup (p[2] \cap {"C", "X", "Y"})>>
<1>1. q[2] \in Sound!FlagSets
  BY Fields DEF ByteResult, Sound!FlagSets
<1>2. ByteResult(q)
  BY <1>1 DEF ByteResult
<1>3. Sound!Typed(Sound!Result(z, "A", q))
  BY <1>2, ResultTyped, Named
<1> QED BY <1>3 DEF Sound!RotateA
LEMMA KeepTyped == ASSUME NEW z, Sound!Typed(z) PROVE Sound!KeepSZP(z) \in Sound!FlagSets
BY Fields, FlagsOfByte DEF Sound!KeepSZP, Sound!FlagSets
LEMMA ColumnTyped ==
  ASSUME NEW z, Sound!Typed(z), NEW y \in 0..7, NEW w \in {1, 3, 4, 5, 6} PROVE Sound!Typed(Sound!Column(z, y, w))
<1>1. /\ Sound!WordOf(y) \in Pairs \cup {"SP"} /\ Sound!Pair(z, Sound!WordOf(y)) \in Sound!Address
      /\ Sound!Pair(z, "HL") \in Sound!Address
  BY WordNames, PairTyped, Named
<1>2. /\ Sound!Typed(Sound!Skip(z, 2)) /\ Sound!Typed(Sound!Skip(z, 1)) /\ Sound!Wide(z) \in Sound!Address
      /\ Sound!Byte(z) \in Sound!Octet /\ z.f \in Sound!FlagSets
  BY SkipTyped, WideTyped, ByteTyped, Fields
<1>3. Sound!Typed(Sound!SetPair(Sound!Skip(z, 2), Sound!WordOf(y), Sound!Wide(z)))
  BY <1>1, <1>2, SetPairTyped
<1>4. Sound!Typed(Sound!Flags(Sound!SetPair(z, "HL", Sound!ADD16(Sound!Pair(z, "HL"), Sound!Pair(z, Sound!WordOf(y)), z.f)[1]),
                             Sound!ADD16(Sound!Pair(z, "HL"), Sound!Pair(z, Sound!WordOf(y)), z.f)[2]))
  <2>1. WordResult(Sound!ADD16(Sound!Pair(z, "HL"), Sound!Pair(z, Sound!WordOf(y)), z.f))
    BY <1>1, <1>2, WordSums
  <2> QED BY <2>1, SetPairTyped, FlagsTyped, Named DEF WordResult
<1>5. /\ Sound!Typed(Sound!SetPair(z, Sound!WordOf(y), Sound!Next16(Sound!Pair(z, Sound!WordOf(y)))))
      /\ Sound!Typed(Sound!SetPair(z, Sound!WordOf(y), (Sound!Pair(z, Sound!WordOf(y)) - 1) % 65536))
  <2>1. Sound!Pair(z, Sound!WordOf(y)) - 1 \in Int
    BY <1>1, Addresses
  <2>2. /\ (Sound!Pair(z, Sound!WordOf(y)) - 1) % 65536 \in Sound!Address
        /\ Sound!Next16(Sound!Pair(z, Sound!WordOf(y))) \in Sound!Address
    BY <1>1, <2>1, WrappedAddress, NextTyped
  <2> QED BY <2>2, <1>1, SetPairTyped
<1>6. /\ Sound!Typed(Sound!PutResult(z, y, Sound!INC(Sound!Get(z, y), z.f)))
      /\ Sound!Typed(Sound!PutResult(z, y, Sound!DEC(Sound!Get(z, y), z.f)))
  BY <1>2, GetTyped, Counts1, PutResultTyped
<1>7. Sound!Typed(Sound!Put(Sound!Skip(z, 1), y, Sound!Byte(z)))
  BY <1>2, PutTyped
<1> QED BY SMT, <1>3, <1>4, <1>5, <1>6, <1>7 DEF Sound!Column
LEMMA BranchTyped ==
  ASSUME NEW z, Sound!Typed(z), NEW y \in 0..7, NEW w \in {0, 1, 2, 4, 5, 6, 7}
  PROVE  Sound!Typed(Sound!Branch(z, y, w))
<1>1. /\ Sound!Typed(Sound!RET(z)) /\ Sound!Typed(Sound!JP(z)) /\ Sound!Typed(Sound!CALL(z))
      /\ Sound!Typed(Sound!Skip(z, 2)) /\ Sound!Typed(Sound!Skip(z, 1))
  BY JumpsTyped, SkipTyped
<1>2. Sound!Typed(Sound!RST(z, 8 * y))
  <2>1. 8 * y \in Sound!Address
    BY Addresses
  <2> QED BY <2>1, JumpsTyped
<1>3. /\ Sound!Typed(Sound!SetPair(Sound!Popped(z), Sound!WordOf(y), Sound!ReadWord(z, z.sp)))
      /\ Sound!Typed(Sound!PUSH16(z, Sound!Pair(z, Sound!WordOf(y))))
  BY WordNames, PairTyped, PoppedTyped, ReadWordTyped, SetPairTyped, PushTyped
<1>4. Sound!Typed(Sound!Alu(Sound!Skip(z, 1), y, Sound!Byte(z)))
  BY <1>1, AluTyped, ByteTyped
<1> QED BY SMT, <1>1, <1>2, <1>3, <1>4 DEF Sound!Branch
LEMMA RotationOfA ==
  ASSUME NEW z, Sound!Typed(z)
  PROVE  /\ Sound!Typed(Sound!RotateA(z, Sound!RLC(z.reg.A))) /\ Sound!Typed(Sound!RotateA(z, Sound!RRC(z.reg.A)))
         /\ Sound!Typed(Sound!RotateA(z, Sound!RL(z.reg.A, Sound!Carry(z))))
         /\ Sound!Typed(Sound!RotateA(z, Sound!RR(z.reg.A, Sound!Carry(z))))
BY AIsOctet, CarryIsBit, Rotations, RotateATyped
LEMMA LoadsOfA ==
  ASSUME NEW z, Sound!Typed(z), NEW a
  PROVE  /\ Sound!Typed(Sound!Set(z, "A", Sound!ReadByte(z, a)))
         /\ (a \in Sound!Address => Sound!Typed(Sound!WriteByte(z, a, z.reg.A)))
BY ReadTyped, SetTyped, Named, AIsOctet, WriteTyped
LEMMA Row0Typed == ASSUME NEW z, Sound!Typed(z), NEW op \in 0..15 PROVE Sound!Typed(Sound!Row0(z, op))
<1>1. /\ Sound!Typed(Sound!WriteByte(z, Sound!Pair(z, "BC"), z.reg.A))
      /\ Sound!Typed(Sound!Set(z, "A", Sound!ReadByte(z, Sound!Pair(z, "BC"))))
  BY LoadsOfA, PairTyped, Named
<1> DEFINE swapped == [z EXCEPT !.reg.A = z.alt.A, !.alt.A = z.reg.A, !.f = z.altf, !.altf = z.f]
<1>2. Sound!Typed([z EXCEPT !.reg.A = z.alt.A, !.alt.A = z.reg.A, !.f = z.altf, !.altf = z.f])
  <2>1. [z.reg EXCEPT !.A = z.alt.A] \in Sound!Registers /\ [z.alt EXCEPT !.A = z.reg.A] \in Sound!Alternates
    BY Fields DEF Sound!Registers, Sound!Alternates, Sound!Names
  <2>2. [z EXCEPT !.reg.A = z.alt.A, !.alt.A = z.reg.A, !.f = z.altf, !.altf = z.f]
        = [z EXCEPT !.reg = [z.reg EXCEPT !.A = z.alt.A], !.alt = [z.alt EXCEPT !.A = z.reg.A], !.f = z.altf, !.altf = z.f]
    OBVIOUS
  <2>3. \A u, v : u \in Sound!Registers /\ v \in Sound!Alternates =>
               Sound!Typed([z EXCEPT !.reg = u, !.alt = v, !.f = z.altf, !.altf = z.f])
    BY Fields DEF Sound!Typed
  <2> QED BY <2>1, <2>2, <2>3, Zenon
<1>3. op \notin {0, 2, 7, 8, 10, 15} => Sound!Typed(Sound!Column(z, op \div 8, op % 8))
  <2>1. op \notin {0, 2, 7, 8, 10, 15} => op \div 8 \in 0..7 /\ op % 8 \in {1, 3, 4, 5, 6}
    OBVIOUS
  <2> QED BY <2>1, ColumnTyped
<1>4. Sound!Typed(swapped)
  BY <1>2
<1> HIDE DEF swapped
<1>5. Sound!Typed(Sound!RotateA(z, Sound!RLC(z.reg.A))) /\ Sound!Typed(Sound!RotateA(z, Sound!RRC(z.reg.A)))
  BY RotationOfA
<1>6. Sound!Row0(z, op) = CASE op = 0 -> z
                      [] op = 2 -> Sound!WriteByte(z, Sound!Pair(z, "BC"), z.reg.A)
                      [] op = 7 -> Sound!RotateA(z, Sound!RLC(z.reg.A))
                      [] op = 8 -> swapped
                      [] op = 10 -> Sound!Set(z, "A", Sound!ReadByte(z, Sound!Pair(z, "BC")))
                      [] op = 15 -> Sound!RotateA(z, Sound!RRC(z.reg.A))
                      [] OTHER -> Sound!Column(z, op \div 8, op % 8)
  BY Zenon DEF Sound!Row0, swapped
<1> QED BY SMT, <1>1, <1>3, <1>4, <1>5, <1>6
LEMMA Row1Typed == ASSUME NEW z, Sound!Typed(z), NEW op \in 16..31 PROVE Sound!Typed(Sound!Row1(z, op))
<1>1. /\ Sound!Typed(Sound!WriteByte(z, Sound!Pair(z, "DE"), z.reg.A))
      /\ Sound!Typed(Sound!Set(z, "A", Sound!ReadByte(z, Sound!Pair(z, "DE"))))
  BY LoadsOfA, PairTyped, Named
<1> DEFINE d == Sound!Set(z, "B", (z.reg.B - 1) % 256)
<1>2. Sound!Typed(d)
  <2>1. (z.reg.B - 1) % 256 \in Sound!Octet
    BY BIsOctet DEF Sound!Octet
  <2> QED BY <2>1, SetTyped, Named
<1>3. Sound!Typed(IF d.reg.B # 0 THEN Sound!JR(d) ELSE Sound!Skip(d, 1))
  BY <1>2, JumpsTyped, SkipTyped
<1>4. Sound!Typed(Sound!JR(z))
  BY JumpsTyped
<1>5. op \notin {16, 18, 23, 24, 26, 31} => Sound!Typed(Sound!Column(z, op \div 8, op % 8))
  <2>1. op \notin {16, 18, 23, 24, 26, 31} => op \div 8 \in 0..7 /\ op % 8 \in {1, 3, 4, 5, 6}
    OBVIOUS
  <2> QED BY <2>1, ColumnTyped
<1>6. /\ Sound!Typed(Sound!RotateA(z, Sound!RL(z.reg.A, Sound!Carry(z))))
      /\ Sound!Typed(Sound!RotateA(z, Sound!RR(z.reg.A, Sound!Carry(z))))
  BY RotationOfA
<1> QED BY SMT, <1>1, <1>3, <1>4, <1>5, <1>6 DEF Sound!Row1
LEMMA Row2Typed == ASSUME NEW z, Sound!Typed(z), NEW op \in 32..47 PROVE Sound!Typed(Sound!Row2(z, op))
<1>1. /\ Sound!Typed(Sound!JR(z)) /\ Sound!Typed(Sound!Skip(z, 1)) /\ Sound!Typed(Sound!StoreWide(z, "HL"))
      /\ Sound!Typed(Sound!LoadWide(z, "HL"))
  <2>1. Sound!Typed(Sound!JR(z)) /\ Sound!Typed(Sound!Skip(z, 1))
    BY JumpsTyped, SkipTyped
  <2>2. Sound!Typed(Sound!StoreWide(z, "HL")) /\ Sound!Typed(Sound!LoadWide(z, "HL"))
    BY WidesTyped, Named
  <2> QED BY <2>1, <2>2
<1>2. Sound!Typed(Sound!Result(z, "A", Sound!DAA(z.reg.A, z.f)))
  BY AIsOctet, Fields, DecimalAdjust, ResultTyped, Named
<1> DEFINE a == 255 - z.reg.A
           F == (z.f \cap {"C", "P", "Z", "S"}) \cup (Sound!FSet(a) \cap {"X", "Y"}) \cup {"N", "H"}
<1>3. Sound!Typed(Sound!Result(z, "A", <<a, F>>))
  <2>1. a \in Sound!Octet
    BY AIsOctet DEF Sound!Octet
  <2>2. F \in Sound!FlagSets
    BY Fields, FlagsOfByte, FlagNames DEF Sound!FlagSets
  <2>3. ByteResult(<<a, F>>)
    BY <2>1, <2>2 DEF ByteResult
  <2> QED BY <2>3, ResultTyped, Named
<1>4. op \notin {32, 40, 34, 39, 42, 47} => Sound!Typed(Sound!Column(z, op \div 8, op % 8))
  <2>1. op \notin {32, 40, 34, 39, 42, 47} => op \div 8 \in 0..7 /\ op % 8 \in {1, 3, 4, 5, 6}
    OBVIOUS
  <2> QED BY <2>1, ColumnTyped
<1> QED BY SMT, <1>1, <1>2, <1>3, <1>4 DEF Sound!Row2
LEMMA Row3Typed == ASSUME NEW z, Sound!Typed(z), NEW op \in 48..63 PROVE Sound!Typed(Sound!Row3(z, op))
<1>1. /\ Sound!Typed(Sound!JR(z)) /\ Sound!Typed(Sound!Skip(z, 1)) /\ Sound!Typed(Sound!Skip(z, 2))
      /\ Sound!Wide(z) \in Sound!Address /\ z.reg.A \in Sound!Octet
  BY JumpsTyped, SkipTyped, WideTyped, AIsOctet
<1>2. /\ Sound!Typed(Sound!WriteByte(Sound!Skip(z, 2), Sound!Wide(z), z.reg.A))
      /\ Sound!Typed(Sound!Set(Sound!Skip(z, 2), "A", Sound!ReadByte(z, Sound!Wide(z))))
  BY <1>1, WriteTyped, ReadTyped, SetTyped, Named
<1>3. /\ Sound!Typed(Sound!Flags(z, Sound!KeepSZP(z) \cup {"C"}))
      /\ Sound!Typed(Sound!Flags(z, Sound!KeepSZP(z) \cup (IF "C" \in z.f THEN {"H"} ELSE {"C"})))
  <2>1. /\ Sound!KeepSZP(z) \cup {"C"} \in Sound!FlagSets
        /\ Sound!KeepSZP(z) \cup (IF "C" \in z.f THEN {"H"} ELSE {"C"}) \in Sound!FlagSets
    BY KeepTyped, FlagNames DEF Sound!FlagSets
  <2> QED BY <2>1, FlagsTyped
<1>4. op \notin {48, 56, 50, 55, 58, 63} => Sound!Typed(Sound!Column(z, op \div 8, op % 8))
  <2>1. op \notin {48, 56, 50, 55, 58, 63} => op \div 8 \in 0..7 /\ op % 8 \in {1, 3, 4, 5, 6}
    OBVIOUS
  <2> QED BY <2>1, ColumnTyped
<1> QED BY SMT, <1>1, <1>2, <1>3, <1>4 DEF Sound!Row3
LEMMA LoadTyped ==
  ASSUME NEW z, Sound!Typed(z), NEW y \in 0..7, NEW w \in 0..7
  PROVE  Sound!Typed(Sound!LoadRegister(z, y, w)) /\ Sound!Typed(Sound!Accumulate(z, y, w))
BY GetTyped, PutTyped, AluTyped DEF Sound!LoadRegister, Sound!Accumulate
LEMMA HaltTyped == ASSUME NEW z, Sound!Typed(z) PROVE Sound!Typed(Sound!HALT(z))
<1>1. z.pc - 1 \in Int
  BY Fields, Addresses
<1>2. (z.pc - 1) % 65536 \in Sound!Address
  BY <1>1, WrappedAddress
<1> DEFINE d == [z EXCEPT !.halted = TRUE]
<1>3. Sound!Typed(d) /\ d.pc = z.pc
  BY DEF Sound!Typed
<1>4. Sound!HALT(z) = [d EXCEPT !.pc = (z.pc - 1) % 65536]
  BY DEF Sound!HALT
<1> HIDE DEF d
<1> QED BY <1>2, <1>3, <1>4, WithPC

(* z80_cb.c *)
LEMMA RotateTyped ==
  ASSUME NEW v \in Sound!Octet, NEW c \in 0..1
  PROVE  (\A y \in 0..3 : ByteResult(Sound!Rotate(y, v, c))) /\ (\A y \in 4..7 : ByteResult(Sound!Shift(y, v)))
BY Rotations DEF Sound!Rotate, Sound!Shift
LEMMA CBTyped == ASSUME NEW z, Sound!Typed(z), NEW op \in Sound!Octet PROVE Sound!Typed(Sound!CB(z, op))
<1> DEFINE y == (op \div 8) % 8
           w == op % 8
<1>1. y \in 0..7 /\ w \in 0..7
  BY Fields8
<1>2. Sound!Get(z, w) \in Sound!Octet /\ Sound!Carry(z) \in 0..1 /\ z.f \in Sound!FlagSets
  BY <1>1, GetTyped, CarryIsBit, Fields
<1>3. op < 32 => y \in 0..3
  BY DEF Sound!Octet
<1>4. op \in 32..63 => y \in 4..7
  BY DEF Sound!Octet
<1>5. op < 32 \/ op \in 32..63 \/ op \in 64..127 \/ op \in 128..191 \/ op > 191
  BY DEF Sound!Octet
<1> HIDE DEF y, w
<1>6. op < 32 => Sound!Typed(Sound!CBRotate(z, y, w))
  BY <1>1, <1>2, <1>3, RotateTyped, PutResultTyped DEF Sound!CBRotate
<1>7. op \in 32..63 => Sound!Typed(Sound!CBShift(z, y, w))
  BY <1>1, <1>2, <1>4, RotateTyped, PutResultTyped DEF Sound!CBShift
<1>8. Sound!Typed(Sound!CBBit(z, y, w))
  BY <1>2, BitFlags, FlagsTyped DEF Sound!CBBit
<1>9. Sound!Typed(Sound!CBRes(z, y, w)) /\ Sound!Typed(Sound!CBSet(z, y, w))
  BY <1>1, <1>2, BitsSetAndReset, PutTyped DEF Sound!CBRes, Sound!CBSet
<1>10. Sound!CB(z, op) = CASE op < 32 -> Sound!CBRotate(z, y, w)
                     [] op \in 32..63 -> Sound!CBShift(z, y, w)
                     [] op \in 64..127 -> Sound!CBBit(z, y, w)
                     [] op \in 128..191 -> Sound!CBRes(z, y, w)
                     [] op > 191 -> Sound!CBSet(z, y, w)
  BY Zenon DEF Sound!CB, y, w
<1> QED BY SMT, <1>5, <1>6, <1>7, <1>8, <1>9, <1>10

(* z80_ed.c *)
LEMMA PortTyped == ASSUME NEW z, Sound!Typed(z) PROVE Sound!Typed(Sound!WritePort(z))
BY WithLine DEF Sound!WritePort
LEMMA EDPortTyped ==
  ASSUME NEW z, Sound!Typed(z), NEW y \in 0..7, NEW w \in 0..1 PROVE Sound!Typed(Sound!EDPort(z, y, w))
<1> DEFINE in == Sound!Flags(z, (z.f \cap {"C"}) \cup Sound!SZ53P(0))
<1>1. Sound!Typed(in)
  <2>1. (z.f \cap {"C"}) \cup Sound!SZ53P(0) \in Sound!FlagSets
    BY Fields, FlagsOfByte DEF Sound!FlagSets
  <2> QED BY <2>1, FlagsTyped
<1> HIDE DEF in
<1>2. y # 6 => Sound!Typed(Sound!Set(in, Sound!Operand[y + 1], 0))
  <2>1. 0 \in Sound!Octet
    BY DEF Sound!Octet
  <2> QED BY <1>1, <2>1, OperandNames, SetTyped
<1>3. Sound!Typed(Sound!WritePort(z))
  BY PortTyped
<1>4. Sound!EDPort(z, y, w) = CASE w = 1 -> Sound!WritePort(z) [] y = 6 -> in [] OTHER -> Sound!Set(in, Sound!Operand[y + 1], 0)
  BY Zenon DEF Sound!EDPort, in
<1> QED BY SMT, <1>1, <1>2, <1>3, <1>4
LEMMA EDWideTyped ==
  ASSUME NEW z, Sound!Typed(z), NEW y \in 0..7, NEW w \in 2..3 PROVE Sound!Typed(Sound!EDWide(z, y, w))
<1> DEFINE rr == Sound!WordOf(y)
           p == IF y % 2 = 1 THEN Sound!ADC16(Sound!Pair(z, "HL"), Sound!Pair(z, rr), Sound!Carry(z))
                ELSE Sound!SBC16(Sound!Pair(z, "HL"), Sound!Pair(z, rr), Sound!Carry(z))
<1>1. rr \in Pairs \cup {"SP"}
  BY WordNames
<1> HIDE DEF rr
<1>2. /\ Sound!Pair(z, "HL") \in Sound!Address /\ Sound!Pair(z, rr) \in Sound!Address /\ Sound!Carry(z) \in 0..1
      /\ z.f \in Sound!FlagSets
  BY <1>1, PairTyped, Named, CarryIsBit, Fields
<1>3. WordResult(p)
  BY <1>2, WordSums
<1> HIDE DEF p
<1>4. Sound!Typed(Sound!Flags(Sound!SetPair(z, "HL", p[1]), p[2]))
  <2>1. Sound!Typed(Sound!SetPair(z, "HL", p[1]))
    BY <1>3, SetPairTyped, Named DEF WordResult
  <2> QED BY <2>1, <1>3, FlagsTyped DEF WordResult
<1>5. Sound!Typed(Sound!LoadWide(z, rr)) /\ Sound!Typed(Sound!StoreWide(z, rr))
  BY <1>1, WidesTyped
<1>6. Sound!EDWide(z, y, w) = CASE w = 2 -> Sound!Flags(Sound!SetPair(z, "HL", p[1]), p[2])
                          [] w = 3 -> IF y % 2 = 1 THEN Sound!LoadWide(z, rr) ELSE Sound!StoreWide(z, rr)
  BY Zenon DEF Sound!EDWide, rr, p
<1> QED BY SMT, <1>4, <1>5, <1>6
LEMMA NegTyped == ASSUME NEW z, Sound!Typed(z) PROVE Sound!Typed(Sound!NEG(z))
<1>1. 0 \in Sound!Octet
  BY DEF Sound!Octet
<1>2. ByteResult(Sound!SUB(0, z.reg.A))
  BY <1>1, AIsOctet, PlainSums
<1> QED BY <1>2, ResultTyped, Named DEF Sound!NEG
LEMMA ReturnTyped == ASSUME NEW z, Sound!Typed(z) PROVE Sound!Typed(Sound!RETN(z))
<1> DEFINE d == [z EXCEPT !.iff1 = z.iff2]
<1>1. Sound!Typed(d)
  BY Fields DEF Sound!Typed
<1>2. Sound!RETN(z) = Sound!RET(d)
  BY DEF Sound!RETN
<1> HIDE DEF d
<1> QED BY <1>1, <1>2, JumpsTyped
LEMMA ModeTyped == ASSUME NEW z, Sound!Typed(z), NEW y PROVE Sound!Typed(Sound!InterruptMode(z, y))
<1> DEFINE mid == IF y \in {2, 6} THEN 1 ELSE IF y \in {3, 7} THEN 2 ELSE 0
<1>1. mid \in Sound!Modes
  BY DEF Sound!Modes
<1>2. Sound!InterruptMode(z, y) = [z EXCEPT !.im = mid]
  BY DEF Sound!InterruptMode
<1> HIDE DEF mid
<1> QED BY <1>1, <1>2 DEF Sound!Typed
LEMMA SpecialLoadTyped ==
  ASSUME NEW z, Sound!Typed(z), NEW v \in Sound!Octet PROVE Sound!Typed(Sound!LoadSpecial(z, v))
<1> DEFINE F == (z.f \cap {"C"}) \cup Sound!SZ53(v) \cup Sound!Only(z.iff2, "P")
<1>1. F \in Sound!FlagSets
  BY Fields, FlagsOfByte, OnlyThat, FlagNames DEF Sound!FlagSets
<1> HIDE DEF F
<1>2. ByteResult(<<v, F>>)
  BY <1>1 DEF ByteResult
<1> QED BY <1>2, ResultTyped, Named DEF Sound!LoadSpecial, F

(* The digits of A and of a byte in memory change places. *)
LEMMA Digits ==
  ASSUME NEW a \in Sound!Octet, NEW mid \in Sound!Octet
  PROVE  /\ (a - (a % 16)) + (mid % 16) \in Sound!Octet /\ (a - (a % 16)) + mid \div 16 \in Sound!Octet
         /\ 16 * (a % 16) + mid \div 16 \in Sound!Octet /\ 16 * (mid % 16) + (a % 16) \in Sound!Octet
<1>1. mid % 16 \in 0..15 /\ mid \div 16 \in 0..15 /\ a % 16 \in 0..15
  BY DEF Sound!Octet
<1>2. a - (a % 16) = 16 * (a \div 16) /\ a \div 16 \in 0..15
  BY DEF Sound!Octet
<1>3. \A h, k \in 0..15 : 16 * h + k \in Sound!Octet
  BY DEF Sound!Octet
<1> QED BY <1>1, <1>2, <1>3
LEMMA DigitsTyped ==
  ASSUME NEW z, Sound!Typed(z), NEW b \in Sound!Octet, NEW res \in Sound!Octet
  PROVE  Sound!Typed(Sound!Result(Sound!WriteByte(z, Sound!Pair(z, "HL"), b), "A",
                                   <<res, (z.f \cap {"C"}) \cup Sound!SZ53P(res)>>))
<1>1. (z.f \cap {"C"}) \cup Sound!SZ53P(res) \in Sound!FlagSets
  BY Fields, FlagsOfByte DEF Sound!FlagSets
<1>2. ByteResult(<<res, (z.f \cap {"C"}) \cup Sound!SZ53P(res)>>)
  BY <1>1 DEF ByteResult
<1>3. Sound!Typed(Sound!WriteByte(z, Sound!Pair(z, "HL"), b))
  BY PairTyped, Named, WriteTyped
<1> QED BY <1>2, <1>3, ResultTyped, Named
LEMMA RotatedDigitsTyped == ASSUME NEW z, Sound!Typed(z) PROVE Sound!Typed(Sound!RRD(z)) /\ Sound!Typed(Sound!RLD(z))
<1>1. z.reg.A \in Sound!Octet /\ Sound!ReadByte(z, Sound!Pair(z, "HL")) \in Sound!Octet
  BY AIsOctet, ReadTyped
<1> DEFINE a == z.reg.A
           mid == Sound!ReadByte(z, Sound!Pair(z, "HL"))
           r1 == (a - (a % 16)) + (mid % 16)
           r2 == (a - (a % 16)) + mid \div 16
           b1 == 16 * (a % 16) + mid \div 16
           b2 == 16 * (mid % 16) + (a % 16)
<1>2. r1 \in Sound!Octet /\ r2 \in Sound!Octet /\ b1 \in Sound!Octet /\ b2 \in Sound!Octet
  BY <1>1, Digits
<1>3. Sound!RRD(z) = Sound!Result(Sound!WriteByte(z, Sound!Pair(z, "HL"), b1), "A", <<r1, (z.f \cap {"C"}) \cup Sound!SZ53P(r1)>>)
  BY DEF Sound!RRD
<1>4. Sound!RLD(z) = Sound!Result(Sound!WriteByte(z, Sound!Pair(z, "HL"), b2), "A", <<r2, (z.f \cap {"C"}) \cup Sound!SZ53P(r2)>>)
  BY DEF Sound!RLD
<1> HIDE DEF r1, r2, b1, b2
<1> QED BY <1>2, <1>3, <1>4, DigitsTyped
LEMMA EDSpecialTyped == ASSUME NEW z, Sound!Typed(z), NEW op PROVE Sound!Typed(Sound!EDSpecial(z, op))
<1>1. /\ z.reg.A \in Sound!Octet /\ z.reg.A % 128 \in Sound!Counts /\ z.i \in Sound!Octet
      /\ z.r + 128 * (z.r7 \div 128) \in Sound!Octet
  <2>1. z.reg.A \in Sound!Octet /\ z.i \in Sound!Octet /\ z.r \in Sound!Counts /\ z.r7 \in Sound!Octet
    BY AIsOctet, Fields
  <2> QED BY <2>1 DEF Sound!Octet, Sound!Counts
<1> DEFINE a == z.reg.A
           l == a % 128
<1>2. Sound!Typed([z EXCEPT !.i = a])
  <2> HIDE DEF a
  <2>1. a \in Sound!Octet
    BY <1>1 DEF a
  <2> QED BY <2>1 DEF Sound!Typed
<1>3. Sound!Typed([z EXCEPT !.r = l, !.r7 = a])
  <2>1. a \in Sound!Octet /\ l \in Sound!Counts
    BY <1>1
  <2> HIDE DEF a, l
  <2> QED BY <2>1 DEF Sound!Typed
<1>4. Sound!Typed(Sound!LoadSpecial(z, z.i)) /\ Sound!Typed(Sound!LoadSpecial(z, z.r + 128 * (z.r7 \div 128)))
  BY <1>1, SpecialLoadTyped
<1>5. Sound!Typed(Sound!RRD(z)) /\ Sound!Typed(Sound!RLD(z))
  BY RotatedDigitsTyped
<1> QED BY SMT, <1>2, <1>3, <1>4, <1>5 DEF Sound!EDSpecial

(* The block instructions, which move and count. *)
LEMMA MoveTyped ==
  ASSUME NEW z, Sound!Typed(z), NEW rr \in Pairs \cup {"SP"}, NEW s \in Int PROVE Sound!Typed(Sound!Move(z, rr, s))
<1>1. Sound!Pair(z, rr) \in Int
  BY PairTyped, Addresses
<1>2. Sound!Pair(z, rr) + s \in Int
  BY <1>1
<1>3. (Sound!Pair(z, rr) + s) % 65536 \in Sound!Address
  BY <1>2, WrappedAddress
<1> QED BY <1>3, SetPairTyped DEF Sound!Move
LEMMA AgainTyped == ASSUME NEW z, Sound!Typed(z), NEW c PROVE Sound!Typed(Sound!Again(z, c))
<1>1. z.pc \in Int
  BY Fields, Addresses
<1>2. z.pc - 2 \in Int
  BY <1>1
<1>3. (z.pc - 2) % 65536 \in Sound!Address
  BY <1>2, WrappedAddress
<1> QED BY <1>3, WithPC DEF Sound!Again
LEMMA LessOne ==
  ASSUME NEW z, Sound!Typed(z)
  PROVE  (Sound!Pair(z, "BC") - 1) % 65536 \in Sound!Address /\ (z.reg.B - 1) % 256 \in Sound!Octet
<1>1. Sound!Pair(z, "BC") \in Int
  BY PairTyped, Named, Addresses
<1>2. Sound!Pair(z, "BC") - 1 \in Int
  BY <1>1
<1>3. (z.reg.B - 1) % 256 \in Sound!Octet
  BY BIsOctet DEF Sound!Octet
<1> QED BY <1>2, <1>3, WrappedAddress
LEMMA LDITyped == ASSUME NEW z, Sound!Typed(z), NEW s \in Int PROVE Sound!Typed(Sound!LDI(z, s))
<1> DEFINE v == Sound!ReadByte(z, Sound!Pair(z, "HL"))
           t == (v + z.reg.A) % 256
           fewer == (Sound!Pair(z, "BC") - 1) % 65536
           z1 == Sound!WriteByte(z, Sound!Pair(z, "DE"), v)
           z2 == Sound!SetPair(z1, "BC", fewer)
           z3 == Sound!Move(z2, "DE", s)
           z4 == Sound!Move(z3, "HL", s)
           F == (z.f \cap {"C", "Z", "S"}) \cup Sound!Only(fewer # 0, "P") \cup (Sound!FSet(t) \cap {"X"})
                  \cup Sound!Only(Sound!BitOf(t, 1) = 1, "Y")
<1>1. fewer \in Sound!Address
  BY LessOne
<1>2. Sound!Typed(z1)
  BY ReadTyped, PairTyped, Named, WriteTyped
<1>3. F \in Sound!FlagSets
  <2> HIDE DEF fewer, t
  <2> QED BY Fields, FlagsOfByte, OnlyThat, FlagNames DEF Sound!FlagSets
<1>4. Sound!LDI(z, s) = Sound!Flags(z4, F)
  BY SMT DEF Sound!LDI
<1> HIDE DEF fewer, z1, F
<1>5. Sound!Typed(z2)
  BY <1>1, <1>2, SetPairTyped, Named
<1> HIDE DEF z2
<1>6. Sound!Typed(z3)
  BY <1>5, MoveTyped, Named
<1> HIDE DEF z3
<1>7. Sound!Typed(z4)
  BY <1>6, MoveTyped, Named
<1> HIDE DEF z4
<1> QED BY <1>3, <1>4, <1>7, FlagsTyped
LEMMA CPITyped == ASSUME NEW z, Sound!Typed(z), NEW s \in Int PROVE Sound!Typed(Sound!CPI(z, s))
<1> DEFINE v == Sound!ReadByte(z, Sound!Pair(z, "HL"))
           t == (z.reg.A - v) % 256
           fewer == (Sound!Pair(z, "BC") - 1) % 65536
           half == Sound!Lookup(z.reg.A, v, t, 3) \in Sound!HalfcarrySub
           u == IF half THEN (t - 1) % 256 ELSE t
           z1 == Sound!SetPair(z, "BC", fewer)
           z2 == Sound!Move(z1, "HL", s)
           F == (z.f \cap {"C"}) \cup {"N"} \cup Sound!Only(fewer # 0, "P") \cup Sound!Only(half, "H")
                  \cup (Sound!SZ53(t) \cap {"Z", "S"})
                  \cup (Sound!FSet(u) \cap {"X"}) \cup Sound!Only(Sound!BitOf(u, 1) = 1, "Y")
<1>1. fewer \in Sound!Address
  BY LessOne
<1>2. F \in Sound!FlagSets
  <2> HIDE DEF fewer, t, half, u
  <2> QED BY Fields, FlagsOfByte, OnlyThat, FlagNames DEF Sound!FlagSets
<1>3. Sound!CPI(z, s) = Sound!Flags(z2, F)
  BY SMT DEF Sound!CPI
<1> HIDE DEF fewer, F
<1>4. Sound!Typed(z1)
  BY <1>1, SetPairTyped, Named
<1> HIDE DEF z1
<1>5. Sound!Typed(z2)
  BY <1>4, MoveTyped, Named
<1> HIDE DEF z2
<1> QED BY <1>2, <1>3, <1>5, FlagsTyped
LEMMA BlockFlagsTyped == ASSUME NEW v, NEW t, NEW b PROVE Sound!BlockFlags(v, t, b) \in Sound!FlagSets
BY FlagsOfByte, OnlyThat, FlagNames DEF Sound!BlockFlags, Sound!FlagSets
LEMMA INITyped == ASSUME NEW z, Sound!Typed(z), NEW s \in Int PROVE Sound!Typed(Sound!INI(z, s))
<1> DEFINE b == (z.reg.B - 1) % 256
           z1 == Sound!WriteByte(z, Sound!Pair(z, "HL"), 0)
           z2 == Sound!Set(z1, "B", b)
           z3 == Sound!Move(z2, "HL", s)
<1>1. b \in Sound!Octet
  BY LessOne
<1>2. Sound!Typed(z1)
  <2>1. 0 \in Sound!Octet
    BY DEF Sound!Octet
  <2> QED BY <2>1, PairTyped, Named, WriteTyped
<1>3. Sound!INI(z, s) = Sound!Flags(z3, Sound!BlockFlags(0, (z.reg.C + s) % 256, b))
  BY Zenon DEF Sound!INI
<1> HIDE DEF b, z1
<1>4. Sound!Typed(z2)
  BY <1>1, <1>2, SetTyped, Named
<1> HIDE DEF z2
<1>5. Sound!Typed(z3)
  BY <1>4, MoveTyped, Named
<1> HIDE DEF z3
<1> QED BY <1>3, <1>5, FlagsTyped, BlockFlagsTyped
LEMMA OUTITyped == ASSUME NEW z, Sound!Typed(z), NEW s \in Int PROVE Sound!Typed(Sound!OUTI(z, s))
<1> DEFINE v == Sound!ReadByte(z, Sound!Pair(z, "HL"))
           b == (z.reg.B - 1) % 256
           z1 == Sound!WritePort(z)
           z2 == Sound!Set(z1, "B", b)
           z3 == Sound!Move(z2, "HL", s)
<1>1. b \in Sound!Octet
  BY LessOne
<1>2. Sound!Typed(z1)
  BY PortTyped
<1>3. Sound!OUTI(z, s) = Sound!Flags(z3, Sound!BlockFlags(v, (v + z3.reg.L) % 256, b))
  BY Zenon DEF Sound!OUTI
<1> HIDE DEF b, z1
<1>4. Sound!Typed(z2)
  BY <1>1, <1>2, SetTyped, Named
<1> HIDE DEF z2
<1>5. Sound!Typed(z3)
  BY <1>4, MoveTyped, Named
<1> HIDE DEF z3
<1> QED BY <1>3, <1>5, FlagsTyped, BlockFlagsTyped
LEMMA RepeatsTyped ==
  ASSUME NEW z, Sound!Typed(z), NEW s \in Int
  PROVE  /\ Sound!Typed(Sound!LDIR(z, s)) /\ Sound!Typed(Sound!CPIR(z, s)) /\ Sound!Typed(Sound!INIR(z, s))
         /\ Sound!Typed(Sound!OTIR(z, s))
<1>1. /\ Sound!Typed(Sound!LDI(z, s)) /\ Sound!Typed(Sound!CPI(z, s)) /\ Sound!Typed(Sound!INI(z, s))
      /\ Sound!Typed(Sound!OUTI(z, s))
  BY LDITyped, CPITyped, INITyped, OUTITyped
<1> QED BY <1>1, AgainTyped DEF Sound!LDIR, Sound!CPIR, Sound!INIR, Sound!OTIR
LEMMA EDTyped == ASSUME NEW z, Sound!Typed(z), NEW op \in Sound!Octet PROVE Sound!Typed(Sound!ED(z, op))
<1> DEFINE y == (op \div 8) % 8
           w == op % 8
           s == IF y % 2 = 0 THEN 1 ELSE -1
<1>1. y \in 0..7 /\ w \in 0..7 /\ s \in Int
  BY Fields8
<1>2. Sound!ED(z, op) =
        CASE op \in 64..127 /\ w < 2 -> Sound!EDPort(z, y, w)
          [] op \in 64..127 /\ w \in 2..3 -> Sound!EDWide(z, y, w)
          [] op \in 64..127 /\ w = 4 -> Sound!NEG(z)
          [] op \in 64..127 /\ w = 5 -> Sound!RETN(z)
          [] op \in 64..127 /\ w = 6 -> Sound!InterruptMode(z, y)
          [] op \in 64..127 /\ w = 7 -> Sound!EDSpecial(z, op)
          [] op \in {160, 168} -> Sound!LDI(z, s)  [] op \in {161, 169} -> Sound!CPI(z, s)
          [] op \in {162, 170} -> Sound!INI(z, s)  [] op \in {163, 171} -> Sound!OUTI(z, s)
          [] op \in {176, 184} -> Sound!LDIR(z, s) [] op \in {177, 185} -> Sound!CPIR(z, s)
          [] op \in {178, 186} -> Sound!INIR(z, s) [] op \in {179, 187} -> Sound!OTIR(z, s)
          [] OTHER -> z
  BY Zenon DEF Sound!ED
<1> HIDE DEF y, w, s
<1>3. w < 2 => Sound!Typed(Sound!EDPort(z, y, w))
  BY <1>1, EDPortTyped
<1>4. w \in 2..3 => Sound!Typed(Sound!EDWide(z, y, w))
  BY <1>1, EDWideTyped
<1>5. Sound!Typed(Sound!NEG(z)) /\ Sound!Typed(Sound!RETN(z))
  BY NegTyped, ReturnTyped
<1>6. Sound!Typed(Sound!InterruptMode(z, y)) /\ Sound!Typed(Sound!EDSpecial(z, op))
  BY ModeTyped, EDSpecialTyped
<1>7. /\ Sound!Typed(Sound!LDI(z, s)) /\ Sound!Typed(Sound!CPI(z, s)) /\ Sound!Typed(Sound!INI(z, s))
      /\ Sound!Typed(Sound!OUTI(z, s))
  BY <1>1, LDITyped, CPITyped, INITyped, OUTITyped
<1>8. /\ Sound!Typed(Sound!LDIR(z, s)) /\ Sound!Typed(Sound!CPIR(z, s)) /\ Sound!Typed(Sound!INIR(z, s))
      /\ Sound!Typed(Sound!OTIR(z, s))
  BY <1>1, RepeatsTyped
<1> QED BY SMT, <1>2, <1>3, <1>4, <1>5, <1>6, <1>7, <1>8

(* z80_ddfd.c *)
Index == {"IX", "IY"}
LEMMA IndexNames ==
  ASSUME NEW ix \in Index
  PROVE  ix \in Pairs \cup {"SP"} /\ \A w : Sound!Half(ix, w) \in Sound!Names \cup Sound!Halves
BY DEF Index, Pairs, Sound!Half, Sound!High, Sound!Low, Sound!Halves
LEMMA IndexedTyped == ASSUME NEW z, Sound!Typed(z), NEW ix \in Index PROVE Sound!Indexed(z, ix) \in Sound!Address
<1>1. Sound!Pair(z, ix) \in Int
  BY IndexNames, PairTyped, Addresses
<1>2. Sound!SignedByte(Sound!Byte(z)) \in Int
  BY ByteTyped DEF Sound!SignedByte, Sound!Octet
<1>3. Sound!Pair(z, ix) + Sound!SignedByte(Sound!Byte(z)) \in Int
  BY <1>1, <1>2
<1> QED BY <1>3, WrappedAddress DEF Sound!Indexed
LEMMA HalfIsOctet ==
  ASSUME NEW z, Sound!Typed(z), NEW ix \in Index, NEW w PROVE z.reg[Sound!Half(ix, w)] \in Sound!Octet
BY IndexNames, RegisterIsOctet
IndexWords == {9, 25, 41, 57, 33, 34, 35, 36, 37, 38, 42, 43, 44, 45, 46, 52, 53, 54}
LEMMA IndexWordTyped ==
  ASSUME NEW z, Sound!Typed(z), NEW ix \in Index, NEW op \in IndexWords PROVE Sound!Typed(Sound!IndexWord(z, ix, op))
<1>1. /\ ix \in Pairs \cup {"SP"} /\ Sound!Pair(z, ix) \in Sound!Address /\ z.f \in Sound!FlagSets
      /\ Sound!Indexed(z, ix) \in Sound!Address
  BY IndexNames, PairTyped, Fields, IndexedTyped
<1>2. Sound!Typed(Sound!Skip(z, 1)) /\ Sound!Typed(Sound!Skip(z, 2))
  BY SkipTyped
<1>3. op \in {9, 25, 41, 57} => Sound!Typed(Sound!IndexWord(z, ix, op))
  <2> DEFINE rr == IF op = 41 THEN ix ELSE Sound!WordOf(op \div 8)
             p == Sound!ADD16(Sound!Pair(z, ix), Sound!Pair(z, rr), z.f)
  <2>1. SUFFICES ASSUME op \in {9, 25, 41, 57} PROVE Sound!Typed(Sound!IndexWord(z, ix, op))
    OBVIOUS
  <2>2. rr \in Pairs \cup {"SP"}
    <3>1. op \div 8 \in 0..7
      BY <2>1
    <3> QED BY <3>1, <1>1, WordNames
  <2>3. Sound!IndexWord(z, ix, op) = Sound!Flags(Sound!SetPair(z, ix, p[1]), p[2])
    BY <2>1 DEF Sound!IndexWord
  <2> HIDE DEF rr
  <2>4. WordResult(p)
    BY <1>1, <2>2, PairTyped, WordSums
  <2> HIDE DEF p
  <2>5. Sound!Typed(Sound!SetPair(z, ix, p[1]))
    BY <1>1, <2>4, SetPairTyped DEF WordResult
  <2> QED BY <2>3, <2>4, <2>5, FlagsTyped DEF WordResult
<1>4. op \in {33, 34, 35, 42, 43} => Sound!Typed(Sound!IndexWord(z, ix, op))
  <2>1. Sound!Typed(Sound!SetPair(Sound!Skip(z, 2), ix, Sound!Wide(z)))
    BY <1>1, <1>2, WideTyped, SetPairTyped
  <2>2. Sound!Typed(Sound!StoreWide(z, ix)) /\ Sound!Typed(Sound!LoadWide(z, ix))
    BY <1>1, WidesTyped
  <2> DEFINE up == Sound!Next16(Sound!Pair(z, ix))
             down == (Sound!Pair(z, ix) - 1) % 65536
  <2>3. up \in Sound!Address /\ down \in Sound!Address
    <3>1. Sound!Pair(z, ix) - 1 \in Int
      BY <1>1, Addresses
    <3> QED BY <1>1, <3>1, NextTyped, WrappedAddress
  <2>4. Sound!Typed(Sound!SetPair(z, ix, up)) /\ Sound!Typed(Sound!SetPair(z, ix, down))
    <3> HIDE DEF up, down
    <3> QED BY <1>1, <2>3, SetPairTyped
  <2> QED BY SMT, <2>1, <2>2, <2>4 DEF Sound!IndexWord
<1>5. op \in {36, 44, 37, 45, 38, 46} => Sound!Typed(Sound!IndexWord(z, ix, op))
  <2> DEFINE h == Sound!Half(ix, op \div 8)
  <2>1. h \in Sound!Names \cup Sound!Halves
    BY IndexNames
  <2>2. op \in {36, 44} => Sound!IndexWord(z, ix, op) = Sound!Result(z, h, Sound!INC(z.reg[h], z.f))
    BY DEF Sound!IndexWord
  <2>3. op \in {37, 45} => Sound!IndexWord(z, ix, op) = Sound!Result(z, h, Sound!DEC(z.reg[h], z.f))
    BY DEF Sound!IndexWord
  <2>4. op \in {38, 46} => Sound!IndexWord(z, ix, op) = Sound!Set(Sound!Skip(z, 1), h, Sound!Byte(z))
    BY DEF Sound!IndexWord
  <2> HIDE DEF h
  <2>5. /\ Sound!Typed(Sound!Result(z, h, Sound!INC(z.reg[h], z.f)))
        /\ Sound!Typed(Sound!Result(z, h, Sound!DEC(z.reg[h], z.f)))
    BY <1>1, <2>1, RegisterIsOctet, Counts1, ResultTyped
  <2>6. Sound!Typed(Sound!Set(Sound!Skip(z, 1), h, Sound!Byte(z)))
    BY <1>2, <2>1, ByteTyped, SetTyped
  <2> QED BY <2>2, <2>3, <2>4, <2>5, <2>6
<1>6. op \in {52, 53, 54} => Sound!Typed(Sound!IndexWord(z, ix, op))
  <2> DEFINE b == Sound!ReadByte(z, Sound!Indexed(z, ix))
             p == Sound!INC(b, z.f)
             q == Sound!DEC(b, z.f)
  <2>1. b \in Sound!Octet
    BY ReadTyped
  <2>2. ByteResult(p) /\ ByteResult(q)
    BY <1>1, <2>1, Counts1
  <2>3. op = 52 => Sound!IndexWord(z, ix, op) = Sound!Flags(Sound!WriteByte(Sound!Skip(z, 1), Sound!Indexed(z, ix), p[1]), p[2])
    BY DEF Sound!IndexWord
  <2>4. op = 53 => Sound!IndexWord(z, ix, op) = Sound!Flags(Sound!WriteByte(Sound!Skip(z, 1), Sound!Indexed(z, ix), q[1]), q[2])
    BY DEF Sound!IndexWord
  <2>5. op = 54 => Sound!IndexWord(z, ix, op) =
                    Sound!WriteByte(Sound!Skip(z, 2), Sound!Indexed(z, ix), Sound!ReadByte(z, Sound!Next16(z.pc)))
    BY DEF Sound!IndexWord
  <2> HIDE DEF p, q
  <2>6. /\ Sound!Typed(Sound!WriteByte(Sound!Skip(z, 1), Sound!Indexed(z, ix), p[1]))
        /\ Sound!Typed(Sound!WriteByte(Sound!Skip(z, 1), Sound!Indexed(z, ix), q[1]))
    BY <1>1, <1>2, <2>2, WriteTyped DEF ByteResult
  <2>7. Sound!Typed(Sound!WriteByte(Sound!Skip(z, 2), Sound!Indexed(z, ix), Sound!ReadByte(z, Sound!Next16(z.pc))))
    BY <1>1, <1>2, ReadTyped, WriteTyped
  <2> QED BY <2>2, <2>3, <2>4, <2>5, <2>6, <2>7, FlagsTyped DEF ByteResult
<1> QED BY <1>3, <1>4, <1>5, <1>6 DEF IndexWords
LEMMA IndexMovesTyped ==
  ASSUME NEW z, Sound!Typed(z), NEW ix \in Index, NEW y \in 0..7, NEW w \in 0..7
  PROVE  /\ y # 6 => Sound!Typed(Sound!IndexLoad(z, ix, y, w))
         /\ y # 6 => Sound!Typed(Sound!IndexHalves(z, ix, y, w))
         /\ w # 6 => Sound!Typed(Sound!IndexStore(z, ix, w))
         /\ Sound!Typed(Sound!IndexAlu(z, ix, y, w))
<1>1. /\ Sound!Indexed(z, ix) \in Sound!Address /\ Sound!ReadByte(z, Sound!Indexed(z, ix)) \in Sound!Octet
      /\ z.reg[Sound!Half(ix, w)] \in Sound!Octet
  BY IndexedTyped, ReadTyped, HalfIsOctet
<1>2. Sound!Typed(Sound!Skip(z, 1))
  BY SkipTyped
<1>3. y # 6 => Sound!Operand[y + 1] \in Sound!Names \cup Sound!Halves
  BY OperandNames
<1>4. w # 6 => z.reg[Sound!Operand[w + 1]] \in Sound!Octet
  BY OperandNames, RegisterIsOctet
<1>5. Sound!Half(ix, y) \in Sound!Names \cup Sound!Halves
  BY IndexNames
<1>6. y # 6 => /\ Sound!Typed(Sound!Set(Sound!Skip(z, 1), Sound!Operand[y + 1], Sound!ReadByte(z, Sound!Indexed(z, ix))))
               /\ Sound!Typed(Sound!Set(z, Sound!Operand[y + 1], z.reg[Sound!Half(ix, w)]))
  BY <1>1, <1>2, <1>3, SetTyped
<1>7. /\ Sound!Typed(Sound!Set(z, Sound!Half(ix, y), z.reg[Sound!Half(ix, w)]))
      /\ (w # 6 => Sound!Typed(Sound!Set(z, Sound!Half(ix, y), z.reg[Sound!Operand[w + 1]])))
  BY <1>1, <1>4, <1>5, SetTyped
<1>8. w # 6 => Sound!Typed(Sound!IndexStore(z, ix, w))
  BY <1>1, <1>2, <1>4, WriteTyped DEF Sound!IndexStore
<1>9. /\ Sound!Typed(Sound!Alu(Sound!Skip(z, 1), y, Sound!ReadByte(z, Sound!Indexed(z, ix))))
      /\ Sound!Typed(Sound!Alu(z, y, z.reg[Sound!Half(ix, w)]))
  BY <1>1, <1>2, AluTyped
<1> QED BY <1>6, <1>7, <1>8, <1>9 DEF Sound!IndexLoad, Sound!IndexHalves, Sound!IndexAlu
LEMMA IndexStackTyped ==
  ASSUME NEW z, Sound!Typed(z), NEW ix \in Index, NEW op \in {225, 227, 229, 233, 249}
  PROVE  Sound!Typed(Sound!IndexStack(z, ix, op))
<1>1. ix \in Pairs \cup {"SP"} /\ Sound!Pair(z, ix) \in Sound!Address
  BY IndexNames, PairTyped
<1>2. Sound!Typed(Sound!SetPair(Sound!Popped(z), ix, Sound!ReadWord(z, z.sp)))
  BY <1>1, PoppedTyped, ReadWordTyped, SetPairTyped
<1>3. Sound!Typed(Sound!Exchange(z, ix))
  BY <1>1, WidesTyped
<1>4. Sound!Typed(Sound!PUSH16(z, Sound!Pair(z, ix)))
  BY <1>1, PushTyped
<1>5. Sound!Typed([z EXCEPT !.pc = Sound!Pair(z, ix)]) /\ Sound!Typed([z EXCEPT !.sp = Sound!Pair(z, ix)])
  BY <1>1, WithPC, WithSP
<1> QED BY SMT, <1>2, <1>3, <1>4, <1>5 DEF Sound!IndexStack
LEMMA ReparseTyped == ASSUME NEW z, Sound!Typed(z) PROVE Sound!Typed(Sound!Reparse(z))
<1>1. z.pc \in Int /\ z.r \in Int
  BY Fields, Addresses DEF Sound!Counts
<1>2. z.pc - 1 \in Int /\ z.r - 1 \in Int
  BY <1>1
<1> DEFINE p == (z.pc - 1) % 65536
           q == (z.r - 1) % 128
<1>3. p \in Sound!Address /\ q \in Sound!Counts
  BY <1>2, WrappedAddress DEF Sound!Counts
<1>4. Sound!Reparse(z) = [z EXCEPT !.pc = p, !.r = q]
  BY DEF Sound!Reparse
<1> HIDE DEF p, q
<1> QED BY <1>3, <1>4 DEF Sound!Typed

(* z80_ddfdcb.c *)
LEMMA IndexedResultTyped ==
  ASSUME NEW z, Sound!Typed(z), NEW a \in Sound!Address, NEW w \in 0..7, NEW p, ByteResult(p)
  PROVE  Sound!Typed(Sound!IndexedResult(z, a, w, p))
<1> DEFINE mid == [Sound!WriteByte(z, a, p[1]) EXCEPT !.f = p[2]]
<1>1. Sound!Typed(mid)
  <2>1. Sound!Typed(Sound!WriteByte(z, a, p[1]))
    BY WriteTyped DEF ByteResult
  <2> QED BY <2>1, WithF DEF ByteResult
<1>2. Sound!IndexedResult(z, a, w, p) = IF w = 6 THEN mid ELSE Sound!Set(mid, Sound!Operand[w + 1], p[1])
  BY Zenon DEF Sound!IndexedResult
<1> HIDE DEF mid
<1>3. w # 6 => Sound!Typed(Sound!Set(mid, Sound!Operand[w + 1], p[1]))
  BY <1>1, OperandNames, SetTyped DEF ByteResult
<1> QED BY SMT, <1>1, <1>2, <1>3
LEMMA IndexedCBTyped ==
  ASSUME NEW z, Sound!Typed(z), NEW a \in Sound!Address, NEW op \in Sound!Octet
  PROVE  Sound!Typed(Sound!IndexedCB(z, a, op))
<1> DEFINE y == (op \div 8) % 8
           w == op % 8
           v == Sound!ReadByte(z, a)
           c == Sound!Carry(z)
<1>1. y \in 0..7 /\ w \in 0..7
  BY Fields8
<1>2. v \in Sound!Octet /\ c \in 0..1 /\ z.f \in Sound!FlagSets
  BY ReadTyped, CarryIsBit, Fields
<1>3. op < 16 \/ op \in 16..31 \/ op \in 32..47 \/ op \in 48..63 \/ op \in 64..127 \/ op \in 128..191 \/ op > 191
  BY DEF Sound!Octet
<1>4. Sound!IndexedCB(z, a, op) =
        CASE op < 16 -> Sound!IndexedRotate(z, a, y, w)
          [] op \in 16..31 -> Sound!IndexedRotateCarry(z, a, y, w)
          [] op \in 32..47 -> Sound!IndexedShiftArithmetic(z, a, y, w)
          [] op \in 48..63 -> Sound!IndexedShiftLogical(z, a, y, w)
          [] op \in 64..127 -> Sound!IndexedBit(z, a, y)
          [] op \in 128..191 -> Sound!IndexedRes(z, a, y, w)
          [] op > 191 -> Sound!IndexedSet(z, a, y, w)
  BY Zenon DEF Sound!IndexedCB
<1> HIDE DEF y, w
<1>5. Sound!Typed(Sound!IndexedRotate(z, a, y, w)) /\ Sound!Typed(Sound!IndexedRotateCarry(z, a, y, w))
  <2>1. /\ ByteResult(IF y = 0 THEN Sound!RLC(v) ELSE Sound!RRC(v))
        /\ ByteResult(IF y = 2 THEN Sound!RL(v, c) ELSE Sound!RR(v, c))
    BY <1>2, Rotations
  <2> QED BY <1>1, <2>1, IndexedResultTyped DEF Sound!IndexedRotate, Sound!IndexedRotateCarry
<1>6. Sound!Typed(Sound!IndexedShiftArithmetic(z, a, y, w)) /\ Sound!Typed(Sound!IndexedShiftLogical(z, a, y, w))
  <2>1. 0 \in 0..1
    OBVIOUS
  <2>2. /\ ByteResult(IF y = 4 THEN Sound!SLA(v) ELSE Sound!SRA(v))
        /\ ByteResult(IF y = 6 THEN Sound!SLL(v) ELSE Sound!SRL(v))
    BY <1>2, <2>1, Rotations
  <2> QED BY <1>1, <2>2, IndexedResultTyped DEF Sound!IndexedShiftArithmetic, Sound!IndexedShiftLogical
<1>7. Sound!Typed(Sound!IndexedBit(z, a, y))
  BY <1>2, BitFlags, FlagsTyped DEF Sound!IndexedBit
<1>8. Sound!Typed(Sound!IndexedRes(z, a, y, w)) /\ Sound!Typed(Sound!IndexedSet(z, a, y, w))
  <2>1. ByteResult(<<Sound!RES(y, v), z.f>>) /\ ByteResult(<<Sound!SET(y, v), z.f>>)
    BY <1>1, <1>2, BitsSetAndReset DEF ByteResult
  <2> QED BY <1>1, <2>1, IndexedResultTyped DEF Sound!IndexedRes, Sound!IndexedSet
<1> QED BY SMT, <1>3, <1>4, <1>5, <1>6, <1>7, <1>8
LEMMA DDFDTyped ==
  ASSUME NEW z, Sound!Typed(z), NEW ix \in Index, NEW op \in Sound!Octet PROVE Sound!Typed(Sound!DDFD(z, ix, op))
<1> DEFINE y == (op \div 8) % 8
           w == op % 8
<1>1. y \in 0..7 /\ w \in 0..7
  BY Fields8
<1>2. Sound!DDFD(z, ix, op) =
        CASE op \in IndexWords -> Sound!IndexWord(z, ix, op)
          [] op \in 64..127 /\ y \in {0, 1, 2, 3, 7} /\ w \in 4..6 -> Sound!IndexLoad(z, ix, y, w)
          [] op \in 96..111 -> Sound!IndexHalves(z, ix, y, w)
          [] op \in 112..119 \ {118} -> Sound!IndexStore(z, ix, w)
          [] op \in 128..191 /\ w \in 4..6 -> Sound!IndexAlu(z, ix, y, w)
          [] op = 203 -> Sound!IndexedCB(Sound!Skip(z, 2), Sound!Indexed(z, ix), Sound!ReadByte(z, Sound!Next16(z.pc)))
          [] op \in {225, 227, 229, 233, 249} -> Sound!IndexStack(z, ix, op)
          [] OTHER -> Sound!Reparse(z)
  BY Zenon DEF Sound!DDFD, IndexWords
<1>3. op \in 96..111 => y # 6
  OBVIOUS
<1>4. op \in 112..119 \ {118} => w # 6
  OBVIOUS
<1> HIDE DEF y, w
<1>5. op \in IndexWords => Sound!Typed(Sound!IndexWord(z, ix, op))
  BY IndexWordTyped
<1>6. /\ y # 6 => Sound!Typed(Sound!IndexLoad(z, ix, y, w)) /\ Sound!Typed(Sound!IndexHalves(z, ix, y, w))
      /\ w # 6 => Sound!Typed(Sound!IndexStore(z, ix, w))
      /\ Sound!Typed(Sound!IndexAlu(z, ix, y, w))
  BY <1>1, IndexMovesTyped
<1>7. Sound!Typed(Sound!IndexedCB(Sound!Skip(z, 2), Sound!Indexed(z, ix), Sound!ReadByte(z, Sound!Next16(z.pc))))
  <2>1. Sound!Typed(Sound!Skip(z, 2))
    BY SkipTyped
  <2> QED BY <2>1, IndexedTyped, ReadTyped, IndexedCBTyped
<1>8. op \in {225, 227, 229, 233, 249} => Sound!Typed(Sound!IndexStack(z, ix, op))
  BY IndexStackTyped
<1>9. Sound!Typed(Sound!Reparse(z))
  BY ReparseTyped
<1> QED BY SMT, <1>2, <1>3, <1>4, <1>5, <1>6, <1>7, <1>8, <1>9

(* The second half of opcodes_base.c. *)
LEMMA FetchedTyped == ASSUME NEW z, Sound!Typed(z) PROVE Sound!Typed(Sound!Fetched(z))
<1> DEFINE d == Sound!Skip(z, 1)
           q == (d.r + 1) % 128
<1>1. Sound!Typed(d)
  BY SkipTyped
<1>2. Sound!Fetched(z) = [d EXCEPT !.r = q]
  BY DEF Sound!Fetched
<1> HIDE DEF d
<1>3. q \in Sound!Counts
  BY <1>1, Fields DEF Sound!Counts
<1> HIDE DEF q
<1> QED BY <1>1, <1>2, <1>3, WithCount
LEMMA BranchFields ==
  ASSUME NEW z, Sound!Typed(z), NEW op \in 192..255, op \notin {195, 203, 211, 219, 227, 235, 243, 251}
  PROVE  Sound!Typed(Sound!Branch(z, (op \div 8) % 8, op % 8))
<1>1. (op \div 8) % 8 \in 0..7 /\ op % 8 \in {0, 1, 2, 4, 5, 6, 7}
  OBVIOUS
<1> QED BY <1>1, BranchTyped
LEMMA RowCTyped == ASSUME NEW z, Sound!Typed(z), NEW op \in 192..207 PROVE Sound!Typed(Sound!RowC(z, op))
<1>1. Sound!Typed(Sound!JP(z)) /\ Sound!Typed(Sound!RET(z)) /\ Sound!Typed(Sound!CALL(z))
  BY JumpsTyped
<1>2. Sound!Typed(Sound!CB(Sound!Fetched(z), Sound!Byte(z)))
  BY FetchedTyped, ByteTyped, CBTyped
<1>3. op \notin {195, 203} => Sound!Typed(Sound!Branch(z, (op \div 8) % 8, op % 8))
  BY BranchFields
<1> QED BY SMT, <1>1, <1>2, <1>3 DEF Sound!RowC
LEMMA RowDTyped == ASSUME NEW z, Sound!Typed(z), NEW op \in 208..223 PROVE Sound!Typed(Sound!RowD(z, op))
<1> DEFINE swap == {"B", "C", "D", "E", "H", "L"}
           u == Sound!Over([res \in swap |-> z.alt[res]], z.reg)
           v == Sound!Over([res \in swap |-> z.reg[res]], z.alt)
           swapped == [z EXCEPT !.reg = u, !.alt = v]
<1>1. Sound!Typed(swapped)
  <2>1. z.reg \in Sound!Registers /\ z.alt \in Sound!Alternates
    BY Fields
  <2>2. u \in Sound!Registers /\ v \in Sound!Alternates
    BY <2>1 DEF Sound!Over, Sound!Registers, Sound!Alternates, Sound!Names
  <2> HIDE DEF u, v
  <2> QED BY <2>2 DEF Sound!Typed
<1>2. Sound!Typed(Sound!WritePort(Sound!Skip(z, 1))) /\ Sound!Typed(Sound!Set(Sound!Skip(z, 1), "A", 0))
  <2>1. Sound!Typed(Sound!Skip(z, 1)) /\ 0 \in Sound!Octet
    BY SkipTyped DEF Sound!Octet
  <2> QED BY <2>1, PortTyped, SetTyped, Named
<1>3. Sound!Typed(Sound!DDFD(Sound!Fetched(z), "IX", Sound!Byte(z)))
  <2>1. "IX" \in Index
    BY DEF Index
  <2> QED BY <2>1, FetchedTyped, ByteTyped, DDFDTyped
<1>4. op \notin {211, 219} => Sound!Typed(Sound!Branch(z, (op \div 8) % 8, op % 8))
  BY BranchFields
<1>5. Sound!RowD(z, op) = CASE op = 211 -> Sound!WritePort(Sound!Skip(z, 1)) [] op = 217 -> swapped
                       [] op = 219 -> Sound!Set(Sound!Skip(z, 1), "A", 0)
                      [] op = 221 -> Sound!DDFD(Sound!Fetched(z), "IX", Sound!Byte(z))
                       [] OTHER -> Sound!Branch(z, (op \div 8) % 8, op % 8)
  BY SMT DEF Sound!RowD
<1> HIDE DEF swapped
<1> QED BY SMT, <1>1, <1>2, <1>3, <1>4, <1>5
LEMMA RowETyped == ASSUME NEW z, Sound!Typed(z), NEW op \in 224..239 PROVE Sound!Typed(Sound!RowE(z, op))
<1>1. Sound!Typed(Sound!Exchange(z, "HL"))
  BY WidesTyped, Named
<1>2. Sound!Pair(z, "HL") \in Sound!Address /\ Sound!Pair(z, "DE") \in Sound!Address
  BY PairTyped, Named
<1>3. Sound!Typed([z EXCEPT !.pc = Sound!Pair(z, "HL")])
  BY <1>2, WithPC
<1>4. Sound!Typed(Sound!SetPair(Sound!SetPair(z, "DE", Sound!Pair(z, "HL")), "HL", Sound!Pair(z, "DE")))
  BY <1>2, SetPairTyped, Named
<1>5. Sound!Typed(Sound!ED(Sound!Fetched(z), Sound!Byte(z)))
  BY FetchedTyped, ByteTyped, EDTyped
<1>6. op \notin {227, 235} => Sound!Typed(Sound!Branch(z, (op \div 8) % 8, op % 8))
  BY BranchFields
<1> QED BY SMT, <1>1, <1>3, <1>4, <1>5, <1>6 DEF Sound!RowE
LEMMA EITyped == ASSUME NEW z, Sound!Typed(z) PROVE Sound!Typed(Sound!EI(z))
BY DEF Sound!Typed, Sound!EI
LEMMA RowFTyped == ASSUME NEW z, Sound!Typed(z), NEW op \in 240..255 PROVE Sound!Typed(Sound!RowF(z, op))
<1> DEFINE v == Sound!ReadWord(z, z.sp)
           p == <<v \div 256, Sound!FSet(v % 256)>>
           w == 256 * z.reg.A + Sound!FByte(z.f)
           off == [z EXCEPT !.iff1 = FALSE, !.iff2 = FALSE]
<1>1. Sound!Typed(Sound!Result(Sound!Popped(z), "A", p))
  <2>1. v \in Sound!Address
    BY ReadWordTyped
  <2>2. ByteResult(p)
    BY <2>1, BytesOfWord, FlagsOfByte DEF ByteResult
  <2> HIDE DEF p
  <2> QED BY <2>2, PoppedTyped, ResultTyped, Named
<1>2. Sound!Typed(Sound!PUSH16(z, w))
  <2>1. w \in Sound!Address
    BY AIsOctet, FByteIsByte, WordOfBytes
  <2> HIDE DEF w
  <2> QED BY <2>1, PushTyped
<1>3. Sound!Typed(off)
  BY DEF Sound!Typed
<1>4. Sound!Typed([z EXCEPT !.sp = Sound!Pair(z, "HL")])
  BY PairTyped, Named, WithSP
<1>5. Sound!Typed(Sound!EI(z))
  BY EITyped
<1>6. Sound!Typed(Sound!DDFD(Sound!Fetched(z), "IY", Sound!Byte(z)))
  <2>1. "IY" \in Index
    BY DEF Index
  <2> QED BY <2>1, FetchedTyped, ByteTyped, DDFDTyped
<1>7. op \notin {243, 251} => Sound!Typed(Sound!Branch(z, (op \div 8) % 8, op % 8))
  BY BranchFields
<1>8. Sound!RowF(z, op) = CASE op = 241 -> Sound!Result(Sound!Popped(z), "A", p) [] op = 243 -> off
                       [] op = 245 -> Sound!PUSH16(z, w)
                      [] op = 249 -> [z EXCEPT !.sp = Sound!Pair(z, "HL")] [] op = 251 -> Sound!EI(z)
                      [] op = 253 -> Sound!DDFD(Sound!Fetched(z), "IY", Sound!Byte(z))
                       [] OTHER -> Sound!Branch(z, (op \div 8) % 8, op % 8)
  BY Zenon DEF Sound!RowF
<1> HIDE DEF p, w, off
<1> QED BY SMT, <1>1, <1>2, <1>3, <1>4, <1>5, <1>6, <1>7, <1>8
LEMMA ExecuteTyped == ASSUME NEW z, Sound!Typed(z), NEW op \in Sound!Octet PROVE Sound!Typed(Sound!Execute(z, op))
<1>1. (op \div 8) % 8 \in 0..7 /\ op % 8 \in 0..7
  BY Fields8
<1>2. op \in Int /\ op >= 0 /\ op <= 255
  BY DEF Sound!Octet
<1>3. /\ op < 16 => Sound!Typed(Sound!Row0(z, op))
      /\ op \in 16..31 => Sound!Typed(Sound!Row1(z, op))
      /\ op \in 32..47 => Sound!Typed(Sound!Row2(z, op))
      /\ op \in 48..63 => Sound!Typed(Sound!Row3(z, op))
  BY <1>2, Row0Typed, Row1Typed, Row2Typed, Row3Typed
<1>4. Sound!Typed(Sound!HALT(z))
  BY HaltTyped
<1>5. /\ Sound!Typed(Sound!LoadRegister(z, (op \div 8) % 8, op % 8))
      /\ Sound!Typed(Sound!Accumulate(z, (op \div 8) % 8, op % 8))
  BY <1>1, LoadTyped
<1>6. /\ op \in 192..207 => Sound!Typed(Sound!RowC(z, op))
      /\ op \in 208..223 => Sound!Typed(Sound!RowD(z, op))
      /\ op \in 224..239 => Sound!Typed(Sound!RowE(z, op))
      /\ op > 239 => Sound!Typed(Sound!RowF(z, op))
  BY <1>2, RowCTyped, RowDTyped, RowETyped, RowFTyped
<1> QED BY SMT, <1>2, <1>3, <1>4, <1>5, <1>6 DEF Sound!Execute

(* Interrupts. *)
LEMMA WokenTyped == ASSUME NEW z, Sound!Typed(z) PROVE Sound!Typed(Sound!Woken(z))
<1> DEFINE d == Sound!Skip(z, 1)
<1>1. Sound!Typed(d)
  BY SkipTyped
<1>2. Sound!Woken(z) = IF z.halted THEN [d EXCEPT !.halted = FALSE] ELSE z
  BY DEF Sound!Woken
<1> HIDE DEF d
<1>3. Sound!Typed([d EXCEPT !.halted = FALSE])
  BY <1>1 DEF Sound!Typed
<1> QED BY <1>2, <1>3
LEMMA WokenPushed == ASSUME NEW z, Sound!Typed(z) PROVE Sound!Typed(Sound!PUSH16(Sound!Woken(z), Sound!Woken(z).pc))
BY WokenTyped, Fields, PushTyped
LEMMA InterruptTyped == ASSUME NEW z, Sound!Typed(z) PROVE Sound!Typed(Sound!Interrupt(z))
<1> DEFINE s == Sound!PUSH16(Sound!Woken(z), Sound!Woken(z).pc)
           pc == IF z.im = 2 THEN Sound!ReadWord(s, (256 * z.i + 255) % 65536) ELSE 56
           q == (s.r + 1) % 128
<1>1. Sound!Typed(s)
  BY WokenPushed
<1>2. Sound!Interrupt(z) = [s EXCEPT !.iff1 = FALSE, !.iff2 = FALSE, !.r = q, !.pc = pc]
  BY DEF Sound!Interrupt
<1> HIDE DEF s
<1>3. q \in Sound!Counts
  BY <1>1, Fields DEF Sound!Counts
<1>4. pc \in Sound!Address
  <2>1. 56 \in Sound!Address
    BY Addresses
  <2> QED BY <1>1, <2>1, ReadWordTyped
<1> HIDE DEF q, pc
<1> QED BY <1>1, <1>2, <1>3, <1>4 DEF Sound!Typed
LEMMA NMITyped == ASSUME NEW z, Sound!Typed(z) PROVE Sound!Typed(Sound!NMI(z))
<1> DEFINE s == Sound!PUSH16(Sound!Woken(z), Sound!Woken(z).pc)
<1>1. Sound!Typed(s)
  BY WokenPushed
<1>2. Sound!NMI(z) = [s EXCEPT !.iff1 = FALSE, !.fresh = FALSE, !.pc = 102]
  BY DEF Sound!NMI
<1>3. 102 \in Sound!Address
  BY Addresses
<1> HIDE DEF s
<1> QED BY <1>1, <1>2, <1>3 DEF Sound!Typed
LEMMA DoOpcodeTyped == ASSUME NEW z, Sound!Typed(z) PROVE Sound!Typed(Sound!DoOpcode(z))
<1> DEFINE q == [z EXCEPT !.fresh = FALSE, !.out = 0]
<1>1. Sound!Typed(q)
  <2>1. 0 \in Sound!Outputs
    BY DEF Sound!Outputs
  <2> QED BY <2>1 DEF Sound!Typed
<1>2. Sound!DoOpcode(z) = IF Sound!Accepts(z) THEN Sound!Interrupt(q) ELSE Sound!Execute(Sound!Fetched(q), Sound!Byte(q))
  BY Zenon DEF Sound!DoOpcode
<1> HIDE DEF q
<1>3. Sound!Typed(Sound!Interrupt(q))
  BY <1>1, InterruptTyped
<1>4. Sound!Typed(Sound!Execute(Sound!Fetched(q), Sound!Byte(q)))
  BY <1>1, FetchedTyped, ByteTyped, ExecuteTyped
<1> QED BY <1>2, <1>3, <1>4
LEMMA ZeroedTyped == ASSUME NEW z, Sound!Typed(z) PROVE Sound!Typed(Sound!Zeroed(z))
<1> DEFINE u == [res \in Sound!Names \cup Sound!Halves |-> 0]
           v == [res \in Sound!Names |-> 0]
<1>1. u \in Sound!Registers /\ v \in Sound!Alternates
  BY DEF Sound!Registers, Sound!Alternates, Sound!Octet
<1>2. /\ {} \in Sound!FlagSets /\ 0 \in Sound!Address /\ 0 \in Sound!Octet /\ 0 \in Sound!Counts
      /\ 0 \in Sound!Modes /\ 0 \in Sound!Outputs
  BY Addresses DEF Sound!FlagSets, Sound!Octet, Sound!Counts, Sound!Modes, Sound!Outputs
<1> DEFINE d == [z EXCEPT !.reg = u, !.f = {}, !.alt = v, !.altf = {}, !.sp = 0]
           e == [d EXCEPT !.pc = 0, !.i = 0, !.r = 0, !.r7 = 0, !.iff1 = FALSE]
<1>3. Sound!Zeroed(z) = [e EXCEPT !.iff2 = FALSE, !.im = 0, !.halted = FALSE, !.fresh = TRUE, !.out = 0]
  BY SMT DEF Sound!Zeroed
<1> HIDE DEF u, v
<1>4. Sound!Typed(d)
  BY <1>1, <1>2 DEF Sound!Typed
<1> HIDE DEF d
<1>5. Sound!Typed(e)
  BY <1>2, <1>4 DEF Sound!Typed
<1> HIDE DEF e
<1> QED BY <1>2, <1>3, <1>5 DEF Sound!Typed

-----------------------------------------------------------------------------

(* The main processor: how wide a long is. *)
LEMMA LongHighBounds == ASSUME NEW x \in 256..65536 PROVE x \in Int /\ x >= 256 /\ x <= 65536
BY SMTT(60)
LEMMA LongHighRange == LongHigh \in Int /\ LongHigh >= 256 /\ LongHigh <= 65536
BY SMTT(60), LongHighAssumption, LongHighBounds DEF LongHighAssumption

(* Half of the values have the sign bit. *)
LEMMA HalfIsPositive ==
  ASSUME NEW s \in Size
  PROVE  Half(s) \in Nat \ {0} /\ Mod(s) = 2 * Half(s)
BY LongHighRange DEF Size, Half, Mod

(* A difference is the distance of the operands on the circle. *)
LEMMA Difference ==
  ASSUME NEW s \in Size, NEW a \in Value(s), NEW b \in Value(s)
  PROVE  /\ a >= b => Wrap(s, a - b) = a - b
         /\ a < b => Wrap(s, a - b) = a - b + Mod(s)
         /\ Wrap(s, a - b) \in Value(s)
BY HalfIsPositive DEF Wrap, Value

(* What the flags of a subtraction say, one by one. *)
LEMMA FlagsOfDifference ==
  ASSUME NEW s \in Size, NEW a \in Value(s), NEW b \in Value(s), NEW F
  PROVE  LET q == Wrap(s, a - b)
             G == GenericSUB(s, a, b, F)[2]
         IN  /\ "Z" \in G <=> q = 0
             /\ "S" \in G <=> Negative(s, q)
             /\ "C" \in G <=> a - b < 0
             /\ "V" \in G <=> ~SameSign(s, a, b) /\ SameSign(s, b, q)
BY Zenon DEF GenericSUB, Outcome, Only

(* The sign of the difference is wrong exactly when it overflows. *)
LEMMA SignAndOverflow ==
  ASSUME NEW s \in Size, NEW a \in Value(s), NEW b \in Value(s)
  PROVE  LET q == Wrap(s, a - b)
             overflow == ~SameSign(s, a, b) /\ SameSign(s, b, q)
         IN  (Negative(s, q) <=> ~overflow) <=> Signed(s, a) < Signed(s, b)
<1> DEFINE q == Wrap(s, a - b)
           Agrees == (Negative(s, q) <=> ~(~SameSign(s, a, b) /\ SameSign(s, b, q))) <=> Signed(s, a) < Signed(s, b)
<1>1. Half(s) \in Nat \ {0} /\ Mod(s) = 2 * Half(s) /\ a \in Nat /\ b \in Nat /\ a < Mod(s) /\ b < Mod(s)
  BY HalfIsPositive DEF Value
<1>2. q = IF a >= b THEN a - b ELSE a - b + Mod(s)
  BY <1>1, Difference
<1> HIDE DEF q
<1>3. ASSUME a >= Half(s), b >= Half(s) PROVE Agrees
  BY <1>1, <1>2, <1>3 DEF SameSign, Negative, Signed
<1>4. ASSUME a >= Half(s), b < Half(s) PROVE Agrees
  BY <1>1, <1>2, <1>4 DEF SameSign, Negative, Signed
<1>5. ASSUME a < Half(s), b >= Half(s) PROVE Agrees
  BY <1>1, <1>2, <1>5 DEF SameSign, Negative, Signed
<1>6. ASSUME a < Half(s), b < Half(s) PROVE Agrees
  BY <1>1, <1>2, <1>6 DEF SameSign, Negative, Signed
<1>7. Agrees
  BY <1>1, <1>3, <1>4, <1>5, <1>6
<1> QED BY <1>7 DEF q
LEMMA SignedIsInjective ==
  ASSUME NEW s \in Size, NEW a \in Value(s), NEW b \in Value(s)
  PROVE  /\ Signed(s, a) \in Int /\ Signed(s, b) \in Int
         /\ Signed(s, a) = Signed(s, b) <=> a = b
BY HalfIsPositive DEF Value, Signed, Negative

(* What each condition asks of the flags. *)
LEMMA Conditions ==
  ASSUME NEW F
  PROVE  /\ conditionCode(1, F) <=> ~("S" \in F <=> "V" \in F)
         /\ conditionCode(2, F) <=> "Z" \in F \/ ~("S" \in F <=> "V" \in F)
         /\ conditionCode(3, F) <=> "C" \in F \/ "Z" \in F
         /\ conditionCode(6, F) <=> "Z" \in F
         /\ conditionCode(7, F) <=> "C" \in F
         /\ conditionCode(9, F) <=> ("S" \in F <=> "V" \in F)
         /\ conditionCode(10, F) <=> "Z" \notin F /\ ("S" \in F <=> "V" \in F)
         /\ conditionCode(11, F) <=> "C" \notin F /\ "Z" \notin F
         /\ conditionCode(14, F) <=> "Z" \notin F
         /\ conditionCode(15, F) <=> "C" \notin F
BY DEF conditionCode

(* After a comparison of any two operands of any size, each condition holds *)
(* exactly when the operands are in its order, as signed or as unsigned     *)
(* numbers: what the branches after a CP rely on, proved for all values     *)
(* (GenericSUB_B, _W and _L and conditionCode).                            *)
THEOREM ComparisonsOrder ==
  ASSUME NEW s \in Size, NEW a \in Value(s), NEW b \in Value(s), NEW F
  PROVE  LET Shows(cc) == conditionCode(cc, GenericSUB(s, a, b, F)[2])
             x == Signed(s, a)
             y == Signed(s, b)
         IN  /\ Shows(6) <=> a = b
             /\ Shows(14) <=> a # b
             /\ Shows(7) <=> a < b
             /\ Shows(15) <=> a >= b
             /\ Shows(3) <=> a <= b
             /\ Shows(11) <=> a > b
             /\ Shows(1) <=> x < y
             /\ Shows(9) <=> x >= y
             /\ Shows(2) <=> x <= y
             /\ Shows(10) <=> x > y
<1> DEFINE q == Wrap(s, a - b)
           G == GenericSUB(s, a, b, F)[2]
           x == Signed(s, a)
           y == Signed(s, b)
<1>1. a \in Nat /\ b \in Nat /\ x \in Int /\ y \in Int /\ (x = y <=> a = b)
  BY SignedIsInjective DEF Value
<1>2. "Z" \in G <=> a = b
  <2>1. Mod(s) \in Nat /\ a < Mod(s) /\ b < Mod(s)
    BY <1>1, HalfIsPositive DEF Value
  <2>2. q = IF a >= b THEN a - b ELSE a - b + Mod(s)
    BY <1>1, <2>1, Difference
  <2>3. q = 0 <=> a = b
    BY <1>1, <2>1, <2>2
  <2> QED BY <2>3, FlagsOfDifference
<1>3. "C" \in G <=> a < b
  <2>1. a - b < 0 <=> a < b
    BY <1>1
  <2> QED BY <2>1, FlagsOfDifference
<1>4. ~("S" \in G <=> "V" \in G) <=> x < y
  <2>1. ("S" \in G <=> Negative(s, q)) /\ ("V" \in G <=> ~SameSign(s, a, b) /\ SameSign(s, b, q))
    BY FlagsOfDifference
  <2>2. (Negative(s, q) <=> ~(~SameSign(s, a, b) /\ SameSign(s, b, q))) <=> x < y
    BY SignAndOverflow
  <2> QED BY <2>1, <2>2, Zenon
<1> HIDE DEF q, G, x, y
<1>5. /\ a <= b <=> a < b \/ a = b
      /\ a >= b <=> ~(a < b)
      /\ a > b <=> ~(a < b) /\ a # b
      /\ x <= y <=> x < y \/ a = b
      /\ x >= y <=> ~(x < y)
      /\ x > y <=> ~(x < y) /\ a # b
  BY <1>1
<1>6. /\ conditionCode(6, G) <=> a = b
      /\ conditionCode(14, G) <=> a # b
      /\ conditionCode(7, G) <=> a < b
      /\ conditionCode(15, G) <=> a >= b
      /\ conditionCode(3, G) <=> a <= b
      /\ conditionCode(11, G) <=> a > b
      /\ conditionCode(1, G) <=> x < y
      /\ conditionCode(9, G) <=> x >= y
      /\ conditionCode(2, G) <=> x <= y
      /\ conditionCode(10, G) <=> x > y
  BY <1>2, <1>3, <1>4, <1>5, Conditions, Zenon
<1> QED BY <1>6 DEF G, x, y

(* A subtraction takes back what an addition put in, carries and overflows *)
(* or not, and both stay within the size (GenericADD, GenericSUB).          *)
THEOREM SubtractionUndoesAddition ==
  ASSUME NEW s \in Size, NEW a \in Value(s), NEW b \in Value(s), NEW F, NEW G
  PROVE  LET sum == GenericADD(s, a, b, F)[1]
         IN  sum \in Value(s) /\ GenericSUB(s, sum, b, G)[1] = a
<1>1. Half(s) \in Nat \ {0} /\ Mod(s) = 2 * Half(s) /\ a \in Nat /\ b \in Nat /\ a < Mod(s) /\ b < Mod(s)
  BY HalfIsPositive DEF Value
<1>2. GenericADD(s, a, b, F)[1] = Wrap(s, a + b)
  <2>1. Carried(F \ {"C"}) = 0
    BY DEF Carried
  <2>2. GenericADD(s, a, b, F)[1] = Wrap(s, a + b + Carried(F \ {"C"}))
    BY DEF GenericADD, GenericADC
  <2>3. a + b + 0 = a + b
    BY <1>1
  <2> QED BY <2>1, <2>2, <2>3, Zenon
<1>3. Wrap(s, a + b) \in Value(s) /\ Wrap(s, Wrap(s, a + b) - b) = a
  BY <1>1 DEF Wrap, Value
<1>4. \A d : GenericSUB(s, d, b, G)[1] = Wrap(s, d - b)
  BY DEF GenericSUB
<1> QED BY <1>2, <1>3, <1>4, Zenon

(* The sizes, and the values of each. *)
LEMMA Sizes ==
  /\ LongHigh \in Int /\ LongHigh >= 256 /\ LongHigh <= 65536
  /\ Mod(0) = 256 /\ Mod(1) = 65536 /\ Mod(2) = 65536 * LongHigh /\ Mod(2) >= 16777216
  /\ Half(0) = 128 /\ Half(1) = 32768 /\ Half(2) = 32768 * LongHigh
BY LongHighRange DEF Half, Mod
LEMMA ThreeSizes == ASSUME NEW s \in Size PROVE s = 0 \/ s = 1 \/ s = 2
BY DEF Size
LEMMA ValueOfByte == \A v : v \in Value(0) <=> v \in Octet
<1>1. Value(0) = Octet
  <2>1. Mod(0) - 1 = 255
    BY Sizes
  <2> QED BY <2>1 DEF Value, Octet
<1> QED BY <1>1
LEMMA Values ==
  ASSUME NEW s \in Size
  PROVE  /\ \A v \in Value(s) : v \in Int /\ 0 <= v /\ v < Mod(s)
         /\ \A v \in Int : 0 <= v /\ v < Mod(s) => v \in Value(s)
         /\ Mod(s) \in Int /\ Mod(s) >= 256
<1>1. Mod(s) \in Int /\ Mod(s) >= 256
  BY ThreeSizes, Sizes
<1> DEFINE mod == Mod(s)
<1> HIDE DEF mod
<1>2. /\ mod \in Int
      /\ (\A v : v \in 0..(mod - 1) => v \in Int /\ 0 <= v /\ v < mod)
      /\ (\A v \in Int : 0 <= v /\ v < mod => v \in 0..(mod - 1))
  BY <1>1 DEF mod
<1> QED BY <1>1, <1>2 DEF Value, mod
LEMMA OctetIsValue == ASSUME NEW s \in Size, NEW v \in Octet PROVE v \in Value(s)
BY Values DEF Octet
LEMMA ModOfInt == ASSUME NEW s \in Size, NEW x \in Int PROVE x % Mod(s) \in Value(s)
<1>1. Mod(s) \in Int /\ Mod(s) >= 256
  BY Values
<1>2. x % Mod(s) \in Int /\ 0 <= x % Mod(s) /\ x % Mod(s) < Mod(s)
  BY <1>1
<1> QED BY <1>2, Values
LEMMA WrapIsValue ==
  ASSUME NEW s \in Size, NEW x \in Int, -Mod(s) <= x, x < 2 * Mod(s) PROVE Wrap(s, x) \in Value(s)
<1>1. Mod(s) \in Int /\ Mod(s) >= 256
  BY Values
<1>2. Wrap(s, x) \in Int /\ 0 <= Wrap(s, x) /\ Wrap(s, x) < Mod(s)
  BY <1>1 DEF Wrap
<1> QED BY <1>2, Values
LEMMA SignedIsInt == ASSUME NEW s \in Size, NEW v \in Value(s) PROVE Signed(s, v) \in Int
BY SignedIsInjective

(* The four bytes of a number. *)
LEMMA Powers256 == 256^0 = 1 /\ 256^1 = 256 /\ 256^2 = 65536 /\ 256^3 = 16777216
OBVIOUS
LEMMA NthByteIsOctet == ASSUME NEW v \in Int, NEW k \in 0..3 PROVE NthByte(v, k) \in Octet
<1>1. k = 0 \/ k = 1 \/ k = 2 \/ k = 3
  OBVIOUS
<1>2. v \div 1 \in Int /\ v \div 256 \in Int /\ v \div 65536 \in Int /\ v \div 16777216 \in Int
  OBVIOUS
<1>3. \A x \in Int : x % 256 \in Octet
  BY DEF Octet
<1>4. NthByte(v, 0) = (v \div 1) % 256 /\ NthByte(v, 1) = (v \div 256) % 256
      /\ NthByte(v, 2) = (v \div 65536) % 256 /\ NthByte(v, 3) = (v \div 16777216) % 256
  BY Powers256 DEF NthByte
<1> QED BY <1>1, <1>2, <1>3, <1>4

(* Flags and bytes of the main processor. *)
LEMMA SRFlagNames == SRFlag = {"C", "N", "V", "X", "H", "Y", "Z", "S"}
BY DEF SRFlag, FlagWeight
LEMMA OnlyItself == \A p, g : \A x \in Only(p, g) : x = g
BY DEF Only
LEMMA MainFlagged ==
  /\ \A p : \A g \in SRFlag : Only(p, g) \in FlagSets
  /\ \A F \in FlagSets : \A G \in FlagSets : F \cup G \in FlagSets
  /\ \A F \in FlagSets : \A G : F \cap G \in FlagSets /\ F \ G \in FlagSets
  /\ \A g \in SRFlag : {g} \in FlagSets
  /\ \A g \in SRFlag : \A h \in SRFlag : {g, h} \in FlagSets
  /\ {} \in FlagSets
BY DEF Only, FlagSets
LEMMA StatusByteIsOctet == ASSUME NEW F PROVE StatusByte(F) \in Octet
BY Powers DEF StatusByte, FlagWeight, Octet
LEMMA StatusFlagsTyped == ASSUME NEW v PROVE StatusFlags(v) \in FlagSets
BY DEF StatusFlags, FlagSets
LEMMA MainByteOfBits == ASSUME NEW bits PROVE ByteOf(bits) \in Octet
BY Powers DEF ByteOf, Octet

(* The parts of the main processor, and what may be put into each. *)
LEMMA CpuFields ==
  ASSUME NEW c, Typed(c)
  PROVE  /\ c.regs \in RegisterBanks /\ c.pc \in Value(2) /\ c.sh \in Octet /\ c.f \in FlagSets /\ c.fdash \in Octet
         /\ c.mem \in Value(2) /\ OctetsIn(c.ram) /\ c.ipending \in Requests /\ c.prio \in Levels
         /\ c.dma \in DmaRegisters /\ c.bus \in BusWrites
BY DEF Typed
LEMMA CpuRegs == ASSUME NEW c, Typed(c), NEW v, v \in RegisterBanks PROVE Typed([c EXCEPT !.regs = v])
BY DEF Typed
LEMMA CpuPC == ASSUME NEW c, Typed(c), NEW v, v \in Value(2) PROVE Typed([c EXCEPT !.pc = v])
BY DEF Typed
LEMMA CpuStatus == ASSUME NEW c, Typed(c), NEW v, v \in Octet PROVE Typed([c EXCEPT !.sh = v])
BY DEF Typed
LEMMA CpuFlags == ASSUME NEW c, Typed(c), NEW v, v \in FlagSets PROVE Typed([c EXCEPT !.f = v])
BY DEF Typed
LEMMA CpuDash == ASSUME NEW c, Typed(c), NEW v, v \in Octet PROVE Typed([c EXCEPT !.fdash = v])
BY DEF Typed
LEMMA CpuMem == ASSUME NEW c, Typed(c), NEW v, v \in Value(2) PROVE Typed([c EXCEPT !.mem = v])
BY DEF Typed
LEMMA CpuRam == ASSUME NEW c, Typed(c), NEW v, OctetsIn(v) PROVE Typed([c EXCEPT !.ram = v])
BY DEF Typed
LEMMA CpuPending == ASSUME NEW c, Typed(c), NEW v, v \in Requests PROVE Typed([c EXCEPT !.ipending = v])
BY DEF Typed
LEMMA CpuPrio == ASSUME NEW c, Typed(c), NEW v, v \in Levels PROVE Typed([c EXCEPT !.prio = v])
BY DEF Typed
LEMMA CpuDma == ASSUME NEW c, Typed(c), NEW v, v \in DmaRegisters PROVE Typed([c EXCEPT !.dma = v])
BY DEF Typed
LEMMA CpuBus == ASSUME NEW c, Typed(c), NEW v, v \in BusWrites PROVE Typed([c EXCEPT !.bus = v])
BY DEF Typed
LEMMA FlagsPut == ASSUME NEW c, Typed(c), NEW F, F \in FlagSets PROVE Typed(SetF(c, F))
BY CpuFlags DEF SetF

(* Registers. *)
LEMMA RegisterIsValue == ASSUME NEW c, Typed(c), NEW k \in 0..20 PROVE c.regs[k] \in Value(2)
BY CpuFields DEF RegisterBanks
LEMMA CpuRegister ==
  ASSUME NEW c, Typed(c), NEW k \in 0..20, NEW v, v \in Value(2) PROVE Typed([c EXCEPT !.regs[k] = v])
<1>1. [c.regs EXCEPT ![k] = v] \in RegisterBanks
  BY CpuFields DEF RegisterBanks
<1>2. [c EXCEPT !.regs[k] = v] = [c EXCEPT !.regs = [c.regs EXCEPT ![k] = v]]
  OBVIOUS
<1> QED BY <1>1, <1>2, CpuRegs
LEMMA StackPointer ==
  ASSUME NEW c, Typed(c)
  PROVE  /\ c.regs[XSP] \in Value(2)
         /\ \A v \in Value(2) : Typed([c EXCEPT !.regs[XSP] = v])
<1>1. XSP \in 0..20
  BY DEF XSP
<1> QED BY <1>1, RegisterIsValue, CpuRegister
LEMMA BankIsSmall == ASSUME NEW c, Typed(c) PROVE statusRFP(c) \in 0..3
BY CpuFields DEF statusRFP, Octet
LEMMA PlaceIsRegister == ASSUME NEW c, Typed(c), NEW code \in Octet PROVE Place(c, code) \in 0..20
<1> DEFINE b == statusRFP(c)
<1>1. (code % 16) \div 4 \in 0..3 /\ code \div 4 \in Int /\ code \in Int /\ 0 <= code /\ code <= 255
  BY DEF Octet
<1>2. code < 64 => code \div 4 \in 0..15
  BY <1>1
<1>3. b \in 0..3
  BY BankIsSmall
<1> HIDE DEF b
<1>4. 4 * b + (code % 16) \div 4 \in 0..15 /\ (b # 0 => 4 * (b - 1) + (code % 16) \div 4 \in 0..15)
      /\ 16 + (code % 16) \div 4 \in 0..20 /\ 20 \in 0..20
  BY <1>1, <1>3
<1>5. \/ code < 64 \/ code \in 64..207 \/ code \in 208..223 \/ code \in 224..239 \/ code > 239
  BY <1>1
<1> QED BY <1>1, <1>2, <1>4, <1>5 DEF Place, rErr, b

Units == {1, 256, 65536, 16777216}
LEMMA LaneIsUnit ==
  ASSUME NEW place, NEW s \in Size, NEW code \in Octet
  PROVE  /\ Lane(place, s, code) \in Units
         /\ s = 1 => Lane(place, s, code) \in {1, 65536}
         /\ s = 2 => Lane(place, s, code) = 1
<1>1. code % 4 = 0 \/ code % 4 = 1 \/ code % 4 = 2 \/ code % 4 = 3
  BY DEF Octet
<1>2. ByteLane(code) \in Units
  <2>1. (code % 4) + 1 = 1 \/ (code % 4) + 1 = 2 \/ (code % 4) + 1 = 3 \/ (code % 4) + 1 = 4
    BY <1>1
  <2> QED BY <2>1 DEF ByteLane, Units
<1>3. WordLane(code) \in {1, 65536}
  <2>1. ((code % 4) \div 2) + 1 = 1 \/ ((code % 4) \div 2) + 1 = 2
    BY <1>1
  <2> QED BY <2>1 DEF WordLane
<1> QED BY <1>2, <1>3, ThreeSizes DEF Lane, Units
LEMMA RegisterPart == ASSUME NEW x \in Value(2), NEW unit \in Units PROVE x \div unit \in Int
<1>1. x \in Int
  BY Values DEF Size
<1> QED BY <1>1 DEF Units
LEMMA RCodeIsValue == ASSUME NEW c, Typed(c), NEW s \in Size, NEW code \in Octet PROVE rCode(c, s, code) \in Value(s)
<1> DEFINE place == Place(c, code)
           unit == Lane(place, s, code)
           x == c.regs[place]
<1>1. x \in Value(2) /\ unit \in Units
  BY PlaceIsRegister, RegisterIsValue, LaneIsUnit
<1>2. rCode(c, s, code) = (x \div unit) % Mod(s)
  BY DEF rCode
<1> HIDE DEF x, unit
<1>3. x \div unit \in Int
  BY <1>1, RegisterPart
<1> QED BY <1>2, <1>3, ModOfInt

(* What fits a register of a size: the code cuts a long, and no other value, to its width. *)
Fits(s, v) == v \in Int /\ (s # 2 => v \in Value(s))
LEMMA ValueFits == ASSUME NEW s \in Size, NEW v \in Value(s) PROVE Fits(s, v)
BY Values DEF Fits
LEMMA LongQuarters == \E q \in Int : LongHigh = 256 * q /\ 1 <= q /\ q <= 256 /\ Mod(2) = 16777216 * q
<1> DEFINE q == LongHigh \div 256
<1>1. LongHigh % 256 = 0
  BY SMTT(60), LongHighAssumption
<1>2. q \in Int /\ LongHigh = 256 * q /\ 1 <= q /\ q <= 256
  BY <1>1, LongHighRange
<1> QED BY <1>2, Sizes

(* A field of a register changes, and the rest stays. *)
FieldPut(s, unit, x, v) == x + unit * ((v % (Mod(2) \div unit)) - ((x \div unit) % Mod(s)))
LEMMA FieldPutLong == ASSUME NEW x \in Value(2), NEW v \in Int PROVE FieldPut(2, 1, x, v) \in Value(2)
<1>1. Mod(2) \in Int /\ Mod(2) >= 256 /\ x \in Int /\ 0 <= x /\ x < Mod(2)
  BY Values DEF Size
<1>2. Mod(2) \div 1 = Mod(2) /\ x \div 1 = x /\ x % Mod(2) = x
  BY <1>1
<1>3. v % Mod(2) \in Value(2) /\ v % Mod(2) \in Int
  BY ModOfInt, Values DEF Size
<1>4. FieldPut(2, 1, x, v) = v % Mod(2)
  BY <1>1, <1>2, <1>3 DEF FieldPut
<1> QED BY <1>3, <1>4
LEMMA DivisionBounds ==
  ASSUME NEW x \in Int, NEW unit \in {65536, 16777216}
  PROVE  x \div unit \in Int /\ unit * (x \div unit) <= x /\ x < unit * (x \div unit) + unit
OBVIOUS
LEMMA UpperWord ==
  ASSUME NEW x \in Int, 0 <= x, NEW n \in Int, x < 65536 * n PROVE 0 <= x \div 65536 /\ x \div 65536 < n
OBVIOUS
LEMMA UpperByte ==
  ASSUME NEW x \in Int, 0 <= x, NEW n \in Int, x < 16777216 * n PROVE 0 <= x \div 16777216 /\ x \div 16777216 < n
OBVIOUS
LEMMA FieldPutShort ==
  ASSUME NEW q \in Int, 1 <= q, q <= 256, NEW mod \in {256, 65536}, NEW unit \in Units, mod = 65536 => unit \in {1, 65536},
         NEW x \in Int, 0 <= x, x < 16777216 * q, NEW v \in Int, 0 <= v, v < mod
  PROVE  LET y == x + unit * ((v % ((16777216 * q) \div unit)) - ((x \div unit) % mod)) IN y \in Int /\ 0 <= y /\ y < 16777216 * q
<1>1. (16777216 * q) \div 1 = 16777216 * q /\ (16777216 * q) \div 256 = 65536 * q
      /\ (16777216 * q) \div 65536 = 256 * q /\ (16777216 * q) \div 16777216 = q
  OBVIOUS
<1>2. CASE unit = 1
  <2>1. v % (16777216 * q) = v
    OBVIOUS
  <2>2. CASE mod = 256
    BY <1>1, <1>2, <2>1, <2>2
  <2>3. CASE mod = 65536
    BY <1>1, <1>2, <2>1, <2>3
  <2> QED BY <2>2, <2>3
<1>3. CASE unit = 256
  <2>1. v % (65536 * q) = v
    OBVIOUS
  <2>2. mod = 256
    BY <1>3
  <2> QED BY <1>1, <1>3, <2>1, <2>2
<1>4. CASE unit = 65536
  <2>1. CASE mod = 256
    <3>1. v % (256 * q) = v
      BY <2>1
    <3> QED BY <1>1, <1>4, <2>1, <3>1
  <2>2. CASE mod = 65536
    <3> DEFINE h == x \div 65536
               w == v % (256 * q)
    <3>1. h \in Int /\ 65536 * h <= x /\ x < 65536 * h + 65536
      BY DivisionBounds
    <3>2. 0 <= h /\ h < 256 * q
      <4>1. 256 * q \in Int /\ x < 65536 * (256 * q)
        OBVIOUS
      <4> QED BY <4>1, UpperWord
    <3>3. h % 65536 = h
      <4> HIDE DEF h
      <4> QED BY <3>1, <3>2
    <3>4. w \in Int /\ 0 <= w /\ w < 256 * q
      OBVIOUS
    <3>5. x + unit * ((v % ((16777216 * q) \div unit)) - ((x \div unit) % mod)) = x + 65536 * (w - h)
      BY <1>1, <1>4, <2>2, <3>3
    <3> HIDE DEF h, w
    <3> QED BY <3>1, <3>2, <3>4, <3>5
  <2> QED BY <2>1, <2>2
<1>5. CASE unit = 16777216
  <2>1. mod = 256
    BY <1>5
  <2> DEFINE h == x \div 16777216
             w == v % q
  <2>2. h \in Int /\ 16777216 * h <= x /\ x < 16777216 * h + 16777216
    BY DivisionBounds
  <2>3. 0 <= h /\ h < q
    BY UpperByte
  <2>4. h % 256 = h
    <3> HIDE DEF h
    <3> QED BY <2>2, <2>3
  <2>5. w \in Int /\ 0 <= w /\ w < q
    OBVIOUS
  <2>6. x + unit * ((v % ((16777216 * q) \div unit)) - ((x \div unit) % mod)) = x + 16777216 * (w - h)
    <3>1. (16777216 * q) \div unit = q
      BY <1>1, <1>5
    <3>2. (x \div unit) % mod = h
      BY <1>5, <2>1, <2>4
    <3> QED BY <1>5, <3>1, <3>2
  <2> HIDE DEF h, w
  <2> QED BY <2>2, <2>3, <2>5, <2>6
<1> QED BY <1>2, <1>3, <1>4, <1>5 DEF Units
LEMMA FieldPutTyped ==
  ASSUME NEW s \in Size, NEW unit \in Units, s = 1 => unit \in {1, 65536}, s = 2 => unit = 1,
         NEW x \in Value(2), NEW v, Fits(s, v)
  PROVE  FieldPut(s, unit, x, v) \in Value(2)
<1>1. CASE s = 2
  BY <1>1, FieldPutLong DEF Fits
<1>2. CASE s # 2
  <2>1. PICK q \in Int : 1 <= q /\ q <= 256 /\ Mod(2) = 16777216 * q
    BY LongQuarters
  <2>2. Mod(s) \in {256, 65536} /\ (Mod(s) = 65536 => unit \in {1, 65536})
    BY <1>2, ThreeSizes, Sizes
  <2>3. x \in Int /\ 0 <= x /\ x < 16777216 * q
    <3>1. 2 \in Size
      BY DEF Size
    <3>2. x \in Int /\ 0 <= x /\ x < Mod(2)
      BY <3>1, Values
    <3> QED BY <2>1, <3>2
  <2>4. v \in Int /\ 0 <= v /\ v < Mod(s)
    BY <1>2, Values DEF Fits
  <2> DEFINE mod == Mod(s)
             y == x + unit * ((v % ((16777216 * q) \div unit)) - ((x \div unit) % mod))
  <2>5. FieldPut(s, unit, x, v) = y
    BY <2>1 DEF FieldPut
  <2> HIDE DEF mod
  <2>6. y \in Int /\ 0 <= y /\ y < 16777216 * q
    BY <2>1, <2>2, <2>3, <2>4, FieldPutShort DEF mod
  <2> HIDE DEF y
  <2> QED BY <2>1, <2>5, <2>6, Values DEF Size
<1> QED BY <1>1, <1>2
LEMMA SetCodeTyped ==
  ASSUME NEW c, Typed(c), NEW s \in Size, NEW code \in Octet, NEW v, Fits(s, v) PROVE Typed(SetCode(c, s, code, v))
<1> DEFINE place == Place(c, code)
           unit == Lane(place, s, code)
           x == FieldPut(s, unit, c.regs[place], v)
<1>1. place \in 0..20 /\ c.regs[place] \in Value(2)
  BY PlaceIsRegister, RegisterIsValue
<1>2. x \in Value(2)
  BY <1>1, LaneIsUnit, FieldPutTyped
<1>3. SetCode(c, s, code, v) = [c EXCEPT !.regs[place] = x]
  BY DEF SetCode, FieldPut
<1> HIDE DEF x, place
<1> QED BY <1>1, <1>2, <1>3, CpuRegister
LEMMA CodeIsOctet == ASSUME NEW s \in Size, NEW n \in 0..7 PROVE Code(s, n) \in Octet
<1>1. n \div 2 \in 0..3 /\ n % 2 \in 0..1
  OBVIOUS
<1> QED BY <1>1 DEF Code, Octet
LEMMA RegIsValue == ASSUME NEW c, Typed(c), NEW s \in Size, NEW n \in 0..7 PROVE reg(c, s, n) \in Value(s)
BY CodeIsOctet, RCodeIsValue DEF reg
LEMMA SetRegTyped ==
  ASSUME NEW c, Typed(c), NEW s \in Size, NEW n \in 0..7, NEW v, Fits(s, v) PROVE Typed(SetReg(c, s, n, v))
BY CodeIsOctet, SetCodeTyped DEF SetReg
LEMMA SizesAreSizes == 0 \in Size /\ 1 \in Size /\ 2 \in Size
BY DEF Size
LEMMA ValueOfWord == \A v : v \in Value(1) => v \in Int /\ 0 <= v /\ v < 65536
BY Values, Sizes, SizesAreSizes
LEMMA WordIsValue == \A v \in Int : 0 <= v /\ v < 65536 => v \in Value(1)
BY Values, Sizes, SizesAreSizes
LEMMA WordIsLong == \A v \in Value(1) : v \in Value(2)
BY Values, Sizes, SizesAreSizes
LEMMA LongIsInt == \A v \in Value(2) : v \in Int /\ 0 <= v /\ v < Mod(2)
BY Values, SizesAreSizes
LEMMA ValueIsInt == ASSUME NEW s \in Size, NEW v \in Value(s) PROVE v \in Int /\ 0 <= v
BY Values
LEMMA ValueIsLong == ASSUME NEW s \in Size, NEW v \in Value(s) PROVE v \in Value(2)
BY ThreeSizes, WordIsLong, ValueOfByte, OctetIsValue, SizesAreSizes
LEMMA OctetIsInt == \A v \in Octet : v \in Int /\ 0 <= v /\ v <= 255
BY DEF Octet
LEMMA Accumulators == ASSUME NEW c, Typed(c) PROVE REGA(c) \in Octet /\ REGBC(c) \in Value(1)
BY RegIsValue, ValueOfByte, SizesAreSizes DEF REGA, REGBC
LEMMA SetATyped == ASSUME NEW c, Typed(c), NEW v \in Octet PROVE Typed(SetA(c, v))
<1>1. Fits(0, v)
  BY ValueFits, ValueOfByte, SizesAreSizes
<1> QED BY <1>1, SetRegTyped, SizesAreSizes DEF SetA

(* Memory. *)
LEMMA Widths == Width(0) = 1 /\ Width(1) = 2 /\ Width(2) = 4
BY DEF Width
LEMMA WidthIsInt == ASSUME NEW s \in Size PROVE Width(s) \in 1..4
BY Widths, ThreeSizes
LEMMA RequestByte == ASSUME NEW c, NEW n PROVE int_read8(c, n) \in Octet
BY DEF int_read8, Octet
LEMMA LoadBTyped == ASSUME NEW c, Typed(c), NEW a PROVE loadB(c, a) \in Octet
<1>1. 0 \in Octet
  BY DEF Octet
<1> QED BY <1>1, RequestByte, CpuFields, SMT DEF loadB, ByteAt, OctetsIn
LEMMA WordOfOctets == ASSUME NEW x \in Octet, NEW y \in Octet PROVE x + 256 * y \in Value(1)
<1>1. x + 256 * y \in Int /\ 0 <= x + 256 * y /\ x + 256 * y < 65536
  BY DEF Octet
<1> QED BY <1>1, WordIsValue
LEMMA LongOfOctets ==
  ASSUME NEW w \in Octet, NEW x \in Octet, NEW y \in Octet, NEW z \in Octet
  PROVE  w + 256 * x + 65536 * ((y + 256 * z) % LongHigh) \in Value(2)
<1> DEFINE low == w + 256 * x
           high == (y + 256 * z) % LongHigh
<1>1. low \in Int /\ 0 <= low /\ low < 65536
  BY WordOfOctets, ValueOfWord
<1>2. high \in Int /\ 0 <= high /\ high < LongHigh
  BY LongHighRange DEF Octet
<1> HIDE DEF low, high
<1>3. low + 65536 * high \in Int /\ 0 <= low + 65536 * high /\ low + 65536 * high < 65536 * LongHigh
  BY <1>1, <1>2, LongHighRange
<1>4. low + 65536 * high \in Value(2)
  BY <1>3, Sizes, Values, SizesAreSizes
<1> QED BY <1>4 DEF low, high
LEMMA LoadedTyped == ASSUME NEW c, Typed(c), NEW s \in Size, NEW a \in Int PROVE Load(c, s, a) \in Value(s)
<1>1. loadB(c, a + 0) \in Octet /\ loadB(c, a + 1) \in Octet /\ loadB(c, a + 2) \in Octet /\ loadB(c, a + 3) \in Octet
  BY LoadBTyped
<1>2. CASE s = 0
  <2>1. Load(c, s, a) = loadB(c, a + 0)
    BY <1>2, Widths DEF Load
  <2> QED BY <1>1, <1>2, <2>1, ValueOfByte
<1>3. CASE s = 1
  <2>1. Load(c, s, a) = loadB(c, a + 0) + 256 * loadB(c, a + 1)
    BY <1>3, Widths DEF Load
  <2> QED BY <1>1, <1>3, <2>1, WordOfOctets
<1>4. CASE s = 2
  <2>1. Load(c, s, a) = loadB(c, a + 0) + 256 * loadB(c, a + 1)
                          + 65536 * ((loadB(c, a + 2) + 256 * loadB(c, a + 3)) % LongHigh)
    BY <1>4, Widths DEF Load
  <2> QED BY <1>1, <1>4, <2>1, LongOfOctets
<1> QED BY <1>2, <1>3, <1>4, ThreeSizes
LEMMA InAddressSpace == ASSUME NEW a \in Int, 0 <= a, a < 2^24 PROVE a \in AddressSpace
BY SMT DEF AddressSpace
LEMMA RAMBounds == ASSUME NEW a \in RAM PROVE a \in Int /\ 0 <= a /\ a < 2^24
BY SMT DEF RAM
LEMMA RawTyped == ASSUME NEW c, Typed(c), NEW a, NEW v \in Octet PROVE Typed(Raw(c, a, v))
<1>1. ASSUME a \in RAM PROVE OctetsIn(Written(c.ram, a, v))
  <2>1. a \in AddressSpace
    BY <1>1, InAddressSpace, RAMBounds
  <2>2. OctetsIn(c.ram)
    BY CpuFields
  <2>3. CASE a \in DOMAIN c.ram
    BY <2>2, <2>3 DEF OctetsIn, Written
  <2>4. CASE a \notin DOMAIN c.ram
    BY <2>1, <2>2, <2>4 DEF OctetsIn, Written, Over
  <2> QED BY <2>3, <2>4
<1>2. CASE a \in RAM
  BY <1>1, <1>2, CpuRam DEF Raw
<1>3. CASE a \notin RAM
  BY <1>3 DEF Raw
<1> QED BY <1>2, <1>3
LEMMA StackMoved ==
  ASSUME NEW c, Typed(c), NEW k, k \in -4..4
  PROVE  Wrap(2, c.regs[XSP] + k) \in Value(2) /\ Wrap(2, c.regs[XSP] - k) \in Value(2)
<1>1. c.regs[XSP] \in Int /\ 0 <= c.regs[XSP] /\ c.regs[XSP] < Mod(2) /\ Mod(2) \in Int /\ Mod(2) >= 256
  BY StackPointer, LongIsInt, Sizes
<1> QED BY <1>1, WrapIsValue, SizesAreSizes

(* The stack as the interrupts use it. *)
LEMMA StackMovedBy ==
  ASSUME NEW c, Typed(c), NEW s \in Size
  PROVE  Wrap(2, c.regs[XSP] + Width(s)) \in Value(2) /\ Wrap(2, c.regs[XSP] - Width(s)) \in Value(2)
<1>1. Width(s) \in -4..4
  BY WidthIsInt
<1> QED BY <1>1, StackMoved
RawByte(d, s, a, v, k) == IF k < Width(s) THEN Raw(d, Address(a + k), NthByte(v, k)) ELSE d
LEMMA RawByteTyped ==
  ASSUME NEW d, Typed(d), NEW s, NEW a, NEW v \in Int, NEW k \in 0..3 PROVE Typed(RawByte(d, s, a, v, k))
<1>1. NthByte(v, k) \in Octet
  BY NthByteIsOctet
<1> QED BY <1>1, RawTyped DEF RawByte
LEMMA PushRawTyped == ASSUME NEW c, Typed(c), NEW s \in Size, NEW v \in Int PROVE Typed(PushRaw(c, s, v))
<1> DEFINE sp == Wrap(2, c.regs[XSP] - Width(s))
           d == [c EXCEPT !.regs[XSP] = sp]
           d0 == RawByte(d, s, sp, v, 0)
           d1 == RawByte(d0, s, sp, v, 1)
           d2 == RawByte(d1, s, sp, v, 2)
           d3 == RawByte(d2, s, sp, v, 3)
<1>1. PushRaw(c, s, v) = d3
  BY DEF PushRaw, RawByte
<1>2. Typed(d)
  BY StackMovedBy, StackPointer
<1> HIDE DEF sp, d
<1>3. Typed(d0)
  BY <1>2, RawByteTyped
<1> HIDE DEF d0
<1>4. Typed(d1)
  BY <1>3, RawByteTyped
<1> HIDE DEF d1
<1>5. Typed(d2)
  BY <1>4, RawByteTyped
<1> HIDE DEF d2
<1>6. Typed(d3)
  BY <1>5, RawByteTyped
<1> HIDE DEF d3
<1> QED BY <1>1, <1>6
LEMMA StatusLevel == ASSUME NEW c, Typed(c), NEW iff \in Int PROVE Typed(setStatusIFF(c, iff))
<1> DEFINE v == (c.sh - 16 * ((c.sh \div 16) % 8)) + 16 * (iff % 8)
<1>1. v \in Octet
  BY CpuFields DEF Octet
<1>2. setStatusIFF(c, iff) = [c EXCEPT !.sh = v]
  BY DEF setStatusIFF
<1> HIDE DEF v
<1> QED BY <1>1, <1>2, CpuStatus
LEMMA StatusIsInt ==
  ASSUME NEW c, Typed(c) PROVE c.pc \in Int /\ 256 * c.sh + StatusByte(c.f) \in Int /\ c.mem \in Int
BY CpuFields, LongIsInt, StatusByteIsOctet, OctetIsInt
LEMMA InterruptEntered ==
  ASSUME NEW c, Typed(c), NEW index \in Int, NEW level \in Int PROVE Typed(interrupt(c, index, level))
<1> DEFINE x == PushRaw(c, 2, c.pc)
           y == PushRaw(x, 1, 256 * c.sh + StatusByte(c.f))
           w == setStatusIFF(y, IF level < 7 THEN level + 1 ELSE 7)
           to == Load(c, 2, 28600 + 4 * index)
<1>1. Typed(x)
  BY PushRawTyped, StatusIsInt, SizesAreSizes
<1>2. to \in Value(2)
  BY LoadedTyped, SizesAreSizes
<1>3. interrupt(c, index, level) = [w EXCEPT !.pc = to]
  BY DEF interrupt
<1> HIDE DEF x, to
<1>4. Typed(y)
  BY <1>1, PushRawTyped, StatusIsInt, SizesAreSizes
<1> HIDE DEF y
<1>5. Typed(w)
  BY <1>4, StatusLevel
<1> HIDE DEF w
<1> QED BY <1>2, <1>3, <1>5, CpuPC

(* Requests and their priorities. *)
LEMMA PriorityIsLevel == ASSUME NEW c, Typed(c), NEW n \in 5..12 PROVE Priority(c, n) \in 0..7
<1> DEFINE at == <<1, 1, 3, 3, 4, 4, 7, 7>>[n - 4]
           b == c.prio[at]
<1>1. n = 5 \/ n = 6 \/ n = 7 \/ n = 8 \/ n = 9 \/ n = 10 \/ n = 11 \/ n = 12
  OBVIOUS
<1>2. at \in 0..10
  BY <1>1
<1>3. b \in Octet
  BY <1>2, CpuFields DEF Levels
<1>4. Priority(c, n) = IF n % 2 = 1 THEN b % 8 ELSE (b \div 16) % 8
  BY DEF Priority
<1> HIDE DEF b
<1>5. b % 8 \in 0..7 /\ (b \div 16) % 8 \in 0..7
  BY <1>3 DEF Octet
<1> QED BY <1>4, <1>5
LEMMA ServedTyped == ASSUME NEW c, Typed(c), NEW n \in 5..12 PROVE Typed(Serve(c, n))
<1> DEFINE d == [c EXCEPT !.ipending = @ \ {n}]
<1>1. Typed(d)
  <2>1. c.ipending \ {n} \in Requests
    BY CpuFields DEF Requests
  <2> QED BY <2>1, CpuPending
<1>2. Priority(c, n) \in Int /\ n \in Int
  BY PriorityIsLevel
<1>3. Serve(c, n) = interrupt(d, n, Priority(c, n))
  BY DEF Serve
<1> HIDE DEF d
<1> QED BY <1>1, <1>2, <1>3, InterruptEntered
LEMMA LeastExists == ASSUME NEW D \in SUBSET Nat, D # {} PROVE \E k \in D : \A j \in D : k <= j
<1>1. PICK x \in D : \A y \in D : ~(<<y, x>> \in OpToRel(<, Nat))
  <2>1. IsWellFoundedOn(OpToRel(<, Nat), Nat)
    BY NatLessThanWellFounded
  <2> QED BY <2>1, WFMin, Zenon
<1>2. ASSUME NEW j \in D PROVE x <= j
  <2>1. ~(j < x)
    <3> SUFFICES ASSUME j < x PROVE FALSE
      OBVIOUS
    <3>1. <<j, x>> \in OpToRel(<, Nat)
      BY DEF OpToRel
    <3> QED BY <1>1, <3>1
  <2> QED BY <2>1
<1> QED BY <1>2
LEMMA FirstServed == ASSUME NEW c, Typed(c), NEW D \in SUBSET (5..12) PROVE Typed(FirstOf(c, D))
<1>1. CASE D = {}
  BY <1>1 DEF FirstOf
<1>2. CASE D # {}
  <2>1. D \in SUBSET Nat
    OBVIOUS
  <2> DEFINE n == CHOOSE k \in D : \A j \in D : k <= j
  <2>2. n \in D
    BY <1>2, <2>1, LeastExists
  <2>3. FirstOf(c, D) = Serve(c, n)
    BY <1>2 DEF FirstOf
  <2> HIDE DEF n
  <2> QED BY <2>2, <2>3, ServedTyped
<1> QED BY <1>1, <1>2
LEMMA PendingChecked == ASSUME NEW c, Typed(c) PROVE Typed(int_check_pending(c))
<1>1. Deliverable(c) \in SUBSET (5..12)
  BY DEF Deliverable
<1> QED BY <1>1, FirstServed DEF int_check_pending
LEMMA RequestRaised == ASSUME NEW c, Typed(c), NEW n \in 0..12 PROVE Typed(set_interrupt(c, n))
<1> DEFINE d == [c EXCEPT !.ipending = @ \cup {n}]
<1>1. Typed(d)
  <2>1. c.ipending \cup {n} \in Requests
    BY CpuFields DEF Requests
  <2> QED BY <2>1, CpuPending
<1>2. set_interrupt(c, n) = int_check_pending(d)
  BY DEF set_interrupt
<1> HIDE DEF d
<1> QED BY <1>1, <1>2, PendingChecked
LEMMA PriorityPut == ASSUME NEW c, Typed(c), NEW a, NEW v \in Octet PROVE Typed(PrioritySet(c, a, v))
<1>1. CASE a \in 112..122
  <2> DEFINE p == [c.prio EXCEPT ![a - 112] = v]
             d == [c EXCEPT !.prio = p]
  <2>1. a - 112 \in 0..10
    BY <1>1
  <2>2. p \in Levels
    BY <2>1, CpuFields DEF Levels
  <2>3. PrioritySet(c, a, v) = int_check_pending(d)
    BY <1>1 DEF PrioritySet
  <2> HIDE DEF p
  <2>4. Typed(d)
    BY <2>2, CpuPrio
  <2> HIDE DEF d
  <2> QED BY <2>3, <2>4, PendingChecked
<1>2. CASE a \notin 112..122
  BY <1>2 DEF PrioritySet
<1> QED BY <1>1, <1>2
LEMMA PriorityWritten == ASSUME NEW c, Typed(c), NEW a, NEW v \in Octet PROVE Typed(int_write8(c, a, v))
<1> DEFINE gone == IF a \notin Sources THEN {}
                   ELSE Only(BitOf(v, 3) = 0, Source(a)) \cup Only(BitOf(v, 7) = 0, Source(a) + 1)
           d == [c EXCEPT !.ipending = @ \ gone]
<1>1. int_write8(c, a, v) = PrioritySet(d, a, v)
  BY Zenon DEF int_write8
<1> HIDE DEF gone
<1>2. Typed(d)
  <2>1. c.ipending \ gone \in Requests
    BY CpuFields DEF Requests
  <2> QED BY <2>1, CpuPending
<1> HIDE DEF d
<1> QED BY <1>1, <1>2, PriorityPut

(* Stores. *)
LEMMA StoredTyped == ASSUME NEW c, Typed(c), NEW a, NEW v \in Octet PROVE Typed(StoredAt(c, a, v))
<1>1. CASE a \in 112..127
  <2>1. StoredAt(c, a, v) = int_write8(c, a, v)
    BY <1>1 DEF StoredAt
  <2> QED BY <2>1, PriorityWritten
<1>2. CASE a \in {185, 186, 188}
  <2> DEFINE b == Append(c.bus, <<a, v>>)
  <2>1. b \in BusWrites
    <3>1. <<a, v>> \in {185, 186, 188} \X Octet /\ c.bus \in Seq({185, 186, 188} \X Octet)
      BY <1>2, CpuFields DEF BusWrites
    <3> QED BY <3>1 DEF BusWrites
  <2>2. StoredAt(c, a, v) = [c EXCEPT !.bus = b]
    <3>1. a \notin 112..127
      BY <1>2
    <3> QED BY <1>2, <3>1 DEF StoredAt
  <2> HIDE DEF b
  <2> QED BY <2>1, <2>2, CpuBus
<1>3. CASE a \notin 112..127 /\ a \notin {185, 186, 188}
  <2>1. StoredAt(c, a, v) = Raw(c, a, v)
    BY <1>3, SMT DEF StoredAt
  <2> QED BY <2>1, RawTyped
<1> QED BY <1>1, <1>2, <1>3
LEMMA StoreBTyped == ASSUME NEW c, Typed(c), NEW a, NEW v \in Octet PROVE Typed(storeB(c, a, v))
BY StoredTyped DEF storeB
StoreByte(d, s, a, v, k) == IF k < Width(s) THEN storeB(d, a + k, NthByte(v, k)) ELSE d
LEMMA StoreByteTyped ==
  ASSUME NEW d, Typed(d), NEW s, NEW a, NEW v \in Int, NEW k \in 0..3 PROVE Typed(StoreByte(d, s, a, v, k))
<1>1. NthByte(v, k) \in Octet
  BY NthByteIsOctet
<1> QED BY <1>1, StoreBTyped DEF StoreByte
LEMMA StoreTyped == ASSUME NEW c, Typed(c), NEW s, NEW a, NEW v \in Int PROVE Typed(Store(c, s, a, v))
<1> DEFINE d0 == StoreByte(c, s, a, v, 0)
           d1 == StoreByte(d0, s, a, v, 1)
           d2 == StoreByte(d1, s, a, v, 2)
           d3 == StoreByte(d2, s, a, v, 3)
<1>1. Store(c, s, a, v) = d3
  BY DEF Store, StoreByte
<1>2. Typed(d0)
  BY StoreByteTyped
<1> HIDE DEF d0
<1>3. Typed(d1)
  BY <1>2, StoreByteTyped
<1> HIDE DEF d1
<1>4. Typed(d2)
  BY <1>3, StoreByteTyped
<1> HIDE DEF d2
<1>5. Typed(d3)
  BY <1>4, StoreByteTyped
<1> HIDE DEF d3
<1> QED BY <1>1, <1>5

(* The status register. *)
LEMMA BankPut == ASSUME NEW c, Typed(c), NEW rfp \in Int PROVE Typed(setStatusRFP(c, rfp))
<1> DEFINE v == (c.sh - (c.sh % 8)) + (rfp % 4)
           d == [c EXCEPT !.sh = v]
<1>1. v \in Octet
  BY CpuFields DEF Octet
<1>2. setStatusRFP(c, rfp) = int_check_pending(d)
  BY DEF setStatusRFP, changedSP
<1> HIDE DEF v
<1>3. Typed(d)
  BY <1>1, CpuStatus
<1> HIDE DEF d
<1> QED BY <1>2, <1>3, PendingChecked
LEMMA StatusPut == ASSUME NEW c, Typed(c), NEW sr \in Value(1) PROVE Typed(SetSR(c, sr))
<1> DEFINE v == sr \div 256
           F == StatusFlags(sr % 256)
           d == [c EXCEPT !.sh = v]
           e == [d EXCEPT !.f = F]
<1>1. v \in Octet
  BY ValueOfWord DEF Octet
<1>2. F \in FlagSets
  BY StatusFlagsTyped
<1>3. SetSR(c, sr) = int_check_pending(e)
  BY DEF SetSR, changedSP
<1> HIDE DEF v, F
<1>4. Typed(d)
  BY <1>1, CpuStatus
<1> HIDE DEF d
<1>5. Typed(e)
  BY <1>2, <1>4, CpuFlags
<1> HIDE DEF e
<1> QED BY <1>3, <1>5, PendingChecked

(* The stack, and what follows an opcode. *)
LEMMA MainPushTyped == ASSUME NEW c, Typed(c), NEW s \in Size, NEW v \in Int PROVE Typed(Push(c, s, v))
<1> DEFINE sp == Wrap(2, c.regs[XSP] - Width(s))
           d == [c EXCEPT !.regs[XSP] = sp]
<1>1. Push(c, s, v) = Store(d, s, sp, v)
  BY DEF Push
<1>2. Typed(d)
  BY StackMovedBy, StackPointer
<1> HIDE DEF d, sp
<1> QED BY <1>1, <1>2, StoreTyped
LEMMA TopTyped == ASSUME NEW c, Typed(c), NEW s \in Size PROVE Top(c, s) \in Value(s)
<1>1. c.regs[XSP] \in Int
  BY StackPointer, LongIsInt
<1> QED BY <1>1, LoadedTyped DEF Top
LEMMA DroppedTyped == ASSUME NEW c, Typed(c), NEW s \in Size PROVE Typed(Dropped(c, s))
<1> DEFINE v == Wrap(2, c.regs[XSP] + Width(s))
<1>1. v \in Value(2)
  BY StackMovedBy
<1>2. Dropped(c, s) = [c EXCEPT !.regs[XSP] = v]
  BY DEF Dropped
<1> HIDE DEF v
<1> QED BY <1>1, <1>2, StackPointer
LEMMA FetchTyped == ASSUME NEW c, Typed(c), NEW s \in Size PROVE Fetch(c, s) \in Value(s)
BY LoadedTyped, StatusIsInt DEF Fetch
LEMMA PCMoved == ASSUME NEW c, Typed(c), NEW k \in Int PROVE Typed([c EXCEPT !.pc = (c.pc + k) % Mod(2)])
<1>1. (c.pc + k) % Mod(2) \in Value(2)
  <2>1. c.pc + k \in Int
    BY StatusIsInt
  <2> QED BY <2>1, ModOfInt, SizesAreSizes
<1> QED BY <1>1, CpuPC
LEMMA PastTyped == ASSUME NEW c, Typed(c), NEW s \in Size PROVE Typed(Past(c, s))
<1>1. Width(s) \in Int
  BY WidthIsInt
<1>2. Past(c, s) = [c EXCEPT !.pc = (c.pc + Width(s)) % Mod(2)]
  BY DEF Past
<1> QED BY <1>1, <1>2, PCMoved
LEMMA Fetch24Typed == ASSUME NEW c, Typed(c) PROVE fetch24(c) \in Value(2)
<1> DEFINE x == Load(c, 1, c.pc)
           y == loadB(c, c.pc + 2)
<1>1. x \in Value(1) /\ y \in Octet
  BY LoadedTyped, LoadBTyped, StatusIsInt, SizesAreSizes
<1>2. fetch24(c) = x + 65536 * y
  BY DEF fetch24
<1> HIDE DEF x, y
<1>3. x + 65536 * y \in Int /\ 0 <= x + 65536 * y /\ x + 65536 * y < 16777216
  BY <1>1, ValueOfWord, OctetIsInt
<1> QED BY <1>2, <1>3, Sizes, Values, SizesAreSizes
LEMMA JumpTyped == ASSUME NEW c, Typed(c), NEW s \in Size, NEW v \in Value(s) PROVE Typed(Jump(c, s, v))
<1>1. Signed(s, v) \in Int
  BY SignedIsInt
<1>2. Jump(c, s, v) = [c EXCEPT !.pc = (c.pc + Signed(s, v)) % Mod(2)]
  BY DEF Jump
<1> QED BY <1>1, <1>2, PCMoved

(* TLCS900h_interpret_single.c *)
LEMMA FetchedByte == ASSUME NEW c, Typed(c) PROVE Fetch(c, 0) \in Octet /\ Fetch(c, 0) \in Int
BY FetchTyped, ValueOfByte, OctetIsInt, SizesAreSizes
LEMMA FetchedWord == ASSUME NEW c, Typed(c) PROVE Fetch(c, 1) \in Value(1) /\ Fetch(c, 1) \in Int
BY FetchTyped, ValueOfWord, SizesAreSizes
LEMMA PastOf == ASSUME NEW c, Typed(c) PROVE Typed(Past(c, 0)) /\ Typed(Past(c, 1)) /\ Typed(Past(c, 2))
BY PastTyped, SizesAreSizes
LEMMA DroppedOf == ASSUME NEW c, Typed(c) PROVE Typed(Dropped(c, 0)) /\ Typed(Dropped(c, 1)) /\ Typed(Dropped(c, 2))
BY DroppedTyped, SizesAreSizes
LEMMA TopOf == ASSUME NEW c, Typed(c) PROVE Top(c, 0) \in Octet /\ Top(c, 1) \in Value(1) /\ Top(c, 2) \in Value(2)
BY TopTyped, ValueOfByte, SizesAreSizes
LEMMA Returned == ASSUME NEW c, Typed(c) PROVE Typed([Dropped(c, 2) EXCEPT !.pc = Top(c, 2)])
<1>1. Typed(Dropped(c, 2)) /\ Top(c, 2) \in Value(2)
  BY DroppedOf, TopOf
<1> QED BY <1>1, CpuPC
LEMMA StatusWordsTyped ==
  ASSUME NEW c, Typed(c) PROVE Typed(sngPUSHSR(c)) /\ Typed(sngPOPSR(c)) /\ Typed(sngEI(c)) /\ Typed(sngRETI(c))
<1>1. Typed(sngPUSHSR(c))
  BY MainPushTyped, StatusIsInt, SizesAreSizes DEF sngPUSHSR
<1>2. Typed(Dropped(c, 1)) /\ Top(c, 1) \in Value(1)
  BY DroppedOf, TopOf
<1>3. Typed(sngPOPSR(c))
  BY <1>2, StatusPut DEF sngPOPSR
<1>4. Typed(sngEI(c))
  <2>1. Typed(setStatusIFF(Past(c, 0), Fetch(c, 0)))
    BY PastOf, FetchedByte, StatusLevel
  <2> QED BY <2>1, PendingChecked DEF sngEI
<1>5. Typed(sngRETI(c))
  <2>1. Typed([Dropped(Dropped(c, 1), 2) EXCEPT !.pc = Top(Dropped(c, 1), 2)])
    BY <1>2, Returned
  <2> QED BY <1>2, <2>1, StatusPut DEF sngRETI
<1> QED BY <1>1, <1>3, <1>4, <1>5
LEMMA ImmediatesTyped ==
  ASSUME NEW c, Typed(c)
  PROVE  /\ Typed(sngLD8_8(c)) /\ Typed(sngPUSH8(c)) /\ Typed(sngLD8_16(c)) /\ Typed(sngPUSH16(c))
         /\ Typed(sngINCF(c)) /\ Typed(sngDECF(c))
<1>1. Typed(sngLD8_8(c))
  BY PastOf, LoadBTyped, StoreBTyped DEF sngLD8_8
<1>2. Typed(sngPUSH8(c))
  BY PastOf, FetchedByte, MainPushTyped, SizesAreSizes DEF sngPUSH8
<1>3. Typed(sngLD8_16(c))
  <2>1. Typed(Past(Past(c, 0), 1)) /\ Fetch(Past(c, 0), 1) \in Int
    BY PastOf, FetchedWord
  <2> QED BY <2>1, StoreTyped DEF sngLD8_16
<1>4. Typed(sngPUSH16(c))
  BY PastOf, FetchedWord, MainPushTyped, SizesAreSizes DEF sngPUSH16
<1>5. Typed(sngINCF(c)) /\ Typed(sngDECF(c))
  <2>1. statusRFP(c) + 1 \in Int /\ statusRFP(c) - 1 \in Int
    BY BankIsSmall
  <2> QED BY <2>1, BankPut DEF sngINCF, sngDECF
<1> QED BY <1>1, <1>2, <1>3, <1>4, <1>5
LEMMA ReturnsTyped == ASSUME NEW c, Typed(c) PROVE Typed(sngRET(c)) /\ Typed(sngRETD(c))
<1>1. Typed(sngRET(c))
  BY Returned DEF sngRET
<1>2. Typed(sngRETD(c))
  <2> DEFINE sp == Wrap(2, c.regs[XSP] + 4)
             to == Top(c, 2)
             v == (sp + Signed(1, Fetch(c, 1))) % Mod(2)
             d == [c EXCEPT !.pc = to]
  <2>1. to \in Value(2)
    BY TopOf
  <2>2. v \in Value(2)
    <3>1. sp \in Int
      BY StackMovedBy, Widths, LongIsInt, SizesAreSizes
    <3>2. Signed(1, Fetch(c, 1)) \in Int
      BY FetchTyped, SignedIsInt, SizesAreSizes
    <3> HIDE DEF sp
    <3> QED BY <3>1, <3>2, ModOfInt, SizesAreSizes
  <2>3. sngRETD(c) = [c EXCEPT !.pc = to, !.regs[XSP] = v]
    BY DEF sngRETD
  <2> HIDE DEF to, v
  <2>4. sngRETD(c) = [d EXCEPT !.regs[XSP] = v]
    BY <2>3
  <2>5. Typed(d)
    BY <2>1, CpuPC
  <2> HIDE DEF d
  <2> QED BY <2>2, <2>4, <2>5, StackPointer
<1> QED BY <1>1, <1>2
LEMMA CarryFlagTyped ==
  ASSUME NEW c, Typed(c) PROVE Typed(sngRCF(c)) /\ Typed(sngSCF(c)) /\ Typed(sngCCF(c)) /\ Typed(sngZCF(c))
<1>1. c.f \in FlagSets
  BY CpuFields
<1>2. /\ c.f \ {"N", "V", "C"} \in FlagSets /\ (c.f \ {"H", "N"}) \cup {"C"} \in FlagSets
      /\ (c.f \ {"N", "C"}) \cup Only("C" \notin c.f, "C") \in FlagSets
      /\ (c.f \ {"N", "C"}) \cup Only("Z" \notin c.f, "C") \in FlagSets
  BY <1>1, OnlyItself, SRFlagNames DEF FlagSets
<1> QED BY <1>2, FlagsPut DEF sngRCF, sngSCF, sngCCF, sngZCF
LEMMA AccumulatorsMovedTyped ==
  ASSUME NEW c, Typed(c)
  PROVE  /\ Typed(sngPUSHA(c)) /\ Typed(sngPOPA(c)) /\ Typed(sngEX(c)) /\ Typed(sngLDF(c)) /\ Typed(sngPUSHF(c))
         /\ Typed(sngPOPF(c))
<1>1. Typed(sngPUSHA(c))
  BY Accumulators, OctetIsInt, MainPushTyped, SizesAreSizes DEF sngPUSHA
<1>2. Typed(Dropped(c, 0)) /\ Top(c, 0) \in Octet
  BY DroppedOf, TopOf
<1>3. Typed(sngPOPA(c))
  BY <1>2, SetATyped DEF sngPOPA
<1>4. Typed(sngEX(c))
  <2> DEFINE F == StatusFlags(c.fdash)
             v == StatusByte(c.f)
             d == [c EXCEPT !.f = F]
  <2>1. F \in FlagSets /\ v \in Octet
    BY StatusFlagsTyped, StatusByteIsOctet
  <2>2. sngEX(c) = [c EXCEPT !.f = F, !.fdash = v]
    BY DEF sngEX
  <2> HIDE DEF F, v
  <2>3. sngEX(c) = [d EXCEPT !.fdash = v]
    BY <2>2
  <2>4. Typed(d)
    BY <2>1, CpuFlags
  <2> HIDE DEF d
  <2> QED BY <2>1, <2>3, <2>4, CpuDash
<1>5. Typed(sngLDF(c))
  BY PastOf, FetchedByte, BankPut DEF sngLDF
<1>6. Typed(sngPUSHF(c))
  BY StatusByteIsOctet, OctetIsInt, MainPushTyped, SizesAreSizes DEF sngPUSHF
<1>7. Typed(sngPOPF(c))
  BY <1>2, StatusFlagsTyped, FlagsPut DEF sngPOPF
<1> QED BY <1>1, <1>3, <1>4, <1>5, <1>6, <1>7
LEMMA CallsTyped ==
  ASSUME NEW c, Typed(c)
  PROVE  Typed(sngJP16(c)) /\ Typed(sngJP24(c)) /\ Typed(sngCALL16(c)) /\ Typed(sngCALL24(c)) /\ Typed(sngCALR(c))
<1>1. Fetch(c, 1) \in Value(2) /\ Fetch(c, 1) \in Value(1) /\ fetch24(c) \in Value(2)
  BY FetchedWord, WordIsLong, Fetch24Typed
<1>2. Typed(sngJP16(c)) /\ Typed(sngJP24(c))
  BY <1>1, CpuPC DEF sngJP16, sngJP24
<1>3. c.pc + 2 \in Int /\ c.pc + 3 \in Int
  BY StatusIsInt
<1>4. Typed(Push(c, 2, c.pc + 2)) /\ Typed(Push(c, 2, c.pc + 3)) /\ Typed(Push(Past(c, 1), 2, c.pc + 2))
  BY <1>3, PastOf, MainPushTyped, SizesAreSizes
<1>5. Typed(sngCALL16(c)) /\ Typed(sngCALL24(c))
  BY <1>1, <1>4, CpuPC DEF sngCALL16, sngCALL24
<1>6. Typed(sngCALR(c))
  BY <1>1, <1>4, JumpTyped, SizesAreSizes DEF sngCALR
<1> QED BY <1>2, <1>5, <1>6
LEMMA LowBits == ASSUME NEW v \in Octet PROVE v % 8 \in 0..7 /\ v % 16 \in 0..15
BY DEF Octet
LEMMA PutValue ==
  ASSUME NEW c, Typed(c), NEW s \in Size, NEW n \in 0..7, NEW v, v \in Value(s) PROVE Typed(SetReg(c, s, n, v))
BY ValueFits, SetRegTyped
LEMMA RegistersMovedTyped ==
  ASSUME NEW c, Typed(c), NEW i, i.first \in Octet
  PROVE  /\ Typed(sngLDB(c, i)) /\ Typed(sngPUSHW(c, i)) /\ Typed(sngLDW(c, i)) /\ Typed(sngPUSHL(c, i))
         /\ Typed(sngLDL(c, i)) /\ Typed(sngPOPW(c, i)) /\ Typed(sngPOPL(c, i))
<1>1. i.first % 8 \in 0..7
  BY LowBits
<1>2. Fetch(c, 0) \in Value(0) /\ Fetch(c, 1) \in Value(1) /\ Fetch(c, 2) \in Value(2)
  BY FetchTyped, SizesAreSizes
<1>3. Top(c, 1) \in Value(1) /\ Top(c, 2) \in Value(2)
  BY TopOf
<1>4. Typed(sngLDB(c, i)) /\ Typed(sngLDW(c, i)) /\ Typed(sngLDL(c, i))
  BY <1>1, <1>2, PastOf, PutValue, SizesAreSizes DEF sngLDB, sngLDW, sngLDL
<1>5. Typed(sngPOPW(c, i)) /\ Typed(sngPOPL(c, i))
  BY <1>1, <1>3, DroppedOf, PutValue, SizesAreSizes DEF sngPOPW, sngPOPL
<1>6. reg(c, 1, i.first % 8) \in Int /\ reg(c, 2, i.first % 8) \in Int
  BY <1>1, RegIsValue, ValueIsInt, SizesAreSizes
<1>7. Typed(sngPUSHW(c, i)) /\ Typed(sngPUSHL(c, i))
  BY <1>6, MainPushTyped, SizesAreSizes DEF sngPUSHW, sngPUSHL
<1> QED BY <1>4, <1>5, <1>7
LEMMA BranchesTyped ==
  ASSUME NEW c, Typed(c), NEW i PROVE Typed(sngJR(c, i)) /\ Typed(sngJRL(c, i)) /\ Typed(sngLDX(c))
<1>1. Typed(Past(c, 0)) /\ Typed(Past(c, 1)) /\ Fetch(c, 0) \in Value(0) /\ Fetch(c, 1) \in Value(1)
  BY PastOf, FetchTyped, SizesAreSizes
<1>2. Typed(Jump(Past(c, 0), 0, Fetch(c, 0))) /\ Typed(Jump(Past(c, 1), 1, Fetch(c, 1)))
  BY <1>1, JumpTyped, SizesAreSizes
<1>3. Typed([c EXCEPT !.pc = (@ + 5) % Mod(2)])
  <2> DEFINE k == 5
  <2>1. k \in Int
    OBVIOUS
  <2> HIDE DEF k
  <2>2. Typed([c EXCEPT !.pc = (c.pc + k) % Mod(2)])
    BY <2>1, PCMoved
  <2> QED BY <2>2 DEF k
<1>4. Typed(sngLDX(c))
  BY <1>3, LoadBTyped, StoreBTyped DEF sngLDX
<1>5. /\ sngJR(c, i) = Jump(Past(c, 0), 0, Fetch(c, 0)) \/ sngJR(c, i) = Past(c, 0)
      /\ sngJRL(c, i) = Jump(Past(c, 1), 1, Fetch(c, 1)) \/ sngJRL(c, i) = Past(c, 1)
  BY Zenon DEF sngJR, sngJRL
<1> QED BY <1>1, <1>2, <1>4, <1>5
LEMMA SWITyped == ASSUME NEW c, Typed(c), NEW i, i.first \in Octet PROVE Typed(sngSWI(c, i))
<1> DEFINE k == i.first % 8
           to == Load(c, 2, 16776704 + 4 * (rCode(c, 0, 49) % 32))
<1>1. k \in 0..7
  BY LowBits
<1>2. to \in Value(2)
  <2>1. rCode(c, 0, 49) \in Int
    <3>1. 49 \in Octet
      BY DEF Octet
    <3> QED BY <3>1, RCodeIsValue, ValueIsInt, SizesAreSizes
  <2>2. 16776704 + 4 * (rCode(c, 0, 49) % 32) \in Int
    BY <2>1
  <2> QED BY <2>2, LoadedTyped, SizesAreSizes
<1>3. Typed(Push(c, 2, c.pc))
  BY StatusIsInt, MainPushTyped, SizesAreSizes
<1> HIDE DEF k, to
<1>4. CASE k = 1
  <2>1. sngSWI(c, i) = [Push(c, 2, c.pc) EXCEPT !.pc = to]
    BY <1>4 DEF sngSWI, k, to
  <2> QED BY <1>2, <1>3, <2>1, CpuPC
<1>5. CASE k \in 3..6
  <2>1. sngSWI(c, i) = set_interrupt(c, k - 3)
    BY <1>5 DEF sngSWI, k
  <2>2. k - 3 \in 0..12
    BY <1>5
  <2> QED BY <2>1, <2>2, RequestRaised
<1>6. CASE k \notin (3..6) \cup {1}
  <2>1. sngSWI(c, i) = c
    BY <1>6, SMT DEF sngSWI, k
  <2> QED BY <2>1
<1> QED BY <1>4, <1>5, <1>6
LEMMA SingleTyped == ASSUME NEW c, Typed(c), NEW i, i.first \in Octet PROVE Typed(Single(c, i))
<1>1. /\ Typed(sngPUSHSR(c)) /\ Typed(sngPOPSR(c)) /\ Typed(sngEI(c)) /\ Typed(sngRETI(c)) /\ Typed(sngLD8_8(c))
      /\ Typed(sngPUSH8(c)) /\ Typed(sngLD8_16(c)) /\ Typed(sngPUSH16(c)) /\ Typed(sngINCF(c)) /\ Typed(sngDECF(c))
  BY StatusWordsTyped, ImmediatesTyped
<1>2. /\ Typed(sngRET(c)) /\ Typed(sngRETD(c)) /\ Typed(sngRCF(c)) /\ Typed(sngSCF(c)) /\ Typed(sngCCF(c))
      /\ Typed(sngZCF(c))
      /\ Typed(sngPUSHA(c)) /\ Typed(sngPOPA(c)) /\ Typed(sngEX(c)) /\ Typed(sngLDF(c)) /\ Typed(sngPUSHF(c))
      /\ Typed(sngPOPF(c))
  BY ReturnsTyped, CarryFlagTyped, AccumulatorsMovedTyped
<1>3. Typed(sngJP16(c)) /\ Typed(sngJP24(c)) /\ Typed(sngCALL16(c)) /\ Typed(sngCALL24(c)) /\ Typed(sngCALR(c))
  BY CallsTyped
<1>4. /\ Typed(sngLDB(c, i)) /\ Typed(sngPUSHW(c, i)) /\ Typed(sngLDW(c, i)) /\ Typed(sngPUSHL(c, i))
      /\ Typed(sngLDL(c, i)) /\ Typed(sngPOPW(c, i)) /\ Typed(sngPOPL(c, i))
  BY RegistersMovedTyped
<1>5. Typed(sngJR(c, i)) /\ Typed(sngJRL(c, i)) /\ Typed(sngLDX(c)) /\ Typed(sngSWI(c, i)) /\ Typed(sngNOP(c))
  BY BranchesTyped, SWITyped DEF sngNOP
<1> QED BY SMTT(60), <1>1, <1>2, <1>3, <1>4, <1>5 DEF Single

(* TLCS900h_interpret_dst.c *)
PowersOfTwo == {1, 2, 4, 8, 16, 32, 64, 128, 256, 512, 1024, 2048, 4096, 8192, 16384, 32768}
LEMMA PowerOfTwo == ASSUME NEW n \in 0..15 PROVE 2^n \in PowersOfTwo /\ (n < 8 => 2^n < 256)
<1>1. 2^8 = 256 /\ 2^9 = 512 /\ 2^10 = 1024 /\ 2^11 = 2048 /\ 2^12 = 4096 /\ 2^13 = 8192 /\ 2^14 = 16384 /\ 2^15 = 32768
  OBVIOUS
<1>2. CASE n = 0 BY <1>1, <1>2, Powers DEF PowersOfTwo
<1>3. CASE n = 1 BY <1>1, <1>3, Powers DEF PowersOfTwo
<1>4. CASE n = 2 BY <1>1, <1>4, Powers DEF PowersOfTwo
<1>5. CASE n = 3 BY <1>1, <1>5, Powers DEF PowersOfTwo
<1>6. CASE n = 4 BY <1>1, <1>6, Powers DEF PowersOfTwo
<1>7. CASE n = 5 BY <1>1, <1>7, Powers DEF PowersOfTwo
<1>8. CASE n = 6 BY <1>1, <1>8, Powers DEF PowersOfTwo
<1>9. CASE n = 7 BY <1>1, <1>9, Powers DEF PowersOfTwo
<1>10. CASE n = 8 BY <1>1, <1>10, Powers DEF PowersOfTwo
<1>11. CASE n = 9 BY <1>1, <1>11, Powers DEF PowersOfTwo
<1>12. CASE n = 10 BY <1>1, <1>12, Powers DEF PowersOfTwo
<1>13. CASE n = 11 BY <1>1, <1>13, Powers DEF PowersOfTwo
<1>14. CASE n = 12 BY <1>1, <1>14, Powers DEF PowersOfTwo
<1>15. CASE n = 13 BY <1>1, <1>15, Powers DEF PowersOfTwo
<1>16. CASE n = 14 BY <1>1, <1>16, Powers DEF PowersOfTwo
<1>17. CASE n = 15 BY <1>1, <1>17, Powers DEF PowersOfTwo
<1> QED BY <1>2, <1>3, <1>4, <1>5, <1>6, <1>7, <1>8, <1>9, <1>10, <1>11, <1>12, <1>13, <1>14, <1>15, <1>16, <1>17
LEMMA BitFits ==
  ASSUME NEW p \in PowersOfTwo, NEW v \in Int, 0 <= v, v < 65536
  PROVE  LET low == v - p * ((v \div p) % 2)
         IN  low \in Int /\ 0 <= low /\ low + p < 65536 /\ (v < 256 /\ p < 256 => low + p < 256)
<1>1. CASE p = 1 BY <1>1
<1>2. CASE p = 2 BY <1>2
<1>3. CASE p = 4 BY <1>3
<1>4. CASE p = 8 BY <1>4
<1>5. CASE p = 16 BY <1>5
<1>6. CASE p = 32 BY <1>6
<1>7. CASE p = 64 BY <1>7
<1>8. CASE p = 128 BY <1>8
<1>9. CASE p = 256 BY <1>9
<1>10. CASE p = 512 BY <1>10
<1>11. CASE p = 1024 BY <1>11
<1>12. CASE p = 2048 BY <1>12
<1>13. CASE p = 4096 BY <1>13
<1>14. CASE p = 8192 BY <1>14
<1>15. CASE p = 16384 BY <1>15
<1>16. CASE p = 32768 BY <1>16
<1> QED BY <1>1, <1>2, <1>3, <1>4, <1>5, <1>6, <1>7, <1>8, <1>9, <1>10, <1>11, <1>12, <1>13, <1>14, <1>15, <1>16 DEF PowersOfTwo
LEMMA BitPutFits ==
  ASSUME NEW s \in 0..1, NEW bit \in 0..15, s = 0 => bit < 8, NEW v \in Value(s), NEW one
  PROVE  (v - 2^bit * BitOf(v, bit)) + (IF one THEN 2^bit ELSE 0) \in Value(s)
<1> DEFINE p == 2^bit
           low == v - p * ((v \div p) % 2)
           w == low + (IF one THEN p ELSE 0)
<1>1. p \in PowersOfTwo /\ (bit < 8 => p < 256)
  BY PowerOfTwo
<1>2. w = (v - 2^bit * BitOf(v, bit)) + (IF one THEN 2^bit ELSE 0)
  BY DEF BitOf
<1> HIDE DEF p
<1>3. v \in Int /\ 0 <= v /\ v < 65536 /\ (s = 0 => v < 256)
  <2>1. s = 0 \/ s = 1
    OBVIOUS
  <2> QED BY <2>1, ValueOfWord, ValueOfByte, OctetIsInt
<1>4. low \in Int /\ 0 <= low /\ low + p < 65536 /\ (v < 256 /\ p < 256 => low + p < 256)
  BY <1>1, <1>3, BitFits
<1>5. p \in Int /\ p > 0
  BY <1>1 DEF PowersOfTwo
<1> HIDE DEF low
<1>6. w \in Int /\ 0 <= w /\ w < 65536 /\ (s = 0 => w < 256)
  BY <1>1, <1>3, <1>4, <1>5
<1> HIDE DEF w
<1>7. CASE s = 0
  <2>1. w \in Octet
    BY <1>6, <1>7 DEF Octet
  <2> QED BY <1>2, <1>7, <2>1, ValueOfByte
<1>8. CASE s = 1
  BY <1>2, <1>6, <1>8, WordIsValue
<1> QED BY <1>7, <1>8
LEMMA SetBitTyped == ASSUME NEW v \in Octet, NEW bit \in 0..7, NEW one PROVE SetBit(v, bit, one) \in Octet
<1>1. bit \in 0..15 /\ bit < 8 /\ 0 \in 0..1 /\ v \in Value(0)
  BY ValueOfByte
<1>2. (v - 2^bit * BitOf(v, bit)) + (IF one THEN 2^bit ELSE 0) \in Value(0)
  BY <1>1, BitPutFits
<1> QED BY <1>2, ValueOfByte DEF SetBit

(* A decoded instruction, and the rest of TLCS900h_interpret_dst.c *)
Decoding(i) == i.first \in Octet /\ i.second \in Octet /\ i.R \in 0..7 /\ i.size \in 0..3 /\ i.code \in Octet
LEMMA ShortSizes == \A s \in 0..1 : s \in Size
BY DEF Size
LEMMA DstStoresTyped ==
  ASSUME NEW c, Typed(c), NEW s \in Size, NEW i, Decoding(i)
  PROVE  /\ Typed(dstLDi(c, s)) /\ Typed(dstPOP(c, s)) /\ Typed(dstLDm16(c, s)) /\ Typed(dstLDA(c, s, i))
         /\ Typed(dstLDR(c, s, i))
<1>1. Fetch(c, s) \in Int /\ Top(c, s) \in Int /\ Load(c, s, Fetch(c, 1)) \in Int /\ reg(c, s, i.R) \in Int
  BY FetchTyped, TopTyped, FetchedWord, LoadedTyped, RegIsValue, ValueIsInt DEF Decoding
<1>2. Typed(Past(c, s)) /\ Typed(Past(c, 1)) /\ Typed(Dropped(c, s))
  BY PastTyped, PastOf, DroppedTyped
<1>3. Typed(dstLDi(c, s)) /\ Typed(dstPOP(c, s))
  BY <1>1, <1>2, StoreTyped DEF dstLDi, dstPOP
<1>4. Typed(dstLDm16(c, s)) /\ Typed(dstLDR(c, s, i))
  BY <1>1, <1>2, StoreTyped DEF dstLDm16, dstLDR
<1>5. Typed(dstLDA(c, s, i))
  BY StatusIsInt, ModOfInt, PutValue DEF dstLDA, Decoding
<1> QED BY <1>3, <1>4, <1>5
LEMMA WithCTyped == ASSUME NEW c, Typed(c), NEW v PROVE Typed(WithC(c, v))
<1>1. (c.f \ {"C"}) \cup Only(v, "C") \in FlagSets
  BY CpuFields, OnlyItself, SRFlagNames DEF FlagSets
<1> QED BY <1>1, FlagsPut DEF WithC
LEMMA CarryOpsTyped ==
  ASSUME NEW c, Typed(c), NEW bit
  PROVE  Typed(ANDCF(c, bit)) /\ Typed(ORCF(c, bit)) /\ Typed(XORCF(c, bit)) /\ Typed(LDCF(c, bit))
BY WithCTyped, SMT DEF ANDCF, ORCF, XORCF, LDCF
LEMMA STCFTyped == ASSUME NEW c, Typed(c), NEW bit \in 0..15 PROVE Typed(STCF(c, bit))
<1>1. CASE bit < 8
  <2>1. bit \in 0..7
    BY <1>1
  <2>2. SetBit(loadB(c, c.mem), bit, "C" \in c.f) \in Octet
    BY <2>1, LoadBTyped, SetBitTyped
  <2> QED BY <2>2, <1>1, StoreBTyped DEF STCF
<1>2. CASE ~(bit < 8)
  BY <1>2 DEF STCF
<1> QED BY <1>1, <1>2
LEMMA CFATyped == ASSUME NEW c, Typed(c), NEW i, i.second \in 40..44 PROVE Typed(dstCFA(c, i))
<1> DEFINE bit == REGA(c) % 16
<1>1. bit \in 0..15
  BY Accumulators, LowBits
<1>2. dstCFA(c, i) = CASE i.second = 40 -> ANDCF(c, bit) [] i.second = 41 -> ORCF(c, bit)
                        [] i.second = 42 -> XORCF(c, bit) [] i.second = 43 -> LDCF(c, bit) [] i.second = 44 -> STCF(c, bit)
  BY DEF dstCFA
<1> HIDE DEF bit
<1>3. Typed(ANDCF(c, bit)) /\ Typed(ORCF(c, bit)) /\ Typed(XORCF(c, bit)) /\ Typed(LDCF(c, bit)) /\ Typed(STCF(c, bit))
  BY <1>1, CarryOpsTyped, STCFTyped
<1>4. i.second = 40 \/ i.second = 41 \/ i.second = 42 \/ i.second = 43 \/ i.second = 44
  OBVIOUS
<1> QED BY <1>2, <1>3, <1>4, SMT
LEMMA CFTyped ==
  ASSUME NEW c, Typed(c), NEW i, Decoding(i), i.second \in (128..135) \cup (144..175) PROVE Typed(dstCF(c, i))
<1>1. i.R \in 0..15
  BY DEF Decoding
<1>2. Typed(ANDCF(c, i.R)) /\ Typed(ORCF(c, i.R)) /\ Typed(XORCF(c, i.R)) /\ Typed(LDCF(c, i.R)) /\ Typed(STCF(c, i.R))
  BY <1>1, CarryOpsTyped, STCFTyped
<1>3. i.second \in 128..135 \/ i.second \in 144..151 \/ i.second \in 152..159 \/ i.second \in 160..167 \/ i.second \in 168..175
  OBVIOUS
<1> QED BY <1>2, <1>3, SMT DEF dstCF
LEMMA TestedTyped ==
  ASSUME NEW c, Typed(c), NEW zero
  PROVE  Tested(c.f, zero) \in FlagSets /\ (c.f \ {"Z"}) \cup Only(zero, "Z") \in FlagSets
BY CpuFields, OnlyItself, SRFlagNames DEF FlagSets, Tested
LEMMA DstBitsTyped ==
  ASSUME NEW c, Typed(c), NEW i, Decoding(i)
  PROVE  Typed(dstTSET(c, i)) /\ Typed(dstRES(c, i)) /\ Typed(dstSET(c, i)) /\ Typed(dstCHG(c, i)) /\ Typed(dstBIT(c, i))
<1>1. \A one : SetBit(loadB(c, c.mem), i.R, one) \in Octet
  BY LoadBTyped, SetBitTyped DEF Decoding
<1>2. Typed(dstRES(c, i)) /\ Typed(dstSET(c, i)) /\ Typed(dstCHG(c, i))
  BY <1>1, StoreBTyped DEF dstRES, dstSET, dstCHG
<1>3. Typed(dstBIT(c, i))
  BY TestedTyped, FlagsPut DEF dstBIT
<1>4. Typed(dstTSET(c, i))
  <2> DEFINE zero == ~MemBit(c, i.R)
             d == SetF(c, (c.f \ {"Z"}) \cup Only(zero, "Z"))
             v == SetBit(loadB(c, c.mem), i.R, TRUE)
             e == storeB(d, c.mem, v)
  <2>1. dstTSET(c, i) = SetF(e, Tested(c.f, zero))
    BY DEF dstTSET
  <2>2. Typed(d) /\ Tested(c.f, zero) \in FlagSets
    BY TestedTyped, FlagsPut
  <2>3. v \in Octet
    BY <1>1
  <2> HIDE DEF zero, d, v
  <2>4. Typed(e)
    BY <2>2, <2>3, StoreBTyped
  <2> HIDE DEF e
  <2> QED BY <2>1, <2>2, <2>4, FlagsPut
<1> QED BY <1>2, <1>3, <1>4
LEMMA DstJumpsTyped ==
  ASSUME NEW c, Typed(c), NEW i PROVE Typed(dstJP(c, i)) /\ Typed(dstCALL(c, i)) /\ Typed(dstRET(c, i))
<1>1. Typed([c EXCEPT !.pc = c.mem])
  BY CpuFields, CpuPC
<1>2. Typed([Push(c, 2, c.pc) EXCEPT !.pc = c.mem])
  <2>1. Typed(Push(c, 2, c.pc))
    BY StatusIsInt, MainPushTyped, SizesAreSizes
  <2> QED BY <2>1, CpuFields, CpuPC
<1>3. Typed(sngRET(c))
  BY ReturnsTyped
<1>4. /\ dstJP(c, i) = [c EXCEPT !.pc = c.mem] \/ dstJP(c, i) = c
      /\ dstCALL(c, i) = [Push(c, 2, c.pc) EXCEPT !.pc = c.mem] \/ dstCALL(c, i) = c
      /\ dstRET(c, i) = sngRET(c) \/ dstRET(c, i) = c
  BY Zenon DEF dstJP, dstCALL, dstRET
<1> QED BY <1>1, <1>2, <1>3, <1>4
LEMMA DstTyped == ASSUME NEW c, Typed(c), NEW i, Decoding(i) PROVE Typed(tlcs_dispatch_dst(c, i))
<1> DEFINE op == i.second
<1>1. op \in Int
  BY OctetIsInt DEF Decoding
<1>2. op \in {0, 2} => Typed(dstLDi(c, op \div 2))
  BY DstStoresTyped, SizesAreSizes
<1>3. op \in {4, 6} => Typed(dstPOP(c, (op - 4) \div 2))
  BY DstStoresTyped, SizesAreSizes
<1>4. op \in {20, 22} => Typed(dstLDm16(c, (op - 20) \div 2))
  BY DstStoresTyped, SizesAreSizes
<1>5. /\ Typed(dstLDA(c, 1, i)) /\ Typed(dstLDA(c, 2, i))
      /\ Typed(dstLDR(c, 0, i)) /\ Typed(dstLDR(c, 1, i)) /\ Typed(dstLDR(c, 2, i))
  BY DstStoresTyped, SizesAreSizes
<1>6. op \in 40..44 => Typed(dstCFA(c, i))
  BY CFATyped
<1>7. op \in (128..135) \cup (144..175) => Typed(dstCF(c, i))
  BY CFTyped
<1>8. Typed(dstTSET(c, i)) /\ Typed(dstRES(c, i)) /\ Typed(dstSET(c, i)) /\ Typed(dstCHG(c, i)) /\ Typed(dstBIT(c, i))
  BY DstBitsTyped
<1>9. Typed(dstJP(c, i)) /\ Typed(dstCALL(c, i)) /\ Typed(dstRET(c, i))
  BY DstJumpsTyped
<1> QED BY SMT, <1>2, <1>3, <1>4, <1>5, <1>6, <1>7, <1>8, <1>9 DEF tlcs_dispatch_dst

(* The arithmetic: a number that fits the size, and a set of flags. *)
NumberWithFlags(s, o) == Fits(s, o[1]) /\ o[2] \in FlagSets
LEMMA CarriedIsBit == ASSUME NEW F PROVE Carried(F) \in 0..1
BY DEF Carried
LEMMA OutcomeTyped ==
  ASSUME NEW s, NEW q, NEW F \in FlagSets, NEW h, NEW v, NEW n, NEW z PROVE Outcome(s, q, F, h, v, n, z) \in FlagSets
BY OnlyItself, SRFlagNames DEF Outcome, FlagSets
LEMMA Reached == ASSUME NEW s \in Size, NEW x \in Int, -Mod(s) <= x, x < 2 * Mod(s) PROVE Fits(s, Wrap(s, x))
BY WrapIsValue, ValueFits
LEMMA MainSums ==
  ASSUME NEW s \in Size, NEW a \in Value(s), NEW b \in Value(s), NEW F \in FlagSets
  PROVE  /\ NumberWithFlags(s, GenericADC(s, a, b, F)) /\ NumberWithFlags(s, GenericSUB(s, a, b, F))
         /\ NumberWithFlags(s, GenericSBC(s, a, b, F))
<1>1. a \in Int /\ 0 <= a /\ a < Mod(s) /\ b \in Int /\ 0 <= b /\ b < Mod(s) /\ Mod(s) \in Int /\ Mod(s) >= 256
  BY Values
<1>2. Carried(F) \in 0..1
  BY CarriedIsBit
<1> DEFINE x == a + b + Carried(F)
           y == a - b
           w == a - b - Carried(F)
<1>3. x \in Int /\ y \in Int /\ w \in Int /\ -Mod(s) <= x /\ -Mod(s) <= y /\ -Mod(s) <= w
      /\ x < 2 * Mod(s) /\ y < 2 * Mod(s) /\ w < 2 * Mod(s)
  BY <1>1, <1>2
<1>4. Fits(s, Wrap(s, x)) /\ Fits(s, Wrap(s, y)) /\ Fits(s, Wrap(s, w))
  <2> HIDE DEF x, y, w
  <2> QED BY <1>3, Reached
<1> QED BY <1>4, OutcomeTyped DEF NumberWithFlags, GenericADC, GenericSUB, GenericSBC
LEMMA PlainSum ==
  ASSUME NEW s \in Size, NEW a \in Value(s), NEW b \in Value(s), NEW F \in FlagSets
  PROVE  NumberWithFlags(s, GenericADD(s, a, b, F)) /\ NumberWithFlags(s, Compared(s, a, b, F))
<1>1. F \ {"C"} \in FlagSets
  BY DEF FlagSets
<1>2. NumberWithFlags(s, GenericADD(s, a, b, F))
  BY <1>1, MainSums DEF GenericADD
<1>3. GenericSUB(s, a, b, F)[2] \in FlagSets
  BY MainSums DEF NumberWithFlags
<1>4. Fits(s, a)
  BY ValueFits
<1> QED BY <1>2, <1>3, <1>4 DEF Compared, NumberWithFlags
LEMMA Steps ==
  ASSUME NEW s \in Size, NEW a \in Value(s), NEW n \in 1..8, NEW F \in FlagSets
  PROVE  NumberWithFlags(s, Increased(s, a, n, F)) /\ NumberWithFlags(s, Decreased(s, a, n, F))
<1>1. a \in Int /\ 0 <= a /\ a < Mod(s) /\ Mod(s) \in Int /\ Mod(s) >= 256
  BY Values
<1>2. Fits(s, Wrap(s, a + n)) /\ Fits(s, Wrap(s, a - n))
  <2>1. a + n \in Int /\ a - n \in Int /\ -Mod(s) <= a + n /\ -Mod(s) <= a - n /\ a + n < 2 * Mod(s) /\ a - n < 2 * Mod(s)
    BY <1>1
  <2> QED BY <2>1, Reached
<1> QED BY <1>2, OutcomeTyped DEF NumberWithFlags, Increased, Decreased
LEMMA ParitiesTyped == ASSUME NEW s \in Size, NEW q, NEW F \in FlagSets PROVE Parities(s, q, F) \in FlagSets
<1>1. "V" \in SRFlag
  BY SRFlagNames
<1> QED BY <1>1, ThreeSizes, MainFlagged DEF Parities
LEMMA LogicalTyped ==
  ASSUME NEW s \in Size, NEW q, NEW F \in FlagSets, NEW h, NEW z PROVE Logical(s, q, F, h, z) \in FlagSets
BY ParitiesTyped, OnlyItself, SRFlagNames DEF Logical, FlagSets

(* The logical operations work byte by byte. *)
LEMMA NoBits == Bits(0) = {} /\ ByteOf({}) = 0
<1>1. ASSUME NEW n \in 0..7 PROVE BitOf(0, n) = 0
  <2> DEFINE p == 2^n
  <2>1. p \in Nat \ {0}
    BY PowerIsNat
  <2>2. BitOf(0, n) = (0 \div p) % 2
    BY DEF BitOf
  <2> HIDE DEF p
  <2>3. 0 \div p = 0
    BY <2>1
  <2> QED BY <2>2, <2>3
<1> QED BY <1>1 DEF Bits, ByteOf
LEMMA OfZeros == And(0, 0) = 0 /\ Or(0, 0) = 0 /\ Xor(0, 0) = 0
<1>1. {} \cap {} = {} /\ {} \cup {} = {} /\ ({} \ {}) \cup ({} \ {}) = {}
  OBVIOUS
<1> QED BY <1>1, NoBits DEF And, Or, Xor
LEMMA MainAndOrXor == ASSUME NEW a, NEW b PROVE And(a, b) \in Octet /\ Or(a, b) \in Octet /\ Xor(a, b) \in Octet
BY MainByteOfBits DEF And, Or, Xor
LEMMA UpperBytes ==
  ASSUME NEW s \in Size, NEW v \in Value(s)
  PROVE  /\ s = 0 => NthByte(v, 1) = 0
         /\ s # 2 => NthByte(v, 2) = 0 /\ NthByte(v, 3) = 0
<1>1. v \in Int /\ 0 <= v /\ (s # 2 => v < 65536) /\ (s = 0 => v < 256)
  <2>1. v \in Int /\ 0 <= v /\ v < Mod(s)
    BY Values
  <2>2. (s # 2 => Mod(s) = 256 \/ Mod(s) = 65536) /\ (s = 0 => Mod(s) = 256)
    BY ThreeSizes, Sizes
  <2> QED BY <2>1, <2>2
<1>2. NthByte(v, 1) = (v \div 256) % 256 /\ NthByte(v, 2) = (v \div 65536) % 256 /\ NthByte(v, 3) = (v \div 16777216) % 256
  BY Powers256 DEF NthByte
<1> QED BY <1>1, <1>2
LEMMA OfBytesFits ==
  ASSUME NEW s \in Size, NEW b, b[0] \in Octet, b[1] \in Octet, b[2] \in Octet, b[3] \in Octet,
         s = 0 => b[1] = 0, s # 2 => b[2] = 0 /\ b[3] = 0
  PROVE  Fits(s, OfBytes(b))
<1>1. OfBytes(b) \in Int
  BY OctetIsInt DEF OfBytes
<1>2. CASE s = 0
  <2>1. OfBytes(b) = b[0]
    BY SMTT(60), <1>2, OctetIsInt DEF OfBytes
  <2> QED BY <1>1, <1>2, <2>1, ValueOfByte DEF Fits
<1>3. CASE s = 1
  <2>1. OfBytes(b) = b[0] + 256 * b[1]
    BY <1>3, OctetIsInt DEF OfBytes
  <2> QED BY <1>1, <1>3, <2>1, WordOfOctets DEF Fits
<1>4. CASE s = 2
  BY <1>1, <1>4 DEF Fits
<1> QED BY <1>2, <1>3, <1>4, ThreeSizes
LEMMA BytewiseFits ==
  ASSUME NEW s \in Size, NEW a \in Value(s), NEW b \in Value(s)
  PROVE  Fits(s, Conjoined(a, b)) /\ Fits(s, Disjoined(a, b)) /\ Fits(s, Differing(a, b))
<1> DEFINE x == [k \in 0..3 |-> And(NthByte(a, k), NthByte(b, k))]
           y == [k \in 0..3 |-> Or(NthByte(a, k), NthByte(b, k))]
           z == [k \in 0..3 |-> Xor(NthByte(a, k), NthByte(b, k))]
<1>1. /\ s = 0 => NthByte(a, 1) = 0 /\ NthByte(b, 1) = 0
      /\ s # 2 => NthByte(a, 2) = 0 /\ NthByte(a, 3) = 0 /\ NthByte(b, 2) = 0 /\ NthByte(b, 3) = 0
  BY UpperBytes
<1>2. Fits(s, OfBytes(x))
  <2>1. x[0] \in Octet /\ x[1] \in Octet /\ x[2] \in Octet /\ x[3] \in Octet
    BY MainAndOrXor
  <2>2. (s = 0 => x[1] = 0) /\ (s # 2 => x[2] = 0 /\ x[3] = 0)
    BY <1>1, OfZeros
  <2> HIDE DEF x
  <2> QED BY <2>1, <2>2, OfBytesFits
<1>3. Fits(s, OfBytes(y))
  <2>1. y[0] \in Octet /\ y[1] \in Octet /\ y[2] \in Octet /\ y[3] \in Octet
    BY MainAndOrXor
  <2>2. (s = 0 => y[1] = 0) /\ (s # 2 => y[2] = 0 /\ y[3] = 0)
    BY <1>1, OfZeros
  <2> HIDE DEF y
  <2> QED BY <2>1, <2>2, OfBytesFits
<1>4. Fits(s, OfBytes(z))
  <2>1. z[0] \in Octet /\ z[1] \in Octet /\ z[2] \in Octet /\ z[3] \in Octet
    BY MainAndOrXor
  <2>2. (s = 0 => z[1] = 0) /\ (s # 2 => z[2] = 0 /\ z[3] = 0)
    BY <1>1, OfZeros
  <2> HIDE DEF z
  <2> QED BY <2>1, <2>2, OfBytesFits
<1> QED BY <1>2, <1>3, <1>4 DEF Conjoined, Disjoined, Differing
LEMMA MainLogics ==
  ASSUME NEW s \in Size, NEW a \in Value(s), NEW b \in Value(s), NEW F \in FlagSets
  PROVE  /\ NumberWithFlags(s, Anded(s, a, b, F)) /\ NumberWithFlags(s, Ored(s, a, b, F))
         /\ NumberWithFlags(s, Xored(s, a, b, F))
BY BytewiseFits, LogicalTyped DEF NumberWithFlags, Anded, Ored, Xored

(* One position of a rotation or shift. *)
Moves == {"RLC", "RRC", "RL", "RR", "SLA", "SLL", "SRA", "SRL"}
Positions(s) == Value(s) \X BOOLEAN
LEMMA HalvesOf == ASSUME NEW s \in Size PROVE Half(s) \in Int /\ Half(s) >= 128 /\ Mod(s) = 2 * Half(s)
BY Sizes, ThreeSizes DEF Mod
LEMMA PositionTyped ==
  ASSUME NEW op \in Moves, NEW s \in Size, NEW v \in Value(s), NEW z PROVE Position(op, s, v, z) \in Positions(s)
<1> DEFINE h == Half(s)
           up == Wrap(s, 2 * v)
           down == v \div 2
<1>1. v \in Int /\ 0 <= v /\ v < Mod(s) /\ h \in Int /\ h >= 128 /\ Mod(s) = 2 * h
  BY Values, HalvesOf
<1>2. up \in Int /\ 0 <= up /\ up + 1 < Mod(s)
  <2>1. up = IF 2 * v >= 2 * h THEN 2 * v - 2 * h ELSE 2 * v
    BY <1>1 DEF Wrap
  <2> HIDE DEF up, h
  <2> QED BY <1>1, <2>1
<1>3. down \in Int /\ 0 <= down /\ down + h < Mod(s)
  <2> HIDE DEF h
  <2> QED BY <1>1
<1> HIDE DEF up, down, h
<1>4. up \in Value(s) /\ up + 0 \in Value(s) /\ up + 1 \in Value(s)
      /\ down \in Value(s) /\ down + 0 \in Value(s) /\ down + h \in Value(s)
  <2>1. up + 0 = up /\ down + 0 = down
    BY <1>2, <1>3
  <2>2. up < Mod(s) /\ down < Mod(s) /\ 0 <= up + 1 /\ up + 1 \in Int /\ down + h \in Int /\ 0 <= down + h
    BY <1>1, <1>2, <1>3
  <2> QED BY <1>2, <1>3, <2>1, <2>2, Values
<1>5. \A w \in Value(s) : \A b \in BOOLEAN : <<w, b>> \in Positions(s)
  BY DEF Positions
<1>6. Negative(s, v) \in BOOLEAN /\ (v % 2 = 1) \in BOOLEAN
  BY DEF Negative
<1> DEFINE Up(x) == up + (IF x THEN 1 ELSE 0)
           Down(x) == down + (IF x THEN h ELSE 0)
<1>7. \A x : Up(x) \in Value(s) /\ Down(x) \in Value(s)
  BY <1>4
<1>8. /\ RotateLeft(s, v, z) = <<Up(Negative(s, v)), Negative(s, v)>>
      /\ RotateRight(s, v, z) = <<Down(v % 2 = 1), v % 2 = 1>>
      /\ CarryLeft(s, v, z) = <<Up(z), Negative(s, v)>> /\ CarryRight(s, v, z) = <<Down(z), v % 2 = 1>>
      /\ ShiftLeft(s, v, z) = <<up, Negative(s, v)>> /\ ShiftRight(s, v, z) = <<down, v % 2 = 1>>
      /\ ShiftArithmetic(s, v, z) = <<Down(Negative(s, v)), v % 2 = 1>>
  BY DEF up, down, h, RotateLeft, RotateRight, CarryLeft, CarryRight, ShiftLeft, ShiftRight, ShiftArithmetic
<1> HIDE DEF Up, Down
<1>9. /\ RotateLeft(s, v, z) \in Positions(s) /\ RotateRight(s, v, z) \in Positions(s)
      /\ CarryLeft(s, v, z) \in Positions(s)
      /\ CarryRight(s, v, z) \in Positions(s) /\ ShiftLeft(s, v, z) \in Positions(s) /\ ShiftRight(s, v, z) \in Positions(s)
      /\ ShiftArithmetic(s, v, z) \in Positions(s)
  BY ZenonT(60), <1>4, <1>5, <1>6, <1>7, <1>8
<1>10. op = "RLC" \/ op = "RRC" \/ op = "RL" \/ op = "RR" \/ op = "SLA" \/ op = "SLL" \/ op = "SRA" \/ op = "SRL"
  BY DEF Moves
<1> QED BY <1>9, <1>10, SMT DEF Position

(* Products, quotients and the decimal adjustment. *)
LEMMA Doubles ==
  ASSUME NEW s \in 0..1
  PROVE  /\ s \in Size /\ s + 1 \in Size
         /\ Mod(s) \in Int /\ Mod(s) >= 256
         /\ Mod(s + 1) \div Mod(s) \in Int /\ Mod(s + 1) \div Mod(s) >= 256
         /\ Mod(s + 1) = Mod(s) * (Mod(s + 1) \div Mod(s))
<1>1. CASE s = 0
  BY <1>1, Sizes, SizesAreSizes
<1>2. CASE s = 1
  <2>1. Mod(2) \div 65536 = LongHigh
    BY Sizes, LongHighRange
  <2> QED BY <1>2, <2>1, Sizes, LongHighRange, SizesAreSizes
<1> QED BY <1>1, <1>2
LEMMA MultipliedTyped ==
  ASSUME NEW c, Typed(c), NEW s \in 0..1, NEW code \in Octet, NEW v \in Value(s)
  PROVE  Typed(Multiplied(c, s, code, v)) /\ Typed(SignMultiplied(c, s, code, v))
<1> DEFINE x == rCode(c, s + 1, code) % Mod(s)
           y == (x * v) % Mod(s + 1)
           w == (Signed(s, x) * Signed(s, v)) % Mod(s + 1)
<1>1. s \in Size /\ s + 1 \in Size
  BY Doubles
<1>2. x \in Value(s)
  BY <1>1, RCodeIsValue, ValueIsInt, ModOfInt
<1>3. Multiplied(c, s, code, v) = SetCode(c, s + 1, code, y) /\ SignMultiplied(c, s, code, v) = SetCode(c, s + 1, code, w)
  BY DEF Multiplied, SignMultiplied
<1> HIDE DEF x
<1>4. x * v \in Int /\ Signed(s, x) * Signed(s, v) \in Int
  <2>1. x \in Int /\ v \in Int /\ Signed(s, x) \in Int /\ Signed(s, v) \in Int
    BY <1>1, <1>2, ValueIsInt, SignedIsInt
  <2> QED BY <2>1
<1>5. Fits(s + 1, y) /\ Fits(s + 1, w)
  BY <1>1, <1>4, ModOfInt, ValueFits
<1> HIDE DEF y, w
<1> QED BY <1>1, <1>3, <1>5, SetCodeTyped
LEMMA JoinedTyped == ASSUME NEW s \in 0..1, NEW x \in Int, NEW y \in Int PROVE Joined(s, x, y) \in Value(s + 1)
<1> DEFINE n == Mod(s)
           k == Mod(s + 1) \div Mod(s)
           low == x % n
           high == y % k
<1>1. n \in Int /\ n >= 256 /\ k \in Int /\ k >= 256 /\ Mod(s + 1) = n * k /\ s + 1 \in Size
  BY Doubles
<1>2. Joined(s, x, y) = low + n * high
  BY DEF Joined
<1> HIDE DEF n, k
<1>3. low \in Int /\ 0 <= low /\ low < n /\ high \in Int /\ 0 <= high /\ high < k
  BY <1>1
<1> HIDE DEF low, high
<1>4. n * high \in Int /\ 0 <= n * high /\ n * high <= n * (k - 1) /\ n * (k - 1) = n * k - n
  BY <1>1, <1>3
<1>5. low + n * high \in Int /\ 0 <= low + n * high /\ low + n * high < Mod(s + 1)
  BY <1>1, <1>3, <1>4
<1> QED BY <1>1, <1>2, <1>5, Values
LEMMA OverflowTyped == ASSUME NEW F \in FlagSets, NEW z PROVE Overflow(F, z) \in FlagSets /\ F \cup {"V"} \in FlagSets
BY OnlyItself, SRFlagNames DEF Overflow, FlagSets
LEMMA QuotientIsInt == ASSUME NEW a \in Int, NEW b \in Int, b # 0 PROVE Quotient(a, b) \in Int
<1> DEFINE x == IF a < 0 THEN -a ELSE a
           y == IF b < 0 THEN -b ELSE b
           q == x \div y
<1>1. x \in Int /\ y \in Int /\ y > 0
  OBVIOUS
<1>2. Quotient(a, b) = IF (a < 0) = (b < 0) THEN q ELSE -q
  BY DEF Quotient
<1> HIDE DEF x, y
<1>3. q \in Int
  BY <1>1
<1> HIDE DEF q
<1> QED BY <1>2, <1>3
LEMMA DividedNumber ==
  ASSUME NEW s \in 0..1, NEW x \in Value(s + 1), NEW d \in Value(s), NEW F \in FlagSets
  PROVE  NumberWithFlags(s + 1, GenericDIV(s, x, d, F))
<1>1. s \in Size /\ s + 1 \in Size /\ Mod(s) \in Int /\ Mod(s) >= 256
  BY Doubles
<1>2. x \in Int /\ d \in Int /\ 0 <= d
  BY <1>1, ValueIsInt
<1>3. CASE d = 0
  <2>1. Mod(s) - 1 - x \div Mod(s) \in Int
    BY <1>1, <1>2
  <2>2. Fits(s + 1, Joined(s, Mod(s) - 1 - x \div Mod(s), x))
    BY <1>1, <1>2, <2>1, JoinedTyped, ValueFits
  <2> QED BY <1>3, <2>2, OverflowTyped DEF GenericDIV, NumberWithFlags
<1>4. CASE d # 0
  <2>1. x \div d \in Int /\ x % d \in Int
    BY <1>2, <1>4
  <2>2. Fits(s + 1, Joined(s, x \div d, x % d))
    BY <1>1, <2>1, JoinedTyped, ValueFits
  <2> QED BY <1>4, <2>2, OverflowTyped DEF GenericDIV, NumberWithFlags
<1> QED BY <1>3, <1>4
LEMMA SignDividedNumber ==
  ASSUME NEW s \in 0..1, NEW x \in Value(s + 1), NEW d \in Value(s), NEW F \in FlagSets
  PROVE  NumberWithFlags(s + 1, GenericDIVS(s, x, d, F))
<1> DEFINE a == Signed(s + 1, x)
           b == Signed(s, d)
           q == Quotient(a, b)
           low == Mod(s) - 1 - ((a \div Mod(s)) % Mod(s))
           high == IF a < 0 THEN -1 ELSE x
           v == q >= Half(s) \/ q < -Half(s)
<1>1. s \in Size /\ s + 1 \in Size /\ Mod(s) \in Int /\ Mod(s) >= 256
  BY Doubles
<1>2. x \in Int /\ d \in Int /\ 0 <= d /\ d < Mod(s) /\ a \in Int /\ b \in Int
  BY <1>1, Values, SignedIsInt
<1>3. GenericDIVS(s, x, d, F) = IF d = 0 THEN <<Joined(s, low, high), F \cup {"V"}>>
                                 ELSE <<Joined(s, q, a - q * b), Overflow(F, v)>>
  BY DEF GenericDIVS
<1>4. CASE d = 0
  <2>1. low \in Int /\ high \in Int
    <3> HIDE DEF a
    <3> QED BY <1>1, <1>2
  <2> HIDE DEF a, low, high, q, b, v
  <2>2. Fits(s + 1, Joined(s, low, high))
    BY <1>1, <2>1, JoinedTyped, ValueFits
  <2> QED BY <1>3, <1>4, <2>2, OverflowTyped DEF NumberWithFlags
<1>5. CASE d # 0
  <2>1. b # 0
    BY <1>1, <1>2, <1>5 DEF Signed
  <2> HIDE DEF a, b, low, high, v
  <2>2. q \in Int
    BY <1>2, <2>1, QuotientIsInt
  <2> HIDE DEF q
  <2>3. a - q * b \in Int
    BY <1>2, <2>2
  <2>4. Fits(s + 1, Joined(s, q, a - q * b))
    BY <1>1, <2>2, <2>3, JoinedTyped, ValueFits
  <2> DEFINE whole == Joined(s, q, a - q * b)
  <2>5. GenericDIVS(s, x, d, F) = <<whole, Overflow(F, v)>>
    BY <1>3, <1>5
  <2>6. Fits(s + 1, whole)
    BY <2>4
  <2>7. Overflow(F, v) \in FlagSets
    BY OverflowTyped, Zenon
  <2> DEFINE G == Overflow(F, v)
  <2>8. GenericDIVS(s, x, d, F) = <<whole, G>> /\ G \in FlagSets
    BY <2>5, <2>7
  <2> HIDE DEF whole, G
  <2> QED BY <2>6, <2>8 DEF NumberWithFlags
<1> QED BY <1>4, <1>5
LEMMA WithCodeTyped ==
  ASSUME NEW c, Typed(c), NEW s \in Size, NEW code \in Octet, NEW o, NumberWithFlags(s, o)
  PROVE  Typed(WithCode(c, s, code, o))
<1>1. Typed(SetCode(c, s, code, o[1]))
  BY SetCodeTyped DEF NumberWithFlags
<1> QED BY <1>1, FlagsPut DEF WithCode, NumberWithFlags
LEMMA DividedTyped ==
  ASSUME NEW c, Typed(c), NEW s \in 0..1, NEW code \in Octet, NEW v \in Value(s)
  PROVE  Typed(Divided(c, s, code, v)) /\ Typed(SignDivided(c, s, code, v))
<1>1. s + 1 \in Size
  BY Doubles
<1>2. rCode(c, s + 1, code) \in Value(s + 1) /\ c.f \in FlagSets
  BY <1>1, RCodeIsValue, CpuFields
<1>3. NumberWithFlags(s + 1, GenericDIV(s, rCode(c, s + 1, code), v, c.f))
      /\ NumberWithFlags(s + 1, GenericDIVS(s, rCode(c, s + 1, code), v, c.f))
  BY <1>2, DividedNumber, SignDividedNumber
<1> QED BY <1>1, <1>3, WithCodeTyped DEF Divided, SignDivided
LEMMA AdjustedTyped == ASSUME NEW v \in Value(0), NEW F \in FlagSets PROVE NumberWithFlags(0, Adjusted(v, F))
<1> DEFINE low == v % 16
           high == v \div 16
           added == IF "C" \in F THEN (IF "H" \in F \/ low > 9 THEN 102 ELSE 96)
                    ELSE IF "H" \in F THEN (IF v < 154 THEN 6 ELSE 102)
                    ELSE IF high < 9 /\ low > 9 THEN 6
                    ELSE IF high > 8 /\ low > 9 THEN 102
                    ELSE IF high > 9 THEN 96 ELSE 0
           res == IF "N" \in F THEN Wrap(0, v - added) ELSE Wrap(0, v + added)
           half == IF "N" \in F THEN low < added % 16 ELSE low + (added % 16) > 15
           over == IF "N" \in F THEN res > v ELSE res < v
           G == (F \cap {"X", "Y", "N"}) \cup Only(Negative(0, res), "S") \cup Only(res = 0, "Z") \cup Only(half, "H")
                  \cup Parities(0, res, F) \cup Only("C" \in F \/ over, "C")
<1>1. Adjusted(v, F) = <<res, G>>
  BY Zenon DEF Adjusted
<1>2. added \in 0..102
  BY SMT
<1> HIDE DEF added
<1>3. v \in Int /\ 0 <= v /\ v < 256 /\ Mod(0) = 256 /\ 0 \in Size
  BY ValueOfByte, OctetIsInt, Sizes, SizesAreSizes
<1>4. Fits(0, res)
  <2>1. v - added \in Int /\ v + added \in Int /\ -Mod(0) <= v - added /\ -Mod(0) <= v + added
        /\ v - added < 2 * Mod(0) /\ v + added < 2 * Mod(0)
    BY <1>2, <1>3
  <2> QED BY <1>3, <2>1, Reached
<1> HIDE DEF res, half, over
<1>5. Parities(0, res, F) \in FlagSets
  BY <1>3, ParitiesTyped
<1>6. G \in FlagSets
  BY <1>5, OnlyItself, SRFlagNames DEF FlagSets
<1> HIDE DEF G
<1> QED BY <1>1, <1>4, <1>6 DEF NumberWithFlags

(* A computation that goes on from one state to the next. *)
LEMMA UpTo ==
  ASSUME NEW n \in Nat, NEW T, 0 \in T, \A k \in 0..(n - 1) : k \in T => k + 1 \in T
  PROVE  \A k \in 0..n : k \in T
<1> SUFFICES ASSUME NEW c \in 0..n, c \notin T PROVE FALSE
  OBVIOUS
<1> DEFINE bad == {k \in 0..n : k \notin T}
<1>1. bad \in SUBSET Nat /\ bad # {}
  OBVIOUS
<1> HIDE DEF bad
<1>2. PICK x \in bad : \A y \in bad : x <= y
  BY <1>1, LeastExists
<1>3. x \in 0..n /\ x \notin T
  BY <1>2 DEF bad
<1>4. x # 0
  BY <1>3
<1>5. x - 1 \in 0..(n - 1) /\ x - 1 \in 0..n /\ (x - 1) + 1 = x /\ x - 1 \in Nat /\ ~(x <= x - 1)
  BY <1>3, <1>4
<1>6. x - 1 \notin T
  BY <1>3, <1>5
<1>7. x - 1 \in bad
  BY <1>5, <1>6 DEF bad
<1> QED BY <1>2, <1>5, <1>7
\* g is the run of n rounds from x, of which the k-th is step[k].
Computes(n, S, x, step, g) == g \in [0..n -> S] /\ g[0] = x /\ \A k \in 1..n : g[k] = step[k][g[k - 1]]
StepsOver(n, S) == [1..n -> [S -> S]]
LEMMA Rounds ==
  ASSUME NEW N \in Nat, NEW S, NEW x \in S, NEW step \in StepsOver(N, S)
  PROVE  \E g : Computes(N, S, x, step, g)
<1> DEFINE T == {n \in 0..N : \E g : Computes(n, S, x, step, g)}
<1>1. 0 \in T
  <2> DEFINE g == [k \in 0..0 |-> x]
  <2>1. Computes(0, S, x, step, g)
    BY DEF Computes
  <2> QED BY <2>1
<1>2. ASSUME NEW n \in 0..(N - 1), n \in T PROVE n + 1 \in T
  <2>1. PICK g : Computes(n, S, x, step, g)
    BY <1>2
  <2>2. g \in [0..n -> S] /\ g[0] = x /\ \A k \in 1..n : g[k] = step[k][g[k - 1]]
    BY <2>1 DEF Computes
  <2>3. n \in Int /\ 0 <= n /\ n + 1 \in 1..N /\ n + 1 \in 0..N
    OBVIOUS
  <2> DEFINE y == step[n + 1][g[n]]
             h == [k \in 0..(n + 1) |-> IF k <= n THEN g[k] ELSE y]
  <2>4. g[n] \in S /\ y \in S
    BY <2>2, <2>3 DEF StepsOver
  <2>5. h \in [0..(n + 1) -> S] /\ h[0] = x
    <3> HIDE DEF y
    <3> QED BY <2>2, <2>3, <2>4
  <2>6. ASSUME NEW k \in 1..(n + 1) PROVE h[k] = step[k][h[k - 1]]
    <3>1. CASE k <= n
      <4>1. k \in 1..n /\ k \in 0..(n + 1) /\ k - 1 \in 0..(n + 1) /\ k - 1 <= n
        BY <2>3, <3>1
      <4>2. h[k] = g[k] /\ h[k - 1] = g[k - 1]
        BY <3>1, <4>1
      <4> QED BY <2>2, <4>1, <4>2
    <3>2. CASE ~(k <= n)
      <4>1. k = n + 1 /\ k - 1 = n /\ n \in 0..(n + 1) /\ k \in 0..(n + 1)
        BY <2>3, <3>2
      <4>2. h[n + 1] = y /\ h[n] = g[n]
        BY <4>1, <3>2
      <4> QED BY <4>1, <4>2
    <3> QED BY <3>1, <3>2
  <2>7. Computes(n + 1, S, x, step, h)
    <3> HIDE DEF h
    <3> QED BY <2>5, <2>6 DEF Computes
  <2> QED BY <2>3, <2>7
<1>3. N \in T
  <2>1. \A n \in 0..(N - 1) : n \in T => n + 1 \in T
    BY <1>2
  <2> HIDE DEF T
  <2>2. \A k \in 0..N : k \in T
    BY <1>1, <2>1, UpTo
  <2> QED BY <2>2
<1> QED BY <1>3
LEMMA RepeatedTyped ==
  ASSUME NEW op \in Moves, NEW s \in Size, NEW v \in Value(s), NEW F \in FlagSets, NEW n \in 0..15
  PROVE  NumberWithFlags(s, Repeated(op, s, v, F, n))
<1> DEFINE S == Positions(s)
           start == <<v, "C" \in F>>
           Next1(y) == Position(op, s, y[1], y[2])
           Goes(g) == g = [k \in 0..16 |-> IF k = 0 THEN start ELSE Next1(g[k - 1])]
           after == CHOOSE g : Goes(g)
           last == after[IF n = 0 THEN 16 ELSE n]
<1>1. Repeated(op, s, v, F, n) = <<last[1], Logical(s, last[1], F, FALSE, last[2])>>
  BY DEF Repeated
<1>2. \A y \in S : y[1] \in Value(s)
  BY DEF Positions
<1>3. start \in S /\ \A y \in S : Next1(y) \in S
  <2> DEFINE b == "C" \in F
  <2>1. b \in BOOLEAN
    OBVIOUS
  <2>2. start = <<v, b>>
    OBVIOUS
  <2> HIDE DEF b
  <2>3. start \in S
    BY <2>1, <2>2 DEF Positions
  <2>4. ASSUME NEW y \in S PROVE Next1(y) \in S
    BY <1>2, PositionTyped
  <2> QED BY <2>3, <2>4
<1> HIDE DEF Next1, start
<1>4. \E g : Goes(g)
  <2> DEFINE step == [k \in 1..16 |-> [y \in S |-> Next1(y)]]
  <2>1. step \in [1..16 -> [S -> S]]
    BY <1>3
  <2>2. PICK g \in [0..16 -> S] : g[0] = start /\ \A k \in 1..16 : g[k] = step[k][g[k - 1]]
    <3> DEFINE N == 16
    <3>1. N \in Nat /\ step \in StepsOver(N, S)
      BY <2>1 DEF StepsOver
    <3> HIDE DEF step, N, S
    <3>2. \E g : Computes(N, S, start, step, g)
      BY <1>3, <3>1, Rounds
    <3> QED BY <3>2 DEF N, Computes
  <2>3. \A k \in 0..16 : g[k] = IF k = 0 THEN start ELSE Next1(g[k - 1])
    <3> SUFFICES ASSUME NEW k \in 0..16, k # 0 PROVE g[k] = Next1(g[k - 1])
      BY <2>2
    <3>1. k \in 1..16 /\ k - 1 \in 0..16
      OBVIOUS
    <3>2. g[k - 1] \in S /\ g[k] = step[k][g[k - 1]]
      BY <2>2, <3>1
    <3>3. step[k] = [y \in S |-> Next1(y)]
      BY <3>1
    <3> HIDE DEF step
    <3> QED BY <3>2, <3>3
  <2> QED BY <2>2, <2>3
<1>5. Goes(after)
  BY <1>4
<1> HIDE DEF after
<1>6. \A k \in 0..16 : after[k] \in S
  <2> DEFINE T == {k \in 0..16 : after[k] \in S}
  <2>1. 0 \in T
    BY <1>3, <1>5
  <2>2. ASSUME NEW k \in 0..15, k \in T PROVE k + 1 \in T
    <3>1. k + 1 \in 0..16 /\ k + 1 # 0 /\ (k + 1) - 1 = k
      OBVIOUS
    <3>2. after[k + 1] = Next1(after[k])
      BY <1>5, <3>1
    <3> QED BY <1>3, <2>2, <3>1, <3>2
  <2>3. \A k \in 0..(16 - 1) : k \in T => k + 1 \in T
    BY <2>2
  <2> HIDE DEF T
  <2>4. \A k \in 0..16 : k \in T
    BY <2>1, <2>3, UpTo
  <2> QED BY <2>4 DEF T
<1>7. last[1] \in Value(s)
  BY <1>2, <1>6
<1> HIDE DEF last
<1> DEFINE G == Logical(s, last[1], F, FALSE, last[2])
<1>8. G \in FlagSets
  BY LogicalTyped, Zenon
<1> HIDE DEF G
<1>9. Fits(s, last[1])
  BY <1>7, ValueFits
<1>10. Repeated(op, s, v, F, n) = <<last[1], G>>
  BY <1>1 DEF G
<1> QED BY <1>8, <1>9, <1>10 DEF NumberWithFlags

(* TLCS900h_interpret_reg.c *)
Operand(i) == Decoding(i) /\ i.size \in Size
LEMMA OperandTyped ==
  ASSUME NEW c, Typed(c), NEW i, Operand(i)
  PROVE  /\ r(c, i) \in Value(i.size) /\ R(c, i) \in Value(i.size) /\ r(c, i) \in Int /\ R(c, i) \in Int
         /\ rCode(c, 0, i.code) \in Value(0) /\ rCode(c, 1, i.code) \in Value(1) /\ rCode(c, 2, i.code) \in Value(2)
BY RCodeIsValue, RegIsValue, ValueIsInt, SizesAreSizes DEF r, R, Operand, Decoding
LEMMA PutCodeTyped == ASSUME NEW c, Typed(c), NEW i, Operand(i), NEW v, Fits(i.size, v) PROVE Typed(Put(c, i, v))
BY SetCodeTyped DEF Put, Operand, Decoding
LEMMA PutRTyped == ASSUME NEW c, Typed(c), NEW i, Operand(i), NEW v, Fits(i.size, v) PROVE Typed(PutR(c, i, v))
BY SetRegTyped DEF PutR, Operand, Decoding
LEMMA ShortIsShort == ASSUME NEW i, Operand(i), Short(i) PROVE i.size \in 0..1
BY ThreeSizes DEF Operand, Short
LEMMA OperandOf ==
  ASSUME NEW i, Operand(i)
  PROVE  i.size \in Size /\ i.code \in Octet /\ i.R \in 0..7 /\ i.first \in Octet /\ i.second \in Octet
BY DEF Operand, Decoding
LEMMA DoubleCodes == ASSUME NEW i, Operand(i) PROVE get_rr_Target(i) \in Octet /\ get_RR_Target(i) \in Octet
<1>1. i.code \in Octet /\ i.R \in 0..7
  BY OperandOf
<1>2. i.first % 8 \in 0..7
  BY OperandOf, LowBits
<1>3. 224 + 4 * (i.first % 8) \in Octet /\ 224 + 4 * ((i.first % 8) \div 2) \in Octet /\ 224 + 4 * i.R \in Octet
      /\ 224 + 4 * (i.R \div 2) \in Octet /\ 128 \in Octet
  BY <1>1, <1>2 DEF Octet
<1> QED BY <1>1, <1>3 DEF get_rr_Target, get_RR_Target
LEMMA FetchedOperand ==
  ASSUME NEW c, Typed(c), NEW i, Operand(i)
  PROVE  /\ Typed(Past(c, i.size)) /\ Fetch(c, i.size) \in Value(i.size) /\ Fits(i.size, Fetch(c, i.size))
         /\ Typed(Dropped(c, i.size)) /\ Fits(i.size, Top(c, i.size))
BY OperandOf, PastTyped, FetchTyped, DroppedTyped, TopTyped, ValueFits
LEMMA LoadsTyped ==
  ASSUME NEW c, Typed(c), NEW i, Operand(i)
  PROVE  Typed(regLDi(c, i)) /\ Typed(regPUSH(c, i)) /\ Typed(regPOP(c, i)) /\ Typed(regCPL(c, i)) /\ Typed(regNEG(c, i))
<1>1. Typed(regLDi(c, i)) /\ Typed(regPOP(c, i))
  BY FetchedOperand, PutCodeTyped DEF regLDi, regPOP
<1>2. Typed(regPUSH(c, i))
  BY OperandTyped, OperandOf, MainPushTyped DEF regPUSH
<1>3. Typed(regCPL(c, i))
  <2> DEFINE v == Mod(i.size) - 1 - r(c, i)
             d == IF Short(i) THEN Put(c, i, v) ELSE c
  <2>1. v \in Value(i.size)
    <3>1. r(c, i) \in Int /\ 0 <= r(c, i) /\ r(c, i) < Mod(i.size) /\ Mod(i.size) \in Int
      BY OperandTyped, OperandOf, Values
    <3>2. v \in Int /\ 0 <= v /\ v < Mod(i.size)
      BY <3>1
    <3> QED BY <3>2, OperandOf, Values
  <2>2. Fits(i.size, v)
    BY <2>1, OperandOf, ValueFits
  <2> HIDE DEF v
  <2>3. Typed(d)
    BY <2>2, PutCodeTyped
  <2>4. c.f \cup {"H", "N"} \in FlagSets
    BY CpuFields, SRFlagNames DEF FlagSets
  <2>5. regCPL(c, i) = SetF(d, c.f \cup {"H", "N"})
    BY DEF regCPL, v
  <2> HIDE DEF d
  <2> QED BY <2>3, <2>4, <2>5, FlagsPut
<1>4. Typed(regNEG(c, i))
  <2>1. 0 \in Value(i.size)
    <3>1. 0 \in Octet
      BY DEF Octet
    <3> QED BY <3>1, OctetIsValue, OperandOf
  <2>2. NumberWithFlags(i.size, GenericSUB(i.size, 0, r(c, i), c.f))
    BY <2>1, MainSums, OperandTyped, OperandOf, CpuFields
  <2>3. Typed(WithCode(c, i.size, i.code, GenericSUB(i.size, 0, r(c, i), c.f)))
    BY <2>2, WithCodeTyped, OperandOf
  <2> QED BY <2>3 DEF regNEG
<1> QED BY <1>1, <1>2, <1>3, <1>4
LEMMA NextProductsTyped ==
  ASSUME NEW c, Typed(c), NEW i, Operand(i)
  PROVE  Typed(regMULi(c, i)) /\ Typed(regMULSi(c, i)) /\ Typed(regDIVi(c, i)) /\ Typed(regDIVSi(c, i))
<1>1. CASE Short(i)
  <2> DEFINE d == Past(c, i.size)
             v == Fetch(c, i.size)
             code == get_rr_Target(i)
             s == i.size
  <2>1. s \in 0..1
    BY <1>1, ShortIsShort
  <2>2. Typed(d) /\ v \in Value(s) /\ code \in Octet
    BY FetchedOperand, DoubleCodes
  <2>3. /\ regMULi(c, i) = Multiplied(d, s, code, v) /\ regMULSi(c, i) = SignMultiplied(d, s, code, v)
        /\ regDIVi(c, i) = Divided(d, s, code, v) /\ regDIVSi(c, i) = SignDivided(d, s, code, v)
    BY <1>1 DEF regMULi, regMULSi, regDIVi, regDIVSi
  <2> HIDE DEF d, v, code, s
  <2> QED BY <2>1, <2>2, <2>3, MultipliedTyped, DividedTyped
<1>2. CASE ~Short(i)
  BY <1>2 DEF regMULi, regMULSi, regDIVi, regDIVSi
<1> QED BY <1>1, <1>2
LEMMA ProductsTyped ==
  ASSUME NEW c, Typed(c), NEW i, Operand(i)
  PROVE  Typed(regMUL(c, i)) /\ Typed(regMULS(c, i)) /\ Typed(regDIV(c, i)) /\ Typed(regDIVS(c, i))
<1>1. CASE Short(i)
  <2> DEFINE v == r(c, i)
             code == get_RR_Target(i)
             s == i.size
  <2>1. s \in 0..1
    BY <1>1, ShortIsShort
  <2>2. v \in Value(s) /\ code \in Octet
    BY OperandTyped, DoubleCodes
  <2>3. /\ regMUL(c, i) = Multiplied(c, s, code, v) /\ regMULS(c, i) = SignMultiplied(c, s, code, v)
        /\ regDIV(c, i) = Divided(c, s, code, v) /\ regDIVS(c, i) = SignDivided(c, s, code, v)
    BY <1>1 DEF regMUL, regMULS, regDIV, regDIVS
  <2> HIDE DEF v, code, s
  <2> QED BY <2>1, <2>2, <2>3, MultipliedTyped, DividedTyped
<1>2. CASE ~Short(i)
  BY <1>2 DEF regMUL, regMULS, regDIV, regDIVS
<1> QED BY <1>1, <1>2
LEMMA LinkedTyped ==
  ASSUME NEW c, Typed(c), NEW i, Operand(i), NEW room \in Value(1)
  PROVE  Typed(Linked(c, i, room))
<1> DEFINE d == SetCode(c, 2, i.code, c.regs[XSP])
           v == (d.regs[XSP] + Signed(1, room)) % Mod(2)
<1>1. Typed(d)
  <2>1. Fits(2, c.regs[XSP])
    BY StackPointer, ValueFits, SizesAreSizes
  <2> QED BY <2>1, SetCodeTyped, OperandOf, SizesAreSizes
<1>2. Linked(c, i, room) = [d EXCEPT !.regs[XSP] = v]
  BY DEF Linked
<1> HIDE DEF d
<1>3. v \in Value(2)
  <2>1. d.regs[XSP] \in Int
    BY <1>1, StackPointer, LongIsInt
  <2>2. Signed(1, room) \in Int
    BY SignedIsInt, SizesAreSizes
  <2>3. d.regs[XSP] + Signed(1, room) \in Int
    BY <2>1, <2>2
  <2> QED BY <2>3, ModOfInt, SizesAreSizes
<1> HIDE DEF v
<1> QED BY <1>1, <1>2, <1>3, StackPointer
LEMMA FramesTyped ==
  ASSUME NEW c, Typed(c), NEW i, Operand(i)
  PROVE  Typed(regLINK(c, i)) /\ Typed(regUNLK(c, i))
<1>1. Typed(regLINK(c, i))
  <2> DEFINE d == Push(Past(c, 1), 2, rCode(c, 2, i.code))
  <2>1. Typed(d)
    <3>1. rCode(c, 2, i.code) \in Int
      BY OperandTyped, LongIsInt
    <3> QED BY <3>1, PastOf, MainPushTyped, SizesAreSizes
  <2>2. Fetch(c, 1) \in Value(1)
    BY FetchedWord
  <2>3. regLINK(c, i) = Linked(d, i, Fetch(c, 1))
    BY DEF regLINK
  <2> HIDE DEF d
  <2> QED BY <2>1, <2>2, <2>3, LinkedTyped
<1>2. Typed(regUNLK(c, i))
  <2> DEFINE d == [c EXCEPT !.regs[XSP] = rCode(c, 2, i.code)]
  <2>1. Typed(d)
    BY OperandTyped, StackPointer
  <2>2. regUNLK(c, i) = SetCode(Dropped(d, 2), 2, i.code, Top(d, 2))
    BY DEF regUNLK
  <2> HIDE DEF d
  <2>3. Typed(Dropped(d, 2)) /\ Fits(2, Top(d, 2))
    BY <2>1, DroppedOf, TopOf, ValueFits, SizesAreSizes
  <2> QED BY <2>2, <2>3, SetCodeTyped, OperandOf, SizesAreSizes
<1> QED BY <1>1, <1>2
LEMMA FoundTyped ==
  ASSUME NEW c, Typed(c), NEW bits, NEW bit, bits # {} => bit \in Octet
  PROVE  Typed(Found(c, bits, bit))
<1>1. c.f \cup {"V"} \in FlagSets
  BY CpuFields, SRFlagNames DEF FlagSets
<1>2. CASE bits = {}
  <2>1. Found(c, bits, bit) = SetF(c, c.f \cup {"V"})
    BY <1>2 DEF Found
  <2> QED BY <1>1, <2>1, FlagsPut
<1>3. CASE bits # {}
  <2>1. Found(c, bits, bit) = SetF(SetA(c, bit), c.f \ {"V"})
    BY <1>3 DEF Found
  <2>2. c.f \ {"V"} \in FlagSets
    BY CpuFields DEF FlagSets
  <2>3. Typed(SetA(c, bit))
    BY <1>3, SetATyped
  <2> QED BY <2>1, <2>2, <2>3, FlagsPut
<1> QED BY <1>2, <1>3
LEMMA LeastOfBits ==
  ASSUME NEW D \in SUBSET (0..15), D # {}
  PROVE  Min(D) \in Octet /\ Max(D) \in Octet
<1>1. Min(D) \in D
  <2>1. D \in SUBSET Nat
    OBVIOUS
  <2>2. \E x \in D : \A y \in D : x <= y
    BY <2>1, LeastExists
  <2> QED BY <2>2 DEF Min
<1>2. Max(D) \in D
  <2> DEFINE E == {15 - n : n \in D}
  <2>1. E \in SUBSET Nat /\ E # {}
    OBVIOUS
  <2>2. PICK x \in E : \A y \in E : x <= y
    <3> HIDE DEF E
    <3> QED BY <2>1, LeastExists
  <2>3. PICK n \in D : x = 15 - n
    BY <2>2
  <2>4. ASSUME NEW k \in D PROVE n >= k
    <3>1. 15 - k \in E
      OBVIOUS
    <3>2. x <= 15 - k
      BY <2>2, <3>1
    <3>3. n \in Int /\ k \in Int
      OBVIOUS
    <3> HIDE DEF E
    <3> QED BY <2>3, <3>2, <3>3
  <2>5. \E z \in D : \A y \in D : z >= y
    BY <2>4
  <2> QED BY <2>5 DEF Max
<1>3. \A n \in D : n \in Octet
  BY DEF Octet
<1> QED BY <1>1, <1>2, <1>3
LEMMA BitSearchTyped ==
  ASSUME NEW c, Typed(c), NEW i, Operand(i)
  PROVE  Typed(regBS1F(c, i)) /\ Typed(regBS1B(c, i))
<1> DEFINE low == Ones(c, i) \ {15}
           high == Ones(c, i) \ {0}
           least == IF low = {} THEN 0 ELSE Min(low)
           most == IF high = {} THEN 0 ELSE Max(high)
<1>1. low \in SUBSET (0..15) /\ high \in SUBSET (0..15)
  BY DEF Ones
<1>2. regBS1F(c, i) = Found(c, low, least) /\ regBS1B(c, i) = Found(c, high, most)
  BY DEF regBS1F, regBS1B
<1> HIDE DEF low, high
<1>3. low # {} => least \in Octet
  BY <1>1, LeastOfBits
<1>4. high # {} => most \in Octet
  BY <1>1, LeastOfBits
<1> HIDE DEF least, most
<1> QED BY <1>2, <1>3, <1>4, FoundTyped
LEMMA AdjustTyped == ASSUME NEW c, Typed(c), NEW i, Operand(i) PROVE Typed(regDAA(c, i))
<1>1. NumberWithFlags(0, Adjusted(rCode(c, 0, i.code), c.f))
  BY OperandTyped, AdjustedTyped, CpuFields
<1> QED BY <1>1, WithCodeTyped, OperandOf, SizesAreSizes DEF regDAA
LEMMA Smaller ==
  ASSUME NEW s \in Size, s # 0
  PROVE  /\ s - 1 \in Size
         /\ \A v \in Value(s - 1) : v \in Value(s)
<1>1. CASE s = 1
  <2>1. \A v \in Value(0) : v \in Value(1)
    BY ValueOfByte, OctetIsValue, SizesAreSizes
  <2> QED BY <1>1, <2>1, SizesAreSizes
<1>2. CASE s = 2
  <2>1. \A v \in Value(1) : v \in Value(2)
    BY WordIsLong
  <2> QED BY <1>2, <2>1, SizesAreSizes
<1> QED BY <1>1, <1>2, ThreeSizes
LEMMA ExtendedTyped ==
  ASSUME NEW c, Typed(c), NEW i, Operand(i)
  PROVE  Typed(regEXTZ(c, i)) /\ Typed(regEXTS(c, i))
<1>1. CASE i.size = 0
  BY <1>1 DEF regEXTZ, regEXTS
<1>2. CASE i.size # 0
  <2> DEFINE v == r(c, i) % Mod(i.size - 1)
             w == Signed(i.size - 1, v) % Mod(i.size)
  <2>1. i.size - 1 \in Size /\ \A x \in Value(i.size - 1) : x \in Value(i.size)
    BY <1>2, OperandOf, Smaller
  <2>2. v \in Value(i.size - 1)
    BY <2>1, OperandTyped, ModOfInt
  <2>3. regEXTZ(c, i) = Put(c, i, v) /\ regEXTS(c, i) = Put(c, i, w)
    BY <1>2 DEF regEXTZ, regEXTS
  <2> HIDE DEF v
  <2>4. w \in Value(i.size)
    BY <2>1, <2>2, SignedIsInt, OperandOf, ModOfInt
  <2> HIDE DEF w
  <2>5. Fits(i.size, v) /\ Fits(i.size, w)
    BY <2>1, <2>2, <2>4, OperandOf, ValueFits
  <2> QED BY <2>3, <2>5, PutCodeTyped
<1> QED BY <1>1, <1>2
LEMMA EvenPointerTyped == ASSUME NEW c, Typed(c), NEW i, Operand(i) PROVE Typed(regPAA(c, i))
<1> DEFINE v == r(c, i)
           next == Wrap(i.size, v + 1)
<1>1. regPAA(c, i) = Put(c, i, next) \/ regPAA(c, i) = c
  BY Zenon DEF regPAA
<1>2. next \in Value(i.size)
  <2>1. v \in Int /\ 0 <= v /\ v < Mod(i.size) /\ Mod(i.size) \in Int /\ Mod(i.size) >= 256
    BY OperandTyped, OperandOf, Values
  <2> HIDE DEF v
  <2>2. v + 1 \in Int /\ -Mod(i.size) <= v + 1 /\ v + 1 < 2 * Mod(i.size)
    BY <2>1
  <2> QED BY <2>2, OperandOf, WrapIsValue
<1> HIDE DEF next
<1>3. Fits(i.size, next)
  BY <1>2, OperandOf, ValueFits
<1> QED BY <1>1, <1>3, PutCodeTyped
LEMMA MirrorTyped == ASSUME NEW c, Typed(c), NEW i, Operand(i) PROVE Typed(regMIRR(c, i))
<1> DEFINE x == Mirrored(rCode(c, 1, i.code) \div 256)
           y == Mirrored(rCode(c, 1, i.code) % 256)
<1>1. x \in Octet /\ y \in Octet
  BY MainByteOfBits DEF Mirrored
<1>2. regMIRR(c, i) = SetCode(c, 1, i.code, 256 * y + x)
  BY DEF regMIRR
<1> HIDE DEF x, y
<1>3. x + 256 * y \in Value(1)
  BY <1>1, WordOfOctets
<1>4. 256 * y + x = x + 256 * y
  BY <1>1, OctetIsInt
<1>5. Fits(1, 256 * y + x)
  BY <1>3, <1>4, ValueFits, SizesAreSizes
<1> QED BY <1>2, <1>5, SetCodeTyped, OperandOf, SizesAreSizes
LEMMA SumFlagsTyped ==
  ASSUME NEW F \in FlagSets, NEW x, NEW y, NEW z
  PROVE  (F \ {"S", "Z", "V"}) \cup Only(x, "S") \cup Only(y, "Z") \cup Only(z, "V") \in FlagSets
BY OnlyItself, SRFlagNames DEF FlagSets
LEMMA SummedTyped == ASSUME NEW c, Typed(c), NEW i PROVE Typed(regMULA(c, i))
<1>1. PICK x, y, z : regMULA(c, i) = SetF(c, (c.f \ {"S", "Z", "V"}) \cup Only(x, "S") \cup Only(y, "Z") \cup Only(z, "V"))
  BY Zenon DEF regMULA
<1>2. (c.f \ {"S", "Z", "V"}) \cup Only(x, "S") \cup Only(y, "Z") \cup Only(z, "V") \in FlagSets
  BY CpuFields, SumFlagsTyped
<1> QED BY <1>1, <1>2, FlagsPut
LEMMA CountdownTyped == ASSUME NEW c, Typed(c), NEW i, Operand(i) PROVE Typed(regDJNZ(c, i))
<1> DEFINE v == r(c, i)
           next == Wrap(i.size, v - 1)
           d == Put(Past(c, 0), i, next)
<1>1. regDJNZ(c, i) = Past(c, 0) \/ regDJNZ(c, i) = d \/ regDJNZ(c, i) = Jump(d, 0, Fetch(c, 0))
  BY Zenon DEF regDJNZ
<1>2. next \in Value(i.size)
  <2>1. v \in Int /\ 0 <= v /\ v < Mod(i.size) /\ Mod(i.size) \in Int /\ Mod(i.size) >= 256
    BY OperandTyped, OperandOf, Values
  <2> HIDE DEF v
  <2>2. v - 1 \in Int /\ -Mod(i.size) <= v - 1 /\ v - 1 < 2 * Mod(i.size)
    BY <2>1
  <2> QED BY <2>2, OperandOf, WrapIsValue
<1> HIDE DEF next
<1>3. Fits(i.size, next)
  BY <1>2, OperandOf, ValueFits
<1>4. Typed(Past(c, 0)) /\ Typed(d)
  BY <1>3, PastOf, PutCodeTyped
<1> HIDE DEF d
<1>5. Typed(Jump(d, 0, Fetch(c, 0)))
  BY <1>4, JumpTyped, FetchTyped, SizesAreSizes
<1> QED BY <1>1, <1>4, <1>5

(* One bit of the register and C. *)
LEMMA CarryOpTyped == ASSUME NEW c, Typed(c), NEW i, NEW bit PROVE Typed(CarryOp(c, i, bit))
<1>1. \A new : (c.f \ {"C"}) \cup Only(new, "C") \in FlagSets
  BY CpuFields, OnlyItself, SRFlagNames DEF FlagSets
<1>2. \A new : Typed(SetF(c, (c.f \ {"C"}) \cup Only(new, "C")))
  BY <1>1, FlagsPut
<1>3. \E new : CarryOp(c, i, bit) = SetF(c, (c.f \ {"C"}) \cup Only(new, "C")) \/ CarryOp(c, i, bit) = c
  <2> DEFINE old == "C" \in c.f
             one == BitOf(r(c, i), bit) = 1
             new == CASE i.second % 8 = 0 -> old /\ one [] i.second % 8 = 1 -> old \/ one
                                   [] i.second % 8 = 2 -> old # one  [] i.second % 8 = 3 -> one
  <2>1. CarryOp(c, i, bit) = IF HasBit(i, bit) THEN SetF(c, (c.f \ {"C"}) \cup Only(new, "C")) ELSE c
    BY DEF CarryOp
  <2> HIDE DEF new
  <2> QED BY <2>1, Zenon
<1> QED BY <1>2, <1>3
LEMMA ChangedBit ==
  ASSUME NEW c, Typed(c), NEW i, Operand(i), NEW d, Typed(d), NEW bit \in 0..15, HasBit(i, bit), NEW one
  PROVE  Typed(Put(d, i, (r(c, i) - 2^bit * BitOf(r(c, i), bit)) + (IF one THEN 2^bit ELSE 0)))
<1> DEFINE w == (r(c, i) - 2^bit * BitOf(r(c, i), bit)) + (IF one THEN 2^bit ELSE 0)
<1>1. i.size \in 0..1 /\ (i.size = 0 => bit < 8)
  BY DEF HasBit
<1>2. w \in Value(i.size)
  BY <1>1, OperandTyped, BitPutFits
<1> HIDE DEF w
<1>3. Fits(i.size, w)
  BY <1>2, OperandOf, ValueFits
<1>4. Typed(Put(d, i, w))
  BY <1>3, PutCodeTyped
<1> QED BY <1>4 DEF w
LEMMA CarryStoredTyped ==
  ASSUME NEW c, Typed(c), NEW i, Operand(i), NEW bit \in 0..15 PROVE Typed(CarryStored(c, i, bit))
<1>1. CASE HasBit(i, bit)
  BY <1>1, ChangedBit DEF CarryStored
<1>2. CASE ~HasBit(i, bit)
  BY <1>2 DEF CarryStored
<1> QED BY <1>1, <1>2
LEMMA BitPutTyped ==
  ASSUME NEW c, Typed(c), NEW i, Operand(i), NEW bit \in 0..15, NEW one PROVE Typed(BitPut(c, i, bit, one))
<1>1. CASE HasBit(i, bit)
  BY <1>1, ChangedBit DEF BitPut
<1>2. CASE ~HasBit(i, bit)
  BY <1>2 DEF BitPut
<1> QED BY <1>1, <1>2
LEMMA BitNumbers == ASSUME NEW c, Typed(c) PROVE Fetch(c, 0) % 16 \in 0..15 /\ REGA(c) % 16 \in 0..15
BY FetchedByte, Accumulators, LowBits
LEMMA CarriesTyped ==
  ASSUME NEW c, Typed(c), NEW i, Operand(i)
  PROVE  Typed(regCFi(c, i)) /\ Typed(regSTCFi(c, i)) /\ Typed(regCFA(c, i)) /\ Typed(regSTCFA(c, i))
<1>1. Typed(Past(c, 0)) /\ Fetch(c, 0) % 16 \in 0..15 /\ REGA(c) % 16 \in 0..15
  BY PastOf, BitNumbers
<1>2. Typed(regCFi(c, i)) /\ Typed(regCFA(c, i))
  BY <1>1, CarryOpTyped DEF regCFi, regCFA
<1>3. Typed(regSTCFi(c, i)) /\ Typed(regSTCFA(c, i))
  BY <1>1, CarryStoredTyped DEF regSTCFi, regSTCFA
<1> QED BY <1>2, <1>3
LEMMA BitsTyped ==
  ASSUME NEW c, Typed(c), NEW i, Operand(i)
  PROVE  Typed(regRES(c, i)) /\ Typed(regSET(c, i)) /\ Typed(regCHG(c, i)) /\ Typed(regBIT(c, i)) /\ Typed(regTSET(c, i))
<1>1. Typed(Past(c, 0)) /\ NthBit(c, i) \in 0..15
  BY PastOf, FetchedByte, LowBits DEF NthBit
<1>2. TestFlags(c, i) \in FlagSets
  BY CpuFields, OnlyItself, SRFlagNames, Zenon DEF FlagSets, TestFlags
<1>3. \A one : Typed(BitPut(Past(c, 0), i, NthBit(c, i), one))
  BY <1>1, BitPutTyped
<1>4. Typed(regRES(c, i)) /\ Typed(regSET(c, i)) /\ Typed(regCHG(c, i))
  BY <1>3 DEF regRES, regSET, regCHG
<1>5. Typed(regBIT(c, i)) /\ Typed(regTSET(c, i))
  BY <1>1, <1>2, <1>3, FlagsPut DEF regBIT, regTSET
<1> QED BY <1>4, <1>5
LEMMA DmaCodesApart ==
  ASSUME NEW s \in Size, NEW k \in DmaCodes[s + 1]
  PROVE  /\ k \in DmaCodes[1] \cup DmaCodes[2] \cup DmaCodes[3]
         /\ \A t \in Size : k \in DmaCodes[t + 1] => t = s
<1>1. CASE s = 0
  BY <1>1, SMT DEF DmaCodes, Size
<1>2. CASE s = 1
  BY <1>2, SMT DEF DmaCodes, Size
<1>3. CASE s = 2
  BY <1>3, SMT DEF DmaCodes, Size
<1> QED BY <1>1, <1>2, <1>3, ThreeSizes
LEMMA DmaPut ==
  ASSUME NEW c, Typed(c), NEW s \in Size, NEW k \in DmaCodes[s + 1], NEW v \in Value(s)
  PROVE  Typed([c EXCEPT !.dma[k] = v])
<1> DEFINE codes == DmaCodes[1] \cup DmaCodes[2] \cup DmaCodes[3]
           d == [c.dma EXCEPT ![k] = v]
<1>1. k \in codes /\ \A t \in Size : k \in DmaCodes[t + 1] => t = s
  BY DmaCodesApart
<1>2. c.dma \in [codes -> Value(2)] /\ \A t \in Size : \A j \in DmaCodes[t + 1] : c.dma[j] \in Value(t)
  BY CpuFields DEF DmaRegisters
<1>3. v \in Value(2)
  BY ValueIsLong
<1>4. d \in [codes -> Value(2)]
  <2> HIDE DEF codes
  <2> QED BY <1>2, <1>3
<1>5. ASSUME NEW t \in Size, NEW j \in DmaCodes[t + 1] PROVE d[j] \in Value(t)
  <2>1. j \in codes
    BY DmaCodesApart
  <2> HIDE DEF codes
  <2>2. CASE j = k
    <3>1. t = s
      BY <1>1, <2>2
    <3> QED BY <1>2, <2>1, <2>2, <3>1
  <2>3. CASE j # k
    <3>1. d[j] = c.dma[j]
      BY <1>2, <2>1, <2>3
    <3> QED BY <1>2, <3>1
  <2> QED BY <2>2, <2>3
<1>6. d \in DmaRegisters
  <2> HIDE DEF d
  <2> QED BY <1>4, <1>5 DEF DmaRegisters
<1>7. Typed([c EXCEPT !.dma = d])
  BY <1>6, CpuDma
<1> QED BY <1>7
LEMMA DmaMovesTyped ==
  ASSUME NEW c, Typed(c), NEW i, Operand(i)
  PROVE  Typed(regLDCcrr(c, i)) /\ Typed(regLDCrcr(c, i))
<1> DEFINE cr == Fetch(c, 0)
           v == IF cr \in DmaCodes[i.size + 1] THEN c.dma[cr] ELSE 0
<1>1. Typed(Past(c, 0)) /\ i.size \in Size
  BY PastOf, OperandOf
<1>2. Typed(regLDCcrr(c, i))
  <2>1. CASE cr \in DmaCodes[i.size + 1]
    <3>1. regLDCcrr(c, i) = [Past(c, 0) EXCEPT !.dma[cr] = r(c, i)]
      BY <2>1 DEF regLDCcrr
    <3> HIDE DEF cr
    <3> QED BY <1>1, <2>1, <3>1, DmaPut, OperandTyped
  <2>2. CASE cr \notin DmaCodes[i.size + 1]
    <3>1. regLDCcrr(c, i) = Past(c, 0)
      BY <2>2 DEF regLDCcrr
    <3> QED BY <1>1, <3>1
  <2> QED BY <2>1, <2>2
<1>3. v \in Value(i.size)
  <2>1. CASE cr \in DmaCodes[i.size + 1]
    BY <1>1, <2>1, CpuFields DEF DmaRegisters
  <2>2. CASE cr \notin DmaCodes[i.size + 1]
    <3>1. 0 \in Octet
      BY DEF Octet
    <3> QED BY <1>1, <2>2, <3>1, OctetIsValue
  <2> QED BY <2>1, <2>2
<1>4. regLDCrcr(c, i) = Put(Past(c, 0), i, v)
  BY DEF regLDCrcr
<1> HIDE DEF v
<1>5. Typed(regLDCrcr(c, i))
  BY <1>1, <1>3, <1>4, ValueFits, PutCodeTyped
<1> QED BY <1>2, <1>5
LEMMA RingsTyped ==
  ASSUME NEW c, Typed(c), NEW i, Operand(i), i.second \in (56..58) \cup (60..62)
  PROVE  Typed(regMINC(c, i)) /\ Typed(regMDEC(c, i))
<1> DEFINE n == RingStep(i)
           num == (Fetch(c, 1) + n) % 65536
           up == IF (r(c, i) % num) = num - n THEN r(c, i) - (num - n) ELSE r(c, i) + n
           down == IF (r(c, i) % num) = 0 THEN (r(c, i) + num) - n ELSE r(c, i) - n
<1>1. n \in Int
  BY DEF RingStep
<1>2. /\ regMINC(c, i) = IF i.size = 1 /\ num # 0 THEN Put(Past(c, 1), i, up % 65536) ELSE Past(c, 1)
      /\ regMDEC(c, i) = IF i.size = 1 /\ num # 0 THEN Put(Past(c, 1), i, down % 65536) ELSE Past(c, 1)
  BY DEF regMINC, regMDEC
<1> HIDE DEF n
<1>3. num \in Int
  BY <1>1, FetchedWord
<1> HIDE DEF num
<1>4. up = r(c, i) - (num - n) \/ up = r(c, i) + n
  BY Zenon
<1>5. down = (r(c, i) + num) - n \/ down = r(c, i) - n
  BY Zenon
<1> HIDE DEF up, down
<1>6. r(c, i) \in Int
  BY OperandTyped
<1>7. up \in Int /\ down \in Int
  BY <1>1, <1>3, <1>4, <1>5, <1>6
<1>8. up % 65536 \in Value(1) /\ down % 65536 \in Value(1)
  <2>1. up % Mod(1) \in Value(1) /\ down % Mod(1) \in Value(1)
    BY <1>7, ModOfInt, SizesAreSizes
  <2> QED BY <2>1, Sizes
<1>9. i.size = 1 => Fits(i.size, up % 65536) /\ Fits(i.size, down % 65536)
  BY <1>8, ValueFits, SizesAreSizes
<1>10. i.size = 1 => Typed(Put(Past(c, 1), i, up % 65536)) /\ Typed(Put(Past(c, 1), i, down % 65536))
  BY <1>9, PastOf, PutCodeTyped
<1>11. /\ regMINC(c, i) = Past(c, 1) \/ (i.size = 1 /\ regMINC(c, i) = Put(Past(c, 1), i, up % 65536))
       /\ regMDEC(c, i) = Past(c, 1) \/ (i.size = 1 /\ regMDEC(c, i) = Put(Past(c, 1), i, down % 65536))
  <2>1. CASE i.size = 1 /\ num # 0
    BY <1>2, <2>1
  <2>2. CASE ~(i.size = 1 /\ num # 0)
    <3> DEFINE other == Put(Past(c, 1), i, up % 65536)
               another == Put(Past(c, 1), i, down % 65536)
    <3> HIDE DEF other, another
    <3>1. regMINC(c, i) = Past(c, 1) /\ regMDEC(c, i) = Past(c, 1)
      BY <1>2, <2>2
    <3> QED BY <3>1
  <2> QED BY <2>1, <2>2
<1> QED BY <1>10, <1>11, PastOf

(* The second opcode byte names another register, or a number from 1 to 8. *)
LEMMA CountIsSmall == ASSUME NEW i, Operand(i) PROVE Count(i) \in 1..8
BY OperandOf DEF Count
LEMMA CountedTyped ==
  ASSUME NEW c, Typed(c), NEW i, Operand(i), NEW o, NumberWithFlags(i.size, o)
  PROVE  Typed(Counted(c, i, o))
<1>1. Typed(Put(c, i, o[1])) /\ o[2] \in FlagSets
  BY PutCodeTyped DEF NumberWithFlags
<1>2. (IF i.size = 0 THEN o[2] ELSE c.f) \in FlagSets
  BY <1>1, CpuFields
<1> QED BY <1>1, <1>2, FlagsPut DEF Counted
LEMMA CountsTyped ==
  ASSUME NEW c, Typed(c), NEW i, Operand(i)
  PROVE  Typed(regINC(c, i)) /\ Typed(regDEC(c, i))
<1>1. /\ NumberWithFlags(i.size, Increased(i.size, r(c, i), Count(i), c.f))
      /\ NumberWithFlags(i.size, Decreased(i.size, r(c, i), Count(i), c.f))
  BY OperandOf, OperandTyped, CountIsSmall, CpuFields, Steps
<1> QED BY <1>1, CountedTyped DEF regINC, regDEC
LEMMA OctetFits == ASSUME NEW s \in Size, NEW v \in Octet PROVE Fits(s, v)
BY OctetIsValue, ValueFits
LEMMA RegisterLoadsTyped ==
  ASSUME NEW c, Typed(c), NEW i, Operand(i)
  PROVE  /\ Typed(regSCC(c, i)) /\ Typed(regLDRr(c, i)) /\ Typed(regLDrR(c, i)) /\ Typed(regLDr3(c, i))
         /\ Typed(regEX(c, i))
<1>1. Fits(i.size, r(c, i)) /\ Fits(i.size, R(c, i))
  BY OperandOf, OperandTyped, ValueFits
<1>2. Fits(i.size, 0) /\ Fits(i.size, 1) /\ Fits(i.size, i.R)
  <2>1. 0 \in Octet /\ 1 \in Octet /\ i.R \in Octet
    BY OperandOf DEF Octet
  <2> QED BY <2>1, OperandOf, OctetFits
<1>3. Typed(regSCC(c, i))
  <2>1. Typed(Put(c, i, 0)) /\ Typed(Put(c, i, 1))
    BY <1>2, PutCodeTyped
  <2>2. regSCC(c, i) = c \/ regSCC(c, i) = Put(c, i, 0) \/ regSCC(c, i) = Put(c, i, 1)
    BY Zenon DEF regSCC
  <2> QED BY <2>1, <2>2
<1>4. Typed(regLDRr(c, i)) /\ Typed(regLDrR(c, i)) /\ Typed(regLDr3(c, i))
  BY <1>1, <1>2, PutCodeTyped, PutRTyped DEF regLDRr, regLDrR, regLDr3
<1>5. Typed(regEX(c, i))
  BY <1>1, PutCodeTyped, PutRTyped DEF regEX
<1> QED BY <1>3, <1>4, <1>5
LEMMA WithRTyped ==
  ASSUME NEW c, Typed(c), NEW i, Operand(i), NEW o, NumberWithFlags(i.size, o) PROVE Typed(WithR(c, i, o))
BY PutRTyped, FlagsPut DEF WithR, NumberWithFlags
LEMMA OperandsOf ==
  ASSUME NEW c, Typed(c), NEW i, Operand(i)
  PROVE  i.size \in Size /\ r(c, i) \in Value(i.size) /\ R(c, i) \in Value(i.size) /\ c.f \in FlagSets
BY OperandOf, OperandTyped, CpuFields
LEMMA RegisterSumsTyped ==
  ASSUME NEW c, Typed(c), NEW i, Operand(i)
  PROVE  /\ Typed(regADD(c, i)) /\ Typed(regADC(c, i)) /\ Typed(regSUB(c, i)) /\ Typed(regSBC(c, i)) /\ Typed(regCP(c, i))
         /\ Typed(regAND(c, i)) /\ Typed(regOR(c, i)) /\ Typed(regXOR(c, i))
<1>1. Typed(regADC(c, i)) /\ Typed(regSUB(c, i)) /\ Typed(regSBC(c, i))
  BY OperandsOf, MainSums, WithRTyped DEF regADC, regSUB, regSBC, IntoR
<1>2. Typed(regADD(c, i)) /\ Typed(regCP(c, i))
  BY OperandsOf, PlainSum, WithRTyped DEF regADD, regCP, IntoR
<1>3. Typed(regAND(c, i)) /\ Typed(regOR(c, i)) /\ Typed(regXOR(c, i))
  BY OperandsOf, MainLogics, WithRTyped DEF regAND, regOR, regXOR, IntoR
<1> QED BY <1>1, <1>2, <1>3
LEMMA NextOperands ==
  ASSUME NEW c, Typed(c), NEW i, Operand(i)
  PROVE  Typed(Past(c, i.size)) /\ Fetch(c, i.size) \in Value(i.size) /\ i.code \in Octet
BY FetchedOperand, OperandOf
LEMMA NextSumsTyped ==
  ASSUME NEW c, Typed(c), NEW i, Operand(i)
  PROVE  /\ Typed(regADDi(c, i)) /\ Typed(regADCi(c, i)) /\ Typed(regSUBi(c, i)) /\ Typed(regSBCi(c, i))
         /\ Typed(regCPi(c, i))
         /\ Typed(regANDi(c, i)) /\ Typed(regORi(c, i)) /\ Typed(regXORi(c, i))
<1>1. Typed(regADCi(c, i)) /\ Typed(regSUBi(c, i)) /\ Typed(regSBCi(c, i))
  BY OperandsOf, NextOperands, MainSums, WithCodeTyped DEF regADCi, regSUBi, regSBCi, WithNext
<1>2. Typed(regADDi(c, i)) /\ Typed(regCPi(c, i))
  BY OperandsOf, NextOperands, PlainSum, WithCodeTyped DEF regADDi, regCPi, WithNext
<1>3. Typed(regANDi(c, i)) /\ Typed(regORi(c, i)) /\ Typed(regXORi(c, i))
  BY OperandsOf, NextOperands, MainLogics, WithCodeTyped DEF regANDi, regORi, regXORi, WithNext
<1> QED BY <1>1, <1>2, <1>3
LEMMA ShortComparisonTyped == ASSUME NEW c, Typed(c), NEW i, Operand(i) PROVE Typed(regCPr3(c, i))
<1>1. i.R \in Value(i.size)
  <2>1. i.R \in Octet
    BY OperandOf DEF Octet
  <2> QED BY <2>1, OctetIsValue, OperandOf
<1>2. NumberWithFlags(i.size, Compared(i.size, r(c, i), i.R, c.f))
  BY <1>1, OperandsOf, PlainSum
<1> QED BY <1>2, FlagsPut DEF regCPr3, NumberWithFlags
LEMMA ShiftTyped ==
  ASSUME NEW c, Typed(c), NEW i, Operand(i), NEW op \in Moves, NEW n \in Octet PROVE Typed(Shift(c, i, op, n))
<1> DEFINE k == n % 16
<1>1. k \in 0..15
  BY LowBits
<1>2. Shift(c, i, op, n) = WithCode(c, i.size, i.code, Repeated(op, i.size, r(c, i), c.f, k))
  BY DEF Shift
<1> HIDE DEF k
<1>3. NumberWithFlags(i.size, Repeated(op, i.size, r(c, i), c.f, k))
  BY <1>1, OperandsOf, RepeatedTyped
<1> QED BY <1>2, <1>3, OperandOf, WithCodeTyped
LEMMA ShiftsTyped ==
  ASSUME NEW c, Typed(c), NEW i, Operand(i)
  PROVE  /\ Typed(regRLCi(c, i)) /\ Typed(regRRCi(c, i)) /\ Typed(regRLi(c, i)) /\ Typed(regRRi(c, i))
         /\ Typed(regSLAi(c, i)) /\ Typed(regSRAi(c, i)) /\ Typed(regSLLi(c, i)) /\ Typed(regSRLi(c, i))
         /\ Typed(regRLCA(c, i)) /\ Typed(regRRCA(c, i)) /\ Typed(regRLA(c, i)) /\ Typed(regRRA(c, i))
         /\ Typed(regSLAA(c, i)) /\ Typed(regSRAA(c, i)) /\ Typed(regSLLA(c, i)) /\ Typed(regSRLA(c, i))
<1>1. \A op \in Moves : Typed(Shift(Past(c, 0), i, op, Fetch(c, 0))) /\ Typed(Shift(c, i, op, REGA(c)))
  BY PastOf, FetchedByte, Accumulators, ShiftTyped
<1>2. Moves = {"RLC", "RRC", "RL", "RR", "SLA", "SLL", "SRA", "SRL"}
  BY DEF Moves
<1> DEFINE x(op) == Shift(Past(c, 0), i, op, Fetch(c, 0))
           y(op) == Shift(c, i, op, REGA(c))
<1>3. /\ Typed(x("RLC")) /\ Typed(x("RRC")) /\ Typed(x("RL")) /\ Typed(x("RR"))
      /\ Typed(x("SLA")) /\ Typed(x("SRA")) /\ Typed(x("SLL")) /\ Typed(x("SRL"))
  BY <1>1, <1>2
<1>4. /\ Typed(y("RLC")) /\ Typed(y("RRC")) /\ Typed(y("RL")) /\ Typed(y("RR"))
      /\ Typed(y("SLA")) /\ Typed(y("SRA")) /\ Typed(y("SLL")) /\ Typed(y("SRL"))
  BY <1>1, <1>2
<1> QED BY <1>3, <1>4
           DEF regRLCi, regRRCi, regRLi, regRRi, regSLAi, regSRAi, regSLLi, regSRLi,
               regRLCA, regRRCA, regRLA, regRRA, regSLAA, regSRAA, regSLLA, regSRLA
LEMMA RegTyped == ASSUME NEW c, Typed(c), NEW i, Operand(i) PROVE Typed(tlcs_dispatch_reg(c, i))
<1>1. /\ Typed(regLDi(c, i)) /\ Typed(regPUSH(c, i)) /\ Typed(regPOP(c, i)) /\ Typed(regCPL(c, i)) /\ Typed(regNEG(c, i))
      /\ Typed(regMULi(c, i)) /\ Typed(regMULSi(c, i)) /\ Typed(regDIVi(c, i)) /\ Typed(regDIVSi(c, i))
      /\ Typed(regLINK(c, i)) /\ Typed(regUNLK(c, i)) /\ Typed(regBS1F(c, i)) /\ Typed(regBS1B(c, i))
  BY LoadsTyped, NextProductsTyped, FramesTyped, BitSearchTyped
<1>2. /\ Typed(regDAA(c, i)) /\ Typed(regEXTZ(c, i)) /\ Typed(regEXTS(c, i)) /\ Typed(regPAA(c, i)) /\ Typed(regMIRR(c, i))
      /\ Typed(regMULA(c, i)) /\ Typed(regDJNZ(c, i)) /\ Typed(regCFi(c, i)) /\ Typed(regSTCFi(c, i))
      /\ Typed(regCFA(c, i)) /\ Typed(regSTCFA(c, i)) /\ Typed(regLDCcrr(c, i)) /\ Typed(regLDCrcr(c, i))
  BY AdjustTyped, ExtendedTyped, EvenPointerTyped, MirrorTyped, SummedTyped, CountdownTyped, CarriesTyped, DmaMovesTyped
<1>3. /\ Typed(regRES(c, i)) /\ Typed(regSET(c, i)) /\ Typed(regCHG(c, i)) /\ Typed(regBIT(c, i)) /\ Typed(regTSET(c, i))
      /\ Typed(regMUL(c, i)) /\ Typed(regMULS(c, i)) /\ Typed(regDIV(c, i)) /\ Typed(regDIVS(c, i))
      /\ Typed(regINC(c, i)) /\ Typed(regDEC(c, i)) /\ Typed(regSCC(c, i)) /\ Typed(regLDRr(c, i))
      /\ Typed(regLDrR(c, i)) /\ Typed(regLDr3(c, i)) /\ Typed(regEX(c, i)) /\ Typed(regCPr3(c, i))
  BY BitsTyped, ProductsTyped, CountsTyped, RegisterLoadsTyped, ShortComparisonTyped
<1>4. (i.second \in 56..58 => Typed(regMINC(c, i))) /\ (i.second \in 60..62 => Typed(regMDEC(c, i)))
  BY RingsTyped
<1>5. /\ Typed(regADD(c, i)) /\ Typed(regADC(c, i)) /\ Typed(regSUB(c, i)) /\ Typed(regSBC(c, i)) /\ Typed(regCP(c, i))
      /\ Typed(regAND(c, i)) /\ Typed(regOR(c, i)) /\ Typed(regXOR(c, i))
      /\ Typed(regADDi(c, i)) /\ Typed(regADCi(c, i)) /\ Typed(regSUBi(c, i)) /\ Typed(regSBCi(c, i)) /\ Typed(regCPi(c, i))
      /\ Typed(regANDi(c, i)) /\ Typed(regORi(c, i)) /\ Typed(regXORi(c, i))
  BY RegisterSumsTyped, NextSumsTyped
<1>6. /\ Typed(regRLCi(c, i)) /\ Typed(regRRCi(c, i)) /\ Typed(regRLi(c, i)) /\ Typed(regRRi(c, i))
      /\ Typed(regSLAi(c, i)) /\ Typed(regSRAi(c, i)) /\ Typed(regSLLi(c, i)) /\ Typed(regSRLi(c, i))
      /\ Typed(regRLCA(c, i)) /\ Typed(regRRCA(c, i)) /\ Typed(regRLA(c, i)) /\ Typed(regRRA(c, i))
      /\ Typed(regSLAA(c, i)) /\ Typed(regSRAA(c, i)) /\ Typed(regSLLA(c, i)) /\ Typed(regSRLA(c, i))
  BY ShiftsTyped
<1>7. Typed(LowerReg(c, i))
  BY SMTT(60), <1>1, <1>2, <1>3, <1>4 DEF LowerReg
<1>8. i.second \in Int /\ i.second <= 255
  BY OperandOf, OctetIsInt
<1>9. i.second >= 128 => Typed(UpperReg(c, i))
  BY SMTT(60), <1>3, <1>8, <1>5, <1>6 DEF UpperReg
<1> QED BY <1>8, <1>7, <1>9 DEF tlcs_dispatch_reg

(* TLCS900h_interpret_src.c *)
LEMMA AddressedOperand ==
  ASSUME NEW c, Typed(c), NEW i, Operand(i) PROVE m(c, i) \in Value(i.size) /\ m(c, i) \in Int
BY OperandOf, StatusIsInt, LoadedTyped, ValueIsInt DEF m
LEMMA AddressedPush == ASSUME NEW c, Typed(c), NEW i, Operand(i) PROVE Typed(srcPUSH(c, i))
BY AddressedOperand, OperandOf, MainPushTyped DEF srcPUSH
LEMMA RotatedTyped ==
  ASSUME NEW c, Typed(c), NEW a \in Octet, NEW byte \in Octet PROVE Typed(Rotated(c, a, byte))
<1> DEFINE b == "C" \in c.f
           F == Logical(0, a, c.f, FALSE, b)
           d == storeB(SetA(c, a), c.mem, byte)
<1>1. Rotated(c, a, byte) = SetF(d, F)
  BY DEF Rotated
<1>2. Typed(d)
  BY SetATyped, StoreBTyped
<1> HIDE DEF b, d
<1>3. F \in FlagSets
  BY LogicalTyped, CpuFields, SizesAreSizes, Zenon
<1> HIDE DEF F
<1> QED BY <1>1, <1>2, <1>3, FlagsPut
LEMMA DigitsMoved ==
  ASSUME NEW a \in Octet, NEW b \in Octet
  PROVE  /\ (a - (a % 16)) + b \div 16 \in Octet /\ 16 * (b % 16) + (a % 16) \in Octet
         /\ (a - (a % 16)) + (b % 16) \in Octet /\ 16 * (a % 16) + b \div 16 \in Octet
<1>1. a \in Int /\ b \in Int /\ 0 <= a /\ a <= 255 /\ 0 <= b /\ b <= 255
  BY OctetIsInt
<1>2. PICK x \in 0..15 : x = a % 16
  BY <1>1
<1>3. PICK y \in 0..15 : y = b % 16
  BY <1>1
<1>4. PICK z \in 0..15 : z = b \div 16
  BY <1>1
<1>5. a - x \in Int /\ 0 <= a - x /\ a - x <= 240
  BY <1>1, <1>2
<1>6. (a - x) + z \in Octet /\ 16 * y + x \in Octet /\ (a - x) + y \in Octet /\ 16 * x + z \in Octet
  BY <1>5 DEF Octet
<1> QED BY <1>2, <1>3, <1>4, <1>6
LEMMA MemoryDigitsTyped == ASSUME NEW c, Typed(c) PROVE Typed(srcRLD(c)) /\ Typed(srcRRD(c))
<1>1. REGA(c) \in Octet /\ loadB(c, c.mem) \in Octet
  BY Accumulators, LoadBTyped
<1> QED BY <1>1, DigitsMoved, RotatedTyped DEF srcRLD, srcRRD
LEMMA OneLessTyped == ASSUME NEW c, Typed(c), NEW F \in FlagSets PROVE Typed(OneLess(c, F))
<1> DEFINE n == Wrap(1, REGBC(c) - 1)
           z == n # 0
<1>1. n \in Value(1)
  <2>1. REGBC(c) \in Int /\ 0 <= REGBC(c) /\ REGBC(c) < 65536
    BY Accumulators, ValueOfWord
  <2>2. REGBC(c) - 1 \in Int /\ -Mod(1) <= REGBC(c) - 1 /\ REGBC(c) - 1 < 2 * Mod(1)
    BY <2>1, Sizes
  <2> QED BY <2>2, WrapIsValue, SizesAreSizes
<1>2. OneLess(c, F) = SetF(SetReg(c, 1, 1, n), (F \ {"V"}) \cup Only(z, "V"))
  BY DEF OneLess
<1> HIDE DEF n, z
<1>3. (F \ {"V"}) \cup Only(z, "V") \in FlagSets
  BY OnlyItself, SRFlagNames DEF FlagSets
<1>4. Typed(SetReg(c, 1, 1, n))
  BY <1>1, PutValue, SizesAreSizes
<1> QED BY <1>2, <1>3, <1>4, FlagsPut
LEMMA WalkedTyped ==
  ASSUME NEW c, Typed(c), NEW i, Operand(i), NEW n \in 0..7, NEW step \in {1, -1}
  PROVE  Typed(Walked(c, i, n, step))
<1> DEFINE v == reg(c, 2, n)
           w == Width(i.size)
           to == Wrap(2, v + step * w)
<1>1. w \in 1..4
  BY OperandOf, WidthIsInt
<1>2. v \in Int /\ 0 <= v /\ v < Mod(2)
  BY RegIsValue, LongIsInt, SizesAreSizes
<1>3. Walked(c, i, n, step) = SetReg(c, 2, n, to)
  BY DEF Walked
<1> HIDE DEF v, w
<1>4. step * w \in Int /\ -4 <= step * w /\ step * w <= 4
  BY <1>1
<1>5. v + step * w \in Int /\ -Mod(2) <= v + step * w /\ v + step * w < 2 * Mod(2)
  <2> DEFINE x == step * w
             M2 == Mod(2)
  <2>1. x \in Int /\ -4 <= x /\ x <= 4
    BY <1>4
  <2>2. M2 \in Int /\ M2 >= 16777216
    BY Sizes
  <2> HIDE DEF x, M2
  <2>3. v < M2
    BY <1>2 DEF M2
  <2>4. v + x \in Int /\ -M2 <= v + x /\ v + x < 2 * M2
    BY <1>2, <2>1, <2>2, <2>3
  <2> QED BY <2>4 DEF x, M2
<1>6. to \in Value(2)
  BY <1>5, WrapIsValue, SizesAreSizes
<1> HIDE DEF to
<1> QED BY <1>3, <1>6, PutValue, SizesAreSizes
LEMMA MovedTyped ==
  ASSUME NEW c, Typed(c), NEW i, Operand(i), NEW step \in {1, -1} PROVE Typed(Moved(c, i, step))
<1> DEFINE dst == IF i.first % 16 = 5 THEN 4 ELSE 2
           src == dst + 1
           d == Store(c, i.size, reg(c, 2, dst), Load(c, i.size, reg(c, 2, src)))
           e == Walked(Walked(d, i, dst, step), i, src, step)
           x == IF ~Short(i) THEN c ELSE e
<1>1. dst \in 0..7 /\ src \in 0..7
  OBVIOUS
<1>2. Moved(c, i, step) = OneLess(x, c.f)
  BY DEF Moved
<1> HIDE DEF dst, src
<1>3. Load(c, i.size, reg(c, 2, src)) \in Int
  <2>1. reg(c, 2, src) \in Int
    BY <1>1, RegIsValue, LongIsInt, SizesAreSizes
  <2> QED BY <2>1, LoadedTyped, OperandOf, ValueIsInt
<1>4. Typed(d)
  BY <1>3, StoreTyped
<1> HIDE DEF d
<1>5. Typed(e)
  BY <1>1, <1>4, WalkedTyped
<1> HIDE DEF e
<1>6. Typed(x)
  BY <1>5
<1> HIDE DEF x
<1> QED BY <1>2, <1>6, CpuFields, OneLessTyped
LEMMA FlagsCleared == ASSUME NEW c, Typed(c) PROVE Typed([c EXCEPT !.f = @ \ {"H", "N"}])
<1>1. c.f \ {"H", "N"} \in FlagSets
  BY CpuFields DEF FlagSets
<1> QED BY <1>1, CpuFlags
LEMMA SoughtTyped ==
  ASSUME NEW c, Typed(c), NEW i, Operand(i), NEW step \in {1, -1} PROVE Typed(Sought(c, i, step))
<1> DEFINE n == i.first % 8
           a == IF i.size = 0 THEN REGA(c) ELSE reg(c, 1, 0)
           b == Load(c, i.size, reg(c, 2, n))
           o == GenericSUB(i.size, a, b, c.f)
<1>1. n \in 0..7
  BY OperandOf, LowBits
<1>2. Sought(c, i, step) = IF Short(i) THEN OneLess(Walked(c, i, n, step), o[2]) ELSE OneLess(c, c.f)
  BY DEF Sought
<1>3. CASE Short(i)
  <2>1. i.size = 0 \/ i.size = 1
    BY <1>3, ShortIsShort
  <2>2. a \in Value(i.size)
    <3>1. CASE i.size = 0
      BY <3>1, Accumulators, ValueOfByte
    <3>2. CASE i.size = 1
      BY <3>2, RegIsValue, SizesAreSizes
    <3> QED BY <2>1, <3>1, <3>2
  <2>3. b \in Value(i.size)
    <3> HIDE DEF n
    <3>1. reg(c, 2, n) \in Int
      BY <1>1, RegIsValue, LongIsInt, SizesAreSizes
    <3> QED BY <3>1, LoadedTyped, OperandOf
  <2> HIDE DEF n, a, b
  <2>4. o[2] \in FlagSets
    BY <2>2, <2>3, OperandOf, CpuFields, MainSums DEF NumberWithFlags
  <2> HIDE DEF o
  <2>5. Typed(OneLess(Walked(c, i, n, step), o[2]))
    BY <1>1, <2>4, WalkedTyped, OneLessTyped
  <2> QED BY <1>2, <1>3, <2>5
<1>4. CASE ~Short(i)
  <2>1. Typed(OneLess(c, c.f))
    BY CpuFields, OneLessTyped
  <2> QED BY <1>2, <1>4, <2>1
<1> QED BY <1>3, <1>4

(* A processor is one of a set, so that runs of instructions are functions into it. *)
Memories == UNION {[D -> Octet] : D \in SUBSET AddressSpace}
Mains == [regs : RegisterBanks, pc : Value(2), sh : Octet, f : FlagSets, fdash : Octet, mem : Value(2), ram : Memories,
          ipending : Requests, prio : Levels, dma : DmaRegisters, bus : BusWrites]
LEMMA MemoriesAre == \A ram : ram \in Memories <=> OctetsIn(ram)
<1>1. ASSUME NEW ram \in Memories PROVE OctetsIn(ram)
  <2>1. PICK D \in SUBSET AddressSpace : ram \in [D -> Octet]
    BY DEF Memories
  <2> QED BY <2>1 DEF OctetsIn
<1>2. ASSUME NEW ram, OctetsIn(ram) PROVE ram \in Memories
  <2>1. DOMAIN ram \in SUBSET AddressSpace /\ ram \in [DOMAIN ram -> Octet]
    BY <1>2 DEF OctetsIn
  <2> QED BY <2>1 DEF Memories
<1> QED BY <1>1, <1>2
LEMMA MainsAreTyped == \A c : c \in Mains <=> Typed(c)
<1>1. ASSUME NEW c \in Mains PROVE Typed(c)
  <2>1. c.ram \in Memories
    BY DEF Mains
  <2>2. OctetsIn(c.ram)
    BY <2>1, MemoriesAre
  <2> QED BY <2>2 DEF Mains, Typed
<1>2. ASSUME NEW c, Typed(c) PROVE c \in Mains
  <2>1. c.ram \in Memories
    BY <1>2, CpuFields, MemoriesAre
  <2> QED BY <1>2, <2>1 DEF Mains, Typed
<1> QED BY <1>1, <1>2
LEMMA StaysIn ==
  ASSUME NEW N \in Nat, NEW S, NEW g, g[0] \in S, \A k \in 0..(N - 1) : g[k] \in S => g[k + 1] \in S
  PROVE  g[N] \in S
<1> DEFINE T == {k \in 0..N : g[k] \in S}
<1>1. 0 \in T
  OBVIOUS
<1>2. ASSUME NEW k \in 0..(N - 1), k \in T PROVE k + 1 \in T
  <2>1. k + 1 \in 0..N
    OBVIOUS
  <2> QED BY <1>2, <2>1
<1>3. \A k \in 0..(N - 1) : k \in T => k + 1 \in T
  BY <1>2
<1> HIDE DEF T
<1>4. \A k \in 0..N : k \in T
  BY <1>1, <1>3, UpTo
<1>5. N \in 0..N
  OBVIOUS
<1>6. N \in T
  BY <1>4, <1>5
<1> QED BY <1>6 DEF T
LEMMA CountOfBC == ASSUME NEW c, Typed(c) PROVE REGBC(c) \in Nat
BY Accumulators, ValueOfWord
LEMMA MovedAllTyped ==
  ASSUME NEW c, Typed(c), NEW i, Operand(i), NEW step \in {1, -1} PROVE Typed(MovedAll(c, i, step))
<1> DEFINE Next1(y) == Moved(y, i, step)
           times == IF REGBC(c) = 0 THEN 65536 ELSE REGBC(c)
           Goes(g) == g = [k \in 0..times |-> IF k = 0 THEN c ELSE Next1(g[k - 1])]
           after == CHOOSE g : Goes(g)
<1>1. times \in Nat
  BY CountOfBC
<1>2. MovedAll(c, i, step) = [after[times] EXCEPT !.f = @ \ {"H", "N"}]
  BY DEF MovedAll
<1>3. c \in Mains /\ \A y \in Mains : Next1(y) \in Mains
  BY MainsAreTyped, MovedTyped
<1> HIDE DEF Next1, times
<1>4. \E g : Goes(g)
  <2> DEFINE rounds == [k \in 1..times |-> [y \in Mains |-> Next1(y)]]
  <2>1. rounds \in StepsOver(times, Mains)
    BY <1>3 DEF StepsOver
  <2>2. PICK g : Computes(times, Mains, c, rounds, g)
    <3> HIDE DEF rounds
    <3> QED BY <1>1, <1>3, <2>1, Rounds
  <2>3. g \in [0..times -> Mains] /\ g[0] = c /\ \A k \in 1..times : g[k] = rounds[k][g[k - 1]]
    BY <2>2 DEF Computes
  <2>4. \A k \in 0..times : g[k] = IF k = 0 THEN c ELSE Next1(g[k - 1])
    <3> SUFFICES ASSUME NEW k \in 0..times, k # 0 PROVE g[k] = Next1(g[k - 1])
      BY <2>3
    <3>1. k \in 1..times /\ k - 1 \in 0..times
      BY <1>1
    <3>2. g[k - 1] \in Mains /\ g[k] = rounds[k][g[k - 1]]
      BY <2>3, <3>1
    <3>3. rounds[k] = [y \in Mains |-> Next1(y)]
      BY <3>1
    <3> HIDE DEF rounds
    <3> QED BY <3>2, <3>3
  <2> QED BY <2>3, <2>4
<1>5. Goes(after)
  BY <1>4
<1> HIDE DEF after
<1>6. after[times] \in Mains
  <2>1. after[0] \in Mains
    BY <1>1, <1>3, <1>5
  <2>2. ASSUME NEW k \in 0..(times - 1), after[k] \in Mains PROVE after[k + 1] \in Mains
    <3>1. k + 1 \in 0..times /\ k + 1 # 0 /\ (k + 1) - 1 = k
      BY <1>1
    <3>2. after[k + 1] = Next1(after[k])
      BY <1>5, <3>1
    <3> QED BY <1>3, <2>2, <3>2
  <2> HIDE DEF Goes
  <2> QED BY <1>1, <2>1, <2>2, StaysIn
<1> QED BY <1>2, <1>6, MainsAreTyped, FlagsCleared
LEMMA SoughtAllTyped ==
  ASSUME NEW c, Typed(c), NEW i, Operand(i), NEW step \in {1, -1} PROVE Typed(SoughtAll(c, i, step))
<1> DEFINE start == Sought(c, i, step)
           next(d) == IF "V" \in d.f /\ "Z" \notin d.f THEN Sought(d, i, step) ELSE d
           more == IF REGBC(c) = 0 THEN 65535 ELSE REGBC(c) - 1
           Goes(g) == g = [k \in 0..more |-> IF k = 0 THEN start ELSE next(g[k - 1])]
           after == CHOOSE g : Goes(g)
<1>1. more \in Nat
  BY CountOfBC
<1>2. SoughtAll(c, i, step) = after[more]
  BY DEF SoughtAll
<1>3. start \in Mains /\ \A y \in Mains : next(y) \in Mains
  <2>1. \A y \in Mains : Sought(y, i, step) \in Mains
    BY MainsAreTyped, SoughtTyped
  <2>2. \A y \in Mains : next(y) = y \/ next(y) = Sought(y, i, step)
    BY Zenon
  <2>3. c \in Mains
    BY MainsAreTyped
  <2> HIDE DEF next
  <2> QED BY <2>1, <2>2, <2>3
<1> HIDE DEF start, next, more
<1>4. \E g : Goes(g)
  <2> DEFINE rounds == [k \in 1..more |-> [y \in Mains |-> next(y)]]
  <2>1. rounds \in StepsOver(more, Mains)
    BY <1>3 DEF StepsOver
  <2>2. PICK g : Computes(more, Mains, start, rounds, g)
    <3> HIDE DEF rounds
    <3> QED BY <1>1, <1>3, <2>1, Rounds
  <2>3. g \in [0..more -> Mains] /\ g[0] = start /\ \A k \in 1..more : g[k] = rounds[k][g[k - 1]]
    BY <2>2 DEF Computes
  <2>4. \A k \in 0..more : g[k] = IF k = 0 THEN start ELSE next(g[k - 1])
    <3> SUFFICES ASSUME NEW k \in 0..more, k # 0 PROVE g[k] = next(g[k - 1])
      BY <2>3
    <3>1. k \in 1..more /\ k - 1 \in 0..more
      BY <1>1
    <3>2. g[k - 1] \in Mains /\ g[k] = rounds[k][g[k - 1]]
      BY <2>3, <3>1
    <3>3. rounds[k] = [y \in Mains |-> next(y)]
      BY <3>1
    <3> HIDE DEF rounds
    <3> QED BY <3>2, <3>3
  <2> QED BY <2>3, <2>4
<1>5. Goes(after)
  BY <1>4
<1> HIDE DEF after
<1>6. after[more] \in Mains
  <2>1. after[0] \in Mains
    BY <1>1, <1>3, <1>5
  <2>2. ASSUME NEW k \in 0..(more - 1), after[k] \in Mains PROVE after[k + 1] \in Mains
    <3>1. k + 1 \in 0..more /\ k + 1 # 0 /\ (k + 1) - 1 = k
      BY <1>1
    <3>2. after[k + 1] = next(after[k])
      BY <1>5, <3>1
    <3> QED BY <1>3, <2>2, <3>2
  <2> HIDE DEF Goes
  <2> QED BY <1>1, <2>1, <2>2, StaysIn
<1> QED BY <1>2, <1>6, MainsAreTyped
LEMMA BlocksTyped ==
  ASSUME NEW c, Typed(c), NEW i, Operand(i)
  PROVE  /\ Typed(srcLDI(c, i)) /\ Typed(srcLDIR(c, i)) /\ Typed(srcLDD(c, i)) /\ Typed(srcLDDR(c, i))
         /\ Typed(srcCPI(c, i)) /\ Typed(srcCPIR(c, i)) /\ Typed(srcCPD(c, i)) /\ Typed(srcCPDR(c, i))
<1>1. ASSUME NEW step \in {1, -1}
      PROVE  /\ Typed(MovedOnce(c, i, step)) /\ Typed(MovedAll(c, i, step)) /\ Typed(Sought(c, i, step))
             /\ Typed(SoughtAll(c, i, step))
  <2>1. Typed(MovedOnce(c, i, step))
    BY MovedTyped, FlagsCleared DEF MovedOnce
  <2> QED BY <2>1, MovedAllTyped, SoughtTyped, SoughtAllTyped
<1>2. 1 \in {1, -1} /\ -1 \in {1, -1}
  OBVIOUS
<1>3. /\ Typed(MovedOnce(c, i, 1)) /\ Typed(MovedAll(c, i, 1)) /\ Typed(Sought(c, i, 1)) /\ Typed(SoughtAll(c, i, 1))
      /\ Typed(MovedOnce(c, i, -1)) /\ Typed(MovedAll(c, i, -1)) /\ Typed(Sought(c, i, -1)) /\ Typed(SoughtAll(c, i, -1))
  BY <1>1, <1>2
<1> QED BY <1>3 DEF srcLDI, srcLDIR, srcLDD, srcLDDR, srcCPI, srcCPIR, srcCPD, srcCPDR
LEMMA MemoryMovesTyped ==
  ASSUME NEW c, Typed(c), NEW i, Operand(i)
  PROVE  Typed(srcLD16m(c, i)) /\ Typed(srcLD(c, i)) /\ Typed(srcEX(c, i))
<1>1. m(c, i) \in Int /\ Fits(i.size, m(c, i)) /\ R(c, i) \in Int
  BY AddressedOperand, OperandOf, ValueFits, OperandTyped
<1>2. Typed(srcLD16m(c, i))
  BY <1>1, PastOf, StoreTyped DEF srcLD16m
<1>3. Typed(PutR(c, i, m(c, i)))
  BY <1>1, PutRTyped
<1> QED BY <1>1, <1>2, <1>3, StoreTyped DEF srcLD, srcEX
LEMMA MemoryResults ==
  ASSUME NEW c, Typed(c), NEW i, NEW s, NEW o, NumberWithFlags(s, o)
  PROVE  Typed(WithM(c, i, o)) /\ Typed(MWith(c, i, o))
<1>1. o[1] \in Int /\ o[2] \in FlagSets
  BY DEF NumberWithFlags, Fits
<1> QED BY <1>1, FlagsPut, StoreTyped DEF WithM, MWith
LEMMA MemoryOperands ==
  ASSUME NEW c, Typed(c), NEW i, Operand(i)
  PROVE  /\ i.size \in Size /\ m(c, i) \in Value(i.size) /\ R(c, i) \in Value(i.size) /\ c.f \in FlagSets
         /\ Typed(Past(c, i.size)) /\ Fetch(c, i.size) \in Value(i.size)
BY OperandsOf, AddressedOperand, FetchedOperand
LEMMA MemorySumsNextTyped ==
  ASSUME NEW c, Typed(c), NEW i, Operand(i)
  PROVE  Typed(srcADDi(c, i)) /\ Typed(srcADCi(c, i)) /\ Typed(srcSUBi(c, i)) /\ Typed(srcSBCi(c, i)) /\ Typed(srcCPi(c, i))
<1> DEFINE s == i.size
           x == m(c, i)
           y == Fetch(c, i.size)
           d == Past(c, i.size)
<1>1. s \in Size /\ x \in Value(s) /\ y \in Value(s) /\ c.f \in FlagSets /\ Typed(d)
  BY MemoryOperands
<1>2. /\ srcADDi(c, i) = WithM(d, i, GenericADD(s, x, y, c.f)) \/ srcADDi(c, i) = c
      /\ srcADCi(c, i) = WithM(d, i, GenericADC(s, x, y, c.f)) \/ srcADCi(c, i) = c
      /\ srcSUBi(c, i) = WithM(d, i, GenericSUB(s, x, y, c.f)) \/ srcSUBi(c, i) = c
      /\ srcSBCi(c, i) = WithM(d, i, GenericSBC(s, x, y, c.f)) \/ srcSBCi(c, i) = c
      /\ srcCPi(c, i) = SetF(d, Compared(s, x, y, c.f)[2]) \/ srcCPi(c, i) = c
  BY DEF srcADDi, srcADCi, srcSUBi, srcSBCi, srcCPi, ArithmeticNext
<1> HIDE DEF s, x, y, d
<1>3. /\ NumberWithFlags(s, GenericADD(s, x, y, c.f)) /\ NumberWithFlags(s, GenericADC(s, x, y, c.f))
      /\ NumberWithFlags(s, GenericSUB(s, x, y, c.f)) /\ NumberWithFlags(s, GenericSBC(s, x, y, c.f))
      /\ Compared(s, x, y, c.f)[2] \in FlagSets
  BY <1>1, MainSums, PlainSum DEF NumberWithFlags
<1>4. /\ Typed(WithM(d, i, GenericADD(s, x, y, c.f))) /\ Typed(WithM(d, i, GenericADC(s, x, y, c.f)))
      /\ Typed(WithM(d, i, GenericSUB(s, x, y, c.f))) /\ Typed(WithM(d, i, GenericSBC(s, x, y, c.f)))
  BY <1>1, <1>3, MemoryResults
<1>5. Typed(SetF(d, Compared(s, x, y, c.f)[2]))
  BY <1>1, <1>3, FlagsPut
<1> QED BY <1>2, <1>4, <1>5
LEMMA MemoryLogicsNextTyped ==
  ASSUME NEW c, Typed(c), NEW i, Operand(i)
  PROVE  Typed(srcANDi(c, i)) /\ Typed(srcORi(c, i)) /\ Typed(srcXORi(c, i))
<1> DEFINE s == i.size
           x == m(c, i)
           y == Fetch(c, i.size)
           d == Past(c, i.size)
           e(h) == SetF(c, (c.f \ {"H", "N", "C"}) \cup h)
<1>1. s \in Size /\ x \in Value(s) /\ y \in Value(s) /\ c.f \in FlagSets /\ Typed(d)
  BY MemoryOperands
<1>2. /\ srcANDi(c, i) = MWith(d, i, Anded(s, x, y, c.f)) \/ srcANDi(c, i) = e({"H"})
      /\ srcORi(c, i) = MWith(d, i, Ored(s, x, y, c.f)) \/ srcORi(c, i) = e({})
      /\ srcXORi(c, i) = MWith(d, i, Xored(s, x, y, c.f)) \/ srcXORi(c, i) = e({})
  BY DEF srcANDi, srcORi, srcXORi, LogicNext
<1>3. Typed(e({"H"})) /\ Typed(e({}))
  <2>1. (c.f \ {"H", "N", "C"}) \cup {"H"} \in FlagSets /\ (c.f \ {"H", "N", "C"}) \cup {} \in FlagSets
    BY CpuFields, SRFlagNames DEF FlagSets
  <2> QED BY <2>1, FlagsPut
<1> HIDE DEF s, x, y, d, e
<1>4. /\ NumberWithFlags(s, Anded(s, x, y, c.f)) /\ NumberWithFlags(s, Ored(s, x, y, c.f))
      /\ NumberWithFlags(s, Xored(s, x, y, c.f))
  BY <1>1, MainLogics
<1>5. /\ Typed(MWith(d, i, Anded(s, x, y, c.f))) /\ Typed(MWith(d, i, Ored(s, x, y, c.f)))
      /\ Typed(MWith(d, i, Xored(s, x, y, c.f)))
  BY <1>1, <1>4, MemoryResults
<1> QED BY <1>2, <1>3, <1>5
LEMMA MemoryProductsTyped ==
  ASSUME NEW c, Typed(c), NEW i, Operand(i)
  PROVE  Typed(srcMUL(c, i)) /\ Typed(srcMULS(c, i)) /\ Typed(srcDIV(c, i)) /\ Typed(srcDIVS(c, i))
<1>1. CASE HasDouble(i)
  <2> DEFINE v == m(c, i)
             code == get_RR_Target(i)
             s == i.size
  <2>1. s \in 0..1
    BY <1>1, ShortIsShort DEF HasDouble
  <2>2. v \in Value(s) /\ code \in Octet
    BY AddressedOperand, DoubleCodes
  <2>3. /\ srcMUL(c, i) = Multiplied(c, s, code, v) /\ srcMULS(c, i) = SignMultiplied(c, s, code, v)
        /\ srcDIV(c, i) = Divided(c, s, code, v) /\ srcDIVS(c, i) = SignDivided(c, s, code, v)
    BY <1>1 DEF srcMUL, srcMULS, srcDIV, srcDIVS
  <2> HIDE DEF v, code, s
  <2> QED BY <2>1, <2>2, <2>3, MultipliedTyped, DividedTyped
<1>2. CASE ~HasDouble(i)
  BY <1>2 DEF srcMUL, srcMULS, srcDIV, srcDIVS
<1> QED BY <1>1, <1>2
LEMMA MemoryCountsTyped == ASSUME NEW c, Typed(c), NEW i, Operand(i) PROVE Typed(srcINC(c, i)) /\ Typed(srcDEC(c, i))
<1>1. /\ NumberWithFlags(i.size, Increased(i.size, m(c, i), Count(i), c.f))
      /\ NumberWithFlags(i.size, Decreased(i.size, m(c, i), Count(i), c.f))
  BY MemoryOperands, CountIsSmall, Steps
<1> QED BY <1>1, MemoryResults DEF srcINC, srcDEC
LEMMA ShiftOnceTyped ==
  ASSUME NEW c, Typed(c), NEW i, Operand(i), NEW op \in Moves, NEW early, NEW kept
  PROVE  Typed(ShiftOnce(c, i, op, early, kept))
<1> DEFINE z == "C" \in c.f
           o == Position(op, i.size, m(c, i), z)
           F == ShiftFlags(c, i, o, kept)
           d == SetF(c, (c.f \ early) \cup (F \cap early))
           e == MWith(d, i, <<o[1], F>>)
           other == SetF(c, c.f \ ({"H", "N"} \ kept))
<1>1. ShiftOnce(c, i, op, early, kept) = IF Short(i) THEN e ELSE other
  BY DEF ShiftOnce, Shifted, ShiftStored
<1>2. Typed(other)
  <2>1. c.f \ ({"H", "N"} \ kept) \in FlagSets
    BY CpuFields DEF FlagSets
  <2> QED BY <2>1, FlagsPut
<1> HIDE DEF other
<1>3. o[1] \in Value(i.size)
  <2> HIDE DEF z
  <2>1. o \in Positions(i.size)
    BY MemoryOperands, PositionTyped
  <2> HIDE DEF o
  <2> QED BY <2>1 DEF Positions
<1> HIDE DEF o
<1>4. F \in FlagSets
  <2> DEFINE G == Logical(i.size, o[1], c.f, FALSE, o[2])
  <2>1. G \in FlagSets
    BY LogicalTyped, MemoryOperands, Zenon
  <2>2. F = (G \ kept) \cup (c.f \cap kept)
    BY DEF ShiftFlags
  <2> HIDE DEF G, F
  <2> QED BY <2>1, <2>2, CpuFields DEF FlagSets
<1> HIDE DEF F
<1>5. Typed(d)
  <2>1. (c.f \ early) \cup (F \cap early) \in FlagSets
    BY <1>4, CpuFields DEF FlagSets
  <2> QED BY <2>1, FlagsPut
<1> HIDE DEF d
<1>6. NumberWithFlags(i.size, <<o[1], F>>)
  BY <1>3, <1>4, ValueFits, OperandOf DEF NumberWithFlags
<1>7. Typed(e)
  BY <1>5, <1>6, MemoryResults
<1> HIDE DEF e
<1> QED BY <1>1, <1>2, <1>7
LEMMA MemoryShiftsTyped ==
  ASSUME NEW c, Typed(c), NEW i, Operand(i)
  PROVE  /\ Typed(srcRLC(c, i)) /\ Typed(srcRRC(c, i)) /\ Typed(srcRL(c, i)) /\ Typed(srcRR(c, i))
         /\ Typed(srcSLA(c, i)) /\ Typed(srcSRA(c, i)) /\ Typed(srcSLL(c, i)) /\ Typed(srcSRL(c, i))
<1>1. \A op \in Moves : \A early, kept : Typed(ShiftOnce(c, i, op, early, kept))
  BY ShiftOnceTyped
<1>2. \A op \in {"RLC", "RRC", "RL", "RR", "SLA", "SLL", "SRA", "SRL"} : op \in Moves
  BY DEF Moves
<1>3. \A early, kept : /\ Typed(ShiftOnce(c, i, "RLC", early, kept)) /\ Typed(ShiftOnce(c, i, "RRC", early, kept))
                       /\ Typed(ShiftOnce(c, i, "RL", early, kept)) /\ Typed(ShiftOnce(c, i, "RR", early, kept))
  BY <1>1, <1>2
<1>4. \A early, kept : /\ Typed(ShiftOnce(c, i, "SLA", early, kept)) /\ Typed(ShiftOnce(c, i, "SRA", early, kept))
                       /\ Typed(ShiftOnce(c, i, "SLL", early, kept)) /\ Typed(ShiftOnce(c, i, "SRL", early, kept))
  BY <1>1, <1>2
<1> QED BY <1>3, <1>4 DEF srcRLC, srcRRC, srcRL, srcRR, srcSLA, srcSRA, srcSLL, srcSRL
LEMMA MemorySumsTyped ==
  ASSUME NEW c, Typed(c), NEW i, Operand(i)
  PROVE  /\ Typed(srcADDRm(c, i)) /\ Typed(srcADDmR(c, i)) /\ Typed(srcADCRm(c, i)) /\ Typed(srcADCmR(c, i))
         /\ Typed(srcSUBRm(c, i)) /\ Typed(srcSUBmR(c, i)) /\ Typed(srcSBCRm(c, i)) /\ Typed(srcSBCmR(c, i))
         /\ Typed(srcCPRm(c, i)) /\ Typed(srcCPmR(c, i))
<1> DEFINE s == i.size
           x == m(c, i)
           y == R(c, i)
<1>1. s \in Size /\ x \in Value(s) /\ y \in Value(s) /\ c.f \in FlagSets
  BY MemoryOperands
<1>2. /\ srcADDRm(c, i) = WithR(c, i, GenericADD(s, y, x, c.f)) /\ srcADDmR(c, i) = WithM(c, i, GenericADD(s, x, y, c.f))
      /\ srcADCRm(c, i) = WithR(c, i, GenericADC(s, y, x, c.f)) /\ srcADCmR(c, i) = WithM(c, i, GenericADC(s, x, y, c.f))
      /\ srcSUBRm(c, i) = WithR(c, i, GenericSUB(s, y, x, c.f)) /\ srcSUBmR(c, i) = WithM(c, i, GenericSUB(s, x, y, c.f))
      /\ srcSBCRm(c, i) = WithR(c, i, GenericSBC(s, y, x, c.f)) /\ srcSBCmR(c, i) = WithM(c, i, GenericSBC(s, x, y, c.f))
      /\ srcCPRm(c, i) = WithR(c, i, Compared(s, y, x, c.f)) /\ srcCPmR(c, i) = SetF(c, Compared(s, x, y, c.f)[2])
  BY DEF srcADDRm, srcADDmR, srcADCRm, srcADCmR, srcSUBRm, srcSUBmR, srcSBCRm, srcSBCmR, srcCPRm, srcCPmR, Rm, mR
<1>3. i.size = s
  OBVIOUS
<1> HIDE DEF s, x, y
<1>4. /\ NumberWithFlags(s, GenericADD(s, x, y, c.f)) /\ NumberWithFlags(s, GenericADD(s, y, x, c.f))
      /\ NumberWithFlags(s, GenericADC(s, x, y, c.f)) /\ NumberWithFlags(s, GenericADC(s, y, x, c.f))
      /\ NumberWithFlags(s, GenericSUB(s, x, y, c.f)) /\ NumberWithFlags(s, GenericSUB(s, y, x, c.f))
      /\ NumberWithFlags(s, GenericSBC(s, x, y, c.f)) /\ NumberWithFlags(s, GenericSBC(s, y, x, c.f))
      /\ NumberWithFlags(s, Compared(s, x, y, c.f)) /\ NumberWithFlags(s, Compared(s, y, x, c.f))
  BY <1>1, MainSums, PlainSum
<1>5. /\ Typed(WithM(c, i, GenericADD(s, x, y, c.f))) /\ Typed(WithM(c, i, GenericADC(s, x, y, c.f)))
      /\ Typed(WithM(c, i, GenericSUB(s, x, y, c.f))) /\ Typed(WithM(c, i, GenericSBC(s, x, y, c.f)))
  BY <1>4, MemoryResults
<1>6. /\ Typed(WithR(c, i, GenericADD(s, y, x, c.f))) /\ Typed(WithR(c, i, GenericADC(s, y, x, c.f)))
      /\ Typed(WithR(c, i, GenericSUB(s, y, x, c.f))) /\ Typed(WithR(c, i, GenericSBC(s, y, x, c.f)))
      /\ Typed(WithR(c, i, Compared(s, y, x, c.f)))
  BY <1>4, <1>3, WithRTyped
<1>7. Typed(SetF(c, Compared(s, x, y, c.f)[2]))
  BY <1>4, FlagsPut DEF NumberWithFlags
<1> QED BY <1>2, <1>5, <1>6, <1>7
LEMMA MemoryLogicsTyped ==
  ASSUME NEW c, Typed(c), NEW i, Operand(i)
  PROVE  /\ Typed(srcANDRm(c, i)) /\ Typed(srcANDmR(c, i)) /\ Typed(srcXORRm(c, i)) /\ Typed(srcXORmR(c, i))
         /\ Typed(srcORRm(c, i)) /\ Typed(srcORmR(c, i))
<1> DEFINE s == i.size
           x == m(c, i)
           y == R(c, i)
<1>1. s \in Size /\ x \in Value(s) /\ y \in Value(s) /\ c.f \in FlagSets
  BY MemoryOperands
<1>2. /\ srcANDRm(c, i) = WithR(c, i, Anded(s, y, x, c.f)) /\ srcANDmR(c, i) = MWith(c, i, Anded(s, x, y, c.f))
      /\ srcXORRm(c, i) = WithR(c, i, Xored(s, y, x, c.f)) /\ srcXORmR(c, i) = MWith(c, i, Xored(s, x, y, c.f))
      /\ srcORRm(c, i) = WithR(c, i, Ored(s, y, x, c.f)) /\ srcORmR(c, i) = MWith(c, i, Ored(s, x, y, c.f))
  BY DEF srcANDRm, srcANDmR, srcXORRm, srcXORmR, srcORRm, srcORmR, Rm, LogicmR
<1>3. i.size = s
  OBVIOUS
<1> HIDE DEF s, x, y
<1>4. /\ NumberWithFlags(s, Anded(s, x, y, c.f)) /\ NumberWithFlags(s, Anded(s, y, x, c.f))
      /\ NumberWithFlags(s, Ored(s, x, y, c.f)) /\ NumberWithFlags(s, Ored(s, y, x, c.f))
      /\ NumberWithFlags(s, Xored(s, x, y, c.f)) /\ NumberWithFlags(s, Xored(s, y, x, c.f))
  BY <1>1, MainLogics
<1>5. /\ Typed(MWith(c, i, Anded(s, x, y, c.f))) /\ Typed(MWith(c, i, Ored(s, x, y, c.f)))
      /\ Typed(MWith(c, i, Xored(s, x, y, c.f)))
  BY <1>4, MemoryResults
<1>6. /\ Typed(WithR(c, i, Anded(s, y, x, c.f))) /\ Typed(WithR(c, i, Ored(s, y, x, c.f)))
      /\ Typed(WithR(c, i, Xored(s, y, x, c.f)))
  BY <1>4, <1>3, WithRTyped
<1> QED BY <1>2, <1>5, <1>6
LEMMA SrcTyped == ASSUME NEW c, Typed(c), NEW i, Operand(i) PROVE Typed(tlcs_dispatch_src(c, i))
<1>1. /\ Typed(srcPUSH(c, i)) /\ Typed(srcRLD(c)) /\ Typed(srcRRD(c))
      /\ Typed(srcLDI(c, i)) /\ Typed(srcLDIR(c, i)) /\ Typed(srcLDD(c, i)) /\ Typed(srcLDDR(c, i))
      /\ Typed(srcCPI(c, i)) /\ Typed(srcCPIR(c, i)) /\ Typed(srcCPD(c, i)) /\ Typed(srcCPDR(c, i))
      /\ Typed(srcLD16m(c, i)) /\ Typed(srcLD(c, i)) /\ Typed(srcEX(c, i))
  BY AddressedPush, MemoryDigitsTyped, BlocksTyped, MemoryMovesTyped
<1>2. /\ Typed(srcADDi(c, i)) /\ Typed(srcADCi(c, i)) /\ Typed(srcSUBi(c, i)) /\ Typed(srcSBCi(c, i)) /\ Typed(srcCPi(c, i))
      /\ Typed(srcANDi(c, i)) /\ Typed(srcORi(c, i)) /\ Typed(srcXORi(c, i))
      /\ Typed(srcMUL(c, i)) /\ Typed(srcMULS(c, i)) /\ Typed(srcDIV(c, i)) /\ Typed(srcDIVS(c, i))
      /\ Typed(srcINC(c, i)) /\ Typed(srcDEC(c, i))
  BY MemorySumsNextTyped, MemoryLogicsNextTyped, MemoryProductsTyped, MemoryCountsTyped
<1>3. /\ Typed(srcRLC(c, i)) /\ Typed(srcRRC(c, i)) /\ Typed(srcRL(c, i)) /\ Typed(srcRR(c, i))
      /\ Typed(srcSLA(c, i)) /\ Typed(srcSRA(c, i)) /\ Typed(srcSLL(c, i)) /\ Typed(srcSRL(c, i))
  BY MemoryShiftsTyped
<1>4. /\ Typed(srcADDRm(c, i)) /\ Typed(srcADDmR(c, i)) /\ Typed(srcADCRm(c, i)) /\ Typed(srcADCmR(c, i))
      /\ Typed(srcSUBRm(c, i)) /\ Typed(srcSUBmR(c, i)) /\ Typed(srcSBCRm(c, i)) /\ Typed(srcSBCmR(c, i))
      /\ Typed(srcCPRm(c, i)) /\ Typed(srcCPmR(c, i))
      /\ Typed(srcANDRm(c, i)) /\ Typed(srcANDmR(c, i)) /\ Typed(srcXORRm(c, i)) /\ Typed(srcXORmR(c, i))
      /\ Typed(srcORRm(c, i)) /\ Typed(srcORmR(c, i))
  BY MemorySumsTyped, MemoryLogicsTyped
<1>5. Typed(LowerSrc(c, i))
  BY SMTT(60), <1>1, <1>2, <1>3 DEF LowerSrc
<1>6. i.second \in Int /\ i.second <= 255
  BY OperandOf, OctetIsInt
<1>7. i.second >= 128 => Typed(UpperSrc(c, i))
  BY <1>4, <1>6, SMT DEF UpperSrc
<1> QED BY <1>5, <1>7, <1>6 DEF tlcs_dispatch_src

(* TLCS900h_threaded.c: the addressing modes and the tables. *)
LEMMA MemorySet == ASSUME NEW c, Typed(c), NEW v \in Value(2) PROVE Typed([c EXCEPT !.mem = v])
BY CpuMem
LEMMA SumTyped == ASSUME NEW a \in Int, NEW d \in Int PROVE Sum(a, d) \in Value(2)
<1>1. a + d \in Int
  OBVIOUS
<1> QED BY <1>1, ModOfInt, SizesAreSizes DEF Sum
LEMMA PointerTyped == ASSUME NEW c, Typed(c) PROVE Typed(RegisterIndirect(c))
<1> DEFINE b == Past(c, 0)
           rs == rCode(b, 2, Fetch(b, 0))
           x == Signed(0, rCode(b, 0, Fetch(Past(b, 0), 0)))
           y == Signed(1, rCode(b, 1, Fetch(Past(b, 0), 0)))
           z == Signed(1, Fetch(b, 1))
           d == Fetch(c, 0)
           e == Past(b, 1)
           n == rCode(b, 2, d)
<1>1. RegisterIndirect(c) = CASE d = 3  -> [e EXCEPT !.mem = Sum(rs, x)]
                              [] d = 7  -> [e EXCEPT !.mem = Sum(rs, y)]
                              [] d = 19 -> [e EXCEPT !.mem = Sum(b.pc + 2, z)]
                              [] d \notin {3, 7, 19} /\ d % 4 = 1 -> [e EXCEPT !.mem = Sum(n, z)]
                              [] d \notin {3, 7, 19} /\ d % 4 # 1 -> [b EXCEPT !.mem = n]
  BY SMT DEF RegisterIndirect
<1>2. Typed(b) /\ d \in Octet
  BY PastOf, FetchedByte
<1> HIDE DEF b, d
<1>3. Typed(e) /\ Fetch(b, 0) \in Octet /\ Fetch(Past(b, 0), 0) \in Octet /\ Fetch(b, 1) \in Value(1)
  BY <1>2, PastOf, FetchedByte, FetchedWord
<1>4. rs \in Int /\ n \in Value(2) /\ n \in Int
  BY <1>2, <1>3, RCodeIsValue, LongIsInt, SizesAreSizes
<1>5. x \in Int /\ y \in Int /\ z \in Int
  BY <1>2, <1>3, RCodeIsValue, SignedIsInt, SizesAreSizes
<1>6. b.pc + 2 \in Int
  BY <1>2, StatusIsInt
<1> HIDE DEF e, rs, x, y, z, n
<1>7. Sum(rs, x) \in Value(2) /\ Sum(rs, y) \in Value(2) /\ Sum(b.pc + 2, z) \in Value(2) /\ Sum(n, z) \in Value(2)
  BY <1>4, <1>5, <1>6, SumTyped
<1>8. Typed([e EXCEPT !.mem = Sum(rs, x)]) /\ Typed([e EXCEPT !.mem = Sum(rs, y)]) /\ Typed([e EXCEPT !.mem = Sum(n, z)])
  BY <1>3, <1>7, MemorySet
<1>9. Typed([e EXCEPT !.mem = Sum(b.pc + 2, z)]) /\ Typed([b EXCEPT !.mem = n])
  BY <1>2, <1>3, <1>4, <1>7, MemorySet
<1> DEFINE c1 == [e EXCEPT !.mem = Sum(rs, x)]
           c2 == [e EXCEPT !.mem = Sum(rs, y)]
           c3 == [e EXCEPT !.mem = Sum(b.pc + 2, z)]
           c4 == [e EXCEPT !.mem = Sum(n, z)]
           c5 == [b EXCEPT !.mem = n]
<1>10. Typed(c1) /\ Typed(c2) /\ Typed(c3) /\ Typed(c4) /\ Typed(c5)
  BY <1>8, <1>9
<1>11. RegisterIndirect(c) = CASE d = 3 -> c1 [] d = 7 -> c2 [] d = 19 -> c3
                               [] d \notin {3, 7, 19} /\ d % 4 = 1 -> c4 [] d \notin {3, 7, 19} /\ d % 4 # 1 -> c5
  BY <1>1
<1> HIDE DEF c1, c2, c3, c4, c5
<1>12. CASE d \in {3, 7, 19}
  BY <1>10, <1>11, <1>12, SMT
<1>13. CASE d \notin {3, 7, 19}
  BY <1>10, <1>11, <1>13, SMT
<1> QED BY <1>12, <1>13
LEMMA AlignedCode == ASSUME NEW v \in Octet PROVE v - (v % 4) \in Octet /\ v % 4 \in 0..3
BY OctetIsInt DEF Octet
LEMMA SteppedTyped == ASSUME NEW c, Typed(c), NEW before \in BOOLEAN PROVE Typed(Stepped(c, before))
<1> DEFINE b == Past(c, 0)
           at == Fetch(c, 0) - (Fetch(c, 0) % 4)
           k == Fetch(c, 0) % 4
           step == <<1, 2, 4>>[k + 1]
           x == rCode(c, 2, at)
           lower == Wrap(2, x - step)
           upper == Wrap(2, x + step)
           d == SetCode(b, 2, at, lower)
           e == SetCode(b, 2, at, upper)
<1>1. Stepped(c, before) = IF k = 3 THEN b ELSE IF before THEN [d EXCEPT !.mem = lower] ELSE [e EXCEPT !.mem = x]
  BY DEF Stepped
<1>2. at \in Octet /\ k \in 0..3 /\ Typed(b)
  BY FetchedByte, AlignedCode, PastOf
<1> HIDE DEF b, at, k
<1>3. k # 3 => step \in 1..4
  <2>1. k = 0 \/ k = 1 \/ k = 2 \/ k = 3
    BY <1>2
  <2> QED BY <2>1
<1> HIDE DEF step
<1>4. x \in Value(2)
  BY <1>2, RCodeIsValue, SizesAreSizes
<1>5. k # 3 => lower \in Value(2) /\ upper \in Value(2)
  <2> SUFFICES ASSUME k # 3 PROVE lower \in Value(2) /\ upper \in Value(2)
    OBVIOUS
  <2> DEFINE M2 == Mod(2)
  <2>1. M2 \in Int /\ M2 >= 16777216
    BY Sizes
  <2>2. x \in Int /\ 0 <= x /\ x < M2
    BY <1>4, LongIsInt
  <2> HIDE DEF x, M2
  <2>3. step \in Int /\ 1 <= step /\ step <= 4
    BY <1>3
  <2>4. /\ x - step \in Int /\ -M2 <= x - step /\ x - step < 2 * M2
        /\ x + step \in Int /\ -M2 <= x + step /\ x + step < 2 * M2
    BY <2>1, <2>2, <2>3
  <2> QED BY <2>4, WrapIsValue, SizesAreSizes DEF M2
<1> HIDE DEF lower, upper, x
<1>6. k # 3 => Typed(d) /\ Typed(e)
  <2>1. k # 3 => Fits(2, lower) /\ Fits(2, upper)
    BY <1>5, ValueFits, SizesAreSizes
  <2> QED BY <1>2, <2>1, SetCodeTyped, SizesAreSizes
<1> HIDE DEF d, e
<1>7. k # 3 => Typed([d EXCEPT !.mem = lower]) /\ Typed([e EXCEPT !.mem = x])
  BY <1>4, <1>5, <1>6, MemorySet
<1>8. Stepped(c, before) = b \/ (k # 3 /\ Stepped(c, before) = [d EXCEPT !.mem = lower])
         \/ (k # 3 /\ Stepped(c, before) = [e EXCEPT !.mem = x])
  BY <1>1
<1> QED BY <1>2, <1>7, <1>8
LEMMA AddressedTyped == ASSUME NEW c, Typed(c), NEW first \in Octet PROVE Typed(Addressed(c, first))
<1> DEFINE n == first % 8
           c1 == [c EXCEPT !.mem = reg(c, 2, n)]
           c2 == [Past(c, 0) EXCEPT !.mem = Sum(reg(c, 2, n), Signed(0, Fetch(c, 0)))]
           c3 == [Past(c, 0) EXCEPT !.mem = Fetch(c, 0)]
           c4 == [Past(c, 1) EXCEPT !.mem = Fetch(c, 1)]
           c5 == [c EXCEPT !.pc = (@ + 3) % Mod(2), !.mem = fetch24(c)]
<1>1. Addressed(c, first) \in {c1, c2, c3, c4, c5}
         \/ Addressed(c, first) \in {RegisterIndirect(c), Stepped(c, TRUE), Stepped(c, FALSE), Past(c, 0), c}
  BY SMT DEF Addressed
<1>2. reg(c, 2, n) \in Value(2) /\ Fetch(c, 0) \in Value(0) /\ Fetch(c, 0) \in Value(2) /\ Fetch(c, 1) \in Value(2)
  BY LowBits, RegIsValue, FetchTyped, ValueIsLong, SizesAreSizes
<1> HIDE DEF n
<1>3. Typed(c1) /\ Typed(c3) /\ Typed(c4)
  BY <1>2, PastOf, MemorySet
<1>4. Typed(c2)
  <2>1. Sum(reg(c, 2, n), Signed(0, Fetch(c, 0))) \in Value(2)
    BY <1>2, LongIsInt, SignedIsInt, SumTyped, SizesAreSizes
  <2> QED BY <2>1, PastOf, MemorySet
<1>5. Typed(c5)
  <2> DEFINE k == 3
             d == [c EXCEPT !.pc = (c.pc + k) % Mod(2)]
  <2>1. k \in Int
    OBVIOUS
  <2>2. c5 = [d EXCEPT !.mem = fetch24(c)]
    OBVIOUS
  <2> HIDE DEF k
  <2>3. Typed(d)
    BY <2>1, PCMoved
  <2> HIDE DEF d
  <2> QED BY <2>2, <2>3, Fetch24Typed, MemorySet
<1>6. Typed(RegisterIndirect(c)) /\ Typed(Stepped(c, TRUE)) /\ Typed(Stepped(c, FALSE)) /\ Typed(Past(c, 0))
  BY PointerTyped, SteppedTyped, PastOf
<1> HIDE DEF c1, c2, c3, c4, c5
<1> QED BY <1>1, <1>3, <1>4, <1>5, <1>6
LEMMA SizeField ==
  ASSUME NEW first \in Octet
  PROVE  /\ (first \div 16) % 4 \in 0..3
         /\ IsSrc(first) \/ IsReg(first) => (first \div 16) % 4 \in Size
<1>1. first \in Int /\ 0 <= first /\ first <= 255
  BY OctetIsInt
<1>2. first \div 16 \in Int
  BY <1>1
<1>3. ASSUME NEW x \in 0..15, 16 * x <= first, first <= 16 * x + 15 PROVE first \div 16 = x
  BY <1>1, <1>3
<1>4. IsSrc(first) \/ IsReg(first) => first \div 16 \in {8, 9, 10, 12, 13, 14}
  <2>1. IsSrc(first) \/ IsReg(first) => /\ \/ first \in 128..143 \/ first \in 144..159 \/ first \in 160..175
                                           \/ first \in 192..207 \/ first \in 208..223 \/ first \in 224..239
    BY <1>1 DEF IsSrc, IsReg
  <2>2. /\ first \in 128..143 => first \div 16 = 8
        /\ first \in 144..159 => first \div 16 = 9
        /\ first \in 160..175 => first \div 16 = 10
    BY <1>1
  <2>3. /\ first \in 192..207 => first \div 16 = 12
        /\ first \in 208..223 => first \div 16 = 13
        /\ first \in 224..239 => first \div 16 = 14
    BY <1>1
  <2> QED BY <2>1, <2>2, <2>3
<1>5. \A x \in {8, 9, 10, 12, 13, 14} : x % 4 \in {0, 1, 2}
  OBVIOUS
<1> QED BY <1>2, <1>4, <1>5, SizesAreSizes
LEMMA DecodedTyped ==
  ASSUME NEW first \in Octet, NEW second \in Octet, NEW named \in Octet
  PROVE  LET i == Decoded(first, second, named)
         IN  /\ Decoding(i) /\ i.first = first /\ i.second = second /\ i.R = second % 8 /\ i.size = (first \div 16) % 4
             /\ i.code = IF first % 16 = 7 THEN named ELSE Code(i.size, first % 8)
             /\ IsSrc(first) \/ IsReg(first) => Operand(i)
<1> DEFINE i == Decoded(first, second, named)
           size == (first \div 16) % 4
           code == IF first % 16 = 7 THEN named ELSE Code(size, first % 8)
<1>1. i = [first |-> first, second |-> second, R |-> second % 8, size |-> size, code |-> code]
  BY DEF Decoded
<1>2. i.first = first /\ i.second = second /\ i.R = second % 8 /\ i.size = size /\ i.code = code
  <2> HIDE DEF size, code
  <2> QED BY <1>1
<1>3. size \in 0..3 /\ (IsSrc(first) \/ IsReg(first) => size \in Size)
  BY SizeField
<1>4. code \in Octet
  <2> DEFINE n == first % 8
  <2>1. n \in 0..7
    BY LowBits
  <2>2. size \in Size => Code(size, n) \in Octet
    BY <2>1, CodeIsOctet
  <2>3. size = 3 => Code(size, n) \in Octet
    <3> HIDE DEF size, n
    <3> QED BY <2>1 DEF Code, Octet
  <2>4. size = 0 \/ size = 1 \/ size = 2 \/ size = 3
    BY <1>3
  <2> HIDE DEF size
  <2>5. Code(size, n) \in Octet
    BY <2>2, <2>3, <2>4, SizesAreSizes
  <2> QED BY <2>5
<1>5. second % 8 \in 0..7
  BY LowBits
<1> HIDE DEF i, size, code
<1>6. Decoding(i)
  BY <1>2, <1>3, <1>4, <1>5 DEF Decoding
<1>7. IsSrc(first) \/ IsReg(first) => Operand(i)
  BY <1>2, <1>3, <1>6 DEF Operand
<1> QED BY <1>2, <1>6, <1>7 DEF i, size, code
LEMMA DispatchedTyped ==
  ASSUME NEW c, Typed(c), NEW i, Decoding(i), IsSrc(i.first) \/ IsReg(i.first) => Operand(i)
  PROVE  Typed(Dispatched(c, i))
<1> DEFINE plain == [i EXCEPT !.second = 0, !.R = 0]
           b == Past(c, 0)
           src == IsSrc(i.first)
           dst == IsDst(i.first)
           onReg == IsReg(i.first)
           x == tlcs_dispatch_src(b, i)
           y == tlcs_dispatch_dst(b, i)
           z == tlcs_dispatch_reg(b, i)
           w == Single(c, plain)
<1>1. Dispatched(c, i) = CASE src -> x [] dst -> y [] onReg -> z [] OTHER -> w
  BY SMT DEF Dispatched
<1>2. Typed(b)
  BY PastOf
<1> HIDE DEF b
<1>3. (src => Typed(x)) /\ Typed(y) /\ (onReg => Typed(z))
  BY <1>2, SrcTyped, DstTyped, RegTyped
<1>4. Typed(w)
  <2>1. plain.first = i.first
    OBVIOUS
  <2> HIDE DEF plain
  <2>2. plain.first \in Octet
    BY <2>1 DEF Decoding
  <2> QED BY <2>2, SingleTyped
<1> HIDE DEF x, y, z, w, src, dst, onReg
<1>5. (src /\ Dispatched(c, i) = x) \/ Dispatched(c, i) = y \/ (onReg /\ Dispatched(c, i) = z) \/ Dispatched(c, i) = w
  BY <1>1, SMT
<1> QED BY <1>3, <1>4, <1>5
LEMMA ExecutedTyped == ASSUME NEW c, Typed(c) PROVE Typed(Executed(c))
<1> DEFINE first == Fetch(c, 0)
           d == [Past(c, 0) EXCEPT !.bus = <<>>]
           b == Addressed(d, first)
           second == Fetch(b, 0)
           named == Fetch(Past(c, 0), 0)
           i == Decoded(first, second, named)
<1>1. Executed(c) = Dispatched(b, i)
  BY DEF Executed, Fetched
<1>2. Typed(d)
  <2>1. <<>> \in BusWrites
    BY DEF BusWrites
  <2>2. Typed(Past(c, 0))
    BY PastOf
  <2> QED BY <2>1, <2>2, CpuBus
<1>3. first \in Octet
  BY FetchedByte
<1> HIDE DEF d, first
<1>4. Typed(b)
  BY <1>2, <1>3, AddressedTyped
<1> HIDE DEF b
<1>5. second \in Octet /\ named \in Octet
  BY <1>4, PastOf, FetchedByte
<1> HIDE DEF second, named
<1>6. Decoding(i) /\ i.first = first /\ (IsSrc(first) \/ IsReg(first) => Operand(i))
  BY <1>3, <1>5, DecodedTyped
<1> HIDE DEF i
<1> QED BY <1>1, <1>4, <1>6, DispatchedTyped

-----------------------------------------------------------------------------

(* Both: the memory that one processor shows to the other. *)
LEMMA OverTyped == ASSUME NEW x, OctetsIn(x), NEW y, OctetsIn(y) PROVE OctetsIn(Over(x, y))
<1> DEFINE D == DOMAIN x \cup DOMAIN y
           g(a) == IF a \in DOMAIN x THEN x[a] ELSE y[a]
<1>1. Over(x, y) = [a \in D |-> g(a)] /\ D \subseteq AddressSpace
  BY DEF Over, OctetsIn
<1>2. ASSUME NEW a \in D PROVE g(a) \in Octet
  BY DEF OctetsIn
<1> HIDE DEF D, g
<1> QED BY <1>1, <1>2 DEF OctetsIn
LEMMA SharedByteTyped == ASSUME NEW z, Sound!Typed(z) PROVE OctetsIn(Comm(z))
<1>1. z.comm \in Octet
  BY DEF Sound!Typed, Sound!Octet, Octet
<1>2. 188 \in AddressSpace
  BY InAddressSpace
<1> QED BY <1>1, <1>2 DEF Comm, CommAddress, OctetsIn
LEMMA SoundMemory == ASSUME NEW z, Sound!Typed(z) PROVE Sound!OctetsIn(z.ram)
BY DEF Sound!Typed
SoundSpace == 0..4095
LEMMA SoundAddress == ASSUME NEW k \in SoundSpace PROVE k \in Int /\ 0 <= k /\ k <= 4095
BY SMT DEF SoundSpace
LEMMA SoundOctets ==
  ASSUME NEW ram PROVE Sound!OctetsIn(ram) <=> DOMAIN ram \in SUBSET SoundSpace /\ ram \in [DOMAIN ram -> Sound!Octet]
<1>1. Sound!OctetsIn(ram) <=> DOMAIN ram \subseteq SoundSpace /\ ram \in [DOMAIN ram -> Sound!Octet]
  BY DEF Sound!OctetsIn, SoundSpace
<1> QED BY <1>1
LEMMA ShiftedRamTyped ==
  ASSUME NEW ram, Sound!OctetsIn(ram) PROVE OctetsIn([a \in {28672 + k : k \in DOMAIN ram} |-> ram[a - 28672]])
<1> DEFINE D == {28672 + k : k \in DOMAIN ram}
<1>1. ASSUME NEW a \in D PROVE a \in AddressSpace /\ ram[a - 28672] \in Octet
  <2>1. PICK k \in DOMAIN ram : a = 28672 + k
    OBVIOUS
  <2>2. k \in SoundSpace /\ ram[k] \in Octet
    BY SoundOctets DEF Sound!Octet, Octet
  <2>3. a \in Int /\ 0 <= a /\ a - 28672 = k /\ a < 32768
    <3> HIDE DEF D
    <3>1. k \in Int /\ 0 <= k /\ k <= 4095
      BY <2>2, SoundAddress
    <3> QED BY <2>1, <3>1
  <2>4. a < 2^24
    BY <2>3
  <2> QED BY <2>2, <2>3, <2>4, InAddressSpace
<1>2. OctetsIn([a \in D |-> ram[a - 28672]])
  <2> HIDE DEF D
  <2> QED BY <1>1 DEF OctetsIn
<1> QED BY <1>2
LEMMA SeenTyped == ASSUME Typed(cpu), NEW z, Sound!Typed(z) PROVE Typed(Seen(z))
<1> DEFINE shown == [a \in {28672 + k : k \in DOMAIN z.ram} |-> z.ram[a - 28672]]
<1>1. OctetsIn(shown)
  BY SoundMemory, ShiftedRamTyped
<1>2. Seen(z) = [cpu EXCEPT !.ram = Over(Comm(z), Over(shown, cpu.ram))]
  BY DEF Seen
<1> HIDE DEF shown
<1>3. OctetsIn(Over(shown, cpu.ram))
  BY <1>1, CpuFields, OverTyped
<1>4. OctetsIn(Over(Comm(z), Over(shown, cpu.ram)))
  BY <1>3, SharedByteTyped, OverTyped
<1> QED BY <1>2, <1>4, CpuRam
LEMMA OwnTyped ==
  ASSUME NEW ram, OctetsIn(ram) PROVE OctetsIn(Own(ram)) /\ DOMAIN Own(ram) \cap Shared = {}
BY DEF OctetsIn, Own
LEMMA SharedBounds == ASSUME NEW a \in SharedRAM PROVE a \in Int /\ 28672 <= a /\ a <= 32767
BY SMT DEF SharedRAM
LEMMA SoundRamTyped == ASSUME NEW ram, OctetsIn(ram) PROVE Sound!OctetsIn(SoundRAM(ram))
<1> DEFINE D == {a - 28672 : a \in DOMAIN ram \cap SharedRAM}
<1>1. ASSUME NEW k \in D PROVE k \in 0..4095 /\ ram[k + 28672] \in Octet
  <2>1. PICK a \in DOMAIN ram \cap SharedRAM : k = a - 28672
    OBVIOUS
  <2>2. a \in Int /\ 28672 <= a /\ a <= 32767
    BY SharedBounds
  <2>3. k \in 0..4095 /\ k + 28672 = a
    BY <2>1, <2>2
  <2>4. ram[a] \in Octet
    BY <2>1 DEF OctetsIn
  <2> QED BY <2>3, <2>4
<1>2. SoundRAM(ram) = [k \in D |-> ram[k + 28672]]
  BY DEF SoundRAM
<1> HIDE DEF D
<1> QED BY <1>1, <1>2 DEF Sound!OctetsIn, Sound!Octet, Octet

(* What the instruction wrote for the sound processor. *)
LEMMA ReceivedTyped ==
  ASSUME NEW z, Sound!Typed(z), NEW w \in {185, 186, 188} \X Octet PROVE Sound!Typed(Received(z, w))
<1> DEFINE v == w[2]
           on == [z EXCEPT !.enabled = TRUE]
           off == [z EXCEPT !.enabled = FALSE]
           zeroed == Sound!Zeroed(off)
           nmi == Sound!NMI(z)
           told == [z EXCEPT !.comm = v]
<1>1. v \in Sound!Octet
  BY DEF Sound!Octet, Octet
<1>2. Received(z, w) \in {on, zeroed, nmi, told, z}
  BY DEF Received
<1> HIDE DEF v
<1>3. Sound!Typed(on) /\ Sound!Typed(off)
  BY WithEnabled
<1>4. Sound!Typed(told)
  BY <1>1, WithComm
<1> HIDE DEF off, on, told
<1>5. Sound!Typed(zeroed)
  BY <1>3, ZeroedTyped
<1>6. Sound!Typed(nmi)
  BY NMITyped
<1> QED BY <1>2, <1>3, <1>4, <1>5, <1>6
Rams == UNION {[D -> Sound!Octet] : D \in SUBSET SoundSpace}
Sounds == [reg : Sound!Registers, f : Sound!FlagSets, alt : Sound!Alternates, altf : Sound!FlagSets, sp : Sound!Address,
           pc : Sound!Address, i : Sound!Octet, r : Sound!Counts, r7 : Sound!Octet, iff1 : BOOLEAN, iff2 : BOOLEAN,
           im : Sound!Modes, halted : BOOLEAN, fresh : BOOLEAN, out : Sound!Outputs, ram : Rams, comm : Sound!Octet,
           enabled : BOOLEAN, iline : BOOLEAN]
LEMMA RamsAre == \A ram : ram \in Rams <=> Sound!OctetsIn(ram)
<1>1. ASSUME NEW ram \in Rams PROVE Sound!OctetsIn(ram)
  <2>1. PICK D \in SUBSET SoundSpace : ram \in [D -> Sound!Octet]
    BY DEF Rams
  <2>2. DOMAIN ram = D
    BY <2>1
  <2> QED BY <2>1, <2>2, SoundOctets
<1>2. ASSUME NEW ram, Sound!OctetsIn(ram) PROVE ram \in Rams
  <2>1. DOMAIN ram \in SUBSET SoundSpace /\ ram \in [DOMAIN ram -> Sound!Octet]
    BY <1>2, SoundOctets
  <2> QED BY <2>1 DEF Rams
<1> QED BY <1>1, <1>2
LEMMA SoundsAreTyped == \A z : z \in Sounds <=> Sound!Typed(z)
<1>1. ASSUME NEW z \in Sounds PROVE Sound!Typed(z)
  <2>1. z.ram \in Rams
    BY DEF Sounds
  <2>2. Sound!OctetsIn(z.ram)
    BY <2>1, RamsAre
  <2> QED BY <2>2 DEF Sounds, Sound!Typed
<1>2. ASSUME NEW z, Sound!Typed(z) PROVE z \in Sounds
  <2>1. z.ram \in Rams
    BY <1>2, SoundMemory, RamsAre
  <2> QED BY <1>2, <2>1 DEF Sounds, Sound!Typed
<1> QED BY <1>1, <1>2
LEMMA DeliveredTyped ==
  ASSUME NEW z, Sound!Typed(z), NEW bus, bus \in BusWrites PROVE Sound!Typed(Delivered(z, bus))
<1> DEFINE times == Len(bus)
           Goes(g) == g = [k \in 0..times |-> IF k = 0 THEN z ELSE Received(g[k - 1], bus[k])]
           after == CHOOSE g : Goes(g)
<1>1. times \in Nat /\ \A k \in 1..times : bus[k] \in {185, 186, 188} \X Octet
  BY DEF BusWrites
<1>2. Delivered(z, bus) = after[times]
  BY DEF Delivered
<1>3. z \in Sounds /\ \A k \in 1..times : \A y \in Sounds : Received(y, bus[k]) \in Sounds
  BY <1>1, SoundsAreTyped, ReceivedTyped
<1> HIDE DEF times
<1>4. \E g : Goes(g)
  <2> DEFINE rounds == [k \in 1..times |-> [y \in Sounds |-> Received(y, bus[k])]]
  <2>1. rounds \in StepsOver(times, Sounds)
    BY <1>3 DEF StepsOver
  <2>2. PICK g : Computes(times, Sounds, z, rounds, g)
    <3> HIDE DEF rounds
    <3> QED BY <1>1, <1>3, <2>1, Rounds
  <2>3. g \in [0..times -> Sounds] /\ g[0] = z /\ \A k \in 1..times : g[k] = rounds[k][g[k - 1]]
    BY <2>2 DEF Computes
  <2>4. \A k \in 0..times : g[k] = IF k = 0 THEN z ELSE Received(g[k - 1], bus[k])
    <3> SUFFICES ASSUME NEW k \in 0..times, k # 0 PROVE g[k] = Received(g[k - 1], bus[k])
      BY <2>3
    <3>1. k \in 1..times /\ k - 1 \in 0..times
      BY <1>1
    <3>2. g[k - 1] \in Sounds /\ g[k] = rounds[k][g[k - 1]]
      BY <2>3, <3>1
    <3>3. rounds[k] = [y \in Sounds |-> Received(y, bus[k])]
      BY <3>1
    <3> HIDE DEF rounds
    <3> QED BY <3>2, <3>3
  <2> QED BY <2>3, <2>4
<1>5. Goes(after)
  BY <1>4
<1> HIDE DEF after
<1>6. after[times] \in Sounds
  <2>1. after[0] \in Sounds
    BY <1>1, <1>3, <1>5
  <2>2. ASSUME NEW k \in 0..(times - 1), after[k] \in Sounds PROVE after[k + 1] \in Sounds
    <3>1. k + 1 \in 0..times /\ k + 1 # 0 /\ (k + 1) - 1 = k /\ k + 1 \in 1..times
      BY <1>1
    <3>2. after[k + 1] = Received(after[k], bus[k + 1])
      BY <1>5, <3>1
    <3> QED BY <1>3, <2>2, <3>1, <3>2
  <2> HIDE DEF Goes
  <2> QED BY <1>1, <2>1, <2>2, StaysIn
<1> QED BY <1>2, <1>6, SoundsAreTyped

(* The steps. *)
LEMMA LeavesTyped ==
  ASSUME NEW c, Typed(c), NEW z, Sound!Typed(z), Leaves(c, z) PROVE TypeOK'
<1> DEFINE own == Own(c.ram)
           d == [c EXCEPT !.ram = own, !.bus = <<>>]
           b == [c EXCEPT !.ram = own]
           y == [z EXCEPT !.ram = SoundRAM(c.ram)]
           x == Delivered(y, c.bus)
<1>1. cpu' = d /\ z80' = x
  BY DEF Leaves
<1>2. OctetsIn(own) /\ DOMAIN own \cap Shared = {}
  BY CpuFields, OwnTyped
<1>3. c.bus \in BusWrites
  BY DEF Typed
<1>4. Sound!Typed(y)
  BY CpuFields, SoundRamTyped, WithRam
<1> HIDE DEF y
<1>5. Sound!Typed(x)
  BY <1>3, <1>4, DeliveredTyped
<1> HIDE DEF own, x
<1>6. Typed(b) /\ <<>> \in BusWrites
  BY <1>2, CpuRam DEF BusWrites
<1>7. d = [b EXCEPT !.bus = <<>>] /\ d.ram = own
  BY DEF Typed
<1> HIDE DEF b, d
<1>8. Typed(d)
  BY <1>6, <1>7, CpuBus
<1> QED BY <1>1, <1>2, <1>5, <1>7, <1>8 DEF TypeOK

(* The programs that the two start with are bytes in memory, and the       *)
(* registers are those after a reset (ScenesAssumption).                   *)
THEOREM InitialTypes == Init => TypeOK
<1> SUFFICES ASSUME NEW s \in Scenes, cpu = s.cpu, z80 = s.z80 PROVE TypeOK
  BY DEF Init
<1>1. Typed(s.cpu) /\ DOMAIN s.cpu.ram \cap Shared = {} /\ Sound!Typed(s.z80)
  BY ScenesAssumption DEF ScenesAssumption
<1> QED BY <1>1 DEF TypeOK

(* No instruction of either processor, no request that one or a device     *)
(* raises for the other and no write to a shared byte makes a register, a  *)
(* flag or a control bit wider than it is or puts a shared byte in two     *)
(* places (TLCS900h_interpret, z80_do_opcode, set_interrupt, storeB).      *)
THEOREM StepsKeepTypes == TypeOK /\ [Next]_vars => TypeOK'
<1> SUFFICES ASSUME TypeOK, [Next]_vars PROVE TypeOK'
  OBVIOUS
<1>1. Typed(cpu) /\ Sound!Typed(z80)
  BY DEF TypeOK
<1>2. ASSUME NEW z, Sound!Typed(z), NEW n \in 0..12, Leaves(set_interrupt(Seen(z), n), z) PROVE TypeOK'
  BY <1>1, <1>2, SeenTyped, RequestRaised, LeavesTyped
<1>3. CASE MainStep
  <2>1. Leaves(Executed(Seen(z80)), z80)
    BY <1>3 DEF MainStep
  <2> QED BY <1>1, <2>1, SeenTyped, ExecutedTyped, LeavesTyped
<1>4. CASE SoundStep
  <2> DEFINE z == Sound!DoOpcode(z80)
  <2>1. IF z.out = 49152 THEN Leaves(set_interrupt(Seen(z), 6), z) ELSE z80' = z /\ cpu' = cpu
    <3>1. \E y \in {z} : IF y.out = 49152 THEN Leaves(set_interrupt(Seen(y), 6), y) ELSE z80' = y /\ UNCHANGED cpu
      BY <1>4 DEF SoundStep
    <3> HIDE DEF z
    <3> QED BY <3>1
  <2>2. Sound!Typed(z)
    BY <1>1, DoOpcodeTyped
  <2> HIDE DEF z
  <2>3. CASE Leaves(set_interrupt(Seen(z), 6), z)
    <3>1. 6 \in 0..12
      OBVIOUS
    <3> QED BY <1>2, <2>2, <2>3, <3>1
  <2>4. CASE z80' = z /\ cpu' = cpu
    BY <2>2, <2>4 DEF TypeOK
  <2> QED BY <2>1, <2>3, <2>4
<1>5. CASE SoundIdle
  BY <1>5 DEF SoundIdle, TypeOK
<1>6. ASSUME NEW n \in 5..12, Raise(n) PROVE TypeOK'
  <2>1. Leaves(set_interrupt(Seen(z80), n), z80) /\ n \in 0..12
    BY <1>6 DEF Raise
  <2> QED BY <1>1, <1>2, <2>1
<1>7. CASE SoundIRQ
  <2>1. z80' = [z80 EXCEPT !.iline = TRUE] /\ cpu' = cpu
    BY <1>7 DEF SoundIRQ, Sound!IRQ
  <2>2. Sound!Typed(z80')
    BY <1>1, <2>1, WithLine
  <2> QED BY <2>1, <2>2 DEF TypeOK
<1>8. CASE SoundNMI
  <2>1. z80' = Sound!NMI(z80) /\ cpu' = cpu
    BY <1>8 DEF SoundNMI, Sound!RaiseNMI
  <2>2. Sound!Typed(z80')
    BY <1>1, <2>1, NMITyped
  <2> QED BY <2>1, <2>2 DEF TypeOK
<1>9. CASE UNCHANGED vars
  BY <1>9 DEF vars, TypeOK
<1> QED BY <1>3, <1>4, <1>5, <1>6, <1>7, <1>8, <1>9 DEF Next

(* The same for the whole run: Processors.TypeOK holds for every program.  *)
THEOREM TypesHold == Spec => []TypeOK
BY InitialTypes, StepsKeepTypes, PTL DEF Spec

(* A comparison, from its two bytes to the flags. *)
LEMMA SameBytes ==
  ASSUME NEW c, NEW d, d.ram = c.ram, d.ipending = c.ipending, NEW a PROVE loadB(d, a) = loadB(c, a)
<1>1. \A n : int_read8(d, n) = int_read8(c, n)
  BY DEF int_read8
<1> QED BY <1>1, SMT DEF loadB, ByteAt
LEMMA FetchIsByte == ASSUME NEW c, c.pc \in Int PROVE Fetch(c, 0) = loadB(c, c.pc + 0)
<1>1. Load(c, 0, c.pc) = loadB(c, c.pc + 0)
  BY Widths DEF Load
<1> QED BY <1>1 DEF Fetch
LEMMA SameFetch ==
  ASSUME NEW c, NEW d, d.ram = c.ram, d.ipending = c.ipending, d.pc = c.pc, c.pc \in Int
  PROVE  Fetch(d, 0) = Fetch(c, 0)
BY FetchIsByte, SameBytes
LEMMA SameRegister ==
  ASSUME NEW c, NEW d, d.regs = c.regs, d.sh = c.sh, NEW s, NEW code PROVE rCode(d, s, code) = rCode(c, s, code)
<1>1. statusRFP(d) = statusRFP(c)
  BY DEF statusRFP
<1>2. Place(d, code) = Place(c, code)
  BY <1>1 DEF Place
<1> QED BY <1>2 DEF rCode
LEMMA ComparisonBytes ==
  ASSUME NEW first \in Octet, first \in (200..207) \cup (216..223) \cup (232..239)
  PROVE  /\ ~IsSrc(first) /\ ~IsDst(first) /\ IsReg(first)
         /\ first % 16 # 7 /\ \A c : Addressed(c, first) = c
<1>1. /\ first \in Int
      /\ \/ 200 <= first /\ first <= 207
         \/ 216 <= first /\ first <= 223
         \/ 232 <= first /\ first <= 239
  BY OctetIsInt
<1>2. first % 16 >= 8 /\ first % 16 # 7
  BY <1>1
<1>3. ~IsSrc(first) /\ ~IsDst(first) /\ IsReg(first) /\ ~Indirect(first) /\ first \notin {199, 215, 231}
  BY <1>1 DEF IsSrc, IsDst, IsReg, Indirect
<1>4. ~Mode(first, 0) /\ ~Mode(first, 1) /\ ~Mode(first, 2) /\ ~Mode(first, 3) /\ ~Mode(first, 4) /\ ~Mode(first, 5)
  BY <1>1 DEF Mode
<1>5. \A c : Addressed(c, first) = c
  BY <1>3, <1>4, SMT DEF Addressed
<1> QED BY <1>2, <1>3, <1>5
LEMMA ComparisonDispatched ==
  ASSUME NEW c, NEW i, ~IsSrc(i.first), ~IsDst(i.first), IsReg(i.first), i.second \in 240..247
  PROVE  Dispatched(c, i) = regCP(Past(c, 0), i)
<1> DEFINE b == Past(c, 0)
<1>1. Dispatched(c, i) = tlcs_dispatch_reg(b, i)
  BY SMT DEF Dispatched
<1> HIDE DEF b
<1>2. tlcs_dispatch_reg(b, i) = UpperReg(b, i)
  BY DEF tlcs_dispatch_reg
<1>3. UpperReg(b, i) = regCP(b, i)
  BY SMTT(60) DEF UpperReg
<1> QED BY <1>1, <1>2, <1>3 DEF b
LEMMA ComparedFlags ==
  ASSUME NEW c, Typed(c), NEW i, Operand(i) PROVE regCP(c, i).f = GenericSUB(i.size, R(c, i), r(c, i), c.f)[2]
<1> DEFINE F == GenericSUB(i.size, R(c, i), r(c, i), c.f)[2]
           o == Compared(i.size, R(c, i), r(c, i), c.f)
           d == PutR(c, i, o[1])
<1>1. o[1] = R(c, i) /\ o[2] = F
  BY DEF Compared
<1>2. regCP(c, i) = SetF(d, o[2])
  BY DEF regCP, IntoR, WithR
<1>3. Fits(i.size, R(c, i))
  BY OperandsOf, ValueFits
<1> HIDE DEF F, o
<1>4. Typed(d)
  BY <1>1, <1>3, PutRTyped
<1> HIDE DEF d
<1>5. SetF(d, o[2]).f = o[2]
  BY <1>4 DEF SetF, Typed
<1> QED BY <1>1, <1>2, <1>5 DEF F
LEMMA FlagsAfterComparison ==
  ASSUME NEW c, Typed(c), NEW first, first = Fetch(c, 0), NEW second, second = Fetch(Past(c, 0), 0),
         first \in (200..207) \cup (216..223) \cup (232..239), second \in 240..247
  PROVE  LET s == (first \div 16) % 4
             a == reg(c, s, second % 8)
             b == reg(c, s, first % 8)
         IN  /\ s \in Size /\ a \in Value(s) /\ b \in Value(s)
             /\ Executed(c).f = GenericSUB(s, a, b, c.f)[2]
<1> DEFINE d == [Past(c, 0) EXCEPT !.bus = <<>>]
           s == (first \div 16) % 4
           i == Decoded(first, second, second)
           x == Past(d, 0)
<1>1. first \in Octet /\ second \in Octet
  BY PastOf, FetchedByte
<1>2. Typed(Past(c, 0)) /\ Typed(d)
  <2>1. <<>> \in BusWrites
    BY DEF BusWrites
  <2> QED BY <2>1, PastOf, CpuBus
<1>3. /\ d.ram = Past(c, 0).ram /\ d.ipending = Past(c, 0).ipending /\ d.pc = Past(c, 0).pc /\ d.pc \in Int
      /\ d.regs = c.regs /\ d.sh = c.sh /\ d.f = c.f
  <2>1. d.pc \in Int
    BY <1>2, CpuFields, LongIsInt
  <2>2. Past(c, 0).regs = c.regs /\ Past(c, 0).sh = c.sh /\ Past(c, 0).f = c.f
    BY DEF Past, Typed
  <2>3. d.regs = Past(c, 0).regs /\ d.sh = Past(c, 0).sh /\ d.f = Past(c, 0).f
    BY <1>2 DEF Typed
  <2>4. d.ram = Past(c, 0).ram /\ d.ipending = Past(c, 0).ipending /\ d.pc = Past(c, 0).pc
    BY <1>2 DEF Typed
  <2> QED BY <2>1, <2>2, <2>3, <2>4
<1>4. Executed(c) = Dispatched(d, i)
  <2>1. Addressed(d, first) = d
    BY <1>1, ComparisonBytes
  <2>2. Fetch(d, 0) = second
    <3> HIDE DEF d
    <3> QED BY <1>3, SameFetch
  <2>3. Executed(c) = Fetched(c, first, d)
    BY <2>1 DEF Executed
  <2> HIDE DEF d
  <2> QED BY <2>2, <2>3 DEF Fetched
<1>5. /\ Operand(i) /\ i.first = first /\ i.second = second /\ i.R = second % 8 /\ i.size = s /\ i.code = Code(s, first % 8)
      /\ ~IsSrc(first) /\ ~IsDst(first) /\ IsReg(first)
  BY <1>1, DecodedTyped, ComparisonBytes
<1>6. x.regs = c.regs /\ x.sh = c.sh /\ x.f = c.f /\ Typed(x)
  <2> HIDE DEF d
  <2>1. x.regs = d.regs /\ x.sh = d.sh /\ x.f = d.f
    BY <1>2 DEF Past, Typed
  <2> QED BY <1>2, <1>3, <2>1, PastOf
<1> HIDE DEF d, i
<1>7. Executed(c) = regCP(x, i)
  BY <1>4, <1>5, ComparisonDispatched
<1> HIDE DEF x, s
<1>8. R(x, i) = reg(c, s, second % 8) /\ r(x, i) = reg(c, s, first % 8)
  BY <1>5, <1>6, SameRegister DEF R, r, reg
<1>9. s \in Size /\ R(x, i) \in Value(s) /\ r(x, i) \in Value(s)
  BY <1>5, <1>6, OperandsOf
<1>10. regCP(x, i).f = GenericSUB(s, R(x, i), r(x, i), c.f)[2]
  BY <1>5, <1>6, ComparedFlags
<1> QED BY <1>7, <1>8, <1>9, <1>10 DEF s
LEMMA ComparisonOrdered ==
  ASSUME NEW s \in Size, NEW a \in Value(s), NEW b \in Value(s), NEW F
  PROVE  Ordered(s, a, b, GenericSUB(s, a, b, F)[2])
<1> DEFINE G == GenericSUB(s, a, b, F)[2]
           x == Signed(s, a)
           y == Signed(s, b)
<1>1. /\ conditionCode(6, G) <=> Says(6, a, b, x, y)
      /\ conditionCode(14, G) <=> Says(14, a, b, x, y)
      /\ conditionCode(7, G) <=> Says(7, a, b, x, y)
      /\ conditionCode(15, G) <=> Says(15, a, b, x, y)
      /\ conditionCode(3, G) <=> Says(3, a, b, x, y)
      /\ conditionCode(11, G) <=> Says(11, a, b, x, y)
      /\ conditionCode(1, G) <=> Says(1, a, b, x, y)
      /\ conditionCode(9, G) <=> Says(9, a, b, x, y)
      /\ conditionCode(2, G) <=> Says(2, a, b, x, y)
      /\ conditionCode(10, G) <=> Says(10, a, b, x, y)
  <2>1. /\ Says(6, a, b, x, y) <=> a = b
        /\ Says(14, a, b, x, y) <=> a # b
        /\ Says(7, a, b, x, y) <=> a < b
        /\ Says(15, a, b, x, y) <=> a >= b
        /\ Says(3, a, b, x, y) <=> a <= b
        /\ Says(11, a, b, x, y) <=> a > b
        /\ Says(1, a, b, x, y) <=> x < y
        /\ Says(9, a, b, x, y) <=> x >= y
        /\ Says(2, a, b, x, y) <=> x <= y
        /\ Says(10, a, b, x, y) <=> x > y
    <3> HIDE DEF x, y
    <3> QED BY DEF Says
  <2>2. /\ conditionCode(6, G) <=> a = b
        /\ conditionCode(14, G) <=> a # b
        /\ conditionCode(7, G) <=> a < b
        /\ conditionCode(15, G) <=> a >= b
        /\ conditionCode(3, G) <=> a <= b
        /\ conditionCode(11, G) <=> a > b
        /\ conditionCode(1, G) <=> x < y
        /\ conditionCode(9, G) <=> x >= y
        /\ conditionCode(2, G) <=> x <= y
        /\ conditionCode(10, G) <=> x > y
    BY ComparisonsOrder
  <2> HIDE DEF G, x, y
  <2> QED BY <2>1, <2>2, ZenonT(60)
<1> HIDE DEF G, x, y
<1>2. \A cc \in {1, 2, 3, 6, 7, 9, 10, 11, 14, 15} : conditionCode(cc, G) <=> Says(cc, a, b, x, y)
  BY <1>1
<1> QED BY <1>2 DEF Ordered, G, x, y

(* A step that executes CP on two registers leaves the flags that order    *)
(* what the registers held before it.                                      *)
THEOREM ComparisonStep ==
  ASSUME TypeOK, Compares, MainStep
  PROVE  LET s == (First \div 16) % 4 IN Ordered(s, reg(cpu, s, Second % 8), reg(cpu, s, First % 8), cpu'.f)
<1> DEFINE c == Seen(z80)
           first == First
           second == Second
           s == (first \div 16) % 4
           a == reg(c, s, second % 8)
           b == reg(c, s, first % 8)
<1>1. Typed(c) /\ Typed(cpu)
  BY SeenTyped DEF TypeOK
<1>2. first = Fetch(c, 0) /\ second = Fetch(Past(c, 0), 0)
  BY DEF First, Second
<1>3. first \in (200..207) \cup (216..223) \cup (232..239) /\ second \in 240..247
  BY DEF Compares
<1>4. cpu'.f = Executed(c).f
  <2> DEFINE d == Executed(c)
  <2>1. cpu' = [d EXCEPT !.ram = Own(@), !.bus = <<>>]
    BY DEF MainStep, Leaves
  <2>2. Typed(d)
    <3> HIDE DEF c
    <3> QED BY <1>1, ExecutedTyped
  <2> HIDE DEF d
  <2>3. cpu'.f = d.f
    BY <2>1, <2>2 DEF Typed
  <2> QED BY <2>3 DEF d
<1>5. c.regs = cpu.regs /\ c.sh = cpu.sh
  BY <1>1 DEF Seen, Typed
<1> HIDE DEF c, first, second
<1>6. s \in Size /\ a \in Value(s) /\ b \in Value(s) /\ Executed(c).f = GenericSUB(s, a, b, c.f)[2]
  BY <1>1, <1>2, <1>3, FlagsAfterComparison
<1>7. a = reg(cpu, s, second % 8) /\ b = reg(cpu, s, first % 8)
  BY <1>5, SameRegister DEF reg
<1> HIDE DEF s, a, b
<1>8. Ordered(s, a, b, cpu'.f)
  BY <1>4, <1>6, ComparisonOrdered
<1> QED BY <1>7, <1>8 DEF s, first, second

(* Processors.ComparisonsDecide for every program: wherever a CP of two    *)
(* registers is executed, every condition that a branch may ask after it   *)
(* orders the operands, as signed or as unsigned numbers (regCP and        *)
(* conditionCode).                                                         *)
THEOREM ComparisonsOrderRegisters == Spec => ComparisonsDecide
<1>1. TypeOK /\ [Next]_vars =>
        [Compares /\ MainStep =>
           LET s == (First \div 16) % 4 IN Ordered(s, reg(cpu, s, Second % 8), reg(cpu, s, First % 8), cpu'.f)]_vars
  BY ComparisonStep
<1> QED BY <1>1, TypesHold, PTL DEF Spec, ComparisonsDecide
=============================================================================
