---------------------------- MODULE MCProcessors ----------------------------
(***************************************************************************)
(* The programs that the two processors run for TLC.  Each is the machine  *)
(* code at an address, given as the sequence of its bytes, with the        *)
(* assembler text in the comment above it.                                 *)
(***************************************************************************)
EXTENDS Processors, TLC

At(a, bytes) == [k \in a..(a + Len(bytes) - 1) |-> bytes[k - a + 1]]
Word(a, v) == (a :> v % 256) @@ (a + 1 :> v \div 256)
Zeros(from, n) == [k \in from..(from + n - 1) |-> 0]

-----------------------------------------------------------------------------
\* The Z80: JP 100h; INC HL, RET for RST 10h; the handler of interrupts: PUSH AF, PUSH HL, INC (E00h), POP HL,
\* POP AF, OUT (0),A, EI, RETI; the handler of the NMI: PUSH AF, INC (E01h) by way of A, POP AF, RETN.
Service == <<\hF5, \hE5, \h21, \h00, \h0E, \h34, \hE1, \hF1, \hD3, \h00, \hFB, \hED, \h4D>>
Handlers == At(0, <<\hC3, \h00, \h01>>) @@ At(16, <<\h23, \hC9>>) @@ At(56, Service)
              @@ At(102, <<\hF5, \h3A, \h01, \h0E, \h3C, \h32, \h01, \h0E, \hF1, \hED, \h45>>)
              @@ Zeros(3584, 2)
\* LD SP,F00h; IM 1; EI, the body, HALT, JR -3.
SoundProgram(body, data) ==
    LET code == <<\h31, \h00, \h0F, \hED, \h56, \hFB>> \o body \o <<\h76, \h18, \hFD>>
    IN  data @@ At(256, code) @@ Handlers
SoundScene(body, data, result, irqs, nmis) ==
    [cpu |-> Powered(At(16640, <<\h68, \hFE>>), 16640),
     z80 |-> Silent(SoundProgram(body, data), TRUE),
     left |-> [irqs |-> irqs, nmis |-> nmis, raises |-> {}],
     goal |-> [kind |-> "sound", end |-> 262 + Len(body), sp |-> 3840, result |-> result,
              irqs |-> irqs, nmis |-> nmis]]
SoundScenesOf(body, data, result, requests) == {SoundScene(body, data, result, q[1], q[2]) : q \in requests}

\* HL := A * DE by shifts: LD HL,0; LD DE,1234h; LD A,C7h; LD B,8; L: ADD HL,HL; RLA; JR NC,+3; ADD HL,DE;
\* ADC A,0; DJNZ L; LD (E10h),HL; LD (E12h),A.
MultiplyA == SoundScenesOf(
    <<\h21, \h00, \h00, \h11, \h34, \h12, \h3E, \hC7, \h06, \h08, \h29, \h17, \h30, \h03, \h19, \hCE,
      \h00, \h10, \hF7, \h22, \h10, \h0E, \h32, \h12, \h0E>>,
    <<>>,
    Word(3600, (199 * 4660) % 65536) @@ (3602 :> (199 * 4660) \div 65536), {<<1, 0>>, <<0, 1>>})

\* 58 + 67, 12 + 34 + 1, 25 - 67 and 47 - 34 - 1 as decimal digits: LD A,n; ADD, ADC, SUB or SBC A,n; DAA; LD (nn),A.
Decimal == SoundScenesOf(
    <<\h3E, \h58, \hC6, \h67, \h27, \h32, \h10, \h0E, \h3E, \h12, \hCE, \h34, \h27, \h32, \h11, \h0E,
      \h3E, \h25, \hD6, \h67, \h27, \h32, \h12, \h0E, \h3E, \h47, \hDE, \h34, \h27, \h32, \h13, \h0E>>,
    <<>>,
    At(3600, <<\h25, \h47, \h58, \h12>>), {<<1, 1>>})

\* LDIR E20h to E30h, LDDR the copy up by one, CPIR for 33h, LD (E10h),HL; LD A,C; LD (E12h),A; RLD and RRD of (HL).
Blocks == SoundScenesOf(
    <<\h21, \h20, \h0E, \h11, \h30, \h0E, \h01, \h04, \h00, \hED, \hB0, \h21, \h33, \h0E, \h11, \h34,
      \h0E, \h01, \h04, \h00, \hED, \hB8, \h21, \h30, \h0E, \h01, \h05, \h00, \h3E, \h33, \hED, \hB1,
      \h22, \h10, \h0E, \h79, \h32, \h12, \h0E, \hED, \h6F, \hED, \h6F, \hED, \h67>>,
    At(3616, <<\h11, \h22, \h33, \h44>>),
    Word(3600, 3636) @@ (3602 :> 1) @@ At(3632, <<\h11, \h11, \h22, \h33, \h41>>), {<<1, 0>>, <<0, 1>>})

\* LD BC,1234h; PUSH BC; LD HL,5678h; EX (SP),HL; POP DE; EXX; LD HL,0; EXX; EX AF,AF'; XOR A; EX AF,AF'; CALL 140h
\* (EX DE,HL; RET); RST 10h; LD (E10h),HL; LD (E12h),DE.
Calls == SoundScenesOf(
    <<\h01, \h34, \h12, \hC5, \h21, \h78, \h56, \hE3, \hD1, \hD9, \h21, \h00, \h00, \hD9, \h08, \hAF,
      \h08, \hCD, \h40, \h01, \hD7, \h22, \h10, \h0E, \hED, \h53, \h12, \h0E>>,
    At(320, <<\hEB, \hC9>>),
    Word(3600, 22137) @@ Word(3602, 4660), {<<1, 1>>})

\* LD IX,E20h; LD IY,E28h; LD A,(IX+2); LD (IY+1),A; INC (IX-1); RLC (IX+1); SET 2,(IY+1); RES 2,(IX+3); INC IXH;
\* DEC IXH; PUSH IX; POP IY; LD (E10h),IY; LD L,(IX+2); LD (IX+5),L; LD H,5; ADD A,IXL; LD (IX+6),A.
Indexes == SoundScenesOf(
    <<\hDD, \h21, \h20, \h0E, \hFD, \h21, \h28, \h0E, \hDD, \h7E, \h02, \hFD, \h77, \h01, \hDD, \h34,
      \hFF, \hDD, \hCB, \h01, \h06, \hFD, \hCB, \h01, \hD6, \hDD, \hCB, \h03, \h96, \hDD, \h24, \hDD,
      \h25, \hDD, \hE5, \hFD, \hE1, \hFD, \h22, \h10, \h0E, \hDD, \h6E, \h02, \hDD, \h75, \h05, \h26,
      \h05, \hDD, \h85, \hDD, \h77, \h06>>,
    At(3615, <<\h07, \h11, \h22, \h33, \h44, \h00>>),
    Word(3600, 3616) @@ At(3615, <<\h08, \h11, \h44, \h33, \h40, \h00, \h33, \h53>>) @@ (3625 :> 55), {<<1, 0>>, <<0, 1>>})

\* DI; LD A,2; LD I,A; IM 2; EI; LD HL,7FFFh; LD BC,8000h; OR A; ADC HL,BC; JP PE,0 (no overflow: not taken);
\* LD BC,1; SBC HL,BC; SBC HL,BC; LD (E10h),HL; LD A,80h; NEG; JP PO,0 (overflow: not taken); LD (E13h),A.
Vectored == SoundScenesOf(
    <<\hF3, \h3E, \h02, \hED, \h47, \hED, \h5E, \hFB, \h21, \hFF, \h7F, \h01, \h00, \h80, \hB7, \hED,
      \h4A, \hEA, \h00, \h00, \h01, \h01, \h00, \hED, \h42, \hED, \h42, \h22, \h10, \h0E, \h3E, \h80,
      \hED, \h44, \hE2, \h00, \h00, \h32, \h13, \h0E>>,
    At(767, <<\h80, \h03>>) @@ At(896, Service),
    Word(3600, 65533) @@ (3603 :> 128), {<<1, 0>>, <<0, 1>>})

SoundScenes == MultiplyA \cup Decimal \cup Blocks \cup Calls \cup Indexes \cup Vectored

-----------------------------------------------------------------------------
\* The main processor: program at 4100h, handlers of requests 5 and 7 (PUSH XWA; INCF; INC (6E00h+n); DECF;
\* POP XWA; RETI), their vectors.  The program ends in JR -2.
Service5 == <<\h38, \h0C, \hC1, \h05, \h6E, \h61, \h0D, \h58, \h07>>
Service7 == <<\h38, \h0C, \hC1, \h07, \h6E, \h61, \h0D, \h58, \h07>>
MainProgram(body, data) ==
    data @@ At(16640, body \o <<\h68, \hFE>>) @@ At(18432, Service5) @@ At(18448, Service7)
      @@ At(28620, <<\h00, \h48, \h00, \h00>>) @@ At(28628, <<\h10, \h48, \h00, \h00>>)
      @@ Zeros(28160, 32)
MainScene(body, data, result, raises) ==
    [cpu |-> Powered(MainProgram(body, data), 16640), z80 |-> Silent(<<>>, FALSE),
     left |-> [irqs |-> 0, nmis |-> 0, raises |-> raises],
     goal |-> [kind |-> "main", end |-> 16640 + Len(body), sp |-> 27648, result |-> result, raises |-> raises]]
\* LD (71h),0Ah; LD (73h),0Ch; EI 0: priorities 2 and 4, keeping what is latched.
Open == <<\h08, \h71, \h0A, \h08, \h73, \h0C, \h06, \h00>>

\* LD WA,B3h; LD DE,2Dh; LD HL,0; LD B,8; L: SRL 1,WA; JR NC,+2; ADD HL,DE; ADD DE,DE; DJNZ B,L; LD (6E10h),HL.
ShiftAndAdd == MainScene(
    Open \o <<\h30, \hB3, \h00, \h32, \h2D, \h00, \h33, \h00, \h00, \h22, \h08, \hD8, \hEF, \h01, \h6F, \h02,
              \hDA, \h83, \hDA, \h82, \hCA, \h1C, \hF4, \hF1, \h10, \h6E, \h53>>,
    <<>>,
    Word(28176, 179 * 45), {5})

\* LD XWA,n in banks 0 to 2 (INCF; LDF 2), DECF; LD (6E10h),XWA of bank 1; LDF 0; LD (6E14h),XWA; LD XWA,the one of
\* bank 2 by its code; LD (6E18h),XWA.
Banks == MainScene(
    Open \o <<\h40, \h11, \h22, \h33, \h04, \h0C, \h40, \h55, \h66, \h77, \h08, \h17, \h02, \h40, \h99, \hAA,
              \hBB, \h0C, \h0D, \hF1, \h10, \h6E, \h60, \h17, \h00, \hF1, \h14, \h6E, \h60, \hE7, \h20, \h88,
              \hF1, \h18, \h6E, \h60>>,
    <<>>,
    At(28176, <<\h55, \h66, \h77, \h08, \h11, \h22, \h33, \h04, \h99, \hAA, \hBB, \h0C>>), {5, 7})

\* LD XHL,6E10h; LD XDE,6E18h; LD BC,4; LDIR; LD XHL,6E18h; LD BC,4; LD A,33h; CPIR; LD (6E20h),XHL; LD (6E24h),BC;
\* LD XIX,6E26h; LD XIY,6E10h; LD BC,2; LDIW (XIX+),(XIY+) twice.
BlocksLong == MainScene(
    Open \o <<\h43, \h10, \h6E, \h00, \h00, \h42, \h18, \h6E, \h00, \h00, \h31, \h04, \h00, \h83, \h11, \h43,
              \h18, \h6E, \h00, \h00, \h31, \h04, \h00, \h21, \h33, \h83, \h15, \hF1, \h20, \h6E, \h63, \hF1,
              \h24, \h6E, \h51, \h44, \h26, \h6E, \h00, \h00, \h45, \h10, \h6E, \h00, \h00, \h31, \h02, \h00,
              \h95, \h10, \h95, \h10>>,
    At(28176, <<\h11, \h22, \h33, \h44>>),
    At(28184, <<\h11, \h22, \h33, \h44>>) @@ Word(28192, 28187) @@ Word(28196, 1) @@ At(28198, <<\h11, \h22, \h33, \h44>>), {5})

\* PUSH 1234h; CALL 4300h (LINK XIZ,-8; LD WA,(XIZ+8); INC 1,WA; LD (XIZ-4),WA; LD BC,(XIZ-4); UNLK XIZ; RETD 2);
\* LD (6E10h),BC; LD XIX,7; PUSH XIX; LD XIX,9; POP XIX; LD (6E12h),IX.
Frames == MainScene(
    Open \o <<\h0B, \h34, \h12, \h1C, \h00, \h43, \hF1, \h10, \h6E, \h51, \h44, \h07, \h00, \h00, \h00, \h3C,
              \h44, \h09, \h00, \h00, \h00, \h5C, \hF1, \h12, \h6E, \h54>>,
    At(17152, <<\hEE, \h0C, \hF8, \hFF, \h9E, \h08, \h20, \hD8, \h61, \hBE, \hFC, \h50, \h9E, \hFC, \h21, \hEE,
        \h0D, \h0F, \h02, \h00>>),
    Word(28176, 4661) @@ Word(28178, 7), {5, 7})

\* LD A,58h; ADD A,67h; DAA; LD (6E10h),A; EX F,F'; ADD A,A; EX F,F'; LD A,12h; ADC A,34h; DAA; LD (6E11h),A;
\* LD WA,C7h; MUL WA,12Dh; LD XBC,XWA; DIV WA,C7h; LD (6E12h),XWA; LD XDE,XBC; SUB XDE,XBC; LD (6E16h),XDE.
DigitsAndProducts == MainScene(
    Open \o <<\h21, \h58, \hC9, \hC8, \h67, \hC9, \h10, \hF1, \h10, \h6E, \h41, \h16, \hC9, \h81, \h16, \h21,
              \h12, \hC9, \hC9, \h34, \hC9, \h10, \hF1, \h11, \h6E, \h41, \h30, \hC7, \h00, \hD8, \h08, \h2D,
              \h01, \hE8, \h89, \hD8, \h0A, \hC7, \h00, \hF1, \h12, \h6E, \h60, \hE9, \h8A, \hE9, \hA2, \hF1,
              \h16, \h6E, \h62>>,
    <<>>,
    (28176 :> 37) @@ (28177 :> 71) @@ Word(28178, 301) @@ Word(28180, 0) @@ Word(28182, 0) @@ Word(28184, 0), {5})

\* EI 0 before any priority is set; LD A,5; PUSH SR; EI 7; LD (71h),0Ah; LD (73h),0Ch: pending requests wait for POP SR;
\* ADD A,A; JR NC over a trap; LD (6E10h),A; SET 3,(6E11h); LD (71h),0Ah with a request latched: taken inside.
Masks == MainScene(
    <<\h06, \h00, \h21, \h05, \h02, \h06, \h07, \h08, \h71, \h0A, \h08, \h73, \h0C, \h03, \hC9, \h81,
      \h6F, \h02, \h68, \hFE, \hF1, \h10, \h6E, \h41, \hF1, \h11, \h6E, \hC3, \h08, \h71, \h0A>>,
    <<>>,
    (28176 :> 10) @@ (28177 :> 8), {5, 7})

MainScenes == {ShiftAndAdd, Banks, BlocksLong, Frames, DigitsAndProducts, Masks}

-----------------------------------------------------------------------------
\* Single instructions: every opcode after DD, FD and DD CB that has a meaning there, with the displacement 7Eh or AFh
\* (the operands are at E8Eh and DBFh), carry set for IY.
Prefixed == ({9, 25, 41, 57, 119, 225, 227, 229, 233, 249} \cup (33..38) \cup (42..46) \cup (52..54)
             \cup {k \in 64..191 : k % 8 \in 4..6} \cup (96..117)) \ {118}
Instruction(bytes) ==
    LET z == Silent(At(256, bytes) @@ At(3519, <<\h81, \h3C, \h7F, \h80>>)
                    @@ At(3726, <<\hFF, \h55, \h0F, \h00>>) @@ Word(3584, 4660), TRUE)
    IN  [cpu |-> Powered(At(16640, <<\h68, \hFE>>), 16640),
         z80 |-> [z EXCEPT !.pc = 256, !.sp = 3584, !.f = Only(bytes[1] = 253, "C"),
                           !.reg = [A |-> 154, B |-> 15, C |-> 254, D |-> 128, E |-> 1, H |-> 14, L |-> 130,
                                    IXH |-> 14, IXL |-> 16, IYH |-> 14, IYL |-> 18] @@ @],
         left |-> [irqs |-> 0, nmis |-> 0, raises |-> {}], goal |-> [kind |-> "instruction", result |-> <<>>]]
InstructionScenes ==
    {Instruction(<<p, op, d, \h5A, 118>>) : p \in {221, 253}, op \in Prefixed, d \in {\h7E, \hAF}}
      \cup {Instruction(<<p, 203, d, op, 118>>) : p \in {221, 253}, op \in 0..255, d \in {\h7E, \hAF}}

\* CP of two registers of every size (W,A; WA,BC; XWA,XBC), with values around the ends of the signed and unsigned ranges.
Edges(s) == {0, 1, Half(s) - 1, Half(s), Half(s) + 1, Mod(s) - 1}
Comparison(s, a, b) ==
    LET c == Powered(At(16640, <<<<\hC9, \hD9, \hE9>>[s + 1], \hF0, \h68, \hFE>>), 16640)
    IN  [cpu |-> SetReg(SetReg(c, s, 0, a), s, 1, b), z80 |-> Silent(<<>>, FALSE),
         left |-> [irqs |-> 0, nmis |-> 0, raises |-> {}], goal |-> [kind |-> "instruction", result |-> <<>>]]
ComparisonScenes == UNION {{Comparison(s, a, b) : a \in Edges(s), b \in Edges(s)} : s \in Size}

-----------------------------------------------------------------------------
\* Both: the main processor enables the Z80, waits until (BCh) is 1, and twice writes a number there and raises the
\* NMI; the handler of the NMI doubles the number and raises interrupt 6, whose handler stores the answer at 6E01h and
\* counts at 6E00h; the program waits for the count and keeps the answer.  In between it stops the Z80 and starts it again.
Ask(n, count, to) ==
    <<\h21, n, \hF0, \hBC, \h41, \hF0, \hBA, \h41, \hC1, \h00, \h6E, \h3F, count, \h6E, \hF9,
      \hC1, \h01, \h6E, \h21, \hF1, to, \h6E, \h41>>
Enable == <<\h08, \hB9, \h55, \hC0, \hBC, \h21, \hC9, \hD9, \h6E, \hF9>>
Restart == <<\h08, \hB9, \hAA, \h08, \hBC, \h00>> \o Enable
Talk(body, irqs, answers) ==
    LET code == <<\h08, \h71, \hA0, \h06, \h00>> \o Enable \o body
        service == At(18464, <<\h38, \hC0, \hBC, \h21, \hF1, \h01, \h6E, \h41, \hC1, \h00, \h6E, \h61, \h58, \h07>>)
    IN  [cpu |-> Powered(MainProgram(code, service @@ At(28624, <<\h20, \h48, \h00, \h00>>)), 16640),
         z80 |-> Silent(At(0, <<\hC3, \h00, \h01>>) @@ At(56, <<\hD3, \h00, \hFB, \hED, \h4D>>)
                          @@ At(102, <<\hF5, \h3A, \h00, \h80, \h87, \h32, \h00, \h80, \h32, \h00, \hC0, \hF1, \hED, \h45>>)
                          @@ At(256, <<\h31, \h00, \h0F, \hED, \h56, \hFB, \h3E, \h01, \h32, \h00, \h80, \h76, \h18, \hFD>>), FALSE),
         left |-> [irqs |-> irqs, nmis |-> 0, raises |-> {}],
         goal |-> [kind |-> "handshake", end |-> 16640 + Len(code), result |-> At(28176, answers)]]
HandshakeScenes == {Talk(Ask(3, 1, 16) \o Restart \o Ask(7, 2, 17), 0, <<6, 14>>),
                    Talk(Restart \o Ask(3, 1, 16), 1, <<6>>)}

\* AND WA,BC of every pair of these words.
Words == {0, 1, 3, 256, 257, 511, 32768, 65535}
ParityScenes ==
    {[cpu |-> SetReg(SetReg(Powered(At(16640, <<\hD9, \hC0, \h68, \hFE>>), 16640), 1, 0, a), 1, 1, b),
      z80 |-> Silent(<<>>, FALSE), left |-> [irqs |-> 0, nmis |-> 0, raises |-> {}],
      goal |-> [kind |-> "instruction", result |-> <<>>]] : a \in Words, b \in Words}

MCScenes == SoundScenes \cup MainScenes \cup InstructionScenes \cup ComparisonScenes \cup HandshakeScenes
=============================================================================
