------------------------------ MODULE StateFormat ------------------------------
(***************************************************************************)
(* The format of a save state (state.c) and the call of StateAction() that *)
(* writes and reads it.  A state is a header and one chunk per component,  *)
(* each a name, a size and the component's variables by name.  Reading     *)
(* looks every section and every variable up by name, so that a state of   *)
(* another build of the core, whose lists differ, still loads; it has to   *)
(* find its way by the sizes alone, and back to the header each time.      *)
(*                                                                         *)
(* The stream is a sequence of cells: a name, a number of four bytes, or   *)
(* one byte of a variable.  The last section is the flash image, whose     *)
(* length is itself a variable of the section before (FLASH_StateAction).  *)
(***************************************************************************)
EXTENDS Integers, Sequences, SequencesExt, FiniteSetsExt

CONSTANTS
    Layouts,      \* build -> its sections: sequence of [name, vars], vars of [name, size]
    Patterns,     \* contents the variables may have
    MaxFlash      \* longest flash image

VARIABLES
    build,      \* the running core
    memory,     \* <<section, variable>> -> its bytes
    stream,     \* the state that was saved, possibly cut off since
    st,         \* the call under way, see Idle
    written,    \* history: the state as it was saved
    before      \* history: memory when the load began

formatVars == <<build, memory, stream, st, written, before>>

Name(n) == [cell |-> "name", of |-> n]
Number(n) == [cell |-> "number", of |-> n]
Byte(v) == [cell |-> "byte", of |-> v]
Header == Name("MDFNSVST")

Flash == <<"FLSH", "flashdata">>
Length == <<"FINF", "FlashLength">>

\* Sections and the variables of a section have different names; the length of the
\* image comes before the image, which is the last section and has no size in the list.
ASSUME LayoutsAssumption ==
    /\ MaxFlash \in Nat
    /\ \A b \in DOMAIN Layouts :
         LET sections == Layouts[b]
             last == sections[Len(sections)]
         IN  /\ sections \in Seq(Range(sections)) /\ Len(sections) > 0
             /\ \A i, j \in DOMAIN sections : sections[i].name = sections[j].name => i = j
             /\ \A s \in Range(sections) :
                  /\ s.vars \in Seq([name : {v.name : v \in Range(s.vars)}, size : Nat])
                  /\ \A i, j \in DOMAIN s.vars : s.vars[i].name = s.vars[j].name => i = j
             /\ last.name = Flash[1] /\ Len(last.vars) = 1 /\ last.vars[1].name = Flash[2]
             /\ \E s \in Range(sections) : s.name = Length[1] /\ [name |-> Length[2], size |-> 1] \in Range(s.vars)

\* The variables of a build that are its own; the length of the image is not.
Keys(b) ==
    (UNION {{<<s.name, s.vars[j].name>> : j \in DOMAIN s.vars} : s \in Range(Layouts[b])}) \ {Length}

SizeOf(b, k) ==
    LET s == CHOOSE s \in Range(Layouts[b]) : s.name = k[1]
    IN  (CHOOSE v \in Range(s.vars) : v.name = k[2]).size

\* The bytes of a variable with a pattern in it; FlashLength has a number instead.
Bytes(k, p, size) == [i \in 1 .. size |-> <<k, p, i>>]

Memories(b) ==
    {[k \in Keys(b) |-> Bytes(k, p, IF k = Flash THEN n ELSE SizeOf(b, k))] :
        p \in Patterns, n \in 0 .. MaxFlash}

\* The StateMem with the locals of the functions that use it.
Idle == [mode |-> "play", data |-> <<>>, loc |-> 0, todo |-> <<>>,
         total |-> 0, end |-> 0, length |-> 0]

-------------------------------------------------------------------------------
(* Saving. *)

Contents(k) == IF k = Length THEN << <<k, Len(memory[Flash]), 1>> >> ELSE memory[k]

\* SubWrite()
Entry(k) ==
    LET bytes == Contents(k)
    IN  <<Name(k[2]), Number(Len(bytes))>> \o [i \in DOMAIN bytes |-> Byte(bytes[i])]

SubWrite(s) == FlattenSeq([j \in DOMAIN s.vars |-> Entry(<<s.name, s.vars[j].name>>)])

\* WriteStateChunk(): the size is written over the place left for it.
WriteStateChunk(data, s) ==
    LET start == Len(data) + 2
        all == data \o <<Name(s.name), Number(0)>> \o SubWrite(s)
    IN  [all EXCEPT ![start] = Number(Len(all) - start)]

\* Bound: what a load has mixed is not saved again before the game has gone on.
SaveSM ==
    /\ st.mode = "play" /\ memory \in Memories(build)
    /\ st' = [Idle EXCEPT !.mode = "write", !.data = <<Header>>,
                          !.todo = IF memory[Flash] = <<>> THEN Front(Layouts[build])
                                   ELSE Layouts[build]]
    /\ UNCHANGED <<build, memory, stream, written, before>>

WriteSection ==
    /\ st.mode = "write" /\ st.todo # <<>>
    /\ st' = [st EXCEPT !.data = WriteStateChunk(st.data, Head(st.todo)), !.todo = Tail(st.todo)]
    /\ UNCHANGED <<build, memory, stream, written, before>>

Saved ==
    /\ st.mode = "write" /\ st.todo = <<>>
    /\ stream' = st.data /\ written' = st.data
    /\ st' = Idle
    /\ UNCHANGED <<build, memory, before>>

-------------------------------------------------------------------------------
(* Loading.  What is left of st.data from st.loc on: *)

Left == Len(st.data) - st.loc
Next1 == st.data[st.loc + 1]
Next2 == st.data[st.loc + 2]
Section == Head(st.todo)

\* smem_seek(.., SSEEK_CUR) stops at the end, and says so.
Beyond(loc) == loc > Len(st.data)
SeekTo(loc) == IF Beyond(loc) THEN Len(st.data) ELSE loc

\* The next section, with the stream where this one left it.
NextSection(loc) ==
    st' = [st EXCEPT !.mode = "find", !.todo = Tail(st.todo), !.loc = loc, !.total = 0, !.end = 0]

LoadSM ==
    /\ st.mode = "play" /\ stream # <<>>
    /\ st' = [Idle EXCEPT !.mode = "find", !.data = stream, !.loc = 1, !.todo = Layouts[build]]
    /\ before' = memory
    /\ UNCHANGED <<build, memory, stream, written>>

Finding == st.mode = "find" /\ st.todo # <<>> /\ UNCHANGED <<build, memory, stream, written, before>>

\* FLASH_StateAction() does not look for an image of length 0.
SkipFlash ==
    /\ Finding
    /\ Section.name = Flash[1] /\ st.length = 0
    /\ NextSection(st.loc)

Looks == Finding /\ ~(Section.name = Flash[1] /\ st.length = 0)

\* Fault: the search for the next section begins at the end.
NotFoundStays ==
    /\ Looks /\ Left = 0
    /\ NextSection(st.loc)

\* MDFNSS_StateAction_internal(): the section is not there; back to where it began.
NotFound ==
    /\ Looks /\ Left = 0
    /\ NextSection(st.loc - st.total)

\* The stream ends within the head of a section: nothing more is found from here on.
BrokenHead ==
    /\ Looks
    /\ Left = 1 /\ NextSection(Len(st.data))

AtHead == Looks /\ Left > 1 /\ Next1.cell = "name"

Found ==
    /\ AtHead /\ Next1.of = Section.name
    /\ st' = [st EXCEPT !.mode = "read", !.loc = @ + 2, !.end = st.loc + 2 + Next2.of,
                        !.total = @ + 2 + Next2.of]

OtherSection ==
    /\ AtHead /\ Next1.of # Section.name
    /\ LET loc == st.loc + 2 + Next2.of
       IN  IF Beyond(loc) THEN NextSection(SeekTo(loc))
           ELSE st' = [st EXCEPT !.loc = loc, !.total = @ + 2 + Next2.of]

-------------------------------------------------------------------------------
(* ReadStateChunk(), one round of its loop per step. *)

Reading == st.mode = "read" /\ st.loc < st.end /\ UNCHANGED <<build, stream, written, before>>

\* Fault: the end of the stream goes unnoticed.
BrokenEntryUnnoticed ==
    /\ Reading
    /\ Left = 0 /\ UNCHANGED st
    /\ UNCHANGED memory

\* The stream ends where a name should begin.
BrokenEntry ==
    /\ Reading
    /\ Left = 0 /\ NextSection(st.loc)
    /\ UNCHANGED memory

\* What is left of a variable that was cut off is taken for a name and a size.  The
\* size is added to the place modulo 2^32, so the reader goes on anywhere: further on,
\* back, or at the same place for ever.
LoseWay ==
    /\ Reading
    /\ Left > 0 /\ Next1.cell = "byte"
    /\ st' = [st EXCEPT !.mode = "lost", !.loc = 0, !.total = 0, !.end = 0]
    /\ UNCHANGED memory

\* A size that cannot be read is taken as 0.
NoSize ==
    /\ Reading /\ Left = 1 /\ Next1.cell = "name"
    /\ st' = [st EXCEPT !.loc = @ + 1]
    /\ UNCHANGED memory

AtEntry == Reading /\ Left > 1 /\ Next1.cell = "name"
Key == <<Section.name, Next1.of>>

\* FindSF()
InList == \E v \in Range(Section.vars) : v.name = Next1.of
Expected == IF Key = Flash THEN st.length ELSE SizeOf(build, Key)

Fits == InList /\ Next2.of = Expected

\* Fault: what is left of the bytes is taken.
ReadShort(n) == [i \in 1 .. Min({n, Left - 2}) |-> st.data[st.loc + 2 + i].of]

\* smem_read() takes all of the bytes or none.
SmemRead(n) == [i \in 1 .. IF n > Left - 2 THEN 0 ELSE n |-> st.data[st.loc + 2 + i].of]

\* The image is held back until its section is complete, which it is with its only
\* variable.
ReadVariable ==
    /\ AtEntry /\ Fits
    /\ LET bytes == SmemRead(Next2.of)
       IN  /\ memory' = IF Key = Length \/ bytes = <<>> THEN memory ELSE [memory EXCEPT ![Key] = bytes]
           /\ st' = [st EXCEPT !.loc = @ + 2 + Len(bytes),
                               !.length = IF Key = Length /\ bytes # <<>> THEN bytes[1][2] ELSE @]

\* A name that is not in the list, or has another size, is passed over.
PassOver ==
    /\ AtEntry /\ ~Fits
    /\ LET loc == st.loc + 2 + Next2.of
       IN  IF Beyond(loc) THEN NextSection(SeekTo(loc)) ELSE st' = [st EXCEPT !.loc = loc]
    /\ UNCHANGED memory

EndChunk ==
    /\ st.mode = "read" /\ st.loc >= st.end
    /\ NextSection(st.loc - st.total)
    /\ UNCHANGED <<build, memory, stream, written, before>>

-------------------------------------------------------------------------------
(* The reader has lost its way: where it is, and where it goes from there, is *)
(* up to the bytes.  It may come to any variable of the state, in any order   *)
(* and more than once.                                                        *)

Lost == st.mode = "lost" /\ st.todo # <<>> /\ UNCHANGED <<build, stream, written, before>>

\* The cells of a variable of size n whose name is the i-th cell.
Run(i, n) == i + 2 .. i + 1 + n

LostVariable ==
    /\ Lost
    /\ \E v \in Range(Section.vars), i \in 1 .. Len(st.data) - 2, n \in 1 .. Len(st.data) :
         LET key == <<Section.name, v.name>>
         IN  /\ st.data[i] = Name(v.name) /\ st.data[i + 1] = Number(n)
             /\ n = IF key = Flash THEN st.length ELSE v.size
             /\ Run(i, n) \subseteq {x \in DOMAIN st.data : st.data[x].cell = "byte"}
             /\ memory' = IF key = Length THEN memory
                          ELSE [memory EXCEPT ![key] = [x \in 1 .. n |-> st.data[i + 1 + x].of]]
             /\ st' = [st EXCEPT !.length = IF key = Length THEN st.data[i + 2].of[2] ELSE @]

\* Whether its section was found or not.
LostSection ==
    /\ Lost
    /\ st' = [st EXCEPT !.todo = Tail(@)]
    /\ UNCHANGED memory

Loaded ==
    /\ st.mode \in {"find", "lost"} /\ st.todo = <<>>
    /\ st' = Idle
    /\ UNCHANGED <<build, memory, stream, written, before>>

-------------------------------------------------------------------------------
FormatInit ==
    /\ build \in DOMAIN Layouts
    /\ memory \in Memories(build)
    /\ stream = <<>> /\ written = <<>>
    /\ st = Idle
    /\ before = memory

\* The game goes on.
Play ==
    /\ st.mode = "play"
    /\ memory' \in Memories(build)
    /\ before' = memory'
    /\ UNCHANGED <<build, stream, st, written>>

\* A state is kept over an exchange of the core, and may be cut off by then.
Restart ==
    /\ st.mode = "play"
    /\ build' \in DOMAIN Layouts
    /\ memory' \in Memories(build')
    /\ before' = memory'
    /\ \E n \in 0 .. Len(stream) : stream' = SubSeq(stream, 1, n)
    /\ UNCHANGED <<st, written>>

Load ==
    \/ SkipFlash \/ NotFound \/ BrokenHead \/ Found \/ OtherSection
    \/ BrokenEntry \/ LoseWay \/ NoSize \/ ReadVariable \/ PassOver \/ EndChunk \/ Loaded

FormatNext ==
    \/ Play \/ Restart \/ SaveSM \/ WriteSection \/ Saved \/ LoadSM \/ Load
    \/ LostVariable \/ LostSection

FormatSpec == FormatInit /\ [][FormatNext]_formatVars /\ WF_formatVars(Load)

-------------------------------------------------------------------------------
(* Properties. *)

\* Where the bytes of a variable are in the state as it was written.
Places(k) == {i \in DOMAIN written : written[i].cell = "byte" /\ written[i].of[1] = k}

\* What a state has for the running core: a variable of the same name, in the section
\* of the same name, of the same size.
Offers(k) ==
    /\ Places(k) # {}
    /\ k = Flash \/ Cardinality(Places(k)) = SizeOf(build, k)

BytesAt(places) == [i \in 1 .. Cardinality(places) |-> written[Min(places) + i - 1].of]

\* The state was cut within the bytes of a variable.
CutInside ==
    LET n == Len(stream)
    IN  0 < n /\ n < Len(written) /\ stream[n].cell = "byte" /\ written[n + 1].cell = "byte"

EndsLoad == st.mode \in {"find", "lost"} /\ st'.mode = "play"

\* MDFNSS_LoadSM(): after a load, every variable that the state has is what it was when
\* the state was saved, in whatever order the sections and variables of the core that
\* wrote it are, and every other variable is what it was before the load.
LoadRestores ==
    [][EndsLoad /\ stream = written =>
         memory' = [k \in DOMAIN memory |->
                      IF Offers(k) THEN BytesAt(Places(k)) ELSE before[k]]]_formatVars

\* The variables that were saved, and those whose bytes the state still holds in full.
Stored == {written[i].of[1] : i \in {x \in DOMAIN written : written[x].cell = "byte"}}
InFull(k, bytes) == Places(k) \subseteq DOMAIN stream /\ bytes = BytesAt(Places(k))

\* A state that was cut off changes nothing it does not hold in full: a variable is as
\* saved or as before the load, and as before if any of its bytes is missing.  Only if
\* the cut is inside a variable can it get the bytes of another, one of its name.
CutLoadsWholeVariables ==
    [][EndsLoad =>
         \A k \in DOMAIN memory :
            \/ memory'[k] = before[k] \/ InFull(k, memory'[k])
            \/ CutInside /\ \E j \in Stored : j[2] = k[2] /\ InFull(j, memory'[k])]_formatVars

\* Every load of a state that is whole, or was cut anywhere but inside a variable, comes
\* to its end.  After a cut inside one the loop of ReadStateChunk(), or the search for
\* the next section, may be sent back to the same place again and again.
LoadEnds == (st.mode \in {"find", "read"} /\ ~CutInside) ~> st.mode = "play"

===============================================================================
