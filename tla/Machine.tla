-------------------------------- MODULE Machine --------------------------------
(***************************************************************************)
(* What A5 as a whole has to do: the program finds its image and its        *)
(* arguments in the memory, its instructions do what RV32IM says, and the   *)
(* log tells which they were.                                               *)
(***************************************************************************)
EXTENDS Simulator, Formats, FiniteSetsExt

Meanings == Meaning(Code)

Rv32 == INSTANCE Isa
    WITH Instructions <- Meanings, bytes <- Flat, x <- Regs, pc <- PC, out <- console

\* The type of the state.
TypeOK ==
    /\ MemoryTypeOK
    /\ file \in Seq(Line) /\ line \in 1..(Len(file) + 1) /\ start_addr \in Int
    /\ args \in Seq(Seq(Byte \ {0})) /\ index \in 1..(Len(args) + 1) /\ str_addr \in Nat
    /\ todo \in Seq([at : Int, size : {1, 4}, data : Word])
    /\ phase \in {"main", "load", "fetch", "execute", "returned"}
    /\ rg \in [0..31 -> Ints] /\ PC \in Ints
    /\ inst_cnt \in 0..MaxInstructions
    /\ \A n \in DOMAIN texts : n \in Ints /\ texts[n] # NoText
    /\ instr # NoText
    /\ console \in Seq(Byte)

-----------------------------------------------------------------------------
(* Where the simulator is no RV32IM machine.                               *)

\* The instruction that is executed: one or none.
Meant == LET n == word IN {i \in Meanings : i.word = n}

\* Its first register has a number above 15, of which get_rs1 loses a bit.
HighRegister(i) == i.rs1 > 15 /\ i.op \notin {"lui", "auipc", "jal"}

\* A jump to an address from x0, which still holds what was written to it last, or
\* to an odd address, whose bit 0 is not cleared.
LooseJump(i) == i.op = "jalr" /\ (\/ i.rs1 = 0 /\ rg[0] # 0
                                  \/ (v1(i) + i.I) % 2 # 0)

\* The logical shift to the right of a negative number keeps its sign.
SignedShift(i) == i.op \in {"srl", "srli"} /\ v1(i) < 0

\* The high product of a negative number that should have been taken as unsigned.
SignedProduct(i) == \/ i.op = "mulhu" /\ (v1(i) < 0 \/ v2(i) < 0)
                    \/ i.op = "mulhsu" /\ v2(i) < 0

\* Encodings that mean nothing, and calls that are none: the PC stays there, or an
\* instruction is executed that the encoding is close to.
Meaningless == \A i \in Meant : i.op = "ecall" /\ rg[a7] \notin {1, 2, 3, 93}

\* The log is written for an address that the assembly table has no place for.
NoPlace == option = "-l" /\ PC < 0

Deviates ==
    \/ NoPlace \/ Meaningless
    \/ \E i \in Meant : \/ HighRegister(i) \/ LooseJump(i) \/ SignedShift(i)
                        \/ SignedProduct(i) \/ Undefined(i.op, v1(i), v2(i))

\* All fields are those of the format, but for the highest bit of rs1.
DecodedTrue ==
    \A i \in Meant : LET d == inst IN
        /\ d.op = i.op /\ d.rd = i.rd /\ d.rs1 = i.rs1 % 16 /\ d.rs2 = i.rs2
        /\ d.I = i.I /\ d.S = i.S /\ d.B = i.B /\ d.U = i.U /\ d.J = i.J

\* Each instruction is decoded as RV32IM says and does what it says, on registers,
\* memory and output, but for the deviations listed above; exactly the accesses that
\* are not aligned end the program (the loop of simulate).
Executes ==
    [][/\ Fetch => Rv32!Fetch
       /\ Execute => DecodedTrue
       /\ Execute /\ ~Deviates => Rv32!Execute]_vars

-----------------------------------------------------------------------------
(* What the program finds.                                                 *)

\* The addresses that a line of the file is about, and the byte it has there.
Size(l) == CASE l.kind = "data" -> Len(l.hexes) [] l.kind = "insn" -> 4 [] OTHER -> 0
Covers(l, n) == \E k \in 0..(Size(l) - 1) : Address(l.addr + k) = n
ByteAt(l, n) == LET k == CHOOSE j \in 0..(Size(l) - 1) : Address(l.addr + j) = n
                IN IF l.kind = "data" THEN l.hexes[k + 1] ELSE BytesOf(l.word)[k]

\* The line that a byte is taken from, or 0.
Source(n) == Max({0} \cup {k \in DOMAIN file : Covers(file[k], n)})

\* The ASCII column of a later line has been taken for data there.
Spoilt(n) == \E k \in (Source(n) + 1)..Len(file) :
                /\ file[k].kind = "data"
                /\ \E j \in Len(file[k].hexes)..(Len(Hexes(file[k])) - 1) :
                      Address(file[k].addr + j) = n

AtStart == running /\ phase = "fetch" /\ inst_cnt = 0

\* read_exec.h:9 "read file into simulated memory, return value of _start symbol":
\* before the first instruction every address has the byte of the last line about it,
\* unless the ASCII column of a line after it was taken for data.
ImageLoaded ==
    AtStart => /\ \A n \in Addresses :
                     Source(n) # 0 /\ ~Spoilt(n) => Flat[n] = ByteAt(file[Source(n)], n)
               /\ \E k \in DOMAIN file :
                     file[k].kind = "entry" /\ file[k].symbol = "_start" /\ PC = file[k].addr

\* The string that starts at n, and the int there.
StringAt(n, s) == /\ \A k \in DOMAIN s : Flat[Address(n + k - 1)] = s[k]
                  /\ Flat[Address(n + Len(s))] = 0
IntAt(n) == ValueOf([l \in 0..3 |-> Flat[Address(n + l)]])

\* main.c:18 "these arguments are provided through argv": the program finds their
\* number and, by their pointers, the arguments, each ended by a zero, if its file is
\* about other addresses.
ArgumentsPassed ==
    AtStart /\ args # <<>> /\ (\A n \in Addresses : n >= ArgBase => Source(n) = 0 /\ ~Spoilt(n))
    => /\ IntAt(ArgBase) = Len(args)
       /\ \A k \in DOMAIN args : StringAt(IntAt(ArgBase + 4 * k), args[k])

\* The text that the file has last for an address.
FileText(n) ==
    LET lines == {k \in DOMAIN file : /\ file[k].kind = "insn" /\ Wrap(file[k].addr) = n
                                      /\ file[k].text # NoText}
    IN IF lines = {} THEN NoText ELSE file[Max(lines)].text

\* An instruction is logged with its address and word under the text that the file has
\* for it, otherwise under its own name when it is logged first, and under the same
\* name again after that.  (Not when its encoding means nothing: it then gets the name
\* of the instruction before it.)
LogTrue ==
    [][phase = "execute" /\ phase' = "fetch" /\ option = "-l" /\ ~Meaningless =>
          /\ logged'.at = PC /\ logged'.word = word
          /\ IF FileText(PC) # NoText THEN logged'.text = FileText(PC)
             ELSE IF PC \in DOMAIN texts THEN logged'.text = texts[PC]
             ELSE \E i \in Meant : i.op = logged'.text]_vars
=============================================================================
