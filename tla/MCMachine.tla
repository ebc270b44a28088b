------------------------------ MODULE MCMachine -------------------------------
(***************************************************************************)
(* Bytes of 4 bits, so words of 16, and 128 of them in two pages.           *)
(*                                                                          *)
(* The programs are all pairs of an instruction of Book and one of a few    *)
(* others, followed by a call of the environment, with data at 32 and       *)
(* registers that make each instruction do all it can; and a few command    *)
(* lines that test the loader.                                              *)
(***************************************************************************)
EXTENDS Machine

Nibbles == 0..15

\* The operations on bytes, by their bits.
Table(Test(_, _)) ==
    [p \in Nibbles \X Nibbles |->
        SumSet({2^i : i \in {j \in 0..3 : Test(Bit(p[1], j), Bit(p[2], j))}})]
AndTable == Table(LAMBDA b, c : b = 1 /\ c = 1)
OrTable  == Table(LAMBDA b, c : b = 1 \/ c = 1)
XorTable == Table(LAMBDA b, c : b # c)

\* The upper and the lower halves of the encodings.
Book == <<
    <<\h00B5, \h0633>>,      \*  1 add a2,a0,a1
    <<\h00B5, \h1633>>,      \*  2 sll a2,a0,a1
    <<\h00B5, \h2633>>,      \*  3 slt a2,a0,a1
    <<\h00B5, \h3633>>,      \*  4 sltu a2,a0,a1
    <<\h00B5, \h4633>>,      \*  5 xor a2,a0,a1
    <<\h00B5, \h5633>>,      \*  6 srl a2,a0,a1
    <<\h00B5, \h6633>>,      \*  7 or a2,a0,a1
    <<\h00B5, \h7633>>,      \*  8 and a2,a0,a1
    <<\h40B5, \h0633>>,      \*  9 sub a2,a0,a1
    <<\h40B5, \h5633>>,      \* 10 sra a2,a0,a1
    <<\h02B5, \h0633>>,      \* 11 mul a2,a0,a1
    <<\h02B5, \h1633>>,      \* 12 mulh a2,a0,a1
    <<\h02B5, \h2633>>,      \* 13 mulhsu a2,a0,a1
    <<\h02B5, \h3633>>,      \* 14 mulhu a2,a0,a1
    <<\h02B5, \h4633>>,      \* 15 div a2,a0,a1
    <<\h02B5, \h5633>>,      \* 16 divu a2,a0,a1
    <<\h02B5, \h6633>>,      \* 17 rem a2,a0,a1
    <<\h02B5, \h7633>>,      \* 18 remu a2,a0,a1
    <<\hFFB5, \h0613>>,      \* 19 addi a2,a0,-5
    <<\hFFF5, \h2613>>,      \* 20 slti a2,a0,-1
    <<\hFFF5, \h3613>>,      \* 21 sltiu a2,a0,-1
    <<\hFFF5, \h4613>>,      \* 22 xori a2,a0,-1
    <<\h0555, \h6613>>,      \* 23 ori a2,a0,85
    <<\hFF05, \h7613>>,      \* 24 andi a2,a0,-16
    <<\h0035, \h1613>>,      \* 25 slli a2,a0,3
    <<\h0025, \h5613>>,      \* 26 srli a2,a0,2
    <<\h4025, \h5613>>,      \* 27 srai a2,a0,2
    <<\h0015, \h0603>>,      \* 28 lb a2,1(a0)
    <<\h0025, \h1603>>,      \* 29 lh a2,2(a0)
    <<\hFFC5, \h2603>>,      \* 30 lw a2,-4(a0)
    <<\h0035, \h4603>>,      \* 31 lbu a2,3(a0)
    <<\hFFE5, \h5603>>,      \* 32 lhu a2,-2(a0)
    <<\hFEB5, \h0FA3>>,      \* 33 sb a1,-1(a0)
    <<\h00B5, \h1123>>,      \* 34 sh a1,2(a0)
    <<\hFEB5, \h2223>>,      \* 35 sw a1,-28(a0)
    <<\h00B5, \h0463>>,      \* 36 beq a0,a1,8
    <<\hFEB5, \h1EE3>>,      \* 37 bne a0,a1,-4
    <<\h00B5, \h4463>>,      \* 38 blt a0,a1,8
    <<\h7EB5, \h5FE3>>,      \* 39 bge a0,a1,4094
    <<\h00B5, \h60E3>>,      \* 40 bltu a0,a1,2048
    <<\h00B5, \h7463>>,      \* 41 bgeu a0,a1,8
    <<\h0000, \h3637>>,      \* 42 lui a2,0x3
    <<\h0000, \h9037>>,      \* 43 lui x0,0x9
    <<\hFFFF, \hF617>>,      \* 44 auipc a2,0xfffff
    <<\h0080, \h066F>>,      \* 45 jal a2,8
    <<\h0040, \h006F>>,      \* 46 jal x0,4
    <<\h8090, \h066F>>,      \* 47 jal a2,-1048576+2056
    <<\h0045, \h0667>>,      \* 48 jalr a2,4(a0)
    <<\h0000, \h0067>>,      \* 49 jalr x0,0(x0)
    <<\hFFF5, \h0567>>,      \* 50 jalr a0,-1(a0)
    <<\h0000, \h0073>>,      \* 51 ecall
    <<\h0010, \h0073>>,      \* 52 ebreak
    <<\h0FF0, \h000F>>,      \* 53 fence
    <<\h0009, \h0613>>,      \* 54 addi a2,s2,0
    <<\h0070, \h0613>>,      \* 55 addi a2,x0,7
    <<\h0015, \h0013>>,      \* 56 addi x0,a0,1
    <<\h0005, \h0003>>,      \* 57 lb x0,0(a0)
    <<\h0000, \h0533>>,      \* 58 add a0,x0,x0
    <<\h4135, \h0633>>,      \* 59 sub a2,a1,a0 (rs2 high: s3)
    <<\h40B5, \h1633>>,      \* 60 sll with funct7 32
    <<\h0005, \h3603>>       \* 61 a load of funct3 3
    >>

\* In a memory with words of 16 bits, the number v stands for the v-th of them.
Encodings ==
    [v \in 1..Len(Book) |->
        [i \in Bits |-> IF i < 16 THEN (Book[v][2] \div 2^i) % 2
                        ELSE (Book[v][1] \div 2^(i - 16)) % 2]]

-----------------------------------------------------------------------------

Insn(a, v, text)      == [kind |-> "insn", addr |-> a, word |-> v, text |-> text]
Hex(a, hexes, ascii)  == [kind |-> "data", addr |-> a, hexes |-> hexes, ascii |-> ascii]
Entry(a, symbol)      == [kind |-> "entry", addr |-> a, symbol |-> symbol]
Other                 == [kind |-> "other"]
Run(lines, opt, as)   == [file |-> lines, option |-> opt, args |-> as]

Ecall_  == 51
Figures == <<1, 14, 3, 9, 12, 0, 0, 15>>

\* Instruction v, then w without a text, then a call.
Pair(v, w, text, opt) ==
    Run(<<Other, Hex(32, Figures, <<>>), Entry(0, "_start"),
          Insn(0, v, text), Insn(4, w, NoText), Insn(8, Ecall_, "call")>>, opt, <<>>)

\* A jump to 0, a call, and a store that may go over the third instruction.
Others == {49, Ecall_, 35}
Pairs  == {Pair(v, w, "first", "-l") : v \in 1..Len(Book), w \in Others}
          \cup {Pair(v, w, NoText, opt) : v \in Others, w \in Others, opt \in {"", "-l"}}

Call == <<Entry(8, "main"), Entry(0, "_start"), Insn(0, Ecall_, "call")>>
Start0 == <<Entry(0, "_start")>>
As == <<<<2, 2>>, <<>>, <<5, 9, 1>>>>

Loads_ ==
    {Run(Call, o, as) : o \in {"", "-s", "wrong"}, as \in {<<>>, As, <<<<2, 2>>>>}}
    \cup {Run(lines \o Start0, "-l", As) : lines \in {
          \* an image where the arguments are, one that ends there, and a long one
          <<Hex(104, Figures, <<>>)>>,
          <<Hex(92, Figures, <<>>)>>,
          <<Hex(64, Figures \o Figures, <<>>)>>,
          \* ASCII that looks like hexes, before and after the bytes behind its line
          <<Hex(32, <<4, 4, 4, 4>>, <<13>>), Hex(36, <<3>>, <<>>)>>,
          <<Hex(36, <<3>>, <<>>), Hex(32, <<4, 4, 4, 4>>, <<13>>)>>,
          <<Hex(88, Figures, <<11, 12>>)>>,
          \* an address that is not aligned, and instructions that are given twice
          <<Insn(6, Ecall_, "call")>>,
          <<Insn(0, 19, "old"), Insn(0, Ecall_, "new")>>,
          <<Insn(0, 19, "old"), Insn(0, Ecall_, NoText)>>,
          <<Insn(0, 19, "old"), Hex(0, <<3, 3, 0, 0>>, <<>>)>>}}
    \cup {Run(<<Entry(8, "main"), Insn(0, Ecall_, "call")>>, "", <<>>),
          Run(<<>>, "-l", As),
          \* a program of which the first word is no instruction
          Run(<<Hex(32, Figures, <<>>), Entry(32, "_start")>>, "-l", <<>>)}

CommandLines == Pairs \cup Loads_

-----------------------------------------------------------------------------

Typed == {-1, 15}

\* What a0, a1 and a7, s2 and s3 may hold.
First   == {Smallest, -7, -1, 0, 3, 36}
Second  == {Smallest, -1, 0, 3, 51, 30000}
Call7(n) == CASE n = Smallest -> 1 [] n = 0 -> 93 [] n = 3 -> 9 [] n = 51 -> 3
              [] n \in {-1, 30000} -> 2
Remains ==
    {[i \in 8..31 |-> CASE i = 10 -> m [] i = 11 -> n [] i = 17 -> Call7(n)
                        [] i = 18 -> 9 [] i = 19 -> 6 [] OTHER -> 0] :
     m \in First, n \in Second}
=============================================================================
