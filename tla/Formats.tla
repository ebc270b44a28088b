------------------------------- MODULE Formats --------------------------------
(***************************************************************************)
(* The formats of RV32IM: which bits of an instruction are which field, and *)
(* which fields mean which instruction.                                     *)
(***************************************************************************)
EXTENDS Words

\* Bits hi to lo, as a number without a sign.
Field(w, hi, lo) == Number([i \in Bits |-> IF i <= hi - lo THEN w[lo + i] ELSE 0])

Opcode(w) == Field(w, 6, 0)
Funct3(w) == Field(w, 14, 12)
Funct7(w) == Field(w, 31, 25)
Rd(w)     == Field(w, 11, 7)
Rs1(w)    == Field(w, 19, 15)
Rs2(w)    == Field(w, 24, 20)

\* The immediates; those of I, S, B and J have the sign of bit 31.
ImmI(w) == Number([i \in Bits |-> IF i <= 10 THEN w[i + 20] ELSE w[31]])
ImmS(w) == Number([i \in Bits |-> CASE i <= 4 -> w[i + 7]
                                    [] i \in 5..10 -> w[i + 20]
                                    [] i >= 11 -> w[31]])
ImmB(w) == Number([i \in Bits |-> CASE i = 0 -> 0
                                    [] i \in 1..4 -> w[i + 7]
                                    [] i \in 5..10 -> w[i + 20]
                                    [] i = 11 -> w[7]
                                    [] i >= 12 -> w[31]])
ImmU(w) == Number([i \in Bits |-> IF i >= 12 THEN w[i] ELSE 0])
ImmJ(w) == Number([i \in Bits |-> CASE i = 0 -> 0
                                    [] i \in 1..10 -> w[i + 20]
                                    [] i = 11 -> w[20]
                                    [] i \in 12..19 -> w[i]
                                    [] i >= 20 -> w[31]])

\* Instructions known by their opcode, by opcode and funct3, and by both and funct7.
ByOpcode == [lui |-> 55, auipc |-> 23, jal |-> 111]
ByFunct3 == [jalr |-> <<103, 0>>,
             beq  |-> <<99, 0>>, bne |-> <<99, 1>>, blt |-> <<99, 4>>, bge |-> <<99, 5>>,
             bltu |-> <<99, 6>>, bgeu |-> <<99, 7>>,
             lb   |-> <<3, 0>>, lh |-> <<3, 1>>, lw |-> <<3, 2>>, lbu |-> <<3, 4>>, lhu |-> <<3, 5>>,
             sb   |-> <<35, 0>>, sh |-> <<35, 1>>, sw |-> <<35, 2>>,
             addi |-> <<19, 0>>, slti |-> <<19, 2>>, sltiu |-> <<19, 3>>,
             xori |-> <<19, 4>>, ori |-> <<19, 6>>, andi |-> <<19, 7>>]
ByFunct7 == [slli |-> <<19, 1, 0>>, srli |-> <<19, 5, 0>>, srai |-> <<19, 5, 32>>,
             add  |-> <<51, 0, 0>>, sub |-> <<51, 0, 32>>, sll |-> <<51, 1, 0>>,
             slt  |-> <<51, 2, 0>>, sltu |-> <<51, 3, 0>>, xor |-> <<51, 4, 0>>,
             srl  |-> <<51, 5, 0>>, sra |-> <<51, 5, 32>>, or |-> <<51, 6, 0>>,
             and  |-> <<51, 7, 0>>,
             mul  |-> <<51, 0, 1>>, mulh |-> <<51, 1, 1>>, mulhsu |-> <<51, 2, 1>>,
             mulhu |-> <<51, 3, 1>>, div |-> <<51, 4, 1>>, divu |-> <<51, 5, 1>>,
             rem  |-> <<51, 6, 1>>, remu |-> <<51, 7, 1>>]

\* The instructions that w is, of which there is one or none.  (ecall is one single
\* encoding.)
Names(w) ==
    LET o  == Opcode(w)
        f3 == Funct3(w)
        f7 == Funct7(w)
    IN {op \in DOMAIN ByOpcode : ByOpcode[op] = o}
       \cup {op \in DOMAIN ByFunct3 : ByFunct3[op] = <<o, f3>>}
       \cup {op \in DOMAIN ByFunct7 : ByFunct7[op] = <<o, f3, f7>>}
       \cup {op \in {"ecall"} : {i \in Bits : w[i] = 1} = {0, 1, 4, 5, 6}}

\* What Code[v] means in a memory where v stands for it.
Meaning(Code) ==
    UNION {{[word |-> v, op |-> op, rd |-> Rd(Code[v]), rs1 |-> Rs1(Code[v]),
             rs2 |-> Rs2(Code[v]), I |-> ImmI(Code[v]), S |-> ImmS(Code[v]),
             B |-> ImmB(Code[v]), U |-> ImmU(Code[v]), J |-> ImmJ(Code[v])] :
            op \in Names(Code[v])} : v \in DOMAIN Code}
=============================================================================
