-------------------------------- MODULE Decode --------------------------------
(***************************************************************************)
(* How A5's simulator takes an instruction apart: the functions of          *)
(* decode_helpers.c, shift by shift and mask by mask, and the switches of   *)
(* simulate.c that find the operation.                                      *)
(***************************************************************************)
EXTENDS Words, Sequences

\* word << n, word >> n of unsigned and of signed words, word & (the bits S), v | w.
Left(w, n)  == [i \in Bits |-> IF i >= n THEN w[i - n] ELSE 0]
Right(w, n) == [i \in Bits |-> IF i + n <= 31 THEN w[i + n] ELSE 0]
Arith(w, n) == [i \in Bits |-> IF i + n <= 31 THEN w[i + n] ELSE w[31]]
Mask(w, S)  == [i \in Bits |-> IF i \in S THEN w[i] ELSE 0]
Either(v, w) == [i \in Bits |-> IF v[i] = 1 \/ w[i] = 1 THEN 1 ELSE 0]

get_opcode(w) == Number(Right(Left(w, 25), 25))
get_rd(w)     == Number(Mask(Right(w, 7), 0..4))
get_funct3(w) == Number(Mask(Right(w, 12), 0..2))
get_rs2(w)    == Number(Mask(Right(w, 20), 0..4))
get_funct7(w) == Number(Right(w, 25))
get_shamt(w)  == Number(Right(Mask(w, 20..24), 20))

\* The mask is 0xF: the highest of the five bits is lost.
get_rs1(w)    == Number(Mask(Right(w, 15), 0..3))

get_imm_I(w) == Number(Arith(w, 20))

get_imm_S(w) == Number(Either(Arith(Mask(w, 25..31), 20), Mask(Right(w, 7), 0..4)))

get_imm_B(w) ==
    Number(Either(Either(Either(Arith(Mask(w, {31}), 19), Right(Mask(w, 25..30), 20)),
                         Right(Mask(w, 8..11), 7)),
                  Left(Mask(w, {7}), 4)))

get_imm_U(w) == Number(Left(Arith(w, 12), 12))

\* Mutation: the sign of a jump is shifted like an unsigned number.
ImmJUnsigned(w) ==
    Number(Either(Either(Either(Right(Mask(w, {31}), 11), Right(Mask(w, 21..30), 20)),
                         Right(Mask(w, {20}), 9)),
                  Mask(w, 12..19)))

get_imm_J(w) ==
    Number(Either(Either(Either(Arith(Mask(w, {31}), 11), Right(Mask(w, 21..30), 20)),
                         Right(Mask(w, {20}), 9)),
                  Mask(w, 12..19)))

-----------------------------------------------------------------------------

\* No case of the switch.
Unknown == "unknown"

\* The switches on funct3 and funct7 of each type.
Branches == <<"beq", "bne", Unknown, Unknown, "blt", "bge", "bltu", "bgeu">>
Loads    == <<"lb", "lh", "lw", Unknown, "lbu", "lhu", Unknown, Unknown>>
Stores   == <<"sb", "sh", "sw", Unknown, Unknown, Unknown, Unknown, Unknown>>
Extension == <<"mul", "mulh", "mulhsu", "mulhu", "div", "divu", "rem", "remu">>
Registers(f7) ==
    <<IF f7 = 0 THEN "add" ELSE "sub", "sll", "slt", "sltu", "xor",
      IF f7 = 0 THEN "srl" ELSE "sra", "or", "and">>
Immediates(f7) ==
    <<"addi", "slli", "slti", "sltiu", "xori",
      IF f7 = 0 THEN "srli" ELSE "srai", "ori", "andi">>

\* What the instruction is taken for.
Operation(w) ==
    LET o  == get_opcode(w)
        f7 == get_funct7(w)
        n  == get_funct3(w) + 1
    IN CASE o = 55  -> "lui"
         [] o = 23  -> "auipc"
         [] o = 111 -> "jal"
         [] o = 103 -> "jalr"
         [] o = 115 -> "ecall"
         [] o = 99  -> Branches[n]
         [] o = 3   -> Loads[n]
         [] o = 35  -> Stores[n]
         [] o = 19  -> Immediates(f7)[n]
         [] o = 51 /\ f7 \in {0, 32} -> Registers(f7)[n]
         [] o = 51 /\ f7 = 1 -> Extension[n]
         [] OTHER -> Unknown
=============================================================================
