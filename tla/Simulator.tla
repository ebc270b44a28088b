------------------------------- MODULE Simulator -------------------------------
(***************************************************************************)
(* A5's simulate.c: a RISC-V program, loaded by the module Loader, is run   *)
(* instruction by instruction.                                              *)
(*                                                                          *)
(* Undefined behaviour of the C code is what the builds do: sums and        *)
(* products wrap, shift counts are taken modulo the word, a division by     *)
(* zero or of the smallest int by -1 is a signal or goes on with some       *)
(* result.                                                                  *)
(***************************************************************************)
EXTENDS Loader, Decode

CONSTANTS
    Code,       \* the instruction that a word of memory is (in the code: its own bits)
    Chars,      \* what may be typed: bytes, and -1 for the end of the input
    Leftovers,  \* what the registers may hold that memset does not clear
    Garbage,    \* a text that nobody wrote
    MaxInstructions  \* bound of the model: how many instructions are run

ASSUME SimulatorAssumption ==
    /\ DOMAIN Code \subseteq Ints /\ \A v \in DOMAIN Code : Code[v] \in Word32
    /\ Chars \subseteq 0..(Base - 1) \cup {-1}
    /\ Leftovers \subseteq [8..31 -> Ints]
    /\ Garbage \in STRING \ {NoText} /\ MaxInstructions \in Nat

VARIABLES
    rg, PC,    \* struct RiscvRegister
    inst_cnt,
    instr,     \* log.instr
    logged,    \* the last line of the log
    console    \* what putchar has written

vars == <<memory, loading, phase, rg, PC, inst_cnt, instr, logged, console>>

a0 == 10
a7 == 17

Init ==
    /\ LoaderInit
    /\ rg = [i \in 0..31 |-> 0] /\ PC = 0 /\ inst_cnt = 0
    /\ instr = Garbage /\ logged = <<>> /\ console = <<>>

\* simulate is called.  memset(rg, 0, 32) clears 32 bytes: the first 8 registers.
Start ==
    /\ running /\ phase = "load" /\ todo = <<>> /\ line > Len(file) /\ start_addr # -1
    /\ \E left \in Leftovers : rg' = [i \in 0..31 |-> IF i < 8 THEN 0 ELSE left[i]]
    /\ PC' = Wrap(start_addr) /\ phase' = "fetch"
    /\ UNCHANGED <<memory, loading, inst_cnt, instr, logged, console>>

Fetch ==
    /\ running /\ phase = "fetch" /\ inst_cnt < MaxInstructions
    /\ memory_rd_w(Address(PC))
    /\ inst_cnt' = inst_cnt + 1 /\ phase' = "execute"
    /\ UNCHANGED <<loading, rg, PC, instr, logged, console>>

-----------------------------------------------------------------------------
(* The instruction that was fetched.                                       *)

\* What the functions of decode_helpers.c and the switches get from an encoding.
Fields(w) == [op |-> Operation(w), rd |-> get_rd(w), rs1 |-> get_rs1(w), rs2 |-> get_rs2(w),
              shamt |-> get_shamt(w), I |-> get_imm_I(w), S |-> get_imm_S(w),
              B |-> get_imm_B(w), U |-> get_imm_U(w), J |-> get_imm_J(w)]

\* The words that are instructions of the program; the others have no case in the
\* switches, like an encoding of zeros.
Decoded == {[word |-> v, fields |-> Fields(Code[v])] : v \in DOMAIN Code}
Unread  == Fields([i \in Bits |-> 0])

word == ValueOf(result)
inst == LET n == word IN
        IF n \in DOMAIN Code THEN (CHOOSE d \in Decoded : d.word = n).fields ELSE Unread

\* The registers once x0 has been zeroed, and the operands of an instruction.
Regs  == [rg EXCEPT ![0] = 0]
v1(i) == Regs[i.rs1]
v2(i) == Regs[i.rs2]

TextAt(n) == IF n \in DOMAIN texts THEN texts[n] ELSE NoText

\* Mutation: the address is taken from the PC after the instruction.
LogAfter(op) ==
    /\ instr' = op
    /\ IF option = "-l"
       THEN LET text == IF TextAt(PC') = NoText THEN op ELSE TextAt(PC')
            IN /\ logged' = [at |-> PC', word |-> word, text |-> text]
               /\ texts' = assembly_set(PC', text)
       ELSE UNCHANGED <<logged, texts>>
    /\ UNCHANGED <<file, args, option, passing, line, start_addr, todo, inst_cnt>>
    /\ phase' = "fetch"

\* The end of a round: log.instr is op, the instruction is logged under the text of
\* its address, which log.instr becomes if there is none.
Log(op) ==
    /\ instr' = op
    /\ IF option = "-l"
       THEN LET text == IF TextAt(PC) = NoText THEN op ELSE TextAt(PC)
            IN /\ logged' = [at |-> PC, word |-> word, text |-> text]
               /\ texts' = assembly_set(PC, text)
       ELSE UNCHANGED <<logged, texts>>
    /\ UNCHANGED <<file, args, option, passing, line, start_addr, todo, inst_cnt>>
    /\ phase' = "fetch"

\* The process is killed.
Die == running' = FALSE /\ UNCHANGED <<pages, result, loading, phase, rg, PC, inst_cnt,
                                       instr, logged, console>>

\* Register rd is v, the next instruction is at n.
Retire(op, rd, v, n) ==
    /\ rg' = [Regs EXCEPT ![rd] = v] /\ PC' = Wrap(n) /\ Log(op)
    /\ UNCHANGED console

\* No register is written.
Proceed(op, n) == rg' = Regs /\ PC' = Wrap(n) /\ Log(op)

Upper(i) ==
    /\ \/ i.op = "lui"   /\ Retire(i.op, i.rd, Wrap(i.U), PC + 4)
       \/ i.op = "auipc" /\ Retire(i.op, i.rd, Wrap(PC + i.U), PC + 4)
    /\ UNCHANGED memory

\* jalr has read its register before x0 was zeroed.
Jump(i) ==
    /\ \/ i.op = "jal"  /\ Retire(i.op, i.rd, Wrap(PC + 4), PC + i.J)
       \/ i.op = "jalr" /\ Retire(i.op, i.rd, Wrap(PC + 4), rg[i.rs1] + i.I)
    /\ UNCHANGED memory

Taken(op, a, b) ==
    CASE op = "beq"  -> a = b
      [] op = "bne"  -> a # b
      [] op = "blt"  -> a < b
      [] op = "bge"  -> a >= b
      [] op = "bltu" -> Unsigned(a) < Unsigned(b)
      [] op = "bgeu" -> Unsigned(a) >= Unsigned(b)

type_B(i) ==
    /\ i.op \in {"beq", "bne", "blt", "bge", "bltu", "bgeu"}
    /\ Proceed(i.op, PC + IF Taken(i.op, v1(i), v2(i)) THEN i.B ELSE 4)
    /\ UNCHANGED <<memory, console>>

ShiftedLeft(n, k)  == Wrap(n * 2^(k % WordBits))
ShiftedRight(n, k) == n \div 2^(k % WordBits)

\* srl shifts an int, so the sign comes in from the left.
SumOf(op, a, b) ==
    CASE op = "add" -> Wrap(a + b)
      [] op = "sub" -> Wrap(a - b)
      [] op = "sll" -> ShiftedLeft(a, b)
      [] op = "slt" -> IF a < b THEN 1 ELSE 0
      [] op = "sltu" -> IF Unsigned(a) < Unsigned(b) THEN 1 ELSE 0
      [] op = "xor" -> Xor(a, b)
      [] op \in {"srl", "sra"} -> ShiftedRight(a, b)
      [] op = "or"  -> Or(a, b)
      [] op = "and" -> And(a, b)

type_R(i) ==
    /\ i.op \in {"add", "sub", "sll", "slt", "sltu", "xor", "srl", "sra", "or", "and"}
    /\ Retire(i.op, i.rd, SumOf(i.op, v1(i), v2(i)), PC + 4)
    /\ UNCHANGED memory

\* The operands of the high products are ints with their sign, then cast to 64 bits:
\* all three products are the signed one.
ProductOf(op, a, b) ==
    CASE op = "mul" -> Wrap(a * b)
      [] op \in {"mulh", "mulhsu", "mulhu"} -> Wrap((a * b) \div Modulus)
      [] op = "div"  -> IF b = 0 THEN 0 ELSE Wrap(Quotient(a, b))
      [] op = "divu" -> IF b = 0 THEN 0 ELSE Wrap(Unsigned(a) \div Unsigned(b))
      [] op = "rem"  -> IF b = 0 THEN a ELSE Wrap(Remainder(a, b))
      [] op = "remu" -> IF b = 0 THEN a ELSE Wrap(Unsigned(a) % Unsigned(b))

Undefined(op, a, b) ==
    \/ op \in {"div", "divu", "rem", "remu"} /\ b = 0
    \/ op \in {"div", "rem"} /\ a = Smallest /\ b = -1

helper_extension(i) ==
    /\ i.op \in {"mul", "mulh", "mulhsu", "mulhu", "div", "divu", "rem", "remu"}
    /\ \/ Retire(i.op, i.rd, ProductOf(i.op, v1(i), v2(i)), PC + 4) /\ UNCHANGED memory
       \/ Undefined(i.op, v1(i), v2(i)) /\ Die

ImmediateOf(op, a, I, shamt) ==
    CASE op = "addi"  -> Wrap(a + I)
      [] op = "slti"  -> IF a < I THEN 1 ELSE 0
      [] op = "sltiu" -> IF Unsigned(a) < Unsigned(I) THEN 1 ELSE 0
      [] op = "xori"  -> Xor(a, I)
      [] op = "ori"   -> Or(a, I)
      [] op = "andi"  -> And(a, I)
      [] op = "slli"  -> ShiftedLeft(a, shamt)
      [] op \in {"srli", "srai"} -> ShiftedRight(a, shamt)

type_I2(i) ==
    /\ i.op \in {"addi", "slti", "sltiu", "xori", "ori", "andi", "slli", "srli", "srai"}
    /\ Retire(i.op, i.rd, ImmediateOf(i.op, v1(i), i.I, i.shamt), PC + 4)
    /\ UNCHANGED memory

-----------------------------------------------------------------------------
(* Memory, environment, and what is no instruction.                        *)

\* An access that is not aligned has ended the program.
Then(A) ==
    \/ running' /\ A
    \/ ~running' /\ UNCHANGED <<loading, phase, rg, PC, inst_cnt, instr, logged, console>>

type_I(i) ==
    LET at == Address(Wrap(v1(i) + i.I)) IN
    /\ \/ i.op \in {"lb", "lbu"} /\ memory_rd_b(at)
       \/ i.op \in {"lh", "lhu"} /\ memory_rd_h(at)
       \/ i.op = "lw" /\ memory_rd_w(at)
    /\ Then(Retire(i.op, i.rd, CASE i.op = "lb" -> Extended(result', 1)
                                 [] i.op = "lh" -> Extended(result', 2)
                                 [] i.op \in {"lw", "lbu", "lhu"} -> ValueOf(result'),
                   PC + 4))

type_S(i) ==
    LET at == Address(Wrap(v1(i) + i.S)) IN
    /\ \/ i.op = "sb" /\ memory_wr_b(at, BytesOf(v2(i)))
       \/ i.op = "sh" /\ memory_wr_h(at, BytesOf(v2(i)))
       \/ i.op = "sw" /\ memory_wr_w(at, BytesOf(v2(i)))
    /\ Then(Proceed(i.op, PC + 4) /\ UNCHANGED console)

\* The call is named by a7.
Ecall(i) ==
    /\ i.op = "ecall"
    /\ \/ rg[a7] = 1 /\ \E c \in Chars : Retire(i.op, a0, c, PC + 4)
       \/ /\ rg[a7] = 2 /\ Proceed(i.op, PC + 4)
          /\ console' = Append(console, Regs[a0] % Base)
       \/ /\ rg[a7] \in {3, 93}
          /\ phase' = "returned" /\ rg' = Regs /\ instr' = i.op
          /\ UNCHANGED <<loading, PC, inst_cnt, logged, console>>
       \/ rg[a7] \notin {1, 2, 3, 93} /\ Proceed(i.op, PC) /\ UNCHANGED console
    /\ UNCHANGED memory

\* The PC stays where it is, and so does log.instr, which may never have been set.
NoCase(i) ==
    /\ i.op = Unknown
    /\ \/ Proceed(instr, PC) /\ UNCHANGED <<memory, console>>
       \/ option = "-l" /\ instr = Garbage /\ TextAt(PC) = NoText /\ Die

\* The place of an address of the upper half in the assembly table has a negative
\* index (assembly.c:25).
LogFails(i) ==
    /\ option = "-l" /\ PC < 0 /\ ~(i.op = "ecall" /\ rg[a7] \in {3, 93})
    /\ Die

Execute ==
    /\ running /\ phase = "execute"
    /\ \E i \in {inst} :
          \/ Upper(i) \/ Jump(i) \/ type_B(i) \/ type_R(i) \/ helper_extension(i)
          \/ type_I2(i) \/ type_I(i) \/ type_S(i) \/ Ecall(i) \/ NoCase(i) \/ LogFails(i)

Simulation == Start \/ Fetch \/ Execute

Next == \/ Load /\ UNCHANGED <<rg, PC, inst_cnt, instr, logged, console>>
        \/ Simulation

Spec == Init /\ [][Next]_vars
=============================================================================
