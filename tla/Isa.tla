---------------------------------- MODULE Isa ----------------------------------
(***************************************************************************)
(* What A5's simulator promises: the RV32IM machine with a memory of bytes, *)
(* the environment calls of simulate.h, and the end of the program at an    *)
(* access that is not aligned.                                              *)
(***************************************************************************)
EXTENDS ByteMemory, Words, Sequences

CONSTANTS
    Instructions,  \* the meanings of the words (see Formats)
    Address(_),    \* where in the memory an int points
    Chars          \* what may be typed: a byte, or -1 at the end

VARIABLES
    x,      \* the registers
    pc,
    phase,  \* "fetch", "execute", "returned"
    out     \* the bytes put

Fetch ==
    /\ phase = "fetch" /\ running
    /\ Read(Address(pc), 4)
    /\ phase' = "execute"
    /\ UNCHANGED <<x, pc, out>>

-----------------------------------------------------------------------------

\* Register rd, unless it is x0, has value v, and the next instruction is at n.
Retire(rd, v, n) ==
    /\ x' = [x EXCEPT ![rd] = IF rd = 0 THEN 0 ELSE v]
    /\ pc' = Wrap(n)

Storage == <<bytes, result, running>>

\* The operation on a and b; shifts take the low bits of b.
Result(op, a, b) ==
    LET n == b % WordBits IN
    CASE op \in {"add", "addi"} -> Wrap(a + b)
      [] op = "sub"             -> Wrap(a - b)
      [] op \in {"and", "andi"} -> And(a, b)
      [] op \in {"or", "ori"}   -> Or(a, b)
      [] op \in {"xor", "xori"} -> Xor(a, b)
      [] op \in {"slt", "slti"}   -> IF a < b THEN 1 ELSE 0
      [] op \in {"sltu", "sltiu"} -> IF Unsigned(a) < Unsigned(b) THEN 1 ELSE 0
      [] op \in {"sll", "slli"} -> Wrap(a * 2^n)
      [] op \in {"srl", "srli"} -> Wrap(Unsigned(a) \div 2^n)
      [] op \in {"sra", "srai"} -> a \div 2^n
      [] op = "mul"    -> Wrap(a * b)
      [] op = "mulh"   -> Wrap((a * b) \div Modulus)
      [] op = "mulhsu" -> Wrap((a * Unsigned(b)) \div Modulus)
      [] op = "mulhu"  -> Wrap((Unsigned(a) * Unsigned(b)) \div Modulus)
      [] op = "div"  -> IF b = 0 THEN -1 ELSE Wrap(Quotient(a, b))
      [] op = "rem"  -> IF b = 0 THEN a ELSE Wrap(Remainder(a, b))
      [] op = "divu" -> IF b = 0 THEN -1 ELSE Wrap(Unsigned(a) \div Unsigned(b))
      [] op = "remu" -> IF b = 0 THEN a ELSE Wrap(Unsigned(a) % Unsigned(b))

RegisterOps  == {"add", "sub", "and", "or", "xor", "slt", "sltu", "sll", "srl", "sra",
                 "mul", "mulh", "mulhsu", "mulhu", "div", "rem", "divu", "remu"}
ImmediateOps == {"addi", "andi", "ori", "xori", "slti", "sltiu"}
ShiftOps     == {"slli", "srli", "srai"}

Compute(i) ==
    /\ i.op \in RegisterOps \cup ImmediateOps \cup ShiftOps
    /\ Retire(i.rd,
              Result(i.op, x[i.rs1],
                     CASE i.op \in RegisterOps  -> x[i.rs2]
                       [] i.op \in ImmediateOps -> i.I
                       [] i.op \in ShiftOps     -> i.rs2),
              pc + 4)
    /\ phase' = "fetch"
    /\ UNCHANGED <<Storage, out>>

Upper(i) ==
    /\ \/ i.op = "lui"   /\ Retire(i.rd, Wrap(i.U), pc + 4)
       \/ i.op = "auipc" /\ Retire(i.rd, Wrap(pc + i.U), pc + 4)
    /\ phase' = "fetch"
    /\ UNCHANGED <<Storage, out>>

Even(n) == n - (n % 2)

Jump(i) ==
    /\ \/ i.op = "jal"  /\ Retire(i.rd, Wrap(pc + 4), pc + i.J)
       \/ i.op = "jalr" /\ Retire(i.rd, Wrap(pc + 4), Even(x[i.rs1] + i.I))
    /\ phase' = "fetch"
    /\ UNCHANGED <<Storage, out>>

Taken(op, a, b) ==
    CASE op = "beq"  -> a = b
      [] op = "bne"  -> a # b
      [] op = "blt"  -> a < b
      [] op = "bge"  -> a >= b
      [] op = "bltu" -> Unsigned(a) < Unsigned(b)
      [] op = "bgeu" -> Unsigned(a) >= Unsigned(b)

Branch(i) ==
    /\ i.op \in {"beq", "bne", "blt", "bge", "bltu", "bgeu"}
    /\ pc' = Wrap(pc + IF Taken(i.op, x[i.rs1], x[i.rs2]) THEN i.B ELSE 4)
    /\ phase' = "fetch"
    /\ UNCHANGED <<Storage, x, out>>

\* How many bytes are loaded or stored.
Width(op) == CASE op \in {"lb", "lbu", "sb"} -> 1
               [] op \in {"lh", "lhu", "sh"} -> 2
               [] op \in {"lw", "sw"}        -> 4

LoadInto(i) ==
    LET n == Width(i.op) IN
    /\ i.op \in {"lb", "lh", "lw", "lbu", "lhu"}
    /\ Read(Address(Wrap(x[i.rs1] + i.I)), n)
    /\ running' => Retire(i.rd, IF i.op \in {"lb", "lh"} THEN Extended(result', n)
                                ELSE Wrap(Joined(result', n)), pc + 4)
    /\ running' => phase' = "fetch"
    /\ UNCHANGED out

StoreFrom(i) ==
    /\ i.op \in {"sb", "sh", "sw"}
    /\ Write(Address(Wrap(x[i.rs1] + i.S)), Width(i.op), BytesOf(x[i.rs2]))
    /\ running' => pc' = Wrap(pc + 4) /\ phase' = "fetch"
    /\ UNCHANGED <<x, out>>

\* The call named by a7 (x17), with its argument or answer in a0 (x10).
Environment(i) ==
    /\ i.op = "ecall"
    /\ \/ /\ x[17] = 1
          /\ \E c \in Chars : Retire(10, c, pc + 4)
          /\ phase' = "fetch" /\ UNCHANGED out
       \/ /\ x[17] = 2
          /\ out' = Append(out, x[10] % Base) /\ pc' = Wrap(pc + 4)
          /\ phase' = "fetch" /\ UNCHANGED x
       \/ /\ x[17] \in {3, 93}
          /\ phase' = "returned" /\ UNCHANGED <<x, pc, out>>
    /\ UNCHANGED Storage

Execute ==
    /\ phase = "execute" /\ running
    /\ \E i \in LET n == ValueOf(result) IN {j \in Instructions : j.word = n} :
          \/ Compute(i) \/ Upper(i) \/ Jump(i) \/ Branch(i)
          \/ LoadInto(i) \/ StoreFrom(i) \/ Environment(i)

Next == Fetch \/ Execute
=============================================================================
