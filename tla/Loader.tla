-------------------------------- MODULE Loader --------------------------------
(***************************************************************************)
(* A5's main.c and read_exec.c: the arguments of the program and the        *)
(* disassembly file are written into the memory, line by line.              *)
(*                                                                          *)
(* A line of the file is what sscanf makes of it: hexes of a data section,  *)
(* an instruction with the text behind it, the name of an address, or       *)
(* anything else.                                                           *)
(***************************************************************************)
EXTENDS Memory, Words, Sequences

CONSTANTS
    Commands,  \* the command lines: a file, an option, and the arguments from "--" on,
               \* which are strings of bytes without their NUL
    ArgBase    \* 0x1000000 in the code

NoText == "none"   \* the empty string, which assembly_get has for an address without a text

\* A file is a sequence of lines.
Line == [kind : {"data"}, addr : 0..(Smallest + Modulus - 1), hexes : Seq(Byte), ascii : Seq(Byte)]
        \cup [kind : {"insn"}, addr : 0..(Smallest + Modulus - 1), word : Ints, text : STRING]
        \cup [kind : {"entry"}, addr : 0..(Smallest + Modulus - 1), symbol : STRING]
        \cup [kind : {"other"}]

ASSUME LoaderAssumption ==
    /\ Byte = ByteValues /\ Zero = 0 /\ ArgBase \in Nat
    /\ \A c \in Commands : /\ c.option \in {"", "-l", "-s", "wrong"}
                          /\ c.args \in Seq(Seq(Byte \ {0}))
                          /\ c.file \in Seq(Line)

VARIABLES
    file, args, option,
    index,       \* of the next argument
    str_addr,    \* where it goes
    line,        \* the number of the next line
    todo,        \* writes of the current call that are still to be done
    start_addr,  \* of the symbol _start, or -1
    texts,       \* the assembly table (see AssemblyTable): texts by address
    phase        \* "main", "load", "fetch", "execute", "returned"

passing == <<index, str_addr>>
reading == <<line, start_addr, texts>>
loading == <<file, args, option, passing, reading, todo>>

\* An address as the memory takes it apart: its low bits (all 32 in the code).
Address(n) == n % (PageNumbers * PageWords * 4)

\* assembly_set: the texts once an address has got a text.
assembly_set(a, text) ==
    [n \in DOMAIN texts \cup {a} |-> IF n = a THEN text ELSE texts[n]]

-----------------------------------------------------------------------------
(* Writes.                                                                 *)

ByteWrites(a, s) ==
    [k \in DOMAIN s |-> [at |-> a + k - 1, size |-> 1, data |-> [l \in Lanes |-> s[k]]]]
WordWrite(a, n) == [at |-> a, size |-> 4, data |-> BytesOf(n)]

\* pass_args_to_program begins with the number of arguments, if there are any.  After it
\* come pointers to them, and then their strings.
LoaderInit ==
    /\ MemoryInit
    /\ \E c \in Commands : file = c.file /\ args = c.args /\ option = c.option
    /\ index = 1 /\ str_addr = ArgBase + 4 + 4 * Len(args)
    /\ line = 1 /\ start_addr = -1 /\ texts = <<>> /\ phase = "main"
    /\ todo = IF args = <<>> THEN <<>> ELSE <<WordWrite(ArgBase, Len(args))>>

\* Mutation: the next string starts on the NUL of the one before.
PassArgOverlapping ==
    /\ running /\ phase = "main" /\ todo = <<>> /\ index <= Len(args)
    /\ todo' = <<WordWrite(ArgBase + 4 * index, str_addr)>>
               \o ByteWrites(str_addr, Append(args[index], 0))
    /\ str_addr' = str_addr + Len(args[index])
    /\ index' = index + 1
    /\ UNCHANGED <<memory, file, args, option, reading, phase>>

\* The pointer to the next argument, and its string with the NUL.
PassArg ==
    /\ running /\ phase = "main" /\ todo = <<>> /\ index <= Len(args)
    /\ todo' = <<WordWrite(ArgBase + 4 * index, str_addr)>>
               \o ByteWrites(str_addr, Append(args[index], 0))
    /\ str_addr' = str_addr + Len(args[index]) + 1
    /\ index' = index + 1
    /\ UNCHANGED <<memory, file, args, option, reading, phase>>

\* One call of memory_wr_w or memory_wr_b.
Perform ==
    LET w == Head(todo) IN
    /\ running /\ todo # <<>>
    /\ IF w.size = 4 THEN memory_wr_w(Address(w.at), w.data)
       ELSE memory_wr_b(Address(w.at), w.data)
    /\ todo' = Tail(todo)
    /\ UNCHANGED <<file, args, option, passing, reading, phase>>

\* main goes on to read_exec, unless the operands are wrong or a file cannot be
\* opened.
Main ==
    /\ running /\ phase = "main" /\ todo = <<>> /\ index > Len(args)
    /\ \/ option # "wrong" /\ phase' = "load" /\ UNCHANGED memory
       \/ Exit /\ UNCHANGED <<pages, phase>>
    /\ UNCHANGED loading

-----------------------------------------------------------------------------
(* read_exec, one line at a time.                                          *)

\* Mutation: only full blocks count.
FullBlocks(l) == SubSeq(l.hexes, 1, (Len(l.hexes) \div 4) * 4)

\* count_hexes: the ASCII column of a line with less than four blocks, all full,
\* is taken for one more block as far as it looks like hexes.
Hexes(l) == IF Len(l.hexes) \in {4, 8, 12} THEN l.hexes \o l.ascii ELSE l.hexes

\* count_hexes counts up to four blocks of four bytes; the memory has at least as many.
ASSUME DataAssumption ==
    /\ PageNumbers * PageWords >= 4
    /\ \A c \in Commands : \A k \in DOMAIN c.file :
          c.file[k].kind = "data" => Len(Hexes(c.file[k])) <= 16

Reading(kind) ==
    /\ running /\ phase = "load" /\ todo = <<>> /\ line <= Len(file)
    /\ file[line].kind = kind
    /\ line' = line + 1
    /\ UNCHANGED <<file, args, option, passing, phase>>

ReadData ==
    /\ Reading("data")
    /\ todo' = ByteWrites(file[line].addr, Hexes(file[line]))
    /\ UNCHANGED <<memory, start_addr, texts>>

\* Mutation: the text is set even if the line has none.
ReadInsnAnyText ==
    LET l == file[line] IN
    /\ Reading("insn")
    /\ memory_wr_w(Address(l.addr), BytesOf(l.word))
    /\ texts' = IF running' THEN assembly_set(l.addr, l.text) ELSE texts
    /\ UNCHANGED <<todo, start_addr>>

\* An instruction without a text leaves the one that its address has.
ReadInsn ==
    LET l == file[line] IN
    /\ Reading("insn")
    /\ memory_wr_w(Address(l.addr), BytesOf(l.word))
    /\ texts' = IF l.text # NoText /\ running' THEN assembly_set(l.addr, l.text) ELSE texts
    /\ UNCHANGED <<todo, start_addr>>

ReadEntry ==
    /\ Reading("entry")
    /\ start_addr' = IF file[line].symbol = "_start" THEN file[line].addr ELSE start_addr
    /\ UNCHANGED <<memory, todo, texts>>

ReadOther == Reading("other") /\ UNCHANGED <<memory, todo, start_addr, texts>>

NoStart ==
    /\ running /\ phase = "load" /\ todo = <<>> /\ line > Len(file) /\ start_addr = -1
    /\ Exit /\ UNCHANGED <<pages, loading, phase>>

Load == PassArg \/ Perform \/ Main \/ ReadData \/ ReadInsn \/ ReadEntry \/ ReadOther \/ NoStart
=============================================================================
