------------------------------ MODULE ByteMemory ------------------------------
(***************************************************************************)
(* What A5's memory promises: bytes with addresses, of which one, two or    *)
(* four are stored and loaded at a time, the lowest address first.  An      *)
(* access that is not aligned ends the program.                             *)
(***************************************************************************)
EXTENDS Integers

CONSTANTS
    Addresses,  \* of bytes
    Zero        \* the byte 0

VARIABLES
    bytes,   \* the byte at each address
    result,  \* what was loaded last, zero-extended
    running  \* the program has not ended

Unaligned(a, n) == a % n # 0 /\ running' = FALSE /\ UNCHANGED <<bytes, result>>

Store(a, n, d) ==
    /\ a % n = 0
    /\ bytes' = [b \in Addresses |-> IF b \in a..(a + n - 1) THEN d[b - a] ELSE bytes[b]]
    /\ UNCHANGED <<result, running>>

Load(a, n) ==
    /\ a % n = 0
    /\ result' = [i \in 0..3 |-> IF i < n THEN bytes[a + i] ELSE Zero]
    /\ UNCHANGED <<bytes, running>>

Read(a, n)     == Unaligned(a, n) \/ Load(a, n)
Write(a, n, d) == Unaligned(a, n) \/ Store(a, n, d)
=============================================================================
