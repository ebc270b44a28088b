-------------------------------- MODULE Words ---------------------------------
(***************************************************************************)
(* The numbers of the machine of A5: words of four bytes as int32_t and as  *)
(* uint32_t, and the 32 bits of an instruction.                             *)
(***************************************************************************)
EXTENDS Integers

CONSTANTS
    ByteBits,  \* 8 in the code: the bits of a byte
    Base,      \* 256 in the code: how many bytes there are
    ByteAnd, ByteOr, ByteXor  \* the operations of C on two bytes

ByteValues == 0..(Base - 1)
WordBits   == 4 * ByteBits
Bit(n, i) == (n \div 2^i) % 2

ASSUME WordsAssumption ==
    /\ ByteBits \in Nat \ {0} /\ Base = 2^ByteBits /\ Base \in Nat \ {0, 1}
    /\ \A k \in 0..(WordBits - 1) : 2^k \in Nat \ {0}
    /\ {ByteAnd, ByteOr, ByteXor} \subseteq [ByteValues \X ByteValues -> ByteValues]

ASSUME OperationsAssumption ==
    \A b, c \in ByteValues : \A i \in 0..(ByteBits - 1) :
        LET both == Bit(b, i) + Bit(c, i) IN
        /\ Bit(ByteAnd[b, c], i) = both \div 2
        /\ Bit(ByteOr[b, c], i)  = IF both > 0 THEN 1 ELSE 0
        /\ Bit(ByteXor[b, c], i) = both % 2

Modulus  == Base * Base * Base * Base
Smallest == -(Modulus \div 2)
Ints     == Smallest..(Smallest + Modulus - 1)

\* The int of the low bits of n, and the unsigned int with the bits of n.
Wrap(n)     == ((n - Smallest) % Modulus) + Smallest
Unsigned(n) == n % Modulus

\* The bytes of an int, the lowest first.
BytesOf(n) ==
    [l \in 0..3 |-> CASE l = 0 -> n % Base
                      [] l = 1 -> (n \div Base) % Base
                      [] l = 2 -> (n \div (Base * Base)) % Base
                      [] l = 3 -> (n \div (Base * Base * Base)) % Base]

\* The number that the low n bytes of a word are, without and with a sign.
Joined(w, n) == w[0] + Base * (IF n = 1 THEN 0 ELSE
                w[1] + Base * (IF n = 2 THEN 0 ELSE w[2] + Base * w[3]))
Extended(w, n) ==
    IF w[n - 1] < Base \div 2 THEN Joined(w, n)
    ELSE Joined(w, n) - (IF n = 1 THEN Base ELSE Base * Base)

\* The int that a word is.
ValueOf(w) == Wrap(Joined(w, 4))

\* C's division: towards zero, with the rest of the sign of the dividend.
Abs(n) == IF n < 0 THEN -n ELSE n
Quotient(a, b) == IF (a < 0) = (b < 0) THEN Abs(a) \div Abs(b) ELSE -(Abs(a) \div Abs(b))
Remainder(a, b) == a - b * Quotient(a, b)

\* Byte by byte.
Bytewise(f, a, b) == ValueOf([l \in 0..3 |-> f[BytesOf(a)[l], BytesOf(b)[l]]])
And(a, b) == Bytewise(ByteAnd, a, b)
Or(a, b)  == Bytewise(ByteOr, a, b)
Xor(a, b) == Bytewise(ByteXor, a, b)

-----------------------------------------------------------------------------
(* Instructions.                                                           *)

Bits   == 0..31
Word32 == [Bits -> {0, 1}]

\* The number with a sign that 32 bits are.
Nibble(w, k) == w[k] + 2 * (w[k + 1] + 2 * (w[k + 2] + 2 * w[k + 3]))
Number(w) ==
    Nibble(w, 0) + 16 * (Nibble(w, 4) + 16 * (Nibble(w, 8) + 16 * (Nibble(w, 12)
    + 16 * (Nibble(w, 16) + 16 * (Nibble(w, 20) + 16 * (Nibble(w, 24)
    + 16 * (Nibble(w, 28) - 16 * w[31])))))))
=============================================================================
