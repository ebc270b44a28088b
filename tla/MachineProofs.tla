----------------------------- MODULE MachineProofs -----------------------------
(***************************************************************************)
(* For every width of a byte, every layout of the pages, every program and  *)
(* every command line: the state has its type, each instruction that does   *)
(* not deviate is one of RV32IM, the log has the texts of the file, and the *)
(* program finds the bytes of the file and its arguments in the memory.     *)
(***************************************************************************)
EXTENDS Machine, MemoryProofs, WellFoundedInduction

-----------------------------------------------------------------------------
(* Words.                                                                  *)

\* How the number of words, the smallest word and the number of bytes compare.
LEMMA Sizes ==
    /\ Base \in Nat /\ Base >= 2 /\ Base * Base \in Nat /\ Base * Base >= 2 * Base
    /\ Base * Base * Base \in Nat /\ Base * Base * Base > 0
    /\ Modulus \in Nat /\ Modulus >= 2 * (Base * Base) /\ Modulus >= 16
    /\ Smallest \in Int /\ 2 * Smallest <= 0 /\ 2 * Smallest >= -Modulus /\ 2 * Smallest <= 1 - Modulus
<1>1. Base \in Nat /\ Base >= 2
  BY WordsAssumption DEF WordsAssumption
<1> DEFINE p == Base * Base
           q == p * Base
<1>2. p \in Nat /\ p >= 2 * Base /\ p >= 4
  BY <1>1
<1> HIDE DEF p
<1>3. q \in Nat /\ q >= 2 * p /\ q > 0
  BY <1>1, <1>2 DEF q
<1> HIDE DEF q
<1>4. q * Base \in Nat /\ q * Base >= 2 * q
  BY <1>1, <1>3
<1>5. Modulus = q * Base
  BY DEF Modulus, q, p
<1>6. Modulus \in Nat /\ Modulus >= 2 * p /\ Modulus >= 16
  BY <1>2, <1>3, <1>4, <1>5
<1>7. Smallest \in Int /\ 2 * Smallest <= 0 /\ 2 * Smallest >= -Modulus /\ 2 * Smallest <= 1 - Modulus
  BY <1>6 DEF Smallest
<1> QED BY <1>1, <1>2, <1>3, <1>6, <1>7 DEF p, q

\* The numbers of one and of two bytes are words.
LEMMA IntsAre == /\ Ints \subseteq Int /\ -1 \in Ints /\ 0 \in Ints /\ 1 \in Ints
                 /\ \A n \in -Base..(Base * Base - 1) : n \in Ints
                 /\ \A n \in -(Base * Base)..(Base * Base - 1) : n \in Ints
BY Sizes DEF Ints

\* What wraps around is a word.
LEMMA WrapType == ASSUME NEW n \in Int PROVE Wrap(n) \in Ints
<1> DEFINE m == n - Smallest
<1>1. m \in Int /\ Modulus \in Nat /\ Modulus > 0 /\ Smallest \in Int
  BY Sizes
<1> HIDE DEF m
<1>2. m % Modulus \in 0..(Modulus - 1)
  BY <1>1
<1> QED BY <1>1, <1>2 DEF Wrap, Ints, m

\* A word does not wrap around.
LEMMA WrapSame == ASSUME NEW n \in Ints PROVE Wrap(n) = n
<1> DEFINE m == n - Smallest
<1>1. n \in Int /\ m \in 0..(Modulus - 1) /\ Modulus \in Nat /\ Modulus > 0 /\ Smallest \in Int
  BY Sizes DEF Ints
<1> HIDE DEF m
<1>2. m % Modulus = m
  BY <1>1
<1>3. m + Smallest = n
  BY <1>1 DEF m
<1> QED BY <1>1, <1>2, <1>3 DEF Wrap, m

\* A word read without its sign is a number, the same one if it has none.
LEMMA UnsignedType == ASSUME NEW n \in Int
                      PROVE  Unsigned(n) \in Nat /\ (n \in Ints /\ n >= 0 => Unsigned(n) = n)
<1>1. Modulus \in Nat /\ Modulus > 0 /\ Smallest \in Int /\ Smallest <= 0
  BY Sizes
<1>2. Unsigned(n) \in Nat
  BY <1>1 DEF Unsigned
<1>3. ASSUME n \in Ints, n >= 0 PROVE Unsigned(n) = n
  <2>1. n \in 0..(Modulus - 1)
    BY <1>1, <1>3 DEF Ints
  <2> QED BY <1>1, <2>1 DEF Unsigned
<1> QED BY <1>2, <1>3

\* Only 0 reads as 0 without its sign: a divisor does not become 0.
LEMMA UnsignedZero == ASSUME NEW n \in Ints, n # 0 PROVE Unsigned(n) # 0
<1>1. Modulus \in Nat /\ Modulus > 0 /\ Smallest \in Int /\ Smallest <= 0 /\ Smallest > -Modulus
  BY Sizes
<1>2. n \in Int /\ n > -Modulus /\ n < Modulus
  BY <1>1 DEF Ints
<1>3. CASE n > 0
  BY <1>1, <1>2, <1>3 DEF Unsigned
<1>4. CASE n < 0
  <2>1. n % Modulus = n + Modulus
    BY <1>1, <1>2, <1>4
  <2> QED BY <1>1, <1>2, <2>1 DEF Unsigned
<1> QED BY <1>2, <1>3, <1>4

\* A shift to the right leaves a word.
LEMMA Shifted == ASSUME NEW n \in Ints, NEW p \in Nat \ {0} PROVE n \div p \in Ints
<1>1. n \in Int /\ Smallest \in Int /\ Modulus \in Nat /\ Smallest <= -1 /\ Smallest + Modulus - 1 >= 0
      /\ n >= Smallest /\ n <= Smallest + Modulus - 1
  BY Sizes DEF Ints
<1>2. CASE n >= 0
  <2>1. n \div p \in Nat /\ n \div p <= n
    BY <1>1, <1>2
  <2> QED BY <1>1, <2>1 DEF Ints
<1>3. CASE n < 0
  <2>1. n \div p \in Int /\ n \div p >= n /\ n \div p <= -1
    BY <1>1, <1>3
  <2> QED BY <1>1, <2>1 DEF Ints
<1> QED BY <1>1, <1>2, <1>3

\* The amount of a shift is less than the width of a word.
LEMMA PowerType == ASSUME NEW n \in Int PROVE n % WordBits \in Nat /\ 2^(n % WordBits) \in Nat \ {0}
<1>1. WordBits \in Nat \ {0}
  BY WordsAssumption DEF WordsAssumption, WordBits
<1>2. n % WordBits \in 0..(WordBits - 1)
  BY <1>1
<1> QED BY <1>1, <1>2, WordsAssumption DEF WordsAssumption

\* A word has four bytes.
LEMMA BytesType == ASSUME NEW n \in Int, Byte = ByteValues PROVE BytesOf(n) \in Word
<1>1. /\ Base \in Nat \ {0} /\ Base * Base \in Nat \ {0} /\ Base * Base * Base \in Nat \ {0}
  BY Sizes
<1>2. \A k \in Int : k % Base \in 0..(Base - 1)
  BY <1>1
<1>3. /\ n \div Base \in Int /\ n \div (Base * Base) \in Int /\ n \div (Base * Base * Base) \in Int
  <2> DEFINE p == Base * Base
             q == Base * Base * Base
  <2>1. p \in Nat \ {0} /\ q \in Nat \ {0}
    BY <1>1
  <2> HIDE DEF p, q
  <2>2. n \div Base \in Int /\ n \div p \in Int /\ n \div q \in Int
    BY <1>1, <2>1
  <2> QED BY <2>2 DEF p, q
<1> QED BY <1>2, <1>3 DEF BytesOf, Word, Lanes, ByteValues

\* Two bytes and one byte are numbers of their sizes, with a sign and without.
LEMMA JoinedType == ASSUME NEW w \in Word, Byte = ByteValues
    PROVE  /\ Joined(w, 1) \in 0..(Base - 1)
           /\ Joined(w, 2) \in 0..(Base * Base - 1)
           /\ Joined(w, 4) \in Int
           /\ w[0] \in 0..(Base - 1) /\ w[1] \in 0..(Base - 1)
<1>1. /\ w[0] \in 0..(Base - 1) /\ w[1] \in 0..(Base - 1)
      /\ w[2] \in 0..(Base - 1) /\ w[3] \in 0..(Base - 1) /\ Base \in Nat
  BY Sizes DEF Word, Lanes, ByteValues
<1>2. Joined(w, 1) \in 0..(Base - 1)
  BY <1>1 DEF Joined
<1>3. Joined(w, 2) \in 0..(Base * Base - 1)
  <2>1. Joined(w, 2) = w[0] + Base * w[1]
    BY <1>1 DEF Joined
  <2>2. \A a, b, c \in Nat : a <= c - 1 /\ b <= c - 1 => a + c * b \in 0..(c * c - 1)
    OBVIOUS
  <2> QED BY <1>1, <2>1, <2>2
<1>4. Joined(w, 4) \in Int
  BY <1>1 DEF Joined
<1> QED BY <1>1, <1>2, <1>3, <1>4

\* Four bytes are a word.
LEMMA ValueType == ASSUME NEW w \in Word, Byte = ByteValues
    PROVE  ValueOf(w) \in Ints /\ Extended(w, 1) \in Ints /\ Extended(w, 2) \in Ints
<1>1. ValueOf(w) \in Ints
  BY JoinedType, WrapType DEF ValueOf
<1>2. /\ Joined(w, 1) \in 0..(Base - 1) /\ Joined(w, 2) \in 0..(Base * Base - 1)
      /\ Base \in Nat /\ Base * Base \in Nat /\ Base * Base >= Base
  BY JoinedType, Sizes
<1>3. Extended(w, 1) \in -Base..(Base * Base - 1)
  BY <1>2 DEF Extended
<1>4. Extended(w, 2) \in -(Base * Base)..(Base * Base - 1)
  BY <1>2 DEF Extended
<1> QED BY <1>1, <1>3, <1>4, IntsAre

\* An operation on the bytes of two words gives a word.
LEMMA BytewiseType ==
    ASSUME NEW a \in Int, NEW b \in Int, Byte = ByteValues
    PROVE  And(a, b) \in Ints /\ Or(a, b) \in Ints /\ Xor(a, b) \in Ints
<1>1. BytesOf(a) \in Word /\ BytesOf(b) \in Word
  BY BytesType
<1>2. ASSUME NEW f \in [ByteValues \X ByteValues -> ByteValues] PROVE Bytewise(f, a, b) \in Ints
  <2>1. \A g, h : g \in Word /\ h \in Word => [l \in 0..3 |-> f[g[l], h[l]]] \in Word
    <3> SUFFICES ASSUME NEW g \in Word, NEW h \in Word PROVE [l \in 0..3 |-> f[g[l], h[l]]] \in Word
      OBVIOUS
    <3>1. \A l \in 0..3 : g[l] \in ByteValues /\ h[l] \in ByteValues
      BY DEF Word, Lanes
    <3>2. \A l \in 0..3 : f[g[l], h[l]] \in ByteValues
      BY <3>1
    <3> QED BY <3>2 DEF Word, Lanes
  <2>2. [l \in 0..3 |-> f[BytesOf(a)[l], BytesOf(b)[l]]] \in Word
    BY <1>1, <2>1
  <2> QED BY <2>2, ValueType DEF Bytewise
<1>3. /\ ByteAnd \in [ByteValues \X ByteValues -> ByteValues]
      /\ ByteOr \in [ByteValues \X ByteValues -> ByteValues]
      /\ ByteXor \in [ByteValues \X ByteValues -> ByteValues]
  BY WordsAssumption DEF WordsAssumption
<1> QED BY <1>2, <1>3 DEF And, Or, Xor

\* The quotient towards zero and its remainder are integers.
LEMMA DivisionType == ASSUME NEW a \in Int, NEW b \in Int, b # 0
                      PROVE  Quotient(a, b) \in Int /\ Remainder(a, b) \in Int
<1>1. Abs(a) \in Nat /\ Abs(b) \in Nat \ {0}
  BY DEF Abs
<1>2. Abs(a) \div Abs(b) \in Int
  BY <1>1
<1>3. Quotient(a, b) \in Int
  BY <1>2 DEF Quotient
<1> QED BY <1>3 DEF Remainder

-----------------------------------------------------------------------------
(* Instructions.                                                           *)

\* Four bits of an encoding are a nibble.
LEMMA NibbleType == ASSUME NEW w \in Word32, NEW k \in 0..28 PROVE Nibble(w, k) \in 0..15
<1>1. w[k] \in 0..1 /\ w[k + 1] \in 0..1 /\ w[k + 2] \in 0..1 /\ w[k + 3] \in 0..1
  BY DEF Word32, Bits
<1> QED BY <1>1 DEF Nibble

\* An encoding is a number.
LEMMA NumberType == ASSUME NEW w \in Word32 PROVE Number(w) \in Int
<1>1. /\ Nibble(w, 0) \in Int /\ Nibble(w, 4) \in Int /\ Nibble(w, 8) \in Int
      /\ Nibble(w, 12) \in Int /\ Nibble(w, 16) \in Int /\ Nibble(w, 20) \in Int
      /\ Nibble(w, 24) \in Int /\ Nibble(w, 28) \in Int /\ w[31] \in Int
  <2>1. w[31] \in Int
    BY DEF Word32, Bits
  <2> QED BY <2>1, NibbleType
<1> DEFINE h == Nibble(w, 28) - 16 * w[31]
           g == Nibble(w, 24) + 16 * h
           f == Nibble(w, 20) + 16 * g
           e == Nibble(w, 16) + 16 * f
           d == Nibble(w, 12) + 16 * e
           c == Nibble(w, 8) + 16 * d
           b == Nibble(w, 4) + 16 * c
<1>2. Number(w) = Nibble(w, 0) + 16 * b
  BY DEF Number
<1>3. h \in Int
  BY <1>1
<1> HIDE DEF h
<1>4. g \in Int /\ f \in Int /\ e \in Int /\ d \in Int
  BY <1>1, <1>3
<1> HIDE DEF d
<1>5. c \in Int /\ b \in Int
  BY <1>1, <1>4
<1> HIDE DEF b
<1> QED BY <1>1, <1>2, <1>5

\* A number of the low eight bits.
LEMMA SmallNumber ==
    ASSUME NEW w \in Word32, \A i \in 8..31 : w[i] = 0
    PROVE  Number(w) = Nibble(w, 0) + 16 * Nibble(w, 4)
<1>1. /\ Nibble(w, 8) = 0 /\ Nibble(w, 12) = 0 /\ Nibble(w, 16) = 0 /\ Nibble(w, 20) = 0
      /\ Nibble(w, 24) = 0 /\ Nibble(w, 28) = 0 /\ w[31] = 0
  BY DEF Nibble
<1>2. Nibble(w, 0) \in Int /\ Nibble(w, 4) \in Int
  BY NibbleType
<1> QED BY <1>1, <1>2 DEF Number

\* The functions of decode_helpers.c take the bits of the formats.
LEMMA FieldsTrue ==
    ASSUME NEW w \in Word32
    PROVE  /\ get_opcode(w) = Opcode(w) /\ get_funct3(w) = Funct3(w)
           /\ get_funct7(w) = Funct7(w) /\ get_rd(w) = Rd(w)
           /\ get_rs2(w) = Rs2(w) /\ get_shamt(w) = Rs2(w)
<1>1. Right(Left(w, 25), 25) = [i \in Bits |-> IF i <= 6 - 0 THEN w[0 + i] ELSE 0]
  BY DEF Right, Left, Bits, Word32
<1>2. Mask(Right(w, 12), 0..2) = [i \in Bits |-> IF i <= 14 - 12 THEN w[12 + i] ELSE 0]
  BY DEF Right, Mask, Bits, Word32
<1>3. Right(w, 25) = [i \in Bits |-> IF i <= 31 - 25 THEN w[25 + i] ELSE 0]
  BY DEF Right, Bits, Word32
<1>4. Mask(Right(w, 7), 0..4) = [i \in Bits |-> IF i <= 11 - 7 THEN w[7 + i] ELSE 0]
  BY DEF Right, Mask, Bits, Word32
<1>5. Mask(Right(w, 20), 0..4) = [i \in Bits |-> IF i <= 24 - 20 THEN w[20 + i] ELSE 0]
  BY DEF Right, Mask, Bits, Word32
<1>6. Right(Mask(w, 20..24), 20) = [i \in Bits |-> IF i <= 24 - 20 THEN w[20 + i] ELSE 0]
  BY DEF Right, Mask, Bits, Word32
<1> QED BY <1>1, <1>2, <1>3, <1>4, <1>5, <1>6
        DEF get_opcode, get_funct3, get_funct7, get_rd, get_rs2, get_shamt,
            Opcode, Funct3, Funct7, Rd, Rs2, Field

\* The immediates are those of the formats.
LEMMA ImmediatesTrue ==
    ASSUME NEW w \in Word32
    PROVE  /\ get_imm_I(w) = ImmI(w) /\ get_imm_S(w) = ImmS(w) /\ get_imm_B(w) = ImmB(w)
           /\ get_imm_U(w) = ImmU(w) /\ get_imm_J(w) = ImmJ(w)
<1>1. get_imm_I(w) = ImmI(w)
  <2>1. Arith(w, 20) = [i \in Bits |-> IF i <= 10 THEN w[i + 20] ELSE w[31]]
    BY DEF Arith, Bits, Word32
  <2> QED BY <2>1 DEF get_imm_I, ImmI
<1>2. get_imm_S(w) = ImmS(w)
  <2>1. Either(Arith(Mask(w, 25..31), 20), Mask(Right(w, 7), 0..4))
        = [i \in Bits |-> CASE i <= 4 -> w[i + 7]
                            [] i \in 5..10 -> w[i + 20]
                            [] i >= 11 -> w[31]]
    BY DEF Either, Arith, Mask, Right, Bits, Word32
  <2> QED BY <2>1 DEF get_imm_S, ImmS
<1>3. get_imm_B(w) = ImmB(w)
  <2>1. Either(Either(Either(Arith(Mask(w, {31}), 19), Right(Mask(w, 25..30), 20)),
                         Right(Mask(w, 8..11), 7)),
                  Left(Mask(w, {7}), 4))
        = [i \in Bits |-> CASE i = 0 -> 0
                                    [] i \in 1..4 -> w[i + 7]
                                    [] i \in 5..10 -> w[i + 20]
                                    [] i = 11 -> w[7]
                                    [] i >= 12 -> w[31]]
    BY DEF Either, Arith, Mask, Right, Left, Bits, Word32
  <2> QED BY <2>1 DEF get_imm_B, ImmB
<1>4. get_imm_U(w) = ImmU(w)
  <2>1. Left(Arith(w, 12), 12) = [i \in Bits |-> IF i >= 12 THEN w[i] ELSE 0]
    BY DEF Arith, Left, Bits, Word32
  <2> QED BY <2>1 DEF get_imm_U, ImmU
<1>5. get_imm_J(w) = ImmJ(w)
  <2>1. Either(Either(Either(Arith(Mask(w, {31}), 11), Right(Mask(w, 21..30), 20)),
                         Right(Mask(w, {20}), 9)),
                  Mask(w, 12..19))
        = [i \in Bits |-> CASE i = 0 -> 0
                                    [] i \in 1..10 -> w[i + 20]
                                    [] i = 11 -> w[20]
                                    [] i \in 12..19 -> w[i]
                                    [] i >= 20 -> w[31]]
    BY DEF Either, Arith, Mask, Right, Bits, Word32
  <2> QED BY <2>1 DEF get_imm_J, ImmJ
<1> QED BY <1>1, <1>2, <1>3, <1>4, <1>5

\* The fields have their widths.
LEMMA FieldType ==
    ASSUME NEW w \in Word32
    PROVE  /\ Funct3(w) \in 0..7 /\ Rd(w) \in 0..31 /\ Rs1(w) \in 0..31 /\ Rs2(w) \in 0..31
           /\ get_rs1(w) = Rs1(w) % 16 /\ get_rs1(w) \in 0..15
<1>1. \A k \in Bits : w[k] \in 0..1
  BY DEF Word32
<1>2. Funct3(w) \in 0..7
  <2> DEFINE v == [i \in Bits |-> IF i <= 14 - 12 THEN w[12 + i] ELSE 0]
  <2>1. v \in Word32 /\ (\A i \in 8..31 : v[i] = 0) /\ Funct3(w) = Number(v)
    BY DEF Word32, Bits, Funct3, Field
  <2>2. /\ v[0] \in 0..1 /\ v[1] \in 0..1 /\ v[2] \in 0..1 /\ v[3] = 0
        /\ v[4] = 0 /\ v[5] = 0 /\ v[6] = 0 /\ v[7] = 0
    BY <1>1 DEF Bits
  <2> HIDE DEF v
  <2>3. Funct3(w) = Nibble(v, 0) + 16 * Nibble(v, 4)
    BY <2>1, SmallNumber
  <2> QED BY <2>2, <2>3 DEF Nibble
<1>3. ASSUME NEW lo \in {7, 15, 20}
      PROVE  LET v == [i \in Bits |-> IF i <= (lo + 4) - lo THEN w[lo + i] ELSE 0] IN
             /\ Field(w, lo + 4, lo) = Nibble(v, 0) + 16 * v[4]
             /\ v[4] \in 0..1 /\ Nibble(v, 0) \in 0..15
             /\ Field(w, lo + 4, lo) \in 0..31
  <2> DEFINE v == [i \in Bits |-> IF i <= (lo + 4) - lo THEN w[lo + i] ELSE 0]
  <2>0. v \in Word32 /\ (\A i \in 8..31 : v[i] = 0) /\ Field(w, lo + 4, lo) = Number(v)
    BY DEF Word32, Bits, Field
  <2>2. /\ v[4] \in 0..1 /\ v[5] = 0 /\ v[6] = 0 /\ v[7] = 0
    BY <1>1 DEF Bits
  <2> HIDE DEF v
  <2>1. Field(w, lo + 4, lo) = Nibble(v, 0) + 16 * Nibble(v, 4)
    BY <2>0, SmallNumber
  <2>3. Nibble(v, 0) \in 0..15
    BY <2>0, NibbleType
  <2>4. Nibble(v, 4) = v[4]
    BY <2>2 DEF Nibble
  <2> QED BY <2>1, <2>2, <2>3, <2>4 DEF v
<1>4. Rd(w) \in 0..31 /\ Rs1(w) \in 0..31 /\ Rs2(w) \in 0..31
  BY <1>3 DEF Rd, Rs1, Rs2
<1>5. get_rs1(w) = Rs1(w) % 16 /\ get_rs1(w) \in 0..15
  <2> DEFINE v == [i \in Bits |-> IF i <= (15 + 4) - 15 THEN w[15 + i] ELSE 0]
             u == Mask(Right(w, 15), 0..3)
  <2>1. Rs1(w) = Nibble(v, 0) + 16 * v[4] /\ v[4] \in 0..1 /\ Nibble(v, 0) \in 0..15
    BY <1>3 DEF Rs1
  <2>2. u \in Word32 /\ \A i \in 4..31 : u[i] = 0
    BY DEF Mask, Right, Word32, Bits
  <2>3. \A i \in 0..3 : u[i] = v[i]
    BY DEF Mask, Right, Word32, Bits
  <2> HIDE DEF u, v
  <2>4. Number(u) = Nibble(u, 0) + 16 * Nibble(u, 4)
    BY <2>2, SmallNumber
  <2>5. Nibble(u, 4) = 0 /\ Nibble(u, 0) = Nibble(v, 0)
    BY <2>2, <2>3 DEF Nibble
  <2>6. get_rs1(w) = Nibble(v, 0)
    BY <2>1, <2>4, <2>5 DEF get_rs1, u
  <2> QED BY <2>1, <2>6
<1> QED BY <1>2, <1>4, <1>5

\* The switches find the instruction that an encoding means.
LEMMA OperationTrue ==
    ASSUME NEW w \in Word32, NEW op \in Names(w)
    PROVE  Operation(w) = op
<1> DEFINE o == Opcode(w)
           f3 == Funct3(w)
           f7 == Funct7(w)
<1>1. get_opcode(w) = o /\ get_funct3(w) = f3 /\ get_funct7(w) = f7
  BY FieldsTrue
<1>2. CASE op \in DOMAIN ByOpcode /\ ByOpcode[op] = o
  BY <1>1, <1>2 DEF ByOpcode, Operation
<1>3. CASE op \in DOMAIN ByFunct3 /\ ByFunct3[op] = <<o, f3>>
  BY <1>1, <1>3 DEF ByFunct3, Operation, Branches, Loads, Stores, Immediates
<1>4. CASE op \in DOMAIN ByFunct7 /\ ByFunct7[op] = <<o, f3, f7>>
  BY <1>1, <1>4 DEF ByFunct7, Operation, Immediates, Registers, Extension
<1>5. CASE op = "ecall" /\ {i \in Bits : w[i] = 1} = {0, 1, 4, 5, 6}
  <2> DEFINE v == [i \in Bits |-> IF i <= 6 - 0 THEN w[0 + i] ELSE 0]
  <2>1. \A i \in Bits : w[i] = IF i \in {0, 1, 4, 5, 6} THEN 1 ELSE 0
    BY <1>5 DEF Word32
  <2>2. v[0] = 1 /\ v[1] = 1 /\ v[2] = 0 /\ v[3] = 0 /\ v[4] = 1 /\ v[5] = 1 /\ v[6] = 1 /\ v[7] = 0
    BY <2>1 DEF Bits
  <2>3. v \in Word32 /\ (\A i \in 8..31 : v[i] = 0) /\ o = Number(v)
    BY DEF Word32, Bits, Opcode, Field
  <2> HIDE DEF v
  <2>4. o = 115
    BY <2>2, <2>3, SmallNumber DEF Nibble
  <2> QED BY <1>1, <1>5, <2>4 DEF Operation
<1> QED BY <1>2, <1>3, <1>4, <1>5 DEF Names

-----------------------------------------------------------------------------
(* Types.                                                                  *)

WriteCall == [at : Int, size : {1, 4}, data : Word]

LoaderTypeOK ==
    /\ file \in Seq(Line) /\ line \in 1..(Len(file) + 1) /\ start_addr \in Int
    /\ args \in Seq(Seq(Byte \ {0})) /\ index \in 1..(Len(args) + 1) /\ str_addr \in Nat
    /\ todo \in Seq(WriteCall)

TextsOK == \A n \in DOMAIN texts : n \in Ints /\ texts[n] # NoText

ProcessorTypeOK ==
    /\ rg \in [0..31 -> Ints] /\ PC \in Ints
    /\ inst_cnt \in 0..MaxInstructions
    /\ instr # NoText
    /\ console \in Seq(Byte)

PhaseOK == phase \in {"main", "load", "fetch", "execute", "returned"}

\* The type invariant, by the part of the program that has the state.
LEMMA TypeParts == TypeOK <=> MemoryTypeOK /\ LoaderTypeOK /\ TextsOK /\ ProcessorTypeOK /\ PhaseOK
BY DEF TypeOK, LoaderTypeOK, TextsOK, ProcessorTypeOK, PhaseOK, WriteCall

\* The bytes of the memory are the bytes of the words.
LEMMA Constants == Byte = ByteValues /\ Zero = 0 /\ 0 \in Byte /\ ArgBase \in Nat
BY LoaderAssumption, MemoryAssumption DEF LoaderAssumption, MemoryAssumption

\* Whatever address a word is, it has a place in the memory.
LEMMA AddressType == ASSUME NEW n \in Int PROVE Address(n) \in Addresses
<1> DEFINE t == PageNumbers * PageWords * 4
<1>1. t \in Nat \ {0}
  BY MemoryAssumption DEF MemoryAssumption
<1> HIDE DEF t
<1>2. n % t \in 0..(t - 1)
  BY <1>1
<1> QED BY <1>2 DEF Address, Addresses, t

\* A call of the memory leaves it of its type.
LEMMA MemoryKept ==
    ASSUME MemoryTypeOK, NEW a \in Addresses
    PROVE  /\ memory_rd_w(a) => MemoryTypeOK'
           /\ memory_rd_h(a) => MemoryTypeOK'
           /\ memory_rd_b(a) => MemoryTypeOK'
           /\ \A d \in Word : /\ memory_wr_w(a, d) => MemoryTypeOK'
                              /\ memory_wr_h(a, d) => MemoryTypeOK'
                              /\ memory_wr_b(a, d) => MemoryTypeOK'
<1>1. TypesKept => MemoryTypeOK'
  BY DEF TypesKept, MemoryTypeOK, PagesOK
<1> QED BY <1>1, MemoryAssumption, MemoryImplements

\* So does a step that does not call it.
LEMMA MemorySame == ASSUME MemoryTypeOK, UNCHANGED memory PROVE MemoryTypeOK'
BY DEF MemoryTypeOK, memory

\* So does the exit, which gives no page back.
LEMMA MemoryExit == ASSUME MemoryTypeOK, Exit, UNCHANGED pages PROVE MemoryTypeOK'
BY DEF MemoryTypeOK, Exit

\* A word is written by a call that memory.c has.
LEMMA WordWriteType == ASSUME NEW a \in Int, NEW n \in Int PROVE WordWrite(a, n) \in WriteCall
BY Constants, BytesType DEF WordWrite, WriteCall

\* So is each byte of a string.
LEMMA ByteWritesType == ASSUME NEW a \in Int, NEW s \in Seq(Byte) PROVE ByteWrites(a, s) \in Seq(WriteCall)
<1>1. DOMAIN s = 1..Len(s) /\ Len(s) \in Nat /\ \A k \in 1..Len(s) : s[k] \in Byte
  OBVIOUS
<1>2. \A k \in 1..Len(s) : [at |-> a + k - 1, size |-> 1, data |-> [l \in Lanes |-> s[k]]] \in WriteCall
  BY <1>1 DEF WriteCall, Word
<1> QED BY <1>1, <1>2 DEF ByteWrites

\* A line with a text keeps the table of its type.
LEMMA TextsSet == ASSUME TextsOK, NEW a \in Ints, NEW t, t # NoText, texts' = assembly_set(a, t)
                  PROVE  TextsOK'
BY DEF TextsOK, assembly_set

\* The first state has its type.
LEMMA TypeInit == Init => TypeOK
<1> SUFFICES ASSUME Init PROVE TypeOK
  OBVIOUS
<1>1. MemoryTypeOK
  BY MemoryAssumption, FlatAtFirst DEF Init, LoaderInit
<1>2. LoaderTypeOK /\ TextsOK /\ PhaseOK
  <2>1. PICK c \in Commands : file = c.file /\ args = c.args
    BY DEF Init, LoaderInit
  <2>2. file \in Seq(Line) /\ args \in Seq(Seq(Byte \ {0})) /\ ArgBase \in Nat
    BY <2>1, LoaderAssumption DEF LoaderAssumption
  <2>3. Len(args) \in Nat /\ Len(file) \in Nat
    BY <2>2
  <2>4. todo \in Seq(WriteCall)
    <3>1. WordWrite(ArgBase, Len(args)) \in WriteCall
      BY <2>2, <2>3, WordWriteType
    <3>2. todo = <<>> \/ todo = <<WordWrite(ArgBase, Len(args))>>
      BY DEF Init, LoaderInit
    <3>3. \A S : <<>> \in Seq(S) /\ \A x \in S : <<x>> \in Seq(S)
      OBVIOUS
    <3> QED BY <3>1, <3>2, <3>3
  <2>5. index = 1 /\ str_addr = ArgBase + 4 + 4 * Len(args) /\ line = 1 /\ start_addr = -1
    BY DEF Init, LoaderInit
  <2>6. /\ line \in 1..(Len(file) + 1) /\ start_addr \in Int
        /\ index \in 1..(Len(args) + 1) /\ str_addr \in Nat
    BY <2>2, <2>3, <2>5
  <2>7. TextsOK /\ PhaseOK
    BY DEF Init, LoaderInit, TextsOK, PhaseOK
  <2> QED BY <2>2, <2>4, <2>6, <2>7 DEF LoaderTypeOK
<1>3. ProcessorTypeOK
  <2>1. 0 \in Ints /\ MaxInstructions \in Nat /\ Garbage # NoText
    BY IntsAre, SimulatorAssumption DEF SimulatorAssumption
  <2> QED BY <2>1 DEF Init, ProcessorTypeOK
<1> QED BY <1>1, <1>2, <1>3, TypeParts

\* The parts of the state that a step does not touch keep their types.
LEMMA PartsKept ==
    /\ LoaderTypeOK /\ UNCHANGED loading => LoaderTypeOK'
    /\ TextsOK /\ UNCHANGED texts => TextsOK'
    /\ ProcessorTypeOK /\ UNCHANGED <<rg, PC, inst_cnt, instr, console>> => ProcessorTypeOK'
    /\ PhaseOK /\ UNCHANGED phase => PhaseOK'
BY DEF LoaderTypeOK, loading, passing, reading, TextsOK, ProcessorTypeOK, PhaseOK

\* main, pass_args_to_program and read_exec keep the types.
LEMMA LoadTypes == ASSUME TypeOK, Load PROVE MemoryTypeOK' /\ LoaderTypeOK' /\ TextsOK' /\ PhaseOK'
<1>1. MemoryTypeOK /\ LoaderTypeOK /\ TextsOK /\ PhaseOK
  BY TypeParts
<1>2. /\ file \in Seq(Line) /\ line \in 1..(Len(file) + 1) /\ start_addr \in Int
      /\ args \in Seq(Seq(Byte \ {0})) /\ index \in 1..(Len(args) + 1) /\ str_addr \in Nat
      /\ todo \in Seq(WriteCall) /\ Len(file) \in Nat /\ Len(args) \in Nat
  BY <1>1 DEF LoaderTypeOK
<1>3. ASSUME PassArg PROVE MemoryTypeOK' /\ LoaderTypeOK' /\ TextsOK' /\ PhaseOK'
  <2>1. /\ index <= Len(args)
        /\ todo' = <<WordWrite(ArgBase + 4 * index, str_addr)>>
                   \o ByteWrites(str_addr, Append(args[index], 0))
        /\ str_addr' = str_addr + Len(args[index]) + 1
        /\ index' = index + 1
        /\ UNCHANGED <<memory, file, args, option, line, start_addr, texts, phase>>
    BY <1>3 DEF PassArg, reading
  <2>2. ArgBase \in Nat /\ index \in Nat /\ index \in 1..Len(args) /\ 0 \in Byte
    BY <1>2, <2>1, Constants
  <2>3. args[index] \in Seq(Byte \ {0}) /\ args[index] \in Seq(Byte)
    BY <1>2, <2>2
  <2>4. Append(args[index], 0) \in Seq(Byte) /\ Len(args[index]) \in Nat
    BY <2>2, <2>3
  <2>5. todo' \in Seq(WriteCall)
    <3>1. WordWrite(ArgBase + 4 * index, str_addr) \in WriteCall
      BY <1>2, <2>2, WordWriteType
    <3>2. ByteWrites(str_addr, Append(args[index], 0)) \in Seq(WriteCall)
      <4>1. str_addr \in Int
        BY <1>2
      <4> QED BY <2>4, <4>1, ByteWritesType
    <3>3. \A S : \A y \in S, t \in Seq(S) : <<y>> \o t \in Seq(S)
      OBVIOUS
    <3> QED BY <2>1, <3>1, <3>2, <3>3
  <2>6. str_addr' \in Nat /\ index' \in 1..(Len(args) + 1)
    BY <1>2, <2>1, <2>2, <2>4
  <2>7. MemoryTypeOK' /\ TextsOK' /\ PhaseOK'
    BY <1>1, <2>1, MemorySame DEF TextsOK, PhaseOK
  <2> QED BY <1>2, <2>1, <2>5, <2>6, <2>7 DEF LoaderTypeOK
<1>4. ASSUME Perform PROVE MemoryTypeOK' /\ LoaderTypeOK' /\ TextsOK' /\ PhaseOK'
  <2> DEFINE w == Head(todo)
  <2>1. w \in WriteCall /\ Tail(todo) \in Seq(WriteCall)
    <3>1. \A S : \A s \in Seq(S) : s # <<>> => Head(s) \in S /\ Tail(s) \in Seq(S)
      OBVIOUS
    <3> QED BY <1>2, <1>4, <3>1 DEF Perform
  <2>2. /\ w.size = 4 => memory_wr_w(Address(w.at), w.data)
        /\ w.size # 4 => memory_wr_b(Address(w.at), w.data)
        /\ todo' = Tail(todo)
        /\ UNCHANGED <<file, args, option, index, str_addr, line, start_addr, texts, phase>>
    BY <1>4 DEF Perform, passing, reading
  <2> HIDE DEF w
  <2>3. Address(w.at) \in Addresses /\ w.data \in Word
    BY <2>1, AddressType DEF WriteCall
  <2>4. MemoryTypeOK'
    BY <1>1, <2>2, <2>3, MemoryKept
  <2> QED BY <1>1, <1>2, <2>1, <2>2, <2>4 DEF LoaderTypeOK, TextsOK, PhaseOK
<1>5. ASSUME Main PROVE MemoryTypeOK' /\ LoaderTypeOK' /\ TextsOK' /\ PhaseOK'
  <2>1. UNCHANGED loading /\ UNCHANGED texts
    BY <1>5 DEF Main, loading, reading
  <2>2. phase' \in {"load", phase} /\ (UNCHANGED memory \/ (Exit /\ UNCHANGED pages))
    BY <1>5 DEF Main
  <2>3. MemoryTypeOK' /\ PhaseOK'
    BY <1>1, <2>2, MemorySame, MemoryExit DEF PhaseOK
  <2> QED BY <1>1, <2>1, <2>3, PartsKept
<1>6. ASSUME NEW kind, Reading(kind)
      PROVE  /\ line \in 1..Len(file) /\ file[line].kind = kind /\ line' \in 1..(Len(file) + 1)
             /\ UNCHANGED <<file, args, option, index, str_addr, phase>>
             /\ file[line] \in Line
             /\ PhaseOK'
  BY <1>1, <1>2, <1>6 DEF Reading, passing, PhaseOK
<1>7. ASSUME ReadData PROVE MemoryTypeOK' /\ LoaderTypeOK' /\ TextsOK' /\ PhaseOK'
  <2> DEFINE l == file[line]
  <2>1. Reading("data") /\ todo' = ByteWrites(l.addr, Hexes(l)) /\ UNCHANGED <<memory, start_addr, texts>>
    BY <1>7 DEF ReadData
  <2>2. l \in Line /\ l.kind = "data"
    BY <1>6, <2>1
  <2> HIDE DEF l
  <2>3. l.addr \in Int /\ l.hexes \in Seq(Byte) /\ l.ascii \in Seq(Byte)
    BY <2>2, Sizes DEF Line
  <2>4. Hexes(l) \in Seq(Byte)
    BY <2>3 DEF Hexes
  <2>5. todo' \in Seq(WriteCall)
    BY <2>1, <2>3, <2>4, ByteWritesType
  <2>6. MemoryTypeOK' /\ TextsOK'
    BY <1>1, <2>1, MemorySame DEF TextsOK
  <2>7. /\ line' \in 1..(Len(file) + 1) /\ UNCHANGED <<file, args, index, str_addr, start_addr>>
        /\ PhaseOK'
    BY <1>6, <2>1
  <2> QED BY <1>2, <2>5, <2>6, <2>7 DEF LoaderTypeOK
<1>8. ASSUME ReadInsn PROVE MemoryTypeOK' /\ LoaderTypeOK' /\ TextsOK' /\ PhaseOK'
  <2> DEFINE l == file[line]
  <2>1. /\ Reading("insn") /\ memory_wr_w(Address(l.addr), BytesOf(l.word))
        /\ \/ l.text # NoText /\ texts' = assembly_set(l.addr, l.text)
           \/ texts' = texts
        /\ UNCHANGED <<todo, start_addr>>
    BY <1>8 DEF ReadInsn
  <2>2. l \in Line /\ l.kind = "insn"
    BY <1>6, <2>1
  <2>3. /\ line' \in 1..(Len(file) + 1) /\ UNCHANGED <<file, args, index, str_addr>>
        /\ PhaseOK'
    BY <1>6, <2>1
  <2> HIDE DEF l
  <2>4. l.addr \in 0..(Smallest + Modulus - 1) /\ l.word \in Ints
    BY <2>2 DEF Line
  <2>5. l.addr \in Ints /\ l.addr \in Int /\ l.word \in Int
    BY <2>4, Sizes DEF Ints
  <2>6. MemoryTypeOK'
    <3>1. BytesOf(l.word) \in Word /\ Address(l.addr) \in Addresses
      BY <2>5, Constants, BytesType, AddressType
    <3> QED BY <1>1, <2>1, <3>1, MemoryKept
  <2>7. TextsOK'
    <3>1. CASE UNCHANGED texts
      BY <1>1, <3>1 DEF TextsOK
    <3>2. CASE l.text # NoText /\ texts' = assembly_set(l.addr, l.text)
      BY <1>1, <2>5, <3>2, TextsSet
    <3> QED BY <2>1, <3>1, <3>2
  <2> QED BY <1>2, <2>1, <2>3, <2>6, <2>7 DEF LoaderTypeOK
<1>9. ASSUME ReadEntry PROVE MemoryTypeOK' /\ LoaderTypeOK' /\ TextsOK' /\ PhaseOK'
  <2> DEFINE l == file[line]
  <2>1. /\ Reading("entry") /\ start_addr' \in {l.addr, start_addr}
        /\ UNCHANGED <<memory, todo, texts>>
    BY <1>9 DEF ReadEntry
  <2>2. l \in Line /\ l.kind = "entry"
    BY <1>6, <2>1
  <2>3. /\ line' \in 1..(Len(file) + 1) /\ UNCHANGED <<file, args, index, str_addr>>
        /\ PhaseOK'
    BY <1>6, <2>1
  <2> HIDE DEF l
  <2>4. l.addr \in Int
    BY <2>2, Sizes DEF Line
  <2>5. MemoryTypeOK' /\ TextsOK'
    BY <1>1, <2>1, MemorySame DEF TextsOK
  <2> QED BY <1>2, <2>1, <2>3, <2>4, <2>5 DEF LoaderTypeOK
<1>10. ASSUME ReadOther PROVE MemoryTypeOK' /\ LoaderTypeOK' /\ TextsOK' /\ PhaseOK'
  <2>1. Reading("other") /\ UNCHANGED <<memory, todo, start_addr, texts>>
    BY <1>10 DEF ReadOther
  <2>2. MemoryTypeOK' /\ TextsOK'
    BY <1>1, <2>1, MemorySame DEF TextsOK
  <2>3. /\ line' \in 1..(Len(file) + 1) /\ UNCHANGED <<file, args, index, str_addr>>
        /\ PhaseOK'
    BY <1>6, <2>1
  <2> QED BY <1>2, <2>1, <2>2, <2>3 DEF LoaderTypeOK
<1>11. ASSUME NoStart PROVE MemoryTypeOK' /\ LoaderTypeOK' /\ TextsOK' /\ PhaseOK'
  <2>1. Exit /\ UNCHANGED pages /\ UNCHANGED loading /\ UNCHANGED texts /\ UNCHANGED phase
    BY <1>11 DEF NoStart, loading, reading
  <2> QED BY <1>1, <2>1, MemoryExit, PartsKept
<1> QED BY <1>3, <1>4, <1>5, <1>7, <1>8, <1>9, <1>10, <1>11 DEF Load

\* No instruction is logged under an empty name.
LEMMA OperationType == ASSUME NEW w \in Word32 PROVE Operation(w) # NoText
<1> DEFINE n == get_funct3(w) + 1
           f7 == get_funct7(w)
<1>0. n \in 1..8
  BY FieldsTrue, FieldType
<1> HIDE DEF n
<1>1. n = 1 \/ n = 2 \/ n = 3 \/ n = 4 \/ n = 5 \/ n = 6 \/ n = 7 \/ n = 8
  BY <1>0
<1>2. Branches[n] # NoText /\ Loads[n] # NoText /\ Stores[n] # NoText
  BY <1>1 DEF NoText, Branches, Loads, Stores, Unknown
<1>3. Immediates(f7)[n] # NoText /\ Registers(f7)[n] # NoText /\ Extension[n] # NoText
  BY <1>1 DEF NoText, Immediates, Registers, Extension
<1> QED BY <1>2, <1>3 DEF Operation, NoText, Unknown, n

InstructionOK(i) ==
    /\ i.op # NoText
    /\ i.rd \in 0..31 /\ i.rs1 \in 0..31 /\ i.rs2 \in 0..31 /\ i.shamt \in 0..31
    /\ i.I \in Int /\ i.S \in Int /\ i.B \in Int /\ i.U \in Int /\ i.J \in Int

\* The fields of an encoding have their types.
LEMMA DecodedType == ASSUME NEW w \in Word32 PROVE InstructionOK(Fields(w))
<1>1. /\ get_rd(w) \in 0..31 /\ get_rs1(w) \in 0..31 /\ get_rs2(w) \in 0..31
      /\ get_shamt(w) \in 0..31
  BY FieldsTrue, FieldType
<1>2. /\ get_imm_I(w) \in Int /\ get_imm_S(w) \in Int /\ get_imm_B(w) \in Int
      /\ get_imm_U(w) \in Int /\ get_imm_J(w) \in Int
  <2>1. Arith(w, 20) \in Word32
    BY DEF Arith, Word32, Bits
  <2>2. Either(Arith(Mask(w, 25..31), 20), Mask(Right(w, 7), 0..4)) \in Word32
    BY DEF Arith, Either, Mask, Right, Word32, Bits
  <2>3. Either(Either(Either(Arith(Mask(w, {31}), 19), Right(Mask(w, 25..30), 20)),
                         Right(Mask(w, 8..11), 7)),
                  Left(Mask(w, {7}), 4)) \in Word32
    BY DEF Arith, Either, Mask, Left, Right, Word32, Bits
  <2>4. Left(Arith(w, 12), 12) \in Word32
    BY DEF Arith, Left, Word32, Bits
  <2>5. Either(Either(Either(Arith(Mask(w, {31}), 11), Right(Mask(w, 21..30), 20)),
                         Right(Mask(w, {20}), 9)),
                  Mask(w, 12..19)) \in Word32
    BY DEF Arith, Either, Mask, Right, Word32, Bits
  <2> QED BY <2>1, <2>2, <2>3, <2>4, <2>5, NumberType
          DEF get_imm_I, get_imm_S, get_imm_B, get_imm_U, get_imm_J
<1> QED BY <1>1, <1>2, OperationType DEF InstructionOK, Fields

\* The instruction that is executed is a decoded one.
LEMMA InstIs ==
    IF word \in DOMAIN Code THEN inst = Fields(Code[word]) /\ Code[word] \in Word32
    ELSE inst = Unread
<1>1. CASE word \in DOMAIN Code
  <2>1. [word |-> word, fields |-> Fields(Code[word])] \in Decoded
    BY <1>1 DEF Decoded
  <2>2. \A d \in Decoded : d.word = word => d.fields = Fields(Code[word])
    BY DEF Decoded
  <2>3. inst = (CHOOSE d \in Decoded : d.word = word).fields
    BY <1>1 DEF inst
  <2>4. (CHOOSE d \in Decoded : d.word = word).fields = Fields(Code[word])
    BY <2>1, <2>2
  <2> QED BY <1>1, <2>3, <2>4, SimulatorAssumption DEF SimulatorAssumption
<1>2. CASE word \notin DOMAIN Code
  BY <1>2 DEF inst
<1> QED BY <1>1, <1>2

\* It has its type.
LEMMA InstType == InstructionOK(inst)
<1>1. \E w \in Word32 : inst = Fields(w)
  <2>1. [i \in Bits |-> 0] \in Word32
    BY DEF Word32
  <2> QED BY <2>1, InstIs DEF Unread
<1> QED BY <1>1, DecodedType

\* A shift gives a word.
LEMMA ShiftTypes == ASSUME NEW a \in Ints, NEW b \in Int
                    PROVE  ShiftedLeft(a, b) \in Ints /\ ShiftedRight(a, b) \in Ints
<1> DEFINE p == 2^(b % WordBits)
<1>1. p \in Nat \ {0} /\ a \in Int
  BY PowerType, IntsAre
<1> HIDE DEF p
<1>2. Wrap(a * p) \in Ints
  <2>1. a * p \in Int
    BY <1>1
  <2> QED BY <2>1, WrapType
<1>3. a \div p \in Ints
  BY <1>1, Shifted
<1> QED BY <1>2, <1>3 DEF ShiftedLeft, ShiftedRight, p

\* Every result of an addition, a comparison or a shift is a word.
LEMMA SumType ==
    ASSUME NEW a \in Ints, NEW b \in Ints,
           NEW op \in {"add", "sub", "sll", "slt", "sltu", "xor", "srl", "sra", "or", "and"}
    PROVE  SumOf(op, a, b) \in Ints
<1>1. /\ a \in Int /\ b \in Int /\ 0 \in Ints /\ 1 \in Ints
  BY IntsAre
<1>2. Wrap(a + b) \in Ints /\ Wrap(a - b) \in Ints
  BY <1>1, WrapType
<1>3. ShiftedLeft(a, b) \in Ints /\ ShiftedRight(a, b) \in Ints
  BY <1>1, ShiftTypes
<1>4. And(a, b) \in Ints /\ Or(a, b) \in Ints /\ Xor(a, b) \in Ints
  BY <1>1, Constants, BytewiseType
<1>5. \A t : (IF t THEN 1 ELSE 0) \in Ints
  BY <1>1
<1> QED BY <1>2, <1>3, <1>4, <1>5 DEF SumOf

\* So is every result of the multiplications and divisions.
LEMMA ProductType ==
    ASSUME NEW a \in Ints, NEW b \in Ints,
           NEW op \in {"mul", "mulh", "mulhsu", "mulhu", "div", "divu", "rem", "remu"}
    PROVE  ProductOf(op, a, b) \in Ints
<1>1. /\ a \in Int /\ b \in Int /\ 0 \in Ints /\ Modulus \in Nat \ {0} /\ a * b \in Int
  BY IntsAre, Sizes
<1>2. Wrap(a * b) \in Ints /\ Wrap((a * b) \div Modulus) \in Ints
  <2> DEFINE p == a * b
  <2>1. p \in Int
    BY <1>1
  <2> HIDE DEF p
  <2>2. p \div Modulus \in Int
    BY <1>1, <2>1
  <2>3. Wrap(p) \in Ints /\ Wrap(p \div Modulus) \in Ints
    BY <2>1, <2>2, WrapType
  <2> QED BY <2>3 DEF p
<1>3. CASE b = 0
  BY <1>1, <1>2, <1>3 DEF ProductOf
<1>4. CASE b # 0
  <2>1. Wrap(Quotient(a, b)) \in Ints /\ Wrap(Remainder(a, b)) \in Ints
    BY <1>1, <1>4, DivisionType, WrapType
  <2>2. Wrap(Unsigned(a) \div Unsigned(b)) \in Ints /\ Wrap(Unsigned(a) % Unsigned(b)) \in Ints
    <3>1. Unsigned(a) \in Nat /\ Unsigned(b) \in Nat \ {0}
      <4>1. Unsigned(b) # 0
        BY <1>1, <1>4, UnsignedZero
      <4> QED BY <1>1, <4>1, UnsignedType
    <3>2. \A m \in Nat, n \in Nat \ {0} : m \div n \in Int /\ m % n \in Int
      OBVIOUS
    <3> QED BY <3>1, <3>2, WrapType
  <2> QED BY <1>2, <1>4, <2>1, <2>2 DEF ProductOf
<1> QED BY <1>3, <1>4

\* So is every result of the operations with an immediate.
LEMMA ImmediateType ==
    ASSUME NEW a \in Ints, NEW m \in Int, NEW n \in Int,
           NEW op \in {"addi", "slti", "sltiu", "xori", "ori", "andi", "slli", "srli", "srai"}
    PROVE  ImmediateOf(op, a, m, n) \in Ints
<1>1. a \in Int /\ 0 \in Ints /\ 1 \in Ints
  BY IntsAre
<1>2. Wrap(a + m) \in Ints
  BY <1>1, WrapType
<1>3. ShiftedLeft(a, n) \in Ints /\ ShiftedRight(a, n) \in Ints
  BY ShiftTypes
<1>4. And(a, m) \in Ints /\ Or(a, m) \in Ints /\ Xor(a, m) \in Ints
  BY <1>1, Constants, BytewiseType
<1>5. \A t : (IF t THEN 1 ELSE 0) \in Ints
  BY <1>1
<1> QED BY <1>2, <1>3, <1>4, <1>5 DEF ImmediateOf

RestOK == LoaderTypeOK /\ TextsOK /\ ProcessorTypeOK /\ PhaseOK

\* The next state has its type if its parts have.
LEMMA TypePartsNext == MemoryTypeOK' /\ RestOK' => TypeOK'
BY DEF TypeOK, RestOK, LoaderTypeOK, TextsOK, ProcessorTypeOK, PhaseOK, WriteCall

\* A register has a word.
LEMMA RegistersType ==
    ASSUME TypeOK, NEW i, InstructionOK(i)
    PROVE  Regs \in [0..31 -> Ints] /\ v1(i) \in Ints /\ v2(i) \in Ints
<1>1. Regs \in [0..31 -> Ints]
  BY IntsAre DEF TypeOK, Regs
<1> QED BY <1>1 DEF v1, v2, InstructionOK

\* The fetched word is a word.
LEMMA WordType == ASSUME TypeOK PROVE word \in Ints
BY Constants, ValueType DEF TypeOK, MemoryTypeOK, word

\* A line of the log keeps the types.
LEMMA LogType ==
    ASSUME TypeOK, NEW op, op # NoText, Log(op)
    PROVE  LoaderTypeOK' /\ TextsOK' /\ PhaseOK' /\ instr' # NoText /\ inst_cnt' = inst_cnt
<1>1. PC \in Ints /\ TextsOK /\ LoaderTypeOK
  BY TypeParts DEF ProcessorTypeOK
<1>2. /\ instr' = op
      /\ UNCHANGED <<file, args, option, index, str_addr, line, start_addr, todo, inst_cnt>>
      /\ phase' = "fetch"
      /\ \/ \E t : t # NoText /\ texts' = assembly_set(PC, t)
         \/ UNCHANGED texts
  BY DEF Log, passing
<1>3. LoaderTypeOK' /\ PhaseOK'
  BY <1>1, <1>2 DEF LoaderTypeOK, PhaseOK
<1>4. TextsOK'
  <2>1. CASE UNCHANGED texts
    BY <1>1, <2>1 DEF TextsOK
  <2>2. CASE \E t : t # NoText /\ texts' = assembly_set(PC, t)
    BY <1>1, <2>2, TextsSet
  <2> QED BY <1>2, <2>1, <2>2
<1> QED BY <1>2, <1>3, <1>4

\* An instruction that writes its register keeps the types.
LEMMA RetireType ==
    ASSUME TypeOK, NEW op, op # NoText, NEW rd, NEW v \in Ints, NEW n \in Int,
           Retire(op, rd, v, n)
    PROVE  RestOK'
<1>1. rg' = [Regs EXCEPT ![rd] = v] /\ PC' = Wrap(n) /\ Log(op) /\ console' = console
  BY DEF Retire
<1>2. Regs \in [0..31 -> Ints]
  BY IntsAre DEF TypeOK, Regs
<1>3. rg' \in [0..31 -> Ints]
  BY <1>1, <1>2
<1>4. PC' \in Ints
  BY <1>1, WrapType
<1>5. LoaderTypeOK' /\ TextsOK' /\ PhaseOK' /\ instr' # NoText /\ inst_cnt' = inst_cnt
  BY <1>1, LogType
<1>6. inst_cnt \in 0..MaxInstructions /\ console \in Seq(Byte)
  BY DEF TypeOK
<1> QED BY <1>1, <1>3, <1>4, <1>5, <1>6 DEF RestOK, ProcessorTypeOK

\* So does one that only goes on.
LEMMA ProceedType ==
    ASSUME TypeOK, NEW op, op # NoText, NEW n \in Int, Proceed(op, n), console' \in Seq(Byte)
    PROVE  RestOK'
<1>1. rg' = Regs /\ PC' = Wrap(n) /\ Log(op)
  BY DEF Proceed
<1>2. Regs \in [0..31 -> Ints]
  BY IntsAre DEF TypeOK, Regs
<1>3. PC' \in Ints
  BY <1>1, WrapType
<1>4. LoaderTypeOK' /\ TextsOK' /\ PhaseOK' /\ instr' # NoText /\ inst_cnt' = inst_cnt
  BY <1>1, LogType
<1>5. inst_cnt \in 0..MaxInstructions
  BY DEF TypeOK
<1> QED BY <1>1, <1>2, <1>3, <1>4, <1>5 DEF RestOK, ProcessorTypeOK

\* So does one that ends the process.
LEMMA DieType == ASSUME TypeOK, Die PROVE TypeOK'
<1>1. /\ MemoryTypeOK /\ RestOK /\ running' = FALSE
      /\ UNCHANGED <<pages, result, loading, texts, phase, rg, PC, inst_cnt, instr, console>>
  BY TypeParts DEF Die, RestOK, loading, reading
<1>2. MemoryTypeOK'
  BY <1>1 DEF MemoryTypeOK
<1>3. RestOK'
  BY <1>1, PartsKept DEF RestOK
<1> QED BY <1>2, <1>3, TypePartsNext

\* So does every instruction.
LEMMA ExecuteType == ASSUME TypeOK, Execute PROVE TypeOK'
<1> DEFINE i == inst
<1>1. InstructionOK(i)
  BY InstType
<1>2. \/ Upper(i) \/ Jump(i) \/ type_B(i) \/ type_R(i) \/ helper_extension(i)
      \/ type_I2(i) \/ type_I(i) \/ type_S(i) \/ Ecall(i) \/ NoCase(i) \/ LogFails(i)
  BY DEF Execute
<1> HIDE DEF i
<1>3. MemoryTypeOK /\ RestOK
  BY TypeParts DEF RestOK
<1>4. /\ rg \in [0..31 -> Ints] /\ console \in Seq(Byte) /\ instr # NoText /\ Ints \subseteq Int
      /\ Regs \in [0..31 -> Ints] /\ PC \in Ints /\ v1(i) \in Ints /\ v2(i) \in Ints
  BY <1>1, RegistersType, IntsAre DEF TypeOK
<1>5. i.op # NoText
  BY <1>1 DEF InstructionOK
<1>a. PC \in Int /\ v1(i) \in Int /\ v2(i) \in Int
  BY <1>4
<1>b. i.I \in Int /\ i.S \in Int /\ i.B \in Int /\ i.U \in Int /\ i.J \in Int /\ i.shamt \in Int
  BY <1>1 DEF InstructionOK
<1>c. rg[i.rs1] \in Int
  BY <1>1, <1>4 DEF InstructionOK
<1>6. ASSUME UNCHANGED memory, RestOK' PROVE TypeOK'
  BY <1>3, <1>6, MemorySame, TypePartsNext
<1>7. CASE Upper(i)
  <2>1. UNCHANGED memory /\ \/ Retire(i.op, i.rd, Wrap(i.U), PC + 4)
                            \/ Retire(i.op, i.rd, Wrap(PC + i.U), PC + 4)
    BY <1>7 DEF Upper
  <2>2. Wrap(i.U) \in Ints /\ Wrap(PC + i.U) \in Ints /\ PC + 4 \in Int
    BY <1>a, <1>b, WrapType
  <2> QED BY <1>5, <1>6, <2>1, <2>2, RetireType
<1>8. CASE Jump(i)
  <2>1. UNCHANGED memory /\ \/ Retire(i.op, i.rd, Wrap(PC + 4), PC + i.J)
                            \/ Retire(i.op, i.rd, Wrap(PC + 4), rg[i.rs1] + i.I)
    BY <1>8 DEF Jump
  <2>2. Wrap(PC + 4) \in Ints /\ PC + i.J \in Int /\ rg[i.rs1] + i.I \in Int
    BY <1>a, <1>b, <1>c, WrapType
  <2> QED BY <1>5, <1>6, <2>1, <2>2, RetireType
<1>9. CASE type_B(i)
  <2>1. UNCHANGED memory /\ UNCHANGED console
        /\ \E n \in Int : Proceed(i.op, n)
    BY <1>a, <1>b, <1>9 DEF type_B
  <2> QED BY <1>4, <1>5, <1>6, <2>1, ProceedType
<1>10. CASE type_R(i)
  <2>1. UNCHANGED memory /\ Retire(i.op, i.rd, SumOf(i.op, v1(i), v2(i)), PC + 4)
        /\ i.op \in {"add", "sub", "sll", "slt", "sltu", "xor", "srl", "sra", "or", "and"}
    BY <1>10 DEF type_R
  <2>2. SumOf(i.op, v1(i), v2(i)) \in Ints
    BY <1>4, <2>1, SumType
  <2>3. PC + 4 \in Int
    BY <1>a
  <2> QED BY <1>5, <1>6, <2>1, <2>2, <2>3, RetireType
<1>11. CASE helper_extension(i)
  <2>1. CASE Die
    BY <2>1, DieType
  <2>2. CASE /\ Retire(i.op, i.rd, ProductOf(i.op, v1(i), v2(i)), PC + 4) /\ UNCHANGED memory
             /\ i.op \in {"mul", "mulh", "mulhsu", "mulhu", "div", "divu", "rem", "remu"}
    <3>1. ProductOf(i.op, v1(i), v2(i)) \in Ints
      BY <1>4, <2>2, ProductType
    <3>2. PC + 4 \in Int
      BY <1>a
    <3> QED BY <1>5, <1>6, <2>2, <3>1, <3>2, RetireType
  <2> QED BY <1>11, <2>1, <2>2 DEF helper_extension
<1>12. CASE type_I2(i)
  <2>1. UNCHANGED memory /\ Retire(i.op, i.rd, ImmediateOf(i.op, v1(i), i.I, i.shamt), PC + 4)
        /\ i.op \in {"addi", "slti", "sltiu", "xori", "ori", "andi", "slli", "srli", "srai"}
    BY <1>12 DEF type_I2
  <2>2. ImmediateOf(i.op, v1(i), i.I, i.shamt) \in Ints
    BY <1>4, <1>b, <2>1, ImmediateType
  <2>3. PC + 4 \in Int
    BY <1>a
  <2> QED BY <1>5, <1>6, <2>1, <2>2, <2>3, RetireType
<1>13. ASSUME UNCHANGED <<loading, phase, rg, PC, inst_cnt, instr, logged, console>>
       PROVE  RestOK'
  BY <1>3, <1>13, PartsKept DEF RestOK, loading, reading
<1>14. CASE type_I(i)
  <2> DEFINE at == Address(Wrap(v1(i) + i.I))
             v == CASE i.op = "lb" -> Extended(result', 1)
                    [] i.op = "lh" -> Extended(result', 2)
                    [] i.op \in {"lw", "lbu", "lhu"} -> ValueOf(result')
  <2>1. /\ memory_rd_b(at) \/ memory_rd_h(at) \/ memory_rd_w(at)
        /\ i.op \in {"lb", "lbu", "lh", "lhu", "lw"}
        /\ \/ Retire(i.op, i.rd, v, PC + 4)
           \/ UNCHANGED <<loading, phase, rg, PC, inst_cnt, instr, logged, console>>
    BY <1>14 DEF type_I, Then
  <2>2. at \in Addresses
    <3>1. v1(i) + i.I \in Int
      BY <1>a, <1>b
    <3> QED BY <3>1, WrapType, AddressType, IntsAre
  <2>3. MemoryTypeOK'
    BY <1>3, <2>1, <2>2, MemoryKept
  <2>4. v \in Ints
    <3>1. result' \in Word
      BY <2>3 DEF MemoryTypeOK
    <3>2. ValueOf(result') \in Ints /\ Extended(result', 1) \in Ints /\ Extended(result', 2) \in Ints
      BY <3>1, Constants, ValueType
    <3> QED BY <2>1, <3>2
  <2> HIDE DEF v
  <2>6. PC + 4 \in Int
    BY <1>a
  <2>5. RestOK'
    BY <1>5, <1>13, <2>1, <2>4, <2>6, RetireType
  <2> QED BY <2>3, <2>5, TypePartsNext
<1>15. CASE type_S(i)
  <2> DEFINE at == Address(Wrap(v1(i) + i.S))
             d == BytesOf(v2(i))
  <2>1. /\ memory_wr_b(at, d) \/ memory_wr_h(at, d) \/ memory_wr_w(at, d)
        /\ \/ Proceed(i.op, PC + 4) /\ UNCHANGED console
           \/ UNCHANGED <<loading, phase, rg, PC, inst_cnt, instr, logged, console>>
    BY <1>15 DEF type_S, Then
  <2>2. at \in Addresses /\ d \in Word
    <3>1. v1(i) + i.S \in Int
      BY <1>a, <1>b
    <3> QED BY <1>a, <3>1, WrapType, AddressType, IntsAre, Constants, BytesType
  <2> HIDE DEF at, d
  <2>3. MemoryTypeOK'
    BY <1>3, <2>1, <2>2, MemoryKept
  <2>4. RestOK'
    <3>1. PC + 4 \in Int
      BY <1>a
    <3> QED BY <1>4, <1>5, <1>13, <2>1, <3>1, ProceedType
  <2> QED BY <2>3, <2>4, TypePartsNext
<1>16. CASE Ecall(i)
  <2>1. UNCHANGED memory /\ PC + 4 \in Int
    BY <1>a, <1>16 DEF Ecall
  <2>2. CASE \E c \in Chars : Retire(i.op, a0, c, PC + 4)
    <3>1. PICK c \in Chars : Retire(i.op, a0, c, PC + 4)
      BY <2>2
    <3>2. c \in -Base..(Base * Base - 1)
      BY Sizes, SimulatorAssumption DEF SimulatorAssumption
    <3> QED BY <1>5, <1>6, <2>1, <3>1, <3>2, IntsAre, RetireType
  <2>3. CASE Proceed(i.op, PC + 4) /\ console' = Append(console, Regs[a0] % Base)
    <3>1. Regs[a0] % Base \in Byte
      <4>1. Regs[a0] \in Int
        <5>1. a0 \in 0..31
          BY DEF a0
        <5>2. \A f \in [0..31 -> Ints], k \in 0..31 : f[k] \in Ints
          OBVIOUS
        <5> QED BY <1>4, <5>1, <5>2, IntsAre
      <4>2. Regs[a0] % Base \in 0..(Base - 1)
        <5>1. Base \in Nat /\ Base > 0
          BY Sizes
        <5>2. \A n \in Int : n % Base \in 0..(Base - 1)
          BY <5>1
        <5> QED BY <4>1, <5>2
      <4> QED BY <4>2, Constants DEF ByteValues
    <3>2. console' \in Seq(Byte)
      BY <1>4, <2>3, <3>1
    <3> QED BY <1>5, <1>6, <2>1, <2>3, <3>2, ProceedType
  <2>4. CASE /\ phase' = "returned" /\ rg' = Regs /\ instr' = i.op
             /\ UNCHANGED <<loading, PC, inst_cnt, logged, console>>
    <3>1. LoaderTypeOK' /\ TextsOK'
      BY <1>3, <2>4, PartsKept DEF RestOK, loading, reading
    <3>2. ProcessorTypeOK' /\ PhaseOK'
      BY <1>3, <1>4, <1>5, <2>4 DEF RestOK, ProcessorTypeOK, PhaseOK
    <3> QED BY <1>6, <2>1, <3>1, <3>2 DEF RestOK
  <2>5. CASE Proceed(i.op, PC) /\ UNCHANGED console
    BY <1>4, <1>a, <1>5, <1>6, <2>1, <2>5, ProceedType
  <2> QED BY <1>16, <2>2, <2>3, <2>4, <2>5 DEF Ecall
<1>17. CASE NoCase(i)
  <2>1. CASE Die
    BY <2>1, DieType
  <2>2. CASE Proceed(instr, PC) /\ UNCHANGED <<memory, console>>
    BY <1>4, <1>a, <1>6, <2>2, ProceedType
  <2> QED BY <1>17, <2>1, <2>2 DEF NoCase
<1>18. CASE LogFails(i)
  BY <1>18, DieType DEF LogFails
<1> QED BY <1>2, <1>7, <1>8, <1>9, <1>10, <1>11, <1>12, <1>14, <1>15, <1>16, <1>17, <1>18

\* The first call of simulate keeps the types.
LEMMA StartType == ASSUME TypeOK, Start PROVE TypeOK'
<1>1. MemoryTypeOK /\ LoaderTypeOK /\ TextsOK /\ ProcessorTypeOK
  BY TypeParts
<1>2. PICK left \in Leftovers : rg' = [i \in 0..31 |-> IF i < 8 THEN 0 ELSE left[i]]
  BY DEF Start
<1>3. left \in [8..31 -> Ints] /\ 0 \in Ints
  BY IntsAre, SimulatorAssumption DEF SimulatorAssumption
<1>4. rg' \in [0..31 -> Ints]
  BY <1>2, <1>3
<1>5. PC' \in Ints
  BY <1>1, WrapType DEF Start, LoaderTypeOK
<1>6. UNCHANGED memory /\ UNCHANGED loading /\ UNCHANGED texts /\ phase' = "fetch"
      /\ UNCHANGED <<inst_cnt, instr, console>>
  BY DEF Start, loading, reading
<1>7. ProcessorTypeOK' /\ PhaseOK'
  BY <1>1, <1>4, <1>5, <1>6 DEF ProcessorTypeOK, PhaseOK
<1>8. MemoryTypeOK' /\ LoaderTypeOK' /\ TextsOK'
  BY <1>1, <1>6, MemorySame, PartsKept
<1> QED BY <1>7, <1>8, TypePartsNext DEF RestOK

\* A fetch keeps them.
LEMMA FetchType == ASSUME TypeOK, Fetch PROVE TypeOK'
<1>1. MemoryTypeOK /\ LoaderTypeOK /\ TextsOK /\ ProcessorTypeOK /\ PC \in Int
  BY TypeParts, IntsAre DEF TypeOK
<1>2. /\ memory_rd_w(Address(PC))
      /\ inst_cnt < MaxInstructions /\ inst_cnt' = inst_cnt + 1 /\ phase' = "execute"
      /\ UNCHANGED loading /\ UNCHANGED texts /\ UNCHANGED <<rg, PC, instr, console>>
  BY DEF Fetch, loading, reading
<1>3. MemoryTypeOK'
  BY <1>1, <1>2, AddressType, MemoryKept
<1>4. inst_cnt' \in 0..MaxInstructions
  <2>1. inst_cnt \in 0..MaxInstructions /\ MaxInstructions \in Nat
    BY <1>1, SimulatorAssumption DEF ProcessorTypeOK, SimulatorAssumption
  <2> QED BY <1>2, <2>1
<1>5. ProcessorTypeOK' /\ PhaseOK'
  BY <1>1, <1>2, <1>4 DEF ProcessorTypeOK, PhaseOK
<1>6. LoaderTypeOK' /\ TextsOK'
  BY <1>1, <1>2, PartsKept
<1> QED BY <1>3, <1>5, <1>6, TypePartsNext DEF RestOK

\* Every step keeps them.
LEMMA TypeNext == TypeOK /\ [Next]_vars => TypeOK'
<1> SUFFICES ASSUME TypeOK, [Next]_vars PROVE TypeOK'
  OBVIOUS
<1>1. CASE Load /\ UNCHANGED <<rg, PC, inst_cnt, instr, logged, console>>
  <2>1. MemoryTypeOK' /\ LoaderTypeOK' /\ TextsOK' /\ PhaseOK'
    BY <1>1, LoadTypes
  <2>2. ProcessorTypeOK'
    BY <1>1, TypeParts, PartsKept
  <2> QED BY <2>1, <2>2, TypePartsNext DEF RestOK
<1>2. CASE Start
  BY <1>2, StartType
<1>3. CASE Fetch
  BY <1>3, FetchType
<1>4. CASE Execute
  BY <1>4, ExecuteType
<1>5. CASE UNCHANGED vars
  <2>1. UNCHANGED memory /\ UNCHANGED loading /\ UNCHANGED texts /\ UNCHANGED phase
        /\ UNCHANGED <<rg, PC, inst_cnt, instr, console>>
    BY <1>5 DEF vars, loading, reading
  <2>2. MemoryTypeOK'
    BY <2>1, TypeParts, MemorySame
  <2> QED BY <2>1, <2>2, TypeParts, PartsKept, TypePartsNext DEF RestOK
<1> QED BY <1>1, <1>2, <1>3, <1>4, <1>5 DEF Next, Simulation

\* The state has its type.
THEOREM MachineTypes == Spec => []TypeOK
BY TypeInit, TypeNext, PTL DEF Spec

-----------------------------------------------------------------------------
(* The simulator and RV32IM.                                               *)

\* The numbers of RV32IM are those of the machine.
LEMMA SameNumbers ==
    /\ Rv32!Modulus = Modulus /\ Rv32!Smallest = Smallest /\ Rv32!WordBits = WordBits
    /\ \A n : Rv32!Wrap(n) = Wrap(n) /\ Rv32!Unsigned(n) = Unsigned(n) /\ Rv32!BytesOf(n) = BytesOf(n)
BY DEF Rv32!Modulus, Modulus, Rv32!Smallest, Smallest, Rv32!WordBits, WordBits, Rv32!Wrap, Wrap,
       Rv32!Unsigned, Unsigned, Rv32!BytesOf, BytesOf

\* So are the numbers of the parts of a word.
LEMMA SameJoined ==
    \A w, n : Rv32!Joined(w, n) = Joined(w, n) /\ Rv32!Extended(w, n) = Extended(w, n)
BY DEF Rv32!Joined, Joined, Rv32!Extended, Extended

\* So are the words.
LEMMA SameValue == \A w : Rv32!ValueOf(w) = ValueOf(w)
BY SameNumbers, SameJoined DEF Rv32!ValueOf, ValueOf

\* So are the quotients.
LEMMA SameDivision ==
    \A a, b : Rv32!Quotient(a, b) = Quotient(a, b) /\ Rv32!Remainder(a, b) = Remainder(a, b)
BY DEF Rv32!Quotient, Quotient, Rv32!Remainder, Remainder, Rv32!Abs, Abs

\* So are the operations on bytes.
LEMMA SameBits ==
    \A a, b : Rv32!And(a, b) = And(a, b) /\ Rv32!Or(a, b) = Or(a, b) /\ Rv32!Xor(a, b) = Xor(a, b)
BY SameNumbers, SameValue
   DEF Rv32!And, And, Rv32!Or, Or, Rv32!Xor, Xor, Rv32!Bytewise, Bytewise

\* So are the loads and stores.
LEMMA SameAccess ==
    \A a, n, d : /\ Bytes!Read(a, n) => Rv32!Read(a, n)
                 /\ Bytes!Write(a, n, d) => Rv32!Write(a, n, d)
BY DEF Bytes!Read, Rv32!Read, Bytes!Write, Rv32!Write, Bytes!Unaligned, Rv32!Unaligned,
       Bytes!Load, Rv32!Load, Bytes!Store, Rv32!Store

\* A fetch is one of RV32IM.
LEMMA FetchStep == ASSUME TypeOK, Fetch PROVE Rv32!Fetch
<1>1. MemoryTypeOK /\ Address(PC) \in Addresses
  BY IntsAre, AddressType DEF TypeOK
<1>2. memory_rd_w(Address(PC)) /\ running /\ phase = "fetch" /\ phase' = "execute"
      /\ UNCHANGED <<rg, PC, console>>
  BY DEF Fetch
<1>3. Rv32!Read(Address(PC), 4)
  BY <1>1, <1>2, MemoryAssumption, MemoryImplements, SameAccess
<1>4. UNCHANGED <<Regs, PC, console>>
  BY <1>2 DEF Regs
<1> QED BY <1>2, <1>3, <1>4 DEF Rv32!Fetch

\* A meaning has a name.
LEMMA NamesKnown == ASSUME NEW w, NEW op \in Names(w) PROVE op # Unknown
BY DEF Names, Unknown, ByOpcode, ByFunct3, ByFunct7

\* What was fetched has the fields of its meaning, but for the highest bit of rs1.
LEMMA MeantFields ==
    ASSUME NEW i \in Meant
    PROVE  /\ inst.op = i.op /\ inst.rd = i.rd /\ inst.rs1 = i.rs1 % 16
           /\ inst.rs2 = i.rs2 /\ inst.shamt = i.rs2
           /\ inst.I = i.I /\ inst.S = i.S /\ inst.B = i.B /\ inst.U = i.U /\ inst.J = i.J
           /\ i.op # Unknown /\ i.rs1 \in 0..31 /\ i.rd \in 0..31
           /\ i \in Meanings /\ i.word = word
<1>1. i \in Meanings /\ i.word = word
  BY DEF Meant
<1>2. PICK v \in DOMAIN Code : \E op \in Names(Code[v]) :
         i = [word |-> v, op |-> op, rd |-> Rd(Code[v]), rs1 |-> Rs1(Code[v]),
              rs2 |-> Rs2(Code[v]), I |-> ImmI(Code[v]), S |-> ImmS(Code[v]),
              B |-> ImmB(Code[v]), U |-> ImmU(Code[v]), J |-> ImmJ(Code[v])]
  BY <1>1 DEF Meanings, Meaning
<1>3. v = word
  BY <1>1, <1>2
<1> DEFINE w == Code[v]
<1>4. w \in Word32 /\ inst = Fields(w)
  BY <1>3, InstIs
<1>5. /\ i.op \in Names(w) /\ i.rd = Rd(w) /\ i.rs1 = Rs1(w) /\ i.rs2 = Rs2(w)
      /\ i.I = ImmI(w) /\ i.S = ImmS(w) /\ i.B = ImmB(w) /\ i.U = ImmU(w) /\ i.J = ImmJ(w)
  BY <1>2
<1> HIDE DEF w
<1>6. Operation(w) = i.op /\ i.op # Unknown
  BY <1>4, <1>5, OperationTrue, NamesKnown
<1>7. /\ get_rd(w) = Rd(w) /\ get_rs2(w) = Rs2(w) /\ get_shamt(w) = Rs2(w)
      /\ get_rs1(w) = Rs1(w) % 16 /\ Rs1(w) \in 0..31 /\ Rd(w) \in 0..31
  BY <1>4, FieldsTrue, FieldType
<1>8. /\ get_imm_I(w) = ImmI(w) /\ get_imm_S(w) = ImmS(w) /\ get_imm_B(w) = ImmB(w)
      /\ get_imm_U(w) = ImmU(w) /\ get_imm_J(w) = ImmJ(w)
  BY <1>4, ImmediatesTrue
<1> QED BY <1>1, <1>4, <1>5, <1>6, <1>7, <1>8 DEF Fields

\* Each fetched word is decoded to its meaning.
LEMMA DecodedStep == DecodedTrue
BY MeantFields DEF DecodedTrue

\* The operands are those of RV32IM unless a register has a high number.
LEMMA Operands ==
    ASSUME TypeOK, NEW i \in Meant, ~Deviates
    PROVE  /\ i.op \notin {"lui", "auipc", "jal"} => inst.rs1 = i.rs1 /\ v1(inst) = Regs[i.rs1]
           /\ v2(inst) = Regs[i.rs2]
<1>1. i.rs1 > 15 => i.op \in {"lui", "auipc", "jal"}
  BY DEF Deviates, HighRegister
<1>2. inst.rs1 = i.rs1 % 16 /\ i.rs1 \in 0..31 /\ inst.rs2 = i.rs2
  BY MeantFields
<1>3. i.rs1 \in 0..15 => i.rs1 % 16 = i.rs1
  OBVIOUS
<1> QED BY <1>1, <1>2, <1>3 DEF v1, v2

\* The registers that RV32IM sees have words, and 0 in x0.
LEMMA RegsAre == ASSUME TypeOK PROVE Regs \in [0..31 -> Ints] /\ Regs[0] = 0
<1>1. rg \in [0..31 -> Ints] /\ 0 \in Ints
  BY IntsAre DEF TypeOK
<1>2. \A S : \A f \in [0..31 -> S] : 0 \in S => [f EXCEPT ![0] = 0] \in [0..31 -> S]
                                            /\ [f EXCEPT ![0] = 0][0] = 0
  OBVIOUS
<1> QED BY <1>1, <1>2 DEF Regs

\* To see 0 in x0 is to see it once.
LEMMA RegsTwice == ASSUME TypeOK PROVE [Regs EXCEPT ![0] = 0] = Regs
<1>1. Regs \in [0..31 -> Ints] /\ Regs[0] = 0
  BY RegsAre
<1>2. \A f \in [0..31 -> Ints] : f[0] = 0 => [f EXCEPT ![0] = 0] = f
  OBVIOUS
<1> QED BY <1>1, <1>2

\* A retired instruction has written its register, as RV32IM sees it.
LEMMA RetireStep ==
    ASSUME TypeOK, NEW op, NEW rd \in 0..31, NEW v, NEW n, Retire(op, rd, v, n)
    PROVE  Rv32!Retire(rd, v, n) /\ phase' = "fetch" /\ UNCHANGED console
<1>1. rg' = [Regs EXCEPT ![rd] = v] /\ PC' = Wrap(n) /\ phase' = "fetch" /\ UNCHANGED console
  BY DEF Retire, Log
<1>2. Regs \in [0..31 -> Ints] /\ Regs[0] = 0
  BY RegsAre
<1>3. Regs' = [rg' EXCEPT ![0] = 0]
  BY DEF Regs
<1>4. Regs' = [Regs EXCEPT ![rd] = IF rd = 0 THEN 0 ELSE v]
  <2> DEFINE f == Regs
  <2>1. f \in [0..31 -> Ints] /\ f[0] = 0
    BY <1>2
  <2> HIDE DEF f
  <2>2. [[f EXCEPT ![rd] = v] EXCEPT ![0] = 0] = [f EXCEPT ![rd] = IF rd = 0 THEN 0 ELSE v]
    BY <2>1
  <2> QED BY <1>1, <1>3, <2>2 DEF f
<1> QED BY <1>1, <1>4, SameNumbers DEF Rv32!Retire

\* One that goes on has written none.
LEMMA ProceedStep ==
    ASSUME TypeOK, NEW op, NEW n, Proceed(op, n)
    PROVE  Regs' = Regs /\ PC' = Rv32!Wrap(n) /\ phase' = "fetch"
<1>1. rg' = Regs /\ PC' = Wrap(n) /\ phase' = "fetch"
  BY DEF Proceed, Log
<1>2. Regs' = [rg' EXCEPT ![0] = 0]
  BY DEF Regs
<1>3. [Regs EXCEPT ![0] = 0] = Regs
  BY RegsTwice
<1> QED BY <1>1, <1>2, <1>3, SameNumbers

\* A memory that is not called is the same for RV32IM.
LEMMA StorageStep == UNCHANGED memory => UNCHANGED Rv32!Storage
BY DEF memory, Rv32!Storage, Flat, Cell, Page, PageNumber, Index, Lane, ZeroPage, ZeroWord

-----------------------------------------------------------------------------

\* A word with zeros above its first bytes has their value.
LEMMA JoinedZero ==
    ASSUME NEW w \in Word, Byte = ByteValues, NEW n \in {1, 2, 4}, \A l \in 0..3 : l >= n => w[l] = 0
    PROVE  Joined(w, 4) = Joined(w, n)
<1>1. /\ w[0] \in Int /\ w[1] \in Int /\ w[2] \in Int /\ w[3] \in Int /\ Base \in Int
  BY Sizes DEF Word, Lanes, ByteValues
<1>2. CASE n = 1
  <2>1. w[1] = 0 /\ w[2] = 0 /\ w[3] = 0
    BY <1>2
  <2> QED BY <1>1, <1>2, <2>1 DEF Joined
<1>3. CASE n = 2
  <2>1. w[2] = 0 /\ w[3] = 0
    BY <1>3
  <2> QED BY <1>1, <1>3, <2>1 DEF Joined
<1> QED BY <1>2, <1>3

\* The additions, comparisons and shifts are RV32IM's.
LEMMA SumSame ==
    ASSUME NEW a \in Ints, NEW b \in Ints,
           NEW op \in {"add", "sub", "sll", "slt", "sltu", "xor", "srl", "sra", "or", "and"},
           op = "srl" => a >= 0
    PROVE  SumOf(op, a, b) = Rv32!Result(op, a, b)
<1>1. a \in Int /\ b \in Int
  BY IntsAre
<1>2. CASE op \in {"add", "sub", "slt", "sltu"}
  BY <1>2, SameNumbers DEF SumOf, Rv32!Result
<1>3. CASE op \in {"xor", "or", "and"}
  BY <1>3, SameBits DEF SumOf, Rv32!Result
<1>4. CASE op \in {"sll", "sra"}
  BY <1>4, SameNumbers DEF SumOf, Rv32!Result, ShiftedLeft, ShiftedRight
<1>5. CASE op = "srl"
  <2>1. Unsigned(a) = a
    BY <1>1, <1>5, UnsignedType
  <2>2. ShiftedRight(a, b) = Wrap(a \div 2^(b % WordBits))
    BY <1>1, ShiftTypes, WrapSame DEF ShiftedRight
  <2> QED BY <1>5, <2>1, <2>2, SameNumbers DEF SumOf, Rv32!Result
<1> QED BY <1>2, <1>3, <1>4, <1>5

\* So are the multiplications and divisions that do not deviate.
LEMMA ProductSame ==
    ASSUME NEW a \in Ints, NEW b \in Ints,
           NEW op \in {"mul", "mulh", "mulhsu", "mulhu", "div", "divu", "rem", "remu"},
           ~Undefined(op, a, b),
           op = "mulhu" => a >= 0 /\ b >= 0, op = "mulhsu" => b >= 0
    PROVE  ProductOf(op, a, b) = Rv32!Result(op, a, b)
<1>1. a \in Int /\ b \in Int
  BY IntsAre
<1>2. CASE op \in {"mul", "mulh"}
  BY <1>2, SameNumbers DEF ProductOf, Rv32!Result
<1>3. CASE op \in {"mulhsu", "mulhu"}
  <2>1. Unsigned(b) = b /\ (op = "mulhu" => Unsigned(a) = a)
    BY <1>1, <1>3, UnsignedType
  <2> QED BY <1>3, <2>1, SameNumbers DEF ProductOf, Rv32!Result
<1>4. CASE op \in {"div", "divu", "rem", "remu"}
  <2>1. b # 0
    BY <1>4 DEF Undefined
  <2> QED BY <1>4, <2>1, SameNumbers, SameDivision DEF ProductOf, Rv32!Result
<1> QED BY <1>2, <1>3, <1>4

\* So are the operations with an immediate.
LEMMA ImmediateSame ==
    ASSUME NEW a \in Ints, NEW m, NEW n,
           NEW op \in {"addi", "slti", "sltiu", "xori", "ori", "andi", "slli", "srli", "srai"},
           op = "srli" => a >= 0, n \in Int
    PROVE  ImmediateOf(op, a, m, n) = Rv32!Result(op, a, IF op \in {"slli", "srli", "srai"} THEN n ELSE m)
<1>1. a \in Int
  BY IntsAre
<1>2. CASE op \in {"addi", "slti", "sltiu"}
  BY <1>2, SameNumbers DEF ImmediateOf, Rv32!Result
<1>3. CASE op \in {"xori", "ori", "andi"}
  BY <1>3, SameBits DEF ImmediateOf, Rv32!Result
<1>4. CASE op \in {"slli", "srai"}
  BY <1>4, SameNumbers DEF ImmediateOf, Rv32!Result, ShiftedLeft, ShiftedRight
<1>5. CASE op = "srli"
  <2>1. Unsigned(a) = a
    BY <1>1, <1>5, UnsignedType
  <2>2. ShiftedRight(a, n) = Wrap(a \div 2^(n % WordBits))
    BY <1>1, ShiftTypes, WrapSame DEF ShiftedRight
  <2> QED BY <1>5, <2>1, <2>2, SameNumbers DEF ImmediateOf, Rv32!Result
<1> QED BY <1>2, <1>3, <1>4, <1>5

-----------------------------------------------------------------------------

\* What does not deviate is an instruction of RV32IM.
LEMMA ExecuteStep == ASSUME TypeOK, Execute, ~Deviates PROVE Rv32!Execute
<1> DEFINE d == inst
<1>1. PICK i \in Meant : ~(i.op = "ecall" /\ rg[a7] \notin {1, 2, 3, 93})
  BY DEF Deviates, Meaningless
<1>2. ~LooseJump(i) /\ ~SignedShift(i) /\ ~SignedProduct(i) /\ ~Undefined(i.op, v1(i), v2(i))
      /\ ~HighRegister(i) /\ ~NoPlace
  BY DEF Deviates
<1>3. /\ d.op = i.op /\ d.rd = i.rd /\ d.rs2 = i.rs2 /\ d.shamt = i.rs2
      /\ d.I = i.I /\ d.S = i.S /\ d.B = i.B /\ d.U = i.U /\ d.J = i.J
      /\ i.op # Unknown /\ i.rd \in 0..31 /\ i \in Meanings /\ i.word = word
  BY MeantFields
<1>4. \/ Upper(d) \/ Jump(d) \/ type_B(d) \/ type_R(d) \/ helper_extension(d)
      \/ type_I2(d) \/ type_I(d) \/ type_S(d) \/ Ecall(d) \/ NoCase(d) \/ LogFails(d)
  BY DEF Execute
<1>5. InstructionOK(d)
  BY InstType
<1>6. v1(d) \in Ints /\ v2(d) \in Ints
  BY <1>5, RegistersType
<1>7. /\ i.op \notin {"lui", "auipc", "jal"} => d.rs1 = i.rs1 /\ v1(d) = Regs[i.rs1]
      /\ v2(d) = Regs[i.rs2]
  BY Operands
<1>8. i.op \notin {"lui", "auipc", "jal"} => v1(d) = v1(i) /\ v2(d) = v2(i)
  BY <1>7 DEF v1, v2
<1>9. d.shamt \in Int /\ i.rs2 \in Int /\ i.I \in Int /\ i.S \in Int
  BY <1>3, <1>5 DEF InstructionOK
<1>a. v1(d) \in Int /\ v2(d) \in Int
  BY <1>6, IntsAre
<1>10. SUFFICES \/ Rv32!Compute(i) \/ Rv32!Upper(i) \/ Rv32!Jump(i) \/ Rv32!Branch(i)
                \/ Rv32!LoadInto(i) \/ Rv32!StoreFrom(i) \/ Rv32!Environment(i)
  <2>1. i \in {j \in Meanings : j.word = Rv32!ValueOf(result)}
    BY <1>3, SameValue DEF word
  <2>2. phase = "execute" /\ running
    BY DEF Execute
  <2> QED BY <2>1, <2>2 DEF Rv32!Execute
<1> HIDE DEF d
<1>11. CASE Upper(d)
  <2>1. UNCHANGED memory /\ \/ i.op = "lui"   /\ Retire(i.op, i.rd, Wrap(i.U), PC + 4)
                            \/ i.op = "auipc" /\ Retire(i.op, i.rd, Wrap(PC + i.U), PC + 4)
    BY <1>3, <1>11 DEF Upper
  <2>2. UNCHANGED Rv32!Storage
    BY <2>1, StorageStep
  <2> QED BY <1>3, <2>1, <2>2, RetireStep, SameNumbers DEF Rv32!Upper
<1>12. CASE Jump(d)
  <2>1. CASE i.op = "jal" /\ Retire(i.op, i.rd, Wrap(PC + 4), PC + i.J) /\ UNCHANGED memory
    BY <1>3, <2>1, StorageStep, RetireStep, SameNumbers DEF Rv32!Jump
  <2>2. CASE i.op = "jalr" /\ Retire(i.op, i.rd, Wrap(PC + 4), rg[d.rs1] + i.I) /\ UNCHANGED memory
    <3>1. d.rs1 = i.rs1 /\ i.rs1 \in 0..31 /\ rg \in [0..31 -> Ints]
      BY <1>5, <1>7, <2>2 DEF InstructionOK, TypeOK
    <3>2. rg[d.rs1] = Regs[i.rs1]
      BY <1>2, <2>2, <3>1 DEF LooseJump, Regs
    <3>3. v1(i) = Regs[i.rs1] /\ (v1(i) + i.I) % 2 = 0
      BY <1>2, <2>2 DEF LooseJump, v1
    <3>4. Regs[i.rs1] + i.I \in Int
      <4>1. Regs[i.rs1] \in Int
        BY <1>7, <1>a, <2>2
      <4> QED BY <1>9, <4>1
    <3>5. Rv32!Even(Regs[i.rs1] + i.I) = Regs[i.rs1] + i.I
      BY <3>3, <3>4 DEF Rv32!Even
    <3> QED BY <1>3, <2>2, <3>2, <3>5, StorageStep, RetireStep, SameNumbers DEF Rv32!Jump
  <2> QED BY <1>3, <1>12, <2>1, <2>2 DEF Jump
<1>13. CASE type_B(d)
  <2> DEFINE t == Taken(i.op, v1(d), v2(d))
  <2>1. /\ i.op \in {"beq", "bne", "blt", "bge", "bltu", "bgeu"}
        /\ Proceed(i.op, PC + IF t THEN i.B ELSE 4)
        /\ UNCHANGED <<memory, console>>
    BY <1>3, <1>13 DEF type_B
  <2>2. t = Rv32!Taken(i.op, Regs[i.rs1], Regs[i.rs2])
    BY <1>7, <2>1, SameNumbers DEF Taken, Rv32!Taken
  <2> HIDE DEF t
  <2>3. Regs' = Regs /\ PC' = Rv32!Wrap(PC + IF t THEN i.B ELSE 4) /\ phase' = "fetch"
    BY <2>1, ProceedStep
  <2> QED BY <2>1, <2>2, <2>3, StorageStep DEF Rv32!Branch
<1>14. CASE type_R(d)
  <2>1. /\ i.op \in {"add", "sub", "sll", "slt", "sltu", "xor", "srl", "sra", "or", "and"}
        /\ Retire(i.op, i.rd, SumOf(i.op, v1(d), v2(d)), PC + 4) /\ UNCHANGED memory
    BY <1>3, <1>14 DEF type_R
  <2>2. i.op = "srl" => v1(d) >= 0
    BY <1>2, <1>8, <1>a DEF SignedShift
  <2>3. SumOf(i.op, v1(d), v2(d)) = Rv32!Result(i.op, Regs[i.rs1], Regs[i.rs2])
    BY <1>6, <1>7, <2>1, <2>2, SumSame
  <2> QED BY <1>3, <2>1, <2>3, StorageStep, RetireStep
          DEF Rv32!Compute, Rv32!RegisterOps, Rv32!ImmediateOps, Rv32!ShiftOps
<1>15. CASE helper_extension(d)
  <2>1. /\ i.op \in {"mul", "mulh", "mulhsu", "mulhu", "div", "divu", "rem", "remu"}
        /\ v1(d) = v1(i) /\ v2(d) = v2(i)
    BY <1>3, <1>8, <1>15 DEF helper_extension
  <2>2. ~Undefined(i.op, v1(d), v2(d))
    BY <1>2, <2>1
  <2>3. Retire(i.op, i.rd, ProductOf(i.op, v1(d), v2(d)), PC + 4) /\ UNCHANGED memory
    BY <1>3, <1>15, <2>2 DEF helper_extension
  <2>4. (i.op = "mulhu" => v1(d) >= 0 /\ v2(d) >= 0) /\ (i.op = "mulhsu" => v2(d) >= 0)
    BY <1>2, <1>a, <2>1 DEF SignedProduct
  <2>5. ProductOf(i.op, v1(d), v2(d)) = Rv32!Result(i.op, Regs[i.rs1], Regs[i.rs2])
    <3>1. v1(d) = Regs[i.rs1] /\ v2(d) = Regs[i.rs2]
      BY <1>7, <2>1
    <3> QED BY <1>6, <2>1, <2>2, <2>4, <3>1, ProductSame
  <2> QED BY <1>3, <2>1, <2>3, <2>5, StorageStep, RetireStep
          DEF Rv32!Compute, Rv32!RegisterOps, Rv32!ImmediateOps, Rv32!ShiftOps
<1>16. CASE type_I2(d)
  <2> DEFINE m == IF i.op \in {"slli", "srli", "srai"} THEN i.rs2 ELSE i.I
  <2>1. /\ i.op \in {"addi", "slti", "sltiu", "xori", "ori", "andi", "slli", "srli", "srai"}
        /\ Retire(i.op, i.rd, ImmediateOf(i.op, v1(d), i.I, i.rs2), PC + 4) /\ UNCHANGED memory
    BY <1>3, <1>16 DEF type_I2
  <2>2. i.op = "srli" => v1(d) >= 0
    BY <1>2, <1>8, <1>a DEF SignedShift
  <2>3. ImmediateOf(i.op, v1(d), i.I, i.rs2) = Rv32!Result(i.op, Regs[i.rs1], m)
    BY <1>6, <1>7, <1>9, <2>1, <2>2, ImmediateSame
  <2>4. m = CASE i.op \in Rv32!RegisterOps  -> Regs[i.rs2]
              [] i.op \in Rv32!ImmediateOps -> i.I
              [] i.op \in Rv32!ShiftOps     -> i.rs2
    BY <2>1 DEF Rv32!RegisterOps, Rv32!ImmediateOps, Rv32!ShiftOps
  <2> HIDE DEF m
  <2>5. i.op \in Rv32!ImmediateOps \cup Rv32!ShiftOps
    BY <2>1 DEF Rv32!ImmediateOps, Rv32!ShiftOps
  <2> QED BY <1>3, <2>1, <2>3, <2>4, <2>5, StorageStep, RetireStep DEF Rv32!Compute
<1>17. CASE type_I(d)
  <2> DEFINE at == Address(Wrap(v1(d) + i.I))
             n == IF i.op \in {"lb", "lbu"} THEN 1 ELSE IF i.op \in {"lh", "lhu"} THEN 2 ELSE 4
             v == CASE i.op = "lb" -> Extended(result', 1)
                    [] i.op = "lh" -> Extended(result', 2)
                    [] i.op \in {"lw", "lbu", "lhu"} -> ValueOf(result')
  <2>1. /\ \/ i.op \in {"lb", "lbu"} /\ memory_rd_b(at)
           \/ i.op \in {"lh", "lhu"} /\ memory_rd_h(at)
           \/ i.op = "lw" /\ memory_rd_w(at)
        /\ \/ running' /\ Retire(i.op, i.rd, v, PC + 4)
           \/ ~running' /\ UNCHANGED <<phase, rg, PC, console>>
    BY <1>3, <1>17 DEF type_I, Then
  <2>2. v1(d) = Regs[i.rs1] /\ i.op \in {"lb", "lh", "lw", "lbu", "lhu"}
    BY <1>7, <2>1
  <2>3. at \in Addresses /\ MemoryTypeOK
    <3>1. v1(d) + i.I \in Int
      BY <1>9, <1>a
    <3> QED BY <3>1, WrapType, AddressType, IntsAre DEF TypeOK
  <2>4. n = Rv32!Width(i.op) /\ n \in {1, 2, 4}
    BY <2>2 DEF Rv32!Width
  <2>5. Bytes!Read(at, n) /\ TypesKept
    <3> HIDE DEF at
    <3> QED BY <2>1, <2>3, MemoryAssumption, MemoryImplements
  <2>6. Rv32!Read(at, n)
    BY <2>5, SameAccess
  <2>7. running' => v = IF i.op \in {"lb", "lh"} THEN Rv32!Extended(result', n)
                        ELSE Rv32!Wrap(Rv32!Joined(result', n))
    <3> SUFFICES ASSUME running'
                 PROVE  v = IF i.op \in {"lb", "lh"} THEN Extended(result', n)
                            ELSE Wrap(Joined(result', n))
      BY SameNumbers, SameJoined
    <3>1. result' \in Word
      BY <2>5 DEF TypesKept
    <3>2. \A l \in 0..3 : l >= n => result'[l] = 0
      BY <2>4, <2>5, Constants DEF Bytes!Read, Bytes!Unaligned, Bytes!Load
    <3>3. Joined(result', 4) = Joined(result', n)
      BY <2>4, <3>1, <3>2, Constants, JoinedZero
    <3> QED BY <2>2, <3>3 DEF ValueOf
  <2>8. running' => Rv32!Retire(i.rd, v, PC + 4) /\ phase' = "fetch"
    <3> HIDE DEF v
    <3> QED BY <1>3, <2>1, RetireStep
  <2>9. UNCHANGED console
    <3> HIDE DEF v
    <3> QED BY <1>3, <2>1, RetireStep
  <2> QED BY <2>2, <2>4, <2>6, <2>7, <2>8, <2>9, SameNumbers DEF Rv32!LoadInto
<1>18. CASE type_S(d)
  <2> DEFINE at == Address(Wrap(v1(d) + i.S))
             w == BytesOf(v2(d))
             n == IF i.op = "sb" THEN 1 ELSE IF i.op = "sh" THEN 2 ELSE 4
  <2>1. /\ \/ i.op = "sb" /\ memory_wr_b(at, w)
           \/ i.op = "sh" /\ memory_wr_h(at, w)
           \/ i.op = "sw" /\ memory_wr_w(at, w)
        /\ \/ running' /\ Proceed(i.op, PC + 4) /\ UNCHANGED console
           \/ ~running' /\ UNCHANGED <<phase, rg, PC, console>>
    BY <1>3, <1>18 DEF type_S, Then
  <2>2. v1(d) = Regs[i.rs1] /\ v2(d) = Regs[i.rs2] /\ i.op \in {"sb", "sh", "sw"}
    BY <1>7, <2>1
  <2>3. at \in Addresses /\ MemoryTypeOK /\ w \in Word
    <3>1. v1(d) + i.S \in Int
      BY <1>9, <1>a
    <3> QED BY <1>6, <3>1, WrapType, AddressType, IntsAre, Constants, BytesType DEF TypeOK
  <2>4. n = Rv32!Width(i.op)
    BY <2>2 DEF Rv32!Width
  <2>5. Bytes!Write(at, n, w)
    <3> HIDE DEF at, w
    <3> QED BY <2>1, <2>3, MemoryAssumption, MemoryImplements
  <2>6. Rv32!Write(at, n, w)
    BY <2>5, SameAccess
  <2>7. running' => PC' = Rv32!Wrap(PC + 4) /\ phase' = "fetch"
    BY <2>1, ProceedStep
  <2>8. UNCHANGED <<Regs, console>>
    <3>1. CASE Proceed(i.op, PC + 4) /\ UNCHANGED console
      BY <3>1, ProceedStep
    <3>2. CASE UNCHANGED <<phase, rg, PC, console>>
      BY <3>2 DEF Regs
    <3> QED BY <2>1, <3>1, <3>2
  <2> QED BY <2>2, <2>4, <2>6, <2>7, <2>8, SameNumbers DEF Rv32!StoreFrom
<1>19. CASE Ecall(d)
  <2>1. i.op = "ecall" /\ UNCHANGED memory /\ UNCHANGED Rv32!Storage
    BY <1>3, <1>19, StorageStep DEF Ecall
  <2>2. rg[17] \in {1, 2, 3, 93} /\ Regs[17] = rg[17]
    BY <1>1, <2>1 DEF a7, Regs, TypeOK
  <2>3. CASE rg[a7] = 1 /\ \E c \in Chars : Retire(i.op, a0, c, PC + 4)
    <3>1. PICK c \in Chars : Retire(i.op, 10, c, PC + 4)
      BY <2>3 DEF a0
    <3>2. Rv32!Retire(10, c, PC + 4) /\ phase' = "fetch" /\ UNCHANGED console
      BY <3>1, RetireStep
    <3> QED BY <2>1, <2>2, <2>3, <3>2 DEF Rv32!Environment, a7
  <2>4. CASE rg[a7] = 2 /\ Proceed(i.op, PC + 4) /\ console' = Append(console, Regs[a0] % Base)
    <3>1. Regs' = Regs /\ PC' = Rv32!Wrap(PC + 4) /\ phase' = "fetch"
      BY <2>4, ProceedStep
    <3> QED BY <2>1, <2>2, <2>4, <3>1 DEF Rv32!Environment, a7, a0
  <2>5. CASE rg[a7] \in {3, 93} /\ phase' = "returned" /\ rg' = Regs /\ UNCHANGED <<PC, console>>
    <3>1. Regs' = Regs
      <4>1. Regs' = [rg' EXCEPT ![0] = 0]
        BY DEF Regs
      <4> QED BY <2>5, <4>1, RegsTwice
    <3> QED BY <2>1, <2>2, <2>5, <3>1 DEF Rv32!Environment, a7
  <2> QED BY <1>3, <1>19, <2>2, <2>3, <2>4, <2>5 DEF Ecall, a7
<1>20. CASE NoCase(d)
  BY <1>3, <1>20 DEF NoCase
<1>21. CASE LogFails(d)
  BY <1>2, <1>21 DEF LogFails, NoPlace
<1> QED BY <1>4, <1>11, <1>12, <1>13, <1>14, <1>15, <1>16, <1>17, <1>18, <1>19, <1>20, <1>21

\* Each instruction is decoded as RV32IM says, and whatever the program, its operands
\* and the memory are, it does what RV32IM says, but for the deviations.
THEOREM MachineExecutes == Spec => Executes
<1> DEFINE A == /\ Fetch => Rv32!Fetch
                /\ Execute => DecodedTrue
                /\ Execute /\ ~Deviates => Rv32!Execute
<1>1. TypeOK /\ [Next]_vars => [A]_vars
  <2>1. TypeOK => A
    BY FetchStep, DecodedStep, ExecuteStep
  <2> QED BY <2>1
<1>2. Executes <=> [][A]_vars
  BY DEF Executes
<1> HIDE DEF A
<1> QED BY <1>1, <1>2, MachineTypes, PTL DEF Spec

-----------------------------------------------------------------------------
(* The log.                                                                *)

\* The lines before the m-th that have a text for address n, and that the table has the
\* last of them.
TextLines(n, m) == {k \in 1..(m - 1) : /\ file[k].kind = "insn" /\ Wrap(file[k].addr) = n
                                       /\ file[k].text # NoText}
Latest(n, m) ==
    \/ TextLines(n, m) = {} /\ TextAt(n) = NoText
    \/ \E k \in TextLines(n, m) : /\ \A j \in TextLines(n, m) : j <= k
                                  /\ TextAt(n) = file[k].text

TextsTrue ==
    running =>
        /\ phase \in {"main", "load"} => \A n \in Ints : Latest(n, line)
        /\ phase \in {"fetch", "execute"} =>
              \A n \in Ints : FileText(n) # NoText => TextAt(n) = FileText(n)

\* The member that no other exceeds is the maximum.
LEMMA MaxIs == ASSUME NEW S \in SUBSET Int, NEW k \in S, \A j \in S : j <= k PROVE Max(S) = k
<1> DEFINE Q(x_) == \A y_ \in S : x_ >= y_
<1>1. k \in Int /\ \A y_ \in S : y_ \in Int
  OBVIOUS
<1>2. Q(k)
  BY <1>1
<1>3. \A m \in S : Q(m) => m = k
  BY <1>1
<1>4. Max(S) = CHOOSE x_ \in S : Q(x_)
  BY DEF Max
<1> HIDE DEF Q
<1>5. Max(S) \in S /\ Q(Max(S))
  BY <1>2, <1>4
<1> QED BY <1>3, <1>5

\* After the last line the table has what the file says last.
LEMMA FileTextIs ==
    ASSUME TypeOK, NEW n, Latest(n, Len(file) + 1)
    PROVE  FileText(n) = TextAt(n)
<1> DEFINE S == TextLines(n, Len(file) + 1)
<1>1. Len(file) \in Nat /\ DOMAIN file = 1..Len(file)
  <2>1. file \in Seq(Line)
    BY DEF TypeOK
  <2> QED BY <2>1
<1>2. S = {k \in DOMAIN file : /\ file[k].kind = "insn" /\ Wrap(file[k].addr) = n
                               /\ file[k].text # NoText}
  BY <1>1 DEF TextLines
<1>3. FileText(n) = IF S = {} THEN NoText ELSE file[Max(S)].text
  BY <1>2 DEF FileText
<1>4. S \in SUBSET Int
  BY <1>1 DEF TextLines
<1>5. \/ S = {} /\ TextAt(n) = NoText
      \/ \E k \in S : (\A j \in S : j <= k) /\ TextAt(n) = file[k].text
  BY DEF Latest
<1> HIDE DEF S
<1>6. CASE S = {}
  BY <1>3, <1>5, <1>6
<1>7. CASE S # {}
  <2>1. PICK k \in S : (\A j \in S : j <= k) /\ TextAt(n) = file[k].text
    BY <1>5, <1>7
  <2>2. Max(S) = k
    BY <1>4, <2>1, MaxIs
  <2> QED BY <1>3, <1>7, <2>1, <2>2
<1> QED BY <1>6, <1>7

\* Before the first line it has nothing.
LEMMA TextsInit == Init => TextsTrue
<1> SUFFICES ASSUME Init PROVE TextsTrue
  OBVIOUS
<1>1. line = 1 /\ texts = <<>> /\ phase = "main"
  BY DEF Init, LoaderInit
<1>2. \A n : TextLines(n, line) = {} /\ TextAt(n) = NoText
  BY <1>1 DEF TextLines, TextAt
<1> QED BY <1>1, <1>2 DEF TextsTrue, Latest

\* A line adds its text and drops no other address's.
LEMMA TextsRead ==
    ASSUME TypeOK, NEW kind, Reading(kind), \A n \in Ints : Latest(n, line),
           \/ UNCHANGED texts /\ (kind # "insn" \/ file[line].text = NoText)
           \/ /\ kind = "insn" /\ file[line].text # NoText /\ file[line].addr \in Ints
              /\ texts' = assembly_set(file[line].addr, file[line].text)
    PROVE  (\A n \in Ints : Latest(n, line))'
<1>1. /\ line \in 1..Len(file) /\ line \in Nat /\ line' = line + 1 /\ file' = file
      /\ file[line].kind = kind
  BY DEF TypeOK, Reading
<1> SUFFICES ASSUME NEW n \in Ints PROVE Latest(n, line)'
  OBVIOUS
<1>2. Latest(n, line)
  OBVIOUS
<1>3. CASE UNCHANGED texts /\ (kind # "insn" \/ file[line].text = NoText)
  <2>1. TextLines(n, line)' = TextLines(n, line)
    BY <1>1, <1>3 DEF TextLines
  <2>2. TextAt(n)' = TextAt(n)
    BY <1>3 DEF TextAt
  <2> QED BY <1>1, <1>2, <2>1, <2>2 DEF Latest
<1>4. CASE /\ kind = "insn" /\ file[line].text # NoText /\ file[line].addr \in Ints
           /\ texts' = assembly_set(file[line].addr, file[line].text)
  <2>1. Wrap(file[line].addr) = file[line].addr
    BY <1>4, WrapSame
  <2>2. CASE file[line].addr = n
    <3>1. TextLines(n, line)' = TextLines(n, line) \cup {line}
      BY <1>1, <1>4, <2>1, <2>2 DEF TextLines
    <3>2. TextAt(n)' = file[line].text
      BY <1>4, <2>2 DEF TextAt, assembly_set
    <3>3. \A j \in TextLines(n, line) : j <= line
      BY <1>1 DEF TextLines
    <3> QED BY <1>1, <3>1, <3>2, <3>3 DEF Latest
  <2>3. CASE file[line].addr # n
    <3>1. TextLines(n, line)' = TextLines(n, line)
      BY <1>1, <2>1, <2>3 DEF TextLines
    <3>2. TextAt(n)' = TextAt(n)
      BY <1>4, <2>3 DEF TextAt, assembly_set
    <3> QED BY <1>1, <1>2, <3>1, <3>2 DEF Latest
  <2> QED BY <2>2, <2>3
<1> QED BY <1>3, <1>4

\* An instruction ends with a line of the log, which has its name, or the program ends.
LEMMA ExecuteLogs ==
    ASSUME TypeOK, Execute
    PROVE  \/ \E op : Log(op) /\ (~Meaningless => \E i \in Meant : i.op = op)
           \/ phase' = "returned"
           \/ ~running' /\ phase' = "execute"
<1> DEFINE d == inst
           L == \E op : Log(op) /\ (~Meaningless => \E i \in Meant : i.op = op)
<1>1. ~Meaningless => \E i \in Meant : i.op = d.op
  BY MeantFields DEF Meaningless
<1>2. d.op = Unknown => Meaningless
  BY MeantFields DEF Meaningless
<1>3. d.op = "ecall" /\ rg[a7] \notin {1, 2, 3, 93} => Meaningless
  BY MeantFields DEF Meaningless
<1>4. phase = "execute"
  BY DEF Execute
<1> DEFINE E == ~running' /\ phase' = "execute"
<1>5. ASSUME Die PROVE E
  BY <1>4, <1>5 DEF Die
<1>6. ASSUME NEW A, Then(A) PROVE A \/ E
  BY <1>4, <1>6 DEF Then
<1>7. ASSUME NEW op, NEW rd, NEW v, NEW n, Retire(op, rd, v, n) PROVE Log(op)
  BY <1>7 DEF Retire
<1>8. ASSUME NEW op, NEW n, Proceed(op, n) PROVE Log(op)
  BY <1>8 DEF Proceed
<1>9. Log(d.op) => L
  BY <1>1
<1>10. \/ Upper(d) \/ Jump(d) \/ type_B(d) \/ type_R(d) \/ helper_extension(d)
       \/ type_I2(d) \/ type_I(d) \/ type_S(d) \/ Ecall(d) \/ NoCase(d) \/ LogFails(d)
  BY DEF Execute
<1> HIDE DEF d, L, E
<1>11. Upper(d) => L
  BY <1>7, <1>9 DEF Upper
<1>12. Jump(d) => L
  BY <1>7, <1>9 DEF Jump
<1>13. type_B(d) => L
  BY <1>8, <1>9 DEF type_B
<1>14. type_R(d) => L
  BY <1>7, <1>9 DEF type_R
<1>15. helper_extension(d) => L \/ E
  BY <1>5, <1>7, <1>9 DEF helper_extension
<1>16. type_I2(d) => L
  BY <1>7, <1>9 DEF type_I2
<1>17. type_I(d) => L \/ E
  <2>1. type_I(d) => \E v : Then(Retire(d.op, d.rd, v, PC + 4))
    BY DEF type_I
  <2>2. \A v : Then(Retire(d.op, d.rd, v, PC + 4)) => Retire(d.op, d.rd, v, PC + 4) \/ E
    BY <1>4 DEF Then, E
  <2> QED BY <1>7, <1>9, <2>1, <2>2
<1>18. type_S(d) => L \/ E
  BY <1>4, <1>8, <1>9 DEF type_S, Then, E
<1>19. Ecall(d) => L \/ phase' = "returned"
  BY <1>7, <1>8, <1>9 DEF Ecall
<1>20. NoCase(d) => L \/ E
  <2>1. NoCase(d) => Log(instr) \/ E
    BY <1>5, <1>8 DEF NoCase
  <2>2. NoCase(d) => Meaningless
    BY <1>2 DEF NoCase, d
  <2> QED BY <2>1, <2>2 DEF L
<1>21. LogFails(d) => E
  BY <1>5 DEF LogFails
<1> QED BY <1>10, <1>11, <1>12, <1>13, <1>14, <1>15, <1>16, <1>17, <1>18, <1>19, <1>20, <1>21
        DEF L, E

\* What an instruction is logged under.
TextOf(op) == IF TextAt(PC) = NoText THEN op ELSE TextAt(PC)

\* What a line of the log has, and what it leaves in the table.
LEMMA LogIs ==
    ASSUME NEW op, Log(op)
    PROVE  /\ file' = file /\ phase' = "fetch"
           /\ option # "-l" => UNCHANGED texts
           /\ option = "-l" => /\ logged' = [at |-> PC, word |-> word, text |-> TextOf(op)]
                               /\ texts' = assembly_set(PC, TextOf(op))
BY DEF Log, TextOf

\* Reading and logging both keep the texts of the file.
LEMMA TextsNext == TypeOK /\ TextsTrue /\ [Next]_vars => TextsTrue'
<1> SUFFICES ASSUME TypeOK, TextsTrue, [Next]_vars, running' PROVE TextsTrue'
  BY DEF TextsTrue
<1>1. ASSUME running,
             UNCHANGED <<file, line, texts>>,
             phase' = phase \/ (phase = "main" /\ phase' = "load") \/ (phase = "fetch" /\ phase' = "execute")
      PROVE  TextsTrue'
  <2>1. \A n : TextLines(n, line)' = TextLines(n, line) /\ TextAt(n)' = TextAt(n)
               /\ FileText(n)' = FileText(n)
    BY <1>1 DEF TextLines, TextAt, FileText
  <2>2. \A n : Latest(n, line)' <=> Latest(n, line)
    BY <1>1, <2>1 DEF Latest
  <2> QED BY <1>1, <2>1, <2>2 DEF TextsTrue
<1>2. CASE Load
  <2>1. CASE PassArg \/ Perform
    BY <1>1, <2>1 DEF PassArg, Perform, reading
  <2>2. CASE Main
    BY <1>1, <2>2 DEF Main, loading, reading, Exit
  <2>3. ASSUME NEW kind, Reading(kind),
               \/ UNCHANGED texts /\ (kind # "insn" \/ file[line].text = NoText)
               \/ /\ kind = "insn" /\ file[line].text # NoText /\ file[line].addr \in Ints
                  /\ texts' = assembly_set(file[line].addr, file[line].text)
        PROVE  TextsTrue'
    <3>1. running /\ phase = "load" /\ phase' = "load"
      BY <2>3 DEF Reading
    <3>2. \A n \in Ints : Latest(n, line)
      BY <3>1 DEF TextsTrue
    <3>3. (\A n \in Ints : Latest(n, line))'
      BY <2>3, <3>2, TextsRead
    <3> QED BY <3>1, <3>3 DEF TextsTrue
  <2>4. CASE ReadData
    BY <2>3, <2>4 DEF ReadData
  <2>5. CASE ReadInsn
    <3> DEFINE l == file[line]
    <3>1. /\ Reading("insn")
          /\ texts' = IF l.text # NoText THEN assembly_set(l.addr, l.text) ELSE texts
      BY <2>5 DEF ReadInsn
    <3>2. l.addr \in Ints
      <4>1. l \in Line /\ l.kind = "insn"
        <5>1. file \in Seq(Line) /\ line \in 1..(Len(file) + 1) /\ line <= Len(file)
              /\ file[line].kind = "insn"
          BY <3>1 DEF Reading, reading, TypeOK
        <5>2. line \in 1..Len(file)
          BY <5>1
        <5> QED BY <5>1, <5>2
      <4>2. l.addr \in 0..(Smallest + Modulus - 1)
        BY <4>1 DEF Line
      <4> QED BY <4>2, Sizes DEF Ints
    <3> QED BY <2>3, <3>1, <3>2
  <2>6. CASE ReadEntry
    BY <2>3, <2>6 DEF ReadEntry
  <2>7. CASE ReadOther
    BY <2>3, <2>7 DEF ReadOther
  <2>8. CASE NoStart
    BY <2>8 DEF NoStart, Exit
  <2> QED BY <1>2, <2>1, <2>2, <2>4, <2>5, <2>6, <2>7, <2>8 DEF Load
<1>3. CASE Start
  <2>1. /\ running /\ phase = "load" /\ phase' = "fetch" /\ UNCHANGED <<file, texts>>
        /\ line > Len(file)
    BY <1>3 DEF Start, loading, reading
  <2>2. line = Len(file) + 1
    <3>1. file \in Seq(Line) /\ line \in 1..(Len(file) + 1)
      BY DEF TypeOK
    <3>2. Len(file) \in Nat
      BY <3>1
    <3> QED BY <2>1, <3>1, <3>2
  <2>3. \A n \in Ints : FileText(n) = TextAt(n)
    BY <2>1, <2>2, FileTextIs DEF TextsTrue
  <2>4. \A n : TextAt(n)' = TextAt(n) /\ FileText(n)' = FileText(n)
    BY <2>1 DEF TextAt, FileText
  <2> QED BY <2>1, <2>3, <2>4 DEF TextsTrue
<1>4. CASE Fetch
  BY <1>1, <1>4 DEF Fetch, loading, reading
<1>5. CASE Execute
  <2>1. running /\ phase = "execute"
    BY <1>5 DEF Execute
  <2>2. CASE phase' = "returned"
    BY <2>2 DEF TextsTrue
  <2>3. ASSUME NEW op, Log(op) PROVE TextsTrue'
    <3>1. phase' = "fetch" /\ file' = file
          /\ (UNCHANGED texts \/ texts' = assembly_set(PC, TextOf(op)))
      BY <2>3, LogIs
    <3>2. \A n : FileText(n)' = FileText(n)
      BY <3>1 DEF FileText
    <3>3. ASSUME NEW n \in Ints, FileText(n) # NoText PROVE TextAt(n)' = FileText(n)
      <4>1. TextAt(n) = FileText(n)
        BY <2>1, <3>3 DEF TextsTrue
      <4>2. CASE UNCHANGED texts
        BY <4>1, <4>2 DEF TextAt
      <4>3. CASE texts' = assembly_set(PC, TextOf(op))
        BY <3>3, <4>1, <4>3 DEF TextAt, assembly_set, TextOf
      <4> QED BY <3>1, <4>2, <4>3
    <3> QED BY <3>1, <3>2, <3>3 DEF TextsTrue
  <2> QED BY <1>5, <2>2, <2>3, ExecuteLogs
<1>6. CASE UNCHANGED vars
  BY <1>1, <1>6 DEF vars, memory, loading, reading
<1> QED BY <1>2, <1>3, <1>4, <1>5, <1>6 DEF Next, Simulation

\* The log has each instruction under the text that the file has for it, however often
\* the table is written before.
THEOREM MachineLogs == Spec => LogTrue
<1> DEFINE A == phase = "execute" /\ phase' = "fetch" /\ option = "-l" /\ ~Meaningless =>
          /\ logged'.at = PC /\ logged'.word = word
          /\ IF FileText(PC) # NoText THEN logged'.text = FileText(PC)
             ELSE IF PC \in DOMAIN texts THEN logged'.text = texts[PC]
             ELSE \E i \in Meant : i.op = logged'.text
<1>1. TypeOK /\ TextsTrue /\ [Next]_vars => [A]_vars
  <2> SUFFICES ASSUME TypeOK, TextsTrue, Next, phase = "execute", phase' = "fetch", option = "-l",
                      ~Meaningless
               PROVE  A
    OBVIOUS
  <2>1. Execute
    BY DEF Next, Simulation, Load, PassArg, Perform, Main, ReadData, ReadInsn, ReadEntry,
           ReadOther, Reading, NoStart, Start, Fetch
  <2>2. PICK op : Log(op) /\ \E i \in Meant : i.op = op
    BY <2>1, ExecuteLogs
  <2>3. logged' = [at |-> PC, word |-> word, text |-> TextOf(op)]
    BY <2>2, LogIs
  <2>4. PC \in Ints /\ (PC \in DOMAIN texts => texts[PC] # NoText)
    BY DEF TypeOK
  <2>5. FileText(PC) # NoText => TextAt(PC) = FileText(PC)
    BY <2>1, <2>4 DEF Execute, TextsTrue
  <2>6. /\ FileText(PC) # NoText => TextOf(op) = FileText(PC)
        /\ PC \in DOMAIN texts => TextOf(op) = texts[PC]
        /\ PC \notin DOMAIN texts => TextOf(op) = op
    BY <2>4, <2>5 DEF TextOf, TextAt
  <2> QED BY <2>2, <2>3, <2>6
<1>2. LogTrue <=> [][A]_vars
  BY DEF LogTrue
<1> HIDE DEF A
<1> QED BY <1>1, <1>2, TextsInit, TextsNext, MachineTypes, PTL DEF Spec

-----------------------------------------------------------------------------
(* What the program finds.  The invariant says of the memory what it will be *)
(* when the writes of the current call are done.                            *)

\* A write is to the address n, and the byte it writes there.
Hit(w, n)   == IF w.size = 4 THEN n \in Address(w.at)..(Address(w.at) + 3) ELSE n = Address(w.at)
Given(w, n) == w.data[n - Address(w.at)]

\* The byte at n once the current call is done.
Will(n, b) ==
    \/ Flat[n] = b /\ \A i \in DOMAIN todo : ~Hit(todo[i], n)
    \/ \E i \in DOMAIN todo : /\ Hit(todo[i], n) /\ Given(todo[i], n) = b
                              /\ \A j \in DOMAIN todo : j > i => ~Hit(todo[j], n)

\* How many bytes a line writes, with what is taken for data, and what it is about.
Extent(l) == IF l.kind = "data" THEN Len(Hexes(l)) ELSE IF l.kind = "insn" THEN 4 ELSE 0
Touches(l, n) == \E j \in 0..(Extent(l) - 1) : Address(l.addr + j) = n
ByteOf(l, j) == IF l.kind = "data" THEN l.hexes[j + 1] ELSE BytesOf(l.word)[j]

\* Byte j of line k is there unless one of the first m lines was written over it.
Image(f, m) == \A k \in 1..m : \A j \in 0..(Size(f[k]) - 1) :
    \/ Will(Address(f[k].addr + j), ByteOf(f[k], j))
    \/ \E i \in (k + 1)..m : Touches(f[i], Address(f[k].addr + j))

\* The address of _start, n, is that of one of the first m lines.
Entered(f, m, n) == n # -1 =>
    \E k \in 1..m : f[k].kind = "entry" /\ f[k].symbol = "_start" /\ n = f[k].addr

\* The arguments end, before t, within the memory, and the file is about addresses before them.
ArgumentsFit(t) == t \in Addresses \cap Ints
Apart(f) == \A k \in DOMAIN f : \A n \in Addresses : n >= ArgBase => ~Touches(f[k], n)

\* The number of the arguments a and the first i of them, with their pointers.
IntWill(n, v) == \A l \in Lanes : Will(n + l, BytesOf(v)[l])
ArgAt(a, k, s, t) ==
    /\ s >= ArgBase + 4 + 4 * Len(a) /\ s + Len(a[k]) + 1 <= t
    /\ IntWill(ArgBase + 4 * k, s)
    /\ \A i \in 1..Len(a[k]) : Will(s + i - 1, a[k][i])
    /\ Will(s + Len(a[k]), 0)
Arguments(f, a, i, t) == ArgumentsFit(t) /\ Apart(f) /\ a # <<>> =>
    /\ IntWill(ArgBase, Len(a))
    /\ \A k \in 1..i : \E s \in Nat : ArgAt(a, k, s, t)

Loading == running /\ (phase \in {"main", "load"} \/ (phase = "fetch" /\ inst_cnt = 0))

Lines == \A k \in DOMAIN file : file[k].kind = "data" => Len(Hexes(file[k])) <= 16

LoadedInv ==
    /\ running /\ phase = "execute" => inst_cnt > 0
    /\ Loading =>
          /\ Lines /\ Image(file, line - 1) /\ Entered(file, line - 1, start_addr)
          /\ Arguments(file, args, index - 1, str_addr)
          /\ str_addr >= ArgBase + 4 + 4 * Len(args)
          /\ phase = "main" => line = 1
          /\ phase # "main" => index > Len(args)
          /\ phase = "fetch" => /\ line > Len(file) /\ todo = <<>>
                                /\ start_addr # -1 /\ PC = Wrap(start_addr)
-----------------------------------------------------------------------------
(* Addresses.                                                              *)

\* Addresses of less than 16 bytes in a row are all different, and those of an aligned
\* word are in a row.
LEMMA AddressRow ==
    ASSUME NEW a \in Int, NEW j \in 0..15, NEW k \in 0..15
    PROVE  /\ Address(a + j) = Address(a + k) => j = k
           /\ Address(a) % 4 = 0 /\ j < 4 => Address(a + j) = Address(a) + j
<1> DEFINE t == PageNumbers * PageWords
<1>1. t \in Nat /\ t >= 4 /\ PageNumbers \in Nat /\ PageWords \in Nat
  BY MemoryAssumption, DataAssumption DEF MemoryAssumption, DataAssumption
<1>2. \A n : Address(n) = n % (t * 4)
  BY DEF Address
<1> HIDE DEF t
<1>3. PICK s \in Nat : s = t * 4 /\ s >= 16
  BY <1>1
<1>4. \A n \in Int : /\ n % s \in 0..(s - 1) /\ n \div s \in Int /\ n = (n \div s) * s + (n % s)
  <2> SUFFICES ASSUME NEW n \in Int
               PROVE  n % s \in 0..(s - 1) /\ n \div s \in Int /\ n = (n \div s) * s + (n % s)
    OBVIOUS
  <2>0. s \in Nat \ {0}
    BY <1>3
  <2>1. n % s \in 0..(s - 1)
    BY <2>0
  <2>2. n \div s \in Int
    BY <2>0
  <2>3. n = (n \div s) * s + (n % s)
    BY <2>0
  <2> QED BY <2>1, <2>2, <2>3
<1>5. ASSUME NEW m \in Int, NEW n \in Int, NEW p \in Int, NEW q \in Int, NEW r \in 0..(s - 1),
             m = p * s + r, n = q * s + r, m - n \in -15..15
      PROVE  m = n
  <2>1. PICK d \in Int : d = p - q
    OBVIOUS
  <2>2. m - n = d * s
    BY <1>3, <1>5, <2>1
  <2>3. d >= 1 => d * s >= 16
    BY <1>3, <2>1
  <2>4. d <= -1 => d * s <= -16
    BY <1>3, <2>1
  <2>5. d = 0
    BY <1>5, <2>1, <2>2, <2>3, <2>4
  <2> QED BY <2>2, <2>5, <1>3
<1>6. ASSUME Address(a + j) = Address(a + k) PROVE j = k
  <2>1. a + j \in Int /\ a + k \in Int /\ (a + j) - (a + k) \in -15..15
    OBVIOUS
  <2>2. (a + j) % s = (a + k) % s
    BY <1>2, <1>3, <1>6
  <2>3. a + j = a + k
    <3> DEFINE m == a + j
               n == a + k
               p == m \div s
               q == n \div s
               r == m % s
    <3>1. m \in Int /\ n \in Int /\ p \in Int /\ q \in Int /\ r \in 0..(s - 1)
      BY <1>4, <2>1
    <3>2. m = p * s + r /\ n = q * s + r
      BY <1>4, <2>1, <2>2
    <3>3. m - n \in -15..15
      BY <2>1
    <3> HIDE DEF m, n, p, q, r
    <3>4. m = n
      BY <1>5, <3>1, <3>2, <3>3
    <3> QED BY <3>4 DEF m, n
  <2> QED BY <2>3
<1>7. ASSUME Address(a) % 4 = 0, j < 4 PROVE Address(a + j) = Address(a) + j
  <2> DEFINE r == a % s
             q == a \div s
  <2>1. Address(a) = r /\ r \in 0..(s - 1) /\ a = q * s + r /\ q \in Int /\ r % 4 = 0
    BY <1>2, <1>3, <1>4, <1>7
  <2> HIDE DEF r, q
  <2>2. r + j \in 0..(s - 1)
    BY <1>1, <1>3, <1>7, <2>1
  <2>3. a + j = q * s + (r + j)
    BY <1>3, <2>1
  <2>4. (a + j) % s = r + j
    <3> DEFINE u == (a + j) % s
               v == (a + j) \div s
    <3>1. u \in 0..(s - 1) /\ v \in Int /\ a + j = v * s + u
      <4>1. a + j \in Int
        OBVIOUS
      <4> QED BY <1>4, <4>1
    <3> HIDE DEF u, v
    <3>2. PICK d \in Int : d = q - v
      BY <2>1, <3>1
    <3>3. u - (r + j) = d * s
      BY <1>3, <2>1, <2>3, <3>1, <3>2
    <3>4. d >= 1 => d * s >= s
      BY <1>3
    <3>5. d <= -1 => d * s <= -s
      BY <1>3
    <3>6. u - (r + j) \in (1 - s)..(s - 1)
      BY <1>3, <2>2, <3>1
    <3>7. d = 0
      BY <1>3, <3>3, <3>4, <3>5, <3>6
    <3> QED BY <1>3, <2>2, <3>1, <3>3, <3>7 DEF u
  <2> QED BY <1>2, <1>3, <2>1, <2>4
<1> QED BY <1>6, <1>7

\* An address is its own.
LEMMA AddressSame == ASSUME NEW n \in Addresses PROVE Address(n) = n /\ n \in Nat
<1> DEFINE s == PageNumbers * PageWords * 4
<1>1. s \in Nat /\ n \in 0..(s - 1)
  BY MemoryAssumption DEF MemoryAssumption, Addresses
<1>2. Address(n) = n % s
  BY DEF Address
<1> HIDE DEF s
<1> QED BY <1>1, <1>2

-----------------------------------------------------------------------------
(* What the calls of the loader do to the bytes.                           *)

\* A word, at an aligned address, or a byte is written, and nothing else.
LEMMA CallFlat ==
    ASSUME TypeOK, NEW a \in Addresses, NEW d \in Word, running'
    PROVE  /\ memory_wr_w(a, d) => /\ a % 4 = 0
                                   /\ Flat' = [n \in Addresses |-> IF n \in a..(a + 3) THEN d[n - a] ELSE Flat[n]]
           /\ memory_wr_b(a, d) =>
                Flat' = [n \in Addresses |-> IF n = a THEN d[n - a] ELSE Flat[n]]
<1>1. MemoryTypeOK /\ a \in Nat
  BY AddressSame DEF TypeOK
<1>2. ASSUME memory_wr_w(a, d)
      PROVE  /\ a % 4 = 0
             /\ Flat' = [n \in Addresses |-> IF n \in a..(a + 3) THEN d[n - a] ELSE Flat[n]]
  <2>1. Bytes!Write(a, 4, d)
    BY <1>1, <1>2, MemoryAssumption, MemoryImplements
  <2>2. a % 4 = 0
    BY <2>1 DEF Bytes!Write, Bytes!Unaligned, Bytes!Store
  <2>3. Flat' = [n \in Addresses |-> IF n \in a..(a + 4 - 1) THEN d[n - a] ELSE Flat[n]]
    BY <2>1 DEF Bytes!Write, Bytes!Unaligned, Bytes!Store
  <2>4. a + 4 - 1 = a + 3
    BY <1>1
  <2> QED BY <2>2, <2>3, <2>4
<1>3. ASSUME memory_wr_b(a, d)
      PROVE  Flat' = [n \in Addresses |-> IF n = a THEN d[n - a] ELSE Flat[n]]
  <2>1. Bytes!Write(a, 1, d)
    BY <1>1, <1>3, MemoryAssumption, MemoryImplements
  <2>2. Flat' = [n \in Addresses |-> IF n \in a..(a + 1 - 1) THEN d[n - a] ELSE Flat[n]]
    BY <2>1 DEF Bytes!Write, Bytes!Unaligned, Bytes!Store
  <2>3. \A n \in Addresses : n \in a..(a + 1 - 1) <=> n = a
    BY <1>1, AddressSame
  <2> QED BY <2>2, <2>3
<1> QED BY <1>2, <1>3

\* Where the memory and the writes to be done are the same, so is what will be.
LEMMA WillSame ==
    ASSUME NEW n, NEW b, Will(n, b), pages' = pages, todo' = todo
    PROVE  Will(n, b)'
BY DEF Will, Flat, Cell, Page, PageNumber, Index, Lane, ZeroPage, ZeroWord

\* A write that is done is one less to be done.
LEMMA WillPerform ==
    ASSUME TypeOK, Perform, running', NEW n \in Addresses, NEW b, Will(n, b)
    PROVE  Will(n, b)'
<1> DEFINE w == Head(todo)
           a == Address(w.at)
<1>1. /\ todo \in Seq([at : Int, size : {1, 4}, data : Word]) /\ todo # <<>>
      /\ todo' = Tail(todo)
      /\ IF w.size = 4 THEN memory_wr_w(a, w.data) ELSE memory_wr_b(a, w.data)
  BY DEF TypeOK, Perform
<1>2. /\ Len(todo) \in Nat /\ Len(todo) >= 1 /\ DOMAIN todo = 1..Len(todo) /\ w = todo[1]
      /\ DOMAIN todo' = 1..(Len(todo) - 1)
      /\ \A i \in 1..(Len(todo) - 1) : todo'[i] = todo[i + 1]
  <2>1. \A T : \A q \in Seq(T) : q # <<>> =>
           /\ Len(q) \in Nat /\ Len(q) >= 1 /\ DOMAIN q = 1..Len(q) /\ Head(q) = q[1]
           /\ DOMAIN Tail(q) = 1..(Len(q) - 1)
           /\ \A i \in 1..(Len(q) - 1) : Tail(q)[i] = q[i + 1]
    OBVIOUS
  <2> QED BY <1>1, <2>1, Zenon
<1>3. w \in [at : Int, size : {1, 4}, data : Word]
  <2>1. \A T : \A q \in Seq(T) : q # <<>> => Head(q) \in T
    OBVIOUS
  <2> QED BY <1>1, <2>1, Zenon
<1>4. a \in Addresses /\ w.data \in Word
  BY <1>3, AddressType
<1>5. Flat'[n] = IF Hit(w, n) THEN Given(w, n) ELSE Flat[n]
  <2>1. w.size = 4 \/ w.size = 1
    BY <1>3
  <2> HIDE DEF w
  <2>2. CASE w.size = 4
    BY <1>1, <1>4, <2>2, CallFlat DEF Hit, Given
  <2>3. CASE w.size # 4
    BY <1>1, <1>4, <2>3, CallFlat DEF Hit, Given
  <2> QED BY <2>2, <2>3
<1> HIDE DEF w, a
<1>6. CASE Flat[n] = b /\ \A i \in DOMAIN todo : ~Hit(todo[i], n)
  <2>1. Flat'[n] = b
    BY <1>2, <1>5, <1>6
  <2>2. \A i \in DOMAIN todo' : ~Hit(todo'[i], n)
    BY <1>2, <1>6
  <2> QED BY <2>1, <2>2 DEF Will, Hit
<1>7. ASSUME NEW i \in DOMAIN todo, Hit(todo[i], n), Given(todo[i], n) = b,
             \A j \in DOMAIN todo : j > i => ~Hit(todo[j], n)
      PROVE  Will(n, b)'
  <2>1. CASE i = 1
    <3>1. Flat'[n] = b
      BY <1>2, <1>5, <1>7, <2>1
    <3>2. \A k \in DOMAIN todo' : ~Hit(todo'[k], n)
      <4> SUFFICES ASSUME NEW k \in DOMAIN todo' PROVE ~Hit(todo'[k], n)
        OBVIOUS
      <4>1. k + 1 \in DOMAIN todo /\ k + 1 > i /\ todo'[k] = todo[k + 1]
        BY <1>2, <2>1
      <4> QED BY <1>7, <4>1
    <3> QED BY <3>1, <3>2 DEF Will, Hit
  <2>2. CASE i # 1
    <3>1. i - 1 \in DOMAIN todo' /\ todo'[i - 1] = todo[i]
      BY <1>2, <2>2
    <3>2. \A k \in DOMAIN todo' : k > i - 1 => ~Hit(todo'[k], n)
      <4> SUFFICES ASSUME NEW k \in DOMAIN todo', k > i - 1 PROVE ~Hit(todo'[k], n)
        OBVIOUS
      <4>1. k + 1 \in DOMAIN todo /\ k + 1 > i /\ todo'[k] = todo[k + 1]
        BY <1>2
      <4> QED BY <1>7, <4>1
    <3> QED BY <1>7, <3>1, <3>2 DEF Will, Hit, Given
  <2> QED BY <2>1, <2>2
<1> QED BY <1>6, <1>7 DEF Will

\* New writes leave the bytes that none of them is to.
LEMMA WillQueue ==
    ASSUME NEW n, NEW b, Will(n, b), todo = <<>>, pages' = pages,
           \A i \in DOMAIN todo' : ~Hit(todo'[i], n)
    PROVE  Will(n, b)'
<1>1. Flat[n] = b
  BY DEF Will
<1>2. Flat' = Flat
  BY DEF Flat, Cell, Page, PageNumber, Index, Lane, ZeroPage, ZeroWord
<1>3. \A i \in DOMAIN todo' : ~Hit(todo[i], n)'
  BY DEF Hit, Address
<1> QED BY <1>1, <1>2, <1>3 DEF Will

\* A write to be done that no later one is over.
LEMMA WillWrite ==
    ASSUME NEW n, NEW b, NEW i \in DOMAIN todo', Hit(todo'[i], n), Given(todo'[i], n) = b,
           \A j \in DOMAIN todo' : j > i => ~Hit(todo'[j], n)
    PROVE  Will(n, b)'
<1>1. Hit(todo[i], n)' /\ Given(todo[i], n)' = b
  BY DEF Hit, Address, Given
<1>2. \A j \in DOMAIN todo' : j > i => ~Hit(todo[j], n)'
  BY DEF Hit, Address
<1> QED BY <1>1, <1>2 DEF Will

-----------------------------------------------------------------------------
(* The lines of the file.                                                  *)

\* What a line is about: its addresses are ints, and its data begins with its hexes.
LEMMA LineType ==
    ASSUME NEW l \in Line
    PROVE  /\ l.kind = "data" => /\ l.addr \in Ints /\ l.addr \in Nat
                                 /\ l.hexes \in Seq(Byte) /\ Hexes(l) \in Seq(Byte)
                                 /\ Len(Hexes(l)) >= Len(l.hexes)
                                 /\ \A j \in 1..Len(l.hexes) : Hexes(l)[j] = l.hexes[j]
           /\ l.kind = "insn" => l.addr \in Ints /\ l.addr \in Nat /\ l.word \in Ints
           /\ l.kind = "entry" => l.addr \in Ints /\ l.addr \in Nat
<1>1. 0..(Smallest + Modulus - 1) \subseteq Ints /\ 0..(Smallest + Modulus - 1) \subseteq Nat
  BY Sizes DEF Ints
<1>2. ASSUME l.kind = "data"
      PROVE  /\ l.addr \in Ints /\ l.addr \in Nat /\ l.hexes \in Seq(Byte) /\ l.ascii \in Seq(Byte)
  BY <1>1, <1>2 DEF Line
<1>3. \A T : \A q \in Seq(T), r \in Seq(T) :
         /\ q \o r \in Seq(T) /\ Len(q \o r) >= Len(q) /\ Len(q) >= Len(q)
         /\ \A j \in 1..Len(q) : (q \o r)[j] = q[j]
  OBVIOUS
<1>4. ASSUME l.kind = "data"
      PROVE  /\ Hexes(l) \in Seq(Byte) /\ Len(Hexes(l)) >= Len(l.hexes)
             /\ \A j \in 1..Len(l.hexes) : Hexes(l)[j] = l.hexes[j]
  BY <1>2, <1>3, <1>4, ZenonT(60) DEF Hexes
<1>5. l.kind = "insn" => l.addr \in Ints /\ l.addr \in Nat /\ l.word \in Ints
  BY <1>1 DEF Line
<1>6. l.kind = "entry" => l.addr \in Ints /\ l.addr \in Nat
  BY <1>1 DEF Line
<1> QED BY <1>2, <1>4, <1>5, <1>6

\* The lines that are read have a type, and the bytes they are about an address.
LEMMA FileType ==
    ASSUME TypeOK
    PROVE  /\ Len(file) \in Nat /\ DOMAIN file = 1..Len(file) /\ line \in 1..(Len(file) + 1)
           /\ \A k \in 1..Len(file) : file[k] \in Line
           /\ \A k \in 1..Len(file) : \A j \in 0..(Size(file[k]) - 1) :
                 file[k].addr + j \in Int /\ Address(file[k].addr + j) \in Addresses
<1>1. file \in Seq(Line) /\ line \in 1..(Len(file) + 1)
  BY DEF TypeOK
<1>2. \A T : \A q \in Seq(T) : Len(q) \in Nat /\ DOMAIN q = 1..Len(q) /\ \A k \in 1..Len(q) : q[k] \in T
  OBVIOUS
<1>3. Len(file) \in Nat /\ DOMAIN file = 1..Len(file) /\ \A k \in 1..Len(file) : file[k] \in Line
  BY <1>1, <1>2, Zenon
<1>4. ASSUME NEW k \in 1..Len(file), NEW j \in 0..(Size(file[k]) - 1)
      PROVE  file[k].addr + j \in Int /\ Address(file[k].addr + j) \in Addresses
  <2>1. file[k].kind = "data" \/ file[k].kind = "insn"
    <3>1. Size(file[k]) # 0
      OBVIOUS
    <3> QED BY <3>1 DEF Size
  <2>2. file[k].addr \in Nat
    BY <1>3, <2>1, LineType
  <2>3. j \in Int
    OBVIOUS
  <2>4. file[k].addr + j \in Int
    BY <2>2, <2>3
  <2> QED BY <2>4, AddressType
<1> QED BY <1>1, <1>3, <1>4

\* A byte of the memory that stays what it will be.
KeptAt(n) == \A b : Will(n, b) => Will(n, b)'

\* The lines that have been read keep their bytes if no byte changes.
LEMMA ImageKept ==
    ASSUME NEW f, NEW m \in Int, Image(f, m),
           \A k \in 1..m : \A j \in 0..(Size(f[k]) - 1) : Address(f[k].addr + j) \in Addresses,
           \A n \in Addresses : KeptAt(n)
    PROVE  Image(f, m)'
BY DEF Image, KeptAt

\* One more line is read: its bytes get there, and those that it does not touch stay.
LEMMA ImageRead ==
    ASSUME NEW f, NEW m \in Nat, Image(f, m),
           \A k \in 1..m : \A j \in 0..(Size(f[k]) - 1) : Address(f[k].addr + j) \in Addresses,
           \A n \in Addresses : Touches(f[m + 1], n) \/ KeptAt(n),
           \A j \in 0..(Size(f[m + 1]) - 1) :
              Will(Address(f[m + 1].addr + j), ByteOf(f[m + 1], j))'
    PROVE  Image(f, m + 1)'
<1> SUFFICES ASSUME NEW k \in 1..(m + 1), NEW j \in 0..(Size(f[k]) - 1)
             PROVE  \/ Will(Address(f[k].addr + j), ByteOf(f[k], j))'
                    \/ \E i \in (k + 1)..(m + 1) : Touches(f[i], Address(f[k].addr + j))
  BY DEF Image
<1>1. CASE k = m + 1
  BY <1>1
<1>2. CASE k # m + 1
  <2>1. k \in 1..m /\ m + 1 \in (k + 1)..(m + 1) /\ (k + 1)..m \subseteq (k + 1)..(m + 1)
    BY <1>2
  <2>2. Address(f[k].addr + j) \in Addresses
    BY <2>1
  <2>3. \/ Will(Address(f[k].addr + j), ByteOf(f[k], j))
        \/ \E i \in (k + 1)..m : Touches(f[i], Address(f[k].addr + j))
    BY <2>1 DEF Image
  <2>4. Touches(f[m + 1], Address(f[k].addr + j)) \/ KeptAt(Address(f[k].addr + j))
    BY <2>2
  <2> QED BY <2>1, <2>3, <2>4 DEF KeptAt
<1> QED BY <1>1, <1>2

\* The arguments keep their bytes if those from the base on do not change.
LEMMA ArgumentsKept ==
    ASSUME NEW f, NEW a \in Seq(Seq(Byte \ {0})), NEW i \in 0..Len(a), NEW t \in Nat,
           t >= ArgBase + 4 + 4 * Len(a), Arguments(f, a, i, t),
           ArgumentsFit(t) /\ Apart(f) =>
              \A n \in Addresses : n >= ArgBase => KeptAt(n)
    PROVE  Arguments(f, a, i, t)'
<1> SUFFICES ASSUME ArgumentsFit(t), Apart(f), a # <<>>
             PROVE  /\ IntWill(ArgBase, Len(a))'
                    /\ \A k \in 1..i : \E s \in Nat : ArgAt(a, k, s, t)'
  BY DEF Arguments, ArgumentsFit, Apart
<1>1. ArgBase \in Nat /\ Len(a) \in Nat /\ \A k \in 1..i : Len(a[k]) \in Nat
  BY Constants
<1>2. \A n \in ArgBase..t : n \in Addresses /\ KeptAt(n)
  <2>1. PageNumbers * PageWords * 4 \in Nat
    BY MemoryAssumption DEF MemoryAssumption
  <2> DEFINE u == PageNumbers * PageWords * 4
  <2>2. t \in 0..(u - 1)
    BY DEF ArgumentsFit, Addresses
  <2> HIDE DEF u
  <2>3. \A n \in ArgBase..t : n \in 0..(u - 1)
    BY <1>1, <2>1, <2>2 DEF u
  <2>4. \A n \in ArgBase..t : n \in Addresses
    BY <2>3 DEF u, Addresses
  <2> QED BY <1>1, <2>4
<1>3. ASSUME NEW n \in Nat, NEW v, n >= ArgBase, n + 3 <= t, IntWill(n, v) PROVE IntWill(n, v)'
  <2> SUFFICES ASSUME NEW l \in Lanes PROVE Will(n + l, BytesOf(v)[l])'
    BY DEF IntWill
  <2>1. n + l \in ArgBase..t
    BY <1>1, <1>3 DEF Lanes
  <2> QED BY <1>2, <1>3, <2>1 DEF IntWill, KeptAt
<1>4. IntWill(ArgBase, Len(a))'
  BY <1>1, <1>3 DEF Arguments
<1>5. ASSUME NEW k \in 1..i PROVE \E s \in Nat : ArgAt(a, k, s, t)'
  <2>1. PICK s \in Nat : ArgAt(a, k, s, t)
    BY DEF Arguments
  <2>2. s >= ArgBase + 4 + 4 * Len(a) /\ s + Len(a[k]) + 1 <= t
    BY <2>1 DEF ArgAt
  <2>3. IntWill(ArgBase + 4 * k, s)'
    <3>1. ArgBase + 4 * k \in Nat /\ ArgBase + 4 * k >= ArgBase /\ ArgBase + 4 * k + 3 <= t
      BY <1>1, <2>2
    <3> QED BY <1>3, <2>1, <3>1 DEF ArgAt
  <2>4. \A j \in 1..Len(a[k]) : Will(s + j - 1, a[k][j])'
    <3> SUFFICES ASSUME NEW j \in 1..Len(a[k]) PROVE Will(s + j - 1, a[k][j])'
      OBVIOUS
    <3>1. s + j - 1 \in ArgBase..t
      BY <1>1, <2>2
    <3> QED BY <1>2, <2>1, <3>1 DEF ArgAt, KeptAt
  <2>5. Will(s + Len(a[k]), 0)'
    <3>1. s + Len(a[k]) \in ArgBase..t
      BY <1>1, <2>2, SMTT(60)
    <3> QED BY <1>2, <2>1, <3>1 DEF ArgAt, KeptAt
  <2> QED BY <2>2, <2>3, <2>4, <2>5 DEF ArgAt
<1> QED BY <1>4, <1>5

\* The addresses of the lines that have been read.
LEMMA ReadType ==
    ASSUME TypeOK, NEW m \in Int, m <= Len(file)
    PROVE  \A k \in 1..m : \A j \in 0..(Size(file[k]) - 1) : Address(file[k].addr + j) \in Addresses
<1>1. \A k \in 1..m : k \in 1..Len(file)
  BY FileType
<1> QED BY <1>1, FileType

\* What has been read and passed is kept by a step that keeps all bytes.
LEMMA LoadedKept ==
    ASSUME TypeOK, LoadedInv,
           UNCHANGED <<file, args, index, str_addr, line, start_addr, PC, inst_cnt>>,
           phase' = phase \/ (phase = "main" /\ phase' = "load" /\ index > Len(args)),
           phase = "fetch" => todo' = todo,
           running' => running /\ \A n \in Addresses : KeptAt(n)
    PROVE  LoadedInv'
<1>1. /\ args \in Seq(Seq(Byte \ {0})) /\ index - 1 \in 0..Len(args) /\ str_addr \in Nat
      /\ Len(file) \in Nat /\ line - 1 \in Int /\ line - 1 <= Len(file)
  <2>1. /\ args \in Seq(Seq(Byte \ {0})) /\ index \in 1..(Len(args) + 1) /\ str_addr \in Nat
        /\ Len(args) \in Nat
    BY DEF TypeOK
  <2>2. Len(file) \in Nat /\ line - 1 \in Int /\ line - 1 <= Len(file)
    BY FileType
  <2> QED BY <2>1, <2>2
<1>2. running' /\ phase' = "execute" => inst_cnt' > 0
  BY DEF LoadedInv
<1>3. ASSUME Loading'
      PROVE  /\ Image(file, line - 1)'
             /\ Arguments(file, args, index - 1, str_addr)'
             /\ Loading
  <2>1. Loading /\ \A n \in Addresses : KeptAt(n)
    BY <1>3 DEF Loading
  <2>2. PICK f, m, a, i, t : f = file /\ m = line - 1 /\ a = args /\ i = index - 1 /\ t = str_addr
    OBVIOUS
  <2>3. Image(f, m) /\ Arguments(f, a, i, t) /\ t >= ArgBase + 4 + 4 * Len(a)
    BY <2>1, <2>2 DEF LoadedInv
  <2>4. \A k \in 1..m : \A j \in 0..(Size(f[k]) - 1) : Address(f[k].addr + j) \in Addresses
    BY <1>1, <2>2, ReadType
  <2>5. Image(f, m)'
    BY <1>1, <2>1, <2>2, <2>3, <2>4, ImageKept
  <2>6. Arguments(f, a, i, t)'
    BY <1>1, <2>1, <2>2, <2>3, ArgumentsKept
  <2>7. f = file' /\ m = line' - 1 /\ a = args' /\ i = index' - 1 /\ t = str_addr'
    BY <2>2
  <2> QED BY <2>1, <2>5, <2>6, <2>7
<1>4. ASSUME Loading'
      PROVE  /\ Entered(file, line - 1, start_addr)'
             /\ str_addr' >= ArgBase + 4 + 4 * Len(args') /\ Lines'
             /\ phase' = "main" => line' = 1
             /\ phase' # "main" => index' > Len(args')
             /\ phase' = "fetch" => /\ line' > Len(file') /\ todo' = <<>>
                                    /\ start_addr' # -1 /\ PC' = Wrap(start_addr')
  BY <1>3, <1>4 DEF LoadedInv, Lines
<1> QED BY <1>2, <1>3, <1>4 DEF LoadedInv

\* One more line has been read.
LEMMA LoadedRead ==
    ASSUME TypeOK, LoadedInv, NEW kind, Reading(kind), UNCHANGED <<PC, inst_cnt>>,
           NEW l, l = file[line],
           start_addr' = IF kind = "entry" /\ file[line].symbol = "_start" THEN file[line].addr
                         ELSE start_addr,
           running' => \A n \in Addresses : Touches(l, n) \/ KeptAt(n),
           running' => \A j \in 0..(Size(l) - 1) : Will(Address(l.addr + j), ByteOf(l, j))'
    PROVE  LoadedInv'
<1>1. /\ args \in Seq(Seq(Byte \ {0})) /\ index - 1 \in 0..Len(args) /\ str_addr \in Nat
      /\ Len(file) \in Nat /\ line - 1 \in Nat /\ line - 1 <= Len(file)
  <2>1. /\ args \in Seq(Seq(Byte \ {0})) /\ index \in 1..(Len(args) + 1) /\ str_addr \in Nat
        /\ Len(args) \in Nat
    BY DEF TypeOK
  <2>2. Len(file) \in Nat /\ line - 1 \in Nat /\ line - 1 <= Len(file)
    BY FileType
  <2> QED BY <2>1, <2>2
<1>2. /\ running /\ phase = "load" /\ line \in 1..Len(file) /\ file[line].kind = kind
      /\ line' = line + 1 /\ line' - 1 = (line - 1) + 1 /\ line - 1 + 1 = line
      /\ UNCHANGED <<file, args, index, str_addr, phase>>
  <2>1. /\ running /\ phase = "load" /\ line <= Len(file) /\ file[line].kind = kind
        /\ line' = line + 1 /\ UNCHANGED <<file, args, index, str_addr, phase>>
    BY DEF Reading, passing
  <2>2. Len(file) \in Nat /\ line \in 1..(Len(file) + 1)
    BY FileType
  <2> QED BY <2>1, <2>2
<1>3. Lines' /\ Loading
  BY <1>2 DEF LoadedInv, Lines, Loading
<1>4. ASSUME Loading'
      PROVE  /\ Image(file, line - 1)'
             /\ Arguments(file, args, index - 1, str_addr)'
  <2>1. running'
    BY <1>4 DEF Loading
  <2>2. PICK f, m, a, i, t : f = file /\ m = line - 1 /\ a = args /\ i = index - 1 /\ t = str_addr
    OBVIOUS
  <2>3. Image(f, m) /\ Arguments(f, a, i, t) /\ t >= ArgBase + 4 + 4 * Len(a)
    BY <1>3, <2>2 DEF LoadedInv
  <2>4. \A k \in 1..m : \A j \in 0..(Size(f[k]) - 1) : Address(f[k].addr + j) \in Addresses
    BY <1>1, <2>2, ReadType
  <2>5. file[line] = f[m + 1] /\ m \in Nat /\ m + 1 \in DOMAIN f
    BY <1>1, <1>2, <2>2, FileType
  <2>6. Image(f, m + 1)'
    <3>1. \A n \in Addresses : Touches(f[m + 1], n) \/ KeptAt(n)
      BY <2>1, <2>5
    <3>2. \A j \in 0..(Size(f[m + 1]) - 1) : Will(Address(f[m + 1].addr + j), ByteOf(f[m + 1], j))'
      BY <2>1, <2>5
    <3> QED BY <2>3, <2>4, <2>5, <3>1, <3>2, ImageRead
  <2>7. Apart(f) => \A n \in Addresses : n >= ArgBase => KeptAt(n)
    BY <2>1, <2>5 DEF Apart
  <2>8. Arguments(f, a, i, t)'
    BY <1>1, <2>2, <2>3, <2>7, ArgumentsKept
  <2>9. f = file' /\ m + 1 = line' - 1 /\ a = args' /\ i = index' - 1 /\ t = str_addr'
    BY <1>2, <2>2
  <2> QED BY <2>6, <2>8, <2>9
<1>5. Entered(file, line - 1, start_addr)'
  <2>1. CASE kind = "entry" /\ file[line].symbol = "_start"
    <3>1. line \in 1..(line' - 1) /\ file'[line] = file[line]
      BY <1>2
    <3> QED BY <1>2, <2>1, <3>1 DEF Entered
  <2>2. CASE ~(kind = "entry" /\ file[line].symbol = "_start")
    <3>1. \A k \in 1..(line - 1) : k \in 1..(line' - 1)
      BY <1>1, <1>2
    <3>2. Entered(file, line - 1, start_addr)
      BY <1>3 DEF LoadedInv
    <3> QED BY <1>2, <2>2, <3>1, <3>2 DEF Entered
  <2> QED BY <2>1, <2>2
<1>6. /\ str_addr' >= ArgBase + 4 + 4 * Len(args')
      /\ phase' = "load" /\ index' > Len(args')
  BY <1>2, <1>3 DEF LoadedInv
<1> QED BY <1>2, <1>3, <1>4, <1>5, <1>6 DEF LoadedInv

-----------------------------------------------------------------------------
(* The steps of the loader.                                                *)

\* The writes of a string hit its addresses with its bytes.
LEMMA BytesHit ==
    ASSUME NEW a \in Int, NEW s \in Seq(Byte)
    PROVE  /\ DOMAIN ByteWrites(a, s) = 1..Len(s) /\ Len(s) \in Nat
           /\ \A i \in 1..Len(s) :
                 /\ \A n : Hit(ByteWrites(a, s)[i], n) <=> n = Address(a + i - 1)
                 /\ Given(ByteWrites(a, s)[i], Address(a + i - 1)) = s[i]
<1>1. DOMAIN s = 1..Len(s) /\ Len(s) \in Nat
  OBVIOUS
<1>2. DOMAIN ByteWrites(a, s) = 1..Len(s)
  BY <1>1 DEF ByteWrites
<1>3. ASSUME NEW i \in 1..Len(s)
      PROVE  /\ \A n : Hit(ByteWrites(a, s)[i], n) <=> n = Address(a + i - 1)
             /\ Given(ByteWrites(a, s)[i], Address(a + i - 1)) = s[i]
  <2>1. PICK w : w = ByteWrites(a, s)[i]
    OBVIOUS
  <2>2. w = [at |-> a + i - 1, size |-> 1, data |-> [l \in Lanes |-> s[i]]]
    BY <1>1, <2>1 DEF ByteWrites
  <2>3. w.at = a + i - 1 /\ w.size = 1 /\ w.data = [l \in Lanes |-> s[i]]
    BY <2>2
  <2>4. \A n : Hit(w, n) <=> n = Address(a + i - 1)
    BY <2>3 DEF Hit
  <2>5. Given(w, Address(a + i - 1)) = s[i]
    <3>1. a + i - 1 \in Int
      OBVIOUS
    <3>2. Address(a + i - 1) \in Nat
      BY <3>1, AddressType, AddressSame
    <3>3. Address(a + i - 1) - Address(a + i - 1) = 0
      BY <3>2
    <3>4. w.data[0] = s[i]
      BY <2>3 DEF Lanes
    <3> QED BY <2>3, <3>3, <3>4 DEF Given
  <2> QED BY <2>1, <2>4, <2>5
<1> QED BY <1>1, <1>2, <1>3

\* A word is written to four addresses.
LEMMA WordHit ==
    ASSUME NEW a \in Addresses, NEW v \in Int
    PROVE  /\ \A n : Hit(WordWrite(a, v), n) <=> n \in a..(a + 3)
           /\ \A l \in Lanes : Given(WordWrite(a, v), a + l) = BytesOf(v)[l]
<1>1. PICK w : w = WordWrite(a, v)
  OBVIOUS
<1>2. w.at = a /\ w.size = 4 /\ w.data = BytesOf(v)
  BY <1>1 DEF WordWrite
<1>3. Address(a) = a /\ a \in Nat
  BY AddressSame
<1>4. \A n : Hit(w, n) <=> n \in a..(a + 3)
  BY <1>2, <1>3 DEF Hit
<1>5. ASSUME NEW l \in Lanes PROVE Given(w, a + l) = BytesOf(v)[l]
  <2>1. (a + l) - a = l
    BY <1>3 DEF Lanes
  <2> QED BY <1>2, <1>3, <2>1 DEF Given
<1> QED BY <1>1, <1>4, <1>5

\* Nothing is written.
LEMMA NothingKept == ASSUME UNCHANGED <<pages, todo>>, NEW n PROVE KeptAt(n)
BY WillSame DEF KeptAt

\* One call is done.
LEMMA PerformLoaded ==
    ASSUME TypeOK, LoadedInv, Perform, UNCHANGED <<PC, inst_cnt>>
    PROVE  LoadedInv'
<1>1. /\ running /\ todo # <<>>
      /\ UNCHANGED <<file, args, index, str_addr, line, start_addr, PC, inst_cnt, phase>>
  BY DEF Perform, passing, reading
<1>2. ASSUME running', NEW n \in Addresses PROVE KeptAt(n)
  BY <1>2, WillPerform DEF KeptAt
<1>3. CASE Loading
  <2>1. phase # "fetch"
    BY <1>1, <1>3 DEF LoadedInv
  <2> QED BY <1>1, <1>2, <2>1, LoadedKept
<1>4. CASE ~Loading
  <2>1. ~Loading'
    BY <1>1, <1>4 DEF Loading
  <2> QED BY <1>1, <2>1 DEF LoadedInv, Lines
<1> QED BY <1>3, <1>4

\* main goes on or ends.
LEMMA MainLoaded ==
    ASSUME TypeOK, LoadedInv, Main, UNCHANGED <<PC, inst_cnt>>
    PROVE  LoadedInv'
<1>1. /\ running /\ phase = "main" /\ index > Len(args)
      /\ UNCHANGED <<file, args, index, str_addr, line, start_addr, PC, inst_cnt, todo>>
      /\ \/ phase' = "load" /\ UNCHANGED pages
         \/ phase' = phase /\ UNCHANGED pages
  BY DEF Main, loading, passing, reading, memory
<1>2. \A n \in Addresses : KeptAt(n)
  BY <1>1, NothingKept
<1> QED BY <1>1, <1>2, LoadedKept

\* Without _start the loader ends.
LEMMA NoStartLoaded ==
    ASSUME TypeOK, LoadedInv, NoStart, UNCHANGED <<PC, inst_cnt>>
    PROVE  LoadedInv'
<1>1. /\ running' = FALSE /\ phase' = phase /\ file' = file
  BY DEF NoStart, Exit, loading
<1> QED BY <1>1 DEF LoadedInv, Lines, Loading

\* A data section is queued.
LEMMA ReadDataLoaded ==
    ASSUME TypeOK, LoadedInv, ReadData, UNCHANGED <<PC, inst_cnt>>
    PROVE  LoadedInv'
<1>1. PICK l : l = file[line]
  OBVIOUS
<1>2. /\ Reading("data") /\ todo = <<>> /\ todo' = ByteWrites(l.addr, Hexes(l))
      /\ UNCHANGED <<pages, start_addr>>
  BY <1>1 DEF ReadData, Reading, memory
<1>3. l \in Line /\ l.kind = "data" /\ Len(Hexes(l)) <= 16
  BY <1>1, FileType DEF ReadData, Reading, LoadedInv, Lines, Loading
<1>4. /\ l.addr \in Int /\ l.hexes \in Seq(Byte) /\ Hexes(l) \in Seq(Byte)
      /\ Len(Hexes(l)) >= Len(l.hexes) /\ \A j \in 1..Len(l.hexes) : Hexes(l)[j] = l.hexes[j]
  BY <1>3, LineType
<1>5. PICK h \in Seq(Byte) : h = Hexes(l)
  BY <1>4
<1>6. /\ DOMAIN todo' = 1..Len(h) /\ Len(h) \in Nat /\ Len(h) <= 16
      /\ \A i \in 1..Len(h) : /\ \A n : Hit(todo'[i], n) <=> n = Address(l.addr + i - 1)
                              /\ Given(todo'[i], Address(l.addr + i - 1)) = h[i]
  <2>1. todo' = ByteWrites(l.addr, h) /\ Len(h) <= 16 /\ l.addr \in Int
    BY <1>2, <1>3, <1>4, <1>5
  <2>2. PICK a \in Int : a = l.addr
    BY <2>1
  <2> QED BY <2>1, <2>2, BytesHit, ZenonT(60)
<1>7. ASSUME NEW n \in Addresses PROVE Touches(l, n) \/ KeptAt(n)
  <2>1. CASE \E i \in 1..Len(h) : n = Address(l.addr + i - 1)
    <3>1. PICK i \in 1..Len(h) : n = Address(l.addr + i - 1)
      BY <2>1
    <3>2. i - 1 \in 0..(Len(h) - 1) /\ l.addr + (i - 1) = l.addr + i - 1
      BY <1>4, <1>6
    <3>3. Address(l.addr + (i - 1)) = n
      BY <3>1, <3>2
    <3> QED BY <1>3, <1>5, <3>2, <3>3 DEF Touches, Extent
  <2>2. CASE \A i \in 1..Len(h) : n # Address(l.addr + i - 1)
    <3>1. \A i \in DOMAIN todo' : ~Hit(todo'[i], n)
      BY <1>6, <2>2
    <3> QED BY <1>2, <3>1, WillQueue DEF KeptAt
  <2> QED BY <2>1, <2>2
<1>8. ASSUME NEW j \in 0..(Size(l) - 1) PROVE Will(Address(l.addr + j), ByteOf(l, j))'
  <2>1. Size(l) = Len(l.hexes) /\ ByteOf(l, j) = l.hexes[j + 1]
    BY <1>3 DEF Size, ByteOf
  <2>2. j + 1 \in 1..Len(l.hexes)
    BY <1>4, <2>1
  <2>3. j + 1 \in 1..Len(h) /\ h[j + 1] = ByteOf(l, j)
    BY <1>4, <1>5, <1>6, <2>1, <2>2
  <2>4. PICK n, i : n = Address(l.addr + j) /\ i = j + 1
    OBVIOUS
  <2>5. l.addr + i - 1 = l.addr + j
    BY <1>4, <2>4
  <2>6. i \in DOMAIN todo' /\ Hit(todo'[i], n) /\ Given(todo'[i], n) = ByteOf(l, j)
    BY <1>6, <2>3, <2>4, <2>5
  <2>7. \A k \in DOMAIN todo' : k > i => ~Hit(todo'[k], n)
    <3> SUFFICES ASSUME NEW k \in 1..Len(h), k > i, n = Address(l.addr + k - 1) PROVE FALSE
      BY <1>6
    <3>1. k - 1 \in 0..15 /\ j \in 0..15 /\ l.addr + (k - 1) = l.addr + k - 1
      BY <1>4, <1>6, <2>3
    <3>2. Address(l.addr + (k - 1)) = Address(l.addr + j)
      BY <2>4, <3>1
    <3>3. k - 1 = j
      BY <1>4, <3>1, <3>2, AddressRow
    <3> QED BY <2>4, <3>3
  <2>8. PICK b : b = ByteOf(l, j)
    OBVIOUS
  <2>9. Will(n, b)'
    BY <2>6, <2>7, <2>8, WillWrite
  <2> QED BY <2>4, <2>8, <2>9
<1>9. start_addr' = IF "data" = "entry" /\ file[line].symbol = "_start" THEN file[line].addr ELSE start_addr
  BY <1>2
<1> QED BY <1>1, <1>2, <1>7, <1>8, <1>9, LoadedRead

\* With nothing to be written a byte will be what it is.
LEMMA WillNow ==
    ASSUME NEW n, NEW b
    PROVE  /\ todo = <<>> => (Will(n, b) <=> Flat[n] = b)
           /\ todo' = <<>> => (Will(n, b)' <=> Flat'[n] = b)
<1>1. todo = <<>> => (Will(n, b) <=> Flat[n] = b)
  BY DEF Will
<1>2. todo' = <<>> => (Will(n, b)' <=> Flat'[n] = b)
  BY DEF Will
<1> QED BY <1>1, <1>2

\* An instruction is written at once.
LEMMA ReadInsnLoaded ==
    ASSUME TypeOK, LoadedInv, ReadInsn, UNCHANGED <<PC, inst_cnt>>
    PROVE  LoadedInv'
<1>1. PICK l : l = file[line]
  OBVIOUS
<1>2. /\ Reading("insn") /\ todo = <<>> /\ todo' = <<>> /\ start_addr' = start_addr
      /\ memory_wr_w(Address(l.addr), BytesOf(l.word))
  BY <1>1 DEF ReadInsn, Reading
<1>3. l \in Line /\ l.kind = "insn"
  BY <1>1, FileType DEF ReadInsn, Reading
<1>4. l.addr \in Int /\ l.word \in Int
  BY <1>3, LineType, IntsAre
<1>5. PICK a \in Addresses, d \in Word : a = Address(l.addr) /\ d = BytesOf(l.word)
  BY <1>4, Constants, BytesType, AddressType
<1>6. a \in Nat
  BY AddressSame
<1>7. ASSUME running'
      PROVE  /\ a % 4 = 0
             /\ Flat' = [n \in Addresses |-> IF n \in a..(a + 3) THEN d[n - a] ELSE Flat[n]]
  BY <1>2, <1>5, <1>7, CallFlat
<1>8. ASSUME running', NEW j \in 0..3 PROVE Address(l.addr + j) = a + j
  BY <1>4, <1>5, <1>7, <1>8, AddressRow
<1>9. ASSUME running', NEW n \in Addresses PROVE Touches(l, n) \/ KeptAt(n)
  <2>1. CASE n \in a..(a + 3)
    <3>1. n - a \in 0..3 /\ a + (n - a) = n
      BY <1>6, <2>1, AddressSame
    <3>2. Address(l.addr + (n - a)) = n
      BY <1>8, <1>9, <3>1
    <3>3. Extent(l) = 4
      BY <1>3 DEF Extent
    <3> QED BY <3>1, <3>2, <3>3 DEF Touches
  <2>2. CASE n \notin a..(a + 3)
    <3>1. Flat'[n] = Flat[n]
      BY <1>7, <1>9, <2>2
    <3> QED BY <1>2, <3>1, WillNow DEF KeptAt
  <2> QED BY <2>1, <2>2
<1>10. ASSUME running', NEW j \in 0..(Size(l) - 1) PROVE Will(Address(l.addr + j), ByteOf(l, j))'
  <2>1. j \in 0..3 /\ ByteOf(l, j) = d[j]
    BY <1>3, <1>5 DEF Size, ByteOf
  <2>2. PICK n, b : n = Address(l.addr + j) /\ b = ByteOf(l, j)
    OBVIOUS
  <2>3. n = a + j /\ n \in Addresses
    <3>1. l.addr + j \in Int
      BY <1>4, <2>1
    <3> QED BY <1>8, <1>10, <2>1, <2>2, <3>1, AddressType
  <2>4. n \in a..(a + 3) /\ n - a = j
    BY <1>6, <2>1, <2>3
  <2>5. Flat'[n] = b
    BY <1>7, <1>10, <2>1, <2>2, <2>3, <2>4
  <2>6. Will(n, b)'
    BY <1>2, <2>5, WillNow
  <2> QED BY <2>2, <2>6
<1>11. start_addr' = IF "insn" = "entry" /\ file[line].symbol = "_start" THEN file[line].addr ELSE start_addr
  BY <1>2
<1> QED BY <1>1, <1>2, <1>9, <1>10, <1>11, LoadedRead

\* The other lines are about no byte.
LEMMA ReadRestLoaded ==
    ASSUME TypeOK, LoadedInv, ReadEntry \/ ReadOther, UNCHANGED <<PC, inst_cnt>>
    PROVE  LoadedInv'
<1>1. PICK l : l = file[line]
  OBVIOUS
<1>2. PICK kind \in {"entry", "other"} :
         /\ Reading(kind) /\ UNCHANGED <<pages, todo>>
         /\ start_addr' = IF kind = "entry" /\ file[line].symbol = "_start" THEN file[line].addr
                          ELSE start_addr
  BY DEF ReadEntry, ReadOther, memory
<1>3. Size(l) = 0
  BY <1>1, <1>2 DEF Reading, Size
<1>4. \A n \in Addresses : KeptAt(n)
  BY <1>2, NothingKept
<1>5. \A j \in 0..(Size(l) - 1) : Will(Address(l.addr + j), ByteOf(l, j))'
  BY <1>3
<1> QED BY <1>1, <1>2, <1>4, <1>5, LoadedRead

\* The addresses up to one that the memory has are its own.
LEMMA Within ==
    ASSUME NEW t \in Addresses, NEW n \in Nat, n <= t
    PROVE  n \in Addresses /\ Address(n) = n
<1> DEFINE u == PageNumbers * PageWords * 4
<1>1. u \in Nat /\ t \in 0..(u - 1)
  BY MemoryAssumption DEF MemoryAssumption, Addresses
<1> HIDE DEF u
<1>2. n \in 0..(u - 1)
  BY <1>1
<1>3. n \in Addresses
  BY <1>2 DEF u, Addresses
<1> QED BY <1>3, AddressSame

\* A sequence behind an element.
LEMMA Behind ==
    ASSUME NEW T, NEW r \in Seq(T), NEW y
    PROVE  /\ DOMAIN (<<y>> \o r) = 1..(Len(r) + 1) /\ (<<y>> \o r)[1] = y
           /\ \A j \in 1..Len(r) : (<<y>> \o r)[j + 1] = r[j]
<1>1. r \in Seq(T \cup {y}) /\ <<y>> \in Seq(T \cup {y})
  OBVIOUS
<1> QED BY <1>1

\* One more argument is passed: a pointer behind the others, and a string behind the others.
LEMMA ArgumentsPass ==
    ASSUME NEW f, NEW a \in Seq(Seq(Byte \ {0})), NEW i \in 1..Len(a), NEW t \in Nat,
           t >= ArgBase + 4 + 4 * Len(a), Arguments(f, a, i - 1, t),
           todo = <<>>, UNCHANGED pages,
           todo' = <<WordWrite(ArgBase + 4 * i, t)>> \o ByteWrites(t, Append(a[i], 0))
    PROVE  Arguments(f, a, i, t + Len(a[i]) + 1)'
<1>1. PICK u : u = t + Len(a[i]) + 1
  OBVIOUS
<1>2. SUFFICES ASSUME ArgumentsFit(u), Apart(f), a # <<>>
               PROVE  /\ IntWill(ArgBase, Len(a))'
                      /\ \A k \in 1..i : \E s \in Nat : ArgAt(a, k, s, u)'
  BY <1>1 DEF Arguments, ArgumentsFit, Apart
<1>3. /\ ArgBase \in Nat /\ 0 \in Byte /\ Len(a) \in Nat /\ i \in Nat /\ a[i] \in Seq(Byte)
      /\ \A k \in 1..Len(a) : Len(a[k]) \in Nat
  BY Constants, SMTT(60)
<1>4. PICK h \in Seq(Byte) : h = Append(a[i], 0)
  <2>1. \A T : \A r \in Seq(T), y \in T : Append(r, y) \in Seq(T)
    OBVIOUS
  <2> QED BY <1>3, <2>1
<1>5. /\ Len(h) = Len(a[i]) + 1 /\ h[Len(a[i]) + 1] = 0 /\ Len(a[i]) \in Nat
      /\ \A j \in 1..Len(a[i]) : h[j] = a[i][j]
  BY <1>3, <1>4
<1>6. PICK p \in Nat : p = ArgBase + 4 * i
  BY <1>3
<1>7. /\ p >= ArgBase + 4 /\ p + 3 < t /\ t + Len(a[i]) < u /\ u \in Nat /\ u \in Addresses
      /\ t - 1 + Len(h) < u /\ u = t + Len(h)
  <2>1. PICK c \in Nat, d \in Nat : c = Len(a[i]) /\ d = Len(a)
    BY <1>3, <1>5
  <2>2. p >= ArgBase + 4 /\ p + 3 < t
    BY <1>3, <1>6, <2>1
  <2>3. u = t + c + 1 /\ Len(h) = c + 1
    BY <1>1, <1>5, <2>1
  <2>4. t + c < u /\ u \in Nat /\ t - 1 + Len(h) < u /\ u = t + Len(h)
    BY <2>3
  <2>5. u \in Addresses
    BY <1>2 DEF ArgumentsFit
  <2> QED BY <2>1, <2>2, <2>4, <2>5
<1>8. \A n \in Nat : n <= u => n \in Addresses /\ Address(n) = n
  BY <1>7, Within
<1>9. ArgumentsFit(t)
  <2>1. u \in Ints /\ t \in Addresses
    BY <1>2, <1>7, <1>8 DEF ArgumentsFit
  <2>2. t \in Ints
    BY <1>7, <2>1, Sizes DEF Ints
  <2> QED BY <2>1, <2>2 DEF ArgumentsFit
<1>10. /\ IntWill(ArgBase, Len(a))
       /\ \A k \in 1..(i - 1) : \E s \in Nat : ArgAt(a, k, s, t)
  BY <1>2, <1>9 DEF Arguments
<1>11. PICK w, q : w = WordWrite(p, t) /\ q = ByteWrites(t, h)
  OBVIOUS
<1>12. /\ \A n : Hit(w, n) <=> n \in p..(p + 3)
       /\ \A l \in Lanes : Given(w, p + l) = BytesOf(t)[l]
  <2>1. p \in Addresses /\ t \in Int
    BY <1>7, <1>8
  <2> QED BY <1>11, <2>1, WordHit
<1>13. /\ DOMAIN q = 1..Len(h)
       /\ \A j \in 1..Len(h) : /\ \A n : Hit(q[j], n) <=> n = t + j - 1
                               /\ Given(q[j], t + j - 1) = h[j]
  <2>1. /\ DOMAIN q = 1..Len(h)
        /\ \A j \in 1..Len(h) : /\ \A n : Hit(q[j], n) <=> n = Address(t + j - 1)
                                /\ Given(q[j], Address(t + j - 1)) = h[j]
    <3>1. t \in Int
      OBVIOUS
    <3> QED BY <1>11, <3>1, BytesHit
  <2>2. \A j \in 1..Len(h) : Address(t + j - 1) = t + j - 1
    <3> SUFFICES ASSUME NEW j \in 1..Len(h) PROVE Address(t + j - 1) = t + j - 1
      OBVIOUS
    <3>1. t + j - 1 \in Nat /\ t + j - 1 <= u
      BY <1>5, <1>7, SMTT(60)
    <3> QED BY <1>8, <3>1
  <2> QED BY <2>1, <2>2
<1>14. /\ DOMAIN todo' = 1..(Len(h) + 1) /\ todo'[1] = w
       /\ \A j \in 1..Len(h) : todo'[j + 1] = q[j]
  <2>1. todo' = <<w>> \o q
    BY <1>4, <1>6, <1>11
  <2>2. PICK R : q \in Seq(R) /\ Len(q) = Len(h)
    <3>1. q = [j \in 1..Len(h) |-> q[j]]
      BY <1>11, <1>13 DEF ByteWrites
    <3>2. \A T : \A m \in Nat : \A r \in [1..m -> T] : r \in Seq(T) /\ Len(r) = m
      OBVIOUS
    <3>3. q \in [1..Len(h) -> {q[j] : j \in 1..Len(h)}] /\ Len(h) \in Nat
      BY <1>5, <3>1, SMTT(60)
    <3> QED BY <3>2, <3>3
  <2>3. /\ DOMAIN (<<w>> \o q) = 1..(Len(q) + 1) /\ (<<w>> \o q)[1] = w
        /\ \A j \in 1..Len(q) : (<<w>> \o q)[j + 1] = q[j]
    BY <2>2, Behind, SMTT(60)
  <2> QED BY <2>1, <2>2, <2>3
<1>15. ASSUME NEW n \in Int, n \notin p..(p + 3), n < t \/ n >= u PROVE KeptAt(n)
  <2> SUFFICES ASSUME NEW k \in 1..(Len(h) + 1) PROVE ~Hit(todo'[k], n)
    BY <1>14, WillQueue DEF KeptAt
  <2>1. CASE k = 1
    BY <1>12, <1>14, <1>15, <2>1
  <2>2. CASE k # 1
    <3>1. PICK j \in 1..Len(h) : k = j + 1
      <4>1. Len(h) \in Nat
        BY <1>5, SMTT(60)
      <4>2. k - 1 \in 1..Len(h) /\ k = (k - 1) + 1
        BY <2>2, <4>1
      <4> QED BY <4>2
    <3>2. n # t + j - 1
      BY <1>5, <1>7, <1>15
    <3> QED BY <1>13, <1>14, <3>1, <3>2
  <2> QED BY <2>1, <2>2
<1>16. IntWill(ArgBase, Len(a))'
  <2> SUFFICES ASSUME NEW l \in Lanes PROVE Will(ArgBase + l, BytesOf(Len(a))[l])'
    BY DEF IntWill
  <2>1. KeptAt(ArgBase + l)
    BY <1>3, <1>7, <1>15, SMTT(60) DEF Lanes
  <2> QED BY <1>10, <2>1 DEF IntWill, KeptAt
<1>17. ASSUME NEW k \in 1..(i - 1) PROVE \E s \in Nat : ArgAt(a, k, s, u)'
  <2>1. PICK s \in Nat : ArgAt(a, k, s, t)
    BY <1>10
  <2>0. PICK c \in Nat : c = Len(a[k])
    BY <1>3
  <2>2. s >= ArgBase + 4 + 4 * Len(a) /\ s + c + 1 <= t
    BY <2>0, <2>1 DEF ArgAt
  <2>3. ASSUME NEW n \in Int, n >= s, n <= s + c PROVE KeptAt(n)
    BY <1>3, <1>6, <1>7, <1>15, <2>2, <2>3
  <2>4. IntWill(ArgBase + 4 * k, s)'
    <3> SUFFICES ASSUME NEW l \in Lanes PROVE Will(ArgBase + 4 * k + l, BytesOf(s)[l])'
      BY DEF IntWill
    <3>1. KeptAt(ArgBase + 4 * k + l)
      <4>1. ArgBase + 4 * k + l \in Int /\ ArgBase + 4 * k + l < p
        BY <1>3, <1>6 DEF Lanes
      <4> QED BY <1>7, <1>15, <4>1, SMTT(60)
    <3> QED BY <2>1, <3>1 DEF ArgAt, IntWill, KeptAt
  <2>5. \A j \in 1..Len(a[k]) : Will(s + j - 1, a[k][j])'
    <3> SUFFICES ASSUME NEW j \in 1..Len(a[k]) PROVE Will(s + j - 1, a[k][j])'
      OBVIOUS
    <3>1. KeptAt(s + j - 1)
      BY <2>0, <2>2, <2>3, SMTT(60)
    <3> QED BY <2>1, <3>1 DEF ArgAt, KeptAt
  <2>6. Will(s + Len(a[k]), 0)'
    <3>1. KeptAt(s + Len(a[k]))
      <4>1. s + c \in Int /\ s + c >= s /\ s + c <= s + c
        OBVIOUS
      <4> QED BY <2>0, <2>3, <4>1
    <3> QED BY <2>1, <3>1 DEF ArgAt, KeptAt
  <2>7. s + Len(a[k]) + 1 <= u
    <3>1. u > t /\ t \in Nat
      BY <1>5, <1>7
    <3>2. s + c + 1 <= u
      BY <1>7, <2>2, <3>1
    <3> QED BY <2>0, <3>2
  <2>8. s >= ArgBase + 4 + 4 * Len(a)
    BY <2>2
  <2> QED BY <2>8, <2>4, <2>5, <2>6, <2>7 DEF ArgAt
<1>18. ArgAt(a, i, t, u)'
  <2>1. IntWill(p, t)'
    <3> SUFFICES ASSUME NEW l \in Lanes PROVE Will(p + l, BytesOf(t)[l])'
      BY DEF IntWill
    <3>1. p + l \in p..(p + 3) /\ p + l \in Int
      BY DEF Lanes
    <3>2. 1 \in DOMAIN todo' /\ Hit(todo'[1], p + l) /\ Given(todo'[1], p + l) = BytesOf(t)[l]
      BY <1>5, <1>12, <1>14, <3>1
    <3>3. \A k \in DOMAIN todo' : k > 1 => ~Hit(todo'[k], p + l)
      <4> SUFFICES ASSUME NEW k \in 1..(Len(h) + 1), k > 1 PROVE ~Hit(todo'[k], p + l)
        BY <1>14
      <4>1. PICK j \in 1..Len(h) : k = j + 1
        BY <1>5, SMTT(60)
      <4>2. p + l # t + j - 1
        BY <1>7, <3>1
      <4> QED BY <1>13, <1>14, <4>1, <4>2
    <3>4. PICK b : b = BytesOf(t)[l]
      OBVIOUS
    <3>5. Will(p + l, b)'
      BY <3>2, <3>3, <3>4, WillWrite
    <3> QED BY <3>4, <3>5
  <2>2. ASSUME NEW j \in 1..Len(h) PROVE Will(t + j - 1, h[j])'
    <3>1. PICK n, b, k : n = t + j - 1 /\ b = h[j] /\ k = j + 1
      OBVIOUS
    <3>2. k \in DOMAIN todo' /\ Hit(todo'[k], n) /\ Given(todo'[k], n) = b
      <4>1. todo'[k] = q[j] /\ k \in DOMAIN todo'
        <5>1. j + 1 \in 1..(Len(h) + 1)
          <6>1. Len(h) \in Nat
            BY <1>5, SMTT(60)
          <6> QED BY <6>1
        <5> QED BY <1>14, <3>1, <5>1
      <4>2. Hit(q[j], n) /\ Given(q[j], n) = b
        BY <1>13, <3>1
      <4> QED BY <4>1, <4>2
    <3>3. \A m \in DOMAIN todo' : m > k => ~Hit(todo'[m], n)
      <4> SUFFICES ASSUME NEW m \in 1..(Len(h) + 1), m > k PROVE ~Hit(todo'[m], n)
        BY <1>14
      <4>1. PICK g \in 1..Len(h) : m = g + 1
        BY <1>5, <3>1, SMTT(60)
      <4>2. n # t + g - 1
        BY <3>1, <4>1
      <4> QED BY <1>13, <1>14, <4>1, <4>2
    <3>4. Will(n, b)'
      BY <3>2, <3>3, WillWrite
    <3> QED BY <3>1, <3>4
  <2>3. \A j \in 1..Len(a[i]) : Will(t + j - 1, a[i][j])'
    <3> SUFFICES ASSUME NEW j \in 1..Len(a[i]) PROVE Will(t + j - 1, a[i][j])'
      OBVIOUS
    <3>1. j \in 1..Len(h) /\ h[j] = a[i][j]
      BY <1>5, SMTT(60)
    <3> QED BY <2>2, <3>1
  <2>4. Will(t + Len(a[i]), 0)'
    <3>1. Len(a[i]) + 1 \in 1..Len(h) /\ t + (Len(a[i]) + 1) - 1 = t + Len(a[i])
      BY <1>5, SMTT(60)
    <3> QED BY <1>5, <2>2, <3>1
  <2>5. t + Len(a[i]) + 1 <= u
    BY <1>1, <1>7
  <2> QED BY <1>6, <2>1, <2>3, <2>4, <2>5 DEF ArgAt
<1>19. ASSUME NEW k \in 1..i PROVE \E s \in Nat : ArgAt(a, k, s, u)'
  <2>1. k = i \/ k \in 1..(i - 1)
    BY <1>3
  <2> QED BY <1>17, <1>18, <2>1
<1> QED BY <1>16, <1>19

\* The loader passes one more argument.
LEMMA PassArgLoaded ==
    ASSUME TypeOK, LoadedInv, PassArg, UNCHANGED <<PC, inst_cnt>>
    PROVE  LoadedInv'
<1>1. /\ running /\ running' /\ phase = "main" /\ phase' = "main" /\ todo = <<>> /\ index <= Len(args)
      /\ todo' = <<WordWrite(ArgBase + 4 * index, str_addr)>>
                 \o ByteWrites(str_addr, Append(args[index], 0))
      /\ str_addr' = str_addr + Len(args[index]) + 1 /\ index' = index + 1
      /\ UNCHANGED <<pages, file, args, line, start_addr>>
  BY DEF PassArg, memory, reading
<1>2. /\ args \in Seq(Seq(Byte \ {0})) /\ index \in 1..(Len(args) + 1) /\ str_addr \in Nat
      /\ Len(args) \in Nat
  BY DEF TypeOK
<1>3. /\ Image(file, line - 1) /\ Entered(file, line - 1, start_addr)
      /\ Arguments(file, args, index - 1, str_addr) /\ Lines
      /\ str_addr >= ArgBase + 4 + 4 * Len(args) /\ line = 1
  BY <1>1 DEF LoadedInv, Loading
<1>4. Image(file, line - 1)'
  <2>1. PICK f : f = file
    OBVIOUS
  <2>2. Image(f, 0)'
    BY DEF Image
  <2>3. f = file' /\ line' - 1 = 0
    BY <1>1, <1>3, <2>1
  <2> QED BY <2>2, <2>3
<1>5. Arguments(file, args, index - 1, str_addr)'
  <2>1. PICK f, a, i, t, u : /\ f = file /\ a = args /\ i = index /\ t = str_addr
                             /\ u = str_addr + Len(args[index]) + 1
    OBVIOUS
  <2>2. /\ a \in Seq(Seq(Byte \ {0})) /\ i \in 1..Len(a) /\ t \in Nat
        /\ t >= ArgBase + 4 + 4 * Len(a) /\ Arguments(f, a, i - 1, t)
        /\ todo' = <<WordWrite(ArgBase + 4 * i, t)>> \o ByteWrites(t, Append(a[i], 0))
        /\ u = t + Len(a[i]) + 1
    BY <1>1, <1>2, <1>3, <2>1
  <2>3. Arguments(f, a, i, t + Len(a[i]) + 1)'
    BY <1>1, <2>2, ArgumentsPass
  <2>4. f = file' /\ a = args' /\ i = index' - 1 /\ u = str_addr'
    BY <1>1, <1>2, <2>1
  <2> QED BY <2>2, <2>3, <2>4
<1>6. Entered(file, line - 1, start_addr)' /\ Lines'
  BY <1>1, <1>3 DEF Lines
<1>7. str_addr' >= ArgBase + 4 + 4 * Len(args')
  <2>1. Len(args[index]) \in Nat /\ ArgBase \in Nat
    BY <1>1, <1>2, Constants
  <2> QED BY <1>1, <1>2, <1>3, <2>1, SMTT(60)
<1>8. line' = 1 /\ phase' = "main"
  BY <1>1, <1>3
<1> QED BY <1>4, <1>5, <1>6, <1>7, <1>8 DEF LoadedInv

\* Before the first step only the number of the arguments is on its way.
LEMMA LoadedInit == Init => LoadedInv
<1> SUFFICES ASSUME Init PROVE LoadedInv
  OBVIOUS
<1>1. /\ str_addr = ArgBase + 4 + 4 * Len(args) /\ line = 1 /\ index = 1 /\ start_addr = -1
      /\ phase = "main" /\ todo = IF args = <<>> THEN <<>> ELSE <<WordWrite(ArgBase, Len(args))>>
  BY DEF Init, LoaderInit
<1>2. TypeOK
  BY TypeInit
<1>3. Len(args) \in Nat /\ ArgBase \in Nat /\ str_addr \in Nat
  BY <1>1, <1>2, Constants DEF TypeOK
<1>4. Lines
  <2>1. PICK c \in Commands : file = c.file
    BY DEF Init, LoaderInit
  <2> QED BY <2>1, DataAssumption DEF DataAssumption, Lines
<1>5. Image(file, line - 1) /\ Entered(file, line - 1, start_addr)
  BY <1>1 DEF Image, Entered
<1>6. Arguments(file, args, index - 1, str_addr)
  <2> SUFFICES ASSUME ArgumentsFit(str_addr), args # <<>>
               PROVE  IntWill(ArgBase, Len(args))
    BY <1>1 DEF Arguments
  <2>1. ArgBase \in Addresses
    BY <1>1, <1>3, Within DEF ArgumentsFit
  <2> SUFFICES ASSUME NEW l \in Lanes PROVE Will(ArgBase + l, BytesOf(Len(args))[l])
    BY DEF IntWill
  <2>2. PICK w : w = WordWrite(ArgBase, Len(args))
    OBVIOUS
  <2>3. Hit(w, ArgBase + l) /\ Given(w, ArgBase + l) = BytesOf(Len(args))[l]
    <3>1. ArgBase + l \in ArgBase..(ArgBase + 3) /\ Len(args) \in Int
      BY <1>3 DEF Lanes
    <3> QED BY <2>1, <2>2, <3>1, WordHit
  <2>4. todo = <<w>> /\ DOMAIN todo = {1} /\ todo[1] = w
    BY <1>1, <2>2
  <2> QED BY <2>3, <2>4 DEF Will
<1>7. str_addr >= ArgBase + 4 + 4 * Len(args)
  BY <1>1, <1>3
<1> QED BY <1>1, <1>4, <1>5, <1>6, <1>7 DEF LoadedInv

\* The simulator starts with what the loader has left.
LEMMA StartLoaded ==
    ASSUME TypeOK, LoadedInv, Start
    PROVE  LoadedInv'
<1>1. /\ running /\ phase = "load" /\ phase' = "fetch" /\ todo = <<>> /\ line > Len(file)
      /\ start_addr # -1 /\ PC' = Wrap(start_addr)
      /\ UNCHANGED <<pages, todo, file, args, index, str_addr, line, start_addr, inst_cnt>>
  BY DEF Start, memory, loading, passing, reading
<1>2. Loading
  BY <1>1 DEF Loading
<1>3. ASSUME Loading'
      PROVE  /\ Image(file, line - 1)'
             /\ Arguments(file, args, index - 1, str_addr)'
  <2>1. PICK f, m, a, i, t : f = file /\ m = line - 1 /\ a = args /\ i = index - 1 /\ t = str_addr
    OBVIOUS
  <2>2. Image(f, m) /\ Arguments(f, a, i, t) /\ t >= ArgBase + 4 + 4 * Len(a)
    BY <1>2, <2>1 DEF LoadedInv
  <2>3. /\ a \in Seq(Seq(Byte \ {0})) /\ i \in 0..Len(a) /\ t \in Nat
    BY <2>1 DEF TypeOK
  <2>4. m \in Int /\ \A k \in 1..m : \A j \in 0..(Size(f[k]) - 1) : Address(f[k].addr + j) \in Addresses
    <3>1. line - 1 \in Int /\ line - 1 <= Len(file)
      BY FileType
    <3> QED BY <2>1, <3>1, ReadType
  <2>5. \A n \in Addresses : KeptAt(n)
    BY <1>1, NothingKept
  <2>6. Image(f, m)'
    BY <2>2, <2>4, <2>5, ImageKept
  <2>7. Arguments(f, a, i, t)'
    BY <2>2, <2>3, <2>5, ArgumentsKept
  <2>8. f = file' /\ m = line' - 1 /\ a = args' /\ i = index' - 1 /\ t = str_addr'
    BY <1>1, <2>1
  <2> QED BY <2>6, <2>7, <2>8
<1>4. /\ Entered(file, line - 1, start_addr)'
      /\ str_addr' >= ArgBase + 4 + 4 * Len(args') /\ Lines'
      /\ index' > Len(args') /\ line' > Len(file') /\ todo' = <<>>
      /\ start_addr' # -1 /\ PC' = Wrap(start_addr')
  BY <1>1, <1>2 DEF LoadedInv, Lines
<1> QED BY <1>1, <1>3, <1>4 DEF LoadedInv

\* Every step keeps what has been read and passed until the first instruction is fetched.
LEMMA LoadedNext == TypeOK /\ LoadedInv /\ [Next]_vars => LoadedInv'
<1> SUFFICES ASSUME TypeOK, LoadedInv, [Next]_vars PROVE LoadedInv'
  OBVIOUS
<1>1. ASSUME Load, UNCHANGED <<PC, inst_cnt>> PROVE LoadedInv'
  BY <1>1, PassArgLoaded, PerformLoaded, MainLoaded, ReadDataLoaded, ReadInsnLoaded,
     ReadRestLoaded, NoStartLoaded DEF Load
<1>2. CASE Fetch
  <2>1. inst_cnt' > 0 /\ phase' = "execute"
    BY <1>2 DEF Fetch, TypeOK
  <2> QED BY <2>1 DEF LoadedInv, Loading
<1>3. CASE Execute
  <2>1. running /\ inst_cnt > 0
    BY <1>3 DEF Execute, LoadedInv
  <2>2. CASE phase' = "returned" \/ ~running'
    BY <2>2 DEF LoadedInv, Loading
  <2>3. CASE \E op : Log(op)
    <3>1. phase' = "fetch" /\ inst_cnt' = inst_cnt
      BY <2>3 DEF Log
    <3> QED BY <2>1, <3>1 DEF LoadedInv, Loading
  <2> QED BY <1>3, <2>2, <2>3, ExecuteLogs
<1>4. CASE UNCHANGED vars
  <2>1. /\ UNCHANGED <<file, args, index, str_addr, line, start_addr, PC, inst_cnt, phase, todo>>
        /\ UNCHANGED <<pages, running>>
    BY <1>4 DEF vars, memory, loading, passing, reading
  <2>2. \A n \in Addresses : KeptAt(n)
    BY <2>1, NothingKept
  <2> QED BY <2>1, <2>2, LoadedKept
<1> QED BY <1>1, <1>2, <1>3, <1>4, StartLoaded DEF Next, Simulation

-----------------------------------------------------------------------------
(* What is read back from the memory.                                      *)

\* A quotient with its rest.
LEMMA DivisionIs ==
    ASSUME NEW n \in Int, NEW m \in Nat \ {0}, NEW q \in Int, NEW r \in 0..(m - 1), n = q * m + r
    PROVE  n \div m = q /\ n % m = r
<1> DEFINE u == n \div m
           v == n % m
<1>1. u \in Int /\ v \in 0..(m - 1) /\ n = u * m + v
  <2>1. v \in 0..(m - 1)
    OBVIOUS
  <2>2. u \in Int
    OBVIOUS
  <2>3. n = u * m + v
    OBVIOUS
  <2> QED BY <2>1, <2>2, <2>3
<1> HIDE DEF u, v
<1>2. PICK d \in Int : d = q - u
  BY <1>1
<1>3. v - r = d * m
  BY <1>1, <1>2
<1>4. d >= 1 => d * m >= m
  OBVIOUS
<1>5. d <= -1 => d * m <= -m
  OBVIOUS
<1>6. v - r > -m /\ v - r < m
  BY <1>1
<1>7. d = 0
  BY <1>1, <1>3, <1>4, <1>5, <1>6
<1>8. u = q
  BY <1>1, <1>2, <1>7
<1>9. d * m = 0
  BY <1>7
<1>10. v = r
  BY <1>1, <1>3, <1>9
<1> QED BY <1>8, <1>10 DEF u, v

\* A quotient of a quotient.
LEMMA DivisionTwice ==
    ASSUME NEW n \in Int, NEW a \in Nat \ {0}, NEW b \in Nat \ {0}
    PROVE  /\ n \div (a * b) = (n \div a) \div b
           /\ n \div a \in Int
           /\ n \div a = (n \div (a * b)) * b + ((n \div a) % b)
           /\ (n \div a) % b \in 0..(b - 1)
<1>1. PICK q \in Int, r \in 0..(a - 1) : q = n \div a /\ n = q * a + r
  <2>1. n \div a \in Int
    OBVIOUS
  <2>2. n % a \in 0..(a - 1)
    OBVIOUS
  <2>3. n = (n \div a) * a + (n % a)
    OBVIOUS
  <2> QED BY <2>1, <2>2, <2>3
<1>2. PICK p \in Int, s \in 0..(b - 1) : p = q \div b /\ s = q % b /\ q = p * b + s
  <2>1. q \div b \in Int
    OBVIOUS
  <2>2. q % b \in 0..(b - 1)
    OBVIOUS
  <2>3. q = (q \div b) * b + (q % b)
    OBVIOUS
  <2> QED BY <2>1, <2>2, <2>3
<1>3. PICK m \in Nat \ {0} : m = a * b
  OBVIOUS
<1>4. n = p * m + (s * a + r)
  <2>1. n = (p * b + s) * a + r
    BY <1>1, <1>2
  <2>2. (p * b + s) * a = p * (a * b) + s * a
    OBVIOUS
  <2> QED BY <1>3, <2>1, <2>2
<1>5. s * a + r \in 0..(m - 1)
  <2>1. s * a >= 0 /\ s * a <= (b - 1) * a
    OBVIOUS
  <2>2. (b - 1) * a = m - a
    BY <1>3
  <2>3. s * a \in Int
    OBVIOUS
  <2> QED BY <2>1, <2>2, <2>3
<1>6. n \div m = p
  BY <1>4, <1>5, DivisionIs
<1> QED BY <1>1, <1>2, <1>3, <1>6

\* An int is read back from its bytes.
LEMMA BytesBack == ASSUME NEW v \in Ints PROVE ValueOf(BytesOf(v)) = v
<1>1. PICK b \in Nat \ {0} : b = Base
  BY Sizes
<1>2. PICK q1 \in Int, q2 \in Int, q3 \in Int, q4 \in Int, r0 \in Int, r1 \in Int, r2 \in Int, r3 \in Int :
         /\ v = q1 * b + r0 /\ q1 = q2 * b + r1 /\ q2 = q3 * b + r2 /\ q3 = q4 * b + r3
         /\ BytesOf(v)[0] = r0 /\ BytesOf(v)[1] = r1 /\ BytesOf(v)[2] = r2 /\ BytesOf(v)[3] = r3
  <2> DEFINE k1 == v \div b
             k2 == v \div (b * b)
             k3 == v \div (b * b * b)
             k4 == v \div (b * b * b * b)
  <2>1. v \in Int /\ b * b \in Nat \ {0} /\ b * b * b \in Nat \ {0}
    BY <1>1, IntsAre, Sizes
  <2>2. k1 \in Int /\ v % b \in Int /\ v = k1 * b + (v % b)
    <3>1. k1 \in Int
      BY <2>1
    <3>2. v % b \in 0..(b - 1)
      BY <2>1
    <3>3. v = k1 * b + (v % b)
      BY <2>1
    <3> QED BY <3>1, <3>2, <3>3
  <2>a. \A k \in Nat \ {0} : /\ v \div k \in Int
                             /\ v \div k = (v \div (k * b)) * b + ((v \div k) % b)
                             /\ (v \div k) % b \in Int
                             /\ v \div (k * b) = (v \div k) \div b
    <3> SUFFICES ASSUME NEW k \in Nat \ {0}
                 PROVE  /\ v \div k \in Int
                        /\ v \div k = (v \div (k * b)) * b + ((v \div k) % b)
                        /\ (v \div k) % b \in Int
                        /\ v \div (k * b) = (v \div k) \div b
      OBVIOUS
    <3>1. (v \div k) % b \in 0..(b - 1)
      BY <2>1, DivisionTwice, Zenon
    <3>2. (v \div k) % b \in Int
      BY <3>1
    <3>3. v \div k \in Int
      BY <2>1, DivisionTwice, Zenon
    <3>4. v \div k = (v \div (k * b)) * b + ((v \div k) % b)
      BY <2>1, DivisionTwice, ZenonT(60)
    <3>5. v \div (k * b) = (v \div k) \div b
      BY <2>1, DivisionTwice, ZenonT(60)
    <3> QED BY <3>2, <3>3, <3>4, <3>5
  <2>3. k1 = k2 * b + (k1 % b) /\ k1 % b \in Int
    BY <2>a, Zenon
  <2>4. k2 \in Int /\ k2 = k3 * b + (k2 % b) /\ k2 % b \in Int
    BY <2>1, <2>a, Zenon
  <2>5. k3 \in Int /\ k3 = k4 * b + (k3 % b) /\ k3 % b \in Int
    BY <2>1, <2>a, Zenon
  <2>6. k4 \in Int
    <3>1. k4 = k3 \div b
      BY <2>1, <2>a, Zenon
    <3> HIDE DEF k3, k4
    <3> QED BY <2>5, <3>1
  <2>7. /\ BytesOf(v)[0] = v % b /\ BytesOf(v)[1] = k1 % b
        /\ BytesOf(v)[2] = k2 % b /\ BytesOf(v)[3] = k3 % b
    BY <1>1 DEF BytesOf
  <2> HIDE DEF k1, k2, k3, k4
  <2> QED BY <2>2, <2>3, <2>4, <2>5, <2>6, <2>7, ZenonT(60)
<1>3. Joined(BytesOf(v), 4) = r0 + b * (r1 + b * (r2 + b * r3))
  BY <1>1, <1>2 DEF Joined
<1>4. PICK m \in Nat \ {0} : m = Modulus /\ m = b * b * b * b
  BY <1>1, Sizes DEF Modulus
<1>5. r0 + b * (r1 + b * (r2 + b * r3)) = v - q4 * m
  <2>1. r2 + b * r3 = q2 - q4 * (b * b)
    BY <1>2
  <2>2. r1 + b * (q2 - q4 * (b * b)) = q1 - q4 * (b * b * b)
    BY <1>2
  <2>3. r0 + b * (q1 - q4 * (b * b * b)) = v - q4 * (b * b * b * b)
    BY <1>2
  <2> QED BY <1>4, <2>1, <2>2, <2>3
<1>6. PICK n \in Int : n = v - q4 * m
  BY <1>2, IntsAre
<1>7. v - Smallest \in 0..(m - 1) /\ Smallest \in Int
  BY <1>4, Sizes DEF Ints
<1>8. n - Smallest = (-q4) * m + (v - Smallest)
  BY <1>2, <1>6, <1>7, IntsAre
<1>9. (n - Smallest) % m = v - Smallest
  <2>1. n - Smallest \in Int /\ -q4 \in Int
    BY <1>6, <1>7
  <2> QED BY <1>7, <1>8, <2>1, DivisionIs
<1>10. Wrap(n) = v
  BY <1>4, <1>7, <1>9, IntsAre DEF Wrap
<1> QED BY <1>3, <1>5, <1>6, <1>10 DEF ValueOf

-----------------------------------------------------------------------------
(* What the program finds at its start.                                    *)

\* A set of numbers up to N that is not empty has a greatest one.
LEMMA Greatest ==
    ASSUME NEW N \in Nat, NEW S \in SUBSET (0..N), S # {}
    PROVE  \E k \in S : \A j \in S : j <= k
<1> DEFINE R == {ss \in Nat \X Nat : ss[1] < ss[2]}
           T == {N - k : k \in S}
<1>1. IsWellFoundedOn(R, Nat)
  BY NatLessThanWellFounded DEF OpToRel
<1>2. T \subseteq Nat /\ T # {}
  <2>1. T \subseteq Nat
    OBVIOUS
  <2>2. PICK k : k \in S
    OBVIOUS
  <2>3. N - k \in T
    BY <2>2
  <2> QED BY <2>1, <2>3
<1> HIDE DEF R
<1>3. PICK x \in T : \A y \in T : ~(<<y, x>> \in R)
  <2> HIDE DEF T
  <2> QED BY <1>1, <1>2, WFMin
<1>4. PICK k \in S : x = N - k
  BY <1>3
<1>5. ASSUME NEW j \in S PROVE j <= k
  <2>1. N - j \in T /\ N - j \in Nat /\ x \in Nat
    BY <1>2, <1>3
  <2>2. ~(N - j < x)
    BY <1>3, <2>1 DEF R
  <2> QED BY <1>4, <2>2
<1> QED BY <1>5

\* The line that a byte is taken from is about it, if there is one, and no later line is.
LEMMA SourceIs ==
    ASSUME TypeOK, NEW n
    PROVE  /\ Source(n) \in 0..Len(file)
           /\ Source(n) # 0 => Covers(file[Source(n)], n)
           /\ \A k \in DOMAIN file : Covers(file[k], n) => k <= Source(n)
<1> DEFINE S == {0} \cup {k \in DOMAIN file : Covers(file[k], n)}
<1>1. Len(file) \in Nat /\ DOMAIN file = 1..Len(file)
  BY FileType
<1>2. S \in SUBSET (0..Len(file)) /\ S # {} /\ S \in SUBSET Int
  <2> HIDE DEF Covers
  <2> QED BY <1>1
<1>3. Source(n) = Max(S)
  BY DEF Source
<1>4. PICK k \in S : \A j \in S : j <= k
  <2> HIDE DEF S
  <2> QED BY <1>1, <1>2, Greatest
<1>5. Max(S) = k
  <2> HIDE DEF S
  <2> QED BY <1>2, <1>4, MaxIs
<1> QED BY <1>1, <1>2, <1>3, <1>4, <1>5

\* What a line touches it is about, or it has been taken for data there.
LEMMA TouchesIs ==
    ASSUME NEW l \in Line, NEW n, Touches(l, n)
    PROVE  \/ Covers(l, n)
           \/ l.kind = "data" /\ \E j \in Len(l.hexes)..(Len(Hexes(l)) - 1) : Address(l.addr + j) = n
<1>1. PICK j \in 0..(Extent(l) - 1) : Address(l.addr + j) = n
  BY DEF Touches
<1>2. CASE l.kind = "data"
  <2>1. Extent(l) = Len(Hexes(l)) /\ Size(l) = Len(l.hexes)
    BY <1>2 DEF Extent, Size
  <2>2. Len(l.hexes) \in Nat /\ Len(Hexes(l)) \in Nat
    BY <1>2, LineType
  <2>3. j \in 0..(Size(l) - 1) \/ j \in Len(l.hexes)..(Len(Hexes(l)) - 1)
    BY <2>1, <2>2
  <2> QED BY <1>1, <1>2, <2>3 DEF Covers
<1>3. CASE l.kind = "insn"
  <2>1. Extent(l) = 4 /\ Size(l) = 4
    BY <1>3 DEF Extent, Size
  <2> QED BY <1>1, <2>1 DEF Covers
<1>4. CASE l.kind \notin {"data", "insn"}
  <2>1. Extent(l) = 0
    BY <1>4 DEF Extent
  <2> QED BY <1>1, <2>1
<1> QED BY <1>2, <1>3, <1>4

\* A later line touches no byte that has not been spoilt.
LEMMA NoneTouches ==
    ASSUME TypeOK, NEW n, ~Spoilt(n), NEW k \in DOMAIN file, k > Source(n)
    PROVE  ~Touches(file[k], n)
<1>1. /\ Len(file) \in Nat /\ DOMAIN file = 1..Len(file) /\ file[k] \in Line
      /\ Source(n) \in 0..Len(file)
  BY FileType, SourceIs
<1>2. ~Covers(file[k], n)
  <2>1. k \in Int /\ Source(n) \in Int
    BY <1>1
  <2>2. Covers(file[k], n) => k <= Source(n)
    BY SourceIs
  <2> QED BY <2>1, <2>2
<1>3. k \in (Source(n) + 1)..Len(file)
  BY <1>1
<1> QED BY <1>1, <1>2, <1>3, TouchesIs DEF Spoilt

\* When the first instruction is to be fetched the file has been read to its end.
LEMMA ReadAll ==
    ASSUME TypeOK, LoadedInv, AtStart
    PROVE  /\ todo = <<>> /\ Image(file, Len(file)) /\ Entered(file, Len(file), start_addr)
           /\ Arguments(file, args, Len(args), str_addr)
           /\ start_addr # -1 /\ PC = Wrap(start_addr)
           /\ str_addr >= ArgBase + 4 + 4 * Len(args)
<1>1. Loading /\ phase = "fetch"
  BY DEF AtStart, Loading
<1>2. line - 1 = Len(file)
  <2>1. line \in 1..(Len(file) + 1) /\ Len(file) \in Nat
    BY FileType
  <2> QED BY <1>1, <2>1 DEF LoadedInv
<1>3. index - 1 = Len(args)
  <2>1. index \in 1..(Len(args) + 1) /\ Len(args) \in Nat
    BY DEF TypeOK
  <2> QED BY <1>1, <2>1 DEF LoadedInv
<1> QED BY <1>1, <1>2, <1>3 DEF LoadedInv

\* Every byte of the file is where its last line puts it.
LEMMA ImageThere == TypeOK /\ LoadedInv => ImageLoaded
<1> SUFFICES ASSUME TypeOK, LoadedInv, AtStart
             PROVE  /\ \A n \in Addresses :
                         Source(n) # 0 /\ ~Spoilt(n) => Flat[n] = ByteAt(file[Source(n)], n)
                    /\ \E k \in DOMAIN file :
                         file[k].kind = "entry" /\ file[k].symbol = "_start" /\ PC = file[k].addr
  BY DEF ImageLoaded
<1>1. /\ Len(file) \in Nat /\ DOMAIN file = 1..Len(file) /\ \A k \in 1..Len(file) : file[k] \in Line
  BY FileType
<1>2. ASSUME NEW n \in Addresses, Source(n) # 0, ~Spoilt(n)
      PROVE  Flat[n] = ByteAt(file[Source(n)], n)
  <2>1. PICK k, l : k \in 1..Len(file) /\ k = Source(n) /\ l = file[k] /\ Covers(l, n)
    BY <1>1, <1>2, SourceIs
  <2>2. PICK j \in 0..(Size(l) - 1) : /\ Address(l.addr + j) = n
                                      /\ j = CHOOSE j_ \in 0..(Size(l) - 1) : Address(l.addr + j_) = n
    BY <2>1 DEF Covers
  <2>3. ByteAt(l, n) = ByteOf(l, j)
    BY <2>2 DEF ByteAt, ByteOf
  <2>4. \A i \in (k + 1)..Len(file) : ~Touches(file[i], n)
    <3> SUFFICES ASSUME NEW i \in (k + 1)..Len(file) PROVE ~Touches(file[i], n)
      OBVIOUS
    <3>1. i \in DOMAIN file /\ i > Source(n)
      BY <1>1, <2>1
    <3> QED BY <1>2, <3>1, NoneTouches
  <2>5. Will(n, ByteOf(l, j))
    BY <2>1, <2>2, <2>4, ReadAll DEF Image
  <2>6. Flat[n] = ByteOf(l, j)
    BY <2>5, ReadAll, WillNow
  <2> QED BY <2>1, <2>3, <2>6
<1>3. PICK k \in 1..Len(file) : /\ file[k].kind = "entry" /\ file[k].symbol = "_start"
                                /\ start_addr = file[k].addr
  BY ReadAll DEF Entered
<1>4. PC = file[k].addr
  <2>1. file[k].addr \in Ints
    BY <1>1, <1>3, LineType
  <2> QED BY <1>3, <2>1, ReadAll, WrapSame
<1> QED BY <1>1, <1>2, <1>3, <1>4

\* So are the arguments, if they end within the memory.
LEMMA ArgumentsThere == TypeOK /\ LoadedInv => (ArgumentsFit(str_addr) => ArgumentsPassed)
<1> SUFFICES ASSUME TypeOK, LoadedInv, ArgumentsFit(str_addr), AtStart, args # <<>>,
                    \A n \in Addresses : n >= ArgBase => Source(n) = 0 /\ ~Spoilt(n)
             PROVE  /\ IntAt(ArgBase) = Len(args)
                    /\ \A k \in DOMAIN args : StringAt(IntAt(ArgBase + 4 * k), args[k])
  BY DEF ArgumentsPassed
<1>1. /\ args \in Seq(Seq(Byte \ {0})) /\ str_addr \in Nat /\ Len(args) \in Nat
      /\ DOMAIN args = 1..Len(args) /\ ArgBase \in Nat
      /\ str_addr \in Addresses /\ str_addr \in Ints
      /\ str_addr >= ArgBase + 4 + 4 * Len(args)
  <2>1. args \in Seq(Seq(Byte \ {0})) /\ str_addr \in Nat
    BY DEF TypeOK
  <2>2. Len(args) \in Nat /\ DOMAIN args = 1..Len(args)
    BY <2>1
  <2>3. str_addr \in Addresses /\ str_addr \in Ints
    BY DEF ArgumentsFit
  <2>4. str_addr >= ArgBase + 4 + 4 * Len(args)
    BY ReadAll
  <2> QED BY <2>1, <2>2, <2>3, <2>4, Constants
<1>2. Apart(file)
  <2> SUFFICES ASSUME NEW k \in DOMAIN file, NEW n \in Addresses, n >= ArgBase
               PROVE  ~Touches(file[k], n)
    BY DEF Apart
  <2>1. Source(n) = 0 /\ ~Spoilt(n)
    OBVIOUS
  <2>2. k > Source(n)
    BY <2>1, FileType
  <2> QED BY <2>1, <2>2, NoneTouches
<1>3. /\ IntWill(ArgBase, Len(args))
      /\ \A k \in 1..Len(args) : \E s \in Nat : ArgAt(args, k, s, str_addr)
  BY <1>2, ReadAll DEF Arguments
<1>4. \A n \in Nat : n <= str_addr => Address(n) = n
  BY <1>1, Within
<1>5. \A n, b : Will(n, b) => Flat[n] = b
  BY ReadAll, WillNow
<1>6. ASSUME NEW n \in Nat, NEW v \in Nat, n + 3 <= str_addr, v <= str_addr, IntWill(n, v)
      PROVE  IntAt(n) = v
  <2>1. v \in Ints
    BY <1>1, <1>6, Sizes DEF Ints
  <2>2. \A l \in 0..3 : Flat[Address(n + l)] = BytesOf(v)[l]
    <3> SUFFICES ASSUME NEW l \in 0..3 PROVE Flat[Address(n + l)] = BytesOf(v)[l]
      OBVIOUS
    <3>1. n + l \in Nat /\ n + l <= str_addr
      BY <1>1, <1>6
    <3>2. Will(n + l, BytesOf(v)[l])
      BY <1>6 DEF IntWill, Lanes
    <3> QED BY <1>4, <1>5, <3>1, <3>2
  <2>3. [l \in 0..3 |-> Flat[Address(n + l)]] = BytesOf(v)
    <3>1. BytesOf(v) = [l \in 0..3 |-> BytesOf(v)[l]]
      BY DEF BytesOf
    <3> HIDE DEF BytesOf
    <3> QED BY <2>2, <3>1
  <2> QED BY <2>1, <2>3, BytesBack DEF IntAt
<1>7. IntAt(ArgBase) = Len(args)
  <2>1. ArgBase + 3 <= str_addr /\ Len(args) <= str_addr
    BY <1>1
  <2> QED BY <1>1, <1>3, <1>6, <2>1
<1>8. ASSUME NEW k \in 1..Len(args) PROVE StringAt(IntAt(ArgBase + 4 * k), args[k])
  <2>1. PICK s \in Nat : ArgAt(args, k, s, str_addr)
    BY <1>3
  <2>2. PICK a \in Seq(Byte \ {0}), c \in Nat : a = args[k] /\ c = Len(a) /\ DOMAIN a = 1..c
    BY <1>1
  <2>3. s + c + 1 <= str_addr /\ s >= ArgBase + 4 + 4 * Len(args)
    BY <2>1, <2>2 DEF ArgAt
  <2>4. IntAt(ArgBase + 4 * k) = s
    <3>1. ArgBase + 4 * k \in Nat /\ ArgBase + 4 * k + 3 <= str_addr /\ s <= str_addr
      BY <1>1, <2>3
    <3>2. IntWill(ArgBase + 4 * k, s)
      BY <2>1 DEF ArgAt
    <3> QED BY <1>6, <3>1, <3>2
  <2>5. ASSUME NEW i \in 1..c PROVE Flat[Address(s + i - 1)] = a[i]
    <3>1. s + i - 1 \in Nat /\ s + i - 1 <= str_addr
      BY <1>1, <2>3
    <3>2. Will(s + i - 1, a[i])
      BY <2>1, <2>2 DEF ArgAt
    <3> QED BY <1>4, <1>5, <3>1, <3>2
  <2>6. Flat[Address(s + c)] = 0
    <3>1. s + c \in Nat /\ s + c <= str_addr
      BY <1>1, <2>3
    <3>2. Will(s + c, 0)
      BY <2>1, <2>2 DEF ArgAt
    <3> QED BY <1>4, <1>5, <3>1, <3>2
  <2> QED BY <2>2, <2>4, <2>5, <2>6 DEF StringAt
<1> QED BY <1>1, <1>7, <1>8

\* The program finds the image that its file describes, and starts at _start, whatever
\* the file and the arguments are.
THEOREM MachineImage == Spec => []ImageLoaded
BY LoadedInit, LoadedNext, MachineTypes, ImageThere, PTL DEF Spec

\* The program finds its arguments if they end within the memory, below the addresses
\* that are negative as an int.
THEOREM MachineArguments == Spec => [](str_addr \in Addresses \cap Ints => ArgumentsPassed)
<1>1. TypeOK /\ LoadedInv => (str_addr \in Addresses \cap Ints => ArgumentsPassed)
  BY ArgumentsThere DEF ArgumentsFit
<1> QED BY <1>1, LoadedInit, LoadedNext, MachineTypes, PTL DEF Spec
=============================================================================
