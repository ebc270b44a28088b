SPECIFICATION Spec
CONSTANTS
    PageNumbers = 2
    PageWords = 16
    Byte <- Nibbles
    Zero = 0
    ByteBits = 4
    Base = 16
    ByteAnd <- AndTable
    ByteOr <- OrTable
    ByteXor <- XorTable
    Commands <- CommandLines
    ArgBase = 96
    Code <- Encodings
    Chars <- Typed
    Leftovers <- Remains
    Garbage = "garbage"
    MaxInstructions = 3
INVARIANTS
    TypeOK
    ImageLoaded
    ArgumentsPassed
PROPERTIES
    Executes
    LogTrue
CHECK_DEADLOCK FALSE
