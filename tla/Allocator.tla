------------------------------ MODULE Allocator -------------------------------
(***************************************************************************)
(* allocate and release of A6/handout/lib.c: small blocks, cut from chunks  *)
(* at the end of the heap and kept on one free list per size.               *)
(*                                                                          *)
(* A block is named by its first address, where its size is kept while it   *)
(* is in use and the next free block while it is not; the caller's memory   *)
(* begins 4 bytes later.                                                    *)
(***************************************************************************)
EXTENDS Integers, Sequences

CONSTANTS
    HeapStart,          \* 16^6 * 2 in the start-up code
    SMALL_BLOCK_LIMIT,  \* 4096 in the code
    MIN_ALLOCATION,     \* 100 in the code
    ChunkBlocks,        \* 10 in the code: blocks of a chunk, unless they are tiny
    Requests,           \* the sizes asked for
    Remembers           \* allocate sets "initialized"; A5's copy of the library forgets to

ASSUME HeapAssumption ==
    /\ HeapStart \in Nat \ {0} /\ ChunkBlocks \in Nat \ {0}
    /\ SMALL_BLOCK_LIMIT \in Nat /\ MIN_ALLOCATION \in Nat
    /\ Requests \subseteq Int /\ Remembers \in BOOLEAN

BLOCK_SIZE_STEP == 8
NUM_SIZES       == SMALL_BLOCK_LIMIT \div BLOCK_SIZE_STEP
Sizes           == 0..(NUM_SIZES - 1)
NULL            == 0

VARIABLES
    free_space,  \* the end of the chunks
    headers,     \* small_block_headers: the free blocks of each size, in units of a step
    size         \* the sizes of the blocks in use

heap == <<free_space, headers, size>>

HeapInit ==
    /\ free_space = HeapStart
    /\ headers = [k \in Sizes |-> <<>>]
    /\ size = <<>>

InUse == DOMAIN size

\* The size in units of a step, with room for the size field.
Units(n) == (n + 4 + BLOCK_SIZE_STEP - 1) \div BLOCK_SIZE_STEP

\* The bytes of a block of k units.
Bytes(k) == k * BLOCK_SIZE_STEP

\* How much is taken from the heap for blocks of s bytes.
Chunk(s) == IF s * ChunkBlocks < MIN_ALLOCATION THEN (MIN_ALLOCATION \div s) * s
            ELSE s * ChunkBlocks

\* Mutation: the chunk is cut from its end on, not from a block before it.
CutFromEnd(s) == [i \in 1..((Chunk(s) \div s) + 1) |-> free_space + (i - 1) * s]

\* The blocks of a new chunk, the first one in front.
Cut(s) == [i \in 1..(Chunk(s) \div s) |-> free_space + (i - 1) * s]

\* The free blocks when allocate has looked at "initialized".
Kept == IF Remembers THEN headers ELSE [k \in Sizes |-> <<>>]

\* The free blocks for n bytes, if need be of a new chunk.  The first one is given out.
NeedsChunk(n) == Kept[Units(n)] = <<>>
Choice(n) == IF NeedsChunk(n) THEN Cut(Bytes(Units(n))) ELSE Kept[Units(n)]
Block(n)  == Head(Choice(n))

Allocate(n) ==
    LET k == Units(n)
    IN /\ n >= 1 /\ k < NUM_SIZES
       /\ headers' = [Kept EXCEPT ![k] = Tail(Choice(n))]
       /\ free_space' = IF NeedsChunk(n) THEN free_space + Chunk(Bytes(k)) ELSE free_space
       /\ size' = [c \in InUse \cup {Block(n)} |-> IF c = Block(n) THEN Bytes(k) ELSE size[c]]

\* Block b becomes the first free one of its size.
Release(b) ==
    /\ headers' = [headers EXCEPT ![size[b] \div BLOCK_SIZE_STEP] = <<b>> \o @]
    /\ size' = [c \in InUse \ {b} |-> size[c]]
    /\ UNCHANGED free_space

\* What a program may do: ask for blocks, and give back blocks it was given.
HeapNext == (\E n \in Requests : Allocate(n)) \/ (\E b \in InUse : Release(b))

HeapSpec == HeapInit /\ [][HeapNext]_heap

-----------------------------------------------------------------------------

\* m bytes at b and n bytes at c have none in common.
Apart(b, m, c, n) == b + m <= c \/ c + n <= b

Within(b, m) == HeapStart <= b /\ b + m <= free_space

\* All blocks, in use or free, lie within the heap and no two of them share a byte:
\* no free list gets a block twice or a block of another size, and no chunk is cut
\* from memory that was given away.
HeapSound ==
    /\ \A b \in InUse : Within(b, size[b])
    /\ \A k \in Sizes : \A i \in DOMAIN headers[k] : Within(headers[k][i], Bytes(k))
    /\ \A b, c \in InUse : b # c => Apart(b, size[b], c, size[c])
    /\ \A b \in InUse, k \in Sizes : \A i \in DOMAIN headers[k] :
          Apart(b, size[b], headers[k][i], Bytes(k))
    /\ \A k, l \in Sizes : \A i \in DOMAIN headers[k], j \in DOMAIN headers[l] :
          <<k, i>> # <<l, j>> => Apart(headers[k][i], Bytes(k), headers[l][j], Bytes(l))
=============================================================================
