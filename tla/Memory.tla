------------------------------- MODULE Memory ---------------------------------
(***************************************************************************)
(* A5/src/memory.c: the memory of the simulated machine, in pages that are  *)
(* created when they are first looked at and hold words of four bytes.      *)
(*                                                                          *)
(* A word is the function of its bytes, the lowest one first, and an        *)
(* address the number that its 32 bits are without a sign.                  *)
(***************************************************************************)
EXTENDS Integers

CONSTANTS
    PageNumbers,  \* 16^4 in the code: how many pages there are
    PageWords,    \* 4 * 16^3 in the code: how many words a page has
    Byte, Zero    \* the bytes, and the byte 0

Addresses == 0..(PageNumbers * PageWords * 4 - 1)
Lanes     == 0..3
Word      == [Lanes -> Byte]

ASSUME MemoryAssumption ==
    /\ PageNumbers \in Nat \ {0} /\ PageWords \in Nat \ {0}
    /\ Zero \in Byte

VARIABLES
    pages,   \* the pages that exist
    result,  \* what was read last
    running  \* no access has called exit

memory == <<pages, result, running>>

ZeroWord == [l \in Lanes |-> Zero]
ZeroPage == [i \in 0..(PageWords - 1) |-> ZeroWord]

MemoryInit == pages = <<>> /\ result = ZeroWord /\ running = TRUE

-----------------------------------------------------------------------------
(* Where a byte is.                                                         *)

PageNumber(a) == a \div (PageWords * 4)
Lane(a)   == a % 4
Index(a)  == (a \div 4) % PageWords

Page(n) == IF n \in DOMAIN pages THEN pages[n] ELSE ZeroPage

\* get_page: the pages with the one of the address.
GetPage(a) == [n \in DOMAIN pages \cup {PageNumber(a)} |-> Page(n)]

Cell(a) == Page(PageNumber(a))[Index(a)]

-----------------------------------------------------------------------------
(* The accesses.                                                            *)

\* Word w is written to where the address is.
Put(a, w) == /\ pages' = [GetPage(a) EXCEPT ![PageNumber(a)][Index(a)] = w]
             /\ UNCHANGED <<result, running>>

Get(a, w) == /\ pages' = GetPage(a) /\ result' = w
             /\ UNCHANGED running

Exit == running' = FALSE /\ UNCHANGED result

memory_wr_w(a, d) ==
    IF a % 4 # 0 THEN Exit /\ UNCHANGED pages
    ELSE Put(a, d)

memory_wr_h(a, d) ==
    IF a % 2 # 0 THEN Exit /\ UNCHANGED pages
    ELSE Put(a, IF Lane(a) < 2 THEN [Cell(a) EXCEPT ![0] = d[0], ![1] = d[1]]
                ELSE [Cell(a) EXCEPT ![2] = d[0], ![3] = d[1]])

memory_wr_b(a, d) == Put(a, [Cell(a) EXCEPT ![Lane(a)] = d[0]])

\* The page is looked up before the address is checked.
memory_rd_w(a) ==
    IF a % 4 # 0 THEN Exit /\ pages' = GetPage(a)
    ELSE Get(a, Cell(a))

\* Mutation: the upper half is not shifted down.
HighStays(w) == [l \in Lanes |-> IF l >= 2 THEN w[l] ELSE Zero]

Low(w)  == [l \in Lanes |-> IF l < 2 THEN w[l] ELSE Zero]
High(w) == [l \in Lanes |-> IF l < 2 THEN w[l + 2] ELSE Zero]

memory_rd_h(a) ==
    IF a % 2 # 0 THEN Exit /\ pages' = GetPage(a)
    ELSE Get(a, IF Lane(a) < 2 THEN Low(Cell(a)) ELSE High(Cell(a)))

memory_rd_b(a) == Get(a, [l \in Lanes |-> IF l = 0 THEN Cell(a)[Lane(a)] ELSE Zero])

-----------------------------------------------------------------------------

\* The type of the memory.
MemoryTypeOK ==
    /\ DOMAIN pages \subseteq 0..(PageNumbers - 1)
    /\ pages \in [DOMAIN pages -> [0..(PageWords - 1) -> Word]]
    /\ result \in Word
    /\ running \in BOOLEAN

\* The byte at each address.
Flat == [a \in Addresses |-> Cell(a)[Lane(a)]]
=============================================================================
