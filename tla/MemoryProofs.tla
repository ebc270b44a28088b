----------------------------- MODULE MemoryProofs -----------------------------
(***************************************************************************)
(* For every number and size of pages each access to the pages is the       *)
(* access to the memory of bytes of ByteMemory.                             *)
(***************************************************************************)
EXTENDS Memory, TLAPS

Bytes == INSTANCE ByteMemory WITH bytes <- Flat

\* An address has a page, a word of it and a byte of that.
LEMMA Place == ASSUME NEW a \in Addresses, MemoryAssumption
    PROVE  /\ PageNumber(a) \in 0..(PageNumbers - 1) /\ Index(a) \in 0..(PageWords - 1)
           /\ Lane(a) \in Lanes /\ a \in Nat
           /\ a \div 4 \in Nat /\ a = (a \div 4) * 4 + Lane(a)
           /\ PageNumber(a) = (a \div 4) \div PageWords
           /\ a \div 4 = PageNumber(a) * PageWords + Index(a)
<1> DEFINE w == a \div 4
           m == PageWords
           t == PageNumbers * PageWords
<1>1. a \in Nat /\ m \in Nat \ {0} /\ t \in Nat /\ a < t * 4
  BY DEF Addresses, MemoryAssumption
<1>2. w \in Nat /\ a = w * 4 + (a % 4) /\ a % 4 \in 0..3 /\ w < t
  BY <1>1
<1>3. w = (w \div m) * m + (w % m) /\ w % m \in 0..(m - 1) /\ w \div m \in Nat
  BY <1>1, <1>2
<1>4. a \div (m * 4) = w \div m
  <2> DEFINE q == w \div m
             r == w % m
             p == q * m
  <2>1. /\ q \in Nat /\ r \in 0..(m - 1) /\ p \in Nat /\ p = q * m
        /\ w = p + r
    BY <1>1, <1>3
  <2>a. \A i, k \in Nat : i * (k * 4) = (i * k) * 4
    OBVIOUS
  <2>b. q * (m * 4) = p * 4
    BY <1>1, <2>1, <2>a
  <2>2. a = q * (m * 4) + (r * 4 + (a % 4))
    <3> HIDE DEF q, r, p, w, m
    <3> QED BY <1>1, <1>2, <2>1, <2>b
  <2>3. r * 4 + (a % 4) \in 0..(m * 4 - 1)
    BY <1>1, <1>2, <2>1
  <2> HIDE DEF q, r, p, w, m
  <2> DEFINE e == r * 4 + (a % 4)
             n == m * 4
  <2>4. n \in Nat \ {0} /\ e \in 0..(n - 1) /\ a = q * n + e /\ q \in Nat
    BY <1>1, <2>1, <2>2, <2>3
  <2> HIDE DEF e, n
  <2>5. a \div n = q
    BY <2>4
  <2> QED BY <2>5 DEF n, q
<1>5. w \div m < PageNumbers
  <2> DEFINE q == w \div m
  <2>1. q \in Nat /\ q * m <= w
    BY <1>1, <1>3
  <2>2. q * m < PageNumbers * m
    BY <1>1, <1>2, <2>1, MemoryAssumption DEF MemoryAssumption
  <2> HIDE DEF q, w
  <2>3. q < PageNumbers
    BY <1>1, <2>1, <2>2, MemoryAssumption DEF MemoryAssumption
  <2> QED BY <2>3 DEF q
<1> HIDE DEF w
<1>6. PageNumber(a) = w \div m /\ Index(a) = w % m /\ Lane(a) = a % 4
  BY <1>4 DEF PageNumber, Index, Lane, w
<1>7. a % 4 \in Lanes
  BY <1>2 DEF Lanes
<1>8. /\ a = w * 4 + (a % 4) /\ w \in Nat /\ w \div m \in 0..(PageNumbers - 1)
      /\ w % m \in 0..(m - 1) /\ w = (w \div m) * m + (w % m)
  BY <1>1, <1>2, <1>3, <1>5, MemoryAssumption DEF MemoryAssumption
<1> QED BY <1>1, <1>6, <1>7, <1>8 DEF w

\* Two addresses have the same word of the same page if they are in the same word.
LEMMA SameWord == ASSUME NEW a \in Addresses, NEW b \in Addresses, MemoryAssumption
    PROVE  (PageNumber(a) = PageNumber(b) /\ Index(a) = Index(b)) <=> a \div 4 = b \div 4
<1>1. /\ PageNumber(a) = (a \div 4) \div PageWords /\ PageNumber(b) = (b \div 4) \div PageWords
      /\ a \div 4 = PageNumber(a) * PageWords + Index(a)
      /\ b \div 4 = PageNumber(b) * PageWords + Index(b)
  BY Place
<1>2. ASSUME PageNumber(a) = PageNumber(b), Index(a) = Index(b) PROVE a \div 4 = b \div 4
  BY <1>1, <1>2
<1>3. ASSUME a \div 4 = b \div 4 PROVE PageNumber(a) = PageNumber(b) /\ Index(a) = Index(b)
  BY <1>1, <1>3 DEF Index
<1> QED BY <1>2, <1>3

-----------------------------------------------------------------------------

PagesOK == /\ DOMAIN pages \subseteq 0..(PageNumbers - 1)
           /\ pages \in [DOMAIN pages -> [0..(PageWords - 1) -> Word]]

\* A word that is looked up is one.
LEMMA CellType == ASSUME NEW a \in Addresses, PagesOK, MemoryAssumption
                  PROVE  Cell(a) \in Word /\ Page(PageNumber(a)) \in [0..(PageWords - 1) -> Word]
<1>1. PageNumber(a) \in 0..(PageNumbers - 1) /\ Index(a) \in 0..(PageWords - 1)
  BY Place
<1>2. ZeroPage \in [0..(PageWords - 1) -> Word]
  BY MemoryAssumption DEF ZeroPage, ZeroWord, Word, MemoryAssumption
<1>3. Page(PageNumber(a)) \in [0..(PageWords - 1) -> Word]
  BY <1>2 DEF Page, PagesOK
<1> QED BY <1>1, <1>3 DEF Cell

\* Looking at a page changes no byte.
LEMMA GetPageFlat ==
    ASSUME NEW a \in Addresses, PagesOK, MemoryAssumption, pages' = GetPage(a)
    PROVE  PagesOK' /\ Flat' = Flat
<1>1. /\ PageNumber(a) \in 0..(PageNumbers - 1)
      /\ Page(PageNumber(a)) \in [0..(PageWords - 1) -> Word]
  BY Place, CellType
<1>2. \A n \in DOMAIN pages \cup {PageNumber(a)} : Page(n) \in [0..(PageWords - 1) -> Word]
  BY <1>1 DEF Page, PagesOK
<1>3. PagesOK'
  BY <1>1, <1>2 DEF PagesOK, GetPage
<1>4. \A b \in Addresses : Page(PageNumber(b))' = Page(PageNumber(b))
  BY DEF GetPage, Page, PageNumber, ZeroPage, ZeroWord
<1>5. \A b \in Addresses : Cell(b)' = Cell(b)
  BY <1>4 DEF Cell, Index
<1> QED BY <1>3, <1>5 DEF Flat, Lane

\* A word that is written changes the bytes of its addresses and no others.
LEMMA PutFlat ==
    ASSUME NEW a \in Addresses, NEW w \in Word, PagesOK, MemoryAssumption, Put(a, w)
    PROVE  /\ PagesOK'
           /\ Flat' = [b \in Addresses |-> IF b \div 4 = a \div 4 THEN w[Lane(b)] ELSE Flat[b]]
<1> DEFINE n == PageNumber(a)
           i == Index(a)
           old == GetPage(a)
<1>1. n \in 0..(PageNumbers - 1) /\ i \in 0..(PageWords - 1)
  BY Place
<1>2. /\ old \in [DOMAIN pages \cup {n} -> [0..(PageWords - 1) -> Word]]
      /\ n \in DOMAIN old /\ DOMAIN old = DOMAIN pages \cup {n}
      /\ \A m \in DOMAIN old : old[m] = Page(m)
  BY CellType DEF GetPage, Page, PagesOK
<1>3. pages' = [old EXCEPT ![n][i] = w]
  BY DEF Put
<1> HIDE DEF n, i, old
<1>4. /\ DOMAIN pages' = DOMAIN pages \cup {n}
      /\ pages' \in [DOMAIN pages \cup {n} -> [0..(PageWords - 1) -> Word]]
      /\ pages'[n] = [Page(n) EXCEPT ![i] = w]
      /\ \A m \in DOMAIN pages : m # n => pages'[m] = Page(m)
  BY <1>1, <1>2, <1>3
<1>5. PagesOK'
  BY <1>1, <1>4 DEF PagesOK
<1>6. ASSUME NEW b \in Addresses
      PROVE  Cell(b)' = IF b \div 4 = a \div 4 THEN w ELSE Cell(b)
  <2>1. b \div 4 = a \div 4 <=> (PageNumber(b) = n /\ Index(b) = i)
    BY SameWord DEF n, i
  <2>2. /\ PageNumber(b) \in 0..(PageNumbers - 1) /\ Index(b) \in 0..(PageWords - 1)
        /\ Page(n) \in [0..(PageWords - 1) -> Word]
    BY Place, CellType DEF n
  <2>3. CASE PageNumber(b) = n
    <3>1. Cell(b)' = pages'[n][Index(b)]
      BY <1>4, <2>3 DEF Cell, Page, PageNumber, Index
    <3> QED BY <1>1, <1>4, <2>1, <2>2, <2>3, <3>1 DEF Cell
  <2>4. CASE PageNumber(b) # n
    <3>1. Page(PageNumber(b))' = Page(PageNumber(b))
      BY <1>4, <2>4 DEF Page, PageNumber, ZeroPage, ZeroWord
    <3> QED BY <2>1, <2>4, <3>1 DEF Cell, Index
  <2> QED BY <2>3, <2>4
<1>7. Flat' = [b \in Addresses |-> (Cell(b)')[Lane(b)]]
  BY DEF Flat, Lane, Lanes
<1> QED BY <1>5, <1>6, <1>7 DEF Flat
-----------------------------------------------------------------------------

\* Where the byte at b is, seen from an access at a.
LEMMA Near == ASSUME NEW a \in Addresses, NEW b \in Addresses, MemoryAssumption
    PROVE  /\ a \in Nat /\ b \in Nat /\ Lane(a) \in Lanes /\ Lane(b) \in Lanes
           /\ a % 4 = 0 => (b \div 4 = a \div 4 <=> b \in a..(a + 3))
           /\ a % 4 = 0 /\ b \in a..(a + 3) => Lane(b) = b - a
           /\ a % 2 = 0 => Lane(a) \in {0, 2}
           /\ a % 2 = 0 => (b \in a..(a + 1) <=>
                               b \div 4 = a \div 4 /\ Lane(b) \in {Lane(a), Lane(a) + 1})
           /\ a % 2 = 0 /\ b \in a..(a + 1) => Lane(b) = Lane(a) + (b - a)
           /\ b \in a..a <=> (b \div 4 = a \div 4 /\ Lane(b) = Lane(a))
BY DEF Addresses, Lane, Lanes, MemoryAssumption

\* A word or a half word at an aligned address does not go beyond the last page.
LEMMA Fits == ASSUME NEW a \in Addresses, NEW n \in {1, 2, 4}, a % n = 0, MemoryAssumption,
                     NEW i \in Lanes, i < n
              PROVE  a + i \in Addresses
<1> DEFINE t == PageNumbers * PageWords
<1>1. t \in Nat
  BY DEF MemoryAssumption
<1> HIDE DEF t
<1>2. \A c \in 0..(t * 4 - 1) : c % n = 0 => c + i \in 0..(t * 4 - 1)
  BY <1>1 DEF Lanes
<1> QED BY <1>2 DEF Addresses, t

\* The memory after a write of n bytes of d at a.
Stored(a, n, d) == [b \in Addresses |-> IF b \in a..(a + n - 1) THEN d[b - a] ELSE Flat[b]]

LEMMA WriteWord ==
    ASSUME NEW a \in Addresses, NEW d \in Word, PagesOK, MemoryAssumption,
           a % 4 = 0, Put(a, d)
    PROVE  PagesOK' /\ Flat' = Stored(a, 4, d)
<1>1. /\ PagesOK'
      /\ Flat' = [b \in Addresses |-> IF b \div 4 = a \div 4 THEN d[Lane(b)] ELSE Flat[b]]
  BY PutFlat
<1>2. ASSUME NEW b \in Addresses
      PROVE  (IF b \div 4 = a \div 4 THEN d[Lane(b)] ELSE Flat[b])
             = IF b \in a..(a + 4 - 1) THEN d[b - a] ELSE Flat[b]
  <2>0. a \in Nat
    BY Near
  <2>1. a + 4 - 1 = a + 3
    BY <2>0
  <2>2. /\ b \div 4 = a \div 4 <=> b \in a..(a + 3)
        /\ b \in a..(a + 3) => Lane(b) = b - a
    BY Near
  <2> QED BY <2>1, <2>2
<1> QED BY <1>1, <1>2 DEF Stored

LEMMA WriteHalf ==
    ASSUME NEW a \in Addresses, NEW d \in Word, PagesOK, MemoryAssumption, a % 2 = 0,
           NEW w, w = IF Lane(a) < 2 THEN [Cell(a) EXCEPT ![0] = d[0], ![1] = d[1]]
                      ELSE [Cell(a) EXCEPT ![2] = d[0], ![3] = d[1]],
           Put(a, w)
    PROVE  PagesOK' /\ Flat' = Stored(a, 2, d)
<1>1. Cell(a) \in Word /\ Lane(a) \in {0, 2} /\ a \in Nat
  BY CellType, Near
<1>2. /\ w \in Word
      /\ w[Lane(a)] = d[0] /\ w[Lane(a) + 1] = d[1]
      /\ \A l \in Lanes : l \notin {Lane(a), Lane(a) + 1} => w[l] = Cell(a)[l]
  BY <1>1 DEF Word, Lanes
<1>3. /\ PagesOK'
      /\ Flat' = [b \in Addresses |-> IF b \div 4 = a \div 4 THEN w[Lane(b)] ELSE Flat[b]]
  BY <1>2, PutFlat
<1>4. ASSUME NEW b \in Addresses
      PROVE  (IF b \div 4 = a \div 4 THEN w[Lane(b)] ELSE Flat[b])
             = IF b \in a..(a + 2 - 1) THEN d[b - a] ELSE Flat[b]
  <2>1. /\ b \in Nat /\ Lane(b) \in Lanes
        /\ b \in a..(a + 1) <=> b \div 4 = a \div 4 /\ Lane(b) \in {Lane(a), Lane(a) + 1}
        /\ b \in a..(a + 1) => Lane(b) = Lane(a) + (b - a)
    BY Near, <1>1
  <2>e. a + 2 - 1 = a + 1
    BY <1>1
  <2>2. CASE b \in a..(a + 1)
    <3>1. b = a \/ b = a + 1
      BY <1>1, <2>1, <2>2
    <3>2. CASE b = a
      <4>1. b - a = 0 /\ Lane(b) = Lane(a)
        BY <1>1, <2>1, <2>2, <3>2
      <4> QED BY <1>2, <2>1, <2>2, <2>e, <4>1
    <3>3. CASE b = a + 1
      <4>1. b - a = 1 /\ Lane(b) = Lane(a) + 1
        BY <1>1, <2>1, <2>2, <3>3
      <4> QED BY <1>2, <2>1, <2>2, <2>e, <4>1
    <3> QED BY <3>1, <3>2, <3>3
  <2>3. CASE b \notin a..(a + 1) /\ b \div 4 = a \div 4
    <3>1. Cell(b) = Cell(a) /\ Lane(b) \notin {Lane(a), Lane(a) + 1}
      BY <2>1, <2>3, SameWord DEF Cell
    <3> QED BY <1>2, <2>1, <2>3, <2>e, <3>1 DEF Flat
  <2>4. CASE b \notin a..(a + 1) /\ b \div 4 # a \div 4
    BY <2>e, <2>4
  <2> QED BY <2>2, <2>3, <2>4
<1> QED BY <1>3, <1>4 DEF Stored

LEMMA WriteByte ==
    ASSUME NEW a \in Addresses, NEW d \in Word, PagesOK, MemoryAssumption,
           Put(a, [Cell(a) EXCEPT ![Lane(a)] = d[0]])
    PROVE  PagesOK' /\ Flat' = Stored(a, 1, d)
<1> DEFINE w == [Cell(a) EXCEPT ![Lane(a)] = d[0]]
<1>1. Cell(a) \in Word /\ Lane(a) \in Lanes /\ a \in Nat
  BY CellType, Near
<1>2. /\ w \in Word /\ w[Lane(a)] = d[0]
      /\ \A l \in Lanes : l # Lane(a) => w[l] = Cell(a)[l]
  BY <1>1 DEF Word, Lanes
<1>3. /\ PagesOK'
      /\ Flat' = [b \in Addresses |-> IF b \div 4 = a \div 4 THEN w[Lane(b)] ELSE Flat[b]]
  BY <1>2, PutFlat
<1> HIDE DEF w
<1>4. ASSUME NEW b \in Addresses
      PROVE  (IF b \div 4 = a \div 4 THEN w[Lane(b)] ELSE Flat[b])
             = IF b \in a..(a + 1 - 1) THEN d[b - a] ELSE Flat[b]
  <2>e. a + 1 - 1 = a
    BY <1>1
  <2>1. /\ b \in Nat /\ Lane(b) \in Lanes
        /\ b \in a..a <=> (b \div 4 = a \div 4 /\ Lane(b) = Lane(a))
    BY Near
  <2>2. CASE b \in a..a
    <3>1. b - a = 0
      BY <1>1, <2>1, <2>2
    <3> QED BY <1>2, <2>1, <2>2, <2>e, <3>1
  <2>3. CASE b \notin a..a /\ b \div 4 = a \div 4
    <3>1. Cell(b) = Cell(a) /\ Lane(b) # Lane(a)
      BY <2>1, <2>3, SameWord DEF Cell
    <3> QED BY <1>2, <2>1, <2>3, <2>e, <3>1 DEF Flat
  <2>4. CASE b \notin a..a /\ b \div 4 # a \div 4
    BY <2>1, <2>4, <2>e
  <2> QED BY <2>2, <2>3, <2>4
<1> QED BY <1>3, <1>4 DEF Stored, w

\* What a read of n bytes at a is to return.
Loaded(a, n) == [i \in 0..3 |-> IF i < n THEN Flat[a + i] ELSE Zero]

\* The bytes of an access are in the word that is read.
LEMMA ReadFlat ==
    ASSUME NEW a \in Addresses, NEW n \in {1, 2, 4}, a % n = 0, PagesOK, MemoryAssumption,
           NEW i \in Lanes, i < n
    PROVE  Lane(a) + i \in Lanes /\ Flat[a + i] = Cell(a)[Lane(a) + i]
<1>1. a + i \in Addresses /\ a \in Nat
  BY Fits, Near
<1>2. /\ (a + i) \div 4 = a \div 4 /\ Lane(a + i) = Lane(a) + i /\ Lane(a) + i \in Lanes
  BY <1>1 DEF Lane, Lanes
<1>3. Cell(a + i) = Cell(a)
  BY <1>1, <1>2, SameWord DEF Cell
<1> QED BY <1>1, <1>2, <1>3 DEF Flat

\* A read of n bytes creates the page and answers with them, zero-extended.
LEMMA Read ==
    ASSUME NEW a \in Addresses, NEW n \in {1, 2, 4}, a % n = 0, PagesOK, MemoryAssumption,
           NEW w, Get(a, w),
           w = [l \in Lanes |-> IF l < n THEN Cell(a)[Lane(a) + l] ELSE Zero]
    PROVE  PagesOK' /\ Flat' = Flat /\ result' = Loaded(a, n) /\ w \in Word
<1>1. PagesOK' /\ Flat' = Flat
  BY GetPageFlat DEF Get
<1>2. \A l \in Lanes : l < n => Lane(a) + l \in Lanes /\ Flat[a + l] = Cell(a)[Lane(a) + l]
  BY ReadFlat
<1>3. w = Loaded(a, n)
  BY <1>2 DEF Loaded, Lanes
<1>4. w \in Word
  BY <1>2, CellType, MemoryAssumption DEF Word, MemoryAssumption
<1> QED BY <1>1, <1>3, <1>4 DEF Get

\* The types after an access that has changed or looked at the pages.
TypesKept == PagesOK' /\ result' \in Word /\ running' \in BOOLEAN

\* The program ends because of an address.
LEMMA Ends ==
    ASSUME MemoryTypeOK, MemoryAssumption, NEW a \in Addresses, NEW n \in {1, 2, 4}, a % n # 0,
           Exit, pages' = GetPage(a) \/ pages' = pages
    PROVE  TypesKept /\ Bytes!Unaligned(a, n)
<1>1. PagesOK /\ result \in Word
  BY DEF MemoryTypeOK, PagesOK
<1>2. PagesOK' /\ Flat' = Flat
  <2>1. CASE pages' = GetPage(a)
    BY <1>1, <2>1, GetPageFlat
  <2>2. CASE pages' = pages
    BY <1>1, <2>2 DEF PagesOK, Flat, Cell, Page, PageNumber, Index, Lane, ZeroPage, ZeroWord
  <2> QED BY <2>1, <2>2
<1> QED BY <1>1, <1>2 DEF TypesKept, Exit, Bytes!Unaligned, Flat

\* A read answers with the bytes of the memory.
LEMMA Reads ==
    ASSUME MemoryTypeOK, MemoryAssumption, NEW a \in Addresses, NEW n \in {1, 2, 4}, a % n = 0,
           NEW w, Get(a, w),
           w = [l \in Lanes |-> IF l < n THEN Cell(a)[Lane(a) + l] ELSE Zero]
    PROVE  TypesKept /\ Bytes!Load(a, n)
<1>1. PagesOK /\ running \in BOOLEAN
  BY DEF MemoryTypeOK, PagesOK
<1>2. PagesOK' /\ Flat' = Flat /\ result' = Loaded(a, n) /\ w \in Word
  BY <1>1, Read
<1>3. result' = w /\ running' = running
  BY DEF Get
<1>4. a \in Nat /\ \A i \in 0..3 : i < n => a + i \in Addresses
  BY Fits, Near DEF Lanes
<1> QED BY <1>1, <1>2, <1>3, <1>4 DEF TypesKept, Bytes!Load, Flat, Loaded

\* A write changes the bytes of the memory.
LEMMA Writes ==
    ASSUME MemoryTypeOK, NEW a \in Addresses, NEW n \in {1, 2, 4}, a % n = 0, NEW d, NEW w,
           Put(a, w), PagesOK', Flat' = Stored(a, n, d)
    PROVE  TypesKept /\ Bytes!Store(a, n, d)
BY DEF MemoryTypeOK, TypesKept, Put, Bytes!Store, Flat, Stored

\* A memory without pages is typed, and every byte of it is zero.
LEMMA FlatAtFirst ==
    ASSUME MemoryAssumption, MemoryInit
    PROVE  MemoryTypeOK /\ Flat = [a \in Addresses |-> Zero]
<1>1. ZeroWord \in Word
  BY MemoryAssumption DEF ZeroWord, Word, MemoryAssumption
<1>2. MemoryTypeOK
  BY <1>1 DEF MemoryInit, MemoryTypeOK
<1>3. ASSUME NEW a \in Addresses PROVE Cell(a)[Lane(a)] = Zero
  <2>1. Index(a) \in 0..(PageWords - 1) /\ Lane(a) \in Lanes
    BY Place, MemoryAssumption
  <2> QED BY <2>1 DEF MemoryInit, Cell, Page, ZeroPage, ZeroWord
<1> QED BY <1>2, <1>3 DEF Flat

\* memory.c is a memory of bytes: what is read is what was written last, zero where
\* nothing was (see FlatAtFirst), and exactly the accesses that are not aligned end
\* the program.
THEOREM MemoryImplements ==
    ASSUME MemoryTypeOK, MemoryAssumption, NEW a \in Addresses
    PROVE  /\ memory_rd_w(a) => TypesKept /\ Bytes!Read(a, 4)
           /\ memory_rd_h(a) => TypesKept /\ Bytes!Read(a, 2)
           /\ memory_rd_b(a) => TypesKept /\ Bytes!Read(a, 1)
           /\ \A d \in Word :
                 /\ memory_wr_w(a, d) => TypesKept /\ Bytes!Write(a, 4, d)
                 /\ memory_wr_h(a, d) => TypesKept /\ Bytes!Write(a, 2, d)
                 /\ memory_wr_b(a, d) => TypesKept /\ Bytes!Write(a, 1, d)
<1>1. PagesOK
  BY DEF MemoryTypeOK, PagesOK
<1>2. a \in Addresses
  OBVIOUS
<1>3. a \in Nat /\ Lane(a) \in Lanes /\ Cell(a) \in Word
  BY <1>1, <1>2, Near, CellType
<1>4. a % 1 = 0
  BY <1>3
<1>5. ASSUME memory_rd_w(a) PROVE TypesKept /\ Bytes!Read(a, 4)
  <2>1. CASE a % 4 # 0
    BY <1>2, <1>5, <2>1, Ends DEF memory_rd_w, Bytes!Read
  <2>2. CASE a % 4 = 0
    <3>1. Lane(a) = 0
      BY <2>2 DEF Lane
    <3>2. Cell(a) = [l \in Lanes |-> IF l < 4 THEN Cell(a)[Lane(a) + l] ELSE Zero]
      BY <1>3, <3>1 DEF Word, Lanes
    <3> QED BY <1>2, <1>5, <2>2, <3>2, Reads DEF memory_rd_w, Bytes!Read
  <2> QED BY <2>1, <2>2
<1>6. ASSUME memory_rd_h(a) PROVE TypesKept /\ Bytes!Read(a, 2)
  <2>1. CASE a % 2 # 0
    BY <1>2, <1>6, <2>1, Ends DEF memory_rd_h, Bytes!Read
  <2>2. CASE a % 2 = 0
    <3> DEFINE w == IF Lane(a) < 2 THEN Low(Cell(a)) ELSE High(Cell(a))
    <3>1. Lane(a) \in {0, 2}
      BY <1>2, <2>2, Near
    <3>2. w = [l \in Lanes |-> IF l < 2 THEN Cell(a)[Lane(a) + l] ELSE Zero]
      BY <1>3, <3>1 DEF Low, High, Lanes
    <3>3. Get(a, w)
      BY <1>6, <2>2 DEF memory_rd_h
    <3> HIDE DEF w
    <3> QED BY <1>2, <2>2, <3>2, <3>3, Reads DEF Bytes!Read
  <2> QED BY <2>1, <2>2
<1>7. ASSUME memory_rd_b(a) PROVE TypesKept /\ Bytes!Read(a, 1)
  <2> DEFINE w == [l \in Lanes |-> IF l = 0 THEN Cell(a)[Lane(a)] ELSE Zero]
  <2>1. w = [l \in Lanes |-> IF l < 1 THEN Cell(a)[Lane(a) + l] ELSE Zero]
    BY <1>3 DEF Lanes
  <2>2. Get(a, w)
    BY <1>7 DEF memory_rd_b
  <2> HIDE DEF w
  <2> QED BY <1>2, <1>4, <2>1, <2>2, Reads DEF Bytes!Read
<1>8. ASSUME NEW d \in Word, memory_wr_w(a, d) PROVE TypesKept /\ Bytes!Write(a, 4, d)
  <2>1. CASE a % 4 # 0
    BY <1>2, <1>8, <2>1, Ends DEF memory_wr_w, Bytes!Write
  <2>2. CASE a % 4 = 0
    <3>1. Put(a, d) /\ d \in Word
      BY <1>8, <2>2 DEF memory_wr_w
    <3>2. PagesOK' /\ Flat' = Stored(a, 4, d)
      BY <1>1, <1>2, <2>2, <3>1, WriteWord
    <3> QED BY <1>2, <2>2, <3>1, <3>2, Writes DEF Bytes!Write
  <2> QED BY <2>1, <2>2
<1>9. ASSUME NEW d \in Word, memory_wr_h(a, d) PROVE TypesKept /\ Bytes!Write(a, 2, d)
  <2>1. CASE a % 2 # 0
    BY <1>2, <1>9, <2>1, Ends DEF memory_wr_h, Bytes!Write
  <2>2. CASE a % 2 = 0
    <3> DEFINE w == IF Lane(a) < 2 THEN [Cell(a) EXCEPT ![0] = d[0], ![1] = d[1]]
                    ELSE [Cell(a) EXCEPT ![2] = d[0], ![3] = d[1]]
    <3>1. Put(a, w) /\ d \in Word
      BY <1>9, <2>2 DEF memory_wr_h
    <3>2. PagesOK' /\ Flat' = Stored(a, 2, d)
      BY <1>1, <1>2, <2>2, <3>1, WriteHalf
    <3> HIDE DEF w
    <3> QED BY <1>2, <2>2, <3>1, <3>2, Writes DEF Bytes!Write
  <2> QED BY <2>1, <2>2
<1>10. ASSUME NEW d \in Word, memory_wr_b(a, d) PROVE TypesKept /\ Bytes!Write(a, 1, d)
  <2>1. Put(a, [Cell(a) EXCEPT ![Lane(a)] = d[0]]) /\ d \in Word
    BY <1>10 DEF memory_wr_b
  <2>2. PagesOK' /\ Flat' = Stored(a, 1, d)
    BY <1>1, <1>2, <2>1, WriteByte
  <2> QED BY <1>2, <1>4, <2>1, <2>2, Writes DEF Bytes!Write
<1> QED BY <1>5, <1>6, <1>7, <1>8, <1>9, <1>10
===============================================================================
