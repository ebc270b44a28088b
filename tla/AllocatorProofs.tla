--------------------------- MODULE AllocatorProofs ----------------------------
(***************************************************************************)
(* For every heap, every limit and every sequence of calls, the blocks in   *)
(* use and the free ones lie within the heap and do not overlap, with the   *)
(* library of A6 and with the copy of A5.                                   *)
(***************************************************************************)
EXTENDS Allocator, TLAPS

\* The lists are well formed, and a block in use is as long as its list says.
HeapTypes ==
    /\ free_space \in Nat /\ free_space >= HeapStart
    /\ headers \in [Sizes -> Seq(Nat)]
    /\ InUse \subseteq Nat /\ size \in [InUse -> Nat]
    /\ \A b \in InUse : /\ size[b] \div BLOCK_SIZE_STEP \in Sizes
                        /\ size[b] = Bytes(size[b] \div BLOCK_SIZE_STEP)
                        /\ size[b] > 0

HeapInv == HeapTypes /\ HeapSound

\* The i-th of the blocks of s bytes ends where a later one begins, or before.
LEMMA Slots == ASSUME NEW i \in Nat, NEW j \in Nat, NEW s \in Nat, i < j
               PROVE  i * s + s <= j * s
<1> DEFINE d == j - i - 1
<1>1. d \in Nat /\ j = i + 1 + d
  OBVIOUS
<1>2. j * s = i * s + s + d * s
  BY <1>1
<1>3. d * s >= 0
  BY <1>1
<1> QED BY <1>2, <1>3

\* A chunk is a whole number of blocks, at least one.
LEMMA WholeBlocks == ASSUME NEW s \in Nat, s > 0, HeapAssumption
    PROVE  \E m \in Nat \ {0} : Chunk(s) = m * s /\ Chunk(s) \div s = m
<1>1. CASE s * ChunkBlocks < MIN_ALLOCATION
  <2> DEFINE m == MIN_ALLOCATION \div s
  <2>1. m \in Nat
    BY DEF HeapAssumption
  <2>2. s * ChunkBlocks >= s
    BY DEF HeapAssumption
  <2>3. m # 0
    BY <1>1, <2>2 DEF HeapAssumption
  <2>4. (m * s) \div s = m
    BY <2>1
  <2> QED BY <1>1, <2>1, <2>3, <2>4 DEF Chunk
<1>2. CASE ~(s * ChunkBlocks < MIN_ALLOCATION)
  <2>1. (s * ChunkBlocks) \div s = ChunkBlocks
    BY DEF HeapAssumption
  <2> QED BY <1>2, <2>1 DEF Chunk, HeapAssumption
<1> QED BY <1>1, <1>2

\* A chunk is cut into blocks that lie within it and do not overlap.
LEMMA CutSound == ASSUME NEW s \in Nat, s > 0, free_space \in Nat, HeapAssumption
    PROVE  /\ Cut(s) \in Seq(Nat) /\ Cut(s) # <<>> /\ Chunk(s) \in Nat
           /\ \A i \in DOMAIN Cut(s) : /\ free_space <= Cut(s)[i]
                                      /\ Cut(s)[i] + s <= free_space + Chunk(s)
           /\ \A i, j \in DOMAIN Cut(s) : i # j => Apart(Cut(s)[i], s, Cut(s)[j], s)
<1>1. PICK m \in Nat \ {0} : Chunk(s) = m * s /\ Chunk(s) \div s = m
  BY WholeBlocks
<1>2. Cut(s) = [i \in 1..m |-> free_space + (i - 1) * s]
  BY <1>1 DEF Cut
<1>3. \A i \in 1..m : free_space + (i - 1) * s \in Nat
  BY <1>1
<1>4. Cut(s) \in Seq(Nat) /\ DOMAIN Cut(s) = 1..m /\ Cut(s) # <<>> /\ Chunk(s) \in Nat
  BY <1>1, <1>2, <1>3
<1>5. ASSUME NEW i \in 1..m
      PROVE  free_space <= Cut(s)[i] /\ Cut(s)[i] + s <= free_space + Chunk(s)
  <2>1. (i - 1) * s + s <= m * s /\ (i - 1) * s >= 0 /\ (i - 1) * s \in Nat
    BY Slots, i - 1 \in Nat, i - 1 < m
  <2> DEFINE a == (i - 1) * s
             e == m * s
  <2>2. Cut(s)[i] = free_space + a /\ Chunk(s) = e /\ a \in Nat /\ e \in Nat
    BY <1>1, <1>2, <2>1
  <2>3. a + s <= e
    BY <2>1
  <2> HIDE DEF a, e
  <2> QED BY <2>2, <2>3
<1>6. ASSUME NEW i \in 1..m, NEW j \in 1..m, i < j
      PROVE  Cut(s)[i] + s <= Cut(s)[j]
  <2> DEFINE a == (i - 1) * s
             b == (j - 1) * s
  <2>1. a + s <= b /\ a \in Nat /\ b \in Nat
    BY <1>6, Slots, i - 1 \in Nat, j - 1 \in Nat, i - 1 < j - 1
  <2>2. Cut(s)[i] = free_space + a /\ Cut(s)[j] = free_space + b
    BY <1>2
  <2> HIDE DEF a, b
  <2> QED BY <2>1, <2>2
<1>7. ASSUME NEW i \in 1..m, NEW j \in 1..m, i # j
      PROVE  Apart(Cut(s)[i], s, Cut(s)[j], s)
  BY <1>6, <1>7 DEF Apart
<1> QED BY <1>4, <1>5, <1>7

\* The free blocks when the lists have been cleared, or not.
LEMMA KeptSound == ASSUME HeapInv, HeapAssumption
    PROVE  /\ Kept \in [Sizes -> Seq(Nat)]
           /\ \A k \in Sizes : Kept[k] = headers[k] \/ Kept[k] = <<>>
BY DEF Kept, HeapInv, HeapTypes, HeapAssumption

\* What allocate chooses from: blocks within the heap, apart from each other, from
\* the blocks in use and from the other free ones.
LEMMA ChoiceSound ==
    ASSUME HeapInv, HeapAssumption, NEW n \in Int, n >= 1, Units(n) < NUM_SIZES,
           NEW end, end = IF NeedsChunk(n) THEN free_space + Chunk(Bytes(Units(n)))
                          ELSE free_space
    PROVE  /\ Units(n) \in Sizes /\ Bytes(Units(n)) \in Nat \ {0}
           /\ Bytes(Units(n)) \div BLOCK_SIZE_STEP = Units(n)
           /\ end \in Nat /\ free_space <= end
           /\ Choice(n) \in Seq(Nat) /\ Choice(n) # <<>>
           /\ \A i \in DOMAIN Choice(n) :
                 /\ HeapStart <= Choice(n)[i] /\ Choice(n)[i] + Bytes(Units(n)) <= end
                 /\ \A b \in InUse : Apart(b, size[b], Choice(n)[i], Bytes(Units(n)))
                 /\ \A j \in DOMAIN Choice(n) : i # j =>
                      Apart(Choice(n)[i], Bytes(Units(n)), Choice(n)[j], Bytes(Units(n)))
                 /\ \A k \in Sizes \ {Units(n)} : \A j \in DOMAIN Kept[k] :
                      Apart(Choice(n)[i], Bytes(Units(n)), Kept[k][j], Bytes(k))
<1> DEFINE u == Units(n)
           s == Bytes(u)
           list == Choice(n)
<1>1. u \in Sizes /\ s \in Nat /\ s > 0 /\ s \div BLOCK_SIZE_STEP = u
  BY DEF Units, Bytes, Sizes, BLOCK_SIZE_STEP, HeapAssumption, NUM_SIZES
<1> HIDE DEF u, s, list
<1>0. /\ free_space \in Nat /\ HeapStart \in Nat /\ free_space >= HeapStart
      /\ InUse \subseteq Nat /\ size \in [InUse -> Nat] /\ headers \in [Sizes -> Seq(Nat)]
      /\ \A k \in Sizes : Bytes(k) \in Nat
  BY DEF HeapInv, HeapTypes, HeapAssumption, Sizes, Bytes, BLOCK_SIZE_STEP
<1>2. CASE NeedsChunk(n)
  <2>1. list = Cut(s) /\ end = free_space + Chunk(s)
    BY <1>2 DEF list, Choice, s, u
  <2>2. /\ Cut(s) \in Seq(Nat) /\ Cut(s) # <<>> /\ Chunk(s) \in Nat
        /\ \A i \in DOMAIN Cut(s) : /\ free_space <= Cut(s)[i]
                                   /\ Cut(s)[i] + s <= free_space + Chunk(s)
        /\ \A i, j \in DOMAIN Cut(s) : i # j => Apart(Cut(s)[i], s, Cut(s)[j], s)
    BY <1>0, <1>1, CutSound
  <2>3. ASSUME NEW i \in DOMAIN list, NEW b \in InUse
        PROVE  Apart(b, size[b], list[i], s)
    <3>1. b \in Nat /\ size[b] \in Nat /\ b + size[b] <= free_space
      BY <1>0 DEF HeapInv, HeapSound, Within
    <3>2. list[i] \in Nat /\ free_space <= list[i]
      BY <2>1, <2>2
    <3> QED BY <1>0, <3>1, <3>2 DEF Apart
  <2>4. ASSUME NEW i \in DOMAIN list, NEW k \in Sizes \ {u}, NEW j \in DOMAIN Kept[k]
        PROVE  Apart(list[i], s, Kept[k][j], Bytes(k))
    <3>1. Kept[k] = headers[k] /\ j \in DOMAIN headers[k]
      BY KeptSound
    <3>2. headers[k][j] \in Nat /\ headers[k][j] + Bytes(k) <= free_space
      BY <1>0, <3>1 DEF HeapInv, HeapSound, Within
    <3>3. list[i] \in Nat /\ free_space <= list[i]
      BY <2>1, <2>2
    <3> QED BY <1>0, <1>1, <3>1, <3>2, <3>3 DEF Apart
  <2>5. ASSUME NEW i \in DOMAIN list
        PROVE  HeapStart <= list[i] /\ list[i] + s <= end
    BY <1>0, <1>1, <2>1, <2>2
  <2>6. end \in Nat /\ free_space <= end
    BY <1>0, <2>1, <2>2
  <2> QED BY <1>1, <2>1, <2>2, <2>3, <2>4, <2>5, <2>6 DEF list, s, u
<1>3. CASE ~NeedsChunk(n)
  <2>1. list = Kept[u] /\ list # <<>> /\ end = free_space /\ list = headers[u]
    BY <1>1, <1>3, KeptSound DEF list, Choice, NeedsChunk, s, u
  <2>2. list \in Seq(Nat)
    BY <1>0, <1>1, <2>1
  <2>3. ASSUME NEW i \in DOMAIN list
        PROVE  HeapStart <= list[i] /\ list[i] + s <= end
    BY <1>0, <1>1, <2>1, <2>2 DEF HeapInv, HeapSound, Within, s
  <2>4. ASSUME NEW i \in DOMAIN list, NEW b \in InUse
        PROVE  Apart(b, size[b], list[i], s)
    BY <1>1, <2>1 DEF HeapInv, HeapSound, s
  <2>5. ASSUME NEW i \in DOMAIN list, NEW j \in DOMAIN list, i # j
        PROVE  Apart(list[i], s, list[j], s)
    <3>1. <<u, i>> # <<u, j>>
      BY <2>5
    <3> QED BY <1>1, <2>1, <3>1 DEF HeapInv, HeapSound, s
  <2>6. ASSUME NEW i \in DOMAIN list, NEW k \in Sizes \ {u}, NEW j \in DOMAIN Kept[k]
        PROVE  Apart(list[i], s, Kept[k][j], Bytes(k))
    <3>1. Kept[k] = headers[k] /\ j \in DOMAIN headers[k] /\ <<u, i>> # <<k, j>>
      BY KeptSound
    <3> QED BY <1>1, <2>1, <3>1 DEF HeapInv, HeapSound, s
  <2> QED BY <1>0, <1>1, <2>1, <2>2, <2>3, <2>4, <2>5, <2>6 DEF list, s, u
<1> QED BY <1>2, <1>3

-----------------------------------------------------------------------------

\* allocate keeps the heap sound: the block given out is one of the choice, and the
\* rest of the choice is the new list.
LEMMA AllocateKeeps == ASSUME HeapInv, HeapAssumption, NEW n \in Int, Allocate(n)
                       PROVE  HeapInv'
<1> DEFINE u == Units(n)
           s == Bytes(u)
           list == Choice(n)
           end == free_space'
<1>1. /\ n >= 1 /\ u < NUM_SIZES /\ headers' = [Kept EXCEPT ![u] = Tail(list)]
      /\ end = IF NeedsChunk(n) THEN free_space + Chunk(s) ELSE free_space
      /\ size' = [c \in InUse \cup {list[1]} |-> IF c = list[1] THEN s ELSE size[c]]
  BY DEF Allocate, Block
<1>2. /\ u \in Sizes /\ s \in Nat \ {0} /\ s \div BLOCK_SIZE_STEP = u
      /\ end \in Nat /\ free_space <= end
      /\ list \in Seq(Nat) /\ list # <<>>
      /\ \A i \in DOMAIN list :
            /\ HeapStart <= list[i] /\ list[i] + s <= end
            /\ \A b \in InUse : Apart(b, size[b], list[i], s)
            /\ \A j \in DOMAIN list : i # j => Apart(list[i], s, list[j], s)
            /\ \A k \in Sizes \ {u} : \A j \in DOMAIN Kept[k] :
                 Apart(list[i], s, Kept[k][j], Bytes(k))
  BY <1>1, ChoiceSound
<1>s. s = Bytes(u)
  OBVIOUS
<1> HIDE DEF u, s, list, end
<1>3. /\ Kept \in [Sizes -> Seq(Nat)]
      /\ \A k \in Sizes : Kept[k] = headers[k] \/ Kept[k] = <<>>
  BY KeptSound
<1>4. /\ 1 \in DOMAIN list /\ list[1] \in Nat /\ Tail(list) \in Seq(Nat)
      /\ \A i \in DOMAIN Tail(list) : /\ i + 1 \in DOMAIN list /\ i + 1 # 1 /\ i \in Int
                                     /\ Tail(list)[i] = list[i + 1]
  BY <1>2
<1>5. /\ headers'[u] = Tail(list) /\ headers' \in [Sizes -> Seq(Nat)]
      /\ \A k \in Sizes \ {u} : headers'[k] = Kept[k]
  BY <1>1, <1>2, <1>3, <1>4
<1>6. ASSUME NEW k \in Sizes \ {u}, NEW i \in DOMAIN headers'[k]
      PROVE  /\ headers'[k] = headers[k] /\ i \in DOMAIN headers[k] /\ i \in DOMAIN Kept[k]
             /\ headers'[k][i] = headers[k][i] /\ headers'[k][i] = Kept[k][i]
  BY <1>3, <1>5
<1>7. /\ InUse' = InUse \cup {list[1]} /\ size'[list[1]] = s
      /\ \A b \in InUse' \ {list[1]} : b \in InUse /\ size'[b] = size[b]
  BY <1>1 DEF InUse
<1>8. /\ free_space \in Nat /\ HeapStart \in Nat /\ InUse \subseteq Nat
      /\ size \in [InUse -> Nat] /\ \A k \in Sizes : Bytes(k) \in Nat
      /\ free_space >= HeapStart
  BY DEF HeapInv, HeapTypes, HeapAssumption, Sizes, Bytes, BLOCK_SIZE_STEP
<1>9. HeapTypes'
  <2>1. InUse' \subseteq Nat
    BY <1>4, <1>7, <1>8
  <2>2. size' \in [InUse' -> Nat]
    BY <1>1, <1>2, <1>7, <1>8
  <2>3. ASSUME NEW b \in InUse'
        PROVE  /\ size'[b] \div BLOCK_SIZE_STEP \in Sizes
               /\ size'[b] = Bytes(size'[b] \div BLOCK_SIZE_STEP) /\ size'[b] > 0
    <3>1. CASE b = list[1]
      BY <1>2, <1>7, <1>s, <3>1
    <3>2. CASE b # list[1]
      BY <1>7, <3>2 DEF HeapInv, HeapTypes
    <3> QED BY <3>1, <3>2
  <2>4. free_space' \in Nat /\ free_space' >= HeapStart
    BY <1>2, <1>8 DEF end
  <2> QED BY <1>5, <2>1, <2>2, <2>3, <2>4 DEF HeapTypes, Bytes, BLOCK_SIZE_STEP
<1>10. ASSUME NEW b \in InUse' PROVE HeapStart <= b /\ b + size'[b] <= free_space'
  <2>1. CASE b = list[1]
    BY <1>2, <1>4, <1>7, <2>1 DEF end
  <2>2. CASE b # list[1]
    <3>1. b \in InUse /\ size'[b] = size[b] /\ b \in Nat /\ size[b] \in Nat
      BY <1>7, <1>8, <2>2
    <3>2. HeapStart <= b /\ b + size[b] <= free_space
      BY <3>1 DEF HeapInv, HeapSound, Within
    <3> QED BY <1>2, <1>8, <3>1, <3>2 DEF end
  <2> QED BY <2>1, <2>2
<1>11. ASSUME NEW k \in Sizes, NEW i \in DOMAIN headers'[k]
       PROVE  HeapStart <= headers'[k][i] /\ headers'[k][i] + Bytes(k) <= free_space'
  <2>1. CASE k = u
    BY <1>2, <1>4, <1>5, <1>s, <2>1 DEF end
  <2>2. CASE k # u
    <3>1. headers'[k][i] = headers[k][i] /\ i \in DOMAIN headers[k]
      BY <1>6, <2>2
    <3>2. headers[k][i] \in Nat
      BY <3>1 DEF HeapInv, HeapTypes
    <3>3. HeapStart <= headers[k][i] /\ headers[k][i] + Bytes(k) <= free_space
      BY <3>1 DEF HeapInv, HeapSound, Within
    <3> QED BY <1>2, <1>8, <3>1, <3>2, <3>3 DEF end
  <2> QED BY <2>1, <2>2
<1>12. ASSUME NEW b \in InUse', NEW c \in InUse', b # c
       PROVE  Apart(b, size'[b], c, size'[c])
  <2>1. CASE b # list[1] /\ c # list[1]
    BY <1>7, <1>12, <2>1 DEF HeapInv, HeapSound
  <2>2. CASE b = list[1]
    BY <1>2, <1>4, <1>7, <1>12, <2>2 DEF Apart
  <2>3. CASE c = list[1]
    BY <1>2, <1>4, <1>7, <1>12, <2>3 DEF Apart
  <2> QED BY <2>1, <2>2, <2>3
<1>13. ASSUME NEW b \in InUse', NEW k \in Sizes, NEW i \in DOMAIN headers'[k]
       PROVE  Apart(b, size'[b], headers'[k][i], Bytes(k))
  <2>1. CASE b = list[1] /\ k = u
    <3>1. i \in DOMAIN Tail(list) /\ headers'[k][i] = list[i + 1]
      BY <1>4, <1>5, <2>1
    <3>2. Apart(list[1], s, list[i + 1], s)
      BY <1>2, <1>4, <3>1
    <3> QED BY <1>7, <1>s, <2>1, <3>1, <3>2
  <2>2. CASE b = list[1] /\ k # u
    <3>1. i \in DOMAIN Kept[k] /\ headers'[k][i] = Kept[k][i] /\ k \in Sizes \ {u}
      BY <1>6, <2>2
    <3> QED BY <1>2, <1>4, <1>7, <2>2, <3>1
  <2>3. CASE b # list[1] /\ k = u
    <3>1. i \in DOMAIN Tail(list) /\ headers'[k][i] = list[i + 1]
      BY <1>4, <1>5, <2>3
    <3>2. Apart(b, size[b], list[i + 1], s)
      BY <1>2, <1>4, <1>7, <2>3, <3>1
    <3> QED BY <1>7, <1>s, <2>3, <3>1, <3>2
  <2>4. CASE b # list[1] /\ k # u
    BY <1>6, <1>7, <2>4 DEF HeapInv, HeapSound
  <2> QED BY <2>1, <2>2, <2>3, <2>4
<1>14. ASSUME NEW k \in Sizes, NEW l \in Sizes, NEW i \in DOMAIN headers'[k],
              NEW j \in DOMAIN headers'[l], <<k, i>> # <<l, j>>
       PROVE  Apart(headers'[k][i], Bytes(k), headers'[l][j], Bytes(l))
  <2>1. CASE k = u /\ l = u
    <3>1. i + 1 # j + 1 /\ i \in DOMAIN Tail(list) /\ j \in DOMAIN Tail(list)
      BY <1>4, <1>5, <1>14, <2>1
    <3>2. Apart(list[i + 1], s, list[j + 1], s)
      BY <1>2, <1>4, <3>1
    <3> QED BY <1>4, <1>5, <1>s, <2>1, <3>1, <3>2
  <2>2. CASE k = u /\ l # u
    <3>1. j \in DOMAIN Kept[l] /\ headers'[l][j] = Kept[l][j] /\ l \in Sizes \ {u}
      BY <1>6, <2>2
    <3>2. i \in DOMAIN Tail(list) /\ headers'[k][i] = list[i + 1]
      BY <1>4, <1>5, <2>2
    <3>3. Apart(list[i + 1], s, Kept[l][j], Bytes(l))
      BY <1>2, <1>4, <3>1, <3>2
    <3> QED BY <1>s, <2>2, <3>1, <3>2, <3>3
  <2>3. CASE k # u /\ l = u
    <3>1. i \in DOMAIN Kept[k] /\ headers'[k][i] = Kept[k][i] /\ k \in Sizes \ {u}
      BY <1>6, <2>3
    <3>2. j \in DOMAIN Tail(list) /\ headers'[l][j] = list[j + 1]
      BY <1>4, <1>5, <2>3
    <3>3. Apart(list[j + 1], s, Kept[k][i], Bytes(k))
      BY <1>2, <1>4, <3>1, <3>2
    <3> QED BY <1>s, <2>3, <3>1, <3>2, <3>3 DEF Apart
  <2>4. CASE k # u /\ l # u
    BY <1>6, <1>14, <2>4 DEF HeapInv, HeapSound
  <2> QED BY <2>1, <2>2, <2>3, <2>4
<1>15. HeapSound'
  BY <1>10, <1>11, <1>12, <1>13, <1>14 DEF HeapSound, Within, Apart, Bytes
<1> QED BY <1>9, <1>15 DEF HeapInv

\* release keeps the heap sound: the block moves from the used to the free ones of
\* its size.
LEMMA ReleaseKeeps == ASSUME HeapInv, HeapAssumption, NEW b \in InUse, Release(b)
                      PROVE  HeapInv'
<1> DEFINE u == size[b] \div BLOCK_SIZE_STEP
<1>1. /\ u \in Sizes /\ size[b] = Bytes(u) /\ b \in Nat
      /\ headers \in [Sizes -> Seq(Nat)]
  BY DEF HeapInv, HeapTypes
<1>2. headers' = [headers EXCEPT ![u] = <<b>> \o headers[u]] /\ free_space' = free_space
  BY DEF Release
<1>3. /\ InUse' = InUse \ {b} /\ size' = [c \in InUse' |-> size[c]]
      /\ \A c \in InUse' : c \in InUse /\ c # b /\ size'[c] = size[c]
  BY DEF Release, InUse
<1> HIDE DEF u
<1>4. /\ headers' \in [Sizes -> Seq(Nat)] /\ headers'[u] = <<b>> \o headers[u]
      /\ headers'[u][1] = b
      /\ \A i \in DOMAIN headers'[u] : i # 1 =>
            i - 1 \in DOMAIN headers[u] /\ headers'[u][i] = headers[u][i - 1]
      /\ \A k \in Sizes \ {u} : headers'[k] = headers[k]
  BY <1>1, <1>2
<1>5. HeapTypes'
  BY <1>2, <1>3, <1>4 DEF HeapInv, HeapTypes, Bytes, BLOCK_SIZE_STEP
\* A free block of the new lists was in use, or is a free one of the old lists.
<1>6. ASSUME NEW k \in Sizes, NEW i \in DOMAIN headers'[k], ~(k = u /\ i = 1)
      PROVE  LET o == IF k = u THEN i - 1 ELSE i
             IN o \in DOMAIN headers[k] /\ headers'[k][i] = headers[k][o]
  BY <1>4, <1>6
<1>7. ASSUME NEW k \in Sizes, NEW i \in DOMAIN headers'[k]
      PROVE  HeapStart <= headers'[k][i] /\ headers'[k][i] + Bytes(k) <= free_space'
  <2>1. CASE k = u /\ i = 1
    BY <1>1, <1>2, <1>4, <2>1 DEF HeapInv, HeapSound, Within
  <2>2. CASE ~(k = u /\ i = 1)
    BY <1>2, <1>6, <2>2 DEF HeapInv, HeapSound, Within
  <2> QED BY <2>1, <2>2
<1>8. ASSUME NEW c \in InUse', NEW k \in Sizes, NEW i \in DOMAIN headers'[k]
      PROVE  Apart(c, size'[c], headers'[k][i], Bytes(k))
  <2>1. CASE k = u /\ i = 1
    BY <1>1, <1>3, <1>4, <2>1 DEF HeapInv, HeapSound
  <2>2. CASE ~(k = u /\ i = 1)
    BY <1>3, <1>6, <2>2 DEF HeapInv, HeapSound
  <2> QED BY <2>1, <2>2
<1>9. ASSUME NEW k \in Sizes, NEW l \in Sizes, NEW i \in DOMAIN headers'[k],
             NEW j \in DOMAIN headers'[l], <<k, i>> # <<l, j>>
      PROVE  Apart(headers'[k][i], Bytes(k), headers'[l][j], Bytes(l))
  <2>1. CASE k = u /\ i = 1
    <3>1. ~(l = u /\ j = 1)
      BY <1>9, <2>1
    <3>2. PICK o \in DOMAIN headers[l] : headers'[l][j] = headers[l][o]
      BY <1>6, <3>1
    <3>3. Apart(b, size[b], headers[l][o], Bytes(l))
      BY DEF HeapInv, HeapSound
    <3> QED BY <1>1, <1>4, <2>1, <3>2, <3>3
  <2>2. CASE l = u /\ j = 1
    <3>1. ~(k = u /\ i = 1)
      BY <1>9, <2>2
    <3>2. PICK o \in DOMAIN headers[k] : headers'[k][i] = headers[k][o]
      BY <1>6, <3>1
    <3>3. Apart(b, size[b], headers[k][o], Bytes(k))
      BY DEF HeapInv, HeapSound
    <3> QED BY <1>1, <1>4, <2>2, <3>2, <3>3 DEF Apart
  <2>3. CASE ~(k = u /\ i = 1) /\ ~(l = u /\ j = 1)
    <3> DEFINE o == IF k = u THEN i - 1 ELSE i
               q == IF l = u THEN j - 1 ELSE j
    <3>1. o \in DOMAIN headers[k] /\ headers'[k][i] = headers[k][o]
      BY <1>6, <2>3
    <3>2. q \in DOMAIN headers[l] /\ headers'[l][j] = headers[l][q]
      BY <1>6, <2>3
    <3>3. <<k, o>> # <<l, q>>
      BY <1>4, <1>9
    <3> HIDE DEF o, q
    <3> QED BY <3>1, <3>2, <3>3 DEF HeapInv, HeapSound
  <2> QED BY <2>1, <2>2, <2>3
<1>10. ASSUME NEW c \in InUse', NEW d \in InUse'
       PROVE  /\ HeapStart <= c /\ c + size'[c] <= free_space'
              /\ c # d => Apart(c, size'[c], d, size'[d])
  BY <1>2, <1>3 DEF HeapInv, HeapSound, Within
<1>11. HeapSound'
  BY <1>7, <1>8, <1>9, <1>10 DEF HeapSound, Within, Apart, Bytes
<1> QED BY <1>5, <1>11 DEF HeapInv

\* allocate and release never let two blocks share a byte, in use or free, whatever
\* is asked for and given back and whichever copy of the library it is.
THEOREM BlocksApart == HeapSpec => []HeapSound
<1>1. HeapInit => HeapInv
  BY HeapAssumption DEF HeapInit, HeapInv, HeapTypes, HeapSound, InUse, HeapAssumption
<1>2. HeapInv /\ [HeapNext]_heap => HeapInv'
  <2> SUFFICES ASSUME HeapInv, [HeapNext]_heap PROVE HeapInv'
    OBVIOUS
  <2>1. ASSUME NEW n \in Requests, Allocate(n) PROVE HeapInv'
    BY <2>1, AllocateKeeps, HeapAssumption DEF HeapAssumption
  <2>2. ASSUME NEW b \in InUse, Release(b) PROVE HeapInv'
    BY <2>2, ReleaseKeeps, HeapAssumption
  <2>3. CASE UNCHANGED heap
    BY <2>3 DEF heap, HeapInv, HeapTypes, HeapSound, Within, Apart, Bytes, InUse
  <2> QED BY <2>1, <2>2, <2>3 DEF HeapNext
<1>3. HeapInv => HeapSound
  BY DEF HeapInv
<1> QED BY <1>1, <1>2, <1>3, PTL DEF HeapSpec
===============================================================================
