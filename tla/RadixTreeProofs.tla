---------------------------- MODULE RadixTreeProofs ----------------------------
(***************************************************************************)
(* Proofs about RadixTree, for numbers of any width, any input and any heap: *)
(* the nodes in use are exactly one tree, the program uses the heap as the   *)
(* library wants it used, and it is a sorted bag of numbers.                 *)
(*                                                                          *)
(* No fact about reachability is used.  The invariant says of any two nodes  *)
(* in use, wherever they are, that one is below the other if its bits say so, *)
(* and that the links lead there.                                            *)
(***************************************************************************)
EXTENDS RadixTree, AllocatorProofs, FiniteSetTheorems, SequenceTheorems

-----------------------------------------------------------------------------
(* Least elements: induction without an operator as a parameter.            *)

\* A set of natural numbers that is not empty has a least element.
LEMMA LeastNat ==
    ASSUME NEW T \in SUBSET Nat, T # {}
    PROVE  \E n \in T : \A m \in T : n <= m
<1>1. PICK t \in T : TRUE
  OBVIOUS
<1> DEFINE S == 1..t
           U == {1..m : m \in {n \in T : n <= t}}
<1>2. IsFiniteSet(S)
  BY FS_Interval
<1>3. IsWellFoundedOn(StrictSubsetOrdering(S), FiniteSubsetsOf(S))
  BY <1>2, FS_StrictSubsetOrderingWellFounded
<1>4. U \subseteq FiniteSubsetsOf(S)
  <2> SUFFICES ASSUME NEW m \in T, m <= t PROVE 1..m \in FiniteSubsetsOf(S)
    OBVIOUS
  <2>1. IsFiniteSet(1..m)
    BY FS_Interval
  <2>2. 1..m \subseteq S
    OBVIOUS
  <2> QED BY <2>1, <2>2 DEF FiniteSubsetsOf
<1>5. U # {}
  BY <1>1
<1> HIDE DEF U
<1>6. PICK x \in U : \A y \in U : <<y, x>> \notin StrictSubsetOrdering(S)
  BY <1>3, <1>4, <1>5, WFMin
<1> USE DEF U
<1>7. PICK n \in T : n <= t /\ x = 1..n
  BY <1>6
<1>8. ASSUME NEW m \in T, m < n PROVE FALSE
  <2>1. 1..m \in U
    BY <1>7, <1>8
  <2>2. 1..m \subseteq S /\ 1..n \subseteq S
    BY <1>7, <1>8
  <2>3. n \in 1..n /\ n \notin 1..m
    BY <1>8
  <2>4. 1..m \subseteq 1..n
    BY <1>8
  <2> QED BY <1>6, <1>7, <2>1, <2>2, <2>3, <2>4 DEF StrictSubsetOrdering
<1> QED BY <1>8

\* A bounded set of natural numbers that is not empty has a greatest element.
LEMMA MaxIn ==
    ASSUME NEW S \in SUBSET Nat, NEW k \in Nat, S # {}, \A n \in S : n <= k
    PROVE  Max(S) \in S /\ \A n \in S : n <= Max(S)
<1> DEFINE T == {k - n : n \in S}
<1>1. T \in SUBSET Nat /\ T # {}
  <2>1. \A n \in S : k - n \in Nat
    OBVIOUS
  <2> QED BY <2>1
<1> HIDE DEF T
<1>2. PICK d \in T : \A m \in T : d <= m
  BY <1>1, LeastNat
<1>3. PICK s \in S : d = k - s
  BY DEF T
<1>4. ASSUME NEW n \in S PROVE n <= s
  <2>1. k - n \in T
    BY DEF T
  <2> QED BY <1>2, <1>3, <2>1
<1>5. s \in S /\ \A n \in S : s >= n
  BY <1>4
<1>6. \E x \in S : \A y \in S : x >= y
  BY <1>5
<1>7. Max(S) \in S /\ \A y \in S : Max(S) >= y
  BY <1>6 DEF Max
<1> QED BY <1>7

-----------------------------------------------------------------------------
(* Bits.                                                                   *)

Positions == 0..Top

\* The quotient of half a quotient.
LEMMA HalfQuotient ==
    ASSUME NEW n \in Nat, NEW d \in Nat \ {0}
    PROVE  n \div d \in Nat /\ n \div (2 * d) = (n \div d) \div 2
<1> DEFINE q == n \div d
           r == n % d
           h == q \div 2
           b == q % 2
<1>1. q \in Nat /\ r \in Nat /\ r < d /\ n = d * q + r
  OBVIOUS
<1> HIDE DEF q, r
<1>2. h \in Nat /\ b \in {0, 1} /\ q = 2 * h + b
  BY <1>1
<1> HIDE DEF h, b
<1>3. n = (2 * d) * h + (d * b + r)
  BY <1>1, <1>2
<1>4. d * b + r \in 0..(2 * d - 1)
  BY <1>1, <1>2
<1> QED BY <1>1, <1>2, <1>3, <1>4 DEF q, h

\* The quotients by powers of two, one bit after the other.
LEMMA Quotients ==
    ASSUME NEW n \in Nat, NEW i \in Positions
    PROVE  /\ n \div 2^i \in Nat /\ n \div 2^(i + 1) \in Nat /\ Bit(n, i) \in {0, 1}
           /\ n \div 2^i = 2 * (n \div 2^(i + 1)) + Bit(n, i)
<1> DEFINE d == 2^i
           q == n \div d
<1>1. d \in Nat \ {0} /\ 2^(i + 1) = 2 * d
  BY PowersAssumption DEF Positions
<1>2. q \in Nat /\ n \div 2^(i + 1) = q \div 2 /\ Bit(n, i) = q % 2
  BY <1>1, HalfQuotient DEF Bit
<1>3. n \div 2^i = q
  OBVIOUS
<1> HIDE DEF q, d
<1> QED BY <1>2, <1>3

LEMMA NumberType == Numbers \subseteq Nat
BY DEF Numbers

\* A number has no bits above the highest.
LEMMA NoMoreBits == ASSUME NEW n \in Numbers PROVE n \div 2^(Top + 1) = 0
<1> DEFINE d == 2^(Top + 1)
<1>1. d \in Nat \ {0}
  BY PowersAssumption, TreeAssumption DEF TreeAssumption
<1>2. n \in 0..(d - 1)
  BY DEF Numbers
<1> HIDE DEF d
<1>3. n \div d = 0
  BY <1>1, <1>2
<1> QED BY <1>3 DEF d

\* Numbers that agree from a bit on have the same quotient, and the converse.
LEMMA AgreeQuotient ==
    ASSUME NEW n \in Numbers, NEW m \in Numbers, NEW i \in Positions
    PROVE  Agree(n, m, i) <=> n \div 2^(i + 1) = m \div 2^(i + 1)
<1> USE NumberType, TreeAssumption DEF TreeAssumption
<1> DEFINE Same(j) == n \div 2^j = m \div 2^j
<1>1. ASSUME NEW j \in Positions PROVE Same(j) => Same(j + 1) /\ Bit(n, j) = Bit(m, j)
  <2>1. /\ n \div 2^j = 2 * (n \div 2^(j + 1)) + Bit(n, j)
        /\ n \div 2^(j + 1) \in Nat /\ Bit(n, j) \in {0, 1}
    BY Quotients
  <2>2. /\ m \div 2^j = 2 * (m \div 2^(j + 1)) + Bit(m, j)
        /\ m \div 2^(j + 1) \in Nat /\ Bit(m, j) \in {0, 1}
    BY Quotients
  <2> QED BY <2>1, <2>2
<1>2. ASSUME NEW j \in Positions PROVE Same(j + 1) /\ Bit(n, j) = Bit(m, j) => Same(j)
  BY Quotients
<1>3. Same(Top + 1)
  BY NoMoreBits
<1> HIDE DEF Same
<1>4. ASSUME Agree(n, m, i) PROVE Same(i + 1)
  <2> DEFINE T == {j \in Nat : i < j /\ j <= Top + 1 /\ \A k \in j..(Top + 1) : Same(k)}
  <2>1. T \in SUBSET Nat /\ Top + 1 \in T
    BY <1>3 DEF Positions
  <2> HIDE DEF T
  <2>2. PICK j \in T : \A k \in T : j <= k
    BY <2>1, LeastNat
  <2>3. j \in Nat /\ i < j /\ j <= Top + 1 /\ \A k \in j..(Top + 1) : Same(k)
    BY DEF T
  <2>4. CASE j = i + 1
    BY <2>3, <2>4
  <2>5. CASE j # i + 1
    <3>1. j - 1 \in Positions /\ j - 1 \in (i + 1)..Top
      BY <2>3, <2>5 DEF Positions
    <3>2. Bit(n, j - 1) = Bit(m, j - 1)
      BY <1>4, <3>1 DEF Agree
    <3>3. Same((j - 1) + 1)
      BY <2>3
    <3>4. Same(j - 1)
      BY <1>2, <3>1, <3>2, <3>3
    <3>5. \A k \in (j - 1)..(Top + 1) : k = j - 1 \/ k \in j..(Top + 1)
      BY <2>3
    <3>6. \A k \in (j - 1)..(Top + 1) : Same(k)
      BY <2>3, <3>4, <3>5
    <3>7. j - 1 \in Nat /\ i < j - 1 /\ j - 1 <= Top + 1
      BY <2>3, <2>5 DEF Positions
    <3>8. j - 1 \in T
      BY <3>6, <3>7 DEF T
    <3> QED BY <2>2, <2>3, <3>8
  <2> QED BY <2>4, <2>5
<1>5. ASSUME Same(i + 1) PROVE Agree(n, m, i)
  <2> SUFFICES ASSUME NEW k \in (i + 1)..Top, Bit(n, k) # Bit(m, k) PROVE FALSE
    BY DEF Agree
  <2> DEFINE T == {j \in Nat : i < j /\ j <= Top /\ ~Same(j)}
  <2>1. ~Same(k) /\ k \in Positions
    BY <1>1 DEF Positions
  <2>2. T \in SUBSET Nat /\ k \in T
    BY <2>1 DEF Positions
  <2> HIDE DEF T
  <2>3. PICK j \in T : \A l \in T : j <= l
    BY <2>2, LeastNat
  <2>4. j \in Nat /\ i < j /\ j <= Top /\ ~Same(j)
    BY DEF T
  <2>5. j # i + 1
    BY <1>5, <2>4
  <2>6. j - 1 \in Positions /\ j - 1 \in Nat /\ i < j - 1 /\ j - 1 <= Top
    BY <2>4, <2>5 DEF Positions
  <2>7. Same(j - 1)
    BY <2>3, <2>4, <2>6 DEF T
  <2>8. Same((j - 1) + 1)
    BY <1>1, <2>6, <2>7
  <2> QED BY <2>4, <2>8
<1>6. Same(i + 1) <=> n \div 2^(i + 1) = m \div 2^(i + 1)
  BY DEF Same
<1> QED BY <1>4, <1>5, <1>6

\* Numbers that differ first at a bit are in the order of that bit.
LEMMA FirstDifference ==
    ASSUME NEW n \in Numbers, NEW m \in Numbers, NEW i \in Positions,
           Agree(n, m, i), Bit(n, i) = 0, Bit(m, i) = 1
    PROVE  n < m
<1> USE NumberType
<1> DEFINE d == 2^i
<1>1. d \in Nat \ {0}
  BY PowersAssumption DEF Positions
<1>2. n \div 2^(i + 1) = m \div 2^(i + 1)
  BY AgreeQuotient
<1>3. n \div d < m \div d
  BY <1>2, Quotients
<1> HIDE DEF d
<1>4. SUFFICES ASSUME m <= n PROVE FALSE
  OBVIOUS
<1> DEFINE q == m \div d
           p == n \div d
<1>5. q \in Nat /\ p \in Nat /\ d * q <= m /\ n < d * p + d /\ p + 1 <= q
  BY <1>1, <1>3
<1> HIDE DEF p, q
<1>6. d * p + d <= d * q
  <2>1. d * (p + 1) <= d * q
    <3> DEFINE e == q - (p + 1)
    <3>1. e \in Nat /\ q = (p + 1) + e
      BY <1>5
    <3> HIDE DEF e
    <3>2. d * q = d * (p + 1) + d * e /\ d * e >= 0
      BY <1>1, <1>5, <3>1
    <3> QED BY <1>1, <1>5, <3>2
  <2> QED BY <1>1, <1>5, <2>1
<1> QED BY <1>1, <1>4, <1>5, <1>6

\* What the rest of the proof needs to know of bits.
LEMMA Agreement ==
    /\ \A n, i : Agree(n, n, i)
    /\ \A n, m, i : Agree(n, m, i) => Agree(m, n, i)
    /\ \A n, m, k, i : Agree(n, m, i) /\ Agree(m, k, i) => Agree(n, k, i)
    /\ \A n, m : \A i, j \in Positions : Agree(n, m, i) /\ i <= j => Agree(n, m, j)
    /\ \A n, m : \A i, j \in Positions : Agree(n, m, i) /\ i < j => Side(n, j) = Side(m, j)
<1>1. \A n, m : \A i, j \in Positions : Agree(n, m, i) /\ i <= j => Agree(n, m, j)
  BY DEF Agree, Positions
<1>2. \A n, m : \A i, j \in Positions : Agree(n, m, i) /\ i < j => Side(n, j) = Side(m, j)
  BY TreeAssumption DEF Agree, Positions, Side, TreeAssumption
<1>3. \A n, m, k, i : Agree(n, m, i) /\ Agree(m, k, i) => Agree(n, k, i)
  BY DEF Agree
<1> QED BY <1>1, <1>2, <1>3 DEF Agree

-----------------------------------------------------------------------------
(* Trees.  m is the memory of the nodes, a function from the blocks in use. *)

Sides == {"zero", "one"}

\* The interior nodes.
Inner(m) == {b \in DOMAIN m : m[b].bit_pos > 0}

\* The numbers of u are among those that v is for.
Below(m, u, v) ==
    /\ m[u].bit_pos <= m[v].bit_pos
    /\ Agree(m[u].number, m[v].number, m[v].bit_pos)

\* On which side of a the number of w is.
SideOf(m, w, a) == Side(m[w].number, m[a].bit_pos)

\* c may be linked to side s of a.
Hangs(m, c, a, s) ==
    /\ c \in DOMAIN m /\ m[c].bit_pos < m[a].bit_pos
    /\ Below(m, c, a) /\ SideOf(m, c, a) = s

Memory(m) == DOMAIN m \subseteq Nat \ {NULL} /\ m \in [DOMAIN m -> Node]

\* Every link, except those in G, leads to a node that belongs there.
Linked(m, G) == \A a \in Inner(m), s \in Sides :
    <<a, s>> \notin G => m[a][s] = NULL \/ Hangs(m, m[a][s], a, s)

\* Whoever belongs below a is found on its side of a.
Complete(m) == \A a \in Inner(m), w \in DOMAIN m :
    w # a /\ Below(m, w, a) =>
       LET c == m[a][SideOf(m, w, a)] IN c \in DOMAIN m /\ Below(m, w, c)

\* No two nodes are for the same numbers.
Distinct(m) == \A u, w \in DOMAIN m : Below(m, u, w) /\ Below(m, w, u) => u = w

\* All nodes are below the root r.
Rooted(m, r) == /\ r \in DOMAIN m \cup {NULL}
                /\ \A w \in DOMAIN m : r \in DOMAIN m /\ Below(m, w, r)

Tree(m, r, G) == Memory(m) /\ Linked(m, G) /\ Complete(m) /\ Distinct(m) /\ Rooted(m, r)

LEMMA MemoryType ==
    ASSUME NEW m, Memory(m)
    PROVE  /\ NULL \notin DOMAIN m
           /\ \A b \in DOMAIN m :
                /\ b \in Nat /\ m[b] \in Node
                /\ m[b].bit_pos \in Positions /\ m[b].bit_pos \in Nat
                /\ m[b].number \in Numbers
                /\ \A s \in Sides : m[b][s] \in Nat
BY DEF Memory, Node, Positions, Sides

LEMMA SideType == \A n, i : Side(n, i) \in Sides
BY DEF Side, Sides

\* Being below is transitive, and one of two nodes is strictly below the other.
LEMMA BelowOrder ==
    ASSUME NEW m, Memory(m)
    PROVE  /\ \A u \in DOMAIN m : Below(m, u, u)
           /\ \A u, v, w \in DOMAIN m : Below(m, u, v) /\ Below(m, v, w) => Below(m, u, w)
           /\ \A u, v, w \in DOMAIN m :
                 Below(m, u, v) /\ m[v].bit_pos < m[w].bit_pos
                   => SideOf(m, u, w) = SideOf(m, v, w)
           /\ \A u, v, w \in DOMAIN m :
                 Below(m, u, v) /\ Below(m, u, w) /\ m[v].bit_pos <= m[w].bit_pos
                   => Below(m, v, w)
<1> USE MemoryType
<1>1. \A u, v, w \in DOMAIN m : Below(m, u, v) /\ Below(m, v, w) => Below(m, u, w)
  <2> SUFFICES ASSUME NEW u \in DOMAIN m, NEW v \in DOMAIN m, NEW w \in DOMAIN m,
                      Below(m, u, v), Below(m, v, w)
               PROVE  Below(m, u, w)
    OBVIOUS
  <2>1. Agree(m[u].number, m[v].number, m[w].bit_pos)
    BY Agreement DEF Below
  <2> QED BY <2>1, Agreement DEF Below
<1>2. \A u, v, w \in DOMAIN m : Below(m, u, v) /\ m[v].bit_pos < m[w].bit_pos
                                  => SideOf(m, u, w) = SideOf(m, v, w)
  BY Agreement DEF Below, SideOf
<1>3. \A u, v, w \in DOMAIN m :
         Below(m, u, v) /\ Below(m, u, w) /\ m[v].bit_pos <= m[w].bit_pos => Below(m, v, w)
  <2> SUFFICES ASSUME NEW u \in DOMAIN m, NEW v \in DOMAIN m, NEW w \in DOMAIN m,
                      Below(m, u, v), Below(m, u, w), m[v].bit_pos <= m[w].bit_pos
               PROVE  Below(m, v, w)
    OBVIOUS
  <2>1. Agree(m[u].number, m[v].number, m[w].bit_pos)
    BY Agreement DEF Below
  <2> QED BY <2>1, Agreement DEF Below
<1>4. \A u \in DOMAIN m : Below(m, u, u)
  BY Agreement DEF Below
<1> QED BY <1>1, <1>2, <1>3, <1>4

\* Where nodes are distinct, a node below another one has a lower bit.
LEMMA StrictlyBelow ==
    ASSUME NEW m, Memory(m), Distinct(m)
    PROVE  \A u, v \in DOMAIN m : Below(m, u, v) /\ u # v => m[u].bit_pos < m[v].bit_pos
<1> SUFFICES ASSUME NEW u \in DOMAIN m, NEW v \in DOMAIN m, Below(m, u, v), u # v,
                    m[u].bit_pos = m[v].bit_pos
             PROVE  FALSE
  BY MemoryType DEF Below
<1>1. Below(m, v, u)
  BY Agreement, MemoryType DEF Below
<1> QED BY <1>1 DEF Distinct

\* A node has at most one link, and the root has none.
LEMMA OneParent ==
    ASSUME NEW m, NEW r, NEW G, Tree(m, r, G), NEW v \in DOMAIN m
    PROVE  /\ \A a, b \in Inner(m), s, t \in Sides :
                 Hangs(m, v, a, s) /\ Hangs(m, v, b, t)
                 /\ m[a][s] = v /\ m[b][t] = v => a = b /\ s = t
           /\ \A a \in Inner(m), s \in Sides : Hangs(m, v, a, s) => v # r
<1> USE DEF Tree
<1>1. ASSUME NEW a \in Inner(m), NEW b \in Inner(m), NEW s \in Sides, NEW t \in Sides,
             Hangs(m, v, a, s), Hangs(m, v, b, t), m[b][t] = v,
             m[a].bit_pos <= m[b].bit_pos
      PROVE  a = b /\ s = t
  <2>1. a \in DOMAIN m /\ b \in DOMAIN m
    BY DEF Inner
  <2>2. Below(m, a, b)
    BY <1>1, <2>1, BelowOrder DEF Hangs
  <2>3. ASSUME a # b PROVE FALSE
    <3>1. m[a].bit_pos < m[b].bit_pos
      BY <2>1, <2>2, <2>3, StrictlyBelow
    <3>2. SideOf(m, a, b) = t
      BY <1>1, <2>1, <3>1, BelowOrder DEF Hangs
    <3>3. Below(m, a, v)
      BY <1>1, <2>1, <2>2, <2>3, <3>2 DEF Complete
    <3> QED BY <1>1, <2>1, <3>3, MemoryType DEF Hangs, Below
  <2> QED BY <1>1, <2>3 DEF Hangs
<1>2. ASSUME NEW a \in Inner(m), NEW s \in Sides, Hangs(m, v, a, s), v = r
      PROVE  FALSE
  <2>1. a \in DOMAIN m /\ Below(m, a, v)
    BY <1>2 DEF Inner, Rooted
  <2> QED BY <1>2, <2>1, MemoryType DEF Hangs, Below
<1>3. \A a, b \in Inner(m) : m[a].bit_pos <= m[b].bit_pos \/ m[b].bit_pos <= m[a].bit_pos
  BY MemoryType DEF Inner
<1>4. \A a, b \in Inner(m), s, t \in Sides :
         Hangs(m, v, a, s) /\ Hangs(m, v, b, t) /\ m[a][s] = v /\ m[b][t] = v
            => a = b /\ s = t
  BY <1>1, <1>3
<1> QED BY <1>2, <1>4

\* Every node but the root has a link.
LEMMA SomeParent ==
    ASSUME NEW m, NEW r, Tree(m, r, {}), NEW v \in DOMAIN m, v # r
    PROVE  \E a \in Inner(m), s \in Sides : m[a][s] = v
<1> USE DEF Tree
<1> DEFINE A == {a \in Inner(m) : a # v /\ Below(m, v, a)}
           T == {m[a].bit_pos : a \in A}
<1>1. r \in A
  <2>1. r \in DOMAIN m /\ Below(m, v, r)
    BY DEF Rooted
  <2>2. m[v].bit_pos < m[r].bit_pos
    BY <2>1, StrictlyBelow
  <2> QED BY <2>1, <2>2, MemoryType DEF Inner
<1>2. T \in SUBSET Nat /\ T # {}
  BY <1>1, MemoryType DEF Inner
<1> HIDE DEF T
<1>3. PICK k \in T : \A l \in T : k <= l
  BY <1>2, LeastNat
<1>4. PICK a \in A : k = m[a].bit_pos
  BY DEF T
<1> DEFINE s == SideOf(m, v, a)
           c == m[a][s]
<1>5. c \in DOMAIN m /\ Below(m, v, c) /\ a \in DOMAIN m /\ s \in Sides
  BY <1>4, SideType DEF Complete, Inner, SideOf
<1>6. ASSUME c # v PROVE FALSE
  <2>1. c # NULL
    BY <1>5, MemoryType
  <2>2. m[v].bit_pos < m[c].bit_pos
    BY <1>5, <1>6, StrictlyBelow
  <2>3. c \in A
    BY <1>5, <1>6, <2>2, MemoryType DEF Inner
  <2>4. k <= m[c].bit_pos
    BY <1>3, <2>3 DEF T
  <2>5. m[c].bit_pos < k
    BY <1>4, <2>1, SideType DEF Linked, Hangs, SideOf
  <2> QED BY <1>4, <1>5, <2>4, <2>5, MemoryType
<1> QED BY <1>5, <1>6

-----------------------------------------------------------------------------
(* What the steps do to the tree.                                          *)

\* The locations of links, and the link at one of them.
Place(m, at) == at = Root \/ \E p \in Inner(m), s \in Sides : at = <<p, s>>
Target(m, r, at) == IF at = Root THEN r ELSE m[at[1]][at[2]]

LEMMA PlaceType ==
    ASSUME NEW m, Memory(m), NEW at, Place(m, at)
    PROVE  at # Root => at[1] \in Inner(m) /\ at[2] \in Sides /\ at = <<at[1], at[2]>>
BY MemoryType DEF Place, Inner, Root

\* A number n belongs to the place at, and x is a node for it, of bit k.
Fits(m, at, n, k) ==
    at # Root => LET p == at[1] IN
        /\ k < m[p].bit_pos /\ Agree(n, m[p].number, m[p].bit_pos)
        /\ Side(n, m[p].bit_pos) = at[2]

\* x is a leaf where there was nothing, or a branch above what was there.
Covers(m, h, x) ==
    \/ h = NULL /\ x.bit_pos = 0
    \/ /\ h # NULL /\ m[h].bit_pos < x.bit_pos
       /\ Agree(m[h].number, x.number, x.bit_pos)
       /\ Side(m[h].number, x.bit_pos) # Side(x.number, x.bit_pos)
       /\ x[Side(m[h].number, x.bit_pos)] = h
       /\ x[Side(x.number, x.bit_pos)] = NULL

Inserted(m, at, b, x) ==
    [c \in DOMAIN m \cup {b} |->
        IF c = b THEN x
        ELSE IF at # Root /\ c = at[1] THEN [m[c] EXCEPT ![at[2]] = b] ELSE m[c]]

\* A new node at a place where it fits, above what was there.
LEMMA InsertTree ==
    ASSUME NEW m, NEW r, Tree(m, r, {}), NEW at, Place(m, at),
           NEW b \in Nat \ {NULL}, b \notin DOMAIN m, NEW x \in Node,
           Fits(m, at, x.number, x.bit_pos), Covers(m, Target(m, r, at), x)
    PROVE  Tree(Inserted(m, at, b, x), IF at = Root THEN b ELSE r, {})
<1> DEFINE h == Target(m, r, at)
           n == x.number
           k == x.bit_pos
           p == at[1]
           m2 == Inserted(m, at, b, x)
           r2 == IF at = Root THEN b ELSE r
<1>1. /\ Memory(m) /\ Linked(m, {}) /\ Complete(m) /\ Distinct(m) /\ Rooted(m, r)
      /\ NULL \notin DOMAIN m
  BY MemoryType DEF Tree
<1>2. /\ at # Root => p \in Inner(m) /\ p \in DOMAIN m /\ at[2] \in Sides
      /\ at # Root => k < m[p].bit_pos /\ Agree(n, m[p].number, m[p].bit_pos)
                      /\ Side(n, m[p].bit_pos) = at[2]
      /\ k \in Positions /\ k \in Nat /\ n \in Numbers
      /\ \A s \in Sides : x[s] \in Nat
  BY <1>1, PlaceType DEF Fits, Inner, Node, Positions, Sides
<1>3. /\ DOMAIN m2 = DOMAIN m \cup {b} /\ m2[b] = x
      /\ \A c \in DOMAIN m : m2[c] = IF at # Root /\ c = p THEN [m[c] EXCEPT ![at[2]] = b]
                                     ELSE m[c]
  BY DEF Inserted
<1> HIDE DEF m2
<1>4. \A c \in DOMAIN m :
         /\ m2[c] \in Node /\ m2[c].bit_pos = m[c].bit_pos /\ m2[c].number = m[c].number
         /\ \A s \in Sides : m2[c][s] = IF at = <<c, s>> THEN b ELSE m[c][s]
  <2> SUFFICES ASSUME NEW c \in DOMAIN m
               PROVE  /\ m2[c] \in Node /\ m2[c].bit_pos = m[c].bit_pos
                      /\ m2[c].number = m[c].number
                      /\ \A s \in Sides : m2[c][s] = IF at = <<c, s>> THEN b ELSE m[c][s]
    OBVIOUS
  <2>1. m[c] \in Node
    BY <1>1, MemoryType
  <2>2. CASE at # Root /\ c = p
    <3>1. m2[c] = [m[c] EXCEPT ![at[2]] = b] /\ at[2] \in {"zero", "one"}
      BY <1>2, <1>3, <2>2 DEF Sides
    <3>2. at = <<c, at[2]>>
      BY <1>1, <2>2, PlaceType
    <3>3. \A s \in Sides : at = <<c, s>> <=> s = at[2]
      BY <3>2
    <3> QED BY <2>1, <3>1, <3>3 DEF Node, Sides
  <2>3. CASE ~(at # Root /\ c = p)
    <3>1. m2[c] = m[c]
      BY <1>3, <2>3
    <3>2. \A s \in Sides : at # <<c, s>>
      BY <1>1, <2>3, MemoryType DEF Root
    <3> QED BY <2>1, <3>1, <3>2
  <2> QED BY <2>2, <2>3
<1>5. Memory(m2)
  <2>1. m2 = [c \in DOMAIN m2 |-> m2[c]]
    BY DEF m2, Inserted
  <2>2. \A c \in DOMAIN m2 : m2[c] \in Node
    BY <1>3, <1>4
  <2>3. DOMAIN m2 \subseteq Nat \ {NULL}
    BY <1>1, <1>3 DEF Memory
  <2> QED BY <2>1, <2>2, <2>3 DEF Memory
<1>6. /\ \A u, v \in DOMAIN m : /\ Below(m2, u, v) <=> Below(m, u, v)
                                /\ SideOf(m2, u, v) = SideOf(m, u, v)
      /\ \A a \in DOMAIN m : a \in Inner(m2) <=> a \in Inner(m)
      /\ b \in Inner(m2) <=> k > 0
  BY <1>3, <1>4 DEF Below, SideOf, Inner
<1>7. ASSUME NEW a \in DOMAIN m, Below(m2, a, b)
      PROVE  h \in DOMAIN m /\ Below(m, a, h)
  <2>1. m[a].bit_pos <= k /\ Agree(m[a].number, n, k)
    BY <1>3, <1>4, <1>7 DEF Below
  <2>2. CASE at = Root
    BY <1>1, <2>2 DEF Rooted, Target
  <2>3. CASE at # Root
    <3>1. /\ m[a].bit_pos < m[p].bit_pos /\ Agree(m[a].number, n, m[p].bit_pos)
          /\ Side(m[a].number, m[p].bit_pos) = Side(n, m[p].bit_pos)
      BY <1>1, <1>2, <2>1, <2>3, Agreement, MemoryType
    <3>2. Below(m, a, p) /\ a # p /\ SideOf(m, a, p) = at[2]
      BY <1>1, <1>2, <2>3, <3>1, Agreement, MemoryType DEF Below, SideOf
    <3> QED BY <1>1, <1>2, <2>3, <3>2 DEF Complete, Target
  <2> QED BY <2>2, <2>3
<1>8. h \in DOMAIN m => m[h].bit_pos < k
  BY <1>1 DEF Covers
<1>9. ASSUME NEW a \in DOMAIN m, Below(m2, b, a)
      PROVE  at # Root /\ Below(m, p, a)
  <2>1. k <= m[a].bit_pos /\ Agree(n, m[a].number, m[a].bit_pos)
    BY <1>3, <1>4, <1>9 DEF Below
  <2>2. CASE at = Root
    <3>1. h \in DOMAIN m /\ Below(m, a, h)
      BY <1>1, <2>2 DEF Rooted, Target
    <3> QED BY <1>1, <1>2, <1>8, <2>1, <3>1, MemoryType DEF Below
  <2>3. CASE at # Root /\ m[a].bit_pos < m[p].bit_pos
    <3>1. /\ Agree(n, m[a].number, m[p].bit_pos)
          /\ Side(m[a].number, m[p].bit_pos) = Side(n, m[p].bit_pos)
      BY <1>1, <1>2, <2>1, <2>3, Agreement, MemoryType
    <3>2. Below(m, a, p) /\ a # p /\ SideOf(m, a, p) = at[2]
      BY <1>1, <1>2, <2>3, <3>1, Agreement, MemoryType DEF Below, SideOf
    <3>3. h \in DOMAIN m /\ Below(m, a, h)
      BY <1>1, <1>2, <2>3, <3>2 DEF Complete, Target
    <3> QED BY <1>1, <1>2, <1>8, <2>1, <3>3, MemoryType DEF Below
  <2>4. CASE at # Root /\ ~(m[a].bit_pos < m[p].bit_pos)
    <3>1. m[p].bit_pos <= m[a].bit_pos
      BY <1>1, <1>2, <2>4, MemoryType
    <3>2. Agree(n, m[p].number, m[a].bit_pos)
      BY <1>1, <1>2, <2>4, <3>1, Agreement, MemoryType
    <3> QED BY <2>1, <2>4, <3>1, <3>2, Agreement DEF Below
  <2> QED BY <2>2, <2>3, <2>4
<1>10. ASSUME NEW w \in DOMAIN m, h \in DOMAIN m, Below(m, w, h)
       PROVE  Below(m2, w, b) /\ Side(m[w].number, k) = Side(m[h].number, k)
  <2>1. /\ m[h].bit_pos < k /\ Agree(m[h].number, n, k)
        /\ m[w].bit_pos <= m[h].bit_pos /\ Agree(m[w].number, m[h].number, m[h].bit_pos)
    BY <1>1, <1>10 DEF Covers, Below
  <2>2. Agree(m[w].number, m[h].number, k) /\ m[w].bit_pos <= k
    BY <1>1, <1>2, <1>10, <2>1, Agreement, MemoryType
  <2>3. Side(m[w].number, k) = Side(m[h].number, k)
    BY <1>1, <1>2, <1>10, <2>1, Agreement, MemoryType
  <2> QED BY <1>3, <1>4, <2>1, <2>2, <2>3, Agreement DEF Below
<1>11. Linked(m2, {})
  <2> SUFFICES ASSUME NEW a \in Inner(m2), NEW s \in Sides, m2[a][s] # NULL
               PROVE  Hangs(m2, m2[a][s], a, s)
    BY DEF Linked
  <2>1. CASE a = b
    <3>1. k > 0 /\ h # NULL
      BY <1>6, <2>1 DEF Covers
    <3>2. h \in DOMAIN m
      BY <1>1, <1>2, <3>1, MemoryType DEF Target, Rooted, Linked, Hangs
    <3>3. x[s] = h /\ s = Side(m[h].number, k)
      <4>1. x[Side(m[h].number, k)] = h /\ x[Side(n, k)] = NULL
        BY <3>1 DEF Covers
      <4>2. Side(m[h].number, k) # Side(n, k) /\ Side(m[h].number, k) \in Sides
            /\ Side(n, k) \in Sides
        BY <3>1, SideType DEF Covers
      <4>3. s # Side(n, k)
        BY <1>3, <2>1, <4>1
      <4> QED BY <4>1, <4>2, <4>3 DEF Sides
    <3>4. Below(m2, h, b)
      BY <1>1, <1>10, <3>2, BelowOrder
    <3> QED BY <1>3, <1>4, <1>8, <2>1, <3>2, <3>3, <3>4 DEF Hangs, SideOf
  <2>2. CASE a # b /\ at = <<a, s>>
    <3>1. a \in DOMAIN m /\ a = p /\ s = at[2] /\ at # Root /\ m2[a][s] = b
      BY <1>1, <1>3, <1>4, <2>2 DEF Inner, Root
    <3>2. k < m2[a].bit_pos /\ Agree(n, m2[a].number, m2[a].bit_pos)
          /\ Side(n, m2[a].bit_pos) = s /\ m2[a].bit_pos \in Nat
      BY <1>1, <1>2, <1>4, <3>1, MemoryType
    <3>3. Below(m2, b, a) /\ SideOf(m2, b, a) = s
      BY <1>2, <1>3, <3>2 DEF Below, SideOf
    <3> QED BY <1>3, <3>1, <3>2, <3>3 DEF Hangs
  <2>3. CASE a # b /\ at # <<a, s>>
    <3>1. a \in DOMAIN m /\ a \in Inner(m) /\ m2[a][s] = m[a][s]
      BY <1>3, <1>4, <1>6, <2>3 DEF Inner
    <3>2. Hangs(m, m[a][s], a, s)
      BY <1>1, <3>1 DEF Linked
    <3> QED BY <1>3, <1>4, <1>6, <3>1, <3>2 DEF Hangs
  <2> QED BY <2>1, <2>2, <2>3
<1>12. Complete(m2)
  <2> SUFFICES ASSUME NEW a \in Inner(m2), NEW w \in DOMAIN m2, w # a, Below(m2, w, a)
               PROVE  LET c == m2[a][SideOf(m2, w, a)]
                      IN c \in DOMAIN m2 /\ Below(m2, w, c)
    BY DEF Complete
  <2>0. a \in DOMAIN m2
    BY DEF Inner
  <2>1. CASE a = b
    <3>1. w \in DOMAIN m /\ h \in DOMAIN m /\ Below(m, w, h)
      BY <1>3, <1>7, <2>1
    <3>2. SideOf(m2, w, a) = Side(m[h].number, k)
      BY <1>3, <1>4, <1>10, <2>1, <3>1 DEF SideOf
    <3>3. x[Side(m[h].number, k)] = h
      BY <1>1, <3>1 DEF Covers
    <3> QED BY <1>3, <1>6, <2>1, <3>1, <3>2, <3>3
  <2>2. CASE a # b /\ w = b
    <3>1. a \in DOMAIN m /\ a \in Inner(m) /\ at # Root /\ Below(m, p, a)
      BY <1>3, <1>6, <1>9, <2>0, <2>2
    <3>2. CASE a = p
      <4>1. SideOf(m2, w, a) = at[2] /\ at = <<a, at[2]>>
        BY <1>1, <1>2, <1>3, <1>4, <2>2, <3>1, <3>2, PlaceType DEF SideOf
      <4>2. m2[a][at[2]] = b
        BY <1>2, <1>4, <3>1, <4>1
      <4>3. Below(m2, b, b)
        BY <1>3, <1>5, BelowOrder
      <4> QED BY <1>3, <2>2, <4>1, <4>2, <4>3
    <3>3. CASE a # p
      <4> DEFINE c == m[a][SideOf(m, p, a)]
      <4>1. m[p].bit_pos < m[a].bit_pos
        BY <1>1, <1>2, <3>1, <3>3, StrictlyBelow
      <4>2. c \in DOMAIN m /\ Below(m, p, c)
        BY <1>1, <1>2, <3>1, <3>3 DEF Complete
      <4>3. SideOf(m2, w, a) = SideOf(m, p, a)
        BY <1>1, <1>2, <1>3, <1>4, <2>2, <3>1, <4>1, Agreement, MemoryType DEF SideOf
      <4>4. at # <<a, SideOf(m, p, a)>>
        BY <3>3
      <4>5. m2[a][SideOf(m2, w, a)] = c
        BY <1>4, <3>1, <4>3, <4>4, SideType DEF SideOf
      <4>6. k <= m[c].bit_pos /\ Agree(n, m[p].number, m[c].bit_pos)
        BY <1>1, <1>2, <3>1, <4>2, Agreement, MemoryType DEF Below
      <4>7. Below(m2, b, c)
        BY <1>3, <1>4, <4>2, <4>6, Agreement DEF Below
      <4> QED BY <1>3, <2>2, <4>2, <4>5, <4>7
    <3> QED BY <3>2, <3>3
  <2>3. CASE a # b /\ w # b
    <3> DEFINE s == SideOf(m, w, a)
               c == m[a][s]
    <3>1. /\ a \in DOMAIN m /\ a \in Inner(m) /\ w \in DOMAIN m /\ Below(m, w, a)
          /\ SideOf(m2, w, a) = s /\ s \in Sides
      BY <1>3, <1>6, <2>0, <2>3, SideType DEF SideOf
    <3>2. c \in DOMAIN m /\ Below(m, w, c)
      BY <1>1, <3>1 DEF Complete
    <3>3. CASE at = <<a, s>>
      <4>1. h = c /\ m2[a][s] = b
        BY <1>1, <1>4, <3>1, <3>3, MemoryType DEF Target, Root
      <4>2. Below(m2, w, b)
        BY <1>10, <3>1, <3>2, <4>1
      <4> QED BY <1>3, <3>1, <4>1, <4>2
    <3>4. CASE at # <<a, s>>
      <4>1. m2[a][s] = c
        BY <1>4, <3>1, <3>4
      <4> QED BY <1>3, <1>6, <3>1, <3>2, <4>1
    <3> QED BY <3>3, <3>4
  <2> QED BY <2>1, <2>2, <2>3
<1>13. Distinct(m2)
  <2> SUFFICES ASSUME NEW u \in DOMAIN m, Below(m2, u, b), Below(m2, b, u) PROVE FALSE
    BY <1>1, <1>3, <1>6 DEF Distinct
  <2>1. h \in DOMAIN m /\ Below(m, u, h)
    BY <1>7
  <2>2. k <= m[u].bit_pos
    BY <1>3, <1>4 DEF Below
  <2> QED BY <1>1, <1>2, <1>8, <2>1, <2>2, MemoryType DEF Below
<1>14. Rooted(m2, r2)
  <2>1. CASE at = Root
    <3>1. r2 = b /\ h = r
      BY <2>1 DEF Target
    <3>2. ASSUME NEW w \in DOMAIN m2 PROVE Below(m2, w, b)
      <4>1. CASE w = b
        BY <1>3, <1>5, <4>1, BelowOrder
      <4>2. CASE w # b
        BY <1>1, <1>3, <1>10, <3>1, <4>2 DEF Rooted
      <4> QED BY <4>1, <4>2
    <3> QED BY <1>3, <3>1, <3>2 DEF Rooted
  <2>2. CASE at # Root
    <3>1. r2 = r /\ r \in DOMAIN m /\ \A w \in DOMAIN m : Below(m, w, r)
      BY <1>1, <1>2, <2>2 DEF Rooted
    <3>2. Below(m2, b, p)
      BY <1>1, <1>2, <1>3, <1>4, <2>2, MemoryType DEF Below
    <3>3. Below(m2, p, r) /\ p \in DOMAIN m2 /\ b \in DOMAIN m2 /\ r \in DOMAIN m2
      BY <1>2, <1>3, <1>6, <2>2, <3>1
    <3>4. Below(m2, b, r)
      BY <1>5, <3>2, <3>3, BelowOrder
    <3> QED BY <1>3, <1>6, <3>1, <3>4 DEF Rooted
  <2> QED BY <2>1, <2>2
<1> QED BY <1>5, <1>11, <1>12, <1>13, <1>14 DEF Tree, m2

\* m2 has nodes of m, for the same numbers.
Keeps(m, m2) ==
    /\ Memory(m2) /\ DOMAIN m2 \subseteq DOMAIN m
    /\ \A c \in DOMAIN m2 : m2[c].bit_pos = m[c].bit_pos /\ m2[c].number = m[c].number

LEMMA KeepsOrder ==
    ASSUME NEW m, NEW m2, Keeps(m, m2)
    PROVE  /\ \A u, v \in DOMAIN m2 : /\ Below(m2, u, v) <=> Below(m, u, v)
                                      /\ SideOf(m2, u, v) = SideOf(m, u, v)
           /\ \A a \in DOMAIN m2 : a \in Inner(m2) <=> a \in Inner(m)
           /\ Distinct(m) => Distinct(m2)
BY DEF Keeps, Below, SideOf, Inner, Distinct

\* No other node is below v.
Alone(m, v) == \A w \in DOMAIN m : Below(m, w, v) => w = v

Pruned(m, at, v) ==
    [c \in DOMAIN m \ {v} |->
        IF at # Root /\ c = at[1] THEN [m[c] EXCEPT ![at[2]] = NULL] ELSE m[c]]

LEMMA PrunedType ==
    ASSUME NEW m, Memory(m), NEW at, Place(m, at), NEW v \in DOMAIN m
    PROVE  /\ Keeps(m, Pruned(m, at, v)) /\ DOMAIN Pruned(m, at, v) = DOMAIN m \ {v}
           /\ \A c \in DOMAIN m \ {v}, s \in Sides :
                 Pruned(m, at, v)[c][s] = IF at = <<c, s>> THEN NULL ELSE m[c][s]
           /\ \A c \in DOMAIN m \ {v} : at = Root \/ c # at[1] => Pruned(m, at, v)[c] = m[c]
<1> DEFINE m2 == Pruned(m, at, v)
<1>1. /\ DOMAIN m2 = DOMAIN m \ {v} /\ m2 = [c \in DOMAIN m2 |-> m2[c]]
      /\ \A c \in DOMAIN m2 : m2[c] = IF at # Root /\ c = at[1]
                                      THEN [m[c] EXCEPT ![at[2]] = NULL] ELSE m[c]
  BY DEF Pruned
<1> HIDE DEF m2
<1>2. ASSUME NEW c \in DOMAIN m2
      PROVE  /\ m2[c] \in Node /\ m2[c].bit_pos = m[c].bit_pos /\ m2[c].number = m[c].number
             /\ \A s \in Sides : m2[c][s] = IF at = <<c, s>> THEN NULL ELSE m[c][s]
  <2>1. m[c] \in Node /\ c \in DOMAIN m /\ NULL \in Nat
    BY <1>1, MemoryType DEF NULL
  <2>2. CASE at # Root /\ c = at[1]
    <3>1. m2[c] = [m[c] EXCEPT ![at[2]] = NULL] /\ at[2] \in {"zero", "one"}
      BY <1>1, <2>2, PlaceType DEF Sides
    <3>2. at = <<c, at[2]>>
      BY <2>2, PlaceType
    <3>3. \A s \in Sides : at = <<c, s>> <=> s = at[2]
      BY <3>2
    <3> QED BY <2>1, <3>1, <3>3 DEF Node, Sides
  <2>3. CASE ~(at # Root /\ c = at[1])
    <3>1. m2[c] = m[c]
      BY <1>1, <2>3
    <3>2. \A s \in Sides : at # <<c, s>>
      BY <2>1, <2>3, MemoryType DEF Root
    <3> QED BY <2>1, <3>1, <3>2
  <2> QED BY <2>2, <2>3
<1>3. Memory(m2)
  BY <1>1, <1>2 DEF Memory
<1>4. \A c \in DOMAIN m2 : at = Root \/ c # at[1] => m2[c] = m[c]
  BY <1>1
<1> QED BY <1>1, <1>2, <1>3, <1>4 DEF Keeps, m2

\* A node nobody is below is removed with its link.
LEMMA PruneTree ==
    ASSUME NEW m, NEW r, Tree(m, r, {}), NEW at, Place(m, at), NEW v \in DOMAIN m,
           Target(m, r, at) = v, Alone(m, v)
    PROVE  Tree(Pruned(m, at, v), IF at = Root THEN NULL ELSE r, {})
<1> DEFINE m2 == Pruned(m, at, v)
           r2 == IF at = Root THEN NULL ELSE r
<1>1. /\ Memory(m) /\ Linked(m, {}) /\ Complete(m) /\ Distinct(m) /\ Rooted(m, r)
      /\ NULL \notin DOMAIN m
  BY MemoryType DEF Tree
<1>2. /\ Keeps(m, m2) /\ DOMAIN m2 = DOMAIN m \ {v}
      /\ \A c \in DOMAIN m2, s \in Sides :
            m2[c][s] = IF at = <<c, s>> THEN NULL ELSE m[c][s]
  BY <1>1, PrunedType
<1> HIDE DEF m2
<1>3. /\ \A u, w \in DOMAIN m2 : /\ Below(m2, u, w) <=> Below(m, u, w)
                                 /\ SideOf(m2, u, w) = SideOf(m, u, w)
      /\ \A a \in DOMAIN m2 : a \in Inner(m2) <=> a \in Inner(m)
      /\ Distinct(m2) /\ Memory(m2)
  BY <1>1, <1>2, KeepsOrder DEF Keeps
<1>4. Linked(m2, {})
  <2> SUFFICES ASSUME NEW a \in Inner(m2), NEW s \in Sides, m2[a][s] # NULL
               PROVE  Hangs(m2, m2[a][s], a, s)
    BY DEF Linked
  <2>1. a \in DOMAIN m2 /\ a \in Inner(m) /\ at # <<a, s>> /\ m2[a][s] = m[a][s]
    BY <1>2, <1>3 DEF Inner
  <2>2. Hangs(m, m[a][s], a, s)
    BY <1>1, <2>1 DEF Linked
  <2>3. m[a][s] # v
    <3>1. SUFFICES ASSUME m[a][s] = v PROVE FALSE
      OBVIOUS
    <3>2. CASE at = Root
      BY <2>1, <2>2, <3>1, <3>2, OneParent DEF Target
    <3>3. CASE at # Root
      <4>1. at[1] \in Inner(m) /\ at[2] \in Sides /\ at = <<at[1], at[2]>>
        BY <1>1, <3>3, PlaceType
      <4>2. m[at[1]][at[2]] = v
        BY <3>3 DEF Target
      <4>3. Hangs(m, v, at[1], at[2])
        BY <1>1, <4>1, <4>2 DEF Linked
      <4> QED BY <2>1, <2>2, <3>1, <4>1, <4>2, <4>3, OneParent
    <3> QED BY <3>2, <3>3
  <2> QED BY <1>2, <1>3, <2>1, <2>2, <2>3 DEF Hangs, Keeps
<1>5. Complete(m2)
  <2> SUFFICES ASSUME NEW a \in Inner(m2), NEW w \in DOMAIN m2, w # a, Below(m2, w, a)
               PROVE  LET c == m2[a][SideOf(m2, w, a)]
                      IN c \in DOMAIN m2 /\ Below(m2, w, c)
    BY DEF Complete
  <2> DEFINE s == SideOf(m, w, a)
             c == m[a][s]
  <2>1. /\ a \in DOMAIN m2 /\ a \in Inner(m) /\ w \in DOMAIN m /\ Below(m, w, a)
        /\ SideOf(m2, w, a) = s /\ s \in Sides
    BY <1>2, <1>3, SideType DEF Inner, SideOf
  <2>2. c \in DOMAIN m /\ Below(m, w, c)
    BY <1>1, <2>1 DEF Complete
  <2>3. c # v
    BY <1>2, <2>1, <2>2 DEF Alone
  <2>4. at # <<a, s>>
    BY <1>1, <2>3, MemoryType, <2>1, <1>2 DEF Target, Root
  <2> QED BY <1>2, <1>3, <2>1, <2>2, <2>3, <2>4
<1>6. Rooted(m2, r2)
  <2>1. CASE at = Root
    <3>1. DOMAIN m2 = {}
      BY <1>1, <1>2, <2>1 DEF Target, Rooted, Alone
    <3> QED BY <2>1, <3>1 DEF Rooted
  <2>2. CASE at # Root
    <3>1. at[1] \in Inner(m) /\ at[2] \in Sides /\ m[at[1]][at[2]] = v
      BY <1>1, <2>2, PlaceType DEF Target
    <3>2. Hangs(m, v, at[1], at[2])
      BY <1>1, <3>1 DEF Linked
    <3>3. v # r
      BY <3>1, <3>2, OneParent
    <3> QED BY <1>1, <1>2, <1>3, <2>2, <3>3 DEF Rooted
  <2> QED BY <2>1, <2>2
<1> QED BY <1>3, <1>4, <1>5, <1>6 DEF Tree, m2

\* A node nobody is below is removed, and its link is left behind.
LEMMA CutTree ==
    ASSUME NEW m, NEW r, NEW G, Tree(m, r, G), NEW v \in DOMAIN m, v # r, Alone(m, v),
           NEW m2, m2 = [c \in DOMAIN m \ {v} |-> m[c]],
           NEW H, \A a \in Inner(m), s \in Sides :
                     a # v /\ (<<a, s>> \in G \/ m[a][s] = v) => <<a, s>> \in H
    PROVE  Tree(m2, r, H)
<1>1. /\ Memory(m) /\ Linked(m, G) /\ Complete(m) /\ Distinct(m) /\ Rooted(m, r)
  BY DEF Tree
<1>2. /\ Keeps(m, m2) /\ DOMAIN m2 = DOMAIN m \ {v}
      /\ \A c \in DOMAIN m2 : m2[c] = m[c]
  BY <1>1 DEF Keeps, Memory
<1>3. /\ \A u, w \in DOMAIN m2 : /\ Below(m2, u, w) <=> Below(m, u, w)
                                 /\ SideOf(m2, u, w) = SideOf(m, u, w)
      /\ \A a \in DOMAIN m2 : a \in Inner(m2) <=> a \in Inner(m)
      /\ Distinct(m2) /\ Memory(m2)
  <2>1. Memory(m2)
    BY <1>2 DEF Keeps
  <2> QED BY <1>1, <1>2, <2>1, KeepsOrder
<1>4. Linked(m2, H)
  <2> SUFFICES ASSUME NEW a \in Inner(m2), NEW s \in Sides, <<a, s>> \notin H, m2[a][s] # NULL
               PROVE  Hangs(m2, m2[a][s], a, s)
    BY DEF Linked
  <2>1. /\ a \in DOMAIN m2 /\ a \in Inner(m) /\ a # v /\ m2[a][s] = m[a][s]
        /\ <<a, s>> \notin G /\ m[a][s] # v
    BY <1>2, <1>3 DEF Inner
  <2>2. Hangs(m, m[a][s], a, s)
    BY <1>1, <2>1 DEF Linked
  <2> QED BY <1>2, <1>3, <2>1, <2>2 DEF Hangs, Keeps
<1>5. Complete(m2)
  <2> SUFFICES ASSUME NEW a \in Inner(m2), NEW w \in DOMAIN m2, w # a, Below(m2, w, a)
               PROVE  LET c == m2[a][SideOf(m2, w, a)]
                      IN c \in DOMAIN m2 /\ Below(m2, w, c)
    BY DEF Complete
  <2>1. /\ a \in DOMAIN m2 /\ a \in Inner(m) /\ w \in DOMAIN m /\ Below(m, w, a)
        /\ SideOf(m2, w, a) = SideOf(m, w, a)
    BY <1>2, <1>3 DEF Inner
  <2>2. m[a][SideOf(m, w, a)] \in DOMAIN m /\ Below(m, w, m[a][SideOf(m, w, a)])
    BY <1>1, <2>1 DEF Complete
  <2>3. m[a][SideOf(m, w, a)] # v
    BY <1>2, <2>1, <2>2 DEF Alone
  <2> QED BY <1>2, <1>3, <2>1, <2>2, <2>3
<1>6. Rooted(m2, r)
  BY <1>1, <1>2, <1>3 DEF Rooted
<1> QED BY <1>3, <1>4, <1>5, <1>6 DEF Tree

\* Only the counts of leaves change.
Recounted(m, m2) ==
    /\ DOMAIN m2 = DOMAIN m /\ Keeps(m, m2)
    /\ \A a \in Inner(m) : m2[a] = m[a]

LEMMA RecountTree ==
    ASSUME NEW m, NEW m2, NEW r, NEW G, Tree(m, r, G), Recounted(m, m2)
    PROVE  Tree(m2, r, G)
<1>1. /\ Memory(m) /\ Linked(m, G) /\ Complete(m) /\ Distinct(m) /\ Rooted(m, r)
  BY DEF Tree
<1>2. /\ Keeps(m, m2) /\ DOMAIN m2 = DOMAIN m /\ \A c \in Inner(m) : m2[c] = m[c]
  BY DEF Recounted
<1>3. /\ \A u, w \in DOMAIN m : /\ Below(m2, u, w) <=> Below(m, u, w)
                                /\ SideOf(m2, u, w) = SideOf(m, u, w)
      /\ Inner(m2) = Inner(m) /\ Inner(m) \subseteq DOMAIN m
      /\ Distinct(m2) /\ Memory(m2)
  BY <1>1, <1>2, KeepsOrder DEF Keeps, Inner
<1>4. Linked(m2, G)
  BY <1>1, <1>2, <1>3 DEF Linked, Hangs, Keeps
<1>5. Complete(m2)
  BY <1>1, <1>2, <1>3 DEF Complete
<1>6. Rooted(m2, r)
  BY <1>1, <1>2, <1>3 DEF Rooted
<1> QED BY <1>3, <1>4, <1>5, <1>6 DEF Tree

-----------------------------------------------------------------------------
(* The way from the root to the node that is visited: t[1] is that node, and *)
(* t[i + 1] the node that has the link to t[i].                             *)

\* The side that was begun before next.
Before(next) == IF next = "one" THEN "zero" ELSE "one"

\* The sides of the i-th node that are done.
DoneSides(t, i) ==
    {s \in Sides : \/ s = "zero" /\ t[i].next = "leave"
                   \/ s = "zero" /\ t[i].next = "one" /\ i = 1
                   \/ s = "one" /\ t[i].next = "leave" /\ i = 1}

\* There are no nodes below side s of v.
Clear(m, v, s) == \A w \in DOMAIN m : w # v /\ Below(m, w, v) => SideOf(m, w, v) # s

Steps(m, r, t) ==
    \A i \in DOMAIN t :
       /\ t[i].next \in Sides \cup {"leave"} /\ t[i].ptr \in DOMAIN m \cup {NULL}
       /\ i > 1 => t[i].next # "zero"
       /\ t[i].next # "zero" => t[i].ptr \in Inner(m)
       /\ i + 1 \in DOMAIN t => t[i].ptr = m[t[i + 1].ptr][Before(t[i + 1].next)]
       /\ i + 1 \notin DOMAIN t => t[i].ptr = r

Descending(m, t) ==
    \A i, j \in DOMAIN t : i < j /\ t[i].ptr \in DOMAIN m =>
       /\ t[i].ptr # t[j].ptr /\ Below(m, t[i].ptr, t[j].ptr)
       /\ SideOf(m, t[i].ptr, t[j].ptr) = Before(t[j].next)

\* Nothing is left of what is done.
Emptied(m, t) == \A i \in DOMAIN t : \A s \in DoneSides(t, i) : Clear(m, t[i].ptr, s)

Path(m, r, t) == Steps(m, r, t) /\ Descending(m, t)

\* A branch of the first node is visited.
Pushed(m, r, t, n, t2) ==
    /\ n \in Nat \ {0} /\ DOMAIN t = 1..n /\ Path(m, r, t)
    /\ t[1].next \in Sides /\ t[1].ptr \in Inner(m)
    /\ DOMAIN t2 = 1..(n + 1)
    /\ t2[1].ptr = m[t[1].ptr][t[1].next] /\ t2[1].next = "zero"
    /\ t2[2].ptr = t[1].ptr /\ t2[2].next = After(t[1].next)
    /\ \A i \in 2..n : t2[i + 1] = t[i]

LEMMA PushPath ==
    ASSUME NEW m, NEW r, NEW G, Tree(m, r, G), NEW t, NEW n, NEW t2,
           Pushed(m, r, t, n, t2), <<t[1].ptr, t[1].next>> \notin G
    PROVE  Path(m, r, t2) /\ (Emptied(m, t) => Emptied(m, t2))
<1> DEFINE v == t[1].ptr
           s == t[1].next
           c == m[v][s]
<1>0. /\ n \in Nat \ {0} /\ DOMAIN t = 1..n /\ Path(m, r, t)
      /\ t[1].next \in Sides /\ t[1].ptr \in Inner(m)
      /\ DOMAIN t2 = 1..(n + 1)
      /\ t2[1].ptr = m[t[1].ptr][t[1].next] /\ t2[1].next = "zero"
      /\ t2[2].ptr = t[1].ptr /\ t2[2].next = After(t[1].next)
      /\ \A i \in 2..n : t2[i + 1] = t[i]
  BY DEF Pushed
<1> USE <1>0
<1>1. /\ Memory(m) /\ Linked(m, G) /\ Complete(m) /\ Distinct(m) /\ NULL \notin DOMAIN m
  BY MemoryType DEF Tree
<1>2. v \in DOMAIN m /\ v \in Inner(m) /\ s \in Sides
  BY DEF Inner
<1>3. c = NULL \/ Hangs(m, c, v, s)
  BY <1>1, <1>2 DEF Linked
<1>4. /\ Before(After(s)) = s /\ After(s) \in {"one", "leave"}
      /\ After(s) = "one" <=> s = "zero"
  BY <1>2 DEF Before, After, Sides
<1>5. \A i \in 3..(n + 1) : i - 1 \in 2..n /\ t2[i] = t[i - 1]
  <2> SUFFICES ASSUME NEW i \in 3..(n + 1) PROVE i - 1 \in 2..n /\ t2[i] = t[i - 1]
    OBVIOUS
  <2>1. i - 1 \in 2..n /\ (i - 1) + 1 = i
    OBVIOUS
  <2> QED BY <2>1
<1>6. Steps(m, r, t2)
  <2> SUFFICES ASSUME NEW i \in 1..(n + 1)
               PROVE  /\ t2[i].next \in Sides \cup {"leave"}
                      /\ t2[i].ptr \in DOMAIN m \cup {NULL}
                      /\ i > 1 => t2[i].next # "zero"
                      /\ t2[i].next # "zero" => t2[i].ptr \in Inner(m)
                      /\ i + 1 \in DOMAIN t2
                            => t2[i].ptr = m[t2[i + 1].ptr][Before(t2[i + 1].next)]
                      /\ i + 1 \notin DOMAIN t2 => t2[i].ptr = r
    BY DEF Steps
  <2>1. CASE i = 1
    BY <1>2, <1>3, <1>4, <2>1 DEF Hangs, Sides
  <2>2. CASE i = 2
    <3>1. /\ t2[2].next \in Sides \cup {"leave"} /\ t2[2].next # "zero"
          /\ t2[2].ptr \in DOMAIN m /\ t2[2].ptr \in Inner(m)
      BY <1>2, <1>4 DEF Sides
    <3>2. CASE n = 1
      <4>1. 1 \in DOMAIN t /\ 1 + 1 \notin DOMAIN t /\ 2 + 1 \notin DOMAIN t2
        BY <3>2
      <4>2. t[1].ptr = r
        BY <4>1 DEF Path, Steps
      <4> QED BY <2>2, <3>1, <4>1, <4>2
    <3>3. CASE n # 1
      <4>1. /\ t2[2 + 1] = t[2] /\ 1 + 1 \in DOMAIN t /\ 2 + 1 \in DOMAIN t2
            /\ 1 \in DOMAIN t /\ 1 + 1 = 2
        BY <3>3
      <4>2. t[1].ptr = m[t[2].ptr][Before(t[2].next)]
        BY <4>1 DEF Path, Steps
      <4> QED BY <2>2, <3>1, <4>1, <4>2
    <3> QED BY <3>2, <3>3
  <2>3. CASE i \in 3..(n + 1)
    <3>1. i - 1 \in 2..n /\ t2[i] = t[i - 1]
      BY <1>5, <2>3
    <3>2. CASE i + 1 \in DOMAIN t2
      <4>1. t2[i + 1] = t[i] /\ i \in DOMAIN t /\ (i - 1) + 1 = i
        BY <1>5, <2>3, <3>2
      <4> QED BY <3>1, <3>2, <4>1 DEF Path, Steps
    <3>3. CASE i + 1 \notin DOMAIN t2
      <4>1. (i - 1) + 1 \notin DOMAIN t
        BY <2>3, <3>3
      <4> QED BY <3>1, <3>3, <4>1 DEF Path, Steps
    <3> QED BY <3>2, <3>3
  <2> QED BY <2>1, <2>2, <2>3
<1>7. Descending(m, t2)
  <2> SUFFICES ASSUME NEW i \in 1..(n + 1), NEW j \in 1..(n + 1), i < j,
                      t2[i].ptr \in DOMAIN m
               PROVE  /\ t2[i].ptr # t2[j].ptr /\ Below(m, t2[i].ptr, t2[j].ptr)
                      /\ SideOf(m, t2[i].ptr, t2[j].ptr) = Before(t2[j].next)
    BY DEF Descending
  <2>1. CASE i = 1 /\ j = 2
    BY <1>1, <1>2, <1>3, <1>4, <2>1, MemoryType DEF Hangs
  <2>2. CASE i = 2
    <3>1. j - 1 \in 2..n /\ t2[j] = t[j - 1]
      BY <1>5, <2>2
    <3> QED BY <1>2, <2>2, <3>1 DEF Path, Descending
  <2>3. CASE i \in 3..(n + 1)
    <3> DEFINE k == i - 1
               l == j - 1
    <3>1. j \in 3..(n + 1) /\ k < l
      BY <2>3
    <3>2. l \in DOMAIN t /\ t2[j] = t[l] /\ k \in DOMAIN t /\ t2[i] = t[k]
      BY <1>5, <2>3, <3>1
    <3> HIDE DEF k, l
    <3> QED BY <3>1, <3>2 DEF Path, Descending
  <2>4. CASE i = 1 /\ j # 2
    <3>1. j - 1 \in 2..n /\ t2[j] = t[j - 1] /\ 1 < j - 1
      BY <1>5, <2>4
    <3>2. LET d == t[j - 1].ptr IN
          v # d /\ Below(m, v, d) /\ SideOf(m, v, d) = Before(t[j - 1].next)
      BY <1>2, <3>1 DEF Path, Descending
    <3>3. t[j - 1].ptr \in DOMAIN m
      BY <3>1 DEF Path, Steps, Inner
    <3>4. c \in DOMAIN m /\ c = t2[i].ptr /\ Hangs(m, c, v, s)
      BY <1>1, <1>3, <2>4
    <3>5. m[v].bit_pos < m[t[j - 1].ptr].bit_pos
      BY <1>1, <1>2, <3>2, <3>3, StrictlyBelow
    <3>6. Below(m, c, t[j - 1].ptr) /\ SideOf(m, c, t[j - 1].ptr) = SideOf(m, v, t[j - 1].ptr)
      BY <1>1, <1>2, <3>2, <3>3, <3>4, <3>5, BelowOrder DEF Hangs
    <3>7. c # t[j - 1].ptr
      BY <1>1, <1>2, <3>3, <3>4, <3>5, MemoryType DEF Hangs
    <3> QED BY <3>1, <3>2, <3>4, <3>6, <3>7
  <2> QED BY <2>1, <2>2, <2>3, <2>4
<1>8. ASSUME Emptied(m, t) PROVE Emptied(m, t2)
  <2> SUFFICES ASSUME NEW i \in 1..(n + 1), NEW q \in DoneSides(t2, i)
               PROVE  Clear(m, t2[i].ptr, q)
    BY DEF Emptied
  <2>1. i # 1
    BY DEF DoneSides
  <2>2. CASE i = 2
    <3>1. q \in DoneSides(t, 1)
      BY <1>2, <1>4, <2>2 DEF DoneSides, Sides
    <3> QED BY <1>8, <2>2, <3>1 DEF Emptied
  <2>3. CASE i \in 3..(n + 1)
    <3>1. i - 1 \in 2..n /\ t2[i] = t[i - 1]
      BY <1>5, <2>3
    <3>2. q \in DoneSides(t, i - 1)
      BY <2>3, <3>1 DEF DoneSides
    <3> QED BY <1>8, <3>1, <3>2 DEF Emptied
  <2> QED BY <2>1, <2>2, <2>3
<1> QED BY <1>6, <1>7, <1>8 DEF Path

\* The visit of the first node ends, after which perhaps nothing of it is left.
Popped(m, r, t, n, m2, r2, t2) ==
    /\ n \in Nat \ {0} /\ DOMAIN t = 1..n /\ Path(m, r, t)
    /\ Keeps(m, m2) /\ (n > 1 => r2 = r)
    /\ \A i \in 2..n : t[i].ptr \in DOMAIN m2
    /\ \A i \in 3..n : m2[t[i].ptr][Before(t[i].next)] = m[t[i].ptr][Before(t[i].next)]
    /\ DOMAIN t2 = 1..(n - 1) /\ \A i \in 1..(n - 1) : t2[i] = t[i + 1]

LEMMA PopPath ==
    ASSUME NEW m, NEW r, NEW G, Tree(m, r, G), NEW t, NEW n, NEW m2, NEW r2, NEW t2,
           Popped(m, r, t, n, m2, r2, t2)
    PROVE  /\ Path(m2, r2, t2)
           /\ Emptied(m, t)
              /\ (t[1].ptr = NULL \/ \A w \in DOMAIN m2 : ~Below(m, w, t[1].ptr))
                => Emptied(m2, t2)
<1>0. /\ n \in Nat \ {0} /\ DOMAIN t = 1..n /\ Path(m, r, t)
      /\ Keeps(m, m2) /\ (n > 1 => r2 = r)
      /\ \A i \in 2..n : t[i].ptr \in DOMAIN m2
      /\ \A i \in 3..n : m2[t[i].ptr][Before(t[i].next)] = m[t[i].ptr][Before(t[i].next)]
      /\ DOMAIN t2 = 1..(n - 1) /\ \A i \in 1..(n - 1) : t2[i] = t[i + 1]
  BY DEF Popped
<1> USE <1>0
<1>1. /\ Memory(m) /\ Complete(m) /\ NULL \notin DOMAIN m /\ DOMAIN m2 \subseteq DOMAIN m
  BY MemoryType DEF Tree, Keeps
<1>2. /\ \A u, w \in DOMAIN m2 : /\ Below(m2, u, w) <=> Below(m, u, w)
                                 /\ SideOf(m2, u, w) = SideOf(m, u, w)
      /\ \A a \in DOMAIN m2 : a \in Inner(m2) <=> a \in Inner(m)
  BY KeepsOrder
<1>3. \A i \in 1..(n - 1) : /\ i + 1 \in 2..n /\ i + 1 \in DOMAIN t /\ t2[i] = t[i + 1]
                            /\ t2[i].ptr \in DOMAIN m2
  OBVIOUS
<1>4. Steps(m2, r2, t2)
  <2> SUFFICES ASSUME NEW i \in 1..(n - 1)
               PROVE  /\ t2[i].next \in Sides \cup {"leave"}
                      /\ t2[i].ptr \in DOMAIN m2 \cup {NULL}
                      /\ i > 1 => t2[i].next # "zero"
                      /\ t2[i].next # "zero" => t2[i].ptr \in Inner(m2)
                      /\ i + 1 \in DOMAIN t2
                            => t2[i].ptr = m2[t2[i + 1].ptr][Before(t2[i + 1].next)]
                      /\ i + 1 \notin DOMAIN t2 => t2[i].ptr = r2
    BY DEF Steps
  <2>1. /\ t[i + 1].next \in Sides \cup {"leave"}
        /\ t[i + 1].next # "zero" /\ t[i + 1].ptr \in Inner(m)
    <3> DEFINE k == i + 1
    <3>1. k \in DOMAIN t /\ k > 1
      BY <1>3
    <3> HIDE DEF k
    <3>2. t[k].next \in Sides \cup {"leave"} /\ t[k].next # "zero" /\ t[k].ptr \in Inner(m)
      BY <3>1 DEF Path, Steps
    <3> QED BY <3>2 DEF k
  <2>2. CASE i + 1 \in DOMAIN t2
    <3>1. i + 2 \in 3..n /\ (i + 1) + 1 = i + 2 /\ t2[i + 1] = t[i + 2] /\ i + 2 \in DOMAIN t
      BY <2>2
    <3>2. t[i + 1].ptr = m[t[i + 2].ptr][Before(t[i + 2].next)]
      BY <1>3, <3>1 DEF Path, Steps
    <3> QED BY <1>2, <1>3, <2>1, <2>2, <3>1, <3>2
  <2>3. CASE i + 1 \notin DOMAIN t2
    <3>1. (i + 1) + 1 \notin DOMAIN t /\ n > 1
      BY <2>3
    <3>2. t[i + 1].ptr = r
      BY <1>3, <3>1 DEF Path, Steps
    <3> QED BY <1>2, <1>3, <2>1, <2>3, <3>1, <3>2
  <2> QED BY <2>2, <2>3
<1>5. Descending(m2, t2)
  <2> SUFFICES ASSUME NEW i \in 1..(n - 1), NEW j \in 1..(n - 1), i < j
               PROVE  /\ t2[i].ptr # t2[j].ptr /\ Below(m2, t2[i].ptr, t2[j].ptr)
                      /\ SideOf(m2, t2[i].ptr, t2[j].ptr) = Before(t2[j].next)
    BY DEF Descending
  <2> DEFINE k == i + 1
             l == j + 1
  <2>1. /\ k \in DOMAIN t /\ l \in DOMAIN t /\ k < l /\ t2[i] = t[k] /\ t2[j] = t[l]
        /\ t[k].ptr \in DOMAIN m2 /\ t[l].ptr \in DOMAIN m2 /\ t[k].ptr \in DOMAIN m
    BY <1>1, <1>3
  <2> HIDE DEF k, l
  <2>2. /\ t[k].ptr # t[l].ptr /\ Below(m, t[k].ptr, t[l].ptr)
        /\ SideOf(m, t[k].ptr, t[l].ptr) = Before(t[l].next)
    BY <2>1 DEF Path, Descending
  <2> QED BY <1>2, <2>1, <2>2
<1>6. ASSUME Emptied(m, t),
             t[1].ptr = NULL \/ \A w \in DOMAIN m2 : ~Below(m, w, t[1].ptr)
      PROVE  Emptied(m2, t2)
  <2> SUFFICES ASSUME NEW i \in 1..(n - 1), NEW q \in DoneSides(t2, i),
                      NEW w \in DOMAIN m2, w # t2[i].ptr, Below(m2, w, t2[i].ptr),
                      SideOf(m2, w, t2[i].ptr) = q
               PROVE  FALSE
    BY DEF Emptied, Clear
  <2> DEFINE a == t[i + 1].ptr
  <2>1. /\ a \in DOMAIN m2 /\ a \in DOMAIN m /\ t2[i].ptr = a /\ w \in DOMAIN m /\ w # a
        /\ Below(m, w, a) /\ SideOf(m, w, a) = q
    BY <1>1, <1>2, <1>3
  <2>2. CASE q \in DoneSides(t, i + 1)
    BY <1>3, <1>6, <2>1, <2>2 DEF Emptied, Clear
  <2>3. CASE q \notin DoneSides(t, i + 1)
    <3>1. i = 1 /\ q = Before(t[2].next) /\ 2 \in DOMAIN t /\ 1 \in DOMAIN t
      BY <1>3, <2>3 DEF DoneSides, Before
    <3>2. t[2].next # "zero" /\ t[2].ptr \in Inner(m)
      BY <3>1 DEF Path, Steps
    <3>3. t[1].ptr = m[a][q]
      BY <3>1 DEF Path, Steps
    <3>4. t[1].ptr \in DOMAIN m /\ Below(m, w, t[1].ptr)
      BY <1>1, <2>1, <3>1, <3>2, <3>3 DEF Complete
    <3> QED BY <1>1, <1>6, <3>4
  <2> QED BY <2>2, <2>3
<1> QED BY <1>4, <1>5, <1>6 DEF Path

\* Counting does not disturb the way.
LEMMA RecountPath ==
    ASSUME NEW m, NEW m2, NEW r, Memory(m), Recounted(m, m2),
           NEW t, Path(m, r, t), NEW n \in Nat, DOMAIN t = 1..n
    PROVE  Path(m2, r, t) /\ (Emptied(m, t) => Emptied(m2, t))
<1>1. /\ \A u, w \in DOMAIN m : /\ Below(m2, u, w) <=> Below(m, u, w)
                                /\ SideOf(m2, u, w) = SideOf(m, u, w)
      /\ \A a \in DOMAIN m : a \in Inner(m2) <=> a \in Inner(m)
      /\ DOMAIN m2 = DOMAIN m /\ NULL \notin DOMAIN m
      /\ \A a \in Inner(m) : m2[a] = m[a]
  BY KeepsOrder, MemoryType DEF Recounted
<1>2. \A i \in DOMAIN t : i > 1 => t[i].ptr \in DOMAIN m /\ t[i].ptr \in Inner(m)
  BY DEF Path, Steps, Inner
<1>3. Steps(m2, r, t)
  <2> SUFFICES ASSUME NEW i \in DOMAIN t
               PROVE  /\ t[i].next \in Sides \cup {"leave"}
                      /\ t[i].ptr \in DOMAIN m2 \cup {NULL}
                      /\ i > 1 => t[i].next # "zero"
                      /\ t[i].next # "zero" => t[i].ptr \in Inner(m2)
                      /\ i + 1 \in DOMAIN t
                            => t[i].ptr = m2[t[i + 1].ptr][Before(t[i + 1].next)]
                      /\ i + 1 \notin DOMAIN t => t[i].ptr = r
    BY DEF Steps
  <2>1. i + 1 \in DOMAIN t => t[i + 1].ptr \in Inner(m)
    BY <1>2
  <2>2. t[i].ptr \in Inner(m) => t[i].ptr \in Inner(m2)
    BY <1>1 DEF Inner
  <2> QED BY <1>1, <2>1, <2>2 DEF Path, Steps
<1>4. Descending(m2, t)
  BY <1>1, <1>2 DEF Path, Descending
<1>5. ASSUME Emptied(m, t) PROVE Emptied(m2, t)
  <2> SUFFICES ASSUME NEW i \in DOMAIN t, NEW q \in DoneSides(t, i)
               PROVE  Clear(m2, t[i].ptr, q)
    BY DEF Emptied
  <2>1. t[i].next # "zero"
    BY DEF DoneSides
  <2>2. t[i].ptr \in DOMAIN m
    BY <2>1 DEF Path, Steps, Inner
  <2> QED BY <1>1, <1>5, <2>2 DEF Emptied, Clear
<1> QED BY <1>3, <1>4, <1>5 DEF Path

-----------------------------------------------------------------------------
(* The inductive invariant.                                                *)

\* The calls of take_numbers_2 and release_tree that have not returned.
Frames == [at : Nat \cup (Nat \X (Sides \cup {"root"})), next : Sides \cup {"leave"}]

Nodes == node \in [InUse -> Node] /\ tree \in Nat

Control ==
    /\ pc \in {"main", "add", "take", "visit", "release", "done"}
    /\ number \in Numbers /\ bit_pos \in 0..Top
    /\ limit \in Nat /\ room \in 0..MaxTake /\ out \in Seq(Numbers) /\ Len(out) <= room
    /\ input \in 0..Commands /\ stack \in Seq(Frames)

\* What holds at each place of the program.
Phases ==
    /\ pc \in {"main", "add", "take", "done"} => stack = <<>>
    /\ pc # "visit" => out = <<>>
    /\ pc \notin {"take", "visit"} => limit = 0
    /\ pc \in {"take", "visit"} => limit > 0
    /\ pc = "visit" => room > 0 /\ room <= limit
    /\ pc = "done" => InUse = {}

\* The number belongs where add_number looks for it.
Adding == pc = "add" =>
    \/ parent = Root /\ bit_pos = Top
    \/ \E p \in Inner(node) :
          /\ parent = <<p, Side(number, node[p].bit_pos)>>
          /\ bit_pos = node[p].bit_pos - 1
          /\ Agree(number, node[p].number, node[p].bit_pos)

\* Until the tree is released, all blocks in use are its nodes.
Standing == pc \notin {"release", "done"} => Tree(node, tree, {})

\* The nodes of the calls that have not returned, the latest first.
Trail == [i \in DOMAIN stack |->
            [ptr  |-> IF pc = "release" THEN stack[i].at ELSE Link(stack[i].at),
             next |-> stack[i].next]]

\* take_numbers_2 goes down the tree, and leaves nothing behind unless it is full.
Walking == pc = "visit" =>
    /\ Path(node, tree, Trail) /\ (Full \/ Emptied(node, Trail))
    /\ \A i \in DOMAIN stack :
          stack[i].at = IF i = Len(stack) THEN Root
                        ELSE <<Trail[i + 1].ptr, Before(Trail[i + 1].next)>>
    /\ ~Full /\ stack = <<>> => InUse = {}

\* The links that release_tree leaves behind.
Dangling == {at \in InUse \X Sides :
                \E i \in DOMAIN stack : stack[i].at = at[1] /\ at[2] \in DoneSides(Trail, i)}

\* release_tree goes down the tree, and leaves nothing behind but such links.
Freeing == pc = "release" =>
    /\ stack # <<>> => LET r == stack[Len(stack)].at IN
          Tree(node, r, Dangling) /\ Path(node, r, Trail) /\ Emptied(node, Trail)
    /\ stack = <<>> => InUse = {}

\* Only on the way there are empty nodes.
Filled == \A b \in InUse : Empty(b) =>
    /\ pc \in {"visit", "release"}
    /\ pc = "visit" => \E i \in DOMAIN stack : b = Trail[i].ptr

IInv == /\ HeapInv /\ Nodes /\ Control /\ Phases
        /\ Adding /\ Standing /\ Walking /\ Freeing /\ Filled

-----------------------------------------------------------------------------
(* Blocks and calls.                                                       *)

LEMMA UsedBlocks == ASSUME HeapInv PROVE InUse \subseteq Nat \ {NULL}
<1> SUFFICES ASSUME NEW b \in InUse PROVE b \in Nat \ {NULL}
  OBVIOUS
<1>1. b \in Nat /\ HeapStart <= b
  BY DEF HeapInv, HeapTypes, HeapSound, Within
<1> QED BY <1>1, HeapAssumption DEF HeapAssumption, NULL

\* A new node is a block that was not in use.
LEMMA NewBlock ==
    ASSUME HeapInv, Allocate(NodeSize)
    PROVE  HeapInv' /\ New \in Nat \ {NULL} /\ New \notin InUse /\ InUse' = InUse \cup {New}
<1>1. NodeSize \in Int /\ NodeSize >= 1 /\ Units(NodeSize) < NUM_SIZES
  BY DEF Allocate, NodeSize
<1>2. HeapInv'
  BY <1>1, AllocateKeeps, HeapAssumption
<1> DEFINE s == Bytes(Units(NodeSize))
<1>3. /\ s \in Nat \ {0} /\ Choice(NodeSize) \in Seq(Nat) /\ Choice(NodeSize) # <<>>
      /\ \A i \in DOMAIN Choice(NodeSize) :
            /\ HeapStart <= Choice(NodeSize)[i]
            /\ \A b \in InUse : Apart(b, size[b], Choice(NodeSize)[i], s)
  BY <1>1, ChoiceSound, HeapAssumption
<1> HIDE DEF s
<1>4. New = Choice(NodeSize)[1] /\ 1 \in DOMAIN Choice(NodeSize) /\ New \in Nat
  BY <1>3 DEF New, Block
<1>5. New # NULL
  BY <1>3, <1>4, HeapAssumption DEF HeapAssumption, NULL
<1>6. New \notin InUse
  <2> SUFFICES ASSUME New \in InUse PROVE FALSE
    OBVIOUS
  <2>1. Apart(New, size[New], New, s)
    BY <1>3, <1>4
  <2>2. size[New] \in Nat /\ size[New] > 0
    BY DEF HeapInv, HeapTypes
  <2> QED BY <1>3, <1>4, <2>1, <2>2 DEF Apart
<1>7. InUse' = InUse \cup {New}
  BY DEF Allocate, InUse, New
<1> QED BY <1>2, <1>4, <1>5, <1>6, <1>7

LEMMA OldBlock == ASSUME HeapInv, NEW b \in InUse, Release(b)
                  PROVE  HeapInv' /\ InUse' = InUse \ {b}
<1>1. HeapInv'
  BY ReleaseKeeps, HeapAssumption
<1> QED BY <1>1 DEF Release, InUse

LEMMA SameHeap == ASSUME HeapInv, UNCHANGED heap PROVE HeapInv' /\ InUse' = InUse
BY DEF heap, HeapInv, HeapTypes, HeapSound, InUse, Within

\* The stack when a branch is visited.
LEMMA Visiting2 ==
    ASSUME stack \in Seq(Frames), stack # <<>>, NEW at, Visit(at),
           at \in Nat \cup (Nat \X (Sides \cup {"root"}))
    PROVE  /\ Len(stack) \in Nat \ {0} /\ Top1 = stack[1] /\ DOMAIN stack = 1..Len(stack)
           /\ stack' \in Seq(Frames) /\ Len(stack') = Len(stack) + 1
           /\ DOMAIN stack' = 1..(Len(stack) + 1)
           /\ stack'[1] = Call(at)
           /\ stack'[2].at = stack[1].at /\ stack'[2].next = After(stack[1].next)
           /\ \A i \in 2..Len(stack) : stack'[i + 1] = stack[i]
<1> DEFINE new == [Top1 EXCEPT !.next = After(Top1.next)]
           two == <<Call(at), new>>
<1>1. Len(stack) \in Nat \ {0} /\ Top1 = stack[1] /\ stack[1] \in Frames
  BY DEF Top1
<1>2. new \in Frames /\ new.at = stack[1].at /\ new.next = After(stack[1].next)
  BY <1>1 DEF Frames, After, Sides
<1>3. Call(at) \in Frames
  BY DEF Call, Frames, Sides
<1> HIDE DEF new
<1>4. two \in Seq(Frames) /\ Len(two) = 2 /\ two[1] = Call(at) /\ two[2] = new
  BY <1>2, <1>3
<1>5. /\ Tail(stack) \in Seq(Frames) /\ Len(Tail(stack)) = Len(stack) - 1
      /\ \A i \in 1..(Len(stack) - 1) : Tail(stack)[i] = stack[i + 1]
  BY <1>1
<1>6. stack' = two \o Tail(stack)
  BY DEF Visit, new
<1> HIDE DEF two
<1>7. /\ stack' \in Seq(Frames) /\ Len(stack') = 2 + (Len(stack) - 1)
      /\ \A i \in 1..(2 + (Len(stack) - 1)) :
            stack'[i] = IF i <= 2 THEN two[i] ELSE Tail(stack)[i - 2]
  <2>1. /\ two \o Tail(stack) \in Seq(Frames)
        /\ Len(two \o Tail(stack)) = Len(two) + Len(Tail(stack))
        /\ \A i \in 1..(Len(two) + Len(Tail(stack))) :
              (two \o Tail(stack))[i] = IF i <= Len(two) THEN two[i]
                                        ELSE Tail(stack)[i - Len(two)]
    BY <1>4, <1>5, ConcatProperties, Zenon
  <2> QED BY <1>4, <1>5, <1>6, <2>1, Zenon
<1>8. stack'[1] = Call(at) /\ stack'[2] = new
  <2>1. 1 \in 1..(2 + (Len(stack) - 1)) /\ 2 \in 1..(2 + (Len(stack) - 1))
    BY <1>1
  <2> QED BY <1>4, <1>7, <2>1
<1>9. ASSUME NEW i \in 2..Len(stack) PROVE stack'[i + 1] = stack[i]
  <2>1. stack'[i + 1] = Tail(stack)[(i + 1) - 2] /\ (i + 1) - 2 \in 1..(Len(stack) - 1)
    BY <1>1, <1>7
  <2>2. Tail(stack)[(i + 1) - 2] = stack[((i + 1) - 2) + 1] /\ ((i + 1) - 2) + 1 = i
    BY <1>5, <2>1
  <2> QED BY <2>1, <2>2
<1> QED BY <1>1, <1>2, <1>7, <1>8, <1>9

\* The stack when a visit ends.
LEMMA Returning ==
    ASSUME stack \in Seq(Frames), stack # <<>>, Return
    PROVE  /\ Len(stack) \in Nat \ {0} /\ Top1 = stack[1] /\ DOMAIN stack = 1..Len(stack)
           /\ stack' \in Seq(Frames) /\ Len(stack') = Len(stack) - 1
           /\ DOMAIN stack' = 1..(Len(stack) - 1)
           /\ \A i \in 1..(Len(stack) - 1) : stack'[i] = stack[i + 1]
BY DEF Return, Top1

-----------------------------------------------------------------------------
(* add_number                                                              *)

\* Everything the invariant says of the tree stays as it is between two commands and
\* while a place is looked for.
LEMMA Still ==
    ASSUME IInv, UNCHANGED <<heap, tree, node, stack, out>>,
           pc \in {"main", "add"}, pc' \in {"main", "add", "take"}
    PROVE  /\ HeapInv' /\ Nodes' /\ Standing' /\ Walking' /\ Freeing' /\ Filled'
           /\ InUse' = InUse
<1>1. HeapInv' /\ InUse' = InUse
  BY SameHeap DEF IInv
<1>2. Nodes' /\ Standing' /\ Walking' /\ Freeing'
  BY <1>1 DEF IInv, Nodes, Standing, Walking, Freeing
<1>3. Filled'
  <2> SUFFICES ASSUME NEW b \in InUse', Empty(b)' PROVE FALSE
    BY DEF Filled
  <2>1. b \in InUse /\ Empty(b)
    BY <1>1 DEF Empty
  <2> QED BY <2>1 DEF IInv, Filled
<1> QED BY <1>1, <1>2, <1>3

LEMMA ReadAddKeeps == ASSUME IInv, NEW n \in Numbers, ReadAdd(n) PROVE IInv'
<1>1. /\ pc = "main" /\ pc' = "add" /\ UNCHANGED <<heap, tree, node, stack, out>>
      /\ number' = n /\ bit_pos' = Top /\ parent' = Root /\ UNCHANGED <<limit, room>>
      /\ input > 0 /\ input' = input - 1
  BY DEF ReadAdd
<1>2. /\ HeapInv' /\ Nodes' /\ Standing' /\ Walking' /\ Freeing' /\ Filled'
  BY <1>1, Still
<1>3. Control'
  BY <1>1, TreeAssumption DEF IInv, Control, TreeAssumption
<1>4. Phases' /\ Adding'
  BY <1>1 DEF IInv, Phases, Adding, Root
<1> QED BY <1>2, <1>3, <1>4 DEF IInv

LEMMA ReadTakeKeeps == ASSUME IInv, NEW n \in Takes, ReadTake(n) PROVE IInv'
<1>1. /\ pc = "main" /\ pc' = "take" /\ UNCHANGED <<heap, tree, node, stack, out>>
      /\ limit' = n /\ n \in Nat \ {0} /\ UNCHANGED <<number, bit_pos, parent, room>>
      /\ input > 0 /\ input' = input - 1
  BY TreeAssumption DEF ReadTake, walk, TreeAssumption
<1>2. /\ HeapInv' /\ Nodes' /\ Standing' /\ Walking' /\ Freeing' /\ Filled'
  BY <1>1, Still
<1>3. Control'
  BY <1>1, TreeAssumption DEF IInv, Control, TreeAssumption
<1>4. Phases' /\ Adding'
  BY <1>1 DEF IInv, Phases, Adding
<1> QED BY <1>2, <1>3, <1>4 DEF IInv

\* Where add_number looks: the number agrees with what is found there, above the bits
\* that are still to be compared.
LEMMA Looking ==
    ASSUME IInv, pc = "add"
    PROVE  /\ Tree(node, tree, {}) /\ Memory(node) /\ DOMAIN node = InUse
           /\ NULL \notin InUse /\ Place(node, parent) /\ Here = Target(node, tree, parent)
           /\ number \in Numbers /\ bit_pos \in Positions /\ Top \in Nat
           /\ \A k \in Nat : k <= bit_pos => Fits(node, parent, number, k)
           /\ Here # NULL => /\ Here \in InUse /\ node[Here].bit_pos <= bit_pos
                             /\ Agree(node[Here].number, number, bit_pos)
           /\ At = node[Here].bit_pos \/ Here = NULL
<1>1. /\ Tree(node, tree, {}) /\ Memory(node) /\ DOMAIN node = InUse /\ Top \in Nat
      /\ number \in Numbers /\ bit_pos \in Positions /\ Here = Target(node, tree, parent)
  BY TreeAssumption
  DEF IInv, Standing, Tree, Nodes, Control, Positions, Here, Link, Target, TreeAssumption
<1>2. /\ NULL \notin InUse
      /\ \A b \in InUse : node[b].bit_pos \in Nat /\ node[b].bit_pos <= Top
                          /\ node[b].bit_pos \in Positions /\ node[b].number \in Numbers
  BY <1>1, MemoryType DEF Positions
<1> SUFFICES /\ Place(node, parent)
             /\ \A k \in Nat : k <= bit_pos => Fits(node, parent, number, k)
             /\ Here # NULL => /\ Here \in InUse /\ node[Here].bit_pos <= bit_pos
                               /\ Agree(node[Here].number, number, bit_pos)
  BY <1>1, <1>2 DEF At, Positions
<1>3. CASE parent = Root /\ bit_pos = Top
  <2>1. Here = tree
    BY <1>1, <1>3 DEF Target
  <2>2. Here # NULL => Here \in InUse /\ node[Here].bit_pos <= bit_pos
    BY <1>1, <1>2, <1>3, <2>1 DEF Tree, Rooted
  <2>3. \A i, j : Agree(i, j, bit_pos)
    BY <1>1, <1>3 DEF Agree
  <2> QED BY <1>3, <2>2, <2>3 DEF Place, Fits
<1>4. CASE \E p \in Inner(node) :
             /\ parent = <<p, Side(number, node[p].bit_pos)>>
             /\ bit_pos = node[p].bit_pos - 1
             /\ Agree(number, node[p].number, node[p].bit_pos)
  <2>1. PICK p \in Inner(node) : /\ parent = <<p, Side(number, node[p].bit_pos)>>
                                 /\ bit_pos = node[p].bit_pos - 1
                                 /\ Agree(number, node[p].number, node[p].bit_pos)
    BY <1>4
  <2> DEFINE k == node[p].bit_pos
             s == Side(number, k)
  <2>2. /\ p \in InUse /\ p # NULL /\ k \in Positions /\ k \in Nat /\ s \in Sides
        /\ parent[1] = p /\ parent[2] = s /\ parent # Root
    BY <1>1, <1>2, <2>1, SideType DEF Inner, Root
  <2>3. Place(node, parent)
    BY <2>1, <2>2 DEF Place
  <2>4. \A l \in Nat : l <= bit_pos => Fits(node, parent, number, l)
    BY <2>1, <2>2 DEF Fits
  <2>5. ASSUME Here # NULL
        PROVE  /\ Here \in InUse /\ node[Here].bit_pos <= bit_pos
               /\ Agree(node[Here].number, number, bit_pos)
    <3>1. Here = node[p][s]
      BY <1>1, <2>2 DEF Target
    <3>2. Hangs(node, Here, p, s)
      BY <1>1, <2>2, <2>5, <3>1 DEF Tree, Linked
    <3>3. Here \in InUse /\ node[Here].bit_pos <= bit_pos
      BY <1>1, <1>2, <2>1, <2>2, <3>2 DEF Hangs
    <3>4. Agree(node[Here].number, number, k)
      BY <2>1, <3>2, Agreement DEF Hangs, Below
    <3>5. Bit(node[Here].number, k) = Bit(number, k)
      <4>1. Side(node[Here].number, k) = Side(number, k)
        BY <3>2 DEF Hangs, SideOf
      <4>2. Bit(node[Here].number, k) \in {0, 1} /\ Bit(number, k) \in {0, 1}
        BY <1>1, <1>2, <2>2, <3>3, Quotients, NumberType
      <4> QED BY <4>1, <4>2 DEF Side
    <3>6. Agree(node[Here].number, number, bit_pos)
      <4>1. \A j \in (bit_pos + 1)..Top : j = k \/ j \in (k + 1)..Top
        BY <1>1, <2>1, <2>2 DEF Positions
      <4> QED BY <3>4, <3>5, <4>1 DEF Agree
    <3> QED BY <3>3, <3>6
  <2> QED BY <2>3, <2>4, <2>5
<1> QED BY <1>3, <1>4 DEF IInv, Adding

\* A link to a new node.
LEMMA PointInserted ==
    ASSUME Memory(node), NEW at, Place(node, at), NEW b, b \notin DOMAIN node, NEW x,
           Point(at, b, With(b, x))
    PROVE  node' = Inserted(node, at, b, x) /\ tree' = IF at = Root THEN b ELSE tree
<1>1. CASE at = Root
  BY <1>1 DEF Point, With, Inserted
<1>2. CASE at # Root
  <2> DEFINE p == at[1]
             s == at[2]
             m == With(b, x)
  <2>1. p \in DOMAIN node /\ p # b
    BY <1>2, PlaceType DEF Inner
  <2>2. DOMAIN m = DOMAIN node \cup {b} /\ m[b] = x /\ \A c \in DOMAIN node : m[c] = node[c]
    BY DEF With
  <2> HIDE DEF m
  <2>3. node' = [m EXCEPT ![p][s] = b]
    BY <1>2 DEF Point, m
  <2>4. node' = [m EXCEPT ![p] = [m[p] EXCEPT ![s] = b]]
    BY <2>3
  <2>5. node' = [c \in DOMAIN m |-> IF c = p THEN [m[p] EXCEPT ![s] = b] ELSE m[c]]
    BY <2>4
  <2>6. ASSUME NEW c \in DOMAIN m
        PROVE  (IF c = p THEN [m[p] EXCEPT ![s] = b] ELSE m[c])
                  = (IF c = b THEN x
                     ELSE IF at # Root /\ c = at[1] THEN [node[c] EXCEPT ![at[2]] = b]
                     ELSE node[c])
    BY <1>2, <2>1, <2>2
  <2>7. node' = Inserted(node, at, b, x)
    BY <2>2, <2>5, <2>6 DEF Inserted
  <2> QED BY <1>2, <2>7 DEF Point
<1> QED BY <1>1, <1>2

\* A new node: the tree is a tree, and neither the node nor the one above it is empty.
LEMMA Grown ==
    ASSUME IInv, pc = "add", Allocate(NodeSize), NEW x \in Node,
           x.number = number, x.bit_pos <= bit_pos, Covers(node, Here, x),
           x.zero # 0 \/ x.one # 0, Point(parent, New, With(New, x)), pc' \in {"main", "add"}
    PROVE  /\ HeapInv' /\ Nodes' /\ Standing' /\ Filled'
           /\ node'[New] = x /\ New \in DOMAIN node'
<1>1. /\ Tree(node, tree, {}) /\ Memory(node) /\ DOMAIN node = InUse
      /\ Place(node, parent) /\ Here = Target(node, tree, parent)
      /\ bit_pos \in Positions /\ Fits(node, parent, number, x.bit_pos)
  BY Looking DEF Node
<1>2. HeapInv' /\ New \in Nat \ {NULL} /\ New \notin InUse /\ InUse' = InUse \cup {New}
  BY NewBlock DEF IInv
<1>3. node' = Inserted(node, parent, New, x) /\ tree' = IF parent = Root THEN New ELSE tree
  BY <1>1, <1>2, PointInserted
<1>4. Tree(node', tree', {})
  BY <1>1, <1>2, <1>3, InsertTree
<1>5. /\ DOMAIN node' = InUse' /\ node'[New] = x /\ New \in DOMAIN node'
      /\ \A c \in InUse : node'[c] = IF parent # Root /\ c = parent[1]
                                     THEN [node[c] EXCEPT ![parent[2]] = New] ELSE node[c]
  BY <1>1, <1>2, <1>3 DEF Inserted
<1>6. Nodes'
  BY <1>2, <1>3, <1>4, <1>5 DEF Tree, Memory, IInv, Nodes
<1>7. Filled'
  <2> SUFFICES ASSUME NEW b \in InUse', Empty(b)' PROVE FALSE
    BY DEF Filled
  <2>1. node'[b].zero = 0 /\ node'[b].one = 0
    BY DEF Empty
  <2>2. b \in InUse
    BY <1>2, <1>5, <2>1
  <2>3. CASE parent # Root /\ b = parent[1]
    <3>1. parent[2] \in {"zero", "one"} /\ node[b] \in Node
      BY <1>1, <2>2, <2>3, PlaceType, MemoryType DEF Sides
    <3>2. node'[b] = [node[b] EXCEPT ![parent[2]] = New]
      BY <1>5, <2>2, <2>3
    <3>3. node'[b].zero = New \/ node'[b].one = New
      BY <3>1, <3>2 DEF Node
    <3> QED BY <1>2, <2>1, <3>3 DEF NULL
  <2>4. CASE ~(parent # Root /\ b = parent[1])
    <3>1. Empty(b)
      BY <1>5, <2>1, <2>2, <2>4 DEF Empty
    <3> QED BY <2>2, <3>1 DEF IInv, Filled
  <2> QED BY <2>3, <2>4
<1> QED BY <1>2, <1>4, <1>5, <1>6, <1>7 DEF Standing

LEMMA AddedControl ==
    ASSUME IInv, Added, pc = "add", UNCHANGED <<limit, room, out, stack, input>>
    PROVE  Control' /\ Phases' /\ Adding' /\ Walking' /\ Freeing' /\ pc' = "main"
<1>1. 0 \in Numbers /\ 0 \in 0..Top
  <2>1. 2^(Top + 1) \in Nat \ {0}
    BY TreeAssumption, PowersAssumption DEF TreeAssumption
  <2> QED BY <2>1, TreeAssumption DEF Numbers, TreeAssumption
<1>2. Control'
  BY <1>1 DEF IInv, Added, Control
<1> QED BY <1>2 DEF IInv, Added, Phases, Adding, Walking, Freeing

LEMMA CreateKeeps == ASSUME IInv, Create PROVE IInv'
<1> DEFINE x == [bit_pos |-> 0, number |-> number,
                 zero |-> 1 - Bit(number, 0), one |-> Bit(number, 0)]
<1>1. pc = "add" /\ Here = NULL /\ Allocate(NodeSize) /\ Point(parent, New, With(New, x))
  BY DEF Create
<1>2. number \in Numbers /\ number \in Nat /\ 0 \in Positions /\ bit_pos \in Positions
  BY TreeAssumption, NumberType DEF IInv, Control, Positions, TreeAssumption
<1>3. Bit(number, 0) \in {0, 1}
  BY <1>2, Quotients
<1>4. /\ x \in Node /\ x.number = number /\ x.bit_pos <= bit_pos
      /\ x.zero # 0 \/ x.one # 0
  BY <1>2, <1>3 DEF Node, Positions
<1>5. Covers(node, Here, x)
  BY <1>1 DEF Covers
<1> HIDE DEF x
<1>6. Added /\ UNCHANGED <<limit, room, out, stack, input>>
  BY DEF Create
<1>7. pc' = "main"
  BY <1>6 DEF Added
<1>8. HeapInv' /\ Nodes' /\ Standing' /\ Filled'
  BY <1>1, <1>4, <1>5, <1>7, Grown
<1>9. Control' /\ Phases' /\ Adding' /\ Walking' /\ Freeing'
  BY <1>1, <1>6, AddedControl
<1> QED BY <1>8, <1>9 DEF IInv

\* The highest bit in which the number differs from the subtree.
LEMMA BranchAt ==
    ASSUME IInv, pc = "add", Here # NULL, Diff # {}
    PROVE  /\ BranchBit \in Positions /\ BranchBit \in Nat
           /\ node[Here].bit_pos < BranchBit /\ BranchBit <= bit_pos
           /\ Agree(node[Here].number, number, BranchBit)
           /\ Side(node[Here].number, BranchBit) # Side(number, BranchBit)
<1>1. /\ Here \in InUse /\ node[Here].bit_pos \in Nat /\ node[Here].number \in Numbers
      /\ number \in Numbers /\ bit_pos \in Positions /\ bit_pos \in Nat /\ Top \in Nat
      /\ bit_pos <= Top /\ Agree(node[Here].number, number, bit_pos)
  BY Looking, MemoryType DEF Positions
<1> DEFINE k == BranchBit
<1>2. Diff \in SUBSET Nat /\ \A i \in Diff : i <= bit_pos
  BY <1>1 DEF Diff
<1>3. k \in Diff /\ \A i \in Diff : i <= k
  BY <1>1, <1>2, MaxIn DEF BranchBit
<1> HIDE DEF k
<1>4. /\ k \in Nat /\ k \in Positions /\ node[Here].bit_pos < k /\ k <= bit_pos
      /\ Bit(number, k) # Bit(node[Here].number, k)
  BY <1>1, <1>3 DEF Diff, Positions
<1>5. Agree(node[Here].number, number, k)
  <2> SUFFICES ASSUME NEW j \in (k + 1)..Top,
                      Bit(node[Here].number, j) # Bit(number, j) PROVE FALSE
    BY DEF Agree
  <2>1. j <= bit_pos
    BY <1>1, <1>4 DEF Agree
  <2>2. j \in Diff
    BY <1>1, <1>4, <2>1 DEF Diff
  <2> QED BY <1>3, <1>4, <2>2
<1>6. Side(node[Here].number, k) # Side(number, k)
  <2>1. Bit(node[Here].number, k) \in {0, 1} /\ Bit(number, k) \in {0, 1}
    BY <1>1, <1>4, Quotients, NumberType
  <2> QED BY <1>4, <2>1 DEF Side
<1> QED BY <1>4, <1>5, <1>6 DEF k

LEMMA InjectKeeps == ASSUME IInv, Inject PROVE IInv'
<1> DEFINE k == BranchBit
           s == Side(number, k)
           x == [bit_pos |-> k, number |-> number,
                 zero |-> IF s = "zero" THEN NULL ELSE Here,
                 one  |-> IF s = "zero" THEN Here ELSE NULL]
<1>1. /\ pc = "add" /\ Here # NULL /\ Diff # {} /\ Allocate(NodeSize)
      /\ Point(parent, New, With(New, x))
      /\ parent' = <<New, s>> /\ bit_pos' = k - 1
      /\ UNCHANGED <<pc, number, limit, room, out, stack, input>>
  BY DEF Inject
<1>2. /\ k \in Positions /\ k \in Nat /\ node[Here].bit_pos < k /\ k <= bit_pos
      /\ Agree(node[Here].number, number, k) /\ Side(node[Here].number, k) # s
  BY <1>1, BranchAt
<1>3. /\ number \in Numbers /\ Here \in Nat \ {NULL} /\ node[Here].bit_pos \in Nat
      /\ s \in Sides /\ Side(node[Here].number, k) \in Sides /\ bit_pos \in 0..Top
  BY <1>1, Looking, MemoryType, SideType DEF Positions
<1>4. x \in Node
  BY <1>2, <1>3 DEF Node, NULL, Positions
<1>5. x.number = number /\ x.bit_pos = k /\ (x.zero # 0 \/ x.one # 0)
  BY <1>3 DEF NULL
<1>6. Covers(node, Here, x)
  <2>1. /\ x[s] = NULL /\ x[Side(node[Here].number, k)] = Here
    <3> HIDE DEF k, s
    <3> QED BY <1>2, <1>3 DEF Sides, x
  <2> QED BY <1>1, <1>2, <1>5, <2>1 DEF Covers
<1> HIDE DEF x, k
<1>7. /\ HeapInv' /\ Nodes' /\ Standing' /\ Filled'
      /\ node'[New] = x /\ New \in DOMAIN node'
  BY <1>1, <1>2, <1>4, <1>5, <1>6, Grown
<1>8. Control'
  <2>1. k - 1 \in 0..Top
    BY <1>2, <1>3, TreeAssumption DEF Positions, TreeAssumption
  <2> QED BY <1>1, <2>1 DEF IInv, Control
<1>9. Adding'
  <2>1. New \in Inner(node')
    BY <1>2, <1>3, <1>5, <1>7 DEF Inner
  <2>2. /\ parent' = <<New, Side(number', node'[New].bit_pos)>>
        /\ bit_pos' = node'[New].bit_pos - 1
        /\ Agree(number', node'[New].number, node'[New].bit_pos)
    BY <1>1, <1>5, <1>7, Agreement
  <2> QED BY <2>1, <2>2 DEF Adding
<1>10. Phases' /\ Walking' /\ Freeing'
  BY <1>1 DEF IInv, Phases, Walking, Freeing
<1> QED BY <1>7, <1>8, <1>9, <1>10 DEF IInv

\* Where no bit differs, the number agrees above the node's own bit.
LEMMA NoDifference ==
    ASSUME IInv, pc = "add", Here # NULL, Diff = {}
    PROVE  /\ Here \in InUse /\ At = node[Here].bit_pos /\ At \in Positions
           /\ number \in Numbers
           /\ Agree(number, node[Here].number, node[Here].bit_pos)
<1>1. /\ Here \in InUse /\ node[Here].bit_pos \in Nat /\ node[Here].bit_pos \in Positions
      /\ number \in Numbers /\ bit_pos \in Positions /\ bit_pos \in Nat /\ Top \in Nat
      /\ Agree(node[Here].number, number, bit_pos) /\ At = node[Here].bit_pos
  BY Looking, MemoryType DEF Positions
<1>2. ASSUME NEW j \in (node[Here].bit_pos + 1)..Top
      PROVE  Bit(number, j) = Bit(node[Here].number, j)
  <2>1. CASE j <= bit_pos
    BY <1>1, <2>1 DEF Diff
  <2>2. CASE ~(j <= bit_pos)
    BY <1>1, <2>2 DEF Agree
  <2> QED BY <2>1, <2>2
<1> QED BY <1>1, <1>2 DEF Agree

LEMMA DescendKeeps == ASSUME IInv, Descend PROVE IInv'
<1>1. /\ pc = "add" /\ Here # NULL /\ Diff = {} /\ At > 0
      /\ parent' = <<Here, Side(number, At)>> /\ bit_pos' = At - 1
      /\ UNCHANGED <<heap, tree, node, pc, number, limit, room, out, stack, input>>
  BY DEF Descend
<1>2. /\ Here \in InUse /\ At = node[Here].bit_pos /\ At \in Positions
      /\ Agree(number, node[Here].number, node[Here].bit_pos)
  BY <1>1, NoDifference
<1>3. /\ HeapInv' /\ Nodes' /\ Standing' /\ Walking' /\ Freeing' /\ Filled'
  BY <1>1, Still
<1>4. Control'
  <2>1. At - 1 \in 0..Top
    BY <1>1, <1>2, TreeAssumption DEF Positions, TreeAssumption
  <2> QED BY <1>1, <2>1 DEF IInv, Control
<1>5. Adding'
  <2>1. Here \in Inner(node)
    BY <1>1, <1>2 DEF Inner, IInv, Nodes
  <2> DEFINE p == Here
  <2>2. /\ p \in Inner(node') /\ parent' = <<p, Side(number', node'[p].bit_pos)>>
        /\ bit_pos' = node'[p].bit_pos - 1
        /\ Agree(number', node'[p].number, node'[p].bit_pos)
    BY <1>1, <1>2, <2>1
  <2> HIDE DEF p
  <2> QED BY <2>2 DEF Adding
<1>6. Phases'
  BY <1>1 DEF IInv, Phases
<1> QED BY <1>3, <1>4, <1>5, <1>6 DEF IInv

\* A leaf's count changes.
LEMMA Counted ==
    ASSUME IInv, Tree(node, tree, {}), NEW v \in InUse, node[v].bit_pos = 0,
           NEW s \in Sides, NEW k \in Nat,
           node' = [node EXCEPT ![v][s] = k], UNCHANGED <<heap, tree>>
    PROVE  /\ HeapInv' /\ InUse' = InUse /\ DOMAIN node = InUse /\ Memory(node)
           /\ Nodes' /\ Recounted(node, node') /\ Tree(node', tree', {})
           /\ node'[v] = [node[v] EXCEPT ![s] = k]
           /\ \A c \in InUse : c # v => node'[c] = node[c]
<1>1. HeapInv' /\ InUse' = InUse
  BY SameHeap DEF IInv
<1>2. DOMAIN node = InUse /\ Memory(node) /\ node[v] \in Node
  BY DEF IInv, Nodes, Tree
<1>3. /\ DOMAIN node' = InUse /\ node' = [c \in InUse |-> node'[c]]
      /\ node'[v] = [node[v] EXCEPT ![s] = k]
      /\ \A c \in InUse : c # v => node'[c] = node[c]
  BY <1>2
<1>4. /\ node'[v] \in Node /\ node'[v].bit_pos = node[v].bit_pos
      /\ node'[v].number = node[v].number
  BY <1>2, <1>3 DEF Node, Sides
<1>5. node' \in [InUse -> Node]
  BY <1>2, <1>3, <1>4, MemoryType
<1>6. Recounted(node, node')
  BY <1>2, <1>3, <1>4, <1>5 DEF Recounted, Keeps, Memory, Inner
<1>7. Tree(node', tree', {})
  BY <1>6, RecountTree
<1>8. Nodes'
  BY <1>1, <1>5 DEF IInv, Nodes
<1> QED BY <1>1, <1>2, <1>3, <1>6, <1>7, <1>8

LEMMA CountKeeps == ASSUME IInv, Count PROVE IInv'
<1> DEFINE s == Side(number, 0)
           k == node[Here][s] + 1
<1>1. /\ pc = "add" /\ Here # NULL /\ Diff = {} /\ At = 0
      /\ node' = [node EXCEPT ![Here][s] = k] /\ UNCHANGED <<heap, tree>>
      /\ Added /\ UNCHANGED <<limit, room, out, stack, input>>
  BY DEF Count
<1>2. Here \in InUse /\ node[Here].bit_pos = 0 /\ s \in Sides
  BY <1>1, NoDifference, SideType
<1>3. Tree(node, tree, {}) /\ DOMAIN node = InUse
  BY <1>1, Looking
<1>4. node[Here][s] \in Nat
  BY <1>2, <1>3, MemoryType DEF Tree
<1>5. k \in Nat /\ k > 0
  BY <1>4
<1> HIDE DEF s, k
<1>6. /\ HeapInv' /\ InUse' = InUse /\ Nodes' /\ Tree(node', tree', {})
      /\ node'[Here] = [node[Here] EXCEPT ![s] = k]
      /\ \A c \in InUse : c # Here => node'[c] = node[c]
  BY <1>1, <1>2, <1>3, <1>5, Counted
<1>7. Control' /\ Phases' /\ Adding' /\ Walking' /\ Freeing' /\ pc' = "main"
  BY <1>1, AddedControl
<1>8. Filled'
  <2> SUFFICES ASSUME NEW b \in InUse, Empty(b)' PROVE FALSE
    BY <1>6 DEF Filled
  <2>1. node'[b].zero = 0 /\ node'[b].one = 0
    BY DEF Empty
  <2>2. b # Here
    <3>1. node[Here] \in Node
      BY <1>2 DEF IInv, Nodes
    <3>2. node'[Here].zero = k \/ node'[Here].one = k
      BY <1>2, <1>6, <3>1 DEF Node, Sides
    <3> QED BY <1>5, <2>1, <3>2
  <2>3. Empty(b)
    BY <1>6, <2>1, <2>2 DEF Empty
  <2> QED BY <1>1, <2>3 DEF IInv, Filled
<1> QED BY <1>6, <1>7, <1>8 DEF IInv, Standing

-----------------------------------------------------------------------------
(* take_numbers                                                            *)

\* The visit of the root begins.
LEMMA FirstPath ==
    ASSUME NEW m, NEW r, Tree(m, r, {}), NEW t, DOMAIN t = 1..1,
           t[1].ptr = r, t[1].next = "zero"
    PROVE  Path(m, r, t) /\ Emptied(m, t)
<1>1. \A i \in DOMAIN t : i = 1 /\ i + 1 \notin DOMAIN t /\ DoneSides(t, i) = {}
  BY DEF DoneSides
<1>2. r \in DOMAIN m \cup {NULL}
  BY DEF Tree, Rooted
<1>3. Steps(m, r, t)
  BY <1>1, <1>2 DEF Steps, Sides
<1>4. Descending(m, t)
  BY <1>1 DEF Descending
<1> QED BY <1>1, <1>3, <1>4 DEF Path, Emptied

LEMMA StartTakeKeeps == ASSUME IInv, StartTake PROVE IInv'
<1>1. /\ pc = "take" /\ pc' = "visit" /\ room' = Min({limit, MaxTake}) /\ out' = <<>>
      /\ stack' = <<Call(Root)>>
      /\ UNCHANGED <<heap, tree, node, number, bit_pos, parent, limit, input>>
  BY DEF StartTake, walk
<1>2. limit \in Nat \ {0} /\ MaxTake \in Nat \ {0}
  BY <1>1, TreeAssumption DEF IInv, Control, Phases, TreeAssumption
<1>3. room' \in 0..MaxTake /\ room' > 0 /\ room' <= limit
  <2>1. \E x \in {limit, MaxTake} : \A y \in {limit, MaxTake} : x <= y
    BY <1>2
  <2>2. room' \in {limit, MaxTake} /\ \A y \in {limit, MaxTake} : room' <= y
    BY <1>1, <2>1 DEF Min
  <2> QED BY <1>2, <2>2
<1>4. HeapInv' /\ InUse' = InUse /\ Nodes' /\ Standing' /\ Tree(node, tree, {})
  BY <1>1, SameHeap DEF IInv, Nodes, Standing
<1>5. Control'
  <2>1. Call(Root) \in Frames
    BY DEF Call, Frames, Root, Sides, NULL
  <2> QED BY <1>1, <1>3, <2>1 DEF IInv, Control
<1>6. Phases' /\ Adding'
  BY <1>1, <1>2, <1>3 DEF Phases, Adding
<1>7. Walking'
  <2>1. /\ DOMAIN stack' = 1..1 /\ Len(stack') = 1 /\ stack' # <<>>
        /\ stack'[1].at = Root /\ stack'[1].next = "zero"
    BY <1>1 DEF Call
  <2>2. /\ DOMAIN Trail' = 1..1 /\ Trail'[1].ptr = tree /\ Trail'[1].next = "zero"
    BY <1>1, <2>1 DEF Trail, Link
  <2>3. Path(node', tree', Trail') /\ Emptied(node', Trail')
    BY <1>1, <1>4, <2>2, FirstPath
  <2> QED BY <2>1, <2>3 DEF Walking
<1>8. Freeing'
  BY <1>1 DEF Freeing
<1>9. Filled'
  <2> SUFFICES ASSUME NEW b \in InUse', Empty(b)' PROVE FALSE
    BY DEF Filled
  <2>1. b \in InUse /\ Empty(b)
    BY <1>1, <1>4 DEF Empty
  <2> QED BY <1>1, <2>1 DEF IInv, Filled
<1> QED BY <1>4, <1>5, <1>6, <1>7, <1>8, <1>9 DEF IInv

\* What is known while nodes are visited.
LEMMA OnTheWay ==
    ASSUME IInv, Visiting
    PROVE  /\ Tree(node, tree, {}) /\ Memory(node) /\ DOMAIN node = InUse
           /\ NULL \notin InUse /\ Path(node, tree, Trail)
           /\ Full \/ Emptied(node, Trail)
           /\ pc = "visit" /\ stack \in Seq(Frames) /\ stack # <<>>
           /\ Len(stack) \in Nat \ {0} /\ Top1 = stack[1] /\ DOMAIN stack = 1..Len(stack)
           /\ DOMAIN Trail = 1..Len(stack)
           /\ Trail[1].ptr = Visited /\ Trail[1].next = Top1.next
           /\ Visited \in InUse \cup {NULL}
           /\ Visited = Target(node, tree, Top1.at)
           /\ \A i \in 1..Len(stack) :
                 /\ Place(node, stack[i].at)
                 /\ Trail[i].ptr = Link(stack[i].at) /\ Trail[i].next = stack[i].next
                 /\ i = Len(stack) => stack[i].at = Root
                 /\ i # Len(stack) =>
                       /\ i + 1 \in 2..Len(stack)
                       /\ stack[i].at = <<Trail[i + 1].ptr, Before(Trail[i + 1].next)>>
                       /\ stack[i].at # Root
                 /\ i > 1 => Trail[i].ptr \in Inner(node) /\ Trail[i].ptr \in InUse
                             /\ Trail[1].ptr # Trail[i].ptr
<1>1. /\ pc = "visit" /\ Tree(node, tree, {}) /\ Memory(node) /\ DOMAIN node = InUse
      /\ Path(node, tree, Trail) /\ (Full \/ Emptied(node, Trail))
      /\ stack \in Seq(Frames) /\ stack # <<>>
  BY DEF IInv, Visiting, Standing, Walking, Control, Nodes, Tree
<1>2. Len(stack) \in Nat \ {0} /\ Top1 = stack[1] /\ DOMAIN stack = 1..Len(stack)
  BY <1>1 DEF Top1
<1>3. /\ DOMAIN Trail = 1..Len(stack)
      /\ \A i \in 1..Len(stack) : Trail[i].ptr = Link(stack[i].at)
                                  /\ Trail[i].next = stack[i].next
  BY <1>1, <1>2 DEF Trail
<1>4. NULL \notin InUse
  BY <1>1, MemoryType
<1>5. Trail[1].ptr = Visited /\ Trail[1].next = Top1.next /\ Visited \in InUse \cup {NULL}
  BY <1>1, <1>2, <1>3 DEF Visited, Path, Steps
<1>6. Visited = Target(node, tree, Top1.at)
  BY DEF Visited, Link, Target
<1>7. ASSUME NEW i \in 1..Len(stack), i > 1
      PROVE  /\ Trail[i].ptr \in Inner(node) /\ Trail[i].ptr \in InUse
             /\ Trail[1].ptr # Trail[i].ptr
  <2>1. Trail[i].ptr \in Inner(node) /\ Trail[i].ptr \in InUse
    BY <1>1, <1>3, <1>7 DEF Path, Steps, Inner
  <2>2. Trail[1].ptr \in InUse => Trail[1].ptr # Trail[i].ptr
    BY <1>1, <1>2, <1>3, <1>7 DEF Path, Descending
  <2> QED BY <2>1, <2>2
<1>8. ASSUME NEW i \in 1..Len(stack)
      PROVE  /\ Place(node, stack[i].at)
             /\ i = Len(stack) => stack[i].at = Root
             /\ i # Len(stack) =>
                   /\ i + 1 \in 2..Len(stack)
                   /\ stack[i].at = <<Trail[i + 1].ptr, Before(Trail[i + 1].next)>>
                   /\ stack[i].at # Root
  <2>1. stack[i].at = IF i = Len(stack) THEN Root
                      ELSE <<Trail[i + 1].ptr, Before(Trail[i + 1].next)>>
    <3>1. Walking
      BY DEF IInv
    <3> QED BY <1>1, <1>2, <3>1 DEF Walking
  <2>2. CASE i = Len(stack)
    BY <2>1, <2>2 DEF Place
  <2>3. CASE i # Len(stack)
    <3>1. i + 1 \in 2..Len(stack) /\ i + 1 \in 1..Len(stack) /\ i + 1 > 1
      <4>1. \A n \in Nat \ {0} : \A j \in 1..n :
               j # n => j + 1 \in 2..n /\ j + 1 \in 1..n /\ j + 1 > 1
        OBVIOUS
      <4> QED BY <1>2, <2>3, <4>1
    <3>2. Trail[i + 1].ptr \in Inner(node) /\ Trail[i + 1].ptr # NULL
      BY <1>4, <1>7, <3>1
    <3>3. Before(Trail[i + 1].next) \in Sides
      BY DEF Before, Sides
    <3> QED BY <2>1, <2>3, <3>1, <3>2, <3>3 DEF Place, Root
  <2> QED BY <2>2, <2>3
<1> QED BY <1>1, <1>2, <1>3, <1>4, <1>5, <1>6, <1>7, <1>8, Zenon

LEMMA TakeFromKeeps == ASSUME IInv, NEW s \in Sides, TakeFrom(s) PROVE IInv'
<1> DEFINE v == Visited
           k == node[v][s] - 1
<1>1. /\ Visiting /\ v # NULL /\ node[v].bit_pos = 0 /\ ~Full /\ node[v][s] > 0
      /\ node' = [node EXCEPT ![v][s] = k] /\ out' = Append(out, Value(s))
      /\ UNCHANGED <<heap, tree, pc, number, bit_pos, parent, limit, room, stack, input>>
  BY DEF TakeFrom, AtLeaf, Taken, walk
<1>2. /\ Tree(node, tree, {}) /\ v \in InUse /\ pc = "visit" /\ stack # <<>>
      /\ DOMAIN stack = 1..Len(stack) /\ DOMAIN Trail = 1..Len(stack) /\ Len(stack) \in Nat
      /\ Path(node, tree, Trail) /\ Emptied(node, Trail) /\ v = Trail[1].ptr /\ 1 \in DOMAIN stack
      /\ \A i \in 1..Len(stack) : Place(node, stack[i].at)
  BY <1>1, OnTheWay
<1>3. node[v] \in Node /\ k \in Nat
  <2>1. node[v] \in Node
    BY <1>2 DEF IInv, Nodes
  <2>2. node[v][s] \in Nat
    BY <2>1 DEF Node, Sides
  <2> QED BY <1>1, <2>1, <2>2
<1> HIDE DEF k
<1>4. /\ HeapInv' /\ InUse' = InUse /\ DOMAIN node = InUse /\ Memory(node) /\ Nodes'
      /\ Recounted(node, node') /\ Tree(node', tree', {})
      /\ \A c \in InUse : c # v => node'[c] = node[c]
  BY <1>1, <1>2, <1>3, Counted
<1>5. Value(s) \in Numbers
  <2> DEFINE n == node[v].number
             d == 2^(Top + 1)
             h == 2^(0 + 1)
  <2>1. n \in Numbers /\ n \in Nat /\ 0 \in Positions /\ Top \in Positions
    <3>1. n \in Numbers
      BY <1>3 DEF Node
    <3>2. n \in Nat
      BY <3>1, NumberType
    <3> QED BY <3>1, <3>2, TreeAssumption DEF Positions, TreeAssumption
  <2>2. /\ n = 2 * (n \div 2) + Bit(n, 0) /\ Bit(n, 0) \in {0, 1} /\ n \div 2 \in Nat
    <3>1. 2^0 = 1 /\ 2^(0 + 1) = 2
      BY PowersAssumption, TreeAssumption DEF TreeAssumption
    <3>2. /\ n \div 2^0 = 2 * (n \div 2^(0 + 1)) + Bit(n, 0)
          /\ n \div 2^(0 + 1) \in Nat /\ Bit(n, 0) \in {0, 1}
      BY <2>1, Quotients
    <3>3. n \div 1 = n
      BY <2>1
    <3> QED BY <3>1, <3>2, <3>3
  <2>3. d = 2 * 2^Top /\ 2^Top \in Nat \ {0}
    BY PowersAssumption, TreeAssumption DEF TreeAssumption
  <2> DEFINE e == 2^Top
             q == n \div 2
  <2>4. n <= d - 1 /\ d = 2 * e /\ e \in Nat /\ d \in Nat /\ q \in Nat
    BY <2>1, <2>2, <2>3 DEF Numbers
  <2>5. Value(s) = 2 * q + (IF s = "one" THEN 1 ELSE 0)
    BY <2>1, <2>2 DEF Value
  <2>6. 2 * q <= n
    BY <2>1, <2>2
  <2> HIDE DEF d, e, q
  <2>7. Value(s) \in 0..(d - 1)
    BY <2>1, <2>4, <2>5, <2>6
  <2> QED BY <2>7 DEF Numbers, d
<1>6. /\ out \in Seq(Numbers) /\ Len(out) \in Nat /\ room \in Nat /\ Len(out) < room
      /\ out' \in Seq(Numbers) /\ Len(out') = Len(out) + 1
  BY <1>1, <1>5 DEF IInv, Control, Full
<1>7. Control'
  BY <1>1, <1>6 DEF IInv, Control
<1>8. Phases' /\ Adding' /\ Freeing'
  BY <1>1, <1>2 DEF IInv, Phases, Adding, Freeing
<1>9. Trail' = Trail
  <2>1. ASSUME NEW i \in DOMAIN stack PROVE Link(stack[i].at)' = Link(stack[i].at)
    <3>1. CASE stack[i].at = Root
      BY <1>1, <3>1 DEF Link
    <3>2. CASE stack[i].at # Root
      <4>1. stack[i].at[1] \in Inner(node)
        BY <1>2, <1>4, <3>2, PlaceType
      <4>2. node'[stack[i].at[1]] = node[stack[i].at[1]]
        BY <1>4, <4>1 DEF Recounted
      <4> QED BY <1>1, <3>2, <4>2 DEF Link
    <3> QED BY <3>1, <3>2
  <2> QED BY <1>1, <1>2, <2>1 DEF Trail
<1>10. Walking'
  <2>1. Path(node', tree, Trail) /\ Emptied(node', Trail)
    BY <1>1, <1>2, <1>4, RecountPath
  <2>2. tree' = tree /\ Len(stack') = Len(stack)
    BY <1>1
  <2> QED BY <1>1, <1>2, <1>9, <2>1, <2>2 DEF IInv, Walking
<1>11. Filled'
  <2> SUFFICES ASSUME NEW b \in InUse, Empty(b)' PROVE \E i \in DOMAIN stack : b = Trail[i].ptr
    BY <1>1, <1>2, <1>4, <1>9 DEF Filled
  <2>1. CASE b = v
    BY <1>2, <2>1
  <2>2. CASE b # v
    BY <1>2, <1>4, <2>2 DEF Empty, IInv, Filled
  <2> QED BY <2>1, <2>2
<1> QED BY <1>4, <1>7, <1>8, <1>10, <1>11 DEF IInv, Standing

\* A visit ends and the way back to the root is as it was.
LEMMA WayBack ==
    ASSUME IInv, Visiting, Return, UNCHANGED <<pc, room, out>>,
           Keeps(node, node'), InUse' = DOMAIN node',
           Len(stack) > 1 => tree' = tree,
           \A i \in 2..Len(stack) : Trail[i].ptr \in DOMAIN node',
           \A i \in 3..Len(stack) : node'[Trail[i].ptr][Before(Trail[i].next)]
                                       = node[Trail[i].ptr][Before(Trail[i].next)],
           Full \/ Visited = NULL \/ \A w \in DOMAIN node' : ~Below(node, w, Visited),
           Full \/ Len(stack) > 1 \/ DOMAIN node' = {}
    PROVE  /\ Walking' /\ DOMAIN stack' = 1..(Len(stack) - 1)
           /\ \A i \in 1..(Len(stack) - 1) : Trail'[i] = Trail[i + 1]
<1> DEFINE n == Len(stack)
<1>1. /\ Tree(node, tree, {}) /\ Path(node, tree, Trail)
      /\ Full \/ Emptied(node, Trail)
      /\ pc = "visit" /\ stack \in Seq(Frames) /\ stack # <<>>
      /\ n \in Nat \ {0} /\ DOMAIN stack = 1..n /\ DOMAIN Trail = 1..n
      /\ Trail[1].ptr = Visited
  BY OnTheWay
<1>2. \A i \in 1..n :
         /\ Trail[i].ptr = Link(stack[i].at) /\ Trail[i].next = stack[i].next
         /\ i = n => stack[i].at = Root
         /\ i # n => /\ i + 1 \in 2..n
                     /\ stack[i].at = <<Trail[i + 1].ptr, Before(Trail[i + 1].next)>>
                     /\ stack[i].at # Root
  BY OnTheWay
<1>3. /\ DOMAIN stack' = 1..(n - 1) /\ Len(stack') = n - 1
      /\ \A i \in 1..(n - 1) : stack'[i] = stack[i + 1]
  BY <1>1, Returning
<1>4. ASSUME NEW i \in 1..(n - 1)
      PROVE  /\ i + 1 \in 1..n
             /\ Trail'[i].ptr = Trail[i + 1].ptr /\ Trail'[i].next = Trail[i + 1].next
             /\ Trail'[i] = Trail[i + 1]
  <2> DEFINE k == i + 1
  <2>1. k \in 1..n /\ stack'[i] = stack[k] /\ k > 1 /\ n > 1
    BY <1>1, <1>3
  <2>2. /\ Trail'[i] = [ptr |-> Target(node', tree', stack[k].at), next |-> stack[k].next]
        /\ Trail[k] = [ptr |-> Target(node, tree, stack[k].at), next |-> stack[k].next]
    <3>1. Trail'[i] = [ptr |-> IF stack'[i].at = Root THEN tree'
                               ELSE node'[stack'[i].at[1]][stack'[i].at[2]],
                       next |-> stack'[i].next]
      BY <1>1, <1>3 DEF Trail, Link
    <3>2. Trail[k] = [ptr |-> IF stack[k].at = Root THEN tree
                              ELSE node[stack[k].at[1]][stack[k].at[2]],
                      next |-> stack[k].next]
      BY <1>1, <2>1 DEF Trail, Link
    <3> HIDE DEF k
    <3> QED BY <2>1, <3>1, <3>2, Zenon DEF Target
  <2>3. Target(node', tree', stack[k].at) = Target(node, tree, stack[k].at)
    <3>1. CASE k = n
      <4>1. stack[k].at = Root /\ tree' = tree
        BY <1>2, <2>1, <3>1
      <4> QED BY <4>1 DEF Target
    <3>2. CASE k # n
      <4> DEFINE l == k + 1
      <4>1. /\ l \in 3..n /\ stack[k].at # Root
            /\ stack[k].at = <<Trail[l].ptr, Before(Trail[l].next)>>
        BY <1>2, <2>1, <3>2
      <4> DEFINE a == stack[k].at
      <4> HIDE DEF l
      <4>2. a # Root /\ a[1] = Trail[l].ptr /\ a[2] = Before(Trail[l].next)
        BY <4>1
      <4>3. node'[a[1]][a[2]] = node[a[1]][a[2]]
        BY <4>1, <4>2
      <4> QED BY <4>2, <4>3 DEF Target
    <3> QED BY <3>1, <3>2
  <2> QED BY <2>1, <2>2, <2>3
<1>5. DOMAIN Trail' = 1..(n - 1)
  BY <1>3 DEF Trail
<1>6. /\ Path(node', tree', Trail')
      /\ Full \/ Emptied(node', Trail')
  <2> DEFINE t == Trail
             t2 == Trail'
             m2 == node'
             r2 == tree'
  <2>1. /\ n \in Nat \ {0} /\ DOMAIN t = 1..n /\ DOMAIN t2 = 1..(n - 1)
        /\ Tree(node, tree, {}) /\ Path(node, tree, t) /\ Keeps(node, m2)
    BY <1>1, <1>5
  <2>2. \A i \in 1..(n - 1) : t2[i] = t[i + 1]
    BY <1>4
  <2>3. /\ n > 1 => r2 = tree
        /\ \A i \in 2..n : t[i].ptr \in DOMAIN m2
        /\ \A i \in 3..n :
              m2[t[i].ptr][Before(t[i].next)] = node[t[i].ptr][Before(t[i].next)]
    OBVIOUS
  <2>4. Full \/ t[1].ptr = NULL \/ \A w \in DOMAIN m2 : ~Below(node, w, t[1].ptr)
    BY <1>1
  <2>5. Full \/ Emptied(node, t)
    BY <1>1
  <2> HIDE DEF t, t2, m2, r2, n
  <2> USE DEF n
  <2>6. Popped(node, tree, t, n, m2, r2, t2)
    BY <2>1, <2>2, <2>3 DEF Popped
  <2> HIDE DEF n
  <2>7. /\ Path(m2, r2, t2)
        /\ Emptied(node, t)
           /\ (t[1].ptr = NULL \/ \A w \in DOMAIN m2 : ~Below(node, w, t[1].ptr))
             => Emptied(m2, t2)
    BY <2>1, <2>6, PopPath
  <2>8. Path(m2, r2, t2) /\ (Full \/ Emptied(m2, t2))
    BY <2>4, <2>5, <2>7
  <2> QED BY <2>8 DEF m2, t2, r2
<1>7. ASSUME NEW i \in 1..(n - 1)
      PROVE  stack'[i].at = IF i = n - 1 THEN Root
                            ELSE <<Trail'[i + 1].ptr, Before(Trail'[i + 1].next)>>
  <2> DEFINE k == i + 1
  <2>1. k \in 1..n /\ stack'[i] = stack[k] /\ (i = n - 1 <=> k = n)
    BY <1>1, <1>3
  <2>2. CASE k = n
    BY <1>2, <2>1, <2>2
  <2>3. CASE k # n
    <3>1. k \in 1..(n - 1) /\ stack[k].at = <<Trail[k + 1].ptr, Before(Trail[k + 1].next)>>
      BY <1>2, <2>1, <2>3
    <3>2. Trail'[k].ptr = Trail[k + 1].ptr /\ Trail'[k].next = Trail[k + 1].next
      BY <1>4, <3>1
    <3> QED BY <2>1, <2>3, <3>1, <3>2
  <2> QED BY <2>2, <2>3
<1>8. Full' <=> Full
  BY DEF Full
<1>9. ~Full' /\ stack' = <<>> => InUse' = {}
  <2>1. ASSUME stack' = <<>> PROVE n = 1
    <3>1. Len(stack') = 0
      BY <2>1
    <3>2. n - 1 = 0 /\ n \in Nat
      BY <1>1, <1>3, <3>1, Zenon
    <3> HIDE DEF n
    <3> QED BY <3>2
  <2>2. ~(1 > 1)
    OBVIOUS
  <2> QED BY <1>8, <2>1, <2>2, Zenon
<1>10. Walking'
  <2>1. \A i \in DOMAIN stack' :
          stack'[i].at = IF i = Len(stack') THEN Root
                         ELSE <<Trail'[i + 1].ptr, Before(Trail'[i + 1].next)>>
    BY <1>3, <1>7
  <2>2. Full' \/ Emptied(node', Trail')
    BY <1>6, <1>8
  <2> QED BY <1>6, <1>9, <2>1, <2>2 DEF Walking
<1>11. \A i \in 1..(n - 1) : Trail'[i] = Trail[i + 1]
  BY <1>4
<1> QED BY <1>3, <1>10, <1>11

\* What a step that ends a visit leaves of the rest of the invariant.
LEMMA ReturnControl ==
    ASSUME IInv, Return, stack # <<>>, UNCHANGED <<pc, walk, limit, room, out, input>>,
           pc \in {"visit", "release"}
    PROVE  Control' /\ Phases' /\ Adding'
<1>1. stack' \in Seq(Frames)
  BY Returning DEF IInv, Control
<1>2. Control'
  BY <1>1 DEF IInv, Control, walk
<1> QED BY <1>2 DEF IInv, Phases, Adding, walk

LEMMA VisitNothingKeeps == ASSUME IInv, VisitNothing PROVE IInv'
<1> DEFINE n == Len(stack)
<1>1. /\ Visiting /\ Visited = NULL /\ Return /\ pc = "visit" /\ pc' = pc
      /\ UNCHANGED <<heap, tree, node>> /\ UNCHANGED <<pc, walk, limit, room, out, input>>
  BY DEF VisitNothing, Visiting
<1>2. /\ Tree(node, tree, {}) /\ Memory(node) /\ DOMAIN node = InUse /\ NULL \notin InUse
      /\ stack # <<>> /\ n \in Nat \ {0} /\ DOMAIN stack = 1..n
      /\ Trail[1].ptr = Visited /\ Visited = Target(node, tree, Top1.at)
      /\ Top1 = stack[1]
      /\ \A i \in 1..n : /\ i = n => stack[i].at = Root
                         /\ i > 1 => Trail[i].ptr \in InUse
  BY <1>1, OnTheWay
<1>3. HeapInv' /\ InUse' = InUse /\ Nodes' /\ Standing'
  BY <1>1, SameHeap DEF IInv, Nodes, Standing
<1>4. Control' /\ Phases' /\ Adding'
  BY <1>1, <1>2, ReturnControl
<1>5. n > 1 \/ InUse = {}
  <2>1. \A k \in Nat \ {0} : k > 1 \/ (k = 1 /\ 1 \in 1..k)
    OBVIOUS
  <2>2. n > 1 \/ (n = 1 /\ 1 \in 1..n)
    BY <1>2, <2>1
  <2>3. ASSUME n = 1, 1 \in 1..n PROVE InUse = {}
    <3>1. stack[1].at = Root
      BY <1>2, <2>3
    <3>2. tree = NULL
      BY <1>1, <1>2, <3>1 DEF Target
    <3> QED BY <1>2, <3>2 DEF Tree, Rooted
  <2> QED BY <2>2, <2>3
<1>6. Keeps(node, node')
  BY <1>1, <1>2 DEF Keeps
<1>7. /\ Walking' /\ DOMAIN stack' = 1..(n - 1)
      /\ \A i \in 1..(n - 1) : Trail'[i] = Trail[i + 1]
  <2>1. InUse' = DOMAIN node' /\ tree' = tree /\ UNCHANGED <<pc, room, out>>
    BY <1>1, <1>2, <1>3
  <2>2. \A i \in 2..n : Trail[i].ptr \in DOMAIN node'
    BY <1>1, <1>2
  <2>3. \A i \in 3..n : node'[Trail[i].ptr][Before(Trail[i].next)]
                           = node[Trail[i].ptr][Before(Trail[i].next)]
    BY <1>1
  <2>4. n > 1 \/ DOMAIN node' = {}
    BY <1>1, <1>2, <1>5
  <2> QED BY <1>1, <1>6, <2>1, <2>2, <2>3, <2>4, WayBack
<1>8. Freeing'
  BY <1>1 DEF Freeing
<1>9. Filled'
  <2> SUFFICES ASSUME NEW b \in InUse, Empty(b) PROVE \E i \in DOMAIN stack' : b = Trail'[i].ptr
    BY <1>1, <1>3 DEF Filled, Empty
  <2>1. PICK i \in 1..n : b = Trail[i].ptr
    BY <1>1, <1>2 DEF IInv, Filled
  <2>2. i # 1
    BY <1>1, <1>2, <2>1
  <2>3. i - 1 \in 1..(n - 1) /\ (i - 1) + 1 = i
    <3> HIDE DEF n
    <3> QED BY <1>2, <2>2
  <2> QED BY <1>7, <2>1, <2>3
<1> QED BY <1>3, <1>4, <1>7, <1>8, <1>9 DEF IInv

LEMMA VisitBranchKeeps == ASSUME IInv, VisitBranch PROVE IInv'
<1> DEFINE n == Len(stack)
           v == Visited
           s == Top1.next
<1>1. /\ Visiting /\ v # NULL /\ node[v].bit_pos # 0 /\ s # "leave" /\ Visit(<<v, s>>)
      /\ UNCHANGED <<heap, tree, node, pc, number, bit_pos, parent, limit, room, out, input>>
      /\ pc = "visit"
  BY DEF VisitBranch, AtBranch, Visiting, walk
<1>2. /\ Tree(node, tree, {}) /\ Memory(node) /\ DOMAIN node = InUse
      /\ Path(node, tree, Trail) /\ stack \in Seq(Frames) /\ stack # <<>>
      /\ n \in Nat \ {0} /\ DOMAIN stack = 1..n /\ DOMAIN Trail = 1..n
      /\ Trail[1].ptr = v /\ Trail[1].next = s /\ v \in InUse /\ Top1 = stack[1]
      /\ v # NULL /\ NULL \notin InUse
  BY <1>1, OnTheWay
<1>3. Full \/ Emptied(node, Trail)
  BY <1>1, OnTheWay
<1>4. \A i \in 1..n :
         /\ Trail[i].ptr = Link(stack[i].at) /\ Trail[i].next = stack[i].next
         /\ i = n => stack[i].at = Root
         /\ i # n => stack[i].at = <<Trail[i + 1].ptr, Before(Trail[i + 1].next)>>
  BY <1>1, OnTheWay
<1>5. s \in Sides /\ v \in Inner(node)
  <2>1. s \in Sides
    BY <1>1, <1>2 DEF Path, Steps
  <2>2. node[v].bit_pos \in Nat
    BY <1>2, MemoryType
  <2> QED BY <1>1, <1>2, <2>1, <2>2 DEF Inner
<1>6. HeapInv' /\ InUse' = InUse /\ Nodes' /\ Standing'
  BY <1>1, SameHeap DEF IInv, Nodes, Standing
<1>7. /\ stack' \in Seq(Frames) /\ Len(stack') = n + 1 /\ DOMAIN stack' = 1..(n + 1)
      /\ stack'[1] = Call(<<v, s>>)
      /\ stack'[2].at = stack[1].at /\ stack'[2].next = After(s)
      /\ \A i \in 2..n : stack'[i + 1] = stack[i]
  <2>1. <<v, s>> \in Nat \X (Sides \cup {"root"})
    BY <1>2, <1>5, MemoryType
  <2> QED BY <1>1, <1>2, <2>1, Visiting2
<1>8. Control' /\ Phases' /\ Adding' /\ Freeing'
  BY <1>1, <1>7 DEF IInv, Control, Phases, Adding, Freeing
<1>9. /\ DOMAIN Trail' = 1..(n + 1)
      /\ Trail'[1].ptr = node[v][s] /\ Trail'[1].next = "zero"
      /\ Trail'[2].ptr = v /\ Trail'[2].next = After(s)
      /\ \A i \in 2..n : Trail'[i + 1] = Trail[i]
  <2>1. /\ DOMAIN Trail' = 1..(n + 1)
        /\ \A i \in 1..(n + 1) : Trail'[i] = [ptr |-> Target(node, tree, stack'[i].at),
                                             next |-> stack'[i].next]
    BY <1>1, <1>7 DEF Trail, Link, Target
  <2>2. \A i \in 1..n : Trail[i] = [ptr |-> Target(node, tree, stack[i].at),
                                    next |-> stack[i].next]
    BY <1>1, <1>2 DEF Trail, Link, Target
  <2>3. Trail'[1].ptr = node[v][s] /\ Trail'[1].next = "zero"
    <3>1. Trail'[1] = [ptr |-> Target(node, tree, <<v, s>>), next |-> "zero"]
      <4>1. stack'[1].at = <<v, s>> /\ stack'[1].next = "zero"
        BY <1>7 DEF Call
      <4>2. 1 \in 1..(n + 1)
        BY <1>2
      <4> HIDE DEF v, s, n
      <4> QED BY <2>1, <4>1, <4>2
    <3>2. <<v, s>> # Root
      BY <1>2 DEF Root
    <3> QED BY <3>1, <3>2 DEF Target
  <2>4. Trail'[2].ptr = v /\ Trail'[2].next = After(s)
    <3>1. Trail'[2] = [ptr |-> Target(node, tree, stack[1].at), next |-> After(s)]
      BY <1>2, <1>7, <2>1
    <3>2. Trail[1].ptr = Target(node, tree, stack[1].at)
      BY <1>2, <2>2
    <3> QED BY <1>2, <3>1, <3>2
  <2>5. ASSUME NEW i \in 2..n PROVE Trail'[i + 1] = Trail[i]
    <3>1. i + 1 \in 1..(n + 1) /\ i \in 1..n /\ stack'[i + 1] = stack[i]
      BY <1>2, <1>7
    <3> QED BY <2>1, <2>2, <3>1
  <2> QED BY <2>1, <2>3, <2>4, <2>5
<1>10. Path(node', tree', Trail') /\ (Full' \/ Emptied(node', Trail'))
  <2> DEFINE t2 == Trail'
             t == Trail
  <2>1. t[1].ptr = v /\ t[1].next = s
    BY <1>2
  <2>2. Pushed(node, tree, t, n, t2)
    <3> HIDE DEF t, t2, n, v, s
    <3> QED BY <1>2, <1>5, <1>9, <2>1 DEF Pushed, t, t2
  <2> HIDE DEF t, t2, n, v, s
  <2>3. Path(node, tree, t2) /\ (Emptied(node, t) => Emptied(node, t2))
    <3> DEFINE G == {}
    <3>1. <<t[1].ptr, t[1].next>> \notin G /\ Tree(node, tree, G)
      BY <1>2
    <3> HIDE DEF G
    <3> QED BY <2>2, <3>1, PushPath
  <2>4. (Full' <=> Full) /\ node' = node /\ tree' = tree
    BY <1>1 DEF Full
  <2>5. Full' \/ Emptied(node, t2)
    BY <1>3, <2>3, <2>4 DEF t
  <2> QED BY <2>3, <2>4, <2>5 DEF t2
<1>11. ASSUME NEW i \in 1..(n + 1)
       PROVE  stack'[i].at = IF i = n + 1 THEN Root
                             ELSE <<Trail'[i + 1].ptr, Before(Trail'[i + 1].next)>>
  <2>1. CASE i = 1
    <3>1. Before(After(s)) = s
      BY <1>5 DEF Before, After, Sides
    <3>2. stack'[1].at = <<v, s>> /\ 1 # n + 1
      BY <1>2, <1>7 DEF Call
    <3> QED BY <1>9, <2>1, <3>1, <3>2
  <2>2. CASE i = 2
    <3>1. CASE n = 1
      BY <1>2, <1>4, <1>7, <2>2, <3>1
    <3>2. CASE n # 1
      <4>1. 2 \in 2..n /\ 1 \in 1..n /\ 2 # n + 1
        BY <1>2, <3>2
      <4>2. Trail'[2 + 1] = Trail[2] /\ stack[1].at = <<Trail[1 + 1].ptr, Before(Trail[1 + 1].next)>>
        BY <1>4, <1>9, <3>2, <4>1
      <4> QED BY <1>7, <2>2, <4>1, <4>2
    <3> QED BY <3>1, <3>2
  <2>3. CASE i > 2
    <3> DEFINE k == i - 1
    <3>1. /\ k \in 2..n /\ k \in 1..n /\ i = k + 1 /\ (i = n + 1 <=> k = n)
          /\ (k # n => k + 1 \in 2..n)
      BY <1>2, <2>3
    <3>2. stack'[i] = stack[k]
      BY <1>7, <3>1
    <3>3. k # n => Trail'[i + 1] = Trail[k + 1]
      BY <1>9, <3>1
    <3> QED BY <1>4, <3>1, <3>2, <3>3
  <2> QED BY <2>1, <2>2, <2>3
<1>12. Walking'
  <2>1. stack' # <<>>
    <3>1. n + 1 # 0
      BY <1>2
    <3> QED BY <1>7, <3>1
  <2> QED BY <1>7, <1>10, <1>11, <2>1 DEF Walking
<1>13. Filled'
  <2> SUFFICES ASSUME NEW b \in InUse, Empty(b) PROVE \E i \in DOMAIN stack' : b = Trail'[i].ptr
    BY <1>1, <1>6 DEF Filled, Empty
  <2>1. PICK i \in 1..n : b = Trail[i].ptr
    BY <1>1, <1>2 DEF IInv, Filled
  <2>2. CASE i = 1
    <3>1. 2 \in DOMAIN stack'
      BY <1>2, <1>7
    <3> QED BY <1>2, <1>9, <2>1, <2>2, <3>1
  <2>3. CASE i # 1
    <3>1. i \in 2..n /\ i + 1 \in 1..(n + 1)
      BY <1>2, <2>3
    <3> QED BY <1>7, <1>9, <2>1, <3>1
  <2> QED BY <2>2, <2>3
<1> QED BY <1>6, <1>8, <1>12, <1>13 DEF IInv

\* Nobody is below an empty leaf, or a branch without branches.
LEMMA EmptyAlone ==
    ASSUME NEW m, NEW r, NEW G, Tree(m, r, G), NEW v \in DOMAIN m,
           m[v].bit_pos = 0 \/ (m[v].zero = 0 /\ m[v].one = 0)
    PROVE  Alone(m, v)
<1>1. /\ Memory(m) /\ Complete(m) /\ Distinct(m) /\ NULL \notin DOMAIN m
      /\ \A b \in DOMAIN m : m[b].bit_pos \in Nat
  BY MemoryType DEF Tree
<1> SUFFICES ASSUME NEW w \in DOMAIN m, Below(m, w, v), w # v PROVE FALSE
  BY DEF Alone
<1>2. CASE m[v].bit_pos = 0
  <2>1. m[w].bit_pos < m[v].bit_pos
    BY <1>1, StrictlyBelow
  <2> QED BY <1>1, <1>2, <2>1
<1>3. CASE m[v].bit_pos # 0 /\ m[v].zero = 0 /\ m[v].one = 0
  <2>1. v \in Inner(m)
    BY <1>1, <1>3 DEF Inner
  <2>2. m[v][SideOf(m, w, v)] \in DOMAIN m
    BY <1>1, <2>1 DEF Complete
  <2>3. SideOf(m, w, v) \in {"zero", "one"}
    BY SideType DEF SideOf, Sides
  <2> QED BY <1>1, <1>3, <2>2, <2>3 DEF NULL
<1> QED BY <1>2, <1>3

\* A branch both sides of which are clear is alone, and without branches.
LEMMA ClearAlone ==
    ASSUME NEW m, NEW r, NEW G, Tree(m, r, G), NEW v \in Inner(m),
           Clear(m, v, "zero"), Clear(m, v, "one")
    PROVE  /\ Alone(m, v)
           /\ \A s \in Sides : <<v, s>> \notin G => m[v][s] = NULL
<1>1. Memory(m) /\ Linked(m, G) /\ v \in DOMAIN m
  BY DEF Tree, Inner
<1>2. ASSUME NEW w \in DOMAIN m, Below(m, w, v), w # v PROVE FALSE
  <2>1. SideOf(m, w, v) \in {"zero", "one"}
    BY SideType DEF SideOf, Sides
  <2> QED BY <1>2, <2>1 DEF Clear
<1>3. ASSUME NEW s \in Sides, <<v, s>> \notin G, m[v][s] # NULL PROVE FALSE
  <2>1. Hangs(m, m[v][s], v, s)
    BY <1>1, <1>3 DEF Linked
  <2>2. /\ m[v][s] \in DOMAIN m /\ Below(m, m[v][s], v)
        /\ m[m[v][s]].bit_pos < m[v].bit_pos /\ m[v].bit_pos \in Nat
    BY <1>1, <2>1, MemoryType DEF Hangs
  <2>3. m[v][s] # v
    BY <2>2
  <2> QED BY <1>2, <2>2, <2>3
<1> QED BY <1>2, <1>3 DEF Alone

\* A node that is left is full, or empty.
LEMMA LeaveCases ==
    ASSUME IInv, Leave
    PROVE  Full \/ Empty(Visited)
<1> DEFINE v == Visited
<1> SUFFICES ASSUME ~Full PROVE Empty(v)
  OBVIOUS
<1>1. CASE AtLeaf /\ (Full \/ Empty(v))
  BY <1>1
<1>2. CASE AtBranch /\ Top1.next = "leave"
  <2>1. Visiting /\ v # NULL /\ node[v].bit_pos # 0
    BY <1>2 DEF AtBranch
  <2>2. /\ Tree(node, tree, {}) /\ Memory(node) /\ v \in InUse /\ DOMAIN node = InUse
        /\ Emptied(node, Trail) /\ Trail[1].ptr = v /\ Trail[1].next = "leave"
        /\ DOMAIN Trail = 1..Len(stack) /\ Len(stack) \in Nat \ {0}
    BY <1>2, <2>1, OnTheWay
  <2>3. v \in Inner(node)
    <3>1. node[v].bit_pos \in Nat
      BY <2>2, MemoryType
    <3> QED BY <2>1, <2>2, <3>1 DEF Inner
  <2>4. 1 \in DOMAIN Trail /\ "zero" \in DoneSides(Trail, 1) /\ "one" \in DoneSides(Trail, 1)
    BY <2>2 DEF DoneSides, Sides
  <2>5. Clear(node, v, "zero") /\ Clear(node, v, "one")
    BY <2>2, <2>4 DEF Emptied
  <2> DEFINE G == {}
  <2>6. \A s \in Sides : <<v, s>> \notin G => node[v][s] = NULL
    <3>1. Tree(node, tree, G)
      BY <2>2
    <3> HIDE DEF G, v
    <3> QED BY <2>3, <2>5, <3>1, ClearAlone
  <2>7. node[v]["zero"] = 0 /\ node[v]["one"] = 0
    BY <2>6 DEF Sides, NULL
  <2> QED BY <2>7 DEF Empty
<1> QED BY <1>1, <1>2 DEF Leave

LEMMA LeaveFacts ==
    ASSUME IInv, Leave
    PROVE  /\ Visiting /\ Visited # NULL /\ Return /\ pc = "visit" /\ Visited \in InUse
           /\ UNCHANGED <<pc, walk, limit, room, out, input>>
           /\ ~Empty(Visited) => Full /\ UNCHANGED <<heap, tree, node>>
           /\ Empty(Visited) => Release(Visited) /\ Unlink
<1>1. Visiting /\ Visited # NULL
  BY DEF Leave, AtLeaf, AtBranch
<1> QED BY <1>1, LeaveCases, OnTheWay DEF Leave, Visiting, Removable

LEMMA LeaveFullKeeps == ASSUME IInv, Leave, ~Empty(Visited) PROVE IInv'
<1> DEFINE n == Len(stack)
<1>1. /\ Visiting /\ Visited # NULL /\ Return /\ pc = "visit" /\ pc' = pc /\ Full
      /\ UNCHANGED <<heap, tree, node>> /\ UNCHANGED <<pc, walk, limit, room, out, input>>
  BY LeaveFacts
<1>2. /\ Memory(node) /\ DOMAIN node = InUse
      /\ stack # <<>> /\ n \in Nat \ {0} /\ DOMAIN stack = 1..n /\ Trail[1].ptr = Visited
      /\ \A i \in 1..n : i > 1 => Trail[i].ptr \in InUse
  BY <1>1, OnTheWay
<1>3. HeapInv' /\ InUse' = InUse /\ Nodes' /\ Standing'
  BY <1>1, SameHeap DEF IInv, Nodes, Standing
<1>4. Control' /\ Phases' /\ Adding'
  BY <1>1, <1>2, ReturnControl
<1>5. Keeps(node, node')
  BY <1>1, <1>2 DEF Keeps
<1>6. /\ Walking' /\ DOMAIN stack' = 1..(n - 1)
      /\ \A i \in 1..(n - 1) : Trail'[i] = Trail[i + 1]
  <2>1. InUse' = DOMAIN node' /\ tree' = tree /\ UNCHANGED <<pc, room, out>>
    BY <1>1, <1>2, <1>3
  <2>2. \A i \in 2..n : Trail[i].ptr \in DOMAIN node'
    BY <1>1, <1>2
  <2>3. \A i \in 3..n : node'[Trail[i].ptr][Before(Trail[i].next)]
                           = node[Trail[i].ptr][Before(Trail[i].next)]
    BY <1>1
  <2> QED BY <1>1, <1>5, <2>1, <2>2, <2>3, WayBack
<1>7. Freeing'
  BY <1>1 DEF Freeing
<1>8. Filled'
  <2> SUFFICES ASSUME NEW b \in InUse, Empty(b) PROVE \E i \in DOMAIN stack' : b = Trail'[i].ptr
    BY <1>1, <1>3 DEF Filled, Empty
  <2>1. PICK i \in 1..n : b = Trail[i].ptr
    BY <1>1, <1>2 DEF IInv, Filled
  <2>2. i # 1
    BY <1>1, <1>2, <2>1
  <2>3. i - 1 \in 1..(n - 1) /\ (i - 1) + 1 = i
    <3> HIDE DEF n
    <3> QED BY <1>2, <2>2
  <2> QED BY <1>6, <2>1, <2>3
<1> QED BY <1>3, <1>4, <1>6, <1>7, <1>8 DEF IInv

\* The memory without a node and its link.
LEMMA PointPruned ==
    ASSUME Memory(node), NEW at, Place(node, at), NEW v \in DOMAIN node,
           Point(at, NULL, Without(v)), at # Root => at[1] # v
    PROVE  node' = Pruned(node, at, v) /\ tree' = IF at = Root THEN NULL ELSE tree
<1>1. CASE at = Root
  BY <1>1 DEF Point, Without, Pruned
<1>2. CASE at # Root
  <2> DEFINE p == at[1]
             s == at[2]
             m == Without(v)
  <2>1. p \in DOMAIN node /\ p # v
    BY <1>2, PlaceType DEF Inner
  <2>2. DOMAIN m = DOMAIN node \ {v} /\ \A c \in DOMAIN m : m[c] = node[c]
    BY DEF Without
  <2> HIDE DEF m
  <2>3. node' = [m EXCEPT ![p][s] = NULL]
    BY <1>2 DEF Point, m
  <2>4. node' = [m EXCEPT ![p] = [m[p] EXCEPT ![s] = NULL]]
    BY <2>3
  <2>5. node' = [c \in DOMAIN m |-> IF c = p THEN [m[p] EXCEPT ![s] = NULL] ELSE m[c]]
    BY <2>4
  <2>6. ASSUME NEW c \in DOMAIN m
        PROVE  (IF c = p THEN [m[p] EXCEPT ![s] = NULL] ELSE m[c])
                  = (IF at # Root /\ c = at[1] THEN [node[c] EXCEPT ![at[2]] = NULL]
                     ELSE node[c])
    BY <1>2, <2>1, <2>2
  <2>7. node' = Pruned(node, at, v)
    BY <2>2, <2>5, <2>6 DEF Pruned
  <2> QED BY <1>2, <2>7 DEF Point
<1> QED BY <1>1, <1>2

LEMMA LeaveEmptyKeeps == ASSUME IInv, Leave, Empty(Visited) PROVE IInv'
<1> DEFINE n == Len(stack)
           v == Visited
           at == Top1.at
<1>1. /\ Visiting /\ v # NULL /\ Return /\ pc = "visit" /\ pc' = pc
      /\ UNCHANGED <<pc, walk, limit, room, out, input>>
      /\ Release(v) /\ Point(at, NULL, Without(v))
  BY LeaveFacts DEF Unlink
<1>2. /\ Tree(node, tree, {}) /\ Memory(node) /\ DOMAIN node = InUse /\ v \in InUse
      /\ stack # <<>> /\ n \in Nat \ {0} /\ DOMAIN stack = 1..n /\ Trail[1].ptr = v
      /\ Top1 = stack[1] /\ v = Target(node, tree, at)
      /\ NULL \notin InUse /\ Path(node, tree, Trail) /\ DOMAIN Trail = 1..n
  BY <1>1, OnTheWay
<1>3. \A i \in 1..n :
         /\ Place(node, stack[i].at)
         /\ i = n => stack[i].at = Root
         /\ i # n => /\ i + 1 \in 2..n /\ stack[i].at # Root
                     /\ stack[i].at = <<Trail[i + 1].ptr, Before(Trail[i + 1].next)>>
         /\ i > 1 => Trail[i].ptr \in InUse /\ Trail[1].ptr # Trail[i].ptr
  BY <1>1, OnTheWay
<1>4. 1 \in 1..n /\ (n = 1 \/ (n > 1 /\ 2 \in 1..n))
  BY <1>2
<1>5. /\ Place(node, at) /\ (n = 1 => at = Root)
      /\ n # 1 => /\ at # Root /\ at[1] = Trail[2].ptr /\ at[1] # v
                  /\ at[2] = Before(Trail[2].next)
  <2>1. Place(node, at) /\ (n = 1 => at = Root)
    BY <1>2, <1>3, <1>4
  <2>2. ASSUME n # 1 PROVE at # Root /\ at = <<Trail[1 + 1].ptr, Before(Trail[1 + 1].next)>>
    BY <1>2, <1>3, <1>4, <2>2
  <2>3. n # 1 => Trail[2].ptr # v
    <3>1. n # 1 => 2 \in 1..n /\ 2 > 1
      BY <1>4
    <3> HIDE DEF n, v
    <3> QED BY <1>2, <1>3, <3>1
  <2> QED BY <2>1, <2>2, <2>3
<1>6. node' = Pruned(node, at, v) /\ tree' = IF at = Root THEN NULL ELSE tree
  <2>1. at # Root => at[1] # v
    BY <1>5
  <2> HIDE DEF at, v
  <2> QED BY <1>1, <1>2, <1>5, <2>1, PointPruned
<1>7. Alone(node, v)
  <2>1. node[v].zero = 0 /\ node[v].one = 0
    BY DEF Empty
  <2> HIDE DEF v
  <2> QED BY <1>2, <2>1, EmptyAlone
<1>8. HeapInv' /\ InUse' = InUse \ {v}
  BY <1>1, <1>2, OldBlock DEF IInv
<1>9. /\ Keeps(node, node') /\ DOMAIN node' = InUse'
      /\ \A c \in InUse' : at = Root \/ c # at[1] => node'[c] = node[c]
  <2> DEFINE m == node
             m2 == Pruned(node, at, v)
  <2>1. /\ Keeps(m, m2) /\ DOMAIN m2 = DOMAIN m \ {v}
        /\ \A c \in DOMAIN m \ {v} : at = Root \/ c # at[1] => m2[c] = m[c]
    <3>1. Memory(m) /\ Place(m, at) /\ v \in DOMAIN m
      BY <1>2, <1>5
    <3> HIDE DEF at, v
    <3>2. Keeps(node, Pruned(node, at, v)) /\ DOMAIN Pruned(node, at, v) = DOMAIN node \ {v}
      BY <3>1, PrunedType, Zenon
    <3>3. ASSUME NEW c \in DOMAIN node \ {v}, at = Root \/ c # at[1]
          PROVE  Pruned(node, at, v)[c] = node[c]
      BY <3>3 DEF Pruned
    <3> QED BY <3>1, <3>2, <3>3
  <2> QED BY <1>2, <1>6, <1>8, <2>1
<1>10. Tree(node', tree', {})
  <2> HIDE DEF at, v
  <2>1. v = Target(node, tree, at)
    BY <1>2
  <2> QED BY <1>2, <1>5, <1>6, <1>7, <2>1, PruneTree
<1>11. Nodes' /\ Standing'
  <2>1. Nodes'
    BY <1>6, <1>9, <1>10 DEF Tree, Memory, IInv, Nodes, NULL
  <2> QED BY <1>10, <2>1 DEF Standing
<1>12. Control' /\ Phases' /\ Adding'
  BY <1>1, <1>2, ReturnControl
<1>13. /\ Walking' /\ DOMAIN stack' = 1..(n - 1)
       /\ \A i \in 1..(n - 1) : Trail'[i] = Trail[i + 1]
  <2>1. InUse' = DOMAIN node' /\ UNCHANGED <<pc, room, out>> /\ (n > 1 => tree' = tree)
    <3>1. n > 1 => n # 1
      BY <1>2
    <3> QED BY <1>1, <1>5, <1>6, <1>9, <3>1
  <2>2. \A i \in 2..n : Trail[i].ptr \in DOMAIN node'
    <3>1. \A i \in 2..n : i \in 1..n /\ i > 1
      BY <1>2
    <3> QED BY <1>2, <1>3, <1>8, <1>9, <3>1
  <2>3. \A i \in 3..n : node'[Trail[i].ptr][Before(Trail[i].next)]
                           = node[Trail[i].ptr][Before(Trail[i].next)]
    <3> SUFFICES ASSUME NEW i \in 3..n PROVE node'[Trail[i].ptr] = node[Trail[i].ptr]
      OBVIOUS
    <3>1. i \in 2..n /\ 2 < i /\ i \in DOMAIN Trail /\ 2 \in DOMAIN Trail /\ n # 1 /\ 2 \in 1..n /\ 2 > 1
      BY <1>2
    <3>2. Trail[2].ptr # Trail[i].ptr
      <4>1. Trail[2].ptr \in DOMAIN node
        BY <1>2, <1>3, <3>1
      <4> HIDE DEF n
      <4> QED BY <1>2, <3>1, <4>1 DEF Path, Descending
    <3> QED BY <1>5, <1>9, <2>2, <3>1, <3>2
  <2>4. \A w \in DOMAIN node' : ~Below(node, w, v)
    BY <1>2, <1>7, <1>8, <1>9 DEF Alone
  <2>5. n > 1 \/ DOMAIN node' = {}
    <3>1. CASE n = 1
      <4>1. tree = v
        BY <1>2, <1>5, <3>1 DEF Target
      <4>2. \A w \in DOMAIN node : Below(node, w, v)
        BY <1>2, <4>1 DEF Tree, Rooted
      <4> QED BY <1>2, <1>8, <1>9, <2>4, <4>2
    <3> QED BY <1>4, <3>1
  <2> QED BY <1>1, <1>9, <2>1, <2>2, <2>3, <2>4, <2>5, WayBack
<1>14. Freeing'
  BY <1>1 DEF Freeing
<1>15. Filled'
  <2> SUFFICES ASSUME NEW b \in InUse', Empty(b)' PROVE \E i \in DOMAIN stack' : b = Trail'[i].ptr
    BY <1>1 DEF Filled
  <2>1. PICK i \in 1..n : b = Trail[i].ptr
    <3>1. CASE at # Root /\ b = at[1]
      <4>1. n # 1
        BY <1>5, <3>1
      <4> QED BY <1>4, <1>5, <3>1, <4>1
    <3>2. CASE ~(at # Root /\ b = at[1])
      <4>1. node'[b] = node[b]
        BY <1>9, <3>2
      <4>2. Empty(b)
        BY <4>1 DEF Empty
      <4>3. b \in InUse
        BY <1>8
      <4> QED BY <1>1, <1>2, <4>2, <4>3 DEF IInv, Filled
    <3> QED BY <3>1, <3>2
  <2>2. i # 1
    BY <1>2, <1>8, <2>1
  <2>3. i - 1 \in 1..(n - 1) /\ (i - 1) + 1 = i
    <3> HIDE DEF n
    <3> QED BY <1>2, <2>2
  <2> QED BY <1>13, <2>1, <2>3
<1> QED BY <1>8, <1>11, <1>12, <1>13, <1>14, <1>15 DEF IInv

LEMMA WriteKeeps == ASSUME IInv, Write PROVE IInv'
<1>1. /\ pc = "visit" /\ stack = <<>> /\ pc' \in {"take", "main"}
      /\ \/ pc' = "take" /\ limit > Len(out) /\ limit' = limit - Len(out)
         \/ pc' = "main" /\ limit' = 0
      /\ out' = <<>> /\ room' = 0
      /\ UNCHANGED <<heap, tree, node, number, bit_pos, parent, stack, input>>
  <2>1. /\ IF Again THEN pc' = "take" /\ limit' = limit - Len(out)
           ELSE pc' = "main" /\ limit' = 0
        /\ pc = "visit" /\ stack = <<>> /\ out' = <<>> /\ room' = 0
        /\ UNCHANGED <<heap, tree, node, number, bit_pos, parent, stack, input>>
    BY DEF Write, walk
  <2>2. CASE Again
    <3>1. pc' = "take" /\ limit' = limit - Len(out)
      BY <2>1, <2>2
    <3>2. limit > Len(out)
      BY <2>2 DEF Again
    <3> QED BY <2>1, <3>1, <3>2, Zenon
  <2>3. CASE ~Again
    <3>1. pc' = "main" /\ limit' = 0
      BY <2>1, <2>3
    <3> QED BY <2>1, <3>1, Zenon
  <2> QED BY <2>2, <2>3
<1>2. HeapInv' /\ InUse' = InUse /\ Nodes' /\ Standing'
  BY <1>1, SameHeap DEF IInv, Nodes, Standing
<1>3. limit' \in Nat /\ (pc' = "take" => limit' > 0)
  <2>1. limit \in Nat /\ Len(out) \in Nat
    BY DEF IInv, Control
  <2> QED BY <1>1, <2>1
<1>4. Control'
  <2>1. 0 \in 0..MaxTake
    BY TreeAssumption DEF TreeAssumption
  <2> QED BY <1>1, <1>3, <2>1 DEF IInv, Control
<1>5. Phases' /\ Adding' /\ Walking' /\ Freeing'
  BY <1>1, <1>3 DEF Phases, Adding, Walking, Freeing
<1>6. Filled'
  <2> SUFFICES ASSUME NEW b \in InUse, Empty(b) PROVE FALSE
    BY <1>1, <1>2 DEF Filled, Empty
  <2>1. DOMAIN stack = {}
    BY <1>1
  <2> QED BY <1>1, <2>1 DEF IInv, Filled
<1> QED BY <1>2, <1>4, <1>5, <1>6 DEF IInv

-----------------------------------------------------------------------------
(* release_tree                                                            *)

LEMMA EndOfInputKeeps == ASSUME IInv, EndOfInput PROVE IInv'
<1>1. /\ pc = "main" /\ pc' = "release" /\ stack' = <<Call(tree)>>
      /\ UNCHANGED <<heap, tree, node, number, bit_pos, parent, limit, room, out, input>>
  BY DEF EndOfInput, walk
<1>2. HeapInv' /\ InUse' = InUse /\ Nodes' /\ Standing' /\ Tree(node, tree, {})
  BY <1>1, SameHeap DEF IInv, Nodes, Standing
<1>3. /\ DOMAIN stack' = 1..1 /\ Len(stack') = 1 /\ stack' # <<>>
      /\ stack'[1].at = tree /\ stack'[1].next = "zero"
  BY <1>1 DEF Call
<1>4. Control'
  <2>1. Call(tree) \in Frames
    BY DEF Call, Frames, Sides, IInv, Nodes
  <2> QED BY <1>1, <2>1 DEF IInv, Control
<1>5. Phases' /\ Adding' /\ Walking' /\ Filled'
  <2>1. Phases' /\ Adding' /\ Walking'
    BY <1>1 DEF IInv, Phases, Adding, Walking
  <2> QED BY <1>1, <2>1 DEF Filled
<1>6. Freeing'
  <2>1. /\ DOMAIN Trail' = 1..1 /\ Trail'[1].ptr = tree /\ Trail'[1].next = "zero"
    BY <1>1, <1>3 DEF Trail
  <2>2. Path(node, tree, Trail') /\ Emptied(node, Trail')
    BY <1>2, <2>1, FirstPath
  <2>3. Dangling' = {}
    <3>1. DoneSides(Trail', 1) = {}
      BY <2>1 DEF DoneSides
    <3>2. \A i \in DOMAIN stack' : DoneSides(Trail', i) = {}
      BY <1>3, <3>1
    <3> QED BY <3>2 DEF Dangling
  <2> QED BY <1>1, <1>2, <1>3, <2>2, <2>3 DEF Freeing
<1> QED BY <1>2, <1>4, <1>5, <1>6 DEF IInv

\* More links may be left behind.
LEMMA LinkedLess ==
    ASSUME NEW m, NEW r, NEW G, Tree(m, r, G), NEW H, G \subseteq H PROVE Tree(m, r, H)
BY DEF Tree, Linked

\* What is known while nodes are released.
LEMMA OnTheWayOut ==
    ASSUME IInv, Releasing, NEW n, n = Len(stack), NEW r, r = stack[n].at
    PROVE  /\ pc = "release" /\ stack \in Seq(Frames) /\ stack # <<>>
           /\ n \in Nat \ {0} /\ DOMAIN stack = 1..n /\ DOMAIN Trail = 1..n
           /\ Top1 = stack[1] /\ 1 \in 1..n
           /\ Tree(node, r, Dangling) /\ Path(node, r, Trail) /\ Emptied(node, Trail)
           /\ Memory(node) /\ DOMAIN node = InUse /\ NULL \notin InUse
           /\ stack[1].at \in InUse \cup {NULL}
           /\ \A i \in 1..n : /\ Trail[i] = [ptr |-> stack[i].at, next |-> stack[i].next]
                              /\ i > 1 => /\ stack[i].at \in Inner(node)
                                          /\ stack[i].at \in InUse
                                          /\ stack[i].next \in {"one", "leave"}
           /\ \A i, j \in 1..n : i < j /\ stack[i].at \in InUse => stack[i].at # stack[j].at
<1>1. /\ pc = "release" /\ stack \in Seq(Frames) /\ stack # <<>>
  BY DEF IInv, Control, Releasing
<1>2. n \in Nat \ {0} /\ DOMAIN stack = 1..n /\ Top1 = stack[1] /\ 1 \in 1..n
  BY <1>1 DEF Top1
<1>3. Tree(node, r, Dangling) /\ Path(node, r, Trail) /\ Emptied(node, Trail)
  BY <1>1 DEF IInv, Freeing
<1>4. Memory(node) /\ DOMAIN node = InUse
  BY <1>3 DEF IInv, Nodes, Tree
<1>5. NULL \notin InUse
  BY <1>4, MemoryType
<1>6. /\ DOMAIN Trail = 1..n
      /\ \A i \in 1..n : Trail[i] = [ptr |-> stack[i].at, next |-> stack[i].next]
  BY <1>1, <1>2 DEF Trail
<1>7. stack[1].at \in InUse \cup {NULL}
  BY <1>2, <1>3, <1>4, <1>6 DEF Path, Steps
<1>8. ASSUME NEW i \in 1..n, i > 1
      PROVE  /\ stack[i].at \in Inner(node) /\ stack[i].at \in InUse
             /\ stack[i].next \in {"one", "leave"}
  <2>1. /\ Trail[i].next \in Sides \cup {"leave"} /\ Trail[i].next # "zero"
        /\ Trail[i].ptr \in Inner(node)
    BY <1>3, <1>6, <1>8 DEF Path, Steps
  <2>2. Trail[i].next = stack[i].next /\ Trail[i].ptr = stack[i].at
    BY <1>6
  <2> QED BY <1>4, <2>1, <2>2 DEF Sides, Inner
<1>9. ASSUME NEW i \in 1..n, NEW j \in 1..n, i < j, stack[i].at \in InUse
      PROVE  stack[i].at # stack[j].at
  <2>1. Trail[i].ptr = stack[i].at /\ Trail[j].ptr = stack[j].at
    BY <1>6
  <2>2. Trail[i].ptr # Trail[j].ptr
    BY <1>3, <1>4, <1>6, <1>9, <2>1 DEF Path, Descending
  <2> QED BY <2>1, <2>2
<1> QED BY <1>1, <1>2, <1>3, <1>4, <1>5, <1>6, <1>7, <1>8, <1>9, Zenon

LEMMA ReleaseBranchKeeps == ASSUME IInv, ReleaseBranch PROVE IInv'
<1> DEFINE n == Len(stack)
           r == stack[n].at
           v == stack[1].at
           s == stack[1].next
<1>1. /\ pc = "release" /\ stack \in Seq(Frames) /\ stack # <<>>
      /\ n \in Nat \ {0} /\ DOMAIN stack = 1..n /\ DOMAIN Trail = 1..n
      /\ Top1 = stack[1] /\ 1 \in 1..n
      /\ Tree(node, r, Dangling) /\ Path(node, r, Trail) /\ Emptied(node, Trail)
      /\ Memory(node) /\ DOMAIN node = InUse /\ NULL \notin InUse
      /\ v \in InUse \cup {NULL}
  BY OnTheWayOut DEF ReleaseBranch
<1>2. /\ \A i \in 1..n : Trail[i] = [ptr |-> stack[i].at, next |-> stack[i].next]
      /\ \A i, j \in 1..n : i < j /\ stack[i].at \in InUse => stack[i].at # stack[j].at
  BY OnTheWayOut DEF ReleaseBranch
<1>3. /\ v # NULL /\ node[v].bit_pos > 0 /\ s # "leave" /\ Visit(node[v][s])
      /\ UNCHANGED <<heap, tree, node, pc, number, bit_pos, parent, limit, room, out, input>>
  BY <1>1 DEF ReleaseBranch, walk
<1>4. v \in Inner(node) /\ s \in Sides /\ v \in InUse
  <2>1. Trail[1].next = s
    BY <1>1, <1>2
  <2>2. s \in Sides \cup {"leave"}
    BY <1>1, <2>1 DEF Path, Steps
  <2> QED BY <1>1, <1>3, <2>2 DEF Inner
<1>5. /\ stack' \in Seq(Frames) /\ Len(stack') = n + 1 /\ DOMAIN stack' = 1..(n + 1)
      /\ stack'[1] = Call(node[v][s])
      /\ stack'[2].at = v /\ stack'[2].next = After(s)
      /\ \A i \in 2..n : stack'[i + 1] = stack[i]
  <2>1. node[v][s] \in Nat
    BY <1>1, <1>4, MemoryType
  <2>2. node[v][s] \in Nat \cup (Nat \X (Sides \cup {"root"}))
    BY <2>1
  <2> QED BY <1>1, <1>3, <2>2, Visiting2
<1>6. HeapInv' /\ InUse' = InUse /\ Nodes'
  BY <1>3, SameHeap DEF IInv, Nodes
<1>7. Control' /\ Phases' /\ Adding' /\ Standing' /\ Walking' /\ Filled'
  BY <1>1, <1>3, <1>5 DEF IInv, Control, Phases, Adding, Standing, Walking, Filled
<1>8. stack'[n + 1].at = r /\ stack' # <<>>
  <2>1. CASE n = 1
    BY <1>5, <2>1
  <2>2. CASE n # 1
    <3>1. n \in 2..n
      BY <1>1, <2>2
    <3> HIDE DEF n
    <3> QED BY <1>5, <3>1
  <2>3. n + 1 # 0
    BY <1>1
  <2> QED BY <1>5, <2>1, <2>2, <2>3
<1>9. /\ DOMAIN Trail' = 1..(n + 1)
      /\ Trail'[1].ptr = node[v][s] /\ Trail'[1].next = "zero"
      /\ Trail'[2].ptr = v /\ Trail'[2].next = After(s)
      /\ \A i \in 2..n : Trail'[i + 1] = Trail[i]
  <2>1. /\ DOMAIN Trail' = 1..(n + 1)
        /\ \A i \in 1..(n + 1) : Trail'[i] = [ptr |-> stack'[i].at, next |-> stack'[i].next]
    BY <1>1, <1>3, <1>5 DEF Trail
  <2>2. 1 \in 1..(n + 1) /\ 2 \in 1..(n + 1)
    BY <1>1
  <2>3. Trail'[1].ptr = node[v][s] /\ Trail'[1].next = "zero"
    BY <1>5, <2>1, <2>2 DEF Call
  <2>4. Trail'[2].ptr = v /\ Trail'[2].next = After(s)
    BY <1>5, <2>1, <2>2
  <2>5. ASSUME NEW i \in 2..n PROVE Trail'[i + 1] = Trail[i]
    <3>1. i + 1 \in 1..(n + 1) /\ i \in 1..n /\ stack'[i + 1] = stack[i]
      BY <1>1, <1>5
    <3> QED BY <1>2, <2>1, <3>1
  <2> QED BY <2>1, <2>3, <2>4, <2>5
<1>10. <<v, s>> \notin Dangling
  <2> SUFFICES ASSUME NEW i \in 1..n, stack[i].at = v, s \in DoneSides(Trail, i) PROVE FALSE
    BY <1>1 DEF Dangling
  <2>1. i = 1
    <3> SUFFICES ASSUME i # 1 PROVE FALSE
      OBVIOUS
    <3>1. 1 < i
      OBVIOUS
    <3> QED BY <1>1, <1>2, <1>4, <3>1
  <2>2. Trail[1].next = s
    BY <1>1, <1>2
  <2> QED BY <1>4, <2>1, <2>2 DEF DoneSides, Sides
<1>11. Path(node', r, Trail') /\ Emptied(node', Trail')
  <2> DEFINE t == Trail
             t2 == Trail'
  <2>1. t[1].ptr = v /\ t[1].next = s
    BY <1>1, <1>2
  <2>2. Pushed(node, r, t, n, t2)
    <3> HIDE DEF t, t2, n, v, s, r
    <3> QED BY <1>1, <1>4, <1>9, <2>1 DEF Pushed, t, t2
  <2>3. <<t[1].ptr, t[1].next>> \notin Dangling
    BY <1>10, <2>1
  <2> HIDE DEF t, t2, n, v, s, r
  <2>4. Path(node, r, t2) /\ (Emptied(node, t) => Emptied(node, t2))
    BY <1>1, <2>2, <2>3, PushPath
  <2>5. node' = node
    BY <1>3
  <2> QED BY <1>1, <2>4, <2>5 DEF t, t2
<1>12. Dangling \subseteq Dangling'
  <2> SUFFICES ASSUME NEW a \in InUse, NEW q \in Sides, NEW i \in 1..n,
                      stack[i].at = a, q \in DoneSides(Trail, i)
               PROVE  \E j \in DOMAIN stack' : stack'[j].at = a /\ q \in DoneSides(Trail', j)
    BY <1>1, <1>6 DEF Dangling
  <2>1. CASE i = 1
    <3>1. Trail[1].next = s
      BY <1>1, <1>2
    <3>2. q = "zero" /\ s = "one"
      BY <1>4, <2>1, <3>1 DEF DoneSides, Sides
    <3>3. q \in DoneSides(Trail', 2)
      BY <1>9, <3>2 DEF DoneSides, After
    <3>4. 2 \in DOMAIN stack'
      BY <1>1, <1>5
    <3> QED BY <1>5, <2>1, <3>3, <3>4
  <2>2. CASE i # 1
    <3> DEFINE j == i + 1
    <3>1. i \in 2..n /\ j \in 1..(n + 1) /\ j # 1
      BY <1>1, <2>2
    <3>2. stack'[j] = stack[i] /\ Trail'[j] = Trail[i]
      BY <1>5, <1>9, <3>1
    <3> HIDE DEF j
    <3>3. q \in DoneSides(Trail', j)
      BY <2>2, <3>1, <3>2 DEF DoneSides
    <3> QED BY <1>5, <3>1, <3>2, <3>3
  <2> QED BY <2>1, <2>2
<1>13. Freeing'
  <2>1. Tree(node, r, Dangling')
    <3> HIDE DEF r, n
    <3> QED BY <1>1, <1>12, LinkedLess
  <2>2. node' = node /\ stack'[Len(stack')].at = r
    BY <1>3, <1>5, <1>8
  <2> HIDE DEF r
  <2> QED BY <1>8, <1>11, <2>1, <2>2 DEF Freeing
<1> QED BY <1>6, <1>7, <1>13 DEF IInv

LEMMA ExitKeeps == ASSUME IInv, Exit PROVE IInv'
<1>1. /\ pc = "release" /\ stack = <<>> /\ pc' = "done"
      /\ UNCHANGED <<heap, tree, node, number, bit_pos, parent, limit, room, out, stack, input>>
  BY DEF Exit, walk
<1>2. HeapInv' /\ InUse' = InUse /\ InUse = {} /\ Nodes'
  BY <1>1, SameHeap DEF IInv, Freeing, Nodes
<1>3. Control' /\ Phases'
  BY <1>1, <1>2 DEF IInv, Control, Phases
<1>4. Adding' /\ Standing' /\ Walking' /\ Freeing' /\ Filled'
  BY <1>1, <1>2 DEF Adding, Standing, Walking, Freeing, Filled
<1> QED BY <1>2, <1>3, <1>4 DEF IInv

\* A call of release_tree returns: what is left of the trail, and its links.
LEMMA ReturnOut ==
    ASSUME IInv, Releasing, Return, pc' = pc, NEW n, n = Len(stack)
    PROVE  /\ stack' \in Seq(Frames) /\ Len(stack') = n - 1 /\ DOMAIN stack' = 1..(n - 1)
           /\ DOMAIN Trail' = 1..(n - 1)
           /\ \A i \in 1..(n - 1) : stack'[i] = stack[i + 1] /\ Trail'[i] = Trail[i + 1]
           /\ n # 1 => stack' # <<>> /\ stack'[n - 1] = stack[n]
           /\ n = 1 => stack' = <<>>
           /\ \A a \in InUse', q \in Sides :
                 <<a, q>> \in Dangling /\ a # stack[1].at => <<a, q>> \in Dangling'
           /\ \A a \in InUse' : n # 1 /\ a = stack[2].at
                                  => <<a, Before(stack[2].next)>> \in Dangling'
<1>1. /\ pc = "release" /\ stack \in Seq(Frames) /\ stack # <<>>
      /\ n \in Nat \ {0} /\ DOMAIN stack = 1..n /\ 1 \in 1..n
      /\ \A i \in 1..n : Trail[i] = [ptr |-> stack[i].at, next |-> stack[i].next]
  BY OnTheWayOut
<1>2. /\ stack' \in Seq(Frames) /\ Len(stack') = n - 1 /\ DOMAIN stack' = 1..(n - 1)
      /\ \A i \in 1..(n - 1) : stack'[i] = stack[i + 1]
  BY <1>1, Returning
<1>3. /\ DOMAIN Trail' = 1..(n - 1)
      /\ \A i \in 1..(n - 1) : Trail'[i] = [ptr |-> stack'[i].at, next |-> stack'[i].next]
  BY <1>1, <1>2 DEF Trail
<1>4. ASSUME NEW i \in 1..(n - 1) PROVE Trail'[i] = Trail[i + 1]
  <2>1. i + 1 \in 1..n
    BY <1>1
  <2>2. /\ Trail'[i] = [ptr |-> stack'[i].at, next |-> stack'[i].next]
        /\ stack'[i] = stack[i + 1]
    BY <1>2, <1>3
  <2> QED BY <1>1, <2>1, <2>2
<1>5. n # 1 => stack' # <<>> /\ stack'[n - 1] = stack[n]
  <2> SUFFICES ASSUME n # 1 PROVE stack' # <<>> /\ stack'[n - 1] = stack[n]
    OBVIOUS
  <2>1. n - 1 \in 1..(n - 1) /\ (n - 1) + 1 = n /\ n - 1 # 0
    BY <1>1
  <2>2. Len(stack') # 0
    BY <1>2, <2>1
  <2> QED BY <1>2, <2>1, <2>2
<1>6. n = 1 => stack' = <<>>
  BY <1>2
<1>7. ASSUME NEW a \in InUse', NEW q \in Sides, <<a, q>> \in Dangling, a # stack[1].at
      PROVE  <<a, q>> \in Dangling'
  <2>1. PICK i \in 1..n : stack[i].at = a /\ q \in DoneSides(Trail, i)
    BY <1>1, <1>7 DEF Dangling
  <2> DEFINE j == i - 1
  <2>2. j \in 1..(n - 1) /\ j + 1 = i
    BY <1>1, <1>7, <2>1
  <2>3. stack'[j] = stack[i] /\ Trail'[j] = Trail[i]
    BY <1>2, <1>4, <2>2
  <2>4. q \in DoneSides(Trail', j)
    <3> HIDE DEF j
    <3>1. i # 1
      BY <1>7, <2>1
    <3> QED BY <2>1, <2>3, <3>1 DEF DoneSides
  <2> HIDE DEF j
  <2> QED BY <1>2, <2>1, <2>2, <2>3, <2>4 DEF Dangling
<1>8. ASSUME NEW a \in InUse', n # 1, a = stack[2].at
      PROVE  <<a, Before(stack[2].next)>> \in Dangling'
  <2>1. 1 \in 1..(n - 1) /\ 2 \in 1..n /\ 2 > 1 /\ 1 + 1 = 2
    BY <1>1, <1>8
  <2>2. stack'[1] = stack[2] /\ Trail'[1].next = stack[2].next
    <3>1. stack'[1] = stack[1 + 1] /\ Trail'[1] = Trail[1 + 1]
      BY <1>2, <1>4, <2>1
    <3>2. Trail[2] = [ptr |-> stack[2].at, next |-> stack[2].next]
      BY <1>1, <2>1
    <3> QED BY <2>1, <3>1, <3>2
  <2>3. stack[2].next \in {"one", "leave"}
    BY <2>1, OnTheWayOut
  <2>4. Before(stack[2].next) \in Sides /\ Before(stack[2].next) \in DoneSides(Trail', 1)
    BY <2>2, <2>3 DEF DoneSides, Before, Sides
  <2> QED BY <1>2, <1>8, <2>1, <2>2, <2>4 DEF Dangling
<1> QED BY <1>2, <1>3, <1>4, <1>5, <1>6, <1>7, <1>8

LEMMA ReleaseNodeKeeps == ASSUME IInv, ReleaseNode PROVE IInv'
<1> DEFINE n == Len(stack)
           r == stack[n].at
           v == stack[1].at
<1>1. /\ pc = "release" /\ stack \in Seq(Frames) /\ stack # <<>>
      /\ n \in Nat \ {0} /\ DOMAIN stack = 1..n /\ DOMAIN Trail = 1..n
      /\ Top1 = stack[1] /\ 1 \in 1..n
      /\ Tree(node, r, Dangling) /\ Path(node, r, Trail) /\ Emptied(node, Trail)
      /\ Memory(node) /\ DOMAIN node = InUse /\ NULL \notin InUse
      /\ v \in InUse \cup {NULL}
  BY OnTheWayOut DEF ReleaseNode
<1>2. /\ \A i \in 1..n : /\ Trail[i] = [ptr |-> stack[i].at, next |-> stack[i].next]
                         /\ i > 1 => /\ stack[i].at \in Inner(node)
                                     /\ stack[i].at \in InUse
                                     /\ stack[i].next \in {"one", "leave"}
      /\ \A i, j \in 1..n : i < j /\ stack[i].at \in InUse => stack[i].at # stack[j].at
  BY OnTheWayOut DEF ReleaseNode
<1>3. /\ Releasing /\ Return /\ UNCHANGED <<tree, pc, walk, limit, room, out, input>>
      /\ v = NULL => UNCHANGED <<heap, node>>
      /\ v # NULL => /\ node[v].bit_pos = 0 \/ stack[1].next = "leave"
                     /\ Release(v) /\ node' = Without(v)
  BY <1>1 DEF ReleaseNode
<1>4. /\ stack' \in Seq(Frames) /\ Len(stack') = n - 1 /\ DOMAIN stack' = 1..(n - 1)
      /\ DOMAIN Trail' = 1..(n - 1)
      /\ \A i \in 1..(n - 1) : stack'[i] = stack[i + 1] /\ Trail'[i] = Trail[i + 1]
      /\ n # 1 => stack' # <<>> /\ stack'[n - 1] = stack[n]
      /\ n = 1 => stack' = <<>>
  BY <1>3, ReturnOut
<1>5. /\ \A a \in InUse', q \in Sides :
            <<a, q>> \in Dangling /\ a # v => <<a, q>> \in Dangling'
      /\ \A a \in InUse' : n # 1 /\ a = stack[2].at
                             => <<a, Before(stack[2].next)>> \in Dangling'
  BY <1>3, ReturnOut
<1>6. /\ HeapInv' /\ InUse' = InUse \ {v} /\ DOMAIN node' = InUse'
      /\ \A c \in InUse' : node'[c] = node[c]
  <2>1. CASE v = NULL
    <3>1. UNCHANGED heap /\ node' = node
      BY <1>3, <2>1
    <3> QED BY <1>1, <2>1, <3>1, SameHeap DEF IInv
  <2>2. CASE v # NULL
    <3>1. HeapInv' /\ InUse' = InUse \ {v}
      BY <1>1, <1>3, <2>2, OldBlock DEF IInv
    <3> QED BY <1>1, <1>3, <2>2, <3>1 DEF Without
  <2> QED BY <2>1, <2>2
<1>7. Keeps(node, node') /\ Nodes'
  <2>1. Nodes'
    <3>1. node' = [c \in InUse' |-> node'[c]]
      <4>1. CASE v = NULL
        BY <1>1, <1>3, <1>6, <4>1 DEF IInv, Nodes
      <4>2. CASE v # NULL
        BY <1>3, <1>6, <4>2 DEF Without
      <4> QED BY <4>1, <4>2
    <3> QED BY <1>3, <1>6, <3>1 DEF IInv, Nodes
  <2>2. Memory(node')
    BY <1>1, <1>6, <2>1 DEF Memory, Nodes
  <2>3. DOMAIN node' \subseteq DOMAIN node
    BY <1>1, <1>6
  <2>4. \A c \in DOMAIN node' : node'[c] = node[c]
    BY <1>6
  <2> QED BY <2>1, <2>2, <2>3, <2>4 DEF Keeps
<1>8. Control' /\ Phases' /\ Adding'
  BY <1>1, <1>3, ReturnControl
<1>9. Standing' /\ Walking' /\ Filled'
  BY <1>1, <1>3 DEF Standing, Walking, Filled
<1>10. v # NULL => Alone(node, v)
  <2> SUFFICES ASSUME v # NULL PROVE Alone(node, v)
    OBVIOUS
  <2>1. v \in DOMAIN node
    BY <1>1
  <2>2. CASE node[v].bit_pos = 0
    <3> HIDE DEF v, r, n
    <3> QED BY <1>1, <2>1, <2>2, EmptyAlone
  <2>3. CASE node[v].bit_pos # 0 /\ stack[1].next = "leave"
    <3>1. v \in Inner(node)
      <4>1. node[v].bit_pos \in Nat
        BY <1>1, <2>1, MemoryType
      <4> QED BY <2>1, <2>3, <4>1 DEF Inner
    <3>2. Trail[1].next = "leave" /\ Trail[1].ptr = v /\ 1 \in DOMAIN Trail
      BY <1>1, <1>2, <2>3
    <3>3. "zero" \in DoneSides(Trail, 1) /\ "one" \in DoneSides(Trail, 1)
      BY <3>2 DEF DoneSides, Sides
    <3>4. Clear(node, v, "zero") /\ Clear(node, v, "one")
      BY <1>1, <3>2, <3>3 DEF Emptied
    <3> HIDE DEF v, r, n
    <3> QED BY <1>1, <3>1, <3>4, ClearAlone
  <2> QED BY <1>3, <2>2, <2>3
<1>11. v = NULL \/ \A w \in DOMAIN node' : ~Below(node, w, v)
  BY <1>1, <1>6, <1>10 DEF Alone
<1>12. n # 1 => /\ stack[2].at \in InUse' /\ stack[2].at \in Inner(node)
                /\ stack[2].next \in {"one", "leave"} /\ stack[2].at # v
                /\ 2 \in 1..n /\ 1 + 1 \in DOMAIN Trail
  <2> SUFFICES ASSUME n # 1 PROVE /\ stack[2].at \in InUse' /\ stack[2].at \in Inner(node)
                                  /\ stack[2].next \in {"one", "leave"} /\ stack[2].at # v
                                  /\ 2 \in 1..n /\ 1 + 1 \in DOMAIN Trail
    OBVIOUS
  <2>1. 2 \in 1..n /\ 2 > 1 /\ 1 + 1 = 2 /\ 1 < 2
    BY <1>1
  <2>2. /\ stack[2].at \in InUse /\ stack[2].at \in Inner(node)
        /\ stack[2].next \in {"one", "leave"}
    BY <1>2, <2>1
  <2>3. stack[2].at # v
    <3>1. v \in InUse => v # stack[2].at
      BY <1>1, <1>2, <2>1
    <3> QED BY <2>2, <3>1
  <2> QED BY <1>1, <1>6, <2>1, <2>2, <2>3
\* The link to the node that is released is the one on the way to it.
<1>13. ASSUME NEW a \in Inner(node), NEW q \in Sides, v # NULL, n # 1,
              <<a, q>> \notin Dangling, node[a][q] = v
       PROVE  a = stack[2].at /\ q = Before(stack[2].next)
  <2> DEFINE b == stack[2].at
             p == Before(stack[2].next)
  <2>1. Trail[1] = [ptr |-> v, next |-> stack[1].next]
        /\ Trail[1 + 1] = [ptr |-> b, next |-> stack[2].next]
    BY <1>1, <1>2, <1>12, <1>13
  <2>2. node[b][p] = v
    <3>1. Trail[1].ptr = node[Trail[1 + 1].ptr][Before(Trail[1 + 1].next)]
      BY <1>1, <1>12, <1>13 DEF Path, Steps
    <3> QED BY <2>1, <3>1
  <2>3. <<b, p>> \notin Dangling
    <3> SUFFICES ASSUME NEW i \in 1..n, stack[i].at = b, p \in DoneSides(Trail, i) PROVE FALSE
      BY <1>1 DEF Dangling
    <3>1. i = 2
      <4>1. i < 2 => i = 1 /\ 1 < 2
        OBVIOUS
      <4>2. ~(2 < i)
        BY <1>2, <1>6, <1>12, <1>13
      <4>3. i # 1
        BY <1>12, <1>13
      <4> QED BY <4>1, <4>2, <4>3
    <3>2. Trail[2].next = stack[2].next /\ stack[2].next \in {"one", "leave"}
      BY <2>1, <1>12, <1>13
    <3> QED BY <3>1, <3>2 DEF DoneSides, Before
  <2>4. /\ a \in Inner(node) /\ b \in Inner(node) /\ q \in Sides /\ p \in Sides
        /\ v \in DOMAIN node
    BY <1>1, <1>12, <1>13 DEF Before, Sides
  <2>5. Hangs(node, v, a, q) /\ Hangs(node, v, b, p)
    <3> HIDE DEF r, n, b, p
    <3> QED BY <1>1, <1>13, <2>2, <2>3, <2>4 DEF Tree, Linked
  <2> HIDE DEF r, n, v, b, p
  <2>6. a = b /\ q = p
    BY <1>1, <1>13, <2>2, <2>4, <2>5, OneParent
  <2> QED BY <2>6 DEF b, p
<1>14. n # 1 => v # r
  <2> SUFFICES ASSUME n # 1, v = r PROVE FALSE
    OBVIOUS
  <2>1. n \in 1..n /\ n > 1 /\ 1 < n
    BY <1>1
  <2>2. stack[n].at \in InUse
    BY <1>2, <2>1
  <2>3. v \in InUse /\ stack[1].at # stack[n].at
    BY <1>1, <1>2, <2>1, <2>2
  <2> QED BY <2>3
<1>15. n # 1 => Tree(node', r, Dangling')
  <2> SUFFICES ASSUME n # 1 PROVE Tree(node', r, Dangling')
    OBVIOUS
  <2>1. CASE v = NULL
    <3>1. node' = node /\ InUse' = InUse
      BY <1>1, <1>3, <1>6, <2>1
    <3>2. Dangling \subseteq Dangling'
      <4> SUFFICES ASSUME NEW a \in InUse, NEW q \in Sides, <<a, q>> \in Dangling
                   PROVE  <<a, q>> \in Dangling'
        BY DEF Dangling
      <4> QED BY <1>1, <1>5, <2>1, <3>1
    <3> HIDE DEF v, r, n
    <3> QED BY <1>1, <3>1, <3>2, LinkedLess
  <2>2. CASE v # NULL
    <3>1. node' = [c \in DOMAIN node \ {v} |-> node[c]]
      BY <1>1, <1>3, <2>2 DEF Without
    <3>2. ASSUME NEW a \in Inner(node), NEW q \in Sides, a # v,
                 <<a, q>> \in Dangling \/ node[a][q] = v
          PROVE  <<a, q>> \in Dangling'
      <4>1. a \in InUse'
        BY <1>1, <1>6, <3>2 DEF Inner
      <4>2. CASE <<a, q>> \in Dangling
        BY <1>5, <3>2, <4>1, <4>2
      <4>3. CASE <<a, q>> \notin Dangling
        <5>1. a = stack[2].at /\ q = Before(stack[2].next)
          BY <1>13, <2>2, <3>2, <4>3
        <5> QED BY <1>5, <4>1, <5>1
      <4> QED BY <4>2, <4>3
    <3>3. v \in DOMAIN node /\ v # r /\ Alone(node, v)
      BY <1>1, <1>10, <1>14, <2>2
    <3> HIDE DEF v, r, n
    <3> QED BY <1>1, <3>1, <3>2, <3>3, CutTree
  <2> QED BY <2>1, <2>2
<1>16. Path(node', r, Trail') /\ Emptied(node', Trail')
  <2> DEFINE t == Trail
             t2 == Trail'
             m2 == node'
  <2>1. t[1].ptr = v
    BY <1>1, <1>2
  <2>2. ASSUME NEW i \in 2..n PROVE t[i].ptr \in DOMAIN m2 /\ m2[t[i].ptr] = node[t[i].ptr]
    <3>1. i \in 1..n /\ i > 1 /\ 1 < i
      BY <1>1
    <3>2. t[i].ptr = stack[i].at /\ stack[i].at \in InUse
      <4>1. t[i] = [ptr |-> stack[i].at, next |-> stack[i].next] /\ stack[i].at \in InUse
        BY <1>2, <3>1, Zenon
      <4> HIDE DEF t
      <4> QED BY <4>1
    <3>3. stack[i].at # v
      <4>1. v \in InUse => v # stack[i].at
        BY <1>1, <1>2, <3>1
      <4> QED BY <3>2, <4>1
    <3> QED BY <1>6, <3>2, <3>3
  <2>3. Popped(node, r, t, n, m2, r, t2)
    <3>1. \A i \in 3..n : i \in 2..n
      BY <1>1
    <3> HIDE DEF t, t2, m2, v, r, n
    <3>2. n \in Nat \ {0} /\ DOMAIN t = 1..n /\ Path(node, r, t) /\ DOMAIN t2 = 1..(n - 1)
      BY <1>1, <1>4 DEF t, t2
    <3>3. Keeps(node, m2)
      BY <1>7 DEF m2
    <3>4. \A i \in 1..(n - 1) : t2[i] = t[i + 1]
      BY <1>4 DEF t, t2
    <3>5. \A i \in 3..n : m2[t[i].ptr][Before(t[i].next)] = node[t[i].ptr][Before(t[i].next)]
      BY <2>2, <3>1
    <3> QED BY <2>2, <3>2, <3>3, <3>4, <3>5 DEF Popped
  <2>4. t[1].ptr = NULL \/ \A w \in DOMAIN m2 : ~Below(node, w, t[1].ptr)
    BY <1>11, <2>1
  <2>5. Tree(node, r, Dangling) /\ Emptied(node, t)
    BY <1>1
  <2> HIDE DEF t, t2, m2, v, r, n
  <2>6. Path(m2, r, t2) /\ Emptied(m2, t2)
    BY <2>3, <2>4, <2>5, PopPath
  <2> QED BY <2>6 DEF m2, t2
<1>17. n = 1 => InUse' = {}
  <2> SUFFICES ASSUME n = 1, NEW w \in InUse' PROVE FALSE
    OBVIOUS
  <2>1. w \in InUse /\ w # v /\ r = v
    BY <1>6
  <2>2. r \in DOMAIN node /\ Below(node, w, r)
    BY <1>1, <2>1 DEF Tree, Rooted
  <2>3. v # NULL
    BY <1>1, <2>1, <2>2
  <2> QED BY <1>1, <1>10, <2>1, <2>2, <2>3 DEF Alone
<1>18. Freeing'
  <2>1. CASE n = 1
    BY <1>4, <1>17, <2>1 DEF Freeing
  <2>2. CASE n # 1
    <3>1. stack'[Len(stack')].at = r /\ stack' # <<>>
      BY <1>4, <2>2
    <3> HIDE DEF r
    <3> QED BY <1>15, <1>16, <2>2, <3>1 DEF Freeing
  <2> QED BY <2>1, <2>2
<1> QED BY <1>6, <1>7, <1>8, <1>9, <1>18 DEF IInv

-----------------------------------------------------------------------------
(* The theorems.                                                           *)

LEMMA Initially == Init => IInv
<1> SUFFICES ASSUME Init PROVE IInv
  OBVIOUS
<1>1. HeapInv
  BY HeapAssumption DEF Init, HeapInit, HeapInv, HeapTypes, HeapSound, InUse, HeapAssumption
<1>2. InUse = {} /\ DOMAIN node = {} /\ node = <<>> /\ tree = NULL /\ pc = "main"
  BY DEF Init, HeapInit, InUse
<1>3. Nodes
  BY <1>2 DEF Nodes, NULL
<1>4. Tree(node, tree, {})
  BY <1>2 DEF Tree, Memory, Linked, Complete, Distinct, Rooted, Inner
<1>5. Control
  <2>1. 0 \in Numbers
    <3>1. 2^(Top + 1) \in Nat \ {0}
      BY TreeAssumption, PowersAssumption DEF TreeAssumption
    <3> QED BY <3>1 DEF Numbers
  <2>2. <<>> \in Seq(Numbers) /\ <<>> \in Seq(Frames) /\ Len(<<>>) = 0
    OBVIOUS
  <2>3. 0 \in 0..Top /\ 0 \in 0..MaxTake /\ Commands \in 0..Commands
    BY TreeAssumption DEF TreeAssumption
  <2> QED BY <2>1, <2>2, <2>3 DEF Init, Control
<1>6. Phases /\ Adding /\ Walking /\ Freeing
  BY <1>2 DEF Init, Phases, Adding, Walking, Freeing
<1>7. Filled /\ Standing
  BY <1>2, <1>4 DEF Filled, Standing
<1> QED BY <1>1, <1>3, <1>5, <1>6, <1>7 DEF IInv

LEMMA StutterKeeps == ASSUME IInv, UNCHANGED vars PROVE IInv'
<1>1. UNCHANGED <<heap, tree, node, pc, number, bit_pos, parent, limit, room, out, stack, input>>
  BY DEF vars, walk
<1>2. HeapInv' /\ InUse' = InUse
  BY <1>1, SameHeap DEF IInv
<1>3. Nodes' /\ Control' /\ Phases' /\ Adding' /\ Standing'
  BY <1>1, <1>2 DEF IInv, Nodes, Control, Phases, Adding, Standing
<1>4. Trail' = Trail /\ (Full' <=> Full)
  BY <1>1 DEF Trail, Link, Full
<1>5. Walking'
  BY <1>1, <1>2, <1>4 DEF IInv, Walking
<1>6. Dangling' = Dangling
  BY <1>1, <1>2, <1>4 DEF Dangling
<1>7. Freeing'
  BY <1>1, <1>2, <1>4, <1>6 DEF IInv, Freeing
<1>8. Filled'
  BY <1>1, <1>2, <1>4 DEF IInv, Filled, Empty
<1> QED BY <1>2, <1>3, <1>5, <1>7, <1>8 DEF IInv

LEMMA StepKeeps == IInv /\ [Next]_vars => IInv'
<1> SUFFICES ASSUME IInv, [Next]_vars PROVE IInv'
  OBVIOUS
<1>1. ASSUME NEW n \in Numbers, ReadAdd(n) PROVE IInv'
  BY <1>1, ReadAddKeeps
<1>2. ASSUME NEW n \in Takes, ReadTake(n) PROVE IInv'
  BY <1>2, ReadTakeKeeps
<1>3. CASE EndOfInput
  BY <1>3, EndOfInputKeeps
<1>4. CASE Create
  BY <1>4, CreateKeeps
<1>5. CASE Inject
  BY <1>5, InjectKeeps
<1>6. CASE Descend
  BY <1>6, DescendKeeps
<1>7. CASE Count
  BY <1>7, CountKeeps
<1>8. CASE StartTake
  BY <1>8, StartTakeKeeps
<1>9. ASSUME NEW s \in Sides, TakeFrom(s) PROVE IInv'
  BY <1>9, TakeFromKeeps
<1>10. CASE Leave
  BY <1>10, LeaveFullKeeps, LeaveEmptyKeeps
<1>11. CASE VisitNothing
  BY <1>11, VisitNothingKeeps
<1>12. CASE VisitBranch
  BY <1>12, VisitBranchKeeps
<1>13. CASE Write
  BY <1>13, WriteKeeps
<1>14. CASE ReleaseBranch
  BY <1>14, ReleaseBranchKeeps
<1>15. CASE ReleaseNode
  BY <1>15, ReleaseNodeKeeps
<1>16. CASE Exit
  BY <1>16, ExitKeeps
<1>17. CASE UNCHANGED vars
  BY <1>17, StutterKeeps
<1> QED BY <1>1, <1>2, <1>3, <1>4, <1>5, <1>6, <1>7, <1>8, <1>9, <1>10, <1>11, <1>12,
           <1>13, <1>14, <1>15, <1>16, <1>17 DEF Next, Read, Run, Sides

\* The invariant says of a tree what the properties say of the program.
LEMMA TreeProperties ==
    ASSUME IInv PROVE TypeOK /\ HeapSound /\ OneLink /\ WellFormed /\ AllReleased
<1>1. TypeOK /\ HeapSound /\ AllReleased
  BY DEF IInv, HeapInv, HeapTypes, Nodes, Control, Phases, TypeOK, AllReleased
<1>2. ASSUME pc \notin {"release", "done"}
      PROVE  /\ Tree(node, tree, {}) /\ Memory(node) /\ DOMAIN node = InUse
             /\ NULL \notin InUse /\ Branches = Inner(node)
  <2>1. Tree(node, tree, {}) /\ Memory(node) /\ DOMAIN node = InUse
    BY <1>2 DEF IInv, Standing, Nodes, Tree
  <2> QED BY <2>1, MemoryType DEF Branches, Inner
<1>3. ASSUME pc \notin {"release", "done"}, NEW a \in Inner(node), NEW s \in Sides,
             node[a][s] # NULL
      PROVE  Hangs(node, node[a][s], a, s)
  BY <1>2, <1>3 DEF Tree, Linked
<1>4. OneLink
  <2> SUFFICES ASSUME pc \notin {"release", "done"}
               PROVE  /\ \A b \in InUse : \E at \in Links :
                            Link(at) = b /\ \A other \in Links \ {at} : Link(other) # b
                      /\ \A at \in Links : Link(at) # NULL => Link(at) \in InUse
    BY DEF OneLink
  <2>1. \A at \in Links \ {Root} : \E a \in Inner(node), s \in Sides :
           at = <<a, s>> /\ Link(at) = node[a][s]
    BY <1>2 DEF Links, Link, Sides
  <2>2. \A a \in Inner(node), s \in Sides : <<a, s>> \in Links /\ Link(<<a, s>>) = node[a][s]
    BY <1>2 DEF Links, Link, Sides, Root, Inner
  <2>3. Root \in Links /\ Link(Root) = tree
    BY DEF Links, Link
  <2>4. ASSUME NEW at \in Links, Link(at) # NULL PROVE Link(at) \in InUse
    <3>1. CASE at = Root
      BY <1>2, <2>3, <2>4, <3>1 DEF Tree, Rooted
    <3>2. CASE at # Root
      <4>1. PICK a \in Inner(node), s \in Sides : at = <<a, s>> /\ Link(at) = node[a][s]
        BY <2>1, <3>2
      <4> QED BY <1>2, <1>3, <2>4, <4>1 DEF Hangs
    <3> QED BY <3>1, <3>2
  <2>5. ASSUME NEW b \in InUse
        PROVE  \E at \in Links : Link(at) = b /\ \A other \in Links \ {at} : Link(other) # b
    <3>1. /\ \A a, c \in Inner(node), s, t \in Sides :
                Hangs(node, b, a, s) /\ Hangs(node, b, c, t)
                /\ node[a][s] = b /\ node[c][t] = b => a = c /\ s = t
          /\ \A a \in Inner(node), s \in Sides : Hangs(node, b, a, s) => b # tree
      <4> DEFINE G == {}
      <4>1. Tree(node, tree, G) /\ b \in DOMAIN node
        BY <1>2
      <4> HIDE DEF G
      <4> QED BY <4>1, OneParent
    <3>2. b # NULL
      BY <1>2
    <3>3. CASE b = tree
      <4>1. ASSUME NEW other \in Links \ {Root}, Link(other) = b PROVE FALSE
        <5>1. PICK a \in Inner(node), s \in Sides : Link(other) = node[a][s]
          BY <2>1
        <5> QED BY <1>3, <3>1, <3>2, <3>3, <4>1, <5>1
      <4> QED BY <2>3, <3>3, <4>1
    <3>4. CASE b # tree
      <4>1. PICK a \in Inner(node), s \in Sides : node[a][s] = b
        BY <1>2, <3>4, SomeParent
      <4>2. Hangs(node, b, a, s)
        BY <1>3, <3>2, <4>1
      <4>3. ASSUME NEW other \in Links \ {<<a, s>>}, Link(other) = b PROVE FALSE
        <5>1. other # Root
          BY <2>3, <3>4, <4>3
        <5>2. PICK c \in Inner(node), t \in Sides : other = <<c, t>> /\ Link(other) = node[c][t]
          BY <2>1, <5>1
        <5>3. Hangs(node, b, c, t)
          BY <1>3, <3>2, <4>3, <5>2
        <5> QED BY <3>1, <4>1, <4>2, <4>3, <5>2, <5>3
      <4>4. <<a, s>> \in Links /\ Link(<<a, s>>) = b
        BY <2>2, <4>1
      <4> QED BY <4>3, <4>4
    <3> QED BY <3>3, <3>4
  <2> QED BY <2>4, <2>5
<1>5. Ordered
  <2> SUFFICES ASSUME pc \notin {"release", "done"}, NEW b \in Branches, NEW s \in Sides,
                      node[b][s] # NULL
               PROVE  LET c == node[b][s] IN
                      /\ node[c].bit_pos < node[b].bit_pos
                      /\ Side(node[c].number, node[b].bit_pos) = s
                      /\ Agree(node[c].number, node[b].number, node[b].bit_pos)
    BY DEF Ordered, Sides
  <2>1. Hangs(node, node[b][s], b, s)
    BY <1>2, <1>3
  <2> QED BY <2>1 DEF Hangs, Below, SideOf
<1>6. NothingEmpty
  BY DEF IInv, Filled, NothingEmpty
<1> QED BY <1>1, <1>4, <1>5, <1>6 DEF WellFormed

\* Every variable of radix.c has its type, whatever the input.
THEOREM RadixTyped == Spec => []TypeOK
BY Initially, StepKeeps, TreeProperties, PTL DEF Spec

\* The blocks in use are exactly the nodes of one tree: none leaks, none is linked twice
\* and no link leads to a block that was released, while numbers are added and taken.
THEOREM RadixOneTree == Spec => []OneLink
BY Initially, StepKeeps, TreeProperties, PTL DEF Spec

\* The order of bits that add_number and take_numbers rely on, and no dead ends.
THEOREM RadixWellFormed == Spec => []WellFormed
BY Initially, StepKeeps, TreeProperties, PTL DEF Spec

\* release_tree gives every block back.
THEOREM RadixReleases == Spec => []AllReleased
BY Initially, StepKeeps, TreeProperties, PTL DEF Spec

\* The program gives back only blocks it was given, and each once.
LEMMA HeapSteps == IInv /\ [Next]_vars => [HeapNext]_heap
<1> SUFFICES ASSUME IInv, [Next]_vars PROVE [HeapNext]_heap
  OBVIOUS
<1>1. ASSUME Allocate(NodeSize) PROVE HeapNext
  BY <1>1, TreeAssumption DEF HeapNext, TreeAssumption
<1>2. CASE Create \/ Inject
  BY <1>1, <1>2 DEF Create, Inject
<1>3. CASE Leave
  <2>1. CASE Empty(Visited)
    BY <1>3, <2>1, LeaveFacts DEF HeapNext
  <2>2. CASE ~Empty(Visited)
    BY <1>3, <2>2, LeaveFacts
  <2> QED BY <2>1, <2>2
<1>4. CASE ReleaseNode
  <2>1. CASE Top1.at = NULL
    BY <1>4, <2>1 DEF ReleaseNode
  <2>2. CASE Top1.at # NULL
    <3>1. Release(Top1.at) /\ Releasing
      BY <1>4, <2>2 DEF ReleaseNode
    <3>2. Top1.at \in InUse
      BY <2>2, <3>1, OnTheWayOut
    <3> QED BY <3>1, <3>2 DEF HeapNext
  <2> QED BY <2>1, <2>2
<1>5. CASE \/ Read \/ EndOfInput \/ Descend \/ Count \/ StartTake
           \/ (\E side \in {"zero", "one"} : TakeFrom(side))
           \/ VisitNothing \/ VisitBranch \/ Write \/ ReleaseBranch \/ Exit
  BY <1>5 DEF Read, ReadAdd, ReadTake, EndOfInput, Descend, Count, StartTake, TakeFrom,
              VisitNothing, VisitBranch, Write, ReleaseBranch, Exit
<1>6. CASE UNCHANGED vars
  BY <1>6 DEF vars
<1> QED BY <1>2, <1>3, <1>4, <1>5, <1>6 DEF Next, Run

\* radix.c uses the library as it is meant to be used: it never gives back a block
\* twice or a block it was not given.
THEOREM RadixUsesHeap == Spec => HeapSpec
<1>1. Init => HeapInit
  BY DEF Init
<1> QED BY <1>1, Initially, StepKeeps, HeapSteps, PTL DEF Spec, HeapSpec

\* The nodes of the tree, the free blocks and what the heap has left do not overlap.
THEOREM RadixHeapSound == Spec => []HeapSound
BY Initially, StepKeeps, TreeProperties, PTL DEF Spec

-----------------------------------------------------------------------------
(* The sorted bag.                                                         *)

LeavesOf(m) == {b \in DOMAIN m : m[b].bit_pos = 0}
LeavesFor(m, n) == {b \in LeavesOf(m) : m[b].number \div 2 = n \div 2}

\* How often a memory counts a number.
CopiesIn(m, n) ==
    IF LeavesFor(m, n) = {} THEN 0
    ELSE m[CHOOSE b \in LeavesFor(m, n) : TRUE][Side(n, 0)]
BagIn(m) == [n \in Numbers |-> CopiesIn(m, n)]

LEMMA BagOf ==
    ASSUME IInv, IInv'
    PROVE  /\ pc \notin {"release", "done"} => Bag = BagIn(node)
           /\ pc' \notin {"release", "done"} => Bag' = BagIn(node')
<1>1. DOMAIN node = InUse /\ DOMAIN node' = InUse'
  BY DEF IInv, Nodes
<1>2. \A n : Copies(n) = CopiesIn(node, n)
  BY <1>1 DEF Copies, CopiesIn, LeavesFor, LeavesOf, Leaves
<1>3. \A n : Copies(n)' = CopiesIn(node', n)
  BY <1>1 DEF Copies, CopiesIn, LeavesFor, LeavesOf, Leaves
<1> QED BY <1>2, <1>3 DEF Bag, BagIn

\* A number is its half and its lowest bit.
LEMMA Halves ==
    ASSUME NEW n \in Numbers
    PROVE  /\ n \in Nat /\ n \div 2 \in Nat /\ Bit(n, 0) \in {0, 1}
           /\ n = 2 * (n \div 2) + Bit(n, 0)
           /\ 0 \in Positions
           /\ \A m \in Numbers : Agree(n, m, 0) <=> n \div 2 = m \div 2
<1>1. n \in Nat /\ 0 \in Positions
  BY NumberType, TreeAssumption DEF Positions, TreeAssumption
<1>2. 2^0 = 1 /\ 2^(0 + 1) = 2
  BY PowersAssumption, TreeAssumption DEF TreeAssumption
<1>3. /\ n \div 2^0 = 2 * (n \div 2^(0 + 1)) + Bit(n, 0)
      /\ n \div 2^(0 + 1) \in Nat /\ Bit(n, 0) \in {0, 1}
  BY <1>1, Quotients
<1>4. n \div 1 = n
  BY <1>1
<1>5. \A m \in Numbers : Agree(n, m, 0) <=> n \div 2^(0 + 1) = m \div 2^(0 + 1)
  BY <1>1, AgreeQuotient
<1> QED BY <1>1, <1>2, <1>3, <1>4, <1>5

\* Two numbers with the same half and on the same side are the same.
LEMMA SameNumber ==
    ASSUME NEW n \in Numbers, NEW m \in Numbers, n \div 2 = m \div 2, Side(n, 0) = Side(m, 0)
    PROVE  n = m
<1>1. /\ n = 2 * (n \div 2) + Bit(n, 0) /\ Bit(n, 0) \in {0, 1}
      /\ m = 2 * (m \div 2) + Bit(m, 0) /\ Bit(m, 0) \in {0, 1}
  BY Halves
<1>2. Bit(n, 0) = Bit(m, 0)
  BY <1>1 DEF Side
<1> QED BY <1>1, <1>2

\* There is one leaf for a number and its neighbour.
LEMMA CopiesOfLeaf ==
    ASSUME NEW m, Memory(m), Distinct(m), NEW n \in Numbers, NEW v \in LeavesFor(m, n)
    PROVE  LeavesFor(m, n) = {v} /\ CopiesIn(m, n) = m[v][Side(n, 0)]
<1>1. ASSUME NEW w \in LeavesFor(m, n) PROVE w = v
  <2>1. /\ v \in DOMAIN m /\ w \in DOMAIN m /\ m[v].bit_pos = 0 /\ m[w].bit_pos = 0
        /\ m[v].number \div 2 = m[w].number \div 2
    BY DEF LeavesFor, LeavesOf
  <2>2. m[v].number \in Numbers /\ m[w].number \in Numbers
    BY <2>1, MemoryType
  <2>3. Agree(m[v].number, m[w].number, 0) /\ Agree(m[w].number, m[v].number, 0)
    BY <2>1, <2>2, Halves
  <2> QED BY <2>1, <2>3 DEF Below, Distinct
<1>2. LeavesFor(m, n) = {v}
  BY <1>1
<1> QED BY <1>2 DEF CopiesIn

\* Leaves that count nothing may go.
LEMMA SameCopies ==
    ASSUME NEW m, Memory(m), Distinct(m), NEW m2, Memory(m2), Distinct(m2),
           \A b \in LeavesOf(m2) : b \in LeavesOf(m) /\ m2[b] = m[b],
           \A b \in LeavesOf(m) : b \in LeavesOf(m2) \/ (m[b].zero = 0 /\ m[b].one = 0)
    PROVE  BagIn(m2) = BagIn(m)
<1> SUFFICES ASSUME NEW n \in Numbers PROVE CopiesIn(m2, n) = CopiesIn(m, n)
  BY DEF BagIn
<1>1. CASE LeavesFor(m2, n) # {}
  <2>1. PICK v \in LeavesFor(m2, n) : TRUE
    BY <1>1
  <2>2. v \in LeavesFor(m, n) /\ m2[v] = m[v]
    BY DEF LeavesFor
  <2> QED BY <2>2, CopiesOfLeaf
<1>2. CASE LeavesFor(m2, n) = {} /\ LeavesFor(m, n) # {}
  <2>1. PICK v \in LeavesFor(m, n) : TRUE
    BY <1>2
  <2>2. v \notin LeavesOf(m2)
    BY <1>2 DEF LeavesFor
  <2>3. m[v].zero = 0 /\ m[v].one = 0
    BY <2>2 DEF LeavesFor
  <2>4. CopiesIn(m, n) = m[v][Side(n, 0)] /\ Side(n, 0) \in {"zero", "one"}
    BY CopiesOfLeaf, SideType DEF Sides
  <2>5. CopiesIn(m, n) = 0
    BY <2>3, <2>4
  <2> QED BY <1>2, <2>5 DEF CopiesIn
<1>3. CASE LeavesFor(m2, n) = {} /\ LeavesFor(m, n) = {}
  BY <1>3 DEF CopiesIn
<1> QED BY <1>1, <1>2, <1>3

\* A leaf counts one number differently.
LEMMA OtherCopies ==
    ASSUME NEW m, Memory(m), Distinct(m), NEW m2, Memory(m2), Distinct(m2),
           LeavesOf(m2) = LeavesOf(m), NEW n \in Numbers, NEW v \in LeavesFor(m, n),
           NEW k, m2[v] = [m[v] EXCEPT ![Side(n, 0)] = k],
           \A b \in LeavesOf(m) : b # v => m2[b] = m[b]
    PROVE  BagIn(m)[n] = m[v][Side(n, 0)] /\ BagIn(m2) = [BagIn(m) EXCEPT ![n] = k]
<1>0. \A j \in Numbers : \A u \in LeavesFor(m2, j) : CopiesIn(m2, j) = m2[u][Side(j, 0)]
  BY CopiesOfLeaf
<1>1. CopiesIn(m, n) = m[v][Side(n, 0)]
  BY CopiesOfLeaf
<1>2. m[v] \in Node /\ m2[v] \in Node /\ v \in LeavesOf(m)
  BY MemoryType DEF LeavesFor, LeavesOf, Memory
<1>3. m2[v].number = m[v].number /\ \A s \in Sides : m2[v][s] = IF s = Side(n, 0) THEN k ELSE m[v][s]
  <2>1. Side(n, 0) \in {"zero", "one"}
    BY SideType DEF Sides
  <2> QED BY <1>2, <2>1 DEF Node, Sides
<1>4. ASSUME NEW i \in Numbers PROVE CopiesIn(m2, i) = IF i = n THEN k ELSE CopiesIn(m, i)
  <2>1. LeavesFor(m2, i) = LeavesFor(m, i)
    <3>1. \A b \in LeavesOf(m) : m2[b].number = m[b].number
      BY <1>3
    <3> QED BY <3>1 DEF LeavesFor
  <2>2. CASE v \in LeavesFor(m, i)
    <3>1. CopiesIn(m, i) = m[v][Side(i, 0)] /\ CopiesIn(m2, i) = m2[v][Side(i, 0)]
      <4>1. CopiesIn(m, i) = m[v][Side(i, 0)]
        BY <2>2, CopiesOfLeaf
      <4>2. v \in LeavesFor(m2, i)
        BY <2>1, <2>2
      <4>3. CopiesIn(m2, i) = m2[v][Side(i, 0)]
        BY <1>0, <4>2
      <4> QED BY <4>1, <4>3
    <3>2. i \div 2 = n \div 2
      BY <2>2 DEF LeavesFor
    <3>3. Side(i, 0) = Side(n, 0) => i = n
      BY <3>2, SameNumber
    <3> QED BY <1>3, <3>1, <3>3, SideType
  <2>3. CASE v \notin LeavesFor(m, i)
    <3>1. i # n
      BY <2>3
    <3>2. CASE LeavesFor(m, i) = {}
      BY <2>1, <3>1, <3>2 DEF CopiesIn
    <3>3. CASE LeavesFor(m, i) # {}
      <4>1. PICK w \in LeavesFor(m, i) : TRUE
        BY <3>3
      <4>2. w # v /\ w \in LeavesOf(m) /\ m2[w] = m[w]
        BY <2>3 DEF LeavesFor
      <4> QED BY <2>1, <3>1, <4>2, CopiesOfLeaf
    <3> QED BY <3>2, <3>3
  <2> QED BY <2>2, <2>3
<1> QED BY <1>1, <1>4 DEF BagIn

\* The leaves when a node is inserted.
LEMMA InsertedLeaves ==
    ASSUME NEW m, Memory(m), NEW at, Place(m, at), NEW b, b \notin DOMAIN m, NEW x
    PROVE  /\ Inserted(m, at, b, x)[b] = x
           /\ \A c \in LeavesOf(m) : /\ c # b /\ c \in LeavesOf(Inserted(m, at, b, x))
                                     /\ Inserted(m, at, b, x)[c] = m[c]
           /\ \A c \in LeavesOf(Inserted(m, at, b, x)) : c = b \/ c \in LeavesOf(m)
<1> DEFINE m2 == Inserted(m, at, b, x)
<1>1. /\ DOMAIN m2 = DOMAIN m \cup {b} /\ m2[b] = x
      /\ \A c \in DOMAIN m : m2[c] = IF at # Root /\ c = at[1]
                                     THEN [m[c] EXCEPT ![at[2]] = b] ELSE m[c]
  BY DEF Inserted
<1> HIDE DEF m2
<1>2. ASSUME NEW c \in DOMAIN m, at # Root, c = at[1]
      PROVE  m[c].bit_pos # 0 /\ m2[c].bit_pos = m[c].bit_pos
  <2>1. c \in Inner(m) /\ at[2] \in {"zero", "one"} /\ m[c] \in Node
    BY <1>2, PlaceType, MemoryType DEF Sides
  <2>2. m2[c] = [m[c] EXCEPT ![at[2]] = b]
    BY <1>1, <1>2
  <2> QED BY <2>1, <2>2 DEF Node, Inner
<1>3. \A c \in LeavesOf(m) : c # b /\ c \in LeavesOf(m2) /\ m2[c] = m[c]
  BY <1>1, <1>2 DEF LeavesOf
<1>4. \A c \in LeavesOf(m2) : c = b \/ c \in LeavesOf(m)
  BY <1>1, <1>2 DEF LeavesOf
<1> QED BY <1>1, <1>3, <1>4 DEF m2

\* The variables of the sorted bag.
AddingNow == IF pc = "add" THEN number ELSE -1
OwedNow == IF pc \in {"take", "visit"} THEN limit - Len(out) ELSE 0
BagVars == <<Bag, AddingNow, OwedNow, out>>

\* A new leaf, or one that is counted once more, is a number added.
LEMMA CreateAdds == ASSUME IInv, IInv', Create PROVE Promise!Add
<1> DEFINE x == [bit_pos |-> 0, number |-> number,
                 zero |-> 1 - Bit(number, 0), one |-> Bit(number, 0)]
           m == node
           m2 == node'
<1>1. /\ pc = "add" /\ Allocate(NodeSize) /\ Point(parent, New, With(New, x))
      /\ Added /\ UNCHANGED <<limit, room, out, stack, input>>
  BY DEF Create
<1>2. /\ Memory(node) /\ Distinct(node) /\ Place(node, parent) /\ DOMAIN node = InUse
      /\ number \in Numbers
  BY <1>1, Looking DEF Tree
<1>3. New \notin DOMAIN node
  BY <1>1, <1>2, NewBlock DEF IInv
<1>4. pc' = "main" /\ UNCHANGED <<limit, out>>
  BY <1>1 DEF Added
<1>5. Memory(node') /\ Distinct(node')
  BY <1>4 DEF IInv, Standing, Tree
<1>6. node' = Inserted(node, parent, New, x)
  <2> HIDE DEF x
  <2> QED BY <1>1, <1>2, <1>3, PointInserted
<1>7. /\ node'[New] = x
      /\ \A c \in LeavesOf(node) : c # New /\ c \in LeavesOf(node') /\ node'[c] = node[c]
      /\ \A c \in LeavesOf(node') : c = New \/ c \in LeavesOf(node)
  <2> HIDE DEF x
  <2> QED BY <1>2, <1>3, <1>6, InsertedLeaves
<1>8. New \in LeavesFor(node', number)
  <2>1. New \in DOMAIN node'
    BY <1>6 DEF Inserted
  <2> QED BY <1>7, <2>1 DEF LeavesFor, LeavesOf
<1>9. LeavesFor(node', number) = {New} /\ CopiesIn(node', number) = 1
  <2>1. LeavesFor(m2, number) = {New} /\ CopiesIn(m2, number) = m2[New][Side(number, 0)]
    <3>1. Memory(m2) /\ Distinct(m2) /\ New \in LeavesFor(m2, number) /\ number \in Numbers
      BY <1>2, <1>5, <1>8
    <3> HIDE DEF m2
    <3> QED BY <3>1, CopiesOfLeaf
  <2>2. x[Side(number, 0)] = 1
    BY <1>2, Halves DEF Side
  <2> QED BY <1>7, <2>1, <2>2
<1>10. ASSUME NEW i \in Numbers
       PROVE  CopiesIn(node', i) = IF i = number THEN CopiesIn(node, i) + 1 ELSE CopiesIn(node, i)
  <2>1. CASE i \div 2 = number \div 2
    <3>1. LeavesFor(node', i) = {New} /\ LeavesFor(node, i) = {}
      <4>1. LeavesFor(node', i) = {New}
        BY <1>9, <2>1 DEF LeavesFor
      <4>2. \A c \in LeavesFor(node, i) : c # New /\ c \in LeavesFor(node', i)
        BY <1>7 DEF LeavesFor
      <4> QED BY <4>1, <4>2
    <3>2. CopiesIn(node, i) = 0
      BY <3>1 DEF CopiesIn
    <3>3. CopiesIn(node', i) = x[Side(i, 0)]
      BY <1>7, <3>1 DEF CopiesIn
    <3>4. x[Side(i, 0)] = IF i = number THEN 1 ELSE 0
      <4>1. i # number => Side(i, 0) # Side(number, 0)
        BY <1>2, <2>1, SameNumber
      <4>2. Bit(i, 0) \in {0, 1} /\ Bit(number, 0) \in {0, 1}
        BY <1>2, Halves
      <4> QED BY <4>1, <4>2 DEF Side
    <3> QED BY <3>2, <3>3, <3>4
  <2>2. CASE i \div 2 # number \div 2
    <3>1. New \notin LeavesFor(node', i)
      BY <1>7, <2>2 DEF LeavesFor
    <3>2. LeavesFor(node', i) = LeavesFor(node, i)
      BY <1>7, <3>1 DEF LeavesFor
    <3>3. \A c \in LeavesFor(node, i) : node'[c] = node[c]
      BY <1>7 DEF LeavesFor
    <3>4. CopiesIn(node', i) = CopiesIn(node, i)
      BY <3>2, <3>3 DEF CopiesIn
    <3>5. i # number
      BY <2>2
    <3> QED BY <3>4, <3>5
  <2> QED BY <2>1, <2>2
<1>11. Bag' = [Bag EXCEPT ![number] = @ + 1]
  <2>1. Bag = BagIn(node) /\ Bag' = BagIn(node')
    BY <1>1, <1>4, BagOf
  <2> QED BY <1>2, <1>10, <2>1 DEF BagIn
<1>12. number # -1
  BY <1>2, NumberType
<1> QED BY <1>1, <1>4, <1>11, <1>12 DEF Promise!Add

LEMMA CountAdds == ASSUME IInv, IInv', Count PROVE Promise!Add
<1> DEFINE s == Side(number, 0)
           k == node[Here][s] + 1
<1>1. /\ pc = "add" /\ Here # NULL /\ Diff = {} /\ At = 0
      /\ node' = [node EXCEPT ![Here][s] = k] /\ UNCHANGED <<heap, tree>>
      /\ Added /\ UNCHANGED <<limit, room, out, stack, input>>
  BY DEF Count
<1>2. /\ Here \in InUse /\ node[Here].bit_pos = 0 /\ s \in Sides /\ number \in Numbers
      /\ Agree(number, node[Here].number, 0)
  <2>1. node[Here].bit_pos = 0
    BY <1>1, NoDifference
  <2> QED BY <1>1, <2>1, NoDifference, SideType
<1>3. Tree(node, tree, {}) /\ Memory(node) /\ Distinct(node) /\ DOMAIN node = InUse
  BY <1>1, Looking DEF Tree
<1>4. node[Here][s] \in Nat /\ node[Here].number \in Numbers
  BY <1>2, <1>3, MemoryType
<1>5. k \in Nat
  BY <1>4
<1>6. Here \in LeavesFor(node, number)
  <2>1. number \div 2 = node[Here].number \div 2
    BY <1>2, <1>4, Halves
  <2> QED BY <1>2, <1>3, <2>1 DEF LeavesFor, LeavesOf
<1>7. pc' = "main" /\ UNCHANGED <<limit, out>>
  BY <1>1 DEF Added
<1>8. /\ Recounted(node, node') /\ Tree(node', tree', {})
      /\ node'[Here] = [node[Here] EXCEPT ![s] = k]
      /\ \A c \in InUse : c # Here => node'[c] = node[c]
  <2> HIDE DEF s, k
  <2> QED BY <1>1, <1>2, <1>3, <1>5, Counted
<1>9. LeavesOf(node') = LeavesOf(node) /\ Memory(node') /\ Distinct(node')
  BY <1>8 DEF LeavesOf, Recounted, Keeps, Tree
<1>10. BagIn(node)[number] = node[Here][s] /\ BagIn(node') = [BagIn(node) EXCEPT ![number] = k]
  <2> DEFINE m == node
             m2 == node'
             v == Here
  <2>1. /\ Memory(m) /\ Distinct(m) /\ Memory(m2) /\ Distinct(m2)
        /\ LeavesOf(m2) = LeavesOf(m) /\ number \in Numbers /\ v \in LeavesFor(m, number)
        /\ m2[v] = [m[v] EXCEPT ![Side(number, 0)] = k]
        /\ \A b \in LeavesOf(m) : b # v => m2[b] = m[b]
    BY <1>2, <1>3, <1>6, <1>8, <1>9 DEF LeavesOf
  <2>2. BagIn(m)[number] = m[v][Side(number, 0)] /\ BagIn(m2) = [BagIn(m) EXCEPT ![number] = k]
    <3> HIDE DEF m, m2, v, k, s
    <3> QED BY <2>1, OtherCopies
  <2> QED BY <2>2
<1>11. Bag = BagIn(node) /\ Bag' = BagIn(node')
  BY <1>1, <1>7, BagOf
<1>12. number # -1
  BY <1>2, NumberType
<1> QED BY <1>1, <1>7, <1>10, <1>11, <1>12 DEF Promise!Add

\* Whatever else is in the tree is greater than what the leaf that is visited has to give.
LEMMA Smaller ==
    ASSUME IInv, Visiting, ~Full, AtLeaf, NEW w \in LeavesOf(node), w # Visited,
           NEW n \in Numbers, Visited \in LeavesFor(node, n),
           NEW i \in Numbers, w \in LeavesFor(node, i)
    PROVE  n < i
<1> DEFINE v == Visited
           m == node
           t == Trail
           len == Len(stack)
<1>1. /\ Memory(m) /\ Linked(m, {}) /\ Complete(m) /\ Distinct(m) /\ Rooted(m, tree)
      /\ Steps(m, tree, t) /\ Descending(m, t) /\ Emptied(m, t)
      /\ DOMAIN t = 1..len /\ len \in Nat \ {0} /\ t[1].ptr = v
      /\ \A k \in 1..len : k > 1 => t[k].ptr \in Inner(m)
  BY OnTheWay DEF Tree, Path
<1>2. /\ v \in DOMAIN m /\ w \in DOMAIN m /\ v # w /\ m[v].bit_pos = 0 /\ m[w].bit_pos = 0
      /\ m[v].number \in Numbers /\ m[w].number \in Numbers
      /\ m[v].number \div 2 = n \div 2 /\ m[w].number \div 2 = i \div 2
  BY <1>1, MemoryType DEF LeavesFor, LeavesOf
<1>3. Agree(n, m[v].number, 0) /\ Agree(m[w].number, i, 0)
  BY <1>2, Halves
<1> HIDE DEF v, m, t, len
<1>4. ~Below(m, w, v)
  BY <1>1, <1>2, Agreement DEF Below, Distinct
<1> DEFINE T == {k \in 1..len : Below(m, w, t[k].ptr)}
<1>5. T \in SUBSET Nat /\ T # {}
  <2>1. len \in 1..len /\ len + 1 \notin 1..len
    BY <1>1
  <2>2. t[len].ptr = tree
    BY <1>1, <2>1 DEF Steps
  <2>3. Below(m, w, t[len].ptr)
    BY <1>1, <1>2, <2>2 DEF Rooted
  <2> QED BY <2>1, <2>3
<1> HIDE DEF T
<1>6. PICK k \in T : \A l \in T : k <= l
  BY <1>5, LeastNat
<1>7. k \in 1..len /\ Below(m, w, t[k].ptr) /\ k # 1
  BY <1>1, <1>4, <1>6 DEF T
<1> DEFINE j == k - 1
<1>8. j \in 1..len /\ j + 1 = k /\ k > 1 /\ 1 \in 1..len
  BY <1>1, <1>7
<1>9. ~Below(m, w, t[j].ptr)
  BY <1>6, <1>7, <1>8 DEF T
<1> HIDE DEF j
<1> DEFINE a == t[k].ptr
<1>10. /\ a \in Inner(m) /\ a \in DOMAIN m /\ m[a].bit_pos \in Positions
       /\ m[a].bit_pos \in Nat /\ m[a].bit_pos > 0 /\ w # a
       /\ t[j].ptr = m[a][Before(t[k].next)]
       /\ t[k].next \in {"one", "leave"}
  <2>1. a \in Inner(m)
    BY <1>1, <1>7, <1>8
  <2>2. a \in DOMAIN m /\ m[a].bit_pos > 0
    BY <2>1 DEF Inner
  <2>3. t[j].ptr = m[t[j + 1].ptr][Before(t[j + 1].next)]
    BY <1>1, <1>7, <1>8 DEF Steps
  <2>4. t[k].next \in {"one", "leave"}
    BY <1>1, <1>7, <1>8 DEF Steps, Sides
  <2> QED BY <1>1, <1>2, <1>8, <2>1, <2>2, <2>3, <2>4, MemoryType
<1>11. SideOf(m, w, a) # Before(t[k].next)
  BY <1>1, <1>2, <1>7, <1>9, <1>10 DEF Complete
<1>12. Below(m, v, a) /\ SideOf(m, v, a) = Before(t[k].next)
  BY <1>1, <1>2, <1>7, <1>8 DEF Descending
<1>13. SideOf(m, w, a) \in {"zero", "one"}
  BY SideType DEF SideOf, Sides
<1>14. t[k].next = "one"
  <2> SUFFICES ASSUME t[k].next = "leave" PROVE FALSE
    BY <1>10
  <2>1. "zero" \in DoneSides(t, k)
    BY DEF DoneSides, Sides
  <2>2. Clear(m, a, "zero")
    BY <1>1, <1>7, <2>1 DEF Emptied
  <2>3. SideOf(m, w, a) # "zero"
    BY <1>2, <1>7, <1>10, <2>2 DEF Clear
  <2> QED BY <1>11, <1>13, <2>3 DEF Before
<1>15. SideOf(m, v, a) = "zero" /\ SideOf(m, w, a) = "one"
  BY <1>11, <1>12, <1>13, <1>14 DEF Before
<1> DEFINE p == m[a].bit_pos
<1>16. Agree(n, i, p) /\ Side(n, p) = "zero" /\ Side(i, p) = "one"
  <2>1. Agree(m[v].number, m[a].number, p) /\ Agree(m[w].number, m[a].number, p)
    BY <1>7, <1>12 DEF Below
  <2>2. 0 \in Positions /\ p \in Positions /\ 0 < p /\ 0 <= p
    BY <1>10, Halves
  <2> HIDE DEF p
  <2>3. /\ Agree(n, m[v].number, p) /\ Agree(m[w].number, i, p)
        /\ Side(n, p) = Side(m[v].number, p) /\ Side(m[w].number, p) = Side(i, p)
    BY <1>3, <2>2, Agreement
  <2>4. Agree(n, m[a].number, p) /\ Agree(m[a].number, i, p)
    BY <2>1, <2>3, Agreement
  <2>5. Agree(n, i, p)
    BY <2>4, Agreement
  <2> QED BY <1>15, <2>3, <2>5 DEF SideOf, p
<1>17. Bit(n, p) = 0 /\ Bit(i, p) = 1
  <2>1. Bit(n, p) \in {0, 1} /\ Bit(i, p) \in {0, 1}
    BY <1>10, NumberType, Quotients
  <2> QED BY <1>16, <2>1 DEF Side
<1> QED BY <1>10, <1>16, <1>17, FirstDifference

\* The number taken is in the leaf that is visited, on the side it is taken from.
LEMMA ValueTaken ==
    ASSUME IInv, NEW s \in Sides, TakeFrom(s)
    PROVE  /\ Value(s) \in Numbers /\ Side(Value(s), 0) = s
           /\ Visited \in LeavesFor(node, Value(s))
           /\ Value(s) = 2 * (node[Visited].number \div 2) + (IF s = "one" THEN 1 ELSE 0)
<1> DEFINE v == Visited
           n == node[v].number
           b == IF s = "one" THEN 1 ELSE 0
           q == n \div 2
<1>1. Visiting /\ v # NULL /\ node[v].bit_pos = 0 /\ out' = Append(out, Value(s))
  BY DEF TakeFrom, AtLeaf
<1>2. Memory(node) /\ DOMAIN node = InUse /\ v \in InUse
  BY <1>1, OnTheWay
<1>3. n \in Numbers
  BY <1>2, MemoryType
<1>4. n \in Nat /\ q \in Nat /\ Bit(n, 0) \in {0, 1} /\ n = 2 * q + Bit(n, 0)
  BY <1>3, Halves
<1>5. Value(s) = 2 * q + b /\ b \in {0, 1}
  BY <1>4 DEF Value
<1>6. Value(s) \in Numbers
  <2>1. out \in Seq(Numbers) /\ out' \in Seq(Numbers)
    <3>1. IInv'
      BY TakeFromKeeps
    <3> QED BY <3>1 DEF IInv, Control
  <2>2. Append(out, Value(s))[Len(out) + 1] = Value(s) /\ Len(out) + 1 \in DOMAIN out'
    BY <1>1, <2>1
  <2> QED BY <1>1, <2>1, <2>2
<1>7. Value(s) \div 2 = q
  <2> HIDE DEF q, b
  <2> QED BY <1>4, <1>5
<1>8. Bit(Value(s), 0) = b
  <2>1. Value(s) = 2 * (Value(s) \div 2) + Bit(Value(s), 0) /\ Bit(Value(s), 0) \in {0, 1}
    BY <1>6, Halves
  <2> HIDE DEF q, b
  <2> QED BY <1>4, <1>5, <1>7, <2>1
<1>9. Side(Value(s), 0) = s
  BY <1>8 DEF Side, Sides
<1>10. v \in LeavesFor(node, Value(s))
  BY <1>1, <1>2, <1>7 DEF LeavesFor, LeavesOf
<1> QED BY <1>5, <1>6, <1>9, <1>10

\* What is taken is the smallest number of the bag.
LEMMA TakesSmallest ==
    ASSUME IInv, NEW s \in Sides, TakeFrom(s),
           NEW i \in Numbers, CopiesIn(node, i) > 0
    PROVE  Value(s) <= i
<1> DEFINE v == Visited
           n == Value(s)
<1> SUFFICES n <= i
  OBVIOUS
<1>1. /\ Visiting /\ AtLeaf /\ ~Full /\ v # NULL
      /\ s = "zero" \/ node[v].zero = 0
  BY DEF TakeFrom, AtLeaf, Taken
<1>2. /\ n \in Numbers /\ v \in LeavesFor(node, n)
      /\ n = 2 * (node[v].number \div 2) + (IF s = "one" THEN 1 ELSE 0)
  BY ValueTaken
<1>3. Memory(node) /\ Distinct(node)
  BY <1>1, OnTheWay DEF Tree
<1>4. PICK w \in LeavesFor(node, i) : CopiesIn(node, i) = node[w][Side(i, 0)]
  <2>1. LeavesFor(node, i) # {}
    BY DEF CopiesIn
  <2>2. PICK w \in LeavesFor(node, i) : TRUE
    BY <2>1
  <2> QED BY <1>3, <2>2, CopiesOfLeaf
<1>5. CASE w # v
  <2>1. n < i
    <3>1. w \in LeavesOf(node)
      BY DEF LeavesFor
    <3> QED BY <1>1, <1>2, <1>5, <3>1, Smaller
  <2>2. n \in Nat /\ i \in Nat
    BY <1>2, NumberType
  <2> HIDE DEF n
  <2> QED BY <2>1, <2>2
<1>6. CASE w = v
  <2> DEFINE q == node[v].number \div 2
  <2>1. i \div 2 = q /\ i = 2 * (i \div 2) + Bit(i, 0) /\ Bit(i, 0) \in {0, 1} /\ i \div 2 \in Nat
    BY <1>6, Halves DEF LeavesFor
  <2>2. CASE s = "zero"
    <3>1. n = 2 * q
      BY <1>2, <2>1, <2>2
    <3> HIDE DEF n, q
    <3> QED BY <2>1, <3>1
  <2>3. CASE s # "zero"
    <3>1. s = "one" /\ node[v].zero = 0
      BY <1>1, <2>3 DEF Sides
    <3>2. node[v][Side(i, 0)] > 0
      BY <1>4, <1>6
    <3>3. Side(i, 0) # "zero"
      BY <3>1, <3>2
    <3>4. Bit(i, 0) = 1
      BY <2>1, <3>3 DEF Side
    <3>5. n = 2 * q + 1
      BY <1>2, <3>1
    <3> HIDE DEF n, q
    <3> QED BY <2>1, <3>4, <3>5
  <2> QED BY <2>2, <2>3
<1> QED BY <1>5, <1>6

LEMMA TakeTakes == ASSUME IInv, IInv', NEW s \in Sides, TakeFrom(s) PROVE Promise!Take(Value(s))
<1> DEFINE v == Visited
           n == Value(s)
           k == node[v][s] - 1
<1>1. /\ Visiting /\ v # NULL /\ node[v].bit_pos = 0 /\ ~Full /\ node[v][s] > 0
      /\ node' = [node EXCEPT ![v][s] = k] /\ out' = Append(out, n)
      /\ UNCHANGED <<heap, tree, pc, number, limit>> /\ pc = "visit"
  BY DEF TakeFrom, AtLeaf, Taken, walk, Visiting
<1>2. /\ Tree(node, tree, {}) /\ Memory(node) /\ Distinct(node) /\ DOMAIN node = InUse
      /\ v \in InUse
  BY <1>1, OnTheWay DEF Tree
<1>3. n \in Numbers /\ Side(n, 0) = s /\ v \in LeavesFor(node, n)
  BY ValueTaken
<1>4. node[v][s] \in Nat
  BY <1>2, MemoryType
<1>5. k \in Nat
  BY <1>1, <1>4
<1>6. /\ Recounted(node, node') /\ Tree(node', tree', {})
      /\ node'[v] = [node[v] EXCEPT ![s] = k]
      /\ \A c \in InUse : c # v => node'[c] = node[c]
  <2> HIDE DEF v, k
  <2> QED BY <1>1, <1>2, <1>5, Counted
<1>7. LeavesOf(node') = LeavesOf(node) /\ Memory(node') /\ Distinct(node')
  BY <1>6 DEF LeavesOf, Recounted, Keeps, Tree
<1>8. BagIn(node)[n] = node[v][s] /\ BagIn(node') = [BagIn(node) EXCEPT ![n] = k]
  <2> DEFINE m == node
             m2 == node'
  <2>1. /\ Memory(m) /\ Distinct(m) /\ Memory(m2) /\ Distinct(m2)
        /\ LeavesOf(m2) = LeavesOf(m) /\ n \in Numbers /\ v \in LeavesFor(m, n)
        /\ m2[v] = [m[v] EXCEPT ![Side(n, 0)] = k]
        /\ \A b \in LeavesOf(m) : b # v => m2[b] = m[b]
    BY <1>2, <1>3, <1>6, <1>7 DEF LeavesOf
  <2>2. BagIn(m)[n] = m[v][Side(n, 0)] /\ BagIn(m2) = [BagIn(m) EXCEPT ![n] = k]
    <3> HIDE DEF m, m2, v, k, n
    <3> QED BY <2>1, OtherCopies
  <2> QED BY <1>3, <2>2
<1>9. Bag = BagIn(node) /\ Bag' = BagIn(node')
  BY <1>1, BagOf
<1>10. Bag' = [Bag EXCEPT ![n] = @ - 1]
  BY <1>8, <1>9
<1>11. Promise!Smallest(n)
  <2>1. Bag[n] > 0
    BY <1>1, <1>8, <1>9
  <2>2. ASSUME NEW i \in Numbers, Bag[i] > 0 PROVE n <= i
    <3>1. CopiesIn(node, i) > 0
      BY <1>9, <2>2 DEF BagIn
    <3> QED BY <3>1, TakesSmallest
  <2> QED BY <2>1, <2>2 DEF Promise!Smallest
<1>12. limit - Len(out) > 0 /\ limit' - Len(out') = (limit - Len(out)) - 1
  <2>1. /\ limit \in Nat /\ room \in Nat /\ out \in Seq(Numbers) /\ Len(out) \in Nat
        /\ room <= limit /\ Len(out) < room
    BY <1>1 DEF IInv, Control, Phases, Full
  <2>2. Len(out') = Len(out) + 1
    BY <1>1, <1>3, <2>1
  <2> QED BY <1>1, <2>1, <2>2
<1> QED BY <1>1, <1>10, <1>11, <1>12 DEF Promise!Take

\* While the tree is not touched, the bag stays as it is.
LEMMA SameBag ==
    ASSUME IInv, IInv', UNCHANGED node,
           pc \notin {"release", "done"}, pc' \notin {"release", "done"}
    PROVE  Bag' = Bag
BY BagOf

\* A branch is inserted: it counts nothing.
LEMMA InjectStutters == ASSUME IInv, IInv', Inject PROVE UNCHANGED BagVars
<1> DEFINE k == BranchBit
           s == Side(number, k)
           x == [bit_pos |-> k, number |-> number,
                 zero |-> IF s = "zero" THEN NULL ELSE Here,
                 one  |-> IF s = "zero" THEN Here ELSE NULL]
<1>1. /\ pc = "add" /\ Here # NULL /\ Diff # {} /\ Allocate(NodeSize)
      /\ Point(parent, New, With(New, x)) /\ UNCHANGED <<pc, number, limit, out>>
  BY DEF Inject
<1>2. k \in Nat /\ k # 0 /\ x.bit_pos = k
  <2>1. k \in Nat /\ node[Here].bit_pos < k
    BY <1>1, BranchAt
  <2>2. node[Here].bit_pos \in Nat
    BY <1>1, Looking, MemoryType
  <2> QED BY <2>1, <2>2
<1> HIDE DEF x, k
<1>3. /\ Memory(node) /\ Distinct(node) /\ Place(node, parent) /\ DOMAIN node = InUse
  BY <1>1, Looking DEF Tree
<1>4. New \notin DOMAIN node
  BY <1>1, <1>3, NewBlock DEF IInv
<1>5. Memory(node') /\ Distinct(node')
  BY <1>1 DEF IInv, Standing, Tree
<1>6. node' = Inserted(node, parent, New, x)
  BY <1>1, <1>3, <1>4, PointInserted
<1>7. /\ node'[New] = x
      /\ \A c \in LeavesOf(node) : c \in LeavesOf(node') /\ node'[c] = node[c]
      /\ \A c \in LeavesOf(node') : c = New \/ c \in LeavesOf(node)
  BY <1>3, <1>4, <1>6, InsertedLeaves
<1>8. New \notin LeavesOf(node')
  BY <1>2, <1>7 DEF LeavesOf
<1>9. BagIn(node') = BagIn(node)
  <2> DEFINE m == node
             m2 == node'
  <2>1. /\ Memory(m) /\ Distinct(m) /\ Memory(m2) /\ Distinct(m2)
        /\ \A b \in LeavesOf(m2) : b \in LeavesOf(m) /\ m2[b] = m[b]
        /\ \A b \in LeavesOf(m) : b \in LeavesOf(m2) \/ (m[b].zero = 0 /\ m[b].one = 0)
    BY <1>3, <1>5, <1>7, <1>8
  <2>2. BagIn(m2) = BagIn(m)
    <3> HIDE DEF m, m2
    <3> QED BY <2>1, SameCopies
  <2> QED BY <2>2
<1>10. Bag' = Bag
  BY <1>1, <1>9, BagOf
<1> QED BY <1>1, <1>10 DEF BagVars, AddingNow, OwedNow

\* A node is left, and gone if it was empty.
LEMMA LeaveStutters == ASSUME IInv, IInv', Leave PROVE UNCHANGED BagVars
<1>1. /\ Visiting /\ pc = "visit" /\ Visited \in InUse
      /\ UNCHANGED <<pc, number, limit, out>>
  BY LeaveFacts DEF walk
<1>2. /\ Tree(node, tree, {}) /\ Memory(node) /\ Distinct(node) /\ DOMAIN node = InUse
  BY <1>1, OnTheWay DEF Tree
<1>3. Bag' = Bag
  <2>1. CASE ~Empty(Visited)
    BY <1>1, <2>1, LeaveFacts, SameBag
  <2>2. CASE Empty(Visited)
    <3> DEFINE v == Visited
               at == Top1.at
               m == node
               m2 == node'
    <3>1. Release(v) /\ Point(at, NULL, Without(v)) /\ v \in DOMAIN m
      BY <1>1, <1>2, <2>2, LeaveFacts DEF Unlink
    <3>2. Memory(m2) /\ Distinct(m2)
      BY <1>1 DEF IInv, Standing, Tree
    <3>3. Place(m, at) /\ (at # Root => at[1] # v)
      <4>1. /\ Top1 = stack[1] /\ 1 \in 1..Len(stack) /\ Len(stack) \in Nat \ {0}
            /\ Trail[1].ptr = v
        <5>1. Len(stack) \in Nat \ {0} /\ Top1 = stack[1] /\ Trail[1].ptr = v
          BY <1>1, OnTheWay
        <5>2. \A n \in Nat \ {0} : 1 \in 1..n
          OBVIOUS
        <5> QED BY <5>1, <5>2
      <4>2. Place(m, at)
        <5>1. \A i \in 1..Len(stack) : Place(node, stack[i].at)
          BY <1>1, OnTheWay
        <5>2. Place(node, stack[1].at)
          BY <4>1, <5>1
        <5> QED BY <4>1, <5>2
      <4>3. ASSUME at # Root PROVE at[1] # v
        <5>1. /\ 1 # Len(stack)
              /\ at = <<Trail[1 + 1].ptr, Before(Trail[1 + 1].next)>>
          BY <1>1, <4>1, <4>3, OnTheWay
        <5>2. 2 \in 1..Len(stack) /\ 2 > 1
          <6>1. \A n \in Nat \ {0} : n # 1 => 2 \in 1..n /\ 2 > 1
            OBVIOUS
          <6> QED BY <4>1, <5>1, <6>1
        <5>3. Trail[1].ptr # Trail[2].ptr
          BY <1>1, <5>2, OnTheWay
        <5> QED BY <4>1, <5>1, <5>3
      <4> QED BY <4>2, <4>3
    <3>4. m2 = Pruned(m, at, v)
      <4> HIDE DEF at, v
      <4> QED BY <1>2, <3>1, <3>3, PointPruned DEF m, m2
    <3>5. /\ DOMAIN m2 = DOMAIN m \ {v}
          /\ \A c \in DOMAIN m \ {v} : at = Root \/ c # at[1] => m2[c] = m[c]
          /\ Keeps(m, m2)
      <4>1. Memory(m) /\ Place(m, at) /\ v \in DOMAIN m
        BY <1>2, <3>1, <3>3
      <4> HIDE DEF at, v, m, m2
      <4>2. DOMAIN Pruned(m, at, v) = DOMAIN m \ {v} /\ Keeps(m, Pruned(m, at, v))
        BY <4>1, PrunedType, Zenon
      <4>3. ASSUME NEW c \in DOMAIN m \ {v}, at = Root \/ c # at[1]
            PROVE  Pruned(m, at, v)[c] = m[c]
        BY <4>3 DEF Pruned
      <4> QED BY <3>4, <4>2, <4>3
    <3>6. at # Root => at[1] \notin LeavesOf(m)
      <4>1. at # Root => at[1] \in Inner(m)
        BY <1>2, <3>3, PlaceType
      <4> QED BY <4>1 DEF Inner, LeavesOf
    <3>7. m[v].zero = 0 /\ m[v].one = 0
      BY <2>2 DEF Empty
    <3>8. BagIn(m2) = BagIn(m)
      <4>1. Memory(m) /\ Distinct(m)
        BY <1>2
      <4> HIDE DEF at, v, m, m2
      <4>2. \A b \in LeavesOf(m2) : b \in LeavesOf(m)
        BY <3>5 DEF LeavesOf, Keeps
      <4>3. \A b \in LeavesOf(m2) : m2[b] = m[b]
        BY <3>5, <3>6, <4>2 DEF LeavesOf
      <4>4. \A b \in LeavesOf(m) : b \in LeavesOf(m2) \/ (m[b].zero = 0 /\ m[b].one = 0)
        BY <3>5, <3>6, <3>7 DEF LeavesOf, Keeps
      <4> QED BY <3>2, <4>1, <4>2, <4>3, <4>4, SameCopies
    <3> QED BY <1>1, <3>8, BagOf
  <2> QED BY <2>1, <2>2
<1> QED BY <1>1, <1>3 DEF BagVars, AddingNow, OwedNow

\* What was taken is written.  If it was less than asked for, nothing is left.
LEMMA WriteWrites == ASSUME IInv, IInv', Write PROVE Promise!Write \/ Promise!GiveUp
<1>1. /\ pc = "visit" /\ stack = <<>> /\ UNCHANGED <<heap, tree, node>> /\ out' = <<>>
      /\ pc' \in {"take", "main"}
  <2>1. IF Again THEN pc' = "take" ELSE pc' = "main"
    BY DEF Write
  <2> QED BY <2>1 DEF Write
<1>2. Bag' = Bag
  BY <1>1, SameBag
<1>3. AddingNow' = AddingNow
  BY <1>1 DEF AddingNow
<1>4. /\ limit \in Nat /\ room \in Nat /\ Len(out) \in Nat /\ room <= limit /\ room > 0
      /\ Len(out) <= room /\ out \in Seq(Numbers)
  BY <1>1 DEF IInv, Control, Phases
<1>5. OwedNow = limit - Len(out)
  BY <1>1 DEF OwedNow
<1>6. CASE Again
  <2>1. pc' = "take" /\ limit' = limit - Len(out)
    BY <1>6 DEF Write
  <2>2. OwedNow' = OwedNow
    BY <1>1, <1>4, <1>5, <2>1 DEF OwedNow
  <2> QED BY <1>1, <1>2, <1>3, <2>2 DEF Promise!Write, AddingNow, OwedNow
<1>7. CASE ~Again
  <2>1. pc' = "main"
    BY <1>7 DEF Write
  <2>2. OwedNow' = 0
    BY <2>1 DEF OwedNow
  <2>3. CASE limit <= Len(out)
    <3>1. OwedNow = 0
      BY <1>4, <1>5, <2>3
    <3> QED BY <1>1, <1>2, <1>3, <2>2, <3>1 DEF Promise!Write, AddingNow, OwedNow
  <2>4. CASE out = <<>>
    <3>1. ~Full
      BY <1>4, <2>4 DEF Full
    <3>2. InUse = {}
      BY <1>1, <3>1 DEF IInv, Walking
    <3>3. Bag = Promise!None
      BY <1>1, <3>2 DEF Bag, Promise!None, Copies, Leaves
    <3> QED BY <1>1, <1>2, <1>3, <2>2, <2>4, <3>3 DEF Promise!GiveUp, AddingNow, OwedNow
  <2>5. limit <= Len(out) \/ out = <<>>
    BY <1>4, <1>7 DEF Again
  <2> QED BY <2>3, <2>4, <2>5
<1> QED BY <1>6, <1>7

\* A command that adds or takes is read.
LEMMA ReadReads ==
    ASSUME IInv, IInv', Read
    PROVE  (\E n \in Numbers : Promise!Read(n)) \/ Promise!Ask
<1>1. PICK n \in Numbers : ReadAdd(n) \/ (n \in Takes /\ ReadTake(n))
  BY DEF Read
<1>2. /\ pc = "main" /\ pc' \in {"add", "take"} /\ UNCHANGED <<node, out>> /\ out = <<>>
  BY <1>1 DEF ReadAdd, ReadTake, IInv, Phases
<1>3. Bag' = Bag
  BY <1>2, SameBag
<1>4. AddingNow = -1 /\ OwedNow = 0
  BY <1>2 DEF AddingNow, OwedNow
<1>5. CASE ReadAdd(n)
  <2>1. pc' = "add" /\ number' = n
    BY <1>5 DEF ReadAdd
  <2>2. AddingNow' = n /\ OwedNow' = 0
    BY <2>1 DEF AddingNow, OwedNow
  <2>3. Promise!Read(n)
    BY <1>2, <1>3, <1>4, <2>2 DEF Promise!Read, Promise!Idle, AddingNow, OwedNow
  <2> QED BY <2>3
<1>6. CASE n \in Takes /\ ReadTake(n)
  <2>1. pc' = "take" /\ limit' = n /\ n \in Nat \ {0}
    BY <1>6, TreeAssumption DEF ReadTake, TreeAssumption
  <2>2. Len(out') = 0
    BY <1>2
  <2>3. AddingNow' = -1 /\ OwedNow' \in Nat \ {0}
    BY <2>1, <2>2 DEF AddingNow, OwedNow
  <2> QED BY <1>2, <1>3, <1>4, <2>3 DEF Promise!Ask, Promise!Idle, AddingNow, OwedNow
<1> QED BY <1>1, <1>5, <1>6

LEMMA EndDiscards == ASSUME IInv, EndOfInput PROVE Promise!Discard
<1>1. pc = "main" /\ pc' = "release" /\ UNCHANGED out
  BY DEF EndOfInput
<1>2. Bag' = Promise!None
  BY <1>1 DEF Bag, Promise!None
<1>3. AddingNow = -1 /\ OwedNow = 0 /\ AddingNow' = -1 /\ OwedNow' = 0
  BY <1>1 DEF AddingNow, OwedNow
<1> QED BY <1>1, <1>2, <1>3 DEF Promise!Discard, Promise!Idle, AddingNow, OwedNow

\* The other steps do not touch the bag.
LEMMA OthersStutter ==
    ASSUME IInv, IInv',
           Descend \/ StartTake \/ VisitNothing \/ VisitBranch
              \/ ReleaseBranch \/ ReleaseNode \/ Exit \/ UNCHANGED vars
    PROVE  UNCHANGED BagVars
<1>1. CASE Descend
  <2>1. pc = "add" /\ UNCHANGED <<node, pc, number, limit, out>>
    BY <1>1 DEF Descend
  <2> QED BY <2>1, SameBag DEF BagVars, AddingNow, OwedNow
<1>2. CASE StartTake
  <2>1. pc = "take" /\ pc' = "visit" /\ UNCHANGED <<node, limit>> /\ out' = <<>> /\ out = <<>>
    BY <1>2 DEF StartTake, IInv, Phases
  <2> QED BY <2>1, SameBag DEF BagVars, AddingNow, OwedNow
<1>3. CASE VisitNothing \/ VisitBranch
  <2>1. pc = "visit" /\ UNCHANGED <<node, pc, number, limit, out>>
    BY <1>3 DEF VisitNothing, VisitBranch, AtBranch, Visiting, walk
  <2> QED BY <2>1, SameBag DEF BagVars, AddingNow, OwedNow
<1>4. CASE ReleaseBranch \/ ReleaseNode \/ Exit
  <2>1. pc = "release" /\ pc' \in {"release", "done"} /\ UNCHANGED <<number, limit, out>>
    BY <1>4 DEF ReleaseBranch, ReleaseNode, Exit, Releasing, walk
  <2>2. Bag' = Bag
    BY <2>1 DEF Bag
  <2> QED BY <2>1, <2>2 DEF BagVars, AddingNow, OwedNow
<1>5. CASE UNCHANGED vars
  <2>1. UNCHANGED <<node, pc, number, limit, out, size>>
    BY <1>5 DEF vars, walk, heap
  <2>2. Bag' = Bag
    BY <2>1 DEF Bag, Copies, Leaves, InUse
  <2> QED BY <2>1, <2>2 DEF BagVars, AddingNow, OwedNow
<1> QED BY <1>1, <1>2, <1>3, <1>4, <1>5

LEMMA StartsEmpty == Init => Promise!Init
<1> SUFFICES ASSUME Init PROVE Promise!Init
  OBVIOUS
<1>1. InUse = {} /\ pc = "main" /\ out = <<>>
  BY DEF Init, HeapInit, InUse
<1>2. Bag = Promise!None
  BY <1>1 DEF Bag, Promise!None, Copies, Leaves
<1> QED BY <1>1, <1>2 DEF Promise!Init

\* Every step of the program is a step of the sorted bag, or none.
LEMMA StepPromises ==
    IInv /\ IInv' /\ [Next]_vars => [Promise!Next]_BagVars
<1> SUFFICES ASSUME IInv, IInv', [Next]_vars PROVE Promise!Next \/ UNCHANGED BagVars
  OBVIOUS
<1>1. CASE Read
  BY <1>1, ReadReads DEF Promise!Next
<1>2. CASE EndOfInput
  BY <1>2, EndDiscards DEF Promise!Next
<1>3. CASE Create \/ Count
  BY <1>3, CreateAdds, CountAdds DEF Promise!Next
<1>4. CASE Inject
  BY <1>4, InjectStutters
<1>5. ASSUME NEW s \in Sides, TakeFrom(s) PROVE Promise!Next
  BY <1>5, TakeTakes, ValueTaken DEF Promise!Next
<1>6. CASE Leave
  BY <1>6, LeaveStutters
<1>7. CASE Write
  BY <1>7, WriteWrites DEF Promise!Next
<1>8. CASE \/ Descend \/ StartTake \/ VisitNothing \/ VisitBranch
           \/ ReleaseBranch \/ ReleaseNode \/ Exit \/ UNCHANGED vars
  BY <1>8, OthersStutter
<1> QED BY <1>1, <1>2, <1>3, <1>4, <1>5, <1>6, <1>7, <1>8 DEF Next, Run, Sides

\* The program is a sorted bag: what it outputs for a command are the smallest of the
\* numbers that were added and not yet output, each as often as it was added, as many as
\* were asked for or as there are.
THEOREM RadixImplements == Spec => Implements
<1>1. Init => Promise!Init
  BY StartsEmpty
<1>2. IInv /\ IInv' /\ [Next]_vars
         => [Promise!Next]_<<Bag, AddingNow, OwedNow, out>>
  BY StepPromises DEF BagVars
<1>3. Spec => []IInv
  BY Initially, StepKeeps, PTL DEF Spec
<1> QED BY <1>1, <1>2, <1>3, PTL DEF Spec, Implements, Promise!Spec, AddingNow, OwedNow
===============================================================================
