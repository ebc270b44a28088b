------------------------- MODULE AssemblyTableProofs -------------------------
(***************************************************************************)
(* Proofs about AssemblyTable, for any addresses and texts: the tables are  *)
(* sound, growing copies what it should, and the whole implements AddrMap.  *)
(***************************************************************************)
EXTENDS AssemblyTable, TLAPS

IInv == TypeOK /\ TablesSound /\ Copied /\ GrowsForStranger

\* The slots of t that hold an entry for a.
Hits(t, a) == {k \in Slots(t) : t.slot[k] # None /\ t.slot[k].addr = a}

\* Every probe of a table looks at one of its slots.
LEMMA ProbeIsSlot ==
    ASSUME NEW t, IsTable(t), NEW a \in Addr, NEW o \in Offsets
    PROVE  Probe(t, a, o) \in Slots(t)
<1>1. t.size \in Nat /\ t.size >= 4 /\ a \in Nat
  BY AddrAssumption DEF IsTable
<1>2. a % t.size \in 0..(t.size - 1)
  BY <1>1
<1> QED BY <1>1, <1>2 DEF Probe, Offsets, Slots

\* What a search finds is among what it looks for, and on the way of a.
LEMMA FirstIsHit ==
    ASSUME NEW t, NEW a, NEW hits, NEW k \in First(t, a, hits)
    PROVE  k \in hits /\ \E o \in Offsets : k = Probe(t, a, o)
BY DEF First

\* Something on the way of a is found if anything is there.
LEMMA FirstExists ==
    ASSUME NEW t, NEW a, NEW hits, NEW o \in Offsets, Probe(t, a, o) \in hits
    PROVE  First(t, a, hits) # {}
<1> DEFINE P(m) == Probe(t, a, m) \in hits
           Least(m) == P(m) /\ \A n \in Offsets : n < m => ~P(n)
<1>1. SUFFICES \E m \in Offsets : Least(m)
  BY DEF First
<1>2. P(0) \/ P(1) \/ P(2) \/ P(3)
  BY DEF Offsets
<1> HIDE DEF P
<1> QED BY <1>2 DEF Offsets

\* In a sound table assembly_find_entry finds the entry if there is one.
LEMMA FindIsHits ==
    ASSUME NEW t, IsTable(t), Sound(t), NEW a \in Addr
    PROVE  Find(t, a) = Hits(t, a)
<1>1. Find(t, a) = First(t, a, Hits(t, a))
  BY DEF Find, Hits
<1>2. \A k \in First(t, a, Hits(t, a)) : k \in Hits(t, a)
  BY FirstIsHit
<1>3. ASSUME NEW k \in Hits(t, a)
      PROVE  k \in First(t, a, Hits(t, a))
  <2>1. PICK o \in Offsets : k = Probe(t, a, o)
    BY <1>3 DEF Sound, Hits
  <2>2. PICK m : m \in First(t, a, Hits(t, a))
    BY <1>3, <2>1, FirstExists
  <2>3. m \in Hits(t, a)
    BY <2>2, <1>2
  <2> QED BY <1>3, <2>2, <2>3 DEF Sound, Hits
<1> QED BY <1>1, <1>2, <1>3

\* A free slot is free, and on the way of the address it is for.
LEMMA FreeSlot ==
    ASSUME NEW t, NEW a, NEW k \in FindEmpty(t, a)
    PROVE  /\ k \in Slots(t) /\ t.slot[k] = None
           /\ \E o \in Offsets : k = Probe(t, a, o)
BY FirstIsHit DEF FindEmpty

\* A larger table is a table, empty and sound.
LEMMA LargerIsTable ==
    ASSUME NEW t, IsTable(t)
    PROVE  /\ IsTable(Larger(t)) /\ Sound(Larger(t))
           /\ \A k \in Slots(Larger(t)) : Larger(t).slot[k] = None
BY DEF IsTable, Larger, Empty, Slots, Sound

\* The fields of a table with one entry written.
LEMMA WriteIsTable ==
    ASSUME NEW t, IsTable(t), NEW k \in Slots(t), NEW e \in Entry
    PROVE  /\ IsTable(Write(t, k, e))
           /\ Write(t, k, e).size = t.size
           /\ Slots(Write(t, k, e)) = Slots(t)
           /\ \A m \in Slots(t) :
                 Write(t, k, e).slot[m] = IF m = k THEN e ELSE t.slot[m]
           /\ \A a, o : Probe(Write(t, k, e), a, o) = Probe(t, a, o)
BY DEF IsTable, Write, Slots, Probe

\* Writing an entry on its way, in place of its predecessor or as a stranger,
\* keeps the table sound.
LEMMA WriteIsSound ==
    ASSUME NEW t, IsTable(t), Sound(t), NEW e \in Entry, NEW k \in Slots(t),
           \E o \in Offsets : k = Probe(t, e.addr, o),
           Hits(t, e.addr) \subseteq {k}
    PROVE  Sound(Write(t, k, e))
<1> DEFINE w == Write(t, k, e)
<1>1. /\ Slots(w) = Slots(t)
      /\ \A m \in Slots(t) : w.slot[m] = IF m = k THEN e ELSE t.slot[m]
      /\ \A a, o : Probe(w, a, o) = Probe(t, a, o)
  BY WriteIsTable
<1> HIDE DEF w
<1>2. ASSUME NEW m \in Slots(w), w.slot[m] # None
      PROVE  \E o \in Offsets : m = Probe(w, w.slot[m].addr, o)
  BY <1>1, <1>2 DEF Sound
<1>3. ASSUME NEW m \in Slots(w), NEW n \in Slots(w), w.slot[m] # None,
             w.slot[n] # None, w.slot[m].addr = w.slot[n].addr
      PROVE  m = n
  BY <1>1, <1>3 DEF Sound, Hits
<1>4. Sound(w)
  BY <1>2, <1>3 DEF Sound
<1> QED BY <1>4 DEF w

-----------------------------------------------------------------------------
(* The inductive invariant.                                                *)

\* The first state.
LEMMA InitInv == Init => IInv
<1> SUFFICES ASSUME Init PROVE IInv
  OBVIOUS
<1>1. IsTable(tab) /\ Sound(tab)
  BY DEF Init, Empty, IsTable, Slots, Sound
<1> QED BY <1>1
        DEF IInv, Init, TypeOK, TablesSound, Copied, GrowsForStranger

\* assembly_set begins to grow, or grows once more.
LEMMA GrowInv ==
    ASSUME IInv, NEW e \in Entry, Grow(e), Hits(tab, e.addr) = {}
    PROVE  IInv'
<1>1. /\ call' = e /\ old' = tab /\ tab' = Larger(tab) /\ next' = 0 /\ got' = got
      /\ IsTable(tab) /\ Sound(tab) /\ e # None
  BY NoneAssumption DEF Grow, IInv, TypeOK, TablesSound
<1>2. /\ IsTable(tab') /\ Sound(tab')
      /\ \A k \in Slots(tab') : tab'.slot[k] = None
  BY <1>1, LargerIsTable
<1>3. TypeOK'
  BY <1>1, <1>2 DEF IInv, TypeOK, IsTable
<1>4. TablesSound' /\ Copied'
  BY <1>1, <1>2 DEF TablesSound, Copied, Slots
<1>5. GrowsForStranger'
  BY <1>1 DEF GrowsForStranger, Hits
<1> QED BY <1>3, <1>4, <1>5 DEF IInv

\* assembly_set writes its entry.
LEMMA PutInv ==
    ASSUME IInv, NEW e \in Entry, NEW k \in Slots(tab), Put(k, e),
           \E o \in Offsets : k = Probe(tab, e.addr, o),
           Hits(tab, e.addr) \subseteq {k}
    PROVE  IInv'
<1>1. /\ tab' = Write(tab, k, e) /\ call' = None /\ old' = None /\ next' = 0
      /\ got' = got /\ IsTable(tab) /\ Sound(tab)
  BY DEF Put, IInv, TypeOK, TablesSound
<1>2. IsTable(tab') /\ Sound(tab')
  BY <1>1, WriteIsTable, WriteIsSound
<1> QED BY <1>1, <1>2
        DEF IInv, TypeOK, TablesSound, Copied, GrowsForStranger

\* The two cases of assembly_set that write at once.
LEMMA SetInv ==
    ASSUME IInv, NEW a \in Addr, NEW t \in Text, Set(a, t)
    PROVE  IInv'
<1> DEFINE e == [addr |-> a, text |-> t]
<1>1. e \in Entry /\ IsTable(tab) /\ Sound(tab)
  BY DEF Entry, IInv, TypeOK, TablesSound
<1>2. Find(tab, a) = Hits(tab, a)
  BY <1>1, FindIsHits
<1>3. ASSUME NEW k \in Find(tab, a), Put(k, e)
      PROVE  IInv'
  <2>1. \A m \in Hits(tab, a) : m = k
    BY <1>1, <1>2, <1>3 DEF Sound, Hits
  <2>2. k \in Slots(tab) /\ \E o \in Offsets : k = Probe(tab, a, o)
    BY <1>1, <1>2, <1>3 DEF Sound, Hits
  <2> QED BY <1>1, <1>3, <2>1, <2>2, PutInv
<1>4. ASSUME Find(tab, a) = {}, NEW k \in FindEmpty(tab, a), Put(k, e)
      PROVE  IInv'
  <2>1. /\ k \in Slots(tab) /\ \E o \in Offsets : k = Probe(tab, a, o)
        /\ Hits(tab, a) = {} /\ e.addr = a
    BY <1>2, <1>4, FreeSlot
  <2> HIDE DEF e
  <2> QED BY <1>1, <1>4, <2>1, PutInv
<1>5. ASSUME Find(tab, a) = {}, Grow(e)
      PROVE  IInv'
  BY <1>1, <1>2, <1>5, GrowInv
<1> QED BY <1>3, <1>4, <1>5 DEF Set

\* No entry that waits to be copied is in the new table yet, nor is the entry
\* the table grows for.
LEMMA NotYetCopied ==
    ASSUME IInv, call # None
    PROVE  /\ Hits(tab, call.addr) = {}
           /\ next < old.size /\ old.slot[next] # None =>
                 Hits(tab, old.slot[next].addr) = {}
<1>1. next \in 0..old.size /\ Sound(old) /\ old.size \in Nat
  BY DEF IInv, TypeOK, TablesSound, IsTable
<1>2. \A m \in Slots(tab) : tab.slot[m] # None =>
         \E k \in Slots(old) : k < next /\ tab.slot[m] = old.slot[k]
  BY DEF IInv, Copied
<1>3. Hits(tab, call.addr) = {}
  BY <1>2 DEF Hits, IInv, GrowsForStranger
<1>4. ASSUME next < old.size, old.slot[next] # None
      PROVE  Hits(tab, old.slot[next].addr) = {}
  <2>1. next \in Slots(old)
    BY <1>1, <1>4 DEF Slots
  <2>2. ASSUME NEW m \in Hits(tab, old.slot[next].addr)
        PROVE  FALSE
    <3>1. PICK k \in Slots(old) : k < next /\ tab.slot[m] = old.slot[k]
      BY <1>2, <2>2 DEF Hits
    <3>2. k = next
      BY <1>1, <1>4, <2>1, <2>2, <3>1 DEF Sound, Hits
    <3> QED BY <1>1, <3>1, <3>2 DEF Slots
  <2> QED BY <2>2
<1> QED BY <1>3, <1>4

\* One entry is copied, or skipped, or the copying starts over.
LEMMA RehashInv ==
    ASSUME IInv, Rehash
    PROVE  IInv'
<1>1. /\ call # None /\ next < old.size /\ next \in 0..old.size
      /\ UNCHANGED <<old, call, got>>
      /\ IsTable(tab) /\ IsTable(old) /\ Sound(tab) /\ Sound(old)
      /\ old.size \in Nat
  BY DEF Rehash, IInv, TypeOK, TablesSound, IsTable
<1>2. GrowsForStranger'
  BY <1>1 DEF IInv, GrowsForStranger
<1>3. next \in Slots(old) /\ next + 1 \in 0..old.size /\ 0 \in 0..old.size
  BY <1>1 DEF Slots
<1>4. CASE old.slot[next] = None /\ next' = next + 1 /\ UNCHANGED tab
  <2>1. TypeOK' /\ TablesSound'
    BY <1>1, <1>3, <1>4 DEF IInv, TypeOK, TablesSound
  <2>2. \A k \in Slots(old) : k < next + 1 <=> k < next \/ k = next
    BY <1>3 DEF Slots
  <2>3. Copied'
    BY <1>1, <1>4, <2>2 DEF IInv, Copied
  <2> QED BY <1>2, <2>1, <2>3 DEF IInv
<1>5. ASSUME old.slot[next] # None, next' = next + 1,
             NEW k \in FindEmpty(tab, old.slot[next].addr),
             tab' = Write(tab, k, old.slot[next])
      PROVE  IInv'
  <2> DEFINE e == old.slot[next]
  <2>1. e \in Entry
    BY <1>1, <1>3, <1>5 DEF IsTable
  <2>2. /\ k \in Slots(tab) /\ tab.slot[k] = None
        /\ \E o \in Offsets : k = Probe(tab, e.addr, o)
    BY <1>5, FreeSlot
  <2>3. Hits(tab, e.addr) = {}
    BY <1>1, <1>5, NotYetCopied
  <2>4. /\ Slots(tab') = Slots(tab)
        /\ \A m \in Slots(tab) : tab'.slot[m] = IF m = k THEN e ELSE tab.slot[m]
    BY <1>1, <1>5, <2>1, <2>2, WriteIsTable
  <2>5. IsTable(tab') /\ Sound(tab')
    BY <1>1, <1>5, <2>1, <2>2, <2>3, WriteIsTable, WriteIsSound
  <2>6. TypeOK' /\ TablesSound'
    BY <1>1, <1>3, <1>5, <2>5 DEF IInv, TypeOK, TablesSound
  <2>7. \A m \in Slots(old) : m < next + 1 <=> m < next \/ m = next
    BY <1>3 DEF Slots
  <2>8. Copied'
    <3>1. ASSUME NEW m \in Slots(old), m < next + 1, old.slot[m] # None
          PROVE  \E n \in Slots(tab') : tab'.slot[n] = old.slot[m]
      <4>1. CASE m = next
        BY <2>2, <2>4, <4>1
      <4>2. CASE m < next
        <5>1. PICK n \in Slots(tab) : tab.slot[n] = old.slot[m]
          BY <1>1, <3>1, <4>2 DEF IInv, Copied
        <5> QED BY <2>2, <2>4, <3>1, <5>1
      <4> QED BY <2>7, <3>1, <4>1, <4>2
    <3>2. ASSUME NEW n \in Slots(tab'), tab'.slot[n] # None
          PROVE  \E m \in Slots(old) : m < next + 1 /\ tab'.slot[n] = old.slot[m]
      <4>1. CASE n = k
        BY <1>3, <2>2, <2>4, <2>7, <4>1
      <4>2. CASE n # k
        <5>1. PICK m \in Slots(old) : m < next /\ tab.slot[n] = old.slot[m]
          BY <1>1, <2>4, <3>2, <4>2 DEF IInv, Copied
        <5> QED BY <2>4, <2>7, <3>2, <4>2, <5>1
      <4> QED BY <4>1, <4>2
    <3> QED BY <1>1, <1>5, <3>1, <3>2 DEF Copied
  <2> QED BY <1>2, <2>6, <2>8 DEF IInv
<1>6. CASE tab' = Larger(tab) /\ next' = 0
  <2>1. /\ IsTable(tab') /\ Sound(tab')
        /\ \A k \in Slots(tab') : tab'.slot[k] = None
    BY <1>1, <1>6, LargerIsTable
  <2>2. TypeOK' /\ TablesSound'
    BY <1>1, <1>3, <1>6, <2>1 DEF IInv, TypeOK, TablesSound
  <2>3. \A k \in Slots(old) : ~(k < 0)
    BY DEF Slots
  <2>4. Copied'
    BY <1>1, <1>6, <2>1, <2>3 DEF Copied
  <2> QED BY <1>2, <2>2, <2>4 DEF IInv
<1> QED BY <1>4, <1>5, <1>6 DEF Rehash

\* The entry is written to the larger table, or that table grows in turn.
LEMMA RetryInv ==
    ASSUME IInv, Retry
    PROVE  IInv'
<1>1. call # None /\ call \in Entry
  BY DEF Retry, IInv, TypeOK
<1>2. Hits(tab, call.addr) = {}
  BY <1>1, NotYetCopied
<1>3. ASSUME NEW k \in FindEmpty(tab, call.addr), Put(k, call)
      PROVE  IInv'
  BY <1>1, <1>2, <1>3, FreeSlot, PutInv
<1> QED BY <1>1, <1>2, <1>3, GrowInv DEF Retry

\* Looking a text up changes no table, and answers with a text.
LEMMA GetInv ==
    ASSUME IInv, NEW a \in Addr, Get(a)
    PROVE  IInv'
<1>1. IsTable(tab) /\ Sound(tab) /\ UNCHANGED <<tab, old, next, call>>
  BY DEF Get, IInv, TypeOK, TablesSound
<1>2. \A k \in Find(tab, a) : tab.slot[k] \in Entry
  BY <1>1, FindIsHits DEF Hits, IsTable
<1>3. got' \in Text \cup {NoText}
  BY <1>2 DEF Get, Lookup, Entry
<1> QED BY <1>1, <1>3
        DEF IInv, TypeOK, TablesSound, Copied, GrowsForStranger

\* Every reachable state satisfies the inductive invariant.
LEMMA Invariance == Spec => []IInv
<1>1. IInv /\ [Next]_vars => IInv'
  <2>1. ASSUME IInv, UNCHANGED vars
        PROVE  IInv'
    BY <2>1 DEF vars, IInv, TypeOK, TablesSound, Copied, GrowsForStranger
  <2> QED BY <2>1, SetInv, GetInv, RehashInv, RetryInv DEF Next
<1> QED BY <1>1, InitInv, PTL DEF Spec


\* The types of the state, for any addresses and texts.
THEOREM TableTypes == Spec => []TypeOK
BY Invariance, PTL DEF IInv

\* Every entry lies within the four probes of its address and no address has two
\* entries, whatever was set before and however often the table grew.
THEOREM EntriesReachable == Spec => []TablesSound
BY Invariance, PTL DEF IInv

\* A growth that starts over loses nothing and keeps nothing of its last try.
THEOREM GrowthCopies == Spec => []Copied
BY Invariance, PTL DEF IInv

\* The table never grows for an address it already holds.
THEOREM GrowsOnlyForStrangers == Spec => []GrowsForStranger
BY Invariance, PTL DEF IInv

-----------------------------------------------------------------------------
(* The table implements the directory.                                     *)

\* What a sound table holds for an address is the text of its only hit.
LEMMA TextOfHit ==
    ASSUME NEW t, IsTable(t), Sound(t), NEW a \in Addr, NEW k \in Hits(t, a)
    PROVE  Held(t, a) = {t.slot[k].text} /\ TextAt(t, a) = t.slot[k].text
<1>1. \A m \in Hits(t, a) : m = k
  BY DEF Sound, Hits
<1>2. Held(t, a) = {t.slot[m].text : m \in Hits(t, a)}
  BY DEF Held, Hits
<1>3. Held(t, a) = {t.slot[k].text}
  BY <1>1, <1>2
<1> QED BY <1>3 DEF TextAt

\* A table with no hit for an address has no text for it.
LEMMA NoHitNoText ==
    ASSUME NEW t, NEW a, Hits(t, a) = {}
    PROVE  TextAt(t, a) = NoText
<1>1. Held(t, a) = {t.slot[m].text : m \in Hits(t, a)}
  BY DEF Held, Hits
<1> QED BY <1>1 DEF TextAt

\* Two tables with the same entries have the same texts.
LEMMA SameEntriesSameText ==
    ASSUME NEW t, NEW u, IsTable(t), Sound(t), IsTable(u), Sound(u),
           NEW a \in Addr,
           \A k \in Hits(t, a) : \E m \in Slots(u) : u.slot[m] = t.slot[k],
           \A m \in Hits(u, a) : \E k \in Slots(t) : u.slot[m] = t.slot[k]
    PROVE  TextAt(t, a) = TextAt(u, a)
<1>1. CASE Hits(t, a) = {}
  <2>1. Hits(u, a) = {}
    BY <1>1 DEF Hits
  <2> QED BY <1>1, <2>1, NoHitNoText
<1>2. CASE Hits(t, a) # {}
  <2>1. PICK k \in Hits(t, a) : TRUE
    BY <1>2
  <2>2. PICK m \in Slots(u) : u.slot[m] = t.slot[k]
    BY <2>1
  <2>3. m \in Hits(u, a)
    BY <2>1, <2>2 DEF Hits
  <2> QED BY <2>1, <2>2, <2>3, TextOfHit
<1> QED BY <1>1, <1>2

\* Writing an entry changes the text of its address and no other.
LEMMA TextAfterWrite ==
    ASSUME NEW t, IsTable(t), Sound(t), NEW e \in Entry, NEW k \in Slots(t),
           \E o \in Offsets : k = Probe(t, e.addr, o),
           Hits(t, e.addr) \subseteq {k},
           t.slot[k] = None \/ k \in Hits(t, e.addr), NEW a \in Addr
    PROVE  TextAt(Write(t, k, e), a) = IF a = e.addr THEN e.text ELSE TextAt(t, a)
<1> DEFINE w == Write(t, k, e)
<1>1. /\ IsTable(w) /\ Sound(w) /\ Slots(w) = Slots(t)
      /\ \A m \in Slots(t) : w.slot[m] = IF m = k THEN e ELSE t.slot[m]
  BY WriteIsTable, WriteIsSound
<1>2. e # None
  BY NoneAssumption
<1> HIDE DEF w
<1>3. CASE a = e.addr
  <2>1. k \in Hits(w, a) /\ w.slot[k] = e
    BY <1>1, <1>2, <1>3 DEF Hits
  <2>2. TextAt(w, a) = e.text
    BY <1>1, <2>1, TextOfHit
  <2> QED BY <1>3, <2>2 DEF w
<1>4. CASE a # e.addr
  <2>1. Hits(w, a) = Hits(t, a) /\ k \notin Hits(t, a)
    BY <1>1, <1>4 DEF Hits
  <2>2. \A m \in Hits(t, a) : w.slot[m] = t.slot[m] /\ m \in Slots(t)
    BY <1>1, <2>1 DEF Hits
  <2>3. TextAt(w, a) = TextAt(t, a)
    BY <1>1, <2>1, <2>2, SameEntriesSameText
  <2> QED BY <1>4, <2>3 DEF w
<1> QED BY <1>3, <1>4

\* Writing an entry as the caller's is the directory's Set: from the current
\* table, or from the old one that a growth has copied to its end.
LEMMA PutSets ==
    ASSUME IInv, NEW e \in Entry, NEW k \in Slots(tab), Put(k, e),
           \E o \in Offsets : k = Probe(tab, e.addr, o),
           Hits(tab, e.addr) \subseteq {k},
           tab.slot[k] = None \/ k \in Hits(tab, e.addr),
           \A a \in Addr : Map[a] = TextAt(tab, a)
    PROVE  Directory!Set(e.addr, e.text)
<1>1. /\ tab' = Write(tab, k, e) /\ call' = None /\ got' = got
      /\ IsTable(tab) /\ Sound(tab) /\ e.addr \in Addr
  BY DEF Put, IInv, TypeOK, TablesSound, Entry
<1>2. \A a \in Addr : TextAt(tab', a) = IF a = e.addr THEN e.text ELSE Map[a]
  BY <1>1, TextAfterWrite
<1>3. Map' = [a \in Addr |-> TextAt(tab', a)]
  BY <1>1 DEF Map
<1>4. Map' = [Map EXCEPT ![e.addr] = e.text]
  BY <1>1, <1>2, <1>3 DEF Map
<1> QED BY <1>1, <1>4 DEF Directory!Set

\* Starting to grow changes no text.
LEMMA GrowKeeps ==
    ASSUME NEW e \in Entry, Grow(e), \A a \in Addr : Map[a] = TextAt(tab, a)
    PROVE  UNCHANGED <<Map, got>>
<1>1. Map' = [a \in Addr |-> TextAt(tab, a)]
  BY NoneAssumption DEF Grow, Map
<1>2. Map = [a \in Addr |-> TextAt(tab, a)]
  BY DEF Map
<1> QED BY <1>1, <1>2 DEF Grow

\* When a growth has reached the end of the old table, the new one says the same.
LEMMA CopyFinished ==
    ASSUME IInv, call # None, next = old.size
    PROVE  \A a \in Addr : Map[a] = TextAt(tab, a)
<1>1. IsTable(tab) /\ Sound(tab) /\ IsTable(old) /\ Sound(old) /\ Copied
  BY DEF IInv, TypeOK, TablesSound
<1>2. \A k \in Slots(old) : k < next
  BY <1>1 DEF Slots, IsTable
<1>3. ASSUME NEW a \in Addr
      PROVE  TextAt(old, a) = TextAt(tab, a)
  <2>1. \A k \in Hits(old, a) : \E m \in Slots(tab) : tab.slot[m] = old.slot[k]
    BY <1>1, <1>2 DEF Hits, Copied
  <2>2. \A m \in Hits(tab, a) : \E k \in Slots(old) : tab.slot[m] = old.slot[k]
    BY <1>1 DEF Hits, Copied
  <2> QED BY <1>1, <2>1, <2>2, SameEntriesSameText
<1> QED BY <1>3 DEF Map

\* Setting a text sets it in the directory, or begins a growth and stutters.
LEMMA SetRefines ==
    ASSUME IInv, NEW a \in Addr, NEW t \in Text, Set(a, t)
    PROVE  Effect(a, t)
<1> DEFINE e == [addr |-> a, text |-> t]
<1>1. /\ e \in Entry /\ e.addr = a /\ e.text = t
      /\ IsTable(tab) /\ Sound(tab) /\ call = None
  BY DEF Entry, IInv, TypeOK, TablesSound, Set
<1>2. Find(tab, a) = Hits(tab, a)
  BY <1>1, FindIsHits
<1>3. \A b \in Addr : Map[b] = TextAt(tab, b)
  BY <1>1 DEF Map
<1>4. \/ \E k \in Find(tab, a) : Put(k, e)
      \/ Find(tab, a) = {} /\ \E k \in FindEmpty(tab, a) : Put(k, e)
      \/ Grow(e)
  BY DEF Set
<1> HIDE DEF e
<1>5. ASSUME NEW k \in Find(tab, a), Put(k, e)
      PROVE  Directory!Set(a, t) /\ call' = None
  <2>0. call' = None
    BY <1>5 DEF Put
  <2>1. k \in Hits(tab, a) /\ \A m \in Hits(tab, a) : m = k
    BY <1>1, <1>2, <1>5 DEF Sound, Hits
  <2>2. k \in Slots(tab) /\ \E o \in Offsets : k = Probe(tab, a, o)
    BY <1>1, <2>1 DEF Sound, Hits
  <2> QED BY <1>1, <1>3, <1>5, <2>0, <2>1, <2>2, PutSets
<1>6. ASSUME Find(tab, a) = {}, NEW k \in FindEmpty(tab, a), Put(k, e)
      PROVE  Directory!Set(a, t) /\ call' = None
  <2>0. call' = None
    BY <1>6 DEF Put
  <2>1. /\ k \in Slots(tab) /\ \E o \in Offsets : k = Probe(tab, a, o)
        /\ tab.slot[k] = None /\ Hits(tab, a) = {}
    BY <1>2, <1>6, FreeSlot
  <2> QED BY <1>1, <1>3, <1>6, <2>0, <2>1, PutSets
<1>7. ASSUME Grow(e)
      PROVE  UNCHANGED <<Map, got>> /\ call' # None
  <2>1. call' # None
    BY <1>1, <1>7, NoneAssumption DEF Grow
  <2> QED BY <1>1, <1>3, <1>7, <2>1, GrowKeeps
<1> QED BY <1>4, <1>5, <1>6, <1>7 DEF Effect

\* Copying is invisible.
LEMMA RehashRefines ==
    ASSUME Rehash
    PROVE  UNCHANGED <<Map, got>>
<1>1. call # None /\ call' = call /\ old' = old /\ got' = got
  BY DEF Rehash
<1>2. Map' = [a \in Addr |-> TextAt(old, a)] /\ Map = [a \in Addr |-> TextAt(old, a)]
  BY <1>1 DEF Map
<1> QED BY <1>1, <1>2

\* The write that ends a growth sets the text; growing once more is invisible.
LEMMA RetryRefines ==
    ASSUME IInv, Retry
    PROVE  Effect(call.addr, call.text)
<1>1. call # None /\ call \in Entry /\ next = old.size
  BY DEF Retry, IInv, TypeOK
<1>2. \A a \in Addr : Map[a] = TextAt(tab, a)
  BY <1>1, CopyFinished
<1>3. Hits(tab, call.addr) = {}
  BY <1>1, NotYetCopied
<1>4. ASSUME NEW k \in FindEmpty(tab, call.addr), Put(k, call)
      PROVE  Directory!Set(call.addr, call.text) /\ call' = None
  <2>0. call' = None
    BY <1>4 DEF Put
  <2>1. /\ k \in Slots(tab) /\ tab.slot[k] = None
        /\ \E o \in Offsets : k = Probe(tab, call.addr, o)
    BY <1>4, FreeSlot
  <2> QED BY <1>1, <1>2, <1>3, <1>4, <2>0, <2>1, PutSets
<1>5. ASSUME Grow(call) PROVE UNCHANGED <<Map, got>> /\ call' # None
  <2>1. call' # None
    BY <1>1, <1>5 DEF Grow
  <2> QED BY <1>1, <1>2, <1>5, <2>1, GrowKeeps
<1> QED BY <1>4, <1>5 DEF Retry, Effect

\* Looking up answers with the directory's text.
LEMMA GetRefines ==
    ASSUME IInv, NEW a \in Addr, Get(a)
    PROVE  Directory!Get(a)
<1>1. /\ call = None /\ IsTable(tab) /\ Sound(tab)
      /\ UNCHANGED <<tab, old, next, call>>
  BY DEF Get, IInv, TypeOK, TablesSound
<1>2. Find(tab, a) = Hits(tab, a) /\ Map[a] = TextAt(tab, a) /\ Map' = Map
  BY <1>1, FindIsHits DEF Map
<1>3. CASE got' \in Lookup(tab, a)
  <2>1. PICK k \in Hits(tab, a) : got' = tab.slot[k].text
    BY <1>2, <1>3 DEF Lookup
  <2>2. got' = Map[a]
    BY <1>1, <1>2, <2>1, TextOfHit
  <2> QED BY <1>2, <2>2 DEF Directory!Get
<1>4. CASE Find(tab, a) = {} /\ got' = NoText
  BY <1>2, <1>4, NoHitNoText DEF Directory!Get
<1> QED BY <1>3, <1>4 DEF Get

\* Whatever is set and however often the table grows, assembly_get answers with
\* the text that was set last.
THEOREM TableImplements == Spec => Implements
<1>1. Init => Directory!Init
  <2> SUFFICES ASSUME Init PROVE Directory!Init
    OBVIOUS
  <2>1. \A a : Hits(tab, a) = {}
    BY DEF Init, Empty, Slots, Hits
  <2>2. Map = [a \in Addr |-> NoText]
    BY <2>1, NoHitNoText DEF Init, Map
  <2> QED BY <2>2 DEF Init, Directory!Init
<1>2. IInv /\ [Next]_vars => [Directory!Next]_<<Map, got>>
  <2> SUFFICES ASSUME IInv, [Next]_vars
               PROVE  Directory!Next \/ UNCHANGED <<Map, got>>
    OBVIOUS
  <2>1. ASSUME NEW a \in Addr, NEW t \in Text, Set(a, t)
        PROVE  Directory!Next \/ UNCHANGED <<Map, got>>
    BY <2>1, SetRefines DEF Directory!Next, Effect
  <2>2. ASSUME NEW a \in Addr, Get(a)
        PROVE  Directory!Next
    BY <2>2, GetRefines DEF Directory!Next
  <2>3. ASSUME Retry
        PROVE  Directory!Next \/ UNCHANGED <<Map, got>>
    <3>1. call.addr \in Addr /\ call.text \in Text
      BY <2>3 DEF IInv, TypeOK, Retry, Entry
    <3> QED BY <2>3, <3>1, RetryRefines DEF Directory!Next, Effect
  <2>4. CASE UNCHANGED vars
    BY <2>4 DEF vars, Map
  <2> QED BY <2>1, <2>2, <2>3, <2>4, RehashRefines DEF Next
<1>3. IInv /\ [Next]_vars => [AsCalled]_vars
  BY SetRefines, GetRefines, RetryRefines DEF AsCalled
<1> QED BY <1>1, <1>2, <1>3, Invariance, PTL DEF Spec, Implements, Directory!Spec
=============================================================================
