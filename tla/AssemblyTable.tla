---------------------------- MODULE AssemblyTable ----------------------------
(***************************************************************************)
(* A5/src/assembly.c: the texts of the instructions, in a hash table with   *)
(* linear probing that looks at four slots only and grows when all four     *)
(* are taken.  Growing copies the entries one by one into a larger table;   *)
(* if one of them finds no slot there, a still larger table is started.     *)
(*                                                                          *)
(* A table is a record like struct assembly: its size and its slots.        *)
(***************************************************************************)
EXTENDS Integers

CONSTANTS
    Addr,     \* the addresses; sscanf reads them with %x, all below 2^31
    Text,     \* the texts
    NoText,   \* the empty text
    None      \* a slot whose entry is not valid; no table, no call

Entry == [addr : Addr, text : Text]

ASSUME AddrAssumption == Addr \subseteq Nat
ASSUME NoneAssumption == None \notin Entry

VARIABLES
    tab,   \* the table of the struct
    old,   \* the table being rehashed, or None
    next,  \* the slot of the old table that is rehashed next
    call,  \* the entry that assembly_set is growing the table for, or None
    got    \* the last answer of assembly_get

vars == <<tab, old, next, call, got>>

-----------------------------------------------------------------------------

Offsets   == 0..3
Slots(t)  == 0..(t.size - 1)

\* calloc: no entry is valid.
Empty(n) == [size |-> n, slot |-> [k \in 0..(n - 1) |-> None]]

\* Where the search for address a looks after "offset" misses.
Probe(t, a, offset) ==
    LET k == (a % t.size) + offset IN IF k < t.size THEN k ELSE k - t.size

\* The first slot on the way that is among hits: none or one.
First(t, a, hits) ==
    {Probe(t, a, o) : o \in {o \in Offsets :
        /\ Probe(t, a, o) \in hits
        /\ \A m \in Offsets : m < o => Probe(t, a, m) \notin hits}}

\* assembly_find_entry and assembly_find_empty; {} is NOT_FOUND.
Find(t, a) ==
    First(t, a, {k \in Slots(t) : t.slot[k] # None /\ t.slot[k].addr = a})
FindEmpty(t, a) == First(t, a, {k \in Slots(t) : t.slot[k] = None})

Write(t, k, e) == [t EXCEPT !.slot[k] = e]

\* Mutation: a larger table that is as small as the one that was full.
LargerNot(t) == Empty(t.size)

Larger(t) == Empty(1 + 2 * t.size)

-----------------------------------------------------------------------------

\* assembly_create
Init ==
    /\ tab = Empty(4)
    /\ old = None
    /\ next = 0
    /\ call = None
    /\ got = NoText

\* assembly_grow_and_rehash up to its inner loop.
Grow(e) ==
    /\ call' = e
    /\ old' = tab
    /\ tab' = Larger(tab)
    /\ next' = 0
    /\ UNCHANGED got

\* Mutation: the old table is not freed.
PutKeepsOld(k, e) ==
    /\ tab' = Write(tab, k, e) /\ call' = None /\ next' = 0
    /\ UNCHANGED <<old, got>>

Put(k, e) ==
    /\ tab' = Write(tab, k, e)
    /\ call' = None
    /\ old' = None
    /\ next' = 0
    /\ UNCHANGED got

\* Mutations: no search for the entry, and a search only once no slot is free.
SetBlindly(a, t) ==
    LET e == [addr |-> a, text |-> t]
    IN /\ call = None
       /\ \/ \E k \in FindEmpty(tab, a) : Put(k, e)
          \/ FindEmpty(tab, a) = {} /\ Grow(e)
SetGrowsFirst(a, t) ==
    LET e == [addr |-> a, text |-> t]
    IN /\ call = None
       /\ \/ FindEmpty(tab, a) = {} /\ Grow(e)
          \/ FindEmpty(tab, a) # {} /\ \E k \in Find(tab, a) : Put(k, e)
          \/ Find(tab, a) = {} /\ \E k \in FindEmpty(tab, a) : Put(k, e)

\* assembly_set: overwrite, or take an empty slot, or start to grow.
Set(a, t) ==
    LET e == [addr |-> a, text |-> t]
    IN /\ call = None
       /\ \/ \E k \in Find(tab, a) : Put(k, e)
          \/ Find(tab, a) = {} /\ \E k \in FindEmpty(tab, a) : Put(k, e)
          \/ Find(tab, a) = {} /\ FindEmpty(tab, a) = {} /\ Grow(e)

\* Mutations: a larger table is filled from where the last one was full, and an
\* entry that finds no slot is left behind.
RehashGoesOn ==
    /\ call # None /\ next < old.size
    /\ \/ old.slot[next] = None /\ next' = next + 1 /\ UNCHANGED tab
       \/ /\ old.slot[next] # None /\ next' = next + 1
          /\ \E k \in FindEmpty(tab, old.slot[next].addr) :
                tab' = Write(tab, k, old.slot[next])
       \/ /\ old.slot[next] # None /\ UNCHANGED next
          /\ FindEmpty(tab, old.slot[next].addr) = {}
          /\ tab' = Larger(tab)
    /\ UNCHANGED <<old, call, got>>
RehashLeaves ==
    /\ call # None /\ next < old.size /\ next' = next + 1
    /\ \/ old.slot[next] = None /\ UNCHANGED tab
       \/ /\ old.slot[next] # None
          /\ \E k \in FindEmpty(tab, old.slot[next].addr) :
                tab' = Write(tab, k, old.slot[next])
       \/ /\ old.slot[next] # None /\ UNCHANGED tab
          /\ FindEmpty(tab, old.slot[next].addr) = {}
    /\ UNCHANGED <<old, call, got>>

\* One round of the loop over the old table.
Rehash ==
    /\ call # None /\ next < old.size
    /\ \/ /\ old.slot[next] = None
          /\ next' = next + 1
          /\ UNCHANGED tab
       \/ /\ old.slot[next] # None
          /\ \E k \in FindEmpty(tab, old.slot[next].addr) :
                tab' = Write(tab, k, old.slot[next])
          /\ next' = next + 1
       \/ /\ old.slot[next] # None
          /\ FindEmpty(tab, old.slot[next].addr) = {}
          /\ tab' = Larger(tab)
          /\ next' = 0
    /\ UNCHANGED <<old, call, got>>

\* Back in assembly_set: look for a slot again, and grow again if need be.
Retry ==
    /\ call # None /\ next = old.size
    /\ \/ \E k \in FindEmpty(tab, call.addr) : Put(k, call)
       \/ FindEmpty(tab, call.addr) = {} /\ Grow(call)

Lookup(t, a) == {t.slot[k].text : k \in Find(t, a)}

\* assembly_get
Get(a) ==
    /\ call = None
    /\ \/ got' \in Lookup(tab, a)
       \/ Find(tab, a) = {} /\ got' = NoText
    /\ UNCHANGED <<tab, old, next, call>>

Next == \/ \E a \in Addr, t \in Text : Set(a, t)
        \/ \E a \in Addr : Get(a)
        \/ Rehash \/ Retry

Spec == Init /\ [][Next]_vars

\* A call that began runs on to its end.
FairSpec == Spec /\ WF_vars(Rehash) /\ WF_vars(Retry)

-----------------------------------------------------------------------------

IsTable(t) == /\ t.size \in Nat /\ t.size >= 4
              /\ t = [size |-> t.size, slot |-> t.slot]
              /\ t.slot \in [Slots(t) -> Entry \cup {None}]

\* The type of the state: during a growth, and only then, there is an old table.
TypeOK ==
    /\ IsTable(tab)
    /\ call \in Entry \cup {None}
    /\ IF call = None THEN old = None /\ next = 0
                      ELSE IsTable(old) /\ next \in 0..old.size
    /\ got \in Text \cup {NoText}

\* Every entry lies where a search for its address looks, and no address has
\* two entries: otherwise an update could leave a stale text to be found later.
Sound(t) ==
    /\ \A k \in Slots(t) : t.slot[k] # None =>
          \E o \in Offsets : k = Probe(t, t.slot[k].addr, o)
    /\ \A k, m \in Slots(t) :
          t.slot[k] # None /\ t.slot[m] # None /\ t.slot[k].addr = t.slot[m].addr
             => k = m
TablesSound == Sound(tab) /\ (call # None => Sound(old))

\* While it grows, the new table holds exactly the entries copied so far,
\* however often the copying started over in a larger one.
Copied ==
    call # None =>
       /\ \A k \in Slots(old) : k < next /\ old.slot[k] # None =>
             \E m \in Slots(tab) : tab.slot[m] = old.slot[k]
       /\ \A m \in Slots(tab) : tab.slot[m] # None =>
             \E k \in Slots(old) : k < next /\ tab.slot[m] = old.slot[k]

\* Nobody is ever in need of a larger table for an address the table holds.
GrowsForStranger ==
    call # None => \A k \in Slots(old) :
                      old.slot[k] # None => old.slot[k].addr # call.addr

\* The directory the table stands for; while it grows, that of the old table.
Held(t, a) == {t.slot[k].text : k \in {k \in Slots(t) :
                                   t.slot[k] # None /\ t.slot[k].addr = a}}
TextAt(t, a) == IF Held(t, a) = {} THEN NoText
                ELSE CHOOSE x \in Held(t, a) : TRUE
Map == [a \in Addr |-> TextAt(IF call = None THEN tab ELSE old, a)]

\* The table implements the directory: a set takes effect when its entry is
\* written, and no growth changes an answer.  Each call has its effect at the
\* address, and with the text, that it was made with.
Directory == INSTANCE AddrMap WITH map <- Map
Effect(a, t) == IF call' = None THEN Directory!Set(a, t) ELSE UNCHANGED <<Map, got>>
AsCalled ==
    /\ \A a \in Addr, t \in Text : Set(a, t) => Effect(a, t)
    /\ \A a \in Addr : Get(a) => Directory!Get(a)
    /\ Retry => Effect(call.addr, call.text)
Implements == Directory!Spec /\ [][AsCalled]_vars

\* Every growth ends: some table is large enough.
SetReturns == call # None ~> call = None
=============================================================================
