------------------------------- MODULE AddrMap -------------------------------
(* What assembly.h promises: a directory of texts by address.  Setting the    *)
(* text of an address replaces the one it had; an address never set has the   *)
(* empty text.                                                                *)
CONSTANTS Addr, Text, NoText

VARIABLES
    map,   \* the text of every address
    got    \* the last answer

Init == map = [a \in Addr |-> NoText] /\ got = NoText

Set(a, t) == map' = [map EXCEPT ![a] = t] /\ UNCHANGED got
Get(a)    == got' = map[a] /\ UNCHANGED map

Next == \E a \in Addr : Get(a) \/ \E t \in Text : Set(a, t)

Spec == Init /\ [][Next]_<<map, got>>
=============================================================================
