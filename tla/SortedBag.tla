------------------------------- MODULE SortedBag ------------------------------
(***************************************************************************)
(* What the program radix promises: a bag of numbers, of which the smallest *)
(* are taken, as many as were asked for or as there are.                    *)
(***************************************************************************)
EXTENDS Integers, Sequences

CONSTANTS Numbers, Nothing

VARIABLES
    bag,     \* how often each number is in the bag
    adding,  \* the number that is to be added, or Nothing
    owed,    \* how many numbers are still to be taken
    buffer   \* the numbers taken and not yet written

None == [n \in Numbers |-> 0]

Init == bag = None /\ adding = Nothing /\ owed = 0 /\ buffer = <<>>

Idle == adding = Nothing /\ owed = 0

Read(n) == Idle /\ adding' = n /\ UNCHANGED <<bag, owed, buffer>>

Add == /\ adding # Nothing /\ adding' = Nothing
       /\ bag' = [bag EXCEPT ![adding] = @ + 1]
       /\ UNCHANGED <<owed, buffer>>

Ask == Idle /\ owed' \in Nat \ {0} /\ UNCHANGED <<bag, adding, buffer>>

Smallest(n) == bag[n] > 0 /\ \A m \in Numbers : bag[m] > 0 => n <= m

Take(n) ==
    /\ owed > 0 /\ Smallest(n)
    /\ bag' = [bag EXCEPT ![n] = @ - 1]
    /\ owed' = owed - 1
    /\ buffer' = Append(buffer, n)
    /\ UNCHANGED adding

Write == buffer' = <<>> /\ UNCHANGED <<bag, adding, owed>>

\* The bag is empty: no more can be taken.
GiveUp == bag = None /\ owed' = 0 /\ UNCHANGED <<bag, adding, buffer>>

Discard == Idle /\ bag' = None /\ UNCHANGED <<adding, owed, buffer>>

Next == \/ \E n \in Numbers : Read(n) \/ Take(n)
        \/ Add \/ Ask \/ Write \/ GiveUp \/ Discard

Spec == Init /\ [][Next]_<<bag, adding, owed, buffer>>
=============================================================================
