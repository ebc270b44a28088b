------------------------------- MODULE RadixTree ------------------------------
(***************************************************************************)
(* A6/handout/radix.c: a binary radix tree of numbers and how often each    *)
(* was added.  Its nodes live in blocks of lib.c's heap.  One round of the  *)
(* loop of add_number, and one stretch of a recursive function between two  *)
(* calls, is one step.                                                      *)
(*                                                                          *)
(* bit_pos is the number of the bit here, not its value.                    *)
(***************************************************************************)
EXTENDS Allocator, FiniteSetsExt

CONSTANTS
    Top,       \* 30 in the code (MAX_BITS is 1<<30)
    MaxTake,   \* 100 in the code: room in out_numbers
    Takes,     \* how many numbers a command of the input may ask for
    Commands   \* the length of the input

Numbers  == 0..(2^(Top + 1) - 1)
NodeSize == 16

ASSUME TreeAssumption ==
    /\ Top \in Nat /\ MaxTake \in Nat \ {0} /\ Commands \in Nat
    /\ Takes \subseteq Nat \ {0} /\ NodeSize \in Requests

\* What a power of two is: the provers do not know.
ASSUME PowersAssumption == \A i \in 0..Top : 2^i \in Nat \ {0} /\ 2^(i + 1) = 2 * 2^i

VARIABLES
    tree,     \* the root, or NULL
    node,     \* the contents of the blocks in use
    pc,       \* where the program is
    number,   \* add_number: its argument, the loop's bit_pos and parent
    bit_pos,
    parent,
    limit,    \* main: how many numbers are still to be output
    room,     \* the numbers that out_numbers is to hold at most, and holds
    out,
    stack,    \* the calls of take_numbers_2 or release_tree
    input     \* how many commands are left

walk == <<number, bit_pos, parent>>
vars == <<heap, tree, node, pc, walk, limit, room, out, stack, input>>

Init ==
    /\ HeapInit
    /\ tree = NULL /\ node = <<>>
    /\ pc = "main"
    /\ number = 0 /\ bit_pos = 0 /\ parent = <<NULL, "root">>
    /\ limit = 0 /\ room = 0 /\ out = <<>>
    /\ stack = <<>>
    /\ input = Commands

-----------------------------------------------------------------------------
(* Nodes.  A leaf counts its two numbers where an interior node has its two *)
(* links: the union in the code.                                            *)

Bit(n, i) == (n \div 2^i) % 2

Root == <<NULL, "root">>

\* The link at a location: the root's, or a node's for one value of its bit.
Link(at) == IF at = Root THEN tree ELSE node[at[1]][at[2]]
Side(n, i) == IF Bit(n, i) = 0 THEN "zero" ELSE "one"

\* The link at a location becomes p, in the memory m.
Point(at, p, m) ==
    /\ tree' = IF at = Root THEN p ELSE tree
    /\ node' = IF at = Root THEN m ELSE [m EXCEPT ![at[1]][at[2]] = p]

\* The memory with a new block b.
With(b, n) == [c \in DOMAIN node \cup {b} |-> IF c = b THEN n ELSE node[c]]
Without(b) == [c \in DOMAIN node \ {b} |-> node[c]]

\* What allocate(sizeof(struct node)) returns.
New == Block(NodeSize)

-----------------------------------------------------------------------------
(* add_number                                                              *)

\* A command is read that adds n.
ReadAdd(n) ==
    /\ pc = "main" /\ input > 0 /\ input' = input - 1
    /\ number' = n /\ bit_pos' = Top /\ parent' = Root /\ pc' = "add"
    /\ UNCHANGED <<heap, tree, node, limit, room, out, stack>>

Here == Link(parent)

\* The bits in which the number differs from those below a node, above its own bit.
Diff == {i \in (node[Here].bit_pos + 1)..bit_pos :
            Bit(number, i) # Bit(node[Here].number, i)}

\* Mutation: the lowest bit that differs.
LowestDiff == Min(Diff)

BranchBit == Max(Diff)

\* add_number returns, and its variables are gone.
Added == pc' = "main" /\ number' = 0 /\ bit_pos' = 0 /\ parent' = Root

\* There is no subtree: a leaf for the number.
Create ==
    /\ pc = "add" /\ Here = NULL
    /\ Allocate(NodeSize)
    /\ Point(parent, New,
             With(New, [bit_pos |-> 0, number |-> number,
                          zero |-> 1 - Bit(number, 0), one |-> Bit(number, 0)]))
    /\ Added
    /\ UNCHANGED <<limit, room, out, stack, input>>

\* The number differs from the subtree: a branch above it.
Inject ==
    LET side == Side(number, BranchBit)
        zero == IF side = "zero" THEN NULL ELSE Here
        one  == IF side = "zero" THEN Here ELSE NULL
    IN /\ pc = "add" /\ Here # NULL /\ Diff # {}
       /\ Allocate(NodeSize)
       /\ Point(parent, New,
                With(New, [bit_pos |-> BranchBit, number |-> number,
                             zero |-> zero, one |-> one]))
       /\ parent' = <<New, side>>
       /\ bit_pos' = BranchBit - 1
       /\ UNCHANGED <<pc, number, limit, room, out, stack, input>>

\* Where the number is in the subtree: at the bit of its node, or further down.
At == IF bit_pos > node[Here].bit_pos THEN node[Here].bit_pos ELSE bit_pos

Descend ==
    /\ pc = "add" /\ Here # NULL /\ Diff = {} /\ At > 0
    /\ parent' = <<Here, Side(number, At)>>
    /\ bit_pos' = At - 1
    /\ UNCHANGED <<heap, tree, node, pc, number, limit, room, out, stack, input>>

Count ==
    /\ pc = "add" /\ Here # NULL /\ Diff = {} /\ At = 0
    /\ node' = [node EXCEPT ![Here][Side(number, 0)] = @ + 1]
    /\ Added
    /\ UNCHANGED <<heap, tree, limit, room, out, stack, input>>

-----------------------------------------------------------------------------
(* take_numbers                                                            *)

\* A command is read that takes n numbers.
ReadTake(n) ==
    /\ pc = "main" /\ input > 0 /\ input' = input - 1
    /\ limit' = n /\ pc' = "take"
    /\ UNCHANGED <<heap, tree, node, walk, room, out, stack>>

Call(at) == [at |-> at, next |-> "zero"]
Top1     == Head(stack)
Return   == stack' = Tail(stack)

\* Mutation: the second branch is not visited.
AfterFirst(next) == "leave"

\* A node's branches are visited one after the other, and then it is left.
After(next) == IF next = "zero" THEN "one" ELSE "leave"
Visit(at)   == stack' = <<Call(at), [Top1 EXCEPT !.next = After(Top1.next)]>> \o Tail(stack)

StartTake ==
    /\ pc = "take" /\ pc' = "visit"
    /\ room' = Min({limit, MaxTake}) /\ out' = <<>>
    /\ stack' = <<Call(Root)>>
    /\ UNCHANGED <<heap, tree, node, walk, limit, input>>

Visited == Link(Top1.at)
Visiting == pc = "visit" /\ stack # <<>>
AtLeaf == Visiting /\ Visited # NULL /\ node[Visited].bit_pos = 0
AtBranch == Visiting /\ Visited # NULL /\ node[Visited].bit_pos # 0

\* The number a leaf counts on one side.
Value(side) == LET n == node[Visited].number
               IN n - Bit(n, 0) + (IF side = "one" THEN 1 ELSE 0)

\* Mutation: the buffer has no end.
Endless == FALSE

Full == Len(out) >= room

\* Mutation: the odd number comes first.
OddFirst(side) == node[Visited][side] > 0 /\ (side = "one" \/ node[Visited].one = 0)

\* The even number comes first.
Taken(side) == node[Visited][side] > 0 /\ (side = "zero" \/ node[Visited].zero = 0)

TakeFrom(side) ==
    /\ AtLeaf /\ ~Full /\ Taken(side)
    /\ node' = [node EXCEPT ![Visited][side] = @ - 1]
    /\ out' = Append(out, Value(side))
    /\ UNCHANGED <<heap, tree, pc, walk, limit, room, stack, input>>

Empty(b) == node[b].zero = 0 /\ node[b].one = 0

\* An empty leaf and a branch without branches are removed.
Removable(b) == Empty(b)

\* Mutation: the link to a released node stays.
Forget == tree' = tree /\ node' = Without(Visited)

Unlink == Point(Top1.at, NULL, Without(Visited))

\* The visit of a node ends.
Leave ==
    /\ \/ AtLeaf /\ (Full \/ Empty(Visited))
       \/ AtBranch /\ Top1.next = "leave"
    /\ IF Removable(Visited) THEN Release(Visited) /\ Unlink
       ELSE UNCHANGED <<heap, tree, node>>
    /\ Return
    /\ UNCHANGED <<pc, walk, limit, room, out, input>>

VisitNothing ==
    /\ Visiting /\ Visited = NULL
    /\ Return
    /\ UNCHANGED <<heap, tree, node, pc, walk, limit, room, out, input>>

\* The branches are visited one after the other, even if there is no more room.
VisitBranch ==
    /\ AtBranch /\ Top1.next # "leave"
    /\ Visit(<<Visited, Top1.next>>)
    /\ UNCHANGED <<heap, tree, node, pc, walk, limit, room, out, input>>

\* Mutation: a take from the empty tree is tried again.
Owing == limit > Len(out)

Again == limit > Len(out) /\ out # <<>>

\* The numbers are written, and more of them taken unless there were none.
Write ==
    /\ pc = "visit" /\ stack = <<>>
    /\ IF Again THEN pc' = "take" /\ limit' = limit - Len(out)
       ELSE pc' = "main" /\ limit' = 0
    /\ out' = <<>> /\ room' = 0
    /\ UNCHANGED <<heap, tree, node, walk, stack, input>>

-----------------------------------------------------------------------------
(* release_tree                                                            *)

\* The input ends, or cannot be read on.
EndOfInput ==
    /\ pc = "main" /\ pc' = "release"
    /\ stack' = <<Call(tree)>>
    /\ UNCHANGED <<heap, tree, node, walk, limit, room, out, input>>

Releasing == pc = "release" /\ stack # <<>>

ReleaseBranch ==
    /\ Releasing /\ Top1.at # NULL
    /\ node[Top1.at].bit_pos > 0 /\ Top1.next # "leave"
    /\ Visit(node[Top1.at][Top1.next])
    /\ UNCHANGED <<heap, tree, node, pc, walk, limit, room, out, input>>

ReleaseNode ==
    /\ Releasing
    /\ IF Top1.at = NULL THEN UNCHANGED <<heap, node>>
       ELSE /\ node[Top1.at].bit_pos = 0 \/ Top1.next = "leave"
            /\ Release(Top1.at) /\ node' = Without(Top1.at)
    /\ Return
    /\ UNCHANGED <<tree, pc, walk, limit, room, out, input>>

Exit ==
    /\ pc = "release" /\ stack = <<>> /\ pc' = "done"
    /\ UNCHANGED <<heap, tree, node, walk, limit, room, out, stack, input>>

-----------------------------------------------------------------------------

Read == \E n \in Numbers : ReadAdd(n) \/ (n \in Takes /\ ReadTake(n))

Run == \/ Create \/ Inject \/ Descend \/ Count
       \/ StartTake \/ (\E side \in {"zero", "one"} : TakeFrom(side)) \/ Leave
       \/ VisitNothing \/ VisitBranch \/ Write
       \/ ReleaseBranch \/ ReleaseNode \/ Exit

Next == Read \/ EndOfInput \/ Run

Spec == Init /\ [][Next]_vars

\* The program runs on while it does not wait for input.
FairSpec == Spec /\ WF_vars(Run)

-----------------------------------------------------------------------------

\* The type of the state.
Node == [bit_pos : 0..Top, number : Numbers, zero : Nat, one : Nat]
TypeOK ==
    /\ free_space \in Nat
    /\ headers \in [Sizes -> Seq(Nat)]
    /\ size \in [InUse -> Nat] /\ InUse \subseteq Nat
    /\ node \in [InUse -> Node]
    /\ tree \in Nat
    /\ pc \in {"main", "add", "take", "visit", "release", "done"}
    /\ number \in Numbers /\ bit_pos \in 0..Top
    /\ limit \in Nat /\ room \in 0..MaxTake /\ out \in Seq(Numbers) /\ Len(out) <= room
    /\ input \in 0..Commands

Branches == {b \in InUse : node[b].bit_pos > 0}
Leaves   == {b \in InUse : node[b].bit_pos = 0}
Links    == {Root} \cup (Branches \X {"zero", "one"})

\* The blocks in use are the nodes of a tree: each has exactly one link, and no
\* link leads elsewhere.  Nothing leaks, nothing is reached twice or after its
\* release.
OneLink ==
    pc \notin {"release", "done"} =>
       /\ \A b \in InUse : \E at \in Links :
             Link(at) = b /\ \A other \in Links \ {at} : Link(other) # b
       /\ \A at \in Links : Link(at) # NULL => Link(at) \in InUse

\* Below a branch all numbers agree with its own above its bit, and the bit is
\* what the side says.
Agree(n, m, i) == \A j \in (i + 1)..Top : Bit(n, j) = Bit(m, j)
Ordered ==
    pc \notin {"release", "done"} =>
       \A b \in Branches, side \in {"zero", "one"} :
          LET c == node[b][side] IN c # NULL =>
             /\ node[c].bit_pos < node[b].bit_pos
             /\ Side(node[c].number, node[b].bit_pos) = side
             /\ Agree(node[c].number, node[b].number, node[b].bit_pos)

\* Between two commands there is no empty leaf, and no branch without branches.
NothingEmpty == pc = "main" => \A b \in InUse : ~Empty(b)

\* What add_number and take_numbers rely on when they descend: the order of the bits and
\* no dead ends.
WellFormed == Ordered /\ NothingEmpty

\* At its end the program has given every block back.
AllReleased == pc = "done" => InUse = {}

\* The bag of numbers: each is counted in the leaf it shares with its neighbour.
Copies(n) ==
    LET leaves == {b \in Leaves : node[b].number \div 2 = n \div 2}
    IN IF leaves = {} THEN 0 ELSE node[CHOOSE b \in leaves : TRUE][Side(n, 0)]
Bag == [n \in Numbers |-> IF pc \in {"release", "done"} THEN 0 ELSE Copies(n)]

\* The program takes the numbers that were added, the smallest first, as many as
\* were asked for or as there are, through any order of additions and removals.
Promise == INSTANCE SortedBag
    WITH bag <- Bag, buffer <- out, Nothing <- -1,
         adding <- IF pc = "add" THEN number ELSE -1,
         owed <- IF pc \in {"take", "visit"} THEN limit - Len(out) ELSE 0
Implements == Promise!Spec

\* Every command is carried out to its end.
CommandsEnd == pc \in {"add", "take", "visit", "release"} ~> pc \in {"main", "done"}
=============================================================================
