------------------------------- MODULE Blocks --------------------------------
(***************************************************************************)
(* How the file protocol of A3 and A4 cuts data into blocks and how the two *)
(* kinds of receivers put them together.  A hash is the data itself: SHA-256 *)
(* is taken to have no collisions.                                          *)
(***************************************************************************)
EXTENDS Integers, Sequences, FiniteSetsExt

CONSTANTS
    B,     \* bytes of a full block
    NUL    \* the byte 0

ASSUME BlockAssumption == B \in Nat \ {0}

\* Bytes i*B+1 .. (i+1)*B of d, fewer at its end.
Piece(d, i) == SubSeq(d, i * B + 1, Min({Len(d), (i + 1) * B}))

\* Mutation: no block for an empty file.
PyCountNone(d) == (Len(d) + B - 1) \div B

\* ceil(len / B), and one block when there is nothing to send.
PyCount(d) == IF Len(d) = 0 THEN 1 ELSE (Len(d) + B - 1) \div B

\* peer.c always counts one more than the full blocks.
CCount(size) == size \div B + 1

\* Mutation: the total is that of the block.
BlockOwnTotal(num, count, payload, total) ==
    [status |-> "OK", num |-> num, count |-> count, payload |-> payload,
     total |-> payload]

\* A reply: payload stands for its own hash and its length, total for the hash
\* of all the data.
Block(num, count, payload, total) ==
    [status |-> "OK", num |-> num, count |-> count, payload |-> payload,
     total |-> total]
Refusal == [status |-> "BAD", num |-> 0, count |-> 1, payload |-> <<>>,
            total |-> <<>>]

\* What fputs writes of w.
UpToNul(w) ==
    LET nuls == {i \in DOMAIN w : w[i] = NUL}
    IN IF nuls = {} THEN w ELSE SubSeq(w, 1, Min(nuls) - 1)

\* Mutation: the file is opened to append.
WriteAtEnd(f, off, w) == f \o w

\* The file f after w was written at offset off: never shorter, and zeros where
\* nothing was ever written.
WriteAt(f, off, w) ==
    IF w = <<>> THEN f
    ELSE [i \in 1..Max({Len(f), off + Len(w)}) |->
            IF off < i /\ i <= off + Len(w) THEN w[i - off]
            ELSE IF i <= Len(f) THEN f[i] ELSE NUL]

\* Mutation: the payloads in the order they came.
JoinedAsCame(got) ==
    LET upto[k \in 0..Len(got)] ==
            IF k = 0 THEN <<>> ELSE upto[k - 1] \o got[k].payload
    IN upto[Len(got)]

\* The payloads in the order of their numbers; got is a sequence of blocks.
Joined(got) ==
    LET of(k)   == (CHOOSE j \in DOMAIN got : got[j].num = k)
        upto[k \in 0..Len(got)] ==
            IF k = 0 THEN <<>> ELSE upto[k - 1] \o got[of(k - 1)].payload
    IN upto[Len(got)]
=============================================================================
