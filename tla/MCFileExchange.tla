--------------------------- MODULE MCFileExchange ----------------------------
(* Peers and contents for TLC: none, one byte less than, exactly, and more  *)
(* than a block of two.                                                     *)
EXTENDS FileExchange, TLC

CONSTANTS p1, p2, p3, p4, a, b

Once == [p \in Peers |-> 1]

\* p1 has the file; the others have it in another version, or not at all.
OneVersion == {p1 :> <<a, b, a>> @@ p2 :> <<b, b>> @@ p3 :> Missing}

\* p4 only serves.  Three versions, of which one has a zero byte and one peer has none;
\* or the first peer has none and p4 has an empty one.
Four     == {p1 :> <<a, b, a>> @@ p2 :> <<b, b>> @@ p3 :> Missing @@ p4 :> <<b, NUL, a>>,
             p1 :> Missing @@ p2 :> <<b, b>> @@ p3 :> <<a>> @@ p4 :> <<>>}
FourOnce == [p \in Peers |-> IF p = p4 THEN 0 ELSE 1]
=============================================================================
