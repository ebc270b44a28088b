---------------------------- MODULE MCPeerNetwork ----------------------------
(* Small networks of peers for TLC.                                        *)
EXTENDS PeerNetwork

CONSTANTS p1, p2, p3, p4

\* p1 is the first peer; the others contact it.
Star   == [p \in Peers |-> IF p = p1 THEN None ELSE p1]
\* p1 is the first peer, p2 contacts it, p3 contacts p2.
Chain  == [p \in Peers |-> CASE p = p1 -> None [] p = p2 -> p1 [] p = p3 -> p2]
\* Every peer on a port of its own.
Ports  == [p \in Peers |-> CASE p = p1 -> <<1>> [] p = p2 -> <<2>> [] p = p3 -> <<3>>
                                [] p = p4 -> <<4>>]
All    == Peers
=============================================================================
