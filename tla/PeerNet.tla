------------------------------- MODULE PeerNet -------------------------------
(***************************************************************************)
(* What the C peer (A4/handout/src/peer.c) and the Python peer             *)
(* (A4/handout/python/first_peer/peer.py) have in common: processes that    *)
(* keep a list of the peers they know behind one mutex, a client thread, a  *)
(* handler thread per accepted connection, and TCP connections that carry   *)
(* one request and at most one reply that anybody reads.                    *)
(*                                                                          *)
(* A client thread is named by its peer, a handler thread by the connection *)
(* it serves.                                                               *)
(***************************************************************************)
EXTENDS Integers, Sequences, SequencesExt

CONSTANTS
    CPeers,      \* the peers that run peer.c
    PyPeers,     \* the peers that run peer.py
    Conns,       \* names of connections; one is free again once both ends closed
    Contact,     \* [Peers -> Peers \cup {None}]: the peer of the config file
    Port,        \* [Peers -> Seq(digits)]: the decimal port string of a peer
    Listening,   \* the peers whose server already accepts connections
    Found,       \* subset of BOOLEAN: whether the files users name exist ({}: they name none)
    Ageing,      \* whether a minute without messages may pass
    Partial,     \* whether one recv of a Python peer may return a part of a reply
    None,        \* no peer, no thread, no connection, no reply
    Garbage      \* a list entry whose bytes were never written

Peers   == CPeers \cup PyPeers
Threads == Peers \cup Conns
Entries == Peers \cup {Garbage}

Awaited  == {"REGISTER", "RETRIEVE"}     \* the commands that expect a reply
Requests == [to : Peers, from : Peers, cmd : Awaited, about : {None}] \cup
            [to : Peers, from : Peers, cmd : {"INFORM"}, about : Entries]
Replies  == [status : {"OK", "EXISTS", "BAD"}, peers : Seq(Entries)]

ASSUME PeersAssumption   == CPeers \cap PyPeers = {} /\ Peers \cap Conns = {}
ASSUME NoneAssumption    == /\ None \notin Threads \cup {Garbage}
                            /\ None \notin Requests \cup Replies
ASSUME GarbageAssumption == Garbage \notin Threads
ASSUME ContactAssumption == /\ Contact \in [Peers -> Peers \cup {None}]
                            /\ \A p \in Peers : Contact[p] # p
ASSUME FoundAssumption   == Found \subseteq BOOLEAN
ASSUME SwitchAssumption  == Ageing \in BOOLEAN /\ Partial \in BOOLEAN

VARIABLES
    up,       \* life of the process: "starting", "listening" or "crashed"
    network,  \* the known peers, in the order they were added
    mutex,    \* the thread that holds network_mutex, or None
    pc,       \* where each thread is
    call,     \* the connection on which a thread awaits a reply, or None
    conn,     \* the request a connection carries, or None if it is free
    reply,    \* the reply written to a connection, or None
    seen,     \* the thread's own copy of a list of peers
    at,       \* the thread's position in a loop over such a list
    aged      \* Python: how many entries after its own are over 60 s old

state == <<up, network, mutex, aged>>
wires == <<call, conn, reply>>
vars  == <<up, network, mutex, pc, call, conn, reply, seen, at, aged>>

ClientPCs  == {"boot", "registering", "take", "merge", "merging", "joined",
               "scanned", "retrieving", "done", "dead"}
HandlerPCs == {"idle", "start", "inform", "asking", "take", "touched",
               "reply", "announce", "announcing", "closed"}

-----------------------------------------------------------------------------

Owner(t) == IF t \in Peers THEN t ELSE conn[t].to

FreeConns == {c \in Conns : conn[c] = None}

\* No ESTABLISHED server, no connection: compsys_helper_open_clientfd returns
\* a negative descriptor and socket.connect raises.
Reachable(q) == q \in Peers /\ up[q] = "listening"

\* Mutation: a handler names the end of the connection it serves as the sender
\* (client_address), not the address its server was configured with.
DialFromSocket(c, t, q, cmd, about) ==
    conn' = [conn EXCEPT ![c] = [to |-> q, from |-> t, cmd |-> cmd,
                                 about |-> about]]

\* What compsys_helper_open_clientfd (connect) and the write that follows do:
\* the kernel of q completes the connection and server_thread (or
\* ThreadingTCPServer) starts a handler, which reads the whole request.
Dial(c, t, q, cmd, about) ==
    conn' = [conn EXCEPT ![c] = [to |-> q, from |-> Owner(t), cmd |-> cmd,
                                 about |-> about]]

FirstFree == CHOOSE c \in FreeConns : TRUE

\* The thread sends a request and will wait at pc "waiting" for the reply.
Ask(t, q, cmd, waiting) ==
    /\ Reachable(q)
    /\ FreeConns # {}
    /\ Dial(FirstFree, t, q, cmd, None)
    /\ call' = [call EXCEPT ![t] = FirstFree]
    /\ pc' = [pc EXCEPT ![t] = waiting, ![FirstFree] = "start"]
    /\ UNCHANGED reply

\* The handler of c returns and its socket closes; r is the reply it wrote
\* (None if it wrote none).  If the other end already closed, c is free.
Finish(c, r) ==
    IF \E t \in Threads : call[t] = c
    THEN /\ pc' = [pc EXCEPT ![c] = "closed"]
         /\ reply' = [reply EXCEPT ![c] = IF r = None THEN @ ELSE r]
         /\ UNCHANGED <<call, conn>>
    ELSE /\ pc' = [pc EXCEPT ![c] = "idle"]
         /\ reply' = [reply EXCEPT ![c] = None]
         /\ conn' = [conn EXCEPT ![c] = None]
         /\ UNCHANGED call

\* The thread stops awaiting its reply, closes its end and goes on at next.
HangUp(t, next) ==
    LET c == call[t] IN
    /\ call' = [call EXCEPT ![t] = None]
    /\ IF pc[c] = "closed"
       THEN /\ pc' = [pc EXCEPT ![t] = next, ![c] = "idle"]
            /\ conn' = [conn EXCEPT ![c] = None]
            /\ reply' = [reply EXCEPT ![c] = None]
       ELSE /\ pc' = [pc EXCEPT ![t] = next]
            /\ UNCHANGED <<conn, reply>>

Answered(t) == call[t] # None /\ reply[call[t]] # None

\* The reader meets the end of the stream: no reply will ever come.
Eof(t) == call[t] # None /\ reply[call[t]] = None /\ pc[call[t]] = "closed"

\* The process of p dies: its threads stop and its sockets close.
\* "answered" is reply with what p had written before it died.
Crash(p, answered) ==
    LET mine == {p} \cup {c \in Conns : conn[c] # None /\ conn[c].to = p}
        awaited(c) == \E t \in Threads \ mine : call[t] = c
        gone == {c \in Conns \ FreeConns :
                   ~awaited(c) /\ (c \in mine \/ pc[c] = "closed")}
    IN /\ up' = [up EXCEPT ![p] = "crashed"]
       /\ mutex' = [mutex EXCEPT ![p] = None]
       /\ pc' = [t \in Threads |-> IF t = p THEN "dead"
                                   ELSE IF t \in gone THEN "idle"
                                   ELSE IF t \in mine THEN "closed" ELSE pc[t]]
       /\ call' = [t \in Threads |-> IF t \in mine THEN None ELSE call[t]]
       /\ conn' = [c \in Conns |-> IF c \in gone THEN None ELSE conn[c]]
       /\ reply' = [c \in Conns |-> IF c \in gone THEN None ELSE answered[c]]
       /\ seen' = [t \in Threads |-> IF t \in mine THEN <<>> ELSE seen[t]]
       /\ at' = [t \in Threads |-> IF t \in mine THEN 0 ELSE at[t]]
       /\ UNCHANGED <<network, aged>>

-----------------------------------------------------------------------------

\* Both programs put themselves first in the list, then start the client
\* thread (if a peer to contact is configured), then the server.
Init ==
    /\ up = [p \in Peers |-> IF p \in Listening THEN "listening" ELSE "starting"]
    /\ network = [p \in Peers |-> <<p>>]
    /\ mutex = [p \in Peers |-> None]
    /\ pc = [t \in Threads |-> IF t \in Conns THEN "idle"
                               ELSE IF Contact[t] = None THEN "done" ELSE "boot"]
    /\ call = [t \in Threads |-> None]
    /\ conn = [c \in Conns |-> None]
    /\ reply = [c \in Conns |-> None]
    /\ seen = [t \in Threads |-> <<>>]
    /\ at = [t \in Threads |-> 0]
    /\ aged = [p \in Peers |-> 0]

\* The server thread reaches its accept loop.
Listen(p) ==
    /\ up[p] = "starting"
    /\ up' = [up EXCEPT ![p] = "listening"]
    /\ UNCHANGED <<network, mutex, pc, call, conn, reply, seen, at, aged>>

\* The type of the state.
TypeOK ==
    /\ up \in [Peers -> {"starting", "listening", "crashed"}]
    /\ network \in [Peers -> Seq(Entries)]
    /\ mutex \in [Peers -> Threads \cup {None}]
    /\ pc \in [Threads -> ClientPCs \cup HandlerPCs]
    /\ call \in [Threads -> Conns \cup {None}]
    /\ conn \in [Conns -> Requests \cup {None}]
    /\ reply \in [Conns -> Replies \cup {None}]
    /\ seen \in [Threads -> Seq(Entries)]
    /\ at \in [Threads -> Nat]
    /\ aged \in [Peers -> Nat]
=============================================================================
