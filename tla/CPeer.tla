-------------------------------- MODULE CPeer --------------------------------
(***************************************************************************)
(* The peer of A4/handout/src/peer.c: its client thread (client_thread,     *)
(* send_message, get_random_peer) and its request handlers                  *)
(* (handle_register, handle_inform, handle_retrieve).                       *)
(***************************************************************************)
EXTENDS PeerNet

CThread(t) == Owner(t) \in CPeers

\* string_equal(my_address->port, peer.port): only the ports are compared, and
\* strncmp stops at the length of the second, so a prefix counts as equal.
SamePort(p, q) == IsPrefix(Port[q], Port[p])

\* Who the bytes of a list entry may name: the entry, or, when they were never
\* written, any peer or nobody.
Reads(e) == IF e = Garbage THEN Peers \cup {None} ELSE {e}

\* send_message up to the reply; nobody checks that the connection was made, and
\* without one the call may just return: see FaultWithoutReply.
Send(t, q, cmd, waiting, next) ==
    \/ Ask(t, q, cmd, waiting)
    \/ ~Reachable(q) /\ pc' = [pc EXCEPT ![t] = next] /\ UNCHANGED wires

\* The end of a call whose reply never comes.  The reply header is parsed from
\* the request still in msg_buf, so its "length" is the first bytes of the
\* sender's IP string.  If that string is long enough to make the "block count"
\* nonzero, the "status" is unexpected and send_message returns.  Else that many
\* bytes are copied, a fault: at once for a REGISTER; for a RETRIEVE if the file
\* has the hash that an earlier call may have left in the buffer, and if it has
\* not, send_message returns.
FaultWithoutReply(t, q) == ~Reachable(q) /\ Crash(Owner(t), reply)

-----------------------------------------------------------------------------
(* The client thread.                                                      *)

CBoot(p) ==
    /\ p \in CPeers /\ pc[p] = "boot"
    /\ \/ FaultWithoutReply(p, Contact[p])
       \/ /\ Send(p, Contact[p], "REGISTER", "registering", "joined")
          /\ UNCHANGED <<state, seen, at>>

\* send_message, from the reply on: the list is replaced only by an OK reply to
\* a REGISTER; every other reply just ends the call.
CReply(t, waiting, next) ==
    /\ pc[t] = waiting /\ CThread(t) /\ Answered(t)
    /\ IF conn[call[t]].cmd = "REGISTER" /\ reply[call[t]].status = "OK"
       THEN pc' = [pc EXCEPT ![t] = "take"] /\ UNCHANGED wires
       ELSE HangUp(t, next)
    /\ UNCHANGED <<state, seen, at>>

CEof(t, waiting, next) ==
    /\ pc[t] = waiting /\ CThread(t) /\ Eof(t)
    /\ \/ Crash(Owner(t), reply)
       \/ HangUp(t, next) /\ UNCHANGED <<state, seen, at>>

\* Mutation: a recursive mutex, as if PTHREAD_MUTEX_RECURSIVE had been set.
CTakeRecursive(t) ==
    LET p == Owner(t) IN
    /\ pc[t] = "take" /\ CThread(t) /\ mutex[p] \in {None, t}
    /\ network' = [network EXCEPT ![p] = reply[call[t]].peers]
    /\ HangUp(t, IF t \in Peers THEN "joined" ELSE "inform")
    /\ UNCHANGED <<up, mutex, aged, seen, at>>

\* pthread_mutex_lock(&network_mutex) ... unlock: the whole list is replaced.
\* The mutex is not recursive, so a handler that holds it waits for itself.
CTake(t) ==
    LET p == Owner(t) IN
    /\ pc[t] = "take" /\ CThread(t) /\ mutex[p] = None
    /\ network' = [network EXCEPT ![p] = reply[call[t]].peers]
    /\ HangUp(t, IF t \in Peers THEN "joined" ELSE "inform")
    /\ UNCHANGED <<up, mutex, aged, seen, at>>

\* get_random_peer reads network and peer_count without the mutex: it starts
\* reading here and is done at CPick; seen is what it began to read.
CScan(p) ==
    /\ p \in CPeers /\ pc[p] = "joined" /\ Found # {}
    /\ seen' = [seen EXCEPT ![p] = network[p]]
    /\ pc' = [pc EXCEPT ![p] = "scanned"]
    /\ UNCHANGED <<state, wires, at>>

\* The outcomes: rand() % 0 without a candidate; a fault or any address if the
\* array was replaced under the reader or holds an entry never written; else
\* one of the candidates.  Then send_message asks it for a file.
CPick(p) ==
    LET others == ToSet(seen[p]) \ {p}
        torn   == seen[p] # network[p] \/ Garbage \in others
    IN /\ p \in CPeers /\ pc[p] = "scanned"
       /\ \/ (others = {} \/ torn) /\ Crash(p, reply)
          \/ \E q \in IF torn THEN Peers \cup {None} ELSE others :
                \/ FaultWithoutReply(p, q)
                \/ /\ Send(p, q, "RETRIEVE", "retrieving", "joined")
                   /\ UNCHANGED <<state, seen, at>>

CClient(p) ==
    \/ CBoot(p) \/ CPick(p)
    \/ CReply(p, "registering", "joined") \/ CEof(p, "registering", "joined")
    \/ CReply(p, "retrieving", "joined")  \/ CEof(p, "retrieving", "joined")
    \/ CTake(p)

-----------------------------------------------------------------------------
(* The request handlers.                                                   *)

Handles(c, where) == conn[c] # None /\ pc[c] = where
CHandles(c, where, cmd) ==
    Handles(c, where) /\ conn[c].to \in CPeers /\ conn[c].cmd = cmd

\* handle_register locks network_mutex and keeps it until it has replied.
CLock(c) ==
    LET p == conn[c].to IN
    /\ CHandles(c, "start", "REGISTER") /\ mutex[p] = None
    /\ mutex' = [mutex EXCEPT ![p] = c]
    /\ pc' = [pc EXCEPT ![c] = "inform"]
    /\ at' = [at EXCEPT ![c] = 1]
    /\ UNCHANGED <<up, network, aged, wires, seen>>

\* One round of the loop over network: unless the peer has "my" port it is sent
\* a REGISTER of this peer (its own address is in the header), and the handler
\* waits for the reply.  The loop goes on after that call.
CInform(c) ==
    LET p == conn[c].to
        e == network[p][at[c]]
        Mine(q) == q # None /\ SamePort(p, q)
    IN /\ CHandles(c, "inform", "REGISTER") /\ at[c] \in 1..Len(network[p])
       /\ \E q \in Reads(e) :
             \/ e = Garbage /\ Crash(p, reply)
             \/ ~Mine(q) /\ FaultWithoutReply(c, q)
             \/ /\ IF Mine(q) THEN UNCHANGED <<pc, wires>>
                   ELSE Send(c, q, "REGISTER", "asking", "inform")
                /\ at' = [at EXCEPT ![c] = @ + 1]
                /\ UNCHANGED <<state, seen>>

\* The newcomer is appended without looking for it in the list, the reply
\* carries the list (an entry never written is followed here too), and only then
\* is the mutex released.
CAppend(c) ==
    LET p == conn[c].to
        list == Append(network[p], conn[c].from)
    IN /\ CHandles(c, "inform", "REGISTER") /\ at[c] > Len(network[p])
       /\ \/ Garbage \in ToSet(list) /\ Crash(p, reply)
          \/ /\ network' = [network EXCEPT ![p] = list]
             /\ mutex' = [mutex EXCEPT ![p] = None]
             /\ Finish(c, [status |-> "OK", peers |-> list])
             /\ at' = [at EXCEPT ![c] = 0]
             /\ UNCHANGED <<up, aged, seen>>

\* Mutation: the mutex is not released.
CInformedLeaks(c) ==
    LET p == conn[c].to
        n == network[p]
    IN /\ CHandles(c, "start", "INFORM") /\ mutex[p] = None
       /\ network' = [network EXCEPT ![p] =
                        Append([n EXCEPT ![Len(n)] = conn[c].about], Garbage)]
       /\ mutex' = [mutex EXCEPT ![p] = c]
       /\ Finish(c, None)
       /\ UNCHANGED <<up, aged, seen, at>>

\* handle_inform: realloc to peer_count entries (no growth), the newcomer
\* overwrites the last one and peer_count grows past it.
CInformed(c) ==
    LET p == conn[c].to
        n == network[p]
    IN /\ CHandles(c, "start", "INFORM") /\ mutex[p] = None
       /\ network' = [network EXCEPT ![p] =
                        Append([n EXCEPT ![Len(n)] = conn[c].about], Garbage)]
       /\ Finish(c, None)
       /\ UNCHANGED <<up, mutex, aged, seen, at>>

\* handle_retrieve: the file is sent, or, when it cannot be opened, the refusal
\* is sent and fclose(NULL) takes the process down.
CServe(c) ==
    LET p == conn[c].to IN
    /\ CHandles(c, "start", "RETRIEVE")
    /\ \/ /\ TRUE \in Found
          /\ Finish(c, [status |-> "OK", peers |-> <<>>])
          /\ UNCHANGED <<state, seen, at>>
       \/ /\ FALSE \in Found
          /\ Crash(p, [reply EXCEPT ![c] = [status |-> "BAD", peers |-> <<>>]])

CHandler(c) ==
    \/ CLock(c) \/ CInform(c) \/ CAppend(c) \/ CInformed(c) \/ CServe(c)
    \/ CReply(c, "asking", "inform") \/ CEof(c, "asking", "inform")
    \/ CTake(c)
=============================================================================
