------------------------------- MODULE PyPeer --------------------------------
(***************************************************************************)
(* The peer of A4/handout/python/first_peer/peer.py (second_peer/peer.py is *)
(* the same file): its client thread (run_client, to_server,                *)
(* get_random_peer) and its request handlers (RequestHandler).              *)
(***************************************************************************)
EXTENDS PeerNet

\* An uncaught exception ends the client thread; the process lives on.
Dies == "dead"

\* send_to_server: connect raises when nobody listens.
PySend(t, q, cmd, waiting) ==
    \/ Ask(t, q, cmd, waiting)
    \/ ~Reachable(q) /\ pc' = [pc EXCEPT ![t] = Dies] /\ UNCHANGED wires

-----------------------------------------------------------------------------
(* The client thread.                                                      *)

PyBoot(p) ==
    /\ p \in PyPeers /\ pc[p] = "boot"
    /\ PySend(p, Contact[p], "REGISTER", "registering")
    /\ UNCHANGED <<state, seen, at>>

\* The reply to the registration: a list to merge, or a status other than OK
\* that is only reported.  A recv that returns a part leaves a hash that does not
\* match, which is only reported too, or a header that struct.unpack rejects.
PyReply(p) ==
    /\ p \in PyPeers /\ pc[p] = "registering" /\ Answered(p)
    /\ \/ /\ reply[call[p]].status = "OK"
          /\ HangUp(p, "merge")
          /\ seen' = [seen EXCEPT ![p] = reply[call[p]].peers]
       \/ /\ reply[call[p]].status # "OK" \/ Partial
          /\ HangUp(p, "joined") /\ UNCHANGED seen
       \/ Partial /\ HangUp(p, Dies) /\ UNCHANGED seen
    /\ UNCHANGED <<state, at>>

\* The end of the stream before a reply: struct.unpack of no bytes raises.
PyEof(p) ==
    /\ p \in PyPeers /\ pc[p] \in {"registering", "retrieving"} /\ Eof(p)
    /\ HangUp(p, Dies)
    /\ UNCHANGED <<state, seen, at>>

\* Mutation: the loop over the reply starts at its second address.
PyMergeLockSkipsFirst(p) ==
    /\ p \in PyPeers /\ pc[p] = "merge" /\ mutex[p] = None
    /\ mutex' = [mutex EXCEPT ![p] = p]
    /\ pc' = [pc EXCEPT ![p] = "merging"]
    /\ at' = [at EXCEPT ![p] = 2]
    /\ UNCHANGED <<up, network, aged, wires, seen>>

PyMergeLock(p) ==
    /\ p \in PyPeers /\ pc[p] = "merge" /\ mutex[p] = None
    /\ mutex' = [mutex EXCEPT ![p] = p]
    /\ pc' = [pc EXCEPT ![p] = "merging"]
    /\ at' = [at EXCEPT ![p] = 1]
    /\ UNCHANGED <<up, network, aged, wires, seen>>

\* One round of the loop over the reply: an unknown address is appended.
PyMerge(p) ==
    LET e == seen[p][at[p]] IN
    /\ p \in PyPeers /\ pc[p] = "merging" /\ at[p] \in 1..Len(seen[p])
    /\ network' = [network EXCEPT ![p] =
                     IF e \in ToSet(@) THEN @ ELSE Append(@, e)]
    /\ at' = [at EXCEPT ![p] = @ + 1]
    /\ UNCHANGED <<up, mutex, aged, pc, wires, seen>>

\* The end of the loop, or an entry whose bytes are no address: decoding it may
\* raise, and the mutex is released before the client thread dies.
PyMerged(p) ==
    /\ p \in PyPeers /\ pc[p] = "merging"
    /\ mutex' = [mutex EXCEPT ![p] = None]
    /\ \/ at[p] > Len(seen[p]) /\ pc' = [pc EXCEPT ![p] = "joined"]
       \/ /\ at[p] \in 1..Len(seen[p]) /\ seen[p][at[p]] = Garbage
          /\ pc' = [pc EXCEPT ![p] = Dies]
    /\ seen' = [seen EXCEPT ![p] = <<>>]
    /\ at' = [at EXCEPT ![p] = 0]
    /\ UNCHANGED <<up, network, aged, wires>>

\* The user names a file: get_random_peer takes the mutex and picks any known
\* peer but this one (random.choice raises when there is none).
PyPick(p) ==
    LET others == ToSet(network[p]) \ {p} IN
    /\ p \in PyPeers /\ pc[p] = "joined" /\ Found # {} /\ mutex[p] = None
    /\ \/ \E q \in others : PySend(p, q, "RETRIEVE", "retrieving")
       \/ others = {} /\ pc' = [pc EXCEPT ![p] = Dies] /\ UNCHANGED wires
    /\ UNCHANGED <<state, seen, at>>

PyRetrieved(p) ==
    /\ p \in PyPeers /\ pc[p] = "retrieving" /\ Answered(p)
    /\ HangUp(p, "joined") \/ (Partial /\ HangUp(p, Dies))
    /\ UNCHANGED <<state, seen, at>>

PyClient(p) == \/ PyBoot(p) \/ PyReply(p) \/ PyEof(p) \/ PyMergeLock(p)
               \/ PyMerge(p) \/ PyMerged(p) \/ PyRetrieved(p)

-----------------------------------------------------------------------------
(* The request handlers.                                                   *)

PyHandles(c, where, cmds) ==
    /\ conn[c] # None /\ pc[c] = where
    /\ conn[c].to \in PyPeers /\ conn[c].cmd \in cmds

\* Mutation: one entry too many is dropped.
RecentButOne(p) == <<Head(network[p])>> \o
                   SubSeq(network[p], aged[p] + 3, Len(network[p]))

\* The list without the entries older than a minute (its own never is).
Recent(p) == <<Head(network[p])>> \o
             SubSeq(network[p], aged[p] + 2, Len(network[p]))

\* handle: the timestamps.  Entries are tuples, so setting the sender's raises,
\* and the bare except skips the removals too: they happen only when the sender
\* is this peer or unknown to it.
PyTouch(c) ==
    LET p == conn[c].to
        q == conn[c].from
        raises == q # p /\ q \in ToSet(network[p])
    IN /\ PyHandles(c, "start", Awaited \cup {"INFORM"}) /\ mutex[p] = None
       /\ IF raises THEN UNCHANGED <<network, aged>>
          ELSE /\ network' = [network EXCEPT ![p] = Recent(p)]
               /\ aged' = [aged EXCEPT ![p] = 0]
       /\ pc' = [pc EXCEPT ![c] = "touched"]
       /\ UNCHANGED <<up, mutex, wires, seen, at>>

\* _register, its first critical section: refuse a known address, or append the
\* newcomer and copy the list into the reply.
PyRegister(c) ==
    LET p == conn[c].to
        q == conn[c].from
        list == Append(network[p], q)
    IN /\ PyHandles(c, "touched", {"REGISTER"}) /\ mutex[p] = None
       /\ IF q \in ToSet(network[p])
          THEN /\ Finish(c, [status |-> "EXISTS", peers |-> <<>>])
               /\ UNCHANGED <<network, seen>>
          ELSE /\ network' = [network EXCEPT ![p] = list]
               /\ seen' = [seen EXCEPT ![c] = list]
               /\ pc' = [pc EXCEPT ![c] = "reply"]
               /\ UNCHANGED wires
       /\ UNCHANGED <<up, mutex, aged, at>>

\* _build_and_send_responses, after the mutex was released.
PySendList(c) ==
    /\ PyHandles(c, "reply", {"REGISTER"})
    /\ reply' = [reply EXCEPT ![c] = [status |-> "OK", peers |-> seen[c]]]
    /\ pc' = [pc EXCEPT ![c] = "announce"]
    /\ UNCHANGED <<state, call, conn, seen, at>>

\* Mutation: the loop starts at the third peer, one after the first newcomer.
PyAnnounceLockSkipsOne(c) ==
    LET p == conn[c].to IN
    /\ PyHandles(c, "announce", {"REGISTER"}) /\ mutex[p] = None
    /\ mutex' = [mutex EXCEPT ![p] = c]
    /\ pc' = [pc EXCEPT ![c] = "announcing"]
    /\ at' = [at EXCEPT ![c] = 3]
    /\ UNCHANGED <<up, network, aged, wires, seen>>

PyAnnounceLock(c) ==
    LET p == conn[c].to IN
    /\ PyHandles(c, "announce", {"REGISTER"}) /\ mutex[p] = None
    /\ mutex' = [mutex EXCEPT ![p] = c]
    /\ pc' = [pc EXCEPT ![c] = "announcing"]
    /\ at' = [at EXCEPT ![c] = 1]
    /\ UNCHANGED <<up, network, aged, wires, seen>>

\* Mutation: the first address of the list is sent, not the newcomer's.
PyAnnounceHead(c) ==
    LET p == conn[c].to
        e == network[p][at[c]]
    IN /\ PyHandles(c, "announcing", {"REGISTER"})
       /\ at[c] \in 1..Len(network[p])
       /\ \/ /\ e \in {p, conn[c].from}
             /\ at' = [at EXCEPT ![c] = @ + 1]
             /\ UNCHANGED <<state, pc, wires, seen>>
          \/ /\ e \notin {p, conn[c].from} /\ Reachable(e) /\ FreeConns # {}
             /\ Dial(FirstFree, c, e, "INFORM", Head(seen[c]))
             /\ pc' = [pc EXCEPT ![FirstFree] = "start"]
             /\ at' = [at EXCEPT ![c] = @ + 1]
             /\ UNCHANGED <<state, call, reply, seen>>

\* Mutation: the exception of a failing connect leaves the mutex locked.
PyAnnounceLeaks(c) ==
    LET p == conn[c].to
        e == network[p][at[c]]
    IN /\ PyHandles(c, "announcing", {"REGISTER"})
       /\ at[c] \in 1..Len(network[p])
       /\ \/ /\ e \in {p, conn[c].from}
             /\ at' = [at EXCEPT ![c] = @ + 1]
             /\ UNCHANGED <<state, pc, wires, seen>>
          \/ /\ e \notin {p, conn[c].from} /\ ~Reachable(e)
             /\ Finish(c, None)
             /\ seen' = [seen EXCEPT ![c] = <<>>]
             /\ at' = [at EXCEPT ![c] = 0]
             /\ UNCHANGED <<up, network, mutex, aged>>

\* One round of the loop over network: everybody but this peer and the newcomer
\* is told of the address last unpacked for the reply, and no reply is awaited.
\* A connect that fails raises: the mutex is released, nobody else is told and
\* a second reply goes where nobody reads it.
PyAnnounce(c) ==
    LET p == conn[c].to
        e == network[p][at[c]]
    IN /\ PyHandles(c, "announcing", {"REGISTER"})
       /\ at[c] \in 1..Len(network[p])
       /\ \/ /\ e \in {p, conn[c].from}
             /\ at' = [at EXCEPT ![c] = @ + 1]
             /\ UNCHANGED <<state, pc, wires, seen>>
          \/ /\ e \notin {p, conn[c].from} /\ Reachable(e) /\ FreeConns # {}
             /\ Dial(FirstFree, c, e, "INFORM", Last(seen[c]))
             /\ pc' = [pc EXCEPT ![FirstFree] = "start"]
             /\ at' = [at EXCEPT ![c] = @ + 1]
             /\ UNCHANGED <<state, call, reply, seen>>
          \/ /\ e \notin {p, conn[c].from} /\ ~Reachable(e)
             /\ mutex' = [mutex EXCEPT ![p] = None]
             /\ Finish(c, None)
             /\ seen' = [seen EXCEPT ![c] = <<>>]
             /\ at' = [at EXCEPT ![c] = 0]
             /\ UNCHANGED <<up, network, aged>>

PyAnnounced(c) ==
    LET p == conn[c].to IN
    /\ PyHandles(c, "announcing", {"REGISTER"}) /\ at[c] > Len(network[p])
    /\ mutex' = [mutex EXCEPT ![p] = None]
    /\ Finish(c, None)
    /\ seen' = [seen EXCEPT ![c] = <<>>]
    /\ at' = [at EXCEPT ![c] = 0]
    /\ UNCHANGED <<up, network, aged>>

\* Mutation: the list is searched under the mutex, but the address is appended
\* after it was released and taken again.
PyAddChecksFirst(c) ==
    LET p == conn[c].to
        e == conn[c].about
    IN \/ /\ PyHandles(c, "touched", {"INFORM"}) /\ mutex[p] = None
          /\ IF e \in ToSet(network[p]) THEN Finish(c, None)
             ELSE pc' = [pc EXCEPT ![c] = "reply"] /\ UNCHANGED wires
          /\ UNCHANGED <<state, seen, at>>
       \/ /\ PyHandles(c, "reply", {"INFORM"}) /\ mutex[p] = None
          /\ network' = [network EXCEPT ![p] = Append(@, e)]
          /\ Finish(c, None)
          /\ UNCHANGED <<up, mutex, aged, seen, at>>

\* _add_to_network: append the address of the message unless it is known.
PyAdd(c) ==
    LET p == conn[c].to
        e == conn[c].about
    IN /\ PyHandles(c, "touched", {"INFORM"}) /\ mutex[p] = None
       /\ network' = [network EXCEPT ![p] =
                        IF e \in ToSet(@) THEN @ ELSE Append(@, e)]
       /\ Finish(c, None)
       /\ UNCHANGED <<up, mutex, aged, seen, at>>

\* Mutation: no error reply when the file does not exist.
PyServeNoRefusal(c) ==
    /\ PyHandles(c, "touched", {"RETRIEVE"})
    /\ \E found \in Found :
          Finish(c, IF found THEN [status |-> "OK", peers |-> <<>>] ELSE None)
    /\ UNCHANGED <<state, seen, at>>

\* _handle_request, as far as the list of peers can tell.
PyServe(c) ==
    /\ PyHandles(c, "touched", {"RETRIEVE"})
    /\ \E found \in Found :
          Finish(c, [status |-> IF found THEN "OK" ELSE "BAD", peers |-> <<>>])
    /\ UNCHANGED <<state, seen, at>>

PyHandler(c) ==
    \/ PyTouch(c) \/ PyRegister(c) \/ PySendList(c) \/ PyAnnounceLock(c)
    \/ PyAnnounce(c) \/ PyAnnounced(c) \/ PyAdd(c) \/ PyServe(c)

\* A minute passes in which nobody sends p a request: all its entries but its
\* own are old.
Age(p) ==
    /\ Ageing /\ p \in PyPeers
    /\ aged[p] < Len(network[p]) - 1
    /\ aged' = [aged EXCEPT ![p] = Len(network[p]) - 1]
    /\ UNCHANGED <<up, network, mutex, pc, wires, seen, at>>
=============================================================================
