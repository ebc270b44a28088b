----------------------------- MODULE PeerNetwork -----------------------------
(***************************************************************************)
(* Networks of C and Python peers: any mix of both programs, each with the  *)
(* contact of its config file.                                              *)
(***************************************************************************)
EXTENDS CPeer, PyPeer

\* What the threads do by themselves.
ThreadStep(t) == \/ t \in Peers /\ (CClient(t) \/ PyClient(t))
                 \/ t \in Conns /\ (CHandler(t) \/ PyHandler(t))

\* What a user does (starting the client was booting; here: naming a file), and
\* time passing.
UserStep(p) == CScan(p) \/ PyPick(p)

Next == \/ \E t \in Threads : ThreadStep(t)
        \/ \E p \in Peers : UserStep(p) \/ Listen(p) \/ Age(p)

Spec == Init /\ [][Next]_vars

\* Every thread is scheduled again and again, and a server gets to listen.  No
\* user has to ask for a file and no minute has to pass.
Fairness == /\ \A t \in Threads : WF_vars(ThreadStep(t))
            /\ \A p \in Peers : WF_vars(Listen(p))

FairSpec == Spec /\ Fairness

-----------------------------------------------------------------------------
(* Safety.                                                                 *)

Critical(t) ==
    \/ t \in Peers /\ pc[t] = "merging"
    \/ t \in Conns /\ conn[t] # None
       /\ pc[t] \in {"inform", "asking", "take", "announcing"}

\* network_mutex is held exactly by the one thread of the peer that is in a
\* critical section; the error paths (an INFORM that cannot connect, a call
\* without a reply) neither leak it nor release another thread's.
LockDiscipline ==
    /\ \A p \in Peers : mutex[p] # None =>
          Critical(mutex[p]) /\ Owner(mutex[p]) = p
    /\ \A t \in Threads : Critical(t) => mutex[Owner(t)] = t

\* A Python peer lists itself first and nobody twice, whatever registrations,
\* informs and merges its threads interleave.
PyListsOnce ==
    \A p \in PyPeers : /\ Head(network[p]) = p
                       /\ IsInjective(network[p])

\* An INFORM names a third peer: the newcomer, not the sender (which sent the
\* registration reply that unpacked it) and not the peer being told.
InformsOfNewcomer ==
    \A c \in Conns : conn[c] # None /\ conn[c].cmd = "INFORM" =>
        conn[c].about \notin {conn[c].from, conn[c].to}

\* A handler of handle_register that got an OK to its own REGISTER waits for the
\* mutex it holds itself: it stays there until its process dies.
Stuck(c) == c \in Conns /\ conn[c] # None /\ pc[c] = "take"
StuckForGood ==
    [][\A c \in Conns : Stuck(c) =>
          Stuck(c)' \/ up'[conn[c].to] = "crashed"]_vars

\* Once a Python client has the list of the Python peer it contacted, that peer
\* lists it (unless entries age): no registration is lost between two handlers.
KnownToContact ==
    \A p \in PyPeers :
        /\ pc[p] \in {"merge", "merging", "joined", "retrieving"}
        /\ Contact[p] \in PyPeers
        => p \in ToSet(network[Contact[p]])

\* peer.py:189: "Once the reply has been sent, all other peers on the network
\* are informed that a new peer has joined."  So when no request is in progress
\* and nobody is joining, the peers a first peer lists all list each other.
Quiet == /\ \A c \in Conns : pc[c] = "idle"
         /\ \A p \in Peers : pc[p] \in {"boot", "joined", "done", "dead"}
QuietAgreement ==
    Quiet => \A h \in Peers : Contact[h] = None =>
                \A p, q \in ToSet(network[h]) : q \in ToSet(network[p])

\* And peer.py:254: "We don't mind if this message breaks": the peers that always
\* listen are told of everybody, though another could not be reached.
ListenersTold ==
    Quiet => \A h \in Peers : Contact[h] = None =>
                \A p, q \in ToSet(network[h]) :
                    p \in Listening => q \in ToSet(network[p])

-----------------------------------------------------------------------------
(* Liveness.                                                               *)

Pending(c, cmds, peers) ==
    /\ conn[c] # None /\ conn[c].cmd \in cmds /\ conn[c].to \in peers
    /\ reply[c] = None /\ \E t \in Threads : call[t] = c

\* "A response is always generated": a Python peer writes a reply to every
\* registration and every retrieval, whatever the C peers of the network are
\* stuck on, unless the process that asked dies first.
PyAnswers ==
    \A c \in Conns : Pending(c, Awaited, PyPeers) ~>
        conn[c] # None /\ (reply[c] # None \/ up[conn[c].from] = "crashed")

\* peer.c:432: handle_register "should always generate a response".
CAnswersRegister ==
    \A c \in Conns : Pending(c, {"REGISTER"}, CPeers)
                        ~> ~Pending(c, {"REGISTER"}, CPeers)

\* In the end every peer lists every peer, and that remains so.
EverybodyKnown == \A p \in Peers : Peers \subseteq ToSet(network[p])
Converges == <>[]EverybodyKnown
=============================================================================
