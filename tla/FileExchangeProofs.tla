-------------------------- MODULE FileExchangeProofs -------------------------
(***************************************************************************)
(* Proofs about FileExchange: who holds retrieving_mutex, when a Python peer *)
(* takes its file for one that is being retrieved, what a copy holds, and   *)
(* why a retrieval fails.                                                   *)
(***************************************************************************)
EXTENDS FileExchange, TLAPS, SequenceTheorems, FiniteSetTheorems, WellFoundedInduction

\* What the two properties need to know of the types.
Shape ==
    /\ pc \in [Threads -> {"idle", "reading", "check", "gathered", "writing", "opened",
                           "dead", "start", "open", "read", "send", "closed"}]
    /\ holder \in [Peers -> Conns \cup {None}]
    /\ conn \in [Conns -> Peers \cup {None}]
    /\ call \in [Peers -> Conns \cup {None}]
    /\ listed \in [Peers -> BOOLEAN]

IInv == Shape /\ MutexHeldToServe /\ ListedWhileBusy

\* The clients of peers are not handlers, and None is neither.
LEMMA Apart ==
    /\ CPeers \cap PyPeers = {} /\ Peers \cap Conns = {}
    /\ None \notin Peers /\ None \notin Conns
    /\ CPeers \subseteq Peers /\ PyPeers \subseteq Peers
    /\ Peers \subseteq Threads /\ Conns \subseteq Threads
BY PeersAssumption, NoneAssumption DEF Peers, Threads

-----------------------------------------------------------------------------
(* The shared operations.                                                  *)

\* A client that goes on somewhere else disturbs no handler at work.
LEMMA HangUpInv ==
    ASSUME IInv, NEW p \in Peers,
           NEW next \in {"idle", "dead", "writing"}, HangUp(p, next),
           holder' = holder,
           \/ p \in CPeers /\ listed' = listed
           \/ next = "dead" /\ listed' = listed
           \/ Unlist(p)
    PROVE  IInv'
<1> USE Apart
<1>1. Shape'
  <2>1. listed' \in [Peers -> BOOLEAN]
    BY DEF Unlist, IInv, Shape
  <2>2. /\ call' \in [Peers -> Conns \cup {None}]
        /\ conn' \in [Conns -> Peers \cup {None}]
        /\ holder' \in [Peers -> Conns \cup {None}]
    BY DEF HangUp, IInv, Shape
  <2>3. pc' \in [Threads -> {"idle", "reading", "check", "gathered", "writing", "opened",
                            "dead", "start", "open", "read", "send", "closed"}]
    BY DEF HangUp, IInv, Shape
  <2> QED BY <2>1, <2>2, <2>3 DEF Shape
<1>2. \A c \in Conns : \/ pc'[c] = pc[c] /\ conn'[c] = conn[c]
                       \/ pc[c] = "closed" /\ pc'[c] = "idle" /\ conn'[c] = None
  BY DEF HangUp, IInv, Shape
<1>3. MutexHeldToServe'
  BY <1>2 DEF IInv, MutexHeldToServe
<1>4. pc'[p] = next /\ \A r \in Peers \ {p} : pc'[r] = pc[r]
  BY DEF HangUp, IInv, Shape
<1>5. \A r \in Peers \ {p} : listed'[r] = listed[r]
  BY DEF Unlist, IInv, Shape
<1>6. p \in PyPeers => ~listed'[p] \/ next = "dead"
  BY DEF Unlist, IInv, Shape
<1>7. ListedWhileBusy'
  BY <1>4, <1>5, <1>6 DEF IInv, ListedWhileBusy
<1> QED BY <1>1, <1>3, <1>7 DEF IInv

\* A C peer that dies leaves no handler behind, and its mutex with nobody.
LEMMA DieInv ==
    ASSUME IInv, NEW q \in CPeers, NEW sent, Die(q, sent)
    PROVE  IInv'
<1> USE Apart
<1>1. Shape'
  BY DEF Die, IInv, Shape
<1>2. \A c \in Conns : \/ pc'[c] = pc[c] /\ conn'[c] = conn[c] /\ conn[c] # q
                       \/ pc'[c] \in {"idle", "closed"}
                          /\ (conn[c] = q \/ pc[c] = "closed")
  BY DEF Die, IInv, Shape
<1>3. holder' = [holder EXCEPT ![q] = None]
  BY DEF Die
<1>4. MutexHeldToServe'
  BY <1>2, <1>3 DEF IInv, Shape, MutexHeldToServe
<1>5. \A p \in PyPeers : pc'[p] = pc[p] /\ listed'[p] = listed[p]
  BY DEF Die, IInv, Shape
<1>6. ListedWhileBusy'
  BY <1>5 DEF IInv, ListedWhileBusy
<1> QED BY <1>1, <1>4, <1>6 DEF IInv

\* A client that stays on its connection.
LEMMA StepInv ==
    ASSUME IInv, NEW p \in Peers,
           NEW next \in {"idle", "reading", "check", "gathered", "opened"},
           pc' = [pc EXCEPT ![p] = next],
           p \in PyPeers => next \in {"reading", "gathered"} \/ ~listed[p],
           UNCHANGED <<holder, conn, call, listed>>
    PROVE  IInv'
<1> USE Apart
<1>1. Shape'
  BY DEF IInv, Shape
<1>2. MutexHeldToServe'
  BY DEF IInv, Shape, MutexHeldToServe
<1>3. ListedWhileBusy'
  BY DEF IInv, Shape, ListedWhileBusy
<1> QED BY <1>1, <1>2, <1>3 DEF IInv

\* A handler of a Python peer goes on, or returns.
LEMMA PyServeInv ==
    ASSUME IInv, NEW c \in Conns, conn[c] \in PyPeers,
           \/ Close(c)
           \/ UNCHANGED conn /\ \E next \in {"open", "send"} : pc' = [pc EXCEPT ![c] = next],
           UNCHANGED <<holder, call, listed>>
    PROVE  IInv'
<1> USE Apart
<1>1. Shape'
  BY DEF Close, IInv, Shape
<1>2. conn'[c] \notin CPeers /\ \A d \in Conns \ {c} : pc'[d] = pc[d] /\ conn'[d] = conn[d]
  BY DEF Close, IInv, Shape
<1>3. MutexHeldToServe'
  BY <1>2 DEF IInv, MutexHeldToServe
<1>4. \A p \in Peers : pc'[p] = pc[p]
  BY DEF Close, IInv, Shape
<1>5. ListedWhileBusy'
  BY <1>4 DEF IInv, ListedWhileBusy
<1> QED BY <1>1, <1>3, <1>5 DEF IInv

-----------------------------------------------------------------------------
(* The steps.                                                              *)

\* The user of p asks for the file.
LEMMA AskInv ==
    ASSUME IInv, NEW p \in Peers, NEW q \in Peers, Ask(p, q)
    PROVE  IInv'
<1> USE Apart
<1>1. PICK c \in Conns : /\ conn[c] = None
                         /\ call' = [call EXCEPT ![p] = c]
                         /\ conn' = [conn EXCEPT ![c] = q]
                         /\ pc' = [pc EXCEPT ![p] = "reading",
                                             ![c] = IF up[q] THEN "start" ELSE "closed"]
  BY DEF Ask
<1>2. IF p \in CPeers THEN listed' = listed ELSE listed' = [listed EXCEPT ![p] = TRUE]
  BY DEF Ask
<1>3. holder' = holder
  BY DEF Ask
<1>4. Shape'
  BY <1>1, <1>2, <1>3 DEF IInv, Shape
<1>5. MutexHeldToServe'
  BY <1>1, <1>3 DEF IInv, Shape, MutexHeldToServe
<1>6. pc'[p] = "reading" /\ \A r \in Peers \ {p} : pc'[r] = pc[r] /\ listed'[r] = listed[r]
  BY <1>1, <1>2 DEF IInv, Shape
<1>7. ListedWhileBusy'
  BY <1>6 DEF IInv, ListedWhileBusy
<1> QED BY <1>4, <1>5, <1>7 DEF IInv

\* The client of a C peer: send_message up to the file.
LEMMA CClientInv ==
    ASSUME IInv, NEW p \in CPeers, CClient(p)
    PROVE  IInv'
<1> USE Apart
<1>1. CASE CStore(p)
  <2>1. PICK next \in {"check", "reading"} : pc' = [pc EXCEPT ![p] = next]
    BY <1>1 DEF CStore
  <2> QED BY <1>1, <2>1, StepInv DEF CStore
<1>2. CASE CGiveUp(p)
  BY <1>2, HangUpInv DEF CGiveUp
<1>3. CASE CEof(p)
  BY <1>3, HangUpInv, DieInv DEF CEof
<1>4. CASE CCheck(p)
  BY <1>4, HangUpInv DEF CCheck
<1> QED BY <1>1, <1>2, <1>3, <1>4 DEF CClient

\* The client of a Python peer: to_server and send_to_server.
LEMMA PyClientInv ==
    ASSUME IInv, NEW p \in PyPeers, PyClient(p)
    PROVE  IInv'
<1> USE Apart
<1>1. CASE PyStore(p)
  <2>1. PICK next \in {"gathered", "reading"} : pc' = [pc EXCEPT ![p] = next]
    BY <1>1 DEF PyStore
  <2> QED BY <1>1, <2>1, StepInv DEF PyStore
<1>2. CASE PyGiveUp(p)
  BY <1>2, HangUpInv DEF PyGiveUp
<1>3. CASE PyRaise(p)
  BY <1>3, HangUpInv DEF PyRaise
<1>4. CASE PyGathered(p)
  BY <1>4, HangUpInv DEF PyGathered
<1>5. CASE PyOpen(p)
  <2>1. ~listed[p]
    BY <1>5 DEF PyOpen, IInv, ListedWhileBusy
  <2> QED BY <1>5, <2>1, StepInv DEF PyOpen, client
<1>6. CASE PyWrite(p)
  <2>1. ~listed[p]
    BY <1>6 DEF PyWrite, IInv, ListedWhileBusy
  <2> QED BY <1>6, <2>1, StepInv DEF PyWrite
<1> QED BY <1>1, <1>2, <1>3, <1>4, <1>5, <1>6 DEF PyClient

\* The handler of a Python peer.
LEMMA PyHandlerInv ==
    ASSUME IInv, NEW c \in Conns, conn[c] \in PyPeers, PyHandler(c)
    PROVE  IInv'
<1>1. CASE PyAdmit(c)
  BY <1>1, PyServeInv DEF PyAdmit, client
<1>2. CASE PyLoad(c)
  BY <1>2, PyServeInv DEF PyLoad, client
<1>3. CASE PySend(c)
  <2>1. ASSUME NEW i, Advance(c, i, "send")
        PROVE  \/ Close(c)
               \/ UNCHANGED conn /\ \E next \in {"open", "send"} : pc' = [pc EXCEPT ![c] = next]
    BY <2>1 DEF Advance
  <2> QED BY <1>3, <2>1, PyServeInv DEF PySend, client
<1> QED BY <1>1, <1>2, <1>3 DEF PyHandler

\* The handler of a C peer, which serves under its mutex.
LEMMA CHandlerInv ==
    ASSUME IInv, NEW c \in Conns, conn[c] \in CPeers, CHandler(c)
    PROVE  IInv'
<1> USE Apart
<1> DEFINE q == conn[c]
<1>1. CASE COpen(c)
  <2>1. CASE Die(q, Sent(c, Refusal))
    BY <2>1, DieInv
  <2>2. CASE /\ holder' = [holder EXCEPT ![q] = c]
             /\ pc' = [pc EXCEPT ![c] = "read"]
             /\ UNCHANGED <<listed, call, conn>>
    <3>1. pc[c] = "start" /\ holder[q] = None
      BY <1>1 DEF COpen
    <3>2. Shape'
      BY <2>2 DEF IInv, Shape
    <3>3. MutexHeldToServe'
      BY <2>2, <3>1 DEF IInv, Shape, MutexHeldToServe
    <3>4. ListedWhileBusy'
      BY <2>2 DEF IInv, Shape, ListedWhileBusy
    <3> QED BY <3>2, <3>3, <3>4 DEF IInv
  <2> QED BY <1>1, <2>1, <2>2 DEF COpen, client
<1>2. CASE CRead(c)
  <2>1. /\ pc[c] = "read" /\ pc' = [pc EXCEPT ![c] = "send"]
        /\ UNCHANGED <<listed, call, conn, holder>>
    BY <1>2 DEF CRead, client
  <2>2. Shape'
    BY <2>1 DEF IInv, Shape
  <2>3. MutexHeldToServe'
    BY <2>1 DEF IInv, Shape, MutexHeldToServe
  <2>4. ListedWhileBusy'
    BY <2>1 DEF IInv, Shape, ListedWhileBusy
  <2> QED BY <2>2, <2>3, <2>4 DEF IInv
<1>3. CASE CSend(c)
  <2> DEFINE i == Min(job[c].left)
  <2>1. CASE ~Read(c) /\ Die(q, wire)
    BY <2>1, DieInv
  <2>2. CASE /\ Advance(c, i, "read")
             /\ holder' = [holder EXCEPT ![q] = IF job[c].left = {i} THEN None ELSE c]
             /\ UNCHANGED <<listed, call>>
    <3>1. pc[c] = "send" /\ holder[q] = c
      BY <1>3 DEF CSend, IInv, MutexHeldToServe
    <3>2. CASE job[c].left = {i}
      <4>1. Close(c) /\ holder' = [holder EXCEPT ![q] = None]
        BY <2>2, <3>2 DEF Advance
      <4>2. Shape'
        BY <2>2, <4>1 DEF Close, IInv, Shape
      <4>3. /\ pc'[c] \in {"closed", "idle"}
            /\ \A d \in Conns \ {c} : pc'[d] = pc[d] /\ conn'[d] = conn[d]
        BY <4>1 DEF Close, IInv, Shape
      <4>4. MutexHeldToServe'
        BY <3>1, <4>1, <4>3 DEF IInv, Shape, MutexHeldToServe
      <4>5. \A p \in Peers : pc'[p] = pc[p]
        BY <4>1 DEF Close, IInv, Shape
      <4>6. ListedWhileBusy'
        BY <2>2, <4>5 DEF IInv, ListedWhileBusy
      <4> QED BY <4>2, <4>4, <4>6 DEF IInv
    <3>3. CASE job[c].left # {i}
      <4>1. /\ pc' = [pc EXCEPT ![c] = "read"] /\ UNCHANGED conn
            /\ holder' = [holder EXCEPT ![q] = c]
        BY <2>2, <3>3 DEF Advance
      <4>2. Shape'
        BY <2>2, <4>1 DEF IInv, Shape
      <4>3. MutexHeldToServe'
        BY <3>1, <4>1 DEF IInv, Shape, MutexHeldToServe
      <4>4. ListedWhileBusy'
        BY <2>2, <4>1 DEF IInv, Shape, ListedWhileBusy
      <4> QED BY <4>2, <4>3, <4>4 DEF IInv
    <3> QED BY <3>2, <3>3
  <2> QED BY <1>3, <2>1, <2>2 DEF CSend, client
<1> QED BY <1>1, <1>2, <1>3 DEF CHandler

-----------------------------------------------------------------------------

\* The first state.
LEMMA InitInv == Init => IInv
BY Apart DEF Init, IInv, Shape, MutexHeldToServe, ListedWhileBusy

\* Every step preserves the invariant.
LEMMA NextInv == IInv /\ [Next]_vars => IInv'
<1> SUFFICES ASSUME IInv, [Next]_vars PROVE IInv'
  OBVIOUS
<1>1. CASE UNCHANGED vars
  BY <1>1 DEF vars, client, IInv, Shape, MutexHeldToServe, ListedWhileBusy
<1>2. CASE Next
  BY <1>2, AskInv, CClientInv, PyClientInv, CHandlerInv, PyHandlerInv
  DEF Next, Client, Serve
<1> QED BY <1>1, <1>2

\* MutexHeldToServe: retrieving_mutex of a C peer is held exactly while a handler of
\* it serves, through all crashes and closed connections.
THEOREM RetrievingMutex == Spec => []MutexHeldToServe
<1>1. IInv => MutexHeldToServe
  BY DEF IInv
<1> QED BY InitInv, NextInv, <1>1, PTL DEF Spec

\* ListedWhileBusy: a Python peer has its file in currently_retreiving only while it
\* reads the blocks, or for ever after its client failed.
THEOREM ListedTruly == Spec => []ListedWhileBusy
<1>1. IInv => ListedWhileBusy
  BY DEF IInv
<1> QED BY InitInv, NextInv, <1>1, PTL DEF Spec

-----------------------------------------------------------------------------
(* A C peer accepts no mixture of two contents: the hash that travels with   *)
(* the blocks is always one the served file had while the client was asking, *)
(* and the comparison that ends a retrieval is with such a hash.            *)

\* s is a sequence, of whatever.
IsSeq(s) == s \in Seq({s[i] : i \in DOMAIN s})

\* Every block of s carries the hash of a content among H, or refuses.
Honest(s, H) ==
    IsSeq(s) /\ \A i \in DOMAIN s : s[i].status = "OK" => s[i].total \in H

\* The functions the steps update.
Maps ==
    /\ file = [p \in Peers |-> file[p]]
    /\ got = [p \in Peers |-> got[p]]
    /\ how = [p \in Peers |-> how[p]]
    /\ had = [p \in Peers |-> had[p]]
    /\ wire = [c \in Conns |-> wire[c]]
    /\ job = [c \in Conns |-> [data |-> job[c].data, left |-> job[c].left]]

\* Only a client that waits has a connection, one of its own and in use, and
\* where nobody reads there is nothing left to read.
Wired ==
    /\ \A p \in Peers : call[p] \in Conns <=> pc[p] \in {"reading", "check", "gathered"}
    /\ \A p \in Peers : call[p] \in Conns => conn[call[p]] # None
    /\ \A p, r \in Peers : call[p] \in Conns /\ call[p] = call[r] => p = r
    /\ \A c \in Conns : ~Read(c) => wire[c] = <<>>

\* What is on its way to the client of p was the served file, and so is what a
\* Python handler has loaded.
Known ==
    \A p \in Peers : call[p] \in Conns =>
       /\ Contents(conn[call[p]]) \in had[p]
       /\ Honest(wire[call[p]], had[p])
       /\ conn[call[p]] \in PyPeers /\ pc[call[p]] = "send"
             => job[call[p]].data \in had[p]

\* What a C client has received claims to be a file that was served.
Gathered ==
    \A p \in CPeers : /\ IsSeq(got[p])
                      /\ \A i \in DOMAIN got[p] : got[p][i].total \in had[p]
                      /\ pc[p] = "check" => got[p] # <<>>

\* The inductive invariant.
CopyInv == Shape /\ Maps /\ Wired /\ Known /\ Gathered /\ VerifiedCopy

-----------------------------------------------------------------------------
(* Sequences of blocks.                                                    *)

\* Any sequence is one of its own elements.
LEMMA SeqIsSeq ==
    ASSUME NEW S, NEW s \in Seq(S)
    PROVE  IsSeq(s)
BY DEF IsSeq

\* A sequence with one more element.
LEMMA AppendParts ==
    ASSUME NEW s, IsSeq(s), NEW e
    PROVE  /\ IsSeq(Append(s, e)) /\ Append(s, e) # <<>>
           /\ \A i \in DOMAIN Append(s, e) :
                 Append(s, e)[i] = e \/ (i \in DOMAIN s /\ Append(s, e)[i] = s[i])
<1> DEFINE T == {s[i] : i \in DOMAIN s} \cup {e}
<1>1. s \in Seq(T) /\ e \in T
  BY DEF IsSeq
<1> HIDE DEF T
<1>2. Append(s, e) \in Seq(T) /\ Append(s, e) # <<>>
  BY <1>1, AppendProperties
<1>3. IsSeq(Append(s, e))
  BY <1>2, SeqIsSeq
<1>4. \A i \in DOMAIN Append(s, e) :
         Append(s, e)[i] = e \/ (i \in DOMAIN s /\ Append(s, e)[i] = s[i])
  BY <1>1
<1> QED BY <1>2, <1>3, <1>4

\* A sequence without its first element.
LEMMA TailParts ==
    ASSUME NEW s, IsSeq(s), s # <<>>
    PROVE  /\ IsSeq(Tail(s)) /\ 1 \in DOMAIN s /\ Head(s) = s[1]
           /\ \A i \in DOMAIN Tail(s) : i + 1 \in DOMAIN s /\ Tail(s)[i] = s[i + 1]
<1> DEFINE T == {s[i] : i \in DOMAIN s}
<1>1. s \in Seq(T)
  BY DEF IsSeq
<1> HIDE DEF T
<1>2. Tail(s) \in Seq(T)
  BY <1>1
<1>3. IsSeq(Tail(s))
  BY <1>2, SeqIsSeq
<1>4. 1 \in DOMAIN s /\ Head(s) = s[1]
  BY <1>1
<1>5. \A i \in DOMAIN Tail(s) : i + 1 \in DOMAIN s /\ Tail(s)[i] = s[i + 1]
  BY <1>1
<1> QED BY <1>3, <1>4, <1>5

\* No blocks are honest blocks.
LEMMA NoneHonest == \A H : Honest(<<>>, H) /\ IsSeq(<<>>)
BY DEF Honest, IsSeq

\* Blocks stay honest when the served file changes.
LEMMA HonestGrows ==
    ASSUME NEW s, NEW H, NEW K, Honest(s, H), H \subseteq K
    PROVE  Honest(s, K)
BY DEF Honest

\* An honest block is sent, ...
LEMMA HonestAppend ==
    ASSUME NEW s, NEW H, Honest(s, H), NEW b, b.status = "OK" => b.total \in H
    PROVE  Honest(Append(s, b), H)
<1>1. IsSeq(s)
  BY DEF Honest
<1> QED BY <1>1, AppendParts DEF Honest

\* ... and received.
LEMMA HonestTail ==
    ASSUME NEW s, NEW H, Honest(s, H), s # <<>>
    PROVE  /\ Honest(Tail(s), H)
           /\ Head(s).status = "OK" => Head(s).total \in H
<1>1. IsSeq(s)
  BY DEF Honest
<1> QED BY <1>1, TailParts DEF Honest

-----------------------------------------------------------------------------
(* The shared operations.                                                  *)

\* A peer that saves its file lets those who are asking it know the new content.
LEMMA SaveParts ==
    ASSUME Maps, NEW r \in Peers, NEW f, SaveAs(r, f)
    PROVE  /\ \A q \in Peers \ {r} : Contents(q)' = Contents(q)
           /\ \A p \in Peers : had[p] \subseteq had'[p]
           /\ \A p \in Peers : call[p] # None /\ conn[call[p]] = r
                                  => Contents(r)' \in had'[p]
           /\ file' = [p \in Peers |-> file'[p]] /\ had' = [p \in Peers |-> had'[p]]
<1>1. /\ DOMAIN file = Peers /\ file' = [file EXCEPT ![r] = f]
      /\ had' = [p \in Peers |-> IF call[p] # None /\ conn[call[p]] = r
                                 THEN had[p] \cup {Contents(r)'} ELSE had[p]]
  BY DEF Maps, SaveAs
<1>2. \A q \in Peers \ {r} : Contents(q)' = Contents(q)
  BY <1>1 DEF Contents
<1> QED BY <1>1, <1>2

\* A client that hangs up, with a content that is known if it is content.
LEMMA HangUpCopy ==
    ASSUME CopyInv, NEW p \in Peers,
           pc[p] \in {"reading", "check", "gathered"},
           NEW next \in {"idle", "dead", "writing"}, HangUp(p, next),
           UNCHANGED <<file, had, job>>, NEW e,
           \/ /\ how' = [how EXCEPT ![p] = e] /\ got' = [got EXCEPT ![p] = <<>>]
              /\ p \in CPeers /\ e = "ok" => Contents(p) \in had[p]
           \/ p \in PyPeers /\ UNCHANGED <<how, got>>,
           Shape'
    PROVE  CopyInv'
<1> USE Apart
<1> DEFINE c == call[p]
<1>1. c \in Conns /\ \A r \in Peers \ {p} : call[r] # c
  BY DEF CopyInv, Wired
<1>2. /\ call' = [call EXCEPT ![p] = None] /\ wire' = [wire EXCEPT ![c] = <<>>]
      /\ \A r \in Peers \ {p} : pc'[r] = pc[r] /\ call'[r] = call[r]
      /\ pc'[p] = next /\ call'[p] = None
      /\ \A d \in Conns \ {c} : pc'[d] = pc[d] /\ conn'[d] = conn[d] /\ wire'[d] = wire[d]
      /\ wire'[c] = <<>>
  BY <1>1 DEF HangUp, CopyInv, Shape, Maps
<1> HIDE DEF c
<1>3. /\ got' = [r \in Peers |-> got'[r]] /\ how' = [r \in Peers |-> how'[r]]
      /\ \A r \in Peers \ {p} : got'[r] = got[r] /\ how'[r] = how[r]
  BY DEF CopyInv, Maps
<1>4. Maps'
  <2>1. wire' = [d \in Conns |-> wire'[d]]
    BY <1>2 DEF CopyInv, Maps
  <2> QED BY <1>3, <2>1 DEF CopyInv, Maps
<1>5. Wired'
  <2>1. \A r \in Peers : call'[r] \in Conns <=> pc'[r] \in {"reading", "check", "gathered"}
    BY <1>2 DEF CopyInv, Wired
  <2>2. \A r \in Peers : call'[r] \in Conns =>
           r # p /\ call'[r] = call[r] /\ call[r] # c
    BY <1>1, <1>2
  <2>3. \A r \in Peers : call'[r] \in Conns => conn'[call'[r]] # None
    BY <1>2, <2>2 DEF CopyInv, Wired
  <2>4. \A r, s \in Peers : call'[r] \in Conns /\ call'[r] = call'[s] => r = s
    BY <2>2 DEF CopyInv, Wired
  <2>5. \A d \in Conns : ~Read(d)' => wire'[d] = <<>>
    <3>1. \A d \in Conns \ {c} : Read(d) => Read(d)'
      BY <1>2 DEF Read, c
    <3> QED BY <1>2, <3>1 DEF CopyInv, Wired
  <2> QED BY <2>1, <2>3, <2>4, <2>5 DEF Wired
<1>6. Known'
  <2> SUFFICES ASSUME NEW r \in Peers, call'[r] \in Conns
               PROVE  /\ Contents(conn[call[r]])' \in had'[r]
                      /\ Honest(wire'[call'[r]], had'[r])
                      /\ conn'[call'[r]] \in PyPeers /\ pc'[call'[r]] = "send"
                            => job'[call'[r]].data \in had'[r]
    BY DEF Known
  <2>1. r # p /\ call'[r] = call[r] /\ call[r] \in Conns \ {c}
    BY <1>1, <1>2
  <2>2. conn'[call'[r]] = conn[call[r]] /\ wire'[call'[r]] = wire[call[r]]
        /\ pc'[call'[r]] = pc[call[r]]
    BY <1>2, <2>1
  <2>3. Contents(conn[call[r]])' = Contents(conn[call[r]])
    BY <2>2 DEF Contents
  <2> QED BY <2>1, <2>2, <2>3 DEF CopyInv, Known
<1>7. Gathered'
  <2> SUFFICES ASSUME NEW r \in CPeers
               PROVE  /\ IsSeq(got'[r]) /\ \A i \in DOMAIN got'[r] : got'[r][i].total \in had'[r]
                      /\ pc'[r] = "check" => got'[r] # <<>>
    BY DEF Gathered
  <2>1. CASE r = p
    <3>1. got'[p] = <<>> /\ pc'[p] # "check"
      BY <1>2, <2>1 DEF CopyInv, Maps
    <3> QED BY <2>1, <3>1, NoneHonest
  <2>2. CASE r # p
    BY <1>2, <1>3, <2>2 DEF CopyInv, Gathered
  <2> QED BY <2>1, <2>2
<1>8. VerifiedCopy'
  <2> SUFFICES ASSUME NEW r \in CPeers, pc'[r] = "idle", how'[r] = "ok"
               PROVE  Contents(r)' \in had'[r]
    BY DEF VerifiedCopy, Ended
  <2>1. Contents(r)' = Contents(r)
    BY DEF Contents
  <2>2. CASE r = p
    BY <2>1, <2>2 DEF CopyInv, Maps
  <2>3. CASE r # p
    BY <1>2, <1>3, <2>1, <2>3 DEF CopyInv, VerifiedCopy, Ended
  <2> QED BY <2>2, <2>3
<1> QED BY <1>4, <1>5, <1>6, <1>7, <1>8 DEF CopyInv

\* What a handler writes is kept where somebody reads it.
LEMMA SentParts ==
    ASSUME Maps, NEW c \in Conns, NEW b
    PROVE  /\ Sent(c, b) = [d \in Conns |-> Sent(c, b)[d]]
           /\ \A d \in Conns : \/ Sent(c, b)[d] = wire[d]
                               \/ d = c /\ Read(c) /\ Sent(c, b)[d] = Append(wire[c], b)
BY DEF Maps, Sent

\* A C peer that dies takes its own retrieval with it, and lies to nobody.
LEMMA DieCopy ==
    ASSUME CopyInv, NEW q \in CPeers, NEW sent,
           sent = wire \/ \E c \in Conns : sent = Sent(c, Refusal),
           Die(q, sent), Shape'
    PROVE  CopyInv'
<1> USE Apart
<1>1. /\ sent = [d \in Conns |-> sent[d]]
      /\ \A d \in Conns : \/ sent[d] = wire[d]
                          \/ Read(d) /\ sent[d] = Append(wire[d], Refusal)
  BY SentParts DEF CopyInv, Maps
<1>2. /\ pc'[q] = "dead" /\ call'[q] = None /\ call' = [call EXCEPT ![q] = None]
      /\ UNCHANGED <<file, had, how, got>>
      /\ \A r \in Peers \ {q} : pc'[r] = pc[r] /\ call'[r] = call[r]
  BY DEF Die, CopyInv, Shape
<1>3. ASSUME NEW r \in Peers \ {q}, call[r] \in Conns
      PROVE  /\ conn'[call[r]] = conn[call[r]] /\ wire'[call[r]] = sent[call[r]]
             /\ conn[call[r]] = q \/ (pc'[call[r]] = pc[call[r]] /\ job'[call[r]] = job[call[r]])
  BY <1>3 DEF Die, CopyInv, Wired
<1>4. /\ wire' = [d \in Conns |-> wire'[d]]
      /\ job' = [d \in Conns |-> [data |-> job'[d].data, left |-> job'[d].left]]
  <2>1. /\ wire' = [d \in Conns |-> wire'[d]] /\ job' = [d \in Conns |-> job'[d]]
        /\ \A d \in Conns : job'[d] = NoJob \/ job'[d] = job[d]
    BY DEF Die
  <2>2. \A d \in Conns : job'[d] = [data |-> job'[d].data, left |-> job'[d].left]
    BY <2>1 DEF NoJob, CopyInv, Maps
  <2> QED BY <2>1, <2>2
<1>5. Maps'
  BY <1>2, <1>4 DEF CopyInv, Maps
<1>6. Wired'
  <2>1. \A r \in Peers : call'[r] \in Conns <=> pc'[r] \in {"reading", "check", "gathered"}
    BY <1>2 DEF CopyInv, Wired
  <2>2. \A r \in Peers : call'[r] \in Conns => r # q /\ call'[r] = call[r]
    BY <1>2
  <2>3. \A r \in Peers : call'[r] \in Conns => conn'[call'[r]] # None
    BY <1>3, <2>2 DEF CopyInv, Wired
  <2>4. \A r, s \in Peers : call'[r] \in Conns /\ call'[r] = call'[s] => r = s
    BY <2>2 DEF CopyInv, Wired
  <2>5. ASSUME NEW d \in Conns, ~Read(d)'
        PROVE  wire'[d] = <<>>
    <3>1. CASE call[q] = d
      BY <3>1 DEF Die
    <3>2. CASE call[q] # d
      <4>1. ~Read(d)
        BY <1>2, <2>5, <3>2 DEF Read
      <4>2. sent[d] = <<>>
        BY <1>1, <4>1 DEF CopyInv, Wired
      <4> QED BY <4>2 DEF Die
    <3> QED BY <3>1, <3>2
  <2> QED BY <2>1, <2>3, <2>4, <2>5 DEF Wired
<1>7. Known'
  <2> SUFFICES ASSUME NEW r \in Peers, call'[r] \in Conns
               PROVE  /\ Contents(conn[call[r]])' \in had'[r]
                      /\ Honest(wire'[call'[r]], had'[r])
                      /\ conn'[call'[r]] \in PyPeers /\ pc'[call'[r]] = "send"
                            => job'[call'[r]].data \in had'[r]
    BY DEF Known
  <2>1. r # q /\ call'[r] = call[r] /\ call[r] \in Conns /\ had' = had
    BY <1>2
  <2>2. Contents(conn[call[r]])' = Contents(conn[call[r]])
    BY <1>2, <1>3, <2>1 DEF Contents
  <2>3. Honest(wire[call[r]], had[r])
    BY <2>1 DEF CopyInv, Known
  <2>4. Honest(sent[call[r]], had[r])
    <3>1. Refusal.status # "OK"
      BY DEF Refusal
    <3>2. Honest(Append(wire[call[r]], Refusal), had[r])
      BY <2>3, <3>1, HonestAppend
    <3> QED BY <1>1, <2>1, <2>3, <3>2
  <2> QED BY <1>3, <2>1, <2>2, <2>4 DEF CopyInv, Known
<1>8. Gathered' /\ VerifiedCopy'
  <2>1. \A r \in Peers : Contents(r)' = Contents(r)
    BY <1>2 DEF Contents
  <2> QED BY <1>2, <2>1 DEF CopyInv, Gathered, VerifiedCopy, Ended
<1> QED BY <1>5, <1>6, <1>7, <1>8 DEF CopyInv

\* A handler that goes on or closes, having written nothing or an honest block.
LEMMA ServeCopy ==
    ASSUME CopyInv, NEW c \in Conns,
           UNCHANGED <<file, client, had>>, Shape',
           \/ Close(c)
           \/ /\ UNCHANGED conn
              /\ \E next \in {"open", "read", "send"} : pc' = [pc EXCEPT ![c] = next]
              /\ job' = [job EXCEPT ![c] = job'[c]]
              /\ job'[c] = [data |-> job'[c].data, left |-> job'[c].left],
           \/ UNCHANGED wire
           \/ \E b : /\ wire' = Sent(c, b)
                     /\ \A p \in Peers : call[p] = c /\ b.status = "OK" => b.total \in had[p],
           \A p \in Peers : call[p] = c /\ conn[c] \in PyPeers /\ pc'[c] = "send"
                               => job'[c].data \in had[p]
    PROVE  CopyInv'
<1> USE Apart
<1>1. /\ \A r \in Peers : pc'[r] = pc[r]
      /\ call' = call /\ got' = got /\ how' = how /\ had' = had /\ file' = file
      /\ \A d \in Conns \ {c} : pc'[d] = pc[d] /\ conn'[d] = conn[d] /\ job'[d] = job[d]
      /\ conn'[c] = conn[c] \/ ~Read(c)
  BY DEF Close, client, CopyInv, Shape, Maps
<1>2. /\ wire' = [d \in Conns |-> wire'[d]]
      /\ \A d \in Conns : wire'[d] = wire[d] \/ Read(d)
  BY SentParts DEF CopyInv, Maps
<1>3. job' = [d \in Conns |-> [data |-> job'[d].data, left |-> job'[d].left]]
  <2>1. CASE Close(c)
    BY <2>1 DEF Close, NoJob, CopyInv, Maps
  <2>2. CASE /\ job' = [job EXCEPT ![c] = job'[c]]
             /\ job'[c] = [data |-> job'[c].data, left |-> job'[c].left]
    BY <2>2 DEF CopyInv, Maps
  <2> QED BY <2>1, <2>2
<1>4. Maps'
  BY <1>1, <1>2, <1>3 DEF CopyInv, Maps
<1>5. Wired'
  <2>1. \A d \in Conns : Read(d)' <=> Read(d)
    BY <1>1 DEF Read
  <2>2. \A r \in Peers : call[r] \in Conns => conn'[call[r]] = conn[call[r]]
    BY <1>1 DEF Read
  <2> QED BY <1>1, <1>2, <2>1, <2>2 DEF CopyInv, Wired
<1>6. Known'
  <2> SUFFICES ASSUME NEW r \in Peers, call'[r] \in Conns
               PROVE  /\ Contents(conn[call[r]])' \in had'[r]
                      /\ Honest(wire'[call'[r]], had'[r])
                      /\ conn'[call'[r]] \in PyPeers /\ pc'[call'[r]] = "send"
                            => job'[call'[r]].data \in had'[r]
    BY DEF Known
  <2>1. call'[r] = call[r] /\ call[r] \in Conns /\ conn'[call[r]] = conn[call[r]]
    BY <1>1 DEF Read
  <2>2. Contents(conn[call[r]])' = Contents(conn[call[r]])
    BY <1>1, <2>1 DEF Contents
  <2>3. Honest(wire[call[r]], had[r])
    BY <2>1 DEF CopyInv, Known
  <2>4. Honest(wire'[call[r]], had[r])
    <3>1. CASE UNCHANGED wire
      BY <2>3, <3>1
    <3>2. ASSUME NEW b, wire' = Sent(c, b),
                 \A p \in Peers : call[p] = c /\ b.status = "OK" => b.total \in had[p]
          PROVE  Honest(wire'[call[r]], had[r])
      <4>1. \/ wire'[call[r]] = wire[call[r]]
            \/ call[r] = c /\ wire'[c] = Append(wire[c], b)
        BY <2>1, <3>2, SentParts DEF CopyInv
      <4>2. call[r] = c => Honest(Append(wire[call[r]], b), had[r])
        BY <2>3, <3>2, HonestAppend
      <4> QED BY <2>3, <4>1, <4>2
    <3> QED BY <3>1, <3>2
  <2>5. conn[call[r]] \in PyPeers /\ pc'[call[r]] = "send" => job'[call[r]].data \in had[r]
    BY <1>1, <2>1 DEF CopyInv, Known
  <2> QED BY <1>1, <2>1, <2>2, <2>4, <2>5 DEF CopyInv, Known
<1>7. Gathered' /\ VerifiedCopy'
  <2>1. \A r \in Peers : Contents(r)' = Contents(r)
    BY <1>1 DEF Contents
  <2> QED BY <1>1, <2>1 DEF CopyInv, Gathered, VerifiedCopy, Ended
<1> QED BY <1>4, <1>5, <1>6, <1>7 DEF CopyInv

\* A client that keeps its place, and perhaps saves its own file, leaves the others
\* with what they know.
LEMMA SaveKnown ==
    ASSUME CopyInv, NEW p \in Peers, UNCHANGED <<file, had>> \/ \E f : SaveAs(p, f),
           UNCHANGED <<call, conn>>
    PROVE  /\ file' = [r \in Peers |-> file'[r]] /\ had' = [r \in Peers |-> had'[r]]
           /\ \A r \in Peers : had[r] \subseteq had'[r]
           /\ \A r \in Peers \ {p} : Contents(r)' = Contents(r)
           /\ \A r \in Peers : call[r] \in Conns => Contents(conn[call[r]])' \in had'[r]
<1>1. CASE UNCHANGED <<file, had>>
  <2>1. \A r : Contents(r)' = Contents(r)
    BY <1>1 DEF Contents
  <2>2. \A r \in Peers : call[r] \in Conns => Contents(conn[call[r]])' \in had'[r]
    <3> SUFFICES ASSUME NEW r \in Peers, call[r] \in Conns
                 PROVE  Contents(conn[call[r]])' \in had'[r]
      OBVIOUS
    <3>1. Contents(conn[call[r]])' = Contents(conn[call[r]])
      BY <1>1 DEF Contents
    <3> QED BY <1>1, <3>1 DEF CopyInv, Known
  <2> QED BY <1>1, <2>1, <2>2 DEF CopyInv, Maps
<1>2. ASSUME NEW f, SaveAs(p, f)
      PROVE  /\ file' = [r \in Peers |-> file'[r]] /\ had' = [r \in Peers |-> had'[r]]
             /\ \A r \in Peers : had[r] \subseteq had'[r]
             /\ \A r \in Peers \ {p} : Contents(r)' = Contents(r)
             /\ \A r \in Peers : call[r] \in Conns => Contents(conn[call[r]])' \in had'[r]
  <2>1. /\ \A q \in Peers \ {p} : Contents(q)' = Contents(q)
        /\ \A r \in Peers : had[r] \subseteq had'[r]
        /\ \A r \in Peers : call[r] # None /\ conn[call[r]] = p => Contents(p)' \in had'[r]
        /\ file' = [r \in Peers |-> file'[r]] /\ had' = [r \in Peers |-> had'[r]]
    BY <1>2, SaveParts DEF CopyInv
  <2>2. ASSUME NEW r \in Peers, call[r] \in Conns
        PROVE  Contents(conn[call[r]])' \in had'[r]
    <3> DEFINE q == conn[call[r]]
    <3>1. q \in Peers /\ q' = q /\ Contents(q) \in had[r] /\ call[r] # None
      BY <2>2, Apart DEF CopyInv, Shape, Wired, Known
    <3>2. CASE q = p
      <4>1. Contents(q)' = Contents(p)'
        BY <3>1, <3>2 DEF Contents
      <4> QED BY <2>1, <3>1, <3>2, <4>1
    <3>3. CASE q # p
      <4>1. Contents(q)' = Contents(q)
        BY <3>1, <3>3, <1>2, Apart DEF Contents, SaveAs, CopyInv, Maps
      <4> QED BY <2>1, <3>1, <4>1
    <3> QED BY <3>2, <3>3
  <2> QED BY <2>1, <2>2
<1> QED BY <1>1, <1>2

\* A block that was on its way is kept.
LEMMA StoreCopy ==
    ASSUME CopyInv, NEW p \in Peers, Arrived(p), NextBlock(p).status = "OK", Keep(p),
           NEW next \in {"reading", "check", "gathered"}, pc' = [pc EXCEPT ![p] = next],
           UNCHANGED <<file, had>> \/ \E f : SaveAs(p, f),
           UNCHANGED <<call, conn, how, job>>, Shape'
    PROVE  CopyInv'
<1> USE Apart
<1> DEFINE c == call[p]
<1>1. c \in Conns /\ pc[p] = "reading" /\ wire[c] # <<>> /\ NextBlock(p) = Head(wire[c])
  BY DEF Arrived, NextBlock, CopyInv, Wired
<1>2. Honest(wire[c], had[p])
  BY <1>1 DEF CopyInv, Known
<1>3. Honest(Tail(wire[c]), had[p]) /\ Head(wire[c]).total \in had[p]
  BY <1>1, <1>2, HonestTail
<1>4. /\ wire' = [d \in Conns |-> wire'[d]] /\ got' = [r \in Peers |-> got'[r]]
      /\ wire'[c] = Tail(wire[c])
      /\ \A d \in Conns \ {c} : wire'[d] = wire[d]
      /\ got'[p] = Append(got[p], Head(wire[c]))
      /\ \A r \in Peers \ {p} : got'[r] = got[r]
  BY <1>1 DEF Keep, CopyInv, Maps
<1>5. pc'[p] = next /\ \A t \in Threads \ {p} : pc'[t] = pc[t]
  BY DEF CopyInv, Shape
<1>6. /\ file' = [r \in Peers |-> file'[r]] /\ had' = [r \in Peers |-> had'[r]]
      /\ \A r \in Peers : had[r] \subseteq had'[r]
      /\ \A r \in Peers \ {p} : Contents(r)' = Contents(r)
      /\ \A r \in Peers : call[r] \in Conns => Contents(conn[call[r]])' \in had'[r]
  BY SaveKnown
<1> HIDE DEF c
<1>7. Maps'
  BY <1>4, <1>6 DEF CopyInv, Maps
<1>8. Wired'
  <2>1. Read(c) /\ \A d \in Conns : Read(d)' <=> Read(d)
    BY DEF Read, c
  <2> QED BY <1>1, <1>4, <1>5, <2>1 DEF CopyInv, Wired
<1>9. Known'
  <2> SUFFICES ASSUME NEW r \in Peers, call[r] \in Conns
               PROVE  /\ Honest(wire'[call[r]], had'[r])
                      /\ conn[call[r]] \in PyPeers /\ pc'[call[r]] = "send"
                            => job[call[r]].data \in had'[r]
    BY <1>6 DEF Known
  <2>1. Honest(wire'[call[r]], had[r])
    <3>1. CASE r = p
      BY <1>3, <1>4, <3>1 DEF c
    <3>2. CASE r # p
      <4>1. call[r] # c
        BY <1>1, <3>2 DEF CopyInv, Wired, c
      <4> QED BY <1>4, <4>1 DEF CopyInv, Known
    <3> QED BY <3>1, <3>2
  <2>2. Honest(wire'[call[r]], had'[r])
    BY <1>6, <2>1, HonestGrows
  <2>3. pc'[call[r]] = pc[call[r]]
    BY <1>5
  <2> QED BY <1>6, <2>2, <2>3 DEF CopyInv, Known
<1>10. Gathered'
  <2> SUFFICES ASSUME NEW r \in CPeers
               PROVE  /\ IsSeq(got'[r]) /\ \A i \in DOMAIN got'[r] : got'[r][i].total \in had'[r]
                      /\ pc'[r] = "check" => got'[r] # <<>>
    BY DEF Gathered
  <2>1. IsSeq(got[r]) /\ \A i \in DOMAIN got[r] : got[r][i].total \in had'[r]
    BY <1>6 DEF CopyInv, Gathered
  <2>2. CASE r = p
    <3> DEFINE b == Head(wire[c])
    <3>1. IsSeq(got[p]) /\ got'[r] = Append(got[p], b)
      BY <1>4, <2>1, <2>2
    <3>2. b.total \in had'[r]
      BY <1>3, <1>6, <2>2
    <3> HIDE DEF b
    <3>3. /\ IsSeq(got'[r]) /\ got'[r] # <<>>
          /\ \A i \in DOMAIN got'[r] :
                got'[r][i] = b \/ (i \in DOMAIN got[p] /\ got'[r][i] = got[p][i])
      BY <3>1, AppendParts
    <3> QED BY <2>1, <2>2, <3>2, <3>3
  <2>3. CASE r # p
    BY <1>4, <1>5, <2>1, <2>3 DEF CopyInv, Gathered
  <2> QED BY <2>2, <2>3
<1>11. VerifiedCopy'
  BY <1>5, <1>6 DEF CopyInv, VerifiedCopy, Ended
<1> QED BY <1>7, <1>8, <1>9, <1>10, <1>11 DEF CopyInv

\* A Python client writes the file it has gathered.
LEMMA WriteCopy ==
    ASSUME CopyInv, NEW p \in PyPeers, pc[p] \in {"writing", "opened"},
           NEW next \in {"opened", "idle"}, pc' = [pc EXCEPT ![p] = next],
           NEW f, SaveAs(p, f), UNCHANGED <<call, conn, job, wire>>,
           UNCHANGED <<got, how>> \/ \E e : End(p, e), Shape'
    PROVE  CopyInv'
<1> USE Apart
<1>1. pc'[p] = next /\ \A t \in Threads \ {p} : pc'[t] = pc[t]
  BY DEF CopyInv, Shape
<1>2. /\ file' = [r \in Peers |-> file'[r]] /\ had' = [r \in Peers |-> had'[r]]
      /\ \A r \in Peers : had[r] \subseteq had'[r]
      /\ \A r \in Peers \ {p} : Contents(r)' = Contents(r)
      /\ \A r \in Peers : call[r] \in Conns => Contents(conn[call[r]])' \in had'[r]
  BY SaveKnown
<1>3. /\ got' = [r \in Peers |-> got'[r]] /\ how' = [r \in Peers |-> how'[r]]
      /\ \A r \in Peers \ {p} : got'[r] = got[r] /\ how'[r] = how[r]
  BY DEF End, CopyInv, Maps
<1>4. Maps'
  BY <1>2, <1>3 DEF CopyInv, Maps
<1>5. Wired'
  BY <1>1 DEF CopyInv, Wired, Read
<1>6. Known'
  <2> SUFFICES ASSUME NEW r \in Peers, call[r] \in Conns
               PROVE  /\ Honest(wire[call[r]], had'[r])
                      /\ conn[call[r]] \in PyPeers /\ pc'[call[r]] = "send"
                            => job[call[r]].data \in had'[r]
    BY <1>2 DEF Known
  <2>1. Honest(wire[call[r]], had[r])
    BY DEF CopyInv, Known
  <2>2. Honest(wire[call[r]], had'[r])
    BY <1>2, <2>1, HonestGrows
  <2>3. pc'[call[r]] = pc[call[r]]
    BY <1>1
  <2> QED BY <1>2, <2>2, <2>3 DEF CopyInv, Known
<1>7. Gathered' /\ VerifiedCopy'
  BY <1>1, <1>2, <1>3 DEF CopyInv, Gathered, VerifiedCopy, Ended
<1> QED BY <1>4, <1>5, <1>6, <1>7 DEF CopyInv

-----------------------------------------------------------------------------
(* The steps.                                                              *)

\* Asking: the connection was free, so nothing is on it, and what the asked peer has
\* now is what it may serve.
LEMMA AskCopy ==
    ASSUME CopyInv, NEW p \in Peers, NEW q \in Peers, Ask(p, q), Shape'
    PROVE  CopyInv'
<1> USE Apart
<1>1. PICK c \in Conns :
         /\ conn[c] = None
         /\ call' = [call EXCEPT ![p] = c]
         /\ conn' = [conn EXCEPT ![c] = q]
         /\ pc' = [pc EXCEPT ![p] = "reading",
                             ![c] = IF up[q] THEN "start" ELSE "closed"]
  BY DEF Ask
<1>2. pc[p] = "idle" /\ q # p /\ call[p] \notin Conns
  BY DEF Ask, CopyInv, Wired
<1>3. \A r \in Peers : call[r] # c
  BY <1>1 DEF CopyInv, Wired
<1>4. wire[c] = <<>>
  BY <1>3 DEF CopyInv, Wired, Read
<1>5. /\ call'[p] = c /\ \A r \in Peers \ {p} : call'[r] = call[r]
      /\ conn'[c] = q /\ \A d \in Conns \ {c} : conn'[d] = conn[d]
      /\ pc'[p] = "reading" /\ pc'[c] \in {"start", "closed"}
      /\ \A t \in Threads \ {p, c} : pc'[t] = pc[t]
  BY <1>1 DEF CopyInv, Shape
<1>6. /\ got' = [got EXCEPT ![p] = <<>>] /\ how' = [how EXCEPT ![p] = "none"]
      /\ wire' = wire /\ job' = job
      /\ had' = [r \in Peers |-> had'[r]] /\ had'[p] = {Contents(q)}
      /\ \A r \in Peers \ {p} : had[r] \subseteq had'[r]
      /\ file' = file \/ file' = [file EXCEPT ![p] = Contents(p)]
  BY DEF Ask
<1>7. /\ got'[p] = <<>> /\ how'[p] = "none"
      /\ \A r \in Peers \ {p} : got'[r] = got[r] /\ how'[r] = how[r]
  BY <1>6 DEF CopyInv, Maps
<1>8. /\ \A r \in Peers : Contents(r)' = Contents(r)
      /\ file' = [r \in Peers |-> file'[r]]
  BY <1>6 DEF Contents, CopyInv, Maps
<1>9. Maps'
  BY <1>6, <1>8 DEF CopyInv, Maps
<1>10. Wired'
  <2>1. \A r \in Peers : call'[r] \in Conns <=> pc'[r] \in {"reading", "check", "gathered"}
    BY <1>5 DEF CopyInv, Wired
  <2>2. \A r \in Peers : call'[r] \in Conns => conn'[call'[r]] # None
    BY <1>3, <1>5 DEF CopyInv, Wired
  <2>3. \A r, s \in Peers : call'[r] \in Conns /\ call'[r] = call'[s] => r = s
    BY <1>3, <1>5 DEF CopyInv, Wired
  <2>4. \A d \in Conns : Read(d) => Read(d)'
    BY <1>2, <1>5 DEF Read
  <2>5. \A d \in Conns : ~Read(d)' => wire'[d] = <<>>
    BY <1>6, <2>4 DEF CopyInv, Wired
  <2> QED BY <2>1, <2>2, <2>3, <2>5 DEF Wired
<1>11. Known'
  <2> SUFFICES ASSUME NEW r \in Peers, call'[r] \in Conns
               PROVE  /\ Contents(conn[call[r]])' \in had'[r]
                      /\ Honest(wire'[call'[r]], had'[r])
                      /\ conn'[call'[r]] \in PyPeers /\ pc'[call'[r]] = "send"
                            => job'[call'[r]].data \in had'[r]
    BY DEF Known
  <2>1. CASE r = p
    <3>1. Contents(conn[call[r]])' = Contents(q)'
      BY <1>5, <2>1 DEF Contents
    <3> QED BY <1>4, <1>5, <1>6, <1>8, <2>1, <3>1, NoneHonest
  <2>2. CASE r # p
    <3>1. /\ call'[r] = call[r] /\ call[r] \in Conns \ {c}
          /\ conn'[call[r]] = conn[call[r]] /\ conn[call[r]] \in Peers
          /\ pc'[call[r]] = pc[call[r]]
      BY <1>3, <1>5, <2>2 DEF CopyInv, Shape, Wired
    <3>2. Contents(conn[call[r]])' = Contents(conn[call[r]])
      <4> DEFINE o == conn[call[r]]
      <4>1. Contents(o)' = Contents(o) /\ o' = o
        BY <1>8, <3>1, <1>6 DEF Contents, CopyInv, Maps
      <4> QED BY <4>1
    <3>3. Honest(wire[call[r]], had'[r])
      BY <1>6, <2>2, <3>1, HonestGrows DEF CopyInv, Known
    <3> QED BY <1>6, <2>2, <3>1, <3>2, <3>3 DEF CopyInv, Known
  <2> QED BY <2>1, <2>2
<1>12. Gathered'
  <2> SUFFICES ASSUME NEW r \in CPeers
               PROVE  /\ IsSeq(got'[r]) /\ \A i \in DOMAIN got'[r] : got'[r][i].total \in had'[r]
                      /\ pc'[r] = "check" => got'[r] # <<>>
    BY DEF Gathered
  <2>1. CASE r = p
    BY <1>5, <1>7, <2>1, NoneHonest
  <2>2. CASE r # p
    BY <1>5, <1>6, <1>7, <2>2 DEF CopyInv, Gathered
  <2> QED BY <2>1, <2>2
<1>13. VerifiedCopy'
  BY <1>5, <1>6, <1>7, <1>8 DEF CopyInv, VerifiedCopy, Ended
<1> QED BY <1>9, <1>10, <1>11, <1>12, <1>13 DEF CopyInv

\* The client of a C peer: it is content only when its file is what the last hash
\* says, which is a file that was served.
LEMMA CClientCopy ==
    ASSUME CopyInv, NEW p \in CPeers, CClient(p), Shape'
    PROVE  CopyInv'
<1> USE Apart
<1>1. CASE CStore(p)
  <2>1. PICK next \in {"reading", "check"} : pc' = [pc EXCEPT ![p] = next]
    BY <1>1 DEF CStore
  <2>2. \E f : SaveAs(p, f)
    BY <1>1 DEF CStore
  <2>3. /\ Arrived(p) /\ NextBlock(p).status = "OK" /\ Keep(p)
        /\ UNCHANGED <<call, conn, how, job>>
    BY <1>1 DEF CStore
  <2> QED BY <2>1, <2>2, <2>3, StoreCopy
<1>2. CASE CGiveUp(p)
  <2> DEFINE e == IF Consistent(p) THEN "refused" ELSE "aborted"
  <2>1. /\ pc[p] = "reading" /\ HangUp(p, "idle") /\ UNCHANGED <<file, had, job>>
        /\ e # "ok" /\ how' = [how EXCEPT ![p] = e] /\ got' = [got EXCEPT ![p] = <<>>]
    BY <1>2 DEF CGiveUp, End, Arrived
  <2> HIDE DEF e
  <2> QED BY <2>1, HangUpCopy
<1>3. CASE CEof(p)
  <2>1. CASE Die(p, wire)
    BY <2>1, DieCopy
  <2>2. CASE /\ HangUp(p, "idle")
             /\ \E e \in {"aborted", "mismatch"} : End(p, e)
             /\ UNCHANGED <<up, file, listed, holder, job, had>>
    <3>1. PICK e \in {"aborted", "mismatch"} : End(p, e)
      BY <2>2
    <3>2. /\ pc[p] = "reading" /\ UNCHANGED <<file, had, job>> /\ e # "ok"
          /\ how' = [how EXCEPT ![p] = e] /\ got' = [got EXCEPT ![p] = <<>>]
      BY <1>3, <2>2, <3>1 DEF CEof, End, AtEof
    <3> QED BY <2>2, <3>2, HangUpCopy
  <2> QED BY <1>3, <2>1, <2>2 DEF CEof
<1>4. CASE CCheck(p)
  <2> DEFINE n == Len(got[p])
             e == IF Contents(p) = got[p][n].total THEN "ok" ELSE "mismatch"
  <2>1. pc[p] = "check" /\ IsSeq(got[p]) /\ got[p] # <<>>
    BY <1>4 DEF CCheck, CopyInv, Gathered
  <2>2. n \in DOMAIN got[p]
    BY <2>1 DEF IsSeq
  <2>3. got[p][n].total \in had[p]
    BY <2>2 DEF CopyInv, Gathered
  <2>4. e = "ok" => Contents(p) \in had[p]
    BY <2>3
  <2>5. /\ HangUp(p, "idle") /\ how' = [how EXCEPT ![p] = e]
        /\ got' = [got EXCEPT ![p] = <<>>] /\ UNCHANGED <<file, had, job>>
    BY <1>4 DEF CCheck, End
  <2> HIDE DEF e
  <2> QED BY <2>1, <2>4, <2>5, HangUpCopy
<1> QED BY <1>1, <1>2, <1>3, <1>4 DEF CClient

\* The client of a Python peer.
LEMMA PyClientCopy ==
    ASSUME CopyInv, NEW p \in PyPeers, PyClient(p), Shape'
    PROVE  CopyInv'
<1> USE Apart
<1>1. CASE PyStore(p)
  <2>1. PICK next \in {"reading", "gathered"} : pc' = [pc EXCEPT ![p] = next]
    BY <1>1 DEF PyStore
  <2>2. /\ Arrived(p) /\ NextBlock(p).status = "OK" /\ Keep(p)
        /\ UNCHANGED <<call, conn, how, job, file, had>>
    BY <1>1 DEF PyStore
  <2> QED BY <2>1, <2>2, StoreCopy
<1>2. CASE PyGiveUp(p)
  BY <1>2, HangUpCopy DEF PyGiveUp, End, Arrived
<1>3. CASE PyRaise(p)
  BY <1>3, HangUpCopy DEF PyRaise, End, Arrived, AtEof
<1>4. CASE PyGathered(p)
  BY <1>4, HangUpCopy DEF PyGathered
<1>5. CASE PyOpen(p)
  <2>1. UNCHANGED <<call, conn, job, wire, got, how>>
    BY <1>5 DEF PyOpen, client
  <2> QED BY <1>5, <2>1, WriteCopy DEF PyOpen
<1>6. CASE PyWrite(p)
  BY <1>6, WriteCopy DEF PyWrite
<1> QED BY <1>1, <1>2, <1>3, <1>4, <1>5, <1>6 DEF PyClient

\* A handler of a Python peer: what it loads is the served file, and what it sends
\* carries the hash of what it loaded.
LEMMA PyHandlerCopy ==
    ASSUME CopyInv, NEW c \in Conns, conn[c] \in PyPeers, PyHandler(c), Shape'
    PROVE  CopyInv'
<1> USE Apart
<1>0. /\ DOMAIN job = Conns /\ DOMAIN pc = Threads
      /\ job[c] = [data |-> job[c].data, left |-> job[c].left]
  BY DEF CopyInv, Maps, Shape
<1>1. CASE PyAdmit(c)
  <2>1. CASE Close(c) /\ wire' = Sent(c, Refusal)
    <3>1. Refusal.status # "OK" /\ pc'[c] # "send"
      BY <1>0, <2>1 DEF Refusal, Close
    <3> QED BY <1>1, <2>1, <3>1, ServeCopy DEF PyAdmit
  <2>2. CASE pc' = [pc EXCEPT ![c] = "open"] /\ UNCHANGED <<conn, job, wire>>
    <3>1. pc'[c] = "open" /\ job' = [job EXCEPT ![c] = job'[c]]
      BY <1>0, <2>2 DEF CopyInv, Maps
    <3> QED BY <1>0, <1>1, <2>2, <3>1, ServeCopy DEF PyAdmit
  <2> QED BY <1>1, <2>1, <2>2 DEF PyAdmit
<1>2. CASE PyLoad(c)
  <2> DEFINE d == Contents(conn[c])
             j == [data |-> d, left |-> 0..(PyCount(d) - 1)]
  <2>1. job' = [job EXCEPT ![c] = j] /\ job'[c] = j
    BY <1>0, <1>2 DEF PyLoad
  <2>2. job'[c].data = d
    BY <2>1
  <2>3. \A p \in Peers : call[p] = c => d \in had[p]
    BY DEF CopyInv, Known
  <2>4. /\ job' = [job EXCEPT ![c] = job'[c]]
        /\ job'[c] = [data |-> job'[c].data, left |-> job'[c].left]
    BY <2>1
  <2>5. /\ UNCHANGED <<file, client, had, conn, wire>> /\ pc' = [pc EXCEPT ![c] = "send"]
    BY <1>2 DEF PyLoad
  <2> HIDE DEF d
  <2> QED BY <2>2, <2>3, <2>4, <2>5, ServeCopy
<1>3. CASE PySend(c)
  <2> DEFINE d == job[c].data
  <2>1. pc[c] = "send" /\ \A p \in Peers : call[p] = c => d \in had[p]
    BY <1>3 DEF PySend, CopyInv, Known
  <2>2. UNCHANGED <<file, client, had>>
    BY <1>3 DEF PySend
  <2>3. ASSUME NEW i, wire' = Sent(c, Block(i, PyCount(d), Piece(d, i), d)),
               Advance(c, i, "send")
        PROVE  CopyInv'
    <3> DEFINE b == Block(i, PyCount(d), Piece(d, i), d)
    <3>1. b.total = d
      BY DEF Block
    <3>2. wire' = Sent(c, b)
      BY <2>3
    <3> HIDE DEF b, d
    <3>3. \E x : /\ wire' = Sent(c, x)
                /\ \A p \in Peers : call[p] = c /\ x.status = "OK" => x.total \in had[p]
      BY <2>1, <3>1, <3>2
    <3>4. CASE Close(c)
      <4>1. pc'[c] # "send"
        BY <1>0, <3>4 DEF Close
      <4> QED BY <2>2, <3>4, <3>3, <4>1, ServeCopy
    <3>5. CASE /\ job' = [job EXCEPT ![c].left = @ \ {i}]
               /\ pc' = [pc EXCEPT ![c] = "send"] /\ UNCHANGED conn
      <4>1. /\ job' = [job EXCEPT ![c] = job'[c]] /\ job'[c].data = d
            /\ job'[c] = [data |-> job'[c].data, left |-> job'[c].left]
        BY <1>0, <3>5 DEF d
      <4> QED BY <2>1, <2>2, <3>5, <3>3, <4>1, ServeCopy
    <3> QED BY <2>3, <3>4, <3>5 DEF Advance
  <2>4. CASE Close(c) /\ UNCHANGED wire
    <3>1. pc'[c] # "send"
      BY <1>0, <2>4 DEF Close
    <3> QED BY <2>2, <2>4, <3>1, ServeCopy
  <2> QED BY <1>3, <2>3, <2>4 DEF PySend
<1> QED BY <1>1, <1>2, <1>3 DEF PyHandler

\* A handler of a C peer: a block carries the hash of the file as it is when the
\* block is sent.
LEMMA CHandlerCopy ==
    ASSUME CopyInv, NEW c \in Conns, conn[c] \in CPeers, CHandler(c), Shape'
    PROVE  CopyInv'
<1> USE Apart
<1> DEFINE q == conn[c]
<1>0. /\ DOMAIN job = Conns /\ conn[c] \notin PyPeers
      /\ job[c] = [data |-> job[c].data, left |-> job[c].left]
  BY DEF CopyInv, Maps
<1>1. CASE COpen(c)
  <2>1. CASE Die(q, Sent(c, Refusal))
    BY <2>1, DieCopy
  <2>2. CASE ~Die(q, Sent(c, Refusal))
    <3>1. /\ pc' = [pc EXCEPT ![c] = "read"]
          /\ UNCHANGED <<file, client, conn, wire, had>>
          /\ \E j \in {[data |-> file[q], left |-> 0..(CCount(Len(file[q])) - 1)]} :
                job' = [job EXCEPT ![c] = j]
      BY <1>1, <2>2 DEF COpen
    <3>2. /\ job' = [job EXCEPT ![c] = job'[c]]
          /\ job'[c] = [data |-> job'[c].data, left |-> job'[c].left]
      BY <1>0, <3>1
    <3> QED BY <1>0, <3>1, <3>2, ServeCopy
  <2> QED BY <2>1, <2>2
<1>2. CASE CRead(c)
  <2>1. /\ job' = [job EXCEPT ![c] = job'[c]]
        /\ job'[c] = [data |-> job'[c].data, left |-> job'[c].left]
    BY <1>0, <1>2 DEF CRead
  <2> QED BY <1>0, <1>2, <2>1, ServeCopy DEF CRead
<1>3. CASE CSend(c)
  <2> DEFINE j == job[c]
             i == Min(j.left)
             b == Block(i, CCount(Len(j.data)), Piece(j.data, i), Contents(q))
  <2>1. CASE Die(q, wire)
    BY <2>1, DieCopy
  <2>2. CASE wire' = Sent(c, b) /\ Advance(c, i, "read") /\ UNCHANGED <<file, client, had>>
    <3>1. b.total = Contents(q)
      BY DEF Block
    <3>2. \A p \in Peers : call[p] = c => Contents(q) \in had[p]
      BY DEF CopyInv, Known
    <3> HIDE DEF b
    <3>3. \E x : /\ wire' = Sent(c, x)
                /\ \A p \in Peers : call[p] = c /\ x.status = "OK" => x.total \in had[p]
      BY <2>2, <3>1, <3>2
    <3>4. CASE Close(c)
      BY <1>0, <2>2, <3>4, <3>3, ServeCopy
    <3>5. CASE /\ job' = [job EXCEPT ![c].left = @ \ {i}]
               /\ pc' = [pc EXCEPT ![c] = "read"] /\ UNCHANGED conn
      <4>1. /\ job' = [job EXCEPT ![c] = job'[c]]
            /\ job'[c] = [data |-> job'[c].data, left |-> job'[c].left]
        BY <1>0, <3>5
      <4> QED BY <1>0, <2>2, <3>5, <3>3, <4>1, ServeCopy
    <3> QED BY <2>2, <3>4, <3>5 DEF Advance
  <2> QED BY <1>3, <2>1, <2>2 DEF CSend
<1> QED BY <1>1, <1>2, <1>3 DEF CHandler

\* The first state.
LEMMA InitCopy == Init => CopyInv
<1> SUFFICES ASSUME Init PROVE CopyInv
  OBVIOUS
<1> USE Apart
<1>1. Shape
  BY InitInv DEF IInv
<1>2. Maps /\ Wired /\ Known
  <2>1. file = [p \in Peers |-> file[p]]
    <3>1. file \in [Peers -> Data \cup {Missing}]
      BY StartsAssumption DEF Init
    <3> QED BY <3>1
  <2>2. Maps
    BY <2>1 DEF Init, Maps, NoJob
  <2> QED BY <2>2 DEF Init, Wired, Known
<1>3. \A p \in Peers : pc[p] = "idle" /\ how[p] = "none" /\ got[p] = <<>>
  BY DEF Init
<1>4. Gathered
  BY <1>3, NoneHonest DEF Gathered
<1>5. VerifiedCopy
  BY <1>3 DEF VerifiedCopy, Ended
<1> QED BY <1>1, <1>2, <1>4, <1>5 DEF CopyInv

\* Every step preserves the invariant.
LEMMA NextCopy == IInv /\ CopyInv /\ [Next]_vars => CopyInv'
<1> SUFFICES ASSUME IInv, CopyInv, [Next]_vars PROVE CopyInv'
  OBVIOUS
<1> USE Apart
<1>1. Shape'
  BY NextInv DEF IInv
<1>2. ASSUME NEW p \in Peers, NEW q \in Peers, Ask(p, q) PROVE CopyInv'
  BY <1>1, <1>2, AskCopy
<1>3. ASSUME NEW p \in Peers, Client(p) PROVE CopyInv'
  BY <1>1, <1>3, CClientCopy, PyClientCopy DEF Client
<1>4. ASSUME NEW c \in Conns, Serve(c) PROVE CopyInv'
  BY <1>1, <1>4, CHandlerCopy, PyHandlerCopy DEF Serve
<1>5. CASE UNCHANGED vars
  <2>1. \A p : Contents(p)' = Contents(p)
    BY <1>5 DEF vars, Contents
  <2>2. \A p : Contents(conn[call[p]])' = Contents(conn[call[p]])
    BY <1>5 DEF vars, client, Contents
  <2> QED BY <1>1, <1>5, <2>1, <2>2
          DEF vars, client, CopyInv, Maps, Wired, Read, Known, Gathered, VerifiedCopy, Ended
<1> QED BY <1>2, <1>3, <1>4, <1>5 DEF Next

\* VerifiedCopy: whatever contents replace each other in the directories of the
\* peers while blocks are on their way, a C client that is content has a file that
\* was served to it.
THEOREM CopiesVerified == Spec => []VerifiedCopy
<1>1. IInv /\ CopyInv /\ [Next]_vars => (IInv /\ CopyInv)'
  BY NextInv, NextCopy
<1>2. CopyInv => VerifiedCopy
  BY DEF CopyInv
<1> QED BY InitInv, InitCopy, <1>1, <1>2, PTL DEF Spec

-----------------------------------------------------------------------------
(* The blocks of one stream: how many there are, which have been sent, and  *)
(* what they make together.                                                *)

\* What Min is of two numbers.
LEMMA MinOfTwo ==
    ASSUME NEW m \in Int, NEW n \in Int
    PROVE  Min({m, n}) = IF m <= n THEN m ELSE n
BY DEF Min

\* Quotient and remainder by the size of a block.
LEMMA Quotient ==
    ASSUME NEW m \in Nat
    PROVE  /\ m \div B \in Nat
           /\ (m \div B) * B <= m /\ m < (m \div B) * B + B
<1> DEFINE q == m \div B
           r == m % B
<1>1. q \in Nat /\ r \in Nat /\ r < B /\ m = B * q + r
  BY BlockAssumption
<1> HIDE DEF q, r
<1>2. B * q = q * B /\ B * q \in Nat
  BY <1>1, BlockAssumption
<1>3. q \in Nat /\ q * B <= m /\ m < q * B + B
  BY <1>1, <1>2, BlockAssumption
<1> QED BY <1>3 DEF q

Counted(q, f) == IF q \in CPeers THEN CCount(Len(f)) ELSE PyCount(f)

\* The blocks cover the data, and none but the first begins behind its end.
LEMMA CountedBounds ==
    ASSUME NEW q, NEW f \in Data
    PROVE  /\ Counted(q, f) \in Nat \ {0}
           /\ (Counted(q, f) - 1) * B <= Len(f) /\ Len(f) <= Counted(q, f) * B
<1> DEFINE l == Len(f)
<1>0. l \in Nat /\ B \in Nat \ {0}
  BY BlockAssumption DEF Data
<1> HIDE DEF l
<1>1. ASSUME NEW m \in Nat, NEW n \in Nat, n = m + 1
      PROVE  n * B = m * B + B /\ (n - 1) * B = m * B /\ m * B \in Nat
  BY <1>0, <1>1
<1>2. CASE q \in CPeers
  <2> DEFINE m == l \div B
  <2>1. m \in Nat /\ m * B <= l /\ l < m * B + B
    BY <1>0, Quotient
  <2>2. Counted(q, f) = m + 1
    BY <1>2 DEF Counted, CCount, l
  <2> HIDE DEF m
  <2>3. (m + 1) * B = m * B + B /\ ((m + 1) - 1) * B = m * B /\ m * B \in Nat
    BY <1>1, <2>1
  <2> QED BY <1>0, <2>1, <2>2, <2>3 DEF l
<1>3. CASE q \notin CPeers /\ l = 0
  <2>1. Counted(q, f) = 1
    BY <1>3 DEF Counted, PyCount, l
  <2> QED BY <1>0, <1>3, <2>1 DEF l
<1>4. CASE q \notin CPeers /\ l # 0
  <2> DEFINE m == (l + B - 1) \div B
  <2>1. m \in Nat /\ m * B <= l + B - 1 /\ l + B - 1 < m * B + B
    BY <1>0, Quotient
  <2>2. Counted(q, f) = m
    BY <1>4 DEF Counted, PyCount, l
  <2> HIDE DEF m
  <2>3. m # 0
    BY <1>0, <1>4, <2>1
  <2>4. (m - 1) \in Nat /\ m * B = (m - 1) * B + B /\ (m - 1) * B \in Nat
    <3>1. m = (m - 1) + 1 /\ m - 1 \in Nat
      BY <2>1, <2>3
    <3> QED BY <1>1, <2>1, <3>1
  <2> QED BY <1>0, <2>1, <2>2, <2>3, <2>4 DEF l
<1> QED BY <1>2, <1>3, <1>4

\* A block appended to the second of two sequences, and one handed from the second
\* to the first.
LEMMA ConcatMoves ==
    ASSUME NEW S, NEW g \in Seq(S), NEW w \in Seq(S)
    PROVE  /\ \A b \in S : g \o Append(w, b) = Append(g \o w, b)
           /\ w # <<>> => Append(g, Head(w)) \o Tail(w) = g \o w
<1>1. ASSUME NEW b \in S PROVE g \o Append(w, b) = Append(g \o w, b)
  <2>1. <<b>> \in Seq(S) /\ g \o w \in Seq(S)
    BY ConcatProperties
  <2> QED BY <2>1, AppendIsConcat, ConcatAssociative
<1>2. ASSUME w # <<>> PROVE Append(g, Head(w)) \o Tail(w) = g \o w
  <2>1. Head(w) \in S /\ Tail(w) \in Seq(S) /\ <<Head(w)>> \in Seq(S)
    BY <1>2, HeadTailProperties
  <2>2. Append(g, Head(w)) = g \o <<Head(w)>>
    BY <2>1, AppendIsConcat
  <2>3. <<Head(w)>> \o Tail(w) = w
    <3> DEFINE t == <<Head(w)>> \o Tail(w)
    <3>1. /\ t \in Seq(S) /\ Len(t) = 1 + (Len(w) - 1)
          /\ \A i \in 1..(1 + (Len(w) - 1)) :
                t[i] = IF i <= 1 THEN <<Head(w)>>[i] ELSE Tail(w)[i - 1]
      BY <1>2, <2>1, ConcatProperties, HeadTailProperties
    <3>2. Len(w) \in Nat \ {0} /\ Head(w) = w[1]
      BY <1>2
    <3>3. \A i \in 1..(Len(w) - 1) : Tail(w)[i] = w[i + 1]
      BY <1>2, HeadTailProperties
    <3>4. \A i \in 1..Len(t) : t[i] = w[i]
      BY <3>1, <3>2, <3>3
    <3> HIDE DEF t
    <3>5. Len(t) = Len(w)
      BY <3>1, <3>2
    <3>6. t = w
      BY <3>1, <3>4, <3>5, SeqEqual
    <3> QED BY <3>6 DEF t
  <2> QED BY <2>1, <2>2, <2>3, ConcatAssociative
<1> QED BY <1>1, <1>2

-----------------------------------------------------------------------------

BlockSet == [status : {"OK", "BAD"}, num : Nat, count : Nat, payload : Data, total : Data]

\* The blocks of s are some of n, each at most once.
Numbered(s, n) ==
    /\ \A i \in DOMAIN s : /\ s[i].status = "OK" /\ s[i].count = n
                           /\ s[i].num \in 0..(n - 1)
    /\ \A i, j \in DOMAIN s : s[i].num = s[j].num => i = j

\* left are the numbers of the blocks that are not in s.
Remaining(left, s, n) ==
    /\ left # {} /\ left \subseteq 0..(n - 1)
    /\ Len(s) + Cardinality(left) = n
    /\ \A i \in DOMAIN s : s[i].num \notin left

Faithful(s, f) ==
    \A i \in DOMAIN s : s[i].status = "OK" =>
       s[i].payload = Piece(f, s[i].num) /\ s[i].total = f

\* One more block is sent, one that was still to be sent.
LEMMA NumberedAppend ==
    ASSUME NEW n \in Nat, NEW s \in Seq(BlockSet), Numbered(s, n),
           NEW left, Remaining(left, s, n), NEW k \in left,
           NEW b \in BlockSet, b.status = "OK", b.num = k, b.count = n,
           NEW t, t = Append(s, b)
    PROVE  /\ Numbered(t, n)
           /\ left # {k} => Remaining(left \ {k}, t, n)
<1>1. /\ Len(s) \in Nat /\ DOMAIN s = 1..Len(s) /\ t \in Seq(BlockSet)
      /\ Len(t) = Len(s) + 1 /\ t[Len(s) + 1] = b
      /\ \A i \in 1..Len(s) : t[i] = s[i]
  BY AppendProperties
<1>2. DOMAIN t = 1..(Len(s) + 1)
  BY <1>1
<1>3. \A i \in DOMAIN t : \/ i = Len(s) + 1 /\ t[i] = b
                          \/ i \in DOMAIN s /\ i # Len(s) + 1 /\ t[i] = s[i]
  BY <1>1, <1>2
<1>4. k \in 0..(n - 1) /\ \A i \in DOMAIN s : s[i].num # k
  BY DEF Remaining
<1>5. Numbered(t, n)
  BY <1>3, <1>4 DEF Numbered
<1>6. IsFiniteSet(left)
  <2>1. IsFiniteSet(0..(n - 1))
    BY FS_Interval
  <2> QED BY <2>1, FS_Subset DEF Remaining
<1>8. ASSUME left # {k} PROVE Remaining(left \ {k}, t, n)
  <2>1. Cardinality(left \ {k}) = Cardinality(left) - 1 /\ Cardinality(left) \in Nat
    BY <1>6, FS_RemoveElement, FS_CardinalityType
  <2>2. \A i \in DOMAIN t : t[i].num \notin left \ {k}
    BY <1>3 DEF Remaining
  <2>3. left \ {k} # {} /\ left \ {k} \subseteq 0..(n - 1)
    BY <1>8 DEF Remaining
  <2>4. Len(t) + Cardinality(left \ {k}) = n
    BY <1>1, <2>1 DEF Remaining
  <2> QED BY <2>2, <2>3, <2>4 DEF Remaining
<1> QED BY <1>5, <1>8

\* All of n numbers are there when n different ones are.
LEMMA AllNumbers ==
    ASSUME NEW n \in Nat, NEW s \in Seq(BlockSet), Numbered(s, n), Len(s) = n
    PROVE  \A k \in 0..(n - 1) : \E i \in DOMAIN s : s[i].num = k
<1> DEFINE m == [i \in 1..n |-> s[i].num]
<1>1. DOMAIN s = 1..n
  OBVIOUS
<1>2. m \in Injection(1..n, 0..(n - 1))
  BY <1>1 DEF Numbered, Injection, IsInjective
<1>3. /\ IsFiniteSet(0..(n - 1)) /\ Cardinality(0..(n - 1)) = n
      /\ Cardinality(1..n) = n
  <2>1. 0 \in Int /\ 1 \in Int /\ n - 1 \in Int /\ n \in Int
    OBVIOUS
  <2>2. /\ IsFiniteSet(0..(n - 1))
        /\ Cardinality(0..(n - 1)) = IF 0 > n - 1 THEN 0 ELSE (n - 1) - 0 + 1
    BY <2>1, FS_Interval
  <2>3. Cardinality(1..n) = IF 1 > n THEN 0 ELSE n - 1 + 1
    BY <2>1, FS_Interval
  <2> QED BY <2>2, <2>3
<1> HIDE DEF m
<1>4. m \in Surjection(1..n, 0..(n - 1))
  BY <1>2, <1>3, FS_Injection
<1> QED BY <1>1, <1>4 DEF m, Surjection

\* What a client has received is a part of what was sent to it.
LEMMA FirstPart ==
    ASSUME NEW g \in Seq(BlockSet), NEW w \in Seq(BlockSet), NEW n, NEW f
    PROVE  /\ Numbered(g \o w, n) => Numbered(g, n)
           /\ Faithful(g \o w, f) => Faithful(g, f)
           /\ w # <<>> => /\ Numbered(g \o w, n) =>
                               /\ Head(w).status = "OK" /\ Head(w).count = n
                               /\ Head(w).num \in 0..(n - 1)
                          /\ Faithful(g \o w, f) /\ Head(w).status = "OK" =>
                               /\ Head(w).payload = Piece(f, Head(w).num)
                               /\ Head(w).total = f
<1> DEFINE s == g \o w
<1>1. /\ s \in Seq(BlockSet) /\ Len(s) = Len(g) + Len(w)
      /\ \A i \in 1..(Len(g) + Len(w)) : s[i] = IF i <= Len(g) THEN g[i] ELSE w[i - Len(g)]
  BY ConcatProperties
<1>2. /\ DOMAIN s = 1..(Len(g) + Len(w)) /\ DOMAIN g = 1..Len(g)
      /\ Len(g) \in Nat /\ Len(w) \in Nat
  BY <1>1
<1> HIDE DEF s
<1>3. \A i \in DOMAIN g : i \in DOMAIN s /\ s[i] = g[i]
  BY <1>1, <1>2
<1>4. w # <<>> => \E i \in DOMAIN s : s[i] = Head(w)
  <2> SUFFICES ASSUME w # <<>> PROVE \E i \in DOMAIN s : s[i] = Head(w)
    OBVIOUS
  <2>1. Len(w) # 0 /\ Head(w) = w[1]
    OBVIOUS
  <2>2. Len(g) + 1 \in DOMAIN s /\ s[Len(g) + 1] = w[1]
    BY <1>1, <1>2, <2>1
  <2> QED BY <2>1, <2>2
<1>5. Numbered(s, n) => Numbered(g, n)
  BY <1>3 DEF Numbered
<1>6. Faithful(s, f) => Faithful(g, f)
  BY <1>3 DEF Faithful
<1>7. w # <<>> /\ Numbered(s, n) =>
         Head(w).status = "OK" /\ Head(w).count = n /\ Head(w).num \in 0..(n - 1)
  BY <1>4 DEF Numbered
<1>8. w # <<>> /\ Faithful(s, f) /\ Head(w).status = "OK" =>
         Head(w).payload = Piece(f, Head(w).num) /\ Head(w).total = f
  BY <1>4 DEF Faithful
<1> QED BY <1>5, <1>6, <1>7, <1>8 DEF s

\* A set of natural numbers that is not empty has a least element.
LEMMA LeastNat ==
    ASSUME NEW T \in SUBSET Nat, T # {}
    PROVE  \E n \in T : \A m \in T : n <= m
<1>1. PICK t \in T : TRUE
  OBVIOUS
<1> DEFINE S == 1..t
           U == {1..m : m \in {n \in T : n <= t}}
<1>2. IsFiniteSet(S)
  BY FS_Interval
<1>3. IsWellFoundedOn(StrictSubsetOrdering(S), FiniteSubsetsOf(S))
  BY <1>2, FS_StrictSubsetOrderingWellFounded
<1>4. U \subseteq FiniteSubsetsOf(S)
  <2> SUFFICES ASSUME NEW m \in T, m <= t PROVE 1..m \in FiniteSubsetsOf(S)
    OBVIOUS
  <2>1. IsFiniteSet(1..m)
    BY FS_Interval
  <2>2. 1..m \subseteq S
    OBVIOUS
  <2> QED BY <2>1, <2>2 DEF FiniteSubsetsOf
<1>5. U # {}
  BY <1>1
<1> HIDE DEF U
<1>6. PICK x \in U : \A y \in U : <<y, x>> \notin StrictSubsetOrdering(S)
  BY <1>3, <1>4, <1>5, WFMin
<1> USE DEF U
<1>7. PICK n \in T : n <= t /\ x = 1..n
  BY <1>6
<1>8. ASSUME NEW m \in T, m < n PROVE FALSE
  <2>1. 1..m \in U
    BY <1>7, <1>8
  <2>2. 1..m \subseteq S /\ 1..n \subseteq S
    BY <1>7, <1>8
  <2>3. n \in 1..n /\ n \notin 1..m
    BY <1>8
  <2>4. 1..m \subseteq 1..n
    BY <1>8
  <2> QED BY <1>6, <1>7, <2>1, <2>2, <2>3, <2>4 DEF StrictSubsetOrdering
<1> QED BY <1>8

-----------------------------------------------------------------------------
(* The payloads joined.                                                    *)

\* g[k] is the first k of the sequences P, one after the other.
Sums(g, P, n) == g = [k \in 0..n |-> IF k = 0 THEN <<>> ELSE g[k - 1] \o P[k - 1]]

\* There are such sums: those of n - 1 sequences are continued by the n-th.
LEMMA SumsExist ==
    ASSUME NEW n \in Nat, NEW P
    PROVE  \E g : Sums(g, P, n)
<1> DEFINE T == {m \in Nat : ~\E g : Sums(g, P, m)}
<1> SUFFICES ASSUME T # {} PROVE FALSE
  OBVIOUS
<1>1. PICK m \in T : \A k \in T : m <= k
  <2>1. T \in SUBSET Nat
    OBVIOUS
  <2> HIDE DEF T
  <2> QED BY <2>1, LeastNat
<1>2. m # 0
  <2>1. Sums([k \in 0..0 |-> <<>>], P, 0)
    BY DEF Sums
  <2> QED BY <1>1, <2>1
<1>3. m - 1 \in Nat /\ m - 1 \notin T
  BY <1>1, <1>2
<1>4. PICK h : Sums(h, P, m - 1)
  BY <1>3
<1> DEFINE g == [k \in 0..m |-> IF k = m THEN h[m - 1] \o P[m - 1] ELSE h[k]]
<1>5. ASSUME NEW k \in 0..m
      PROVE  g[k] = IF k = 0 THEN <<>> ELSE g[k - 1] \o P[k - 1]
  <2>1. CASE k = m
    BY <1>2, <1>3, <2>1
  <2>2. CASE k # m
    <3>1. k \in 0..(m - 1)
      BY <1>1, <2>2
    <3>2. h[k] = IF k = 0 THEN <<>> ELSE h[k - 1] \o P[k - 1]
      BY <1>4, <3>1 DEF Sums
    <3>3. k # 0 => g[k - 1] = h[k - 1] /\ k - 1 \in 0..m
      BY <1>1, <3>1
    <3> QED BY <2>2, <3>2, <3>3
  <2> QED BY <2>1, <2>2
<1>6. Sums(g, P, m)
  <2>1. g = [k \in 0..m |-> g[k]]
    OBVIOUS
  <2> HIDE DEF g
  <2> QED BY <1>5, <2>1 DEF Sums
<1> QED BY <1>1, <1>6

\* Sums of sequences over S are sequences over S.
LEMMA SumsType ==
    ASSUME NEW n \in Nat, NEW P, NEW g, Sums(g, P, n), NEW S,
           \A k \in 0..(n - 1) : P[k] \in Seq(S)
    PROVE  \A k \in 0..n : g[k] \in Seq(S)
<1> DEFINE T == {m \in 0..n : g[m] \notin Seq(S)}
<1> SUFFICES ASSUME T # {} PROVE FALSE
  OBVIOUS
<1>1. PICK m \in T : \A k \in T : m <= k
  <2>1. T \in SUBSET Nat
    OBVIOUS
  <2> HIDE DEF T
  <2> QED BY <2>1, LeastNat
<1>2. g[m] = IF m = 0 THEN <<>> ELSE g[m - 1] \o P[m - 1]
  BY <1>1 DEF Sums
<1>3. m # 0
  BY <1>1, <1>2, EmptySeq
<1>4. m - 1 \in 0..n /\ m - 1 \notin T /\ m - 1 \in 0..(n - 1)
  BY <1>1, <1>3
<1>5. g[m - 1] \in Seq(S) /\ P[m - 1] \in Seq(S)
  BY <1>4
<1>6. g[m - 1] \o P[m - 1] \in Seq(S)
  BY <1>5, ConcatProperties
<1> QED BY <1>1, <1>2, <1>3, <1>6

\* The sums of the pieces of f end with f.
LEMMA SumsOfPieces ==
    ASSUME NEW n \in Nat \ {0}, NEW f \in Data,
           (n - 1) * B <= Len(f), Len(f) <= n * B,
           NEW P, \A k \in 0..(n - 1) : P[k] = Piece(f, k), NEW g, Sums(g, P, n)
    PROVE  g[n] = f
<1>0. Len(f) \in Nat /\ f \in Seq(Bytes \cup {NUL}) /\ B \in Nat \ {0}
  BY BlockAssumption DEF Data
<1> DEFINE upto(k) == IF k < n THEN k * B ELSE Len(f)
           T == {m \in 0..n : g[m] # SubSeq(f, 1, upto(m))}
<1>1. ASSUME NEW m \in 0..(n - 1)
      PROVE  m * B \in 0..Len(f) /\ (m + 1) * B = m * B + B
  <2>1. m * B \in Nat /\ (m + 1) * B = m * B + B
    BY <1>0
  <2>2. m * B <= (n - 1) * B
    <3>1. m <= n - 1 /\ n - 1 \in Nat /\ m \in Nat
      OBVIOUS
    <3> QED BY <1>0, <3>1
  <2>3. (n - 1) * B \in Nat
    BY <1>0
  <2> QED BY <1>0, <2>1, <2>2, <2>3
<1>2. ASSUME NEW m \in 0..(n - 1)
      PROVE  Piece(f, m) = SubSeq(f, upto(m) + 1, upto(m + 1))
  <2>1. CASE m + 1 < n
    <3>1. m + 1 \in 0..(n - 1)
      BY <2>1
    <3>2. (m + 1) * B \in 0..Len(f)
      BY <1>1, <3>1
    <3>3. Min({Len(f), (m + 1) * B}) = (m + 1) * B
      BY <1>0, <3>2, MinOfTwo
    <3>4. Piece(f, m) = SubSeq(f, m * B + 1, (m + 1) * B)
      BY <3>3 DEF Piece
    <3>5. upto(m) = m * B /\ upto(m + 1) = (m + 1) * B
      BY <2>1
    <3> QED BY <3>4, <3>5
  <2>2. CASE m + 1 = n
    <3>1. (m + 1) * B \in Int /\ Len(f) <= (m + 1) * B
      BY <1>0, <2>2
    <3>2. Min({Len(f), (m + 1) * B}) = Len(f)
      BY <1>0, <3>1, MinOfTwo
    <3>4. Piece(f, m) = SubSeq(f, m * B + 1, Len(f))
      BY <3>2 DEF Piece
    <3>5. upto(m) = m * B /\ upto(m + 1) = Len(f)
      BY <2>2
    <3> QED BY <3>4, <3>5
  <2> QED BY <2>1, <2>2
<1>3. ASSUME NEW m \in 0..(n - 1)
      PROVE  /\ upto(m) \in 0..Len(f) /\ upto(m + 1) \in upto(m)..Len(f)
             /\ m + 1 \in 0..n
  <2>1. m * B \in 0..Len(f) /\ (m + 1) * B = m * B + B
    BY <1>1
  <2>2. m + 1 < n => (m + 1) * B \in 0..Len(f)
    BY <1>1
  <2> QED BY <1>0, <2>1, <2>2
<1> HIDE DEF upto
<1>4. T = {}
  <2> SUFFICES ASSUME T # {} PROVE FALSE
    OBVIOUS
  <2>1. PICK m \in T : \A k \in T : m <= k
    <3>1. T \in SUBSET Nat
      OBVIOUS
    <3> HIDE DEF T
    <3> QED BY <3>1, LeastNat
  <2>2. g[m] = IF m = 0 THEN <<>> ELSE g[m - 1] \o P[m - 1]
    BY <2>1 DEF Sums
  <2>3. m # 0
    <3>1. SubSeq(f, 1, 0) = <<>>
      BY SubSeqEmpty
    <3>2. upto(0) = 0
      BY <1>0 DEF upto
    <3> QED BY <2>1, <2>2, <3>1, <3>2
  <2>4. m - 1 \in 0..n /\ m - 1 \notin T /\ m - 1 \in 0..(n - 1) /\ (m - 1) + 1 = m
    BY <2>1, <2>3
  <2>5. g[m - 1] = SubSeq(f, 1, upto(m - 1))
    BY <2>4
  <2>6. P[m - 1] = SubSeq(f, upto(m - 1) + 1, upto(m))
    BY <1>2, <2>4
  <2>7. upto(m - 1) \in 0..Len(f) /\ upto(m) \in upto(m - 1)..Len(f)
    BY <1>3, <2>4
  <2>8. SubSeq(f, 1, upto(m - 1)) \o SubSeq(f, upto(m - 1) + 1, upto(m))
            = SubSeq(f, 1, upto(m))
    <3>1. 1 \in 1..(Len(f) + 1) /\ upto(m - 1) \in (1 - 1)..Len(f)
      BY <1>0, <2>7
    <3> QED BY <1>0, <2>7, <3>1, ConcatAdjacentSubSeq
  <2> QED BY <2>1, <2>2, <2>3, <2>5, <2>6, <2>8
<1>5. n \in 0..n /\ upto(n) = Len(f)
  BY DEF upto
<1>6. g[n] = SubSeq(f, 1, Len(f))
  BY <1>4, <1>5
<1> QED BY <1>0, <1>6, SubSeqFull

\* What a Python client makes of all the blocks: some data, and the data that was
\* cut if they are all pieces of the same.
LEMMA JoinedBlocks ==
    ASSUME NEW s \in Seq(BlockSet), NEW n \in Nat, Numbered(s, n), Len(s) = n
    PROVE  /\ Joined(s) \in Data
           /\ \A q : \A f \in Data : n = Counted(q, f) /\ Faithful(s, f) => Joined(s) = f
<1> DEFINE of(k) == CHOOSE j \in DOMAIN s : s[j].num = k
           P == [k \in 0..(n - 1) |-> s[of(k)].payload]
           g == CHOOSE g : g = [k \in 0..Len(s) |->
                   IF k = 0 THEN <<>>
                   ELSE g[k - 1] \o s[CHOOSE j \in DOMAIN s : s[j].num = k - 1].payload]
<1>1. Joined(s) = g[n]
  BY DEF Joined
<1>2. ASSUME NEW h
      PROVE  Sums(h, P, n) <=> h = [k \in 0..Len(s) |->
                   IF k = 0 THEN <<>>
                   ELSE h[k - 1] \o s[CHOOSE j \in DOMAIN s : s[j].num = k - 1].payload]
  <2>1. \A k \in 0..n : k # 0 => k - 1 \in 0..(n - 1)
    OBVIOUS
  <2>2. \A k \in 0..(n - 1) : P[k] = s[of(k)].payload
    OBVIOUS
  <2> HIDE DEF P
  <2>3. \A k \in 0..n : k # 0 => P[k - 1] = s[of(k - 1)].payload
    BY <2>1, <2>2
  <2> QED BY <2>3 DEF Sums
<1>3. Sums(g, P, n)
  <2>1. \E h : Sums(h, P, n)
    BY SumsExist
  <2> QED BY <1>2, <2>1
<1>4. ASSUME NEW k \in 0..(n - 1)
      PROVE  of(k) \in DOMAIN s /\ s[of(k)].num = k /\ P[k] = s[of(k)].payload
  BY AllNumbers
<1>5. \A i \in DOMAIN s : s[i] \in BlockSet /\ s[i].status = "OK"
  BY DEF Numbered
<1>6. Joined(s) \in Data
  <2>1. \A k \in 0..(n - 1) : P[k] \in Seq(Bytes \cup {NUL})
    BY <1>4, <1>5 DEF BlockSet, Data
  <2> HIDE DEF g, P
  <2>2. g[n] \in Seq(Bytes \cup {NUL})
    BY <1>3, <2>1, SumsType
  <2> QED BY <1>1, <2>2 DEF Data
<1>7. ASSUME NEW q, NEW f \in Data, n = Counted(q, f), Faithful(s, f)
      PROVE  Joined(s) = f
  <2>1. \A k \in 0..(n - 1) : P[k] = Piece(f, k)
    BY <1>4, <1>5, <1>7 DEF Faithful
  <2>2. /\ n \in Nat \ {0}
        /\ (n - 1) * B <= Len(f) /\ Len(f) <= n * B
    BY <1>7, CountedBounds
  <2> HIDE DEF g, P
  <2> QED BY <1>1, <1>3, <1>7, <2>1, <2>2, SumsOfPieces
<1> QED BY <1>6, <1>7

-----------------------------------------------------------------------------
(* Pieces, and what is written to a file.                                  *)

\* Data are sequences of bytes.
LEMMA DataParts ==
    ASSUME NEW f \in Data
    PROVE  /\ Len(f) \in Nat /\ DOMAIN f = 1..Len(f) /\ f \in Seq(Bytes \cup {NUL})
           /\ \A i \in 1..Len(f) : f[i] \in Bytes \cup {NUL}
BY DEF Data

\* The end of a piece.
LEMMA PieceParts ==
    ASSUME NEW f \in Data, NEW k \in Nat
    PROVE  /\ Piece(f, k) \in Data
           /\ k * B \in Nat /\ (k + 1) * B = k * B + B
           /\ k * B <= Len(f) => \E e \in (k * B)..Len(f) :
                /\ \A i \in Nat : i <= e <=> i <= Len(f) /\ i <= (k + 1) * B
                /\ Len(Piece(f, k)) = e - k * B
                /\ \A i \in 1..(e - k * B) : Piece(f, k)[i] = f[k * B + i]
<1>0. B \in Nat \ {0}
  BY BlockAssumption
<1>1. k * B \in Nat /\ (k + 1) * B = k * B + B
  BY <1>0
<1> DEFINE o == k * B
           p == (k + 1) * B
           e == IF Len(f) <= p THEN Len(f) ELSE p
<1>2. o \in Nat /\ p \in Nat /\ p = o + B
  BY <1>0, <1>1
<1>3. Piece(f, k) = SubSeq(f, o + 1, e)
  <2>1. Min({Len(f), p}) = e
    BY <1>2, DataParts, MinOfTwo
  <2> HIDE DEF e
  <2> QED BY <2>1 DEF Piece
<1> HIDE DEF o, p
<1>4. e \in Nat /\ e <= Len(f) /\ \A i \in Nat : i <= e <=> i <= Len(f) /\ i <= p
  BY <1>2, DataParts
<1> HIDE DEF e
<1>5. /\ SubSeq(f, o + 1, e) \in Seq(Bytes \cup {NUL})
      /\ Len(SubSeq(f, o + 1, e)) = IF o + 1 <= e THEN e - (o + 1) + 1 ELSE 0
      /\ \A i \in 1..(e - (o + 1) + 1) : SubSeq(f, o + 1, e)[i] = f[o + 1 + i - 1]
  <2>1. \A i \in (o + 1)..e : f[i] \in Bytes \cup {NUL}
    BY <1>2, <1>4, DataParts
  <2>2. o + 1 \in Int /\ e \in Int
    BY <1>2, <1>4
  <2> QED BY <2>1, <2>2, SubSeqProperties
<1>6. ASSUME o <= Len(f)
      PROVE  \E x \in o..Len(f) :
                /\ \A i \in Nat : i <= x <=> i <= Len(f) /\ i <= p
                /\ Len(Piece(f, k)) = x - o
                /\ \A i \in 1..(x - o) : Piece(f, k)[i] = f[o + i]
  <2>1. e \in o..Len(f)
    BY <1>0, <1>2, <1>4, <1>6, DataParts
  <2>2. Len(Piece(f, k)) = e - o
    BY <1>2, <1>3, <1>5, <2>1
  <2>3. \A i \in 1..(e - o) : Piece(f, k)[i] = f[o + i]
    <3>1. \A i \in 1..(e - o) : i \in 1..(e - (o + 1) + 1) /\ o + 1 + i - 1 = o + i
      BY <1>2, <1>4
    <3> QED BY <1>3, <1>5, <3>1
  <2> QED BY <1>4, <2>1, <2>2, <2>3
<1> QED BY <1>1, <1>3, <1>5, <1>6 DEF o, p, Data

\* No zero byte.
Plain(f) == \A i \in DOMAIN f : f[i] # NUL

\* fputs writes all of what has no zero byte.
LEMMA UpToNulParts ==
    ASSUME NEW w \in Data
    PROVE  UpToNul(w) \in Data /\ (Plain(w) => UpToNul(w) = w)
<1> DEFINE nuls == {i \in DOMAIN w : w[i] = NUL}
<1>1. CASE nuls = {}
  BY <1>1 DEF UpToNul
<1>2. CASE nuls # {}
  <2>1. nuls \in SUBSET Nat /\ nuls \subseteq 1..Len(w)
    BY DataParts
  <2> DEFINE m == Min(nuls)
  <2>2. m \in nuls
    <3>1. \E i \in nuls : \A j \in nuls : i <= j
      <4> HIDE DEF nuls
      <4> QED BY <1>2, <2>1, LeastNat
    <3> HIDE DEF nuls
    <3> QED BY <3>1 DEF Min
  <2>3. UpToNul(w) = SubSeq(w, 1, m - 1)
    BY <1>2 DEF UpToNul
  <2>4. m \in 1..Len(w)
    BY <2>1, <2>2
  <2>5. ~Plain(w)
    BY <2>2 DEF Plain
  <2> HIDE DEF m
  <2>6. \A i \in 1..(m - 1) : w[i] \in Bytes \cup {NUL}
    BY <2>4, DataParts
  <2>7. SubSeq(w, 1, m - 1) \in Seq(Bytes \cup {NUL})
    BY <2>4, <2>6, SubSeqProperties
  <2> QED BY <2>3, <2>5, <2>7 DEF Data
<1> QED BY <1>1, <1>2

\* What a write at an offset makes of a file: it never gets shorter.
LEMMA WriteAtParts ==
    ASSUME NEW f \in Data, NEW w \in Data, NEW o \in Nat
    PROVE  /\ WriteAt(f, o, w) \in Data
           /\ Len(WriteAt(f, o, w)) = IF w = <<>> \/ o + Len(w) <= Len(f)
                                      THEN Len(f) ELSE o + Len(w)
           /\ \A i \in 1..Len(WriteAt(f, o, w)) :
                 WriteAt(f, o, w)[i] = IF o < i /\ i <= o + Len(w) THEN w[i - o]
                                       ELSE IF i <= Len(f) THEN f[i] ELSE NUL
<1>0. Len(f) \in Nat /\ Len(w) \in Nat
  BY DataParts
<1>1. CASE w = <<>>
  <2>1. WriteAt(f, o, w) = f /\ Len(w) = 0
    BY <1>1 DEF WriteAt
  <2> QED BY <1>0, <1>1, <2>1
<1>2. CASE w # <<>>
  <2> DEFINE m == IF o + Len(w) <= Len(f) THEN Len(f) ELSE o + Len(w)
             e(i) == IF o < i /\ i <= o + Len(w) THEN w[i - o]
                     ELSE IF i <= Len(f) THEN f[i] ELSE NUL
             g == [i \in 1..m |-> e(i)]
  <2>1. Max({Len(f), o + Len(w)}) = m
    BY <1>0 DEF Max
  <2>2. WriteAt(f, o, w) = g
    BY <1>2, <2>1 DEF WriteAt
  <2>3. m \in Nat
    BY <1>0
  <2>4. \A i \in 1..m : e(i) \in Bytes \cup {NUL}
    <3> SUFFICES ASSUME NEW i \in 1..m PROVE e(i) \in Bytes \cup {NUL}
      OBVIOUS
    <3>1. CASE o < i /\ i <= o + Len(w)
      <4>1. i - o \in 1..Len(w)
        BY <1>0, <2>3, <3>1
      <4> QED BY <3>1, <4>1, DataParts
    <3>2. CASE ~(o < i /\ i <= o + Len(w)) /\ i <= Len(f)
      <4>1. i \in 1..Len(f)
        BY <1>0, <2>3, <3>2
      <4> QED BY <3>2, <4>1, DataParts
    <3> QED BY <3>1, <3>2
  <2> HIDE DEF m, e
  <2>5. g \in Seq(Bytes \cup {NUL}) /\ Len(g) = m
    BY <2>3, <2>4
  <2>6. \A i \in 1..Len(g) : g[i] = e(i)
    BY <2>5
  <2> QED BY <1>2, <2>2, <2>5, <2>6 DEF m, e, Data
<1> QED BY <1>1, <1>2

\* The blocks s have been written to the file mine, as far as it is f.
Placed(mine, s, f) ==
    /\ Len(mine) <= Len(f)
    /\ \A j \in DOMAIN s, i \in DOMAIN f :
          s[j].num * B < i /\ i <= (s[j].num + 1) * B
             => i \in DOMAIN mine /\ mine[i] = f[i]

\* A block without zero bytes is written where it belongs.
LEMMA PlacedStore ==
    ASSUME NEW f \in Data, Plain(f), NEW mine \in Data, NEW s \in Seq(BlockSet),
           Placed(mine, s, f), NEW b \in BlockSet, b.num * B <= Len(f),
           b.payload = Piece(f, b.num)
    PROVE  Placed(WriteAt(mine, b.num * B, UpToNul(b.payload)), Append(s, b), f)
<1> DEFINE k == b.num
           w == Piece(f, k)
           o == k * B
<1>1. /\ k \in Nat /\ w \in Data /\ o \in Nat /\ (k + 1) * B = o + B
      /\ Len(f) \in Nat /\ DOMAIN f = 1..Len(f)
  BY PieceParts, DataParts DEF BlockSet
<1>2. PICK e \in o..Len(f) :
         /\ \A i \in Nat : i <= e <=> i <= Len(f) /\ i <= (k + 1) * B
         /\ Len(w) = e - o
         /\ \A i \in 1..(e - o) : w[i] = f[o + i]
  BY <1>1, PieceParts
<1> HIDE DEF w, o
<1>3. /\ \A i \in 1..Len(w) : w[i] = f[o + i] /\ o + i \in DOMAIN f
      /\ DOMAIN w = 1..Len(w) /\ e = o + Len(w) /\ Len(w) \in Nat /\ e \in Nat
  BY <1>1, <1>2, DataParts
<1>4. UpToNul(w) = w
  <2>1. Plain(w)
    BY <1>3 DEF Plain
  <2> QED BY <1>1, <2>1, UpToNulParts
<1> DEFINE g == WriteAt(mine, o, w)
<1>5. /\ g \in Data
      /\ Len(g) = IF w = <<>> \/ o + Len(w) <= Len(mine) THEN Len(mine) ELSE o + Len(w)
      /\ \A i \in 1..Len(g) : g[i] = IF o < i /\ i <= o + Len(w) THEN w[i - o]
                                     ELSE IF i <= Len(mine) THEN mine[i] ELSE NUL
  BY <1>1, WriteAtParts
<1> HIDE DEF g
<1>6. Len(mine) \in Nat /\ DOMAIN mine = 1..Len(mine) /\ DOMAIN g = 1..Len(g)
      /\ Len(g) \in Nat /\ Len(mine) <= Len(f)
  BY <1>5, DataParts DEF Placed
<1>7. Len(g) <= Len(f) /\ Len(mine) <= Len(g)
  BY <1>2, <1>3, <1>5, <1>6
<1>8. ASSUME NEW i \in DOMAIN f, o < i, i <= (k + 1) * B
      PROVE  i \in DOMAIN g /\ g[i] = f[i]
  <2>1. i \in Nat /\ i <= e
    BY <1>1, <1>2, <1>8
  <2>2. i - o \in 1..Len(w) /\ i <= o + Len(w) /\ o + (i - o) = i
    BY <1>1, <1>3, <1>8, <2>1
  <2>3. w # <<>>
    BY <2>2
  <2>4. i \in 1..Len(g)
    <3>1. o + Len(w) <= Len(g)
      <4>1. Len(g) = IF o + Len(w) <= Len(mine) THEN Len(mine) ELSE o + Len(w)
        BY <1>5, <2>3
      <4>2. o + Len(w) \in Nat
        BY <1>1, <1>3
      <4> QED BY <1>6, <4>1, <4>2
    <3> QED BY <1>1, <1>3, <1>6, <1>8, <2>1, <2>2, <3>1
  <2>5. g[i] = w[i - o]
    BY <1>5, <1>8, <2>2, <2>4
  <2>6. w[i - o] = f[o + (i - o)]
    BY <1>3, <2>2
  <2> QED BY <1>6, <2>2, <2>4, <2>5, <2>6
<1>9. ASSUME NEW i \in DOMAIN f, i \in DOMAIN mine, mine[i] = f[i]
      PROVE  i \in DOMAIN g /\ g[i] = f[i]
  <2>1. i \in 1..Len(g) /\ i <= Len(mine) /\ i \in Nat
    BY <1>6, <1>7, <1>9
  <2>2. CASE o < i /\ i <= o + Len(w)
    <3>1. i - o \in 1..Len(w) /\ o + (i - o) = i
      BY <1>1, <1>3, <2>1, <2>2
    <3>2. g[i] = w[i - o]
      BY <1>5, <2>1, <2>2
    <3>3. w[i - o] = f[o + (i - o)]
      BY <1>3, <3>1
    <3> QED BY <1>6, <2>1, <3>1, <3>2, <3>3
  <2>3. CASE ~(o < i /\ i <= o + Len(w))
    BY <1>5, <1>6, <1>9, <2>1, <2>3
  <2> QED BY <2>2, <2>3
<1> DEFINE t == Append(s, b)
<1>10. \A j \in DOMAIN t : t[j] = b \/ (j \in DOMAIN s /\ t[j] = s[j])
  OBVIOUS
<1> HIDE DEF t
<1>11. Placed(g, t, f)
  <2> SUFFICES ASSUME NEW j \in DOMAIN t, NEW i \in DOMAIN f,
                      t[j].num * B < i, i <= (t[j].num + 1) * B
               PROVE  i \in DOMAIN g /\ g[i] = f[i]
    BY <1>7 DEF Placed
  <2>1. CASE t[j] = b
    BY <1>8, <2>1 DEF o
  <2>2. CASE j \in DOMAIN s /\ t[j] = s[j]
    <3>1. i \in DOMAIN mine /\ mine[i] = f[i]
      BY <2>2 DEF Placed
    <3> QED BY <1>9, <3>1
  <2> QED BY <1>10, <2>1, <2>2
<1> QED BY <1>4, <1>11 DEF g, t, w, o

\* When all the blocks of f have been written, the file is f.
LEMMA PlacedAll ==
    ASSUME NEW q, NEW f \in Data, NEW mine \in Data, NEW s \in Seq(BlockSet),
           Numbered(s, Counted(q, f)), Len(s) = Counted(q, f), Placed(mine, s, f)
    PROVE  mine = f
<1> DEFINE n == Counted(q, f)
<1>1. n \in Nat \ {0} /\ Len(f) <= n * B /\ B \in Nat \ {0}
  BY CountedBounds, BlockAssumption
<1> HIDE DEF n
<1>2. \A k \in 0..(n - 1) : \E j \in DOMAIN s : s[j].num = k
  BY <1>1, AllNumbers DEF n
<1>3. ASSUME NEW i \in DOMAIN f
      PROVE  i \in DOMAIN mine /\ mine[i] = f[i]
  <2> DEFINE k == (i - 1) \div B
  <2>1. i \in Nat \ {0} /\ i <= Len(f) /\ Len(f) \in Nat /\ i - 1 \in Nat
    BY DataParts
  <2>2. k \in Nat /\ k * B <= i - 1 /\ i - 1 < k * B + B
    BY <2>1, Quotient
  <2> HIDE DEF k
  <2>3. k * B \in Nat /\ (k + 1) * B = k * B + B /\ n * B \in Nat
    BY <1>1, <2>2
  <2>4. k < n
    <3> SUFFICES ASSUME n <= k PROVE FALSE
      BY <1>1, <2>2
    <3>1. n * B <= k * B
      BY <1>1, <2>2
    <3> QED BY <1>1, <2>1, <2>2, <2>3, <3>1
  <2>5. PICK j \in DOMAIN s : s[j].num = k
    BY <1>1, <1>2, <2>2, <2>4
  <2>6. k * B < i /\ i <= (k + 1) * B
    BY <1>1, <2>1, <2>2, <2>3
  <2> QED BY <2>5, <2>6 DEF Placed
<1>4. Len(mine) = Len(f)
  <2>1. \A i \in 1..Len(f) : i \in 1..Len(mine)
    BY <1>3, DataParts
  <2>2. Len(f) # 0 => Len(f) \in 1..Len(f)
    BY DataParts
  <2> QED BY <2>1, <2>2, DataParts DEF Placed
<1>5. \A i \in 1..Len(mine) : mine[i] = f[i]
  BY <1>3, <1>4, DataParts
<1> QED BY <1>4, <1>5, DataParts, SeqEqual

-----------------------------------------------------------------------------
(* The invariant.                                                          *)

Typed ==
    /\ TypeOK
    /\ got \in [Peers -> Seq(BlockSet)] /\ wire \in [Conns -> Seq(BlockSet)]
    /\ \A p \in Peers : IsFiniteSet(had[p])

\* A content that was served is known for certain: a Python handler reads the file
\* at once, and otherwise the file did not change.
Sure(H, q) == q \in PyPeers \/ Cardinality(H) = 1

\* How far a handler at place is that has sent s, of n blocks.
Stage(place, left, s, n, alive) ==
    \/ place \in {"start", "open"} /\ s = <<>>
    \/ place \in {"read", "send"} /\ Numbered(s, n) /\ Remaining(left, s, n)
    \/ place = "closed" /\ s = <<Refusal>>
    \/ place = "closed" /\ Numbered(s, n) /\ (alive = TRUE => Len(s) = n)

\* The handler of q sends f, or what has the length of f.
Flow(place, j, s, q, f, alive, H) ==
    /\ Stage(place, j.left, s, Counted(q, f), alive)
    /\ place \in {"read", "send"} => Len(j.data) = Len(f)
    /\ Sure(H, q) => /\ f \in H /\ Faithful(s, f)
                     /\ place \in {"read", "send"} => j.data = f

\* s are all the blocks of f, or of what has the length of f.
Whole(s, q, f, H) ==
    /\ Numbered(s, Counted(q, f)) /\ Len(s) = Counted(q, f)
    /\ Sure(H, q) => f \in H /\ Faithful(s, f)

AskOK(p) ==
    /\ asked[p] = None => how[p] = "none" /\ pc[p] \in {"idle", "dead"}
    /\ call[p] \in Conns => /\ asked[p] = conn[call[p]]
                            /\ p \in CPeers => file[p] # Missing
    /\ pc[p] = "reading" /\ got[p] # <<>> => Len(got[p]) # got[p][1].count
    /\ pc[p] \in {"check", "gathered"} => got[p] # <<>> /\ Len(got[p]) = got[p][1].count
    /\ \A i \in DOMAIN got[p] : got[p][i].status = "OK"

StreamOK(p) == call[p] \in Conns =>
    \E f \in Data : Flow(pc[call[p]], job[call[p]], got[p] \o wire[call[p]],
                         conn[call[p]], f, up[conn[call[p]]], had[p])

KeptOK(p) == p \in PyPeers /\ pc[p] \in {"writing", "opened"} =>
    \E f \in Data : Whole(got[p], asked[p], f, had[p])

WrittenOK(p) == p \in CPeers /\ call[p] \in Conns /\ Cardinality(had[p]) = 1 =>
    \A f \in had[p] : Plain(f) /\ Len(before[p]) <= Len(f) => Placed(file[p], got[p], f)

EndOK(p) ==
    /\ p \in CPeers /\ Ended(p, "aborted") => ~Unchanged(p) \/ ~up[asked[p]]
    /\ p \in CPeers /\ Ended(p, "mismatch") /\ Unchanged(p) /\ up[asked[p]] =>
          \E f \in had[p] : Len(f) < Len(before[p]) \/ \E i \in DOMAIN f : f[i] = NUL
    /\ p \in PyPeers /\ Ended(p, "ok") /\ Sure(had[p], asked[p]) => file[p] \in had[p]

ClientOK(p) == AskOK(p) /\ StreamOK(p) /\ KeptOK(p) /\ WrittenOK(p) /\ EndOK(p)

\* What a handler of a C peer has still to send is the end of its numbers, and the
\* file it reads is there and no shorter than it was.
ServeOK(c) == conn[c] \in CPeers /\ pc[c] \in {"read", "send"} =>
    /\ file[conn[c]] # Missing
    /\ Len(job[c].data) <= Len(file[conn[c]])
    /\ \E k \in 0..(Len(job[c].data) \div B) :
          job[c].left = k..(Len(job[c].data) \div B)

StreamInv ==
    /\ Typed
    /\ \A p \in Peers : ClientOK(p)
    /\ \A c \in Conns : ServeOK(c)

-----------------------------------------------------------------------------
(* What nobody disturbs.                                                   *)

\* What is known for certain afterwards was known before.
LEMMA SureGrows ==
    ASSUME NEW H, NEW K, H \subseteq K, IsFiniteSet(K), H # {}, NEW q, Sure(K, q)
    PROVE  Sure(H, q) /\ (q \in PyPeers \/ H = K)
<1>1. CASE q \in PyPeers
  BY <1>1 DEF Sure
<1>2. CASE q \notin PyPeers
  <2>1. PICK f : K = {f}
    BY <1>2, FS_Singleton DEF Sure
  <2>2. H = K
    BY <2>1
  <2> QED BY <2>2
<1> QED BY <1>1, <1>2

\* A stream stays what it is when the served file changes, or its peer dies.
LEMMA FlowGrows ==
    ASSUME NEW H, NEW K, H \subseteq K, IsFiniteSet(K), H # {},
           NEW place, NEW j, NEW s, NEW q, NEW f, NEW alive, NEW still,
           still = TRUE => alive = TRUE, Flow(place, j, s, q, f, alive, H)
    PROVE  Flow(place, j, s, q, f, still, K)
<1>1. Sure(K, q) => Sure(H, q)
  BY SureGrows
<1> QED BY <1>1 DEF Flow, Stage

\* What a client knows of itself is left alone ...
LEMMA OwnFrame ==
    ASSUME Typed, Typed', NEW r \in Peers, ClientOK(r),
           call[r] \in Conns => had[r] # {},
           call'[r] = call[r], pc'[r] = pc[r], got'[r] = got[r],
           asked'[r] = asked[r], before'[r] = before[r], how'[r] = how[r],
           file'[r] = file[r], had'[r] = had[r] \/ (call[r] \in Conns /\ had[r] \subseteq had'[r]),
           call[r] \in Conns => conn'[call[r]] = conn[call[r]] /\ pc[r] \notin {"idle", "writing", "opened"},
           \A q \in Peers : up'[q] = TRUE => up[q] = TRUE
    PROVE  AskOK(r)' /\ KeptOK(r)' /\ WrittenOK(r)' /\ EndOK(r)'
<1>1. AskOK(r)'
  BY DEF ClientOK, AskOK
<1>2. KeptOK(r)'
  BY DEF ClientOK, KeptOK
<1>3. WrittenOK(r)'
  <2> SUFFICES ASSUME r \in CPeers, call[r] \in Conns, Cardinality(had'[r]) = 1
               PROVE  had'[r] = had[r]
    BY DEF ClientOK, WrittenOK
  <2>1. r \notin PyPeers
    BY PeersAssumption
  <2>2. Sure(had'[r], r)
    BY DEF Sure
  <2>3. IsFiniteSet(had'[r])
    BY DEF Typed
  <2> QED BY <2>1, <2>2, <2>3, SureGrows
<1>4. EndOK(r)'
  <2>1. CASE call[r] \in Conns
    BY <2>1 DEF EndOK, Ended
  <2>2. CASE call[r] \notin Conns
    <3>1. had'[r] = had[r]
      BY <2>2
    <3>2. Ended(r, "aborted") \/ Ended(r, "mismatch") => asked[r] \in Peers
      BY DEF Typed, TypeOK, ClientOK, AskOK, Ended
    <3>3. asked[r] \in Peers /\ ~up[asked[r]] => ~up'[asked[r]]
      <4>1. up \in [Peers -> BOOLEAN] /\ up' \in [Peers -> BOOLEAN]
        BY DEF Typed, TypeOK
      <4> QED BY <4>1
    <3> QED BY <3>1, <3>2, <3>3 DEF ClientOK, EndOK, Ended, Unchanged
  <2> QED BY <2>1, <2>2
<1> QED BY <1>1, <1>2, <1>3, <1>4

\* ... and so are its connection and its handler.
LEMMA StreamFrame ==
    ASSUME Typed, Typed', NEW r \in Peers, StreamOK(r),
           call'[r] = call[r], got'[r] = got[r],
           call[r] \in Conns =>
              /\ had[r] # {} /\ had[r] \subseteq had'[r]
              /\ conn'[call[r]] = conn[call[r]] /\ conn[call[r]] \in Peers
              /\ wire'[call[r]] = wire[call[r]]
              /\ pc'[call[r]] = pc[call[r]] /\ job'[call[r]] = job[call[r]],
           \A q \in Peers : up'[q] = TRUE => up[q] = TRUE
    PROVE  StreamOK(r)'
<1> DEFINE c == call[r]
<1> SUFFICES ASSUME c \in Conns
             PROVE  \E f \in Data : Flow(pc'[c], job'[c], got'[r] \o wire'[c],
                                        conn'[c], f, up'[conn'[c]], had'[r])
  BY DEF StreamOK
<1> HIDE DEF c
<1>1. PICK f \in Data : Flow(pc[c], job[c], got[r] \o wire[c], conn[c], f, up[conn[c]], had[r])
  BY DEF StreamOK, c
<1>2. Flow(pc[c], job[c], got[r] \o wire[c], conn[c], f, up'[conn[c]], had'[r])
  <2> DEFINE alive == up[conn[c]]
             still == up'[conn[c]]
             H == had[r]
             K == had'[r]
  <2>1. IsFiniteSet(K) /\ H # {} /\ H \subseteq K /\ (still = TRUE => alive = TRUE)
    BY DEF Typed, c
  <2> HIDE DEF alive, still, H, K
  <2>2. \A place, j, s, q, e : Flow(place, j, s, q, e, alive, H)
                            => Flow(place, j, s, q, e, still, K)
    BY <2>1, FlowGrows
  <2> QED BY <1>1, <2>2 DEF alive, still, H, K
<1> QED BY <1>2 DEF c

\* A handler at work has its file as long as that grows.
LEMMA ServeFrame ==
    ASSUME NEW c \in Conns, ServeOK(c),
           conn'[c] \in CPeers /\ pc'[c] \in {"read", "send"} =>
              /\ conn'[c] = conn[c] /\ pc'[c] = pc[c] /\ job'[c] = job[c]
              /\ file[conn[c]] # Missing => /\ file'[conn[c]] \in Data /\ file[conn[c]] \in Data
                                           /\ Len(file[conn[c]]) <= Len(file'[conn[c]]),
           Typed
    PROVE  ServeOK(c)'
<1> SUFFICES ASSUME conn'[c] \in CPeers, pc'[c] \in {"read", "send"}
             PROVE  /\ file'[conn'[c]] # Missing
                    /\ Len(job'[c].data) <= Len(file'[conn'[c]])
                    /\ \E k \in 0..(Len(job'[c].data) \div B) :
                          job'[c].left = k..(Len(job'[c].data) \div B)
  BY DEF ServeOK
<1>1. /\ conn'[c] = conn[c] /\ pc'[c] = pc[c] /\ job'[c] = job[c]
      /\ file[conn[c]] # Missing
      /\ Len(job[c].data) <= Len(file[conn[c]])
      /\ \E k \in 0..(Len(job[c].data) \div B) :
            job[c].left = k..(Len(job[c].data) \div B)
  BY DEF ServeOK
<1>2. /\ file'[conn[c]] \in Data /\ file[conn[c]] \in Data
      /\ Len(file[conn[c]]) <= Len(file'[conn[c]])
  BY <1>1
<1>3. job[c].data \in Data
  BY DEF Typed, TypeOK
<1>4. Len(job[c].data) <= Len(file'[conn[c]])
  <2>1. Len(job[c].data) \in Nat /\ Len(file[conn[c]]) \in Nat /\ Len(file'[conn[c]]) \in Nat
    BY <1>2, <1>3, DataParts
  <2> QED BY <1>1, <1>2, <2>1
<1>5. file'[conn[c]] # Missing
  BY <1>2, MissingAssumption
<1> QED BY <1>1, <1>4, <1>5

\* The first of what was sent is the first of what was received.
LEMMA FirstOf ==
    ASSUME NEW S, NEW g \in Seq(S), NEW w \in Seq(S), g # <<>>
    PROVE  1 \in DOMAIN (g \o w) /\ (g \o w)[1] = g[1] /\ g \o w # <<>>
OBVIOUS

\* What a client has received that reads no more.
LEMMA Received ==
    ASSUME Typed, CopyInv, NEW p \in Peers, ClientOK(p), call[p] \in Conns,
           pc[p] \in {"check", "gathered"}
    PROVE  /\ \E f \in Data : Whole(got[p], asked[p], f, had[p])
           /\ asked[p] \in Peers /\ got[p] # <<>>
<1> DEFINE c == call[p]
           q == conn[c]
<1>1. q = asked[p] /\ q \in Peers
  BY DEF ClientOK, AskOK, CopyInv, Shape, Wired
<1>2. got[p] \in Seq(BlockSet) /\ wire[c] \in Seq(BlockSet) /\ IsFiniteSet(had[p])
  BY DEF Typed
<1>3. /\ got[p] # <<>> /\ Len(got[p]) = got[p][1].count
      /\ \A i \in DOMAIN got[p] : got[p][i].status = "OK"
  BY DEF ClientOK, AskOK
<1>4. PICK f \in Data : Flow(pc[c], job[c], got[p] \o wire[c], q, f, up[q], had[p])
  BY DEF ClientOK, StreamOK
<1> HIDE DEF c, q
<1> DEFINE s == got[p] \o wire[c]
           n == Counted(q, f)
<1>5. 1 \in DOMAIN got[p] /\ Len(got[p]) \in Nat \ {0}
  BY <1>2, <1>3
<1>6. /\ 1 \in DOMAIN s /\ s[1] = got[p][1] /\ s # <<>>
  BY <1>2, <1>3, FirstOf
<1>7. s # <<Refusal>>
  <2>1. s[1].status = "OK"
    BY <1>3, <1>5, <1>6
  <2>2. <<Refusal>>[1].status # "OK"
    BY DEF Refusal
  <2> HIDE DEF s
  <2> QED BY <2>1, <2>2
<1>8. Numbered(s, n)
  BY <1>4, <1>6, <1>7 DEF Flow, Stage
<1>9. Sure(had[p], q) => f \in had[p] /\ Faithful(s, f)
  BY <1>4 DEF Flow
<1>10. Numbered(got[p], n) /\ (Sure(had[p], q) => f \in had[p] /\ Faithful(got[p], f))
  BY <1>2, <1>8, <1>9, FirstPart
<1>11. Len(got[p]) = n
  BY <1>3, <1>5, <1>10 DEF Numbered
<1>12. Whole(got[p], q, f, had[p])
  BY <1>10, <1>11 DEF Whole
<1> QED BY <1>1, <1>3, <1>12

\* A client whose state, connection and handler a step leaves alone.
LEMMA ClientFrame ==
    ASSUME CopyInv, StreamInv, Typed', NEW r \in Peers,
           call'[r] = call[r], pc'[r] = pc[r], got'[r] = got[r],
           asked'[r] = asked[r], before'[r] = before[r], how'[r] = how[r],
           file'[r] = file[r],
           had'[r] = had[r] \/ (call[r] \in Conns /\ had[r] \subseteq had'[r]),
           call[r] \in Conns =>
              /\ conn'[call[r]] = conn[call[r]] /\ wire'[call[r]] = wire[call[r]]
              /\ pc'[call[r]] = pc[call[r]] /\ job'[call[r]] = job[call[r]],
           \A q \in Peers : up'[q] = TRUE => up[q] = TRUE
    PROVE  ClientOK(r)'
<1>1. call[r] \in Conns =>
         had[r] # {} /\ pc[r] \notin {"idle", "writing", "opened"}
         /\ conn[call[r]] \in Peers
  BY DEF CopyInv, Known, Wired, Shape
<1>2. Typed /\ ClientOK(r) /\ StreamOK(r)
  BY DEF StreamInv, ClientOK
<1>3. AskOK(r)' /\ KeptOK(r)' /\ WrittenOK(r)' /\ EndOK(r)'
  BY <1>1, <1>2, OwnFrame
<1>4. had[r] \subseteq had'[r]
  OBVIOUS
<1>5. StreamOK(r)'
  BY <1>1, <1>2, <1>4, StreamFrame
<1> QED BY <1>3, <1>5 DEF ClientOK

\* The same for all who are served, by the one who keeps the file.
LEMMA FileKept ==
    ASSUME Typed, CopyInv, NEW c \in Conns, conn[c] \in CPeers, file[conn[c]] # Missing, file' = file
    PROVE  /\ file'[conn[c]] \in Data /\ file[conn[c]] \in Data
           /\ Len(file[conn[c]]) <= Len(file'[conn[c]])
<1>1. file[conn[c]] \in Data
  BY Apart DEF Typed, TypeOK
<1> QED BY <1>1, DataParts

\* A client closes its connection, and says why.
LEMMA HangUpStream ==
    ASSUME CopyInv, StreamInv, Shape', NEW p \in Peers,
           pc[p] \in {"reading", "check", "gathered"},
           NEW next \in {"idle", "dead", "writing"}, HangUp(p, next),
           UNCHANGED <<up, file, had, job, asked, tries, before>>, NEW e \in Ends,
           \/ /\ how' = [how EXCEPT ![p] = e] /\ got' = [got EXCEPT ![p] = <<>>]
              /\ next # "writing"
           \/ /\ p \in PyPeers /\ pc[p] = "gathered" /\ next = "writing"
              /\ UNCHANGED <<how, got>>,
           next = "idle" =>
              /\ p \in CPeers /\ e = "aborted" => ~Unchanged(p) \/ ~up[asked[p]]
              /\ p \in CPeers /\ e = "mismatch" /\ Unchanged(p) /\ up[asked[p]] =>
                    \E f \in had[p] : Len(f) < Len(before[p]) \/ \E i \in DOMAIN f : f[i] = NUL
              /\ p \in PyPeers => e # "ok"
    PROVE  StreamInv'
<1> USE Apart
<1> DEFINE c == call[p]
<1>1. c \in Conns /\ \A r \in Peers \ {p} : call[r] # c
  BY DEF CopyInv, Wired
<1>2. /\ wire' = [wire EXCEPT ![c] = <<>>]
      /\ \A r \in Peers \ {p} : pc'[r] = pc[r] /\ call'[r] = call[r]
      /\ pc'[p] = next /\ call'[p] = None
      /\ \A d \in Conns \ {c} : pc'[d] = pc[d] /\ conn'[d] = conn[d] /\ wire'[d] = wire[d]
      /\ pc'[c] = "idle" \/ (pc'[c] = pc[c] /\ conn'[c] = conn[c])
  BY <1>1 DEF HangUp, CopyInv, Shape, Maps
<1> HIDE DEF c
<1>3. \A r \in Peers \ {p} : got'[r] = got[r] /\ how'[r] = how[r]
  BY DEF CopyInv, Maps
<1>4. Typed'
  <2>1. Typed /\ TypeOK
    BY DEF StreamInv, Typed
  <2>2. wire' \in [Conns -> Seq(BlockSet)]
    <3>1. <<>> \in Seq(BlockSet)
      OBVIOUS
    <3> QED BY <1>1, <1>2, <2>1, <3>1 DEF Typed
  <2>3. got' \in [Peers -> Seq(BlockSet)] /\ how' \in [Peers -> Ends]
    <3>1. <<>> \in Seq(BlockSet)
      OBVIOUS
    <3>2. got \in [Peers -> Seq(BlockSet)] /\ how \in [Peers -> Ends]
      BY <2>1 DEF Typed, TypeOK
    <3>3. CASE UNCHANGED <<how, got>>
      BY <3>2, <3>3
    <3>4. CASE how' = [how EXCEPT ![p] = e] /\ got' = [got EXCEPT ![p] = <<>>]
      BY <3>1, <3>2, <3>4
    <3> QED BY <3>3, <3>4
  <2> QED BY <2>1, <2>2, <2>3 DEF Typed, TypeOK, Shape
<1>5. ASSUME NEW r \in Peers \ {p} PROVE ClientOK(r)'
  <2>1. call[r] # c
    BY <1>1
  <2> QED BY <1>2, <1>3, <1>4, <2>1, ClientFrame
<1>6. ClientOK(p)'
  <2>1. ClientOK(p) /\ Typed
    BY DEF StreamInv
  <2>2. asked[p] # None
    BY <2>1 DEF ClientOK, AskOK
  <2>3. StreamOK(p)' /\ WrittenOK(p)'
    BY <1>2 DEF StreamOK, WrittenOK
  <2>4. CASE /\ how' = [how EXCEPT ![p] = e] /\ got' = [got EXCEPT ![p] = <<>>]
             /\ next # "writing"
    <3>1. how'[p] = e /\ got'[p] = <<>>
      BY <2>4 DEF CopyInv, Maps
    <3>2. AskOK(p)' /\ KeptOK(p)'
      BY <1>2, <2>2, <2>4, <3>1 DEF AskOK, KeptOK
    <3>3. EndOK(p)'
      BY <1>2, <3>1 DEF EndOK, Ended, Unchanged
    <3> QED BY <2>3, <3>2, <3>3 DEF ClientOK
  <2>5. CASE /\ p \in PyPeers /\ pc[p] = "gathered" /\ next = "writing"
             /\ UNCHANGED <<how, got>>
    <3>1. \E f \in Data : Whole(got[p], asked[p], f, had[p])
      BY <1>1, <2>1, <2>5, Received DEF c
    <3>2. KeptOK(p)'
      BY <2>5, <3>1 DEF KeptOK
    <3>3. AskOK(p)' /\ EndOK(p)'
      BY <1>2, <2>1, <2>2, <2>5 DEF ClientOK, AskOK, EndOK, Ended
    <3> QED BY <2>3, <3>2, <3>3 DEF ClientOK
  <2> QED BY <2>4, <2>5
<1>7. ASSUME NEW d \in Conns PROVE ServeOK(d)'
  <2>1. ServeOK(d) /\ Typed
    BY DEF StreamInv
  <2>2. conn'[d] \in CPeers /\ pc'[d] \in {"read", "send"} =>
              /\ conn'[d] = conn[d] /\ pc'[d] = pc[d] /\ job'[d] = job[d]
    BY <1>2
  <2> QED BY <2>1, <2>2, FileKept, ServeFrame
<1> QED BY <1>4, <1>5, <1>6, <1>7 DEF StreamInv

\* A file that is saved stays data, and is known to those who are asking for it.
LEMMA SaveStream ==
    ASSUME Typed, Shape, NEW p \in Peers, NEW f \in Data, SaveAs(p, f)
    PROVE  /\ file' \in [Peers -> Data \cup {Missing}]
           /\ file'[p] = f /\ \A r \in Peers \ {p} : file'[r] = file[r]
           /\ had' \in [Peers -> SUBSET Data]
           /\ \A r \in Peers : IsFiniteSet(had'[r])
           /\ \A r \in Peers : had'[r] = had[r] \/ (call[r] \in Conns /\ had[r] \subseteq had'[r])
<1>1. /\ file' = [file EXCEPT ![p] = f]
      /\ had' = [r \in Peers |-> IF call[r] # None /\ conn[call[r]] = p
                                 THEN had[r] \cup {Contents(p)'} ELSE had[r]]
  BY DEF SaveAs
<1>2. file \in [Peers -> Data \cup {Missing}] /\ had \in [Peers -> SUBSET Data]
  BY DEF Typed, TypeOK
<1>3. file'[p] = f /\ Contents(p)' = f
  BY <1>1, <1>2, MissingAssumption DEF Contents
<1>4. ASSUME NEW r \in Peers
      PROVE  /\ IsFiniteSet(had'[r]) /\ had'[r] \in SUBSET Data
             /\ had'[r] = had[r] \/ (call[r] \in Conns /\ had[r] \subseteq had'[r])
  <2>1. IsFiniteSet(had[r]) /\ IsFiniteSet(had[r] \cup {f})
    BY FS_AddElement DEF Typed
  <2>2. had'[r] = IF call[r] # None /\ conn[call[r]] = p THEN had[r] \cup {f} ELSE had[r]
    BY <1>1, <1>3
  <2>3. call[r] # None => call[r] \in Conns
    BY DEF Shape
  <2> QED BY <1>2, <2>1, <2>2, <2>3
<1>5. had' \in [Peers -> SUBSET Data]
  <2>1. had' = [r \in Peers |-> had'[r]]
    BY <1>1
  <2> QED BY <1>4, <2>1
<1> QED BY <1>1, <1>2, <1>3, <1>4, <1>5

\* Where there is a block that is fine, nothing was refused.
LEMMA NotRefused ==
    ASSUME NEW g \in Seq(BlockSet), NEW w \in Seq(BlockSet), w # <<>>,
           Head(w).status = "OK", \A i \in DOMAIN g : g[i].status = "OK"
    PROVE  g \o w # <<>> /\ g \o w # <<Refusal>>
<1>1. g \o w # <<>>
  BY ConcatEqualIffEmpty, EmptySeq
<1>2. (g \o w)[1].status = "OK"
  <2>1. CASE g = <<>>
    BY <2>1, ConcatEmptySeq
  <2>2. CASE g # <<>>
    BY <2>2, FirstOf
  <2> QED BY <2>1, <2>2
<1>3. <<Refusal>>[1].status # "OK"
  BY DEF Refusal
<1> QED BY <1>1, <1>2, <1>3

\* No block begins behind the end of the file.
LEMMA NumBound ==
    ASSUME NEW q, NEW f \in Data, NEW k \in 0..(Counted(q, f) - 1)
    PROVE  k \in Nat /\ k * B <= Len(f)
<1> DEFINE n == Counted(q, f)
<1>1. n \in Nat \ {0} /\ (n - 1) * B <= Len(f) /\ B \in Nat \ {0} /\ Len(f) \in Nat
  BY CountedBounds, BlockAssumption, DataParts
<1>2. k \in Nat /\ k <= n - 1
  BY <1>1
<1> HIDE DEF n
<1>3. k * B <= (n - 1) * B /\ k * B \in Nat /\ (n - 1) * B \in Nat
  <2>1. n - 1 \in Nat
    BY <1>1
  <2> QED BY <1>1, <1>2, <2>1
<1> QED BY <1>1, <1>2, <1>3

\* A block that was on its way is kept, and written by a C client.
LEMMA StoreStream ==
    ASSUME CopyInv, StreamInv, Shape', NEW p \in Peers, Arrived(p),
           NextBlock(p).status = "OK", Keep(p), NEW done \in {"check", "gathered"},
           pc' = [pc EXCEPT ![p] = IF Len(got'[p]) = got'[p][1].count
                                   THEN done ELSE "reading"],
           \/ /\ p \in CPeers
              /\ SaveAs(p, WriteAt(file[p], NextBlock(p).num * B,
                                   UpToNul(NextBlock(p).payload)))
           \/ p \in PyPeers /\ UNCHANGED <<file, had>>,
           UNCHANGED <<up, call, conn, how, job, asked, tries, before>>
    PROVE  StreamInv'
<1> USE Apart
<1> DEFINE c == call[p]
           b == Head(wire[c])
           q == conn[c]
           g == WriteAt(file[p], b.num * B, UpToNul(b.payload))
<1>0. Typed /\ TypeOK /\ ClientOK(p)
  BY DEF StreamInv, Typed
<1>1. /\ c \in Conns /\ pc[p] = "reading" /\ wire[c] # <<>> /\ NextBlock(p) = b
      /\ \A r \in Peers \ {p} : call[r] # c
  BY DEF Arrived, NextBlock, CopyInv, Wired
<1>2. /\ wire[c] \in Seq(BlockSet) /\ got[p] \in Seq(BlockSet)
      /\ b \in BlockSet /\ Tail(wire[c]) \in Seq(BlockSet) /\ b.status = "OK"
  <2>1. wire[c] \in Seq(BlockSet) /\ got[p] \in Seq(BlockSet)
    BY <1>0, <1>1 DEF Typed
  <2> QED BY <1>1, <2>1, HeadTailProperties
<1>3. /\ wire' = [wire EXCEPT ![c] = Tail(wire[c])]
      /\ got' = [got EXCEPT ![p] = Append(got[p], b)]
  BY <1>1 DEF Keep
<1>4. /\ wire'[c] = Tail(wire[c]) /\ \A d \in Conns \ {c} : wire'[d] = wire[d]
      /\ got'[p] = Append(got[p], b) /\ \A r \in Peers \ {p} : got'[r] = got[r]
  BY <1>1, <1>3 DEF CopyInv, Maps
<1>5. /\ pc'[p] = IF Len(got'[p]) = got'[p][1].count THEN done ELSE "reading"
      /\ \A t \in Threads \ {p} : pc'[t] = pc[t]
  BY DEF CopyInv, Shape
<1> HIDE DEF c, b
<1>6. b.num \in Nat /\ b.payload \in Data /\ b.num * B \in Nat
  BY <1>2, BlockAssumption DEF BlockSet
<1>7. p \in CPeers => /\ file[p] \in Data /\ g \in Data /\ SaveAs(p, g)
                      /\ Len(file[p]) <= Len(g)
  <2> SUFFICES ASSUME p \in CPeers
               PROVE  /\ file[p] \in Data /\ g \in Data /\ SaveAs(p, g)
                      /\ Len(file[p]) <= Len(g)
    OBVIOUS
  <2>1. file[p] \in Data
    BY <1>0, <1>1 DEF TypeOK, ClientOK, AskOK, c
  <2>2. UpToNul(b.payload) \in Data
    BY <1>6, UpToNulParts
  <2>3. /\ g \in Data
        /\ Len(g) = IF UpToNul(b.payload) = <<>>
                       \/ b.num * B + Len(UpToNul(b.payload)) <= Len(file[p])
                    THEN Len(file[p]) ELSE b.num * B + Len(UpToNul(b.payload))
    BY <1>6, <2>1, <2>2, WriteAtParts
  <2>4. Len(file[p]) \in Nat /\ Len(UpToNul(b.payload)) \in Nat
    BY <2>1, <2>2, DataParts
  <2>5. SaveAs(p, g)
    BY <1>1
  <2> HIDE DEF g
  <2>6. \A l, m, o \in Nat : \A x \in BOOLEAN :
           m = (IF x \/ o <= l THEN l ELSE o) => l <= m
    OBVIOUS
  <2>7. Len(file[p]) <= Len(g)
    <3>1. CASE UpToNul(b.payload) = <<>>
      BY <2>3, <2>4, <3>1
    <3>2. CASE UpToNul(b.payload) # <<>>
      <4> DEFINE o == b.num * B + Len(UpToNul(b.payload))
      <4>1. o \in Nat
        BY <1>6, <2>4
      <4>2. Len(g) = IF o <= Len(file[p]) THEN Len(file[p]) ELSE o
        BY <2>3, <3>2
      <4> HIDE DEF o
      <4> QED BY <2>4, <4>1, <4>2
    <3> QED BY <3>1, <3>2
  <2> QED BY <2>1, <2>3, <2>5, <2>7
<1> HIDE DEF g
<1>8. /\ file' \in [Peers -> Data \cup {Missing}]
      /\ \A r \in Peers \ {p} : file'[r] = file[r]
      /\ p \in CPeers => file'[p] = g
      /\ p \notin CPeers => file'[p] = file[p]
      /\ had' \in [Peers -> SUBSET Data]
      /\ \A r \in Peers : IsFiniteSet(had'[r])
      /\ \A r \in Peers : had'[r] = had[r] \/ (call[r] \in Conns /\ had[r] \subseteq had'[r])
  <2>1. CASE p \in CPeers
    BY <1>0, <1>7, <2>1, SaveStream DEF CopyInv
  <2>2. CASE p \in PyPeers
    BY <1>0, <2>2 DEF Typed, TypeOK
  <2> QED BY <2>1, <2>2 DEF Peers
<1>9. Typed'
  <2>1. wire' \in [Conns -> Seq(BlockSet)] /\ got' \in [Peers -> Seq(BlockSet)]
    <3>1. Append(got[p], b) \in Seq(BlockSet)
      BY <1>2, AppendProperties
    <3> QED BY <1>0, <1>1, <1>2, <1>3, <3>1 DEF Typed
  <2> QED BY <1>0, <1>8, <2>1 DEF Typed, TypeOK, Shape
<1>10. ASSUME NEW r \in Peers \ {p} PROVE ClientOK(r)'
  <2>1. call[r] # c
    BY <1>1
  <2> QED BY <1>4, <1>5, <1>8, <1>9, <2>1, ClientFrame
<1>11. /\ got'[p] \o wire'[c] = got[p] \o wire[c]
       /\ got'[p] # <<>> /\ \A i \in DOMAIN got'[p] : got'[p][i].status = "OK"
  <2>1. Append(got[p], b) \o Tail(wire[c]) = got[p] \o wire[c]
    BY <1>1, <1>2, ConcatMoves DEF b
  <2>2. \A i \in DOMAIN Append(got[p], b) :
           Append(got[p], b)[i] = b \/ (i \in DOMAIN got[p] /\ Append(got[p], b)[i] = got[p][i])
    BY <1>2
  <2>3. Append(got[p], b) # <<>>
    BY <1>2, AppendProperties
  <2>4. \A i \in DOMAIN got[p] : got[p][i].status = "OK"
    BY <1>0 DEF ClientOK, AskOK
  <2>5. \A i \in DOMAIN Append(got[p], b) : Append(got[p], b)[i].status = "OK"
    BY <1>2, <2>2, <2>4
  <2> QED BY <1>4, <2>1, <2>3, <2>5
<1>12. AskOK(p)'
  <2>1. p \in CPeers => file'[p] # Missing
    BY <1>7, <1>8, MissingAssumption
  <2>2. asked[p] # None /\ asked[p] = conn[c]
    BY <1>0, <1>1 DEF ClientOK, AskOK, c
  <2> QED BY <1>5, <1>11, <2>1, <2>2 DEF AskOK, c
<1>13. q \in Peers /\ Contents(q) \in had[p]
  BY <1>1 DEF c, CopyInv, Known, Wired, Shape
<1>14. PICK f \in Data : Flow(pc[c], job[c], got[p] \o wire[c], q, f, up[q], had[p])
  BY <1>0, <1>1 DEF c, ClientOK, StreamOK
<1>15. StreamOK(p)'
  <2>1. \A place, j, s, e, alive : Flow(place, j, s, q, e, alive, had[p])
                                => Flow(place, j, s, q, e, alive, had'[p])
    <3>1. IsFiniteSet(had'[p]) /\ had[p] # {} /\ had[p] \subseteq had'[p]
      BY <1>8, <1>13
    <3> DEFINE H == had[p]
               K == had'[p]
    <3> HIDE DEF H, K, q
    <3>2. \A place, j, s, e, alive : Flow(place, j, s, q, e, alive, H)
                                  => Flow(place, j, s, q, e, alive, K)
      BY <3>1, FlowGrows DEF H, K
    <3> QED BY <3>2 DEF H, K
  <2>2. Flow(pc[c], job[c], got[p] \o wire[c], q, f, up[q], had'[p])
    BY <1>14, <2>1
  <2>3. pc'[c] = pc[c]
    BY <1>1, <1>5
  <2> QED BY <1>11, <2>2, <2>3 DEF StreamOK, c
<1>16. WrittenOK(p)'
  <2> SUFFICES ASSUME p \in CPeers, Cardinality(had'[p]) = 1, NEW e \in had'[p],
                      Plain(e), Len(before[p]) <= Len(e)
               PROVE  Placed(g, Append(got[p], b), e)
    BY <1>4, <1>8 DEF WrittenOK
  <2>1. Sure(had[p], q) /\ had'[p] = had[p]
    <3>1. CASE had'[p] = had[p]
      BY <3>1 DEF Sure
    <3>2. CASE had'[p] # had[p]
      <4>1. \E x : had'[p] = {x}
        BY <1>8, FS_Singleton
      <4> QED BY <1>8, <1>13, <3>2, <4>1
    <3> QED BY <3>1, <3>2
  <2>2. f = e
    <3>1. \E x : had'[p] = {x}
      BY <1>8, FS_Singleton
    <3> QED BY <1>14, <2>1, <3>1 DEF Flow
  <2>3. Numbered(got[p] \o wire[c], Counted(q, f)) /\ Faithful(got[p] \o wire[c], f)
    <3>1. Faithful(got[p] \o wire[c], f)
      BY <1>14, <2>1 DEF Flow
    <3>2. got[p] \o wire[c] # <<>> /\ got[p] \o wire[c] # <<Refusal>>
      BY <1>0, <1>1, <1>2, NotRefused DEF b, ClientOK, AskOK
    <3> QED BY <1>14, <3>1, <3>2 DEF Flow, Stage
  <2>4. b.num \in 0..(Counted(q, f) - 1) /\ b.payload = Piece(f, b.num)
    BY <1>1, <1>2, <2>3, FirstPart DEF b
  <2>5. b.num * B <= Len(f)
    BY <2>4, NumBound
  <2>6. Placed(file[p], got[p], f)
    BY <1>0, <1>1, <2>1, <2>2 DEF ClientOK, WrittenOK, c
  <2> QED BY <1>2, <1>7, <2>2, <2>4, <2>5, <2>6, PlacedStore DEF g
<1>17. KeptOK(p)' /\ EndOK(p)'
  BY <1>5 DEF KeptOK, EndOK, Ended
<1>18. ASSUME NEW d \in Conns PROVE ServeOK(d)'
  <2>1. ServeOK(d)
    BY DEF StreamInv
  <2>2. pc'[d] = pc[d] /\ conn'[d] = conn[d] /\ job'[d] = job[d]
    BY <1>5
  <2>3. conn[d] \in CPeers /\ file[conn[d]] # Missing =>
           /\ file'[conn[d]] \in Data /\ file[conn[d]] \in Data
           /\ Len(file[conn[d]]) <= Len(file'[conn[d]])
    <3> SUFFICES ASSUME conn[d] \in CPeers, file[conn[d]] # Missing
                 PROVE  /\ file'[conn[d]] \in Data /\ file[conn[d]] \in Data
                        /\ Len(file[conn[d]]) <= Len(file'[conn[d]])
      OBVIOUS
    <3>1. CASE conn[d] = p
      BY <1>7, <1>8, <3>1
    <3>2. CASE conn[d] # p
      <4>1. file'[conn[d]] = file[conn[d]] /\ file[conn[d]] \in Data
        BY <1>0, <1>8, <3>2 DEF TypeOK
      <4> QED BY <4>1, DataParts
    <3> QED BY <3>1, <3>2
  <2> QED BY <1>0, <2>1, <2>2, <2>3, ServeFrame
<1>19. ClientOK(p)'
  BY <1>12, <1>15, <1>16, <1>17 DEF ClientOK
<1> QED BY <1>9, <1>10, <1>18, <1>19 DEF StreamInv

\* Nothing sent is any number of blocks; a refusal is no block.
LEMMA Nothing ==
    /\ Refusal \in BlockSet /\ <<Refusal>> \in Seq(BlockSet) /\ <<>> \in Seq(BlockSet)
    /\ \A n, f : Numbered(<<>>, n) /\ Faithful(<<>>, f) /\ Faithful(<<Refusal>>, f)
<1>1. <<>> \in Data
  BY DEF Data
<1>2. Refusal \in BlockSet
  BY <1>1 DEF Refusal, BlockSet
<1>3. \A n, f : Numbered(<<>>, n) /\ Faithful(<<>>, f)
  BY DEF Numbered, Faithful
<1>4. ASSUME NEW f PROVE Faithful(<<Refusal>>, f)
  <2>1. Refusal.status # "OK"
    BY DEF Refusal
  <2>2. \A i \in DOMAIN <<Refusal>> : <<Refusal>>[i] = Refusal
    OBVIOUS
  <2> QED BY <2>1, <2>2 DEF Faithful
<1> QED BY <1>2, <1>3, <1>4

\* The process that sends dies, perhaps having refused.
LEMMA FlowCut ==
    ASSUME NEW place, NEW j, NEW g \in Seq(BlockSet), NEW w \in Seq(BlockSet),
           NEW q, NEW f, NEW alive, NEW H, Flow(place, j, g \o w, q, f, alive, H),
           NEW v, v = w \/ (v = Append(w, Refusal) /\ place = "start"), NEW k
    PROVE  Flow("closed", k, g \o v, q, f, FALSE, H)
<1>1. CASE place \in {"start", "open"} /\ g \o w = <<>>
  <2>1. g = <<>> /\ w = <<>>
    BY <1>1, ConcatEqualIffEmpty
  <2>2. v = <<>> \/ v = <<Refusal>>
    BY <2>1
  <2>3. g \o v = <<>> \/ g \o v = <<Refusal>>
    BY <2>1, <2>2, Nothing, ConcatEmptySeq
  <2>4. Sure(H, q) => f \in H
    BY DEF Flow
  <2> QED BY <2>3, <2>4, Nothing DEF Flow, Stage
<1>2. CASE ~(place \in {"start", "open"} /\ g \o w = <<>>)
  <2>1. v = w
    BY <1>2 DEF Flow, Stage
  <2> QED BY <1>2, <2>1 DEF Flow, Stage
<1> QED BY <1>1, <1>2

\* A C peer that dies.
LEMMA DieStream ==
    ASSUME CopyInv, StreamInv, Shape', NEW q \in CPeers, NEW sent, Die(q, sent),
           \/ sent = wire
           \/ \E c \in Conns : conn[c] = q /\ pc[c] = "start" /\ sent = Sent(c, Refusal)
    PROVE  StreamInv'
<1> USE Apart
<1>0. Typed /\ TypeOK
  BY DEF StreamInv, Typed
<1>1. \A d \in Conns : \/ sent[d] = wire[d]
                       \/ conn[d] = q /\ pc[d] = "start" /\ sent[d] = Append(wire[d], Refusal)
  BY SentParts DEF CopyInv
<1>2. /\ pc'[q] = "dead" /\ call'[q] = None
      /\ UNCHANGED <<file, listed, asked, got, tries, had, before, how>>
      /\ up' = [up EXCEPT ![q] = FALSE]
      /\ \A r \in Peers \ {q} : pc'[r] = pc[r] /\ call'[r] = call[r]
  BY DEF Die, CopyInv, Shape
<1>3. up'[q] = FALSE /\ up' \in [Peers -> BOOLEAN] /\ \A r \in Peers : up'[r] = TRUE => up[r] = TRUE
  BY <1>0, <1>2 DEF TypeOK
<1>4. Typed'
  <2>1. /\ wire' = [d \in Conns |-> wire'[d]] /\ job' = [d \in Conns |-> job'[d]]
        /\ \A d \in Conns : job'[d] = NoJob \/ job'[d] = job[d]
        /\ \A d \in Conns : wire'[d] = <<>> \/ wire'[d] = sent[d]
    BY DEF Die
  <2>2. NoJob \in [data : Data, left : SUBSET Nat]
    BY DEF NoJob, Data
  <2>3. job' \in [Conns -> [data : Data, left : SUBSET Nat]]
    <3>1. \A d \in Conns : job[d] \in [data : Data, left : SUBSET Nat]
      BY <1>0 DEF TypeOK
    <3>2. \A d \in Conns : job'[d] \in [data : Data, left : SUBSET Nat]
      BY <2>1, <2>2, <3>1
    <3> DEFINE J == [data : Data, left : SUBSET Nat]
    <3> HIDE DEF J
    <3>3. \A d \in Conns : job'[d] \in J
      BY <3>2 DEF J
    <3>4. job' \in [Conns -> J]
      BY <2>1, <3>3
    <3> QED BY <3>4 DEF J
  <2>4. \A d \in Conns : sent[d] \in Seq(BlockSet)
    <3>1. \A d \in Conns : wire[d] \in Seq(BlockSet) /\ Append(wire[d], Refusal) \in Seq(BlockSet)
      BY <1>0, Nothing, AppendProperties DEF Typed
    <3> QED BY <1>1, <3>1
  <2>5. wire' \in [Conns -> Seq(BlockSet)]
    BY <2>1, <2>4, Nothing
  <2> QED BY <1>0, <1>2, <1>3, <2>3, <2>5 DEF Typed, TypeOK, Shape
<1>5. ASSUME NEW r \in Peers \ {q} PROVE ClientOK(r)'
  <2> DEFINE c == call[r]
  <2>1. CASE c \notin Conns
    BY <1>2, <1>3, <1>4, <2>1, ClientFrame
  <2>2. CASE c \in Conns /\ conn[c] # q
    <3>1. call[q] # c
      BY <2>2 DEF CopyInv, Wired
    <3>2. /\ pc'[c] = pc[c] /\ conn'[c] = conn[c] /\ job'[c] = job[c] /\ wire'[c] = wire[c]
      BY <1>1, <2>2, <3>1 DEF Die
    <3> QED BY <1>2, <1>3, <1>4, <3>2, ClientFrame
  <2>3. CASE c \in Conns /\ conn[c] = q
    <3>1. call[q] # c
      BY <2>3 DEF CopyInv, Wired
    <3>2. pc'[c] = "closed" /\ conn'[c] = q /\ wire'[c] = sent[c]
      BY <2>3, <3>1 DEF Die
    <3>3. had[r] # {} /\ pc[r] \notin {"idle", "writing", "opened"} /\ ClientOK(r)
      BY <2>3 DEF CopyInv, Known, Wired, StreamInv
    <3>4. AskOK(r)' /\ KeptOK(r)' /\ WrittenOK(r)' /\ EndOK(r)'
      BY <1>0, <1>2, <1>3, <1>4, <2>3, <3>2, <3>3, OwnFrame
    <3> HIDE DEF c
    <3>5. PICK f \in Data : Flow(pc[c], job[c], got[r] \o wire[c], q, f, up[q], had[r])
      BY <2>3, <3>3 DEF ClientOK, StreamOK, c
    <3>6. got[r] \in Seq(BlockSet) /\ wire[c] \in Seq(BlockSet)
      BY <1>0, <2>3 DEF Typed
    <3>7. sent[c] = wire[c] \/ (sent[c] = Append(wire[c], Refusal) /\ pc[c] = "start")
      BY <1>1, <2>3
    <3>8. Flow("closed", job'[c], got[r] \o sent[c], q, f, FALSE, had[r])
      BY <3>5, <3>6, <3>7, FlowCut
    <3>9. Flow(pc'[c], job'[c], got'[r] \o wire'[c], conn'[c], f, up'[conn'[c]], had'[r])
      <4>1. pc'[c] = "closed" /\ conn'[c] = q /\ got' = got /\ had' = had
            /\ wire'[c] = sent[c] /\ up'[q] = FALSE
        BY <1>2, <1>3, <3>2
      <4> QED BY <3>8, <4>1
    <3>10. call'[r] = c
      BY <1>2 DEF c
    <3>11. StreamOK(r)'
      BY <3>9, <3>10 DEF StreamOK
    <3> QED BY <3>4, <3>11 DEF ClientOK
  <2> QED BY <2>1, <2>2, <2>3
<1>6. ClientOK(q)'
  <2>1. ClientOK(q) /\ q \notin PyPeers
    BY DEF StreamInv
  <2>2. asked[q] = None => how[q] = "none"
    BY <2>1 DEF ClientOK, AskOK
  <2>3. \A i \in DOMAIN got[q] : got[q][i].status = "OK"
    BY <2>1 DEF ClientOK, AskOK
  <2>4. AskOK(q)'
    BY <1>2, <2>2, <2>3 DEF AskOK
  <2> QED BY <1>2, <2>1, <2>4 DEF ClientOK, StreamOK, KeptOK, WrittenOK, EndOK, Ended
<1>7. ASSUME NEW d \in Conns PROVE ServeOK(d)'
  <2>1. pc'[d] \in {"read", "send"} =>
           conn'[d] = conn[d] /\ pc'[d] = pc[d] /\ job'[d] = job[d]
    BY DEF Die
  <2>2. ServeOK(d)
    BY DEF StreamInv
  <2> QED BY <1>0, <1>2, <2>1, <2>2, FileKept, ServeFrame
<1> QED BY <1>4, <1>5, <1>6, <1>7 DEF StreamInv

\* A handler takes a step of its own.
LEMMA ServeStream ==
    ASSUME CopyInv, StreamInv, Typed', NEW c \in Conns,
           UNCHANGED <<up, file, client, had>>,
           \A d \in Conns \ {c} : /\ pc'[d] = pc[d] /\ conn'[d] = conn[d]
                                  /\ job'[d] = job[d] /\ wire'[d] = wire[d],
           \A r \in Peers : pc'[r] = pc[r],
           conn'[c] = conn[c] \/ ~Read(c),
           \A r \in Peers : call[r] = c => StreamOK(r)',
           ServeOK(c)'
    PROVE  StreamInv'
<1>1. Typed
  BY DEF StreamInv
<1>2. /\ call' = call /\ asked' = asked /\ got' = got /\ before' = before /\ how' = how
  BY DEF client
<1>3. ASSUME NEW r \in Peers PROVE ClientOK(r)'
  <2>1. CASE call[r] = c
    <3>1. had[r] # {} /\ pc[r] \notin {"idle", "writing", "opened"} /\ ClientOK(r)
          /\ conn'[c] = conn[c]
      BY <2>1 DEF CopyInv, Known, Wired, StreamInv, Read
    <3>2. AskOK(r)' /\ KeptOK(r)' /\ WrittenOK(r)' /\ EndOK(r)'
      BY <1>1, <1>2, <2>1, <3>1, OwnFrame
    <3> QED BY <2>1, <3>2 DEF ClientOK
  <2>2. CASE call[r] # c
    BY <1>2, <2>2, ClientFrame
  <2> QED BY <2>1, <2>2
<1>4. ASSUME NEW d \in Conns \ {c} PROVE ServeOK(d)'
  <2>1. ServeOK(d)
    BY DEF StreamInv
  <2> QED BY <1>1, <2>1, FileKept, ServeFrame
<1> QED BY <1>3, <1>4 DEF StreamInv

\* A Python client writes the file it has gathered.
LEMMA WriteStream ==
    ASSUME CopyInv, StreamInv, Shape', NEW p \in PyPeers, pc[p] \in {"writing", "opened"},
           NEW f \in Data, SaveAs(p, f), UNCHANGED <<up, call, conn, job, wire, asked, tries, before>>,
           \/ pc' = [pc EXCEPT ![p] = "opened"] /\ UNCHANGED <<got, how>>
           \/ /\ pc' = [pc EXCEPT ![p] = "idle"] /\ End(p, "ok")
              /\ Sure(had[p], asked[p]) => f \in had[p]
    PROVE  StreamInv'
<1> USE Apart
<1>0. Typed /\ TypeOK /\ ClientOK(p)
  BY DEF StreamInv, Typed
<1>1. /\ file' \in [Peers -> Data \cup {Missing}]
      /\ file'[p] = f /\ \A r \in Peers \ {p} : file'[r] = file[r]
      /\ had' \in [Peers -> SUBSET Data]
      /\ \A r \in Peers : IsFiniteSet(had'[r])
      /\ \A r \in Peers : had'[r] = had[r] \/ (call[r] \in Conns /\ had[r] \subseteq had'[r])
  BY <1>0, SaveStream DEF CopyInv
<1>2. /\ got' \in [Peers -> Seq(BlockSet)] /\ how' \in [Peers -> Ends]
      /\ \A r \in Peers \ {p} : got'[r] = got[r] /\ how'[r] = how[r]
      /\ \A r \in Threads \ {p} : pc'[r] = pc[r]
      /\ (pc'[p] = "opened" /\ got'[p] = got[p] /\ how'[p] = how[p])
         \/ (pc'[p] = "idle" /\ got'[p] = <<>> /\ how'[p] = "ok"
             /\ (Sure(had[p], asked[p]) => f \in had[p]))
  <2>1. got \in [Peers -> Seq(BlockSet)] /\ how \in [Peers -> Ends] /\ "ok" \in Ends
        /\ pc \in [Threads -> {"idle", "reading", "check", "gathered", "writing", "opened",
                               "dead", "start", "open", "read", "send", "closed"}]
    BY <1>0 DEF Typed, TypeOK, Ends
  <2>2. CASE pc' = [pc EXCEPT ![p] = "opened"] /\ UNCHANGED <<got, how>>
    BY <2>1, <2>2
  <2>3. CASE /\ pc' = [pc EXCEPT ![p] = "idle"] /\ End(p, "ok")
             /\ Sure(had[p], asked[p]) => f \in had[p]
    BY <2>1, <2>3, Nothing DEF End
  <2> QED BY <2>2, <2>3
<1>3. Typed'
  BY <1>0, <1>1, <1>2 DEF Typed, TypeOK, Shape
<1>4. ASSUME NEW r \in Peers \ {p} PROVE ClientOK(r)'
  BY <1>1, <1>2, <1>3, ClientFrame
<1>5. ClientOK(p)'
  <2>1. call[p] \notin Conns /\ asked[p] # None /\ had'[p] = had[p]
    BY <1>0, <1>1 DEF CopyInv, Wired, ClientOK, AskOK
  <2>2. AskOK(p)'
    <3>1. \A i \in DOMAIN got'[p] : got'[p][i].status = "OK"
      BY <1>0, <1>2 DEF ClientOK, AskOK
    <3> QED BY <1>2, <2>1, <3>1 DEF AskOK
  <2>3. KeptOK(p)'
    BY <1>0, <1>2, <2>1 DEF KeptOK, ClientOK
  <2>4. EndOK(p)'
    BY <1>1, <1>2, <2>1 DEF EndOK, Ended
  <2> QED BY <2>1, <2>2, <2>3, <2>4 DEF ClientOK, StreamOK, WrittenOK
<1>6. ASSUME NEW d \in Conns PROVE ServeOK(d)'
  <2>1. ServeOK(d)
    BY DEF StreamInv
  <2>2. conn[d] \in CPeers /\ file[conn[d]] # Missing =>
           /\ file'[conn[d]] \in Data /\ file[conn[d]] \in Data
           /\ Len(file[conn[d]]) <= Len(file'[conn[d]])
    <3> SUFFICES ASSUME conn[d] \in CPeers, file[conn[d]] # Missing
                 PROVE  /\ file'[conn[d]] \in Data /\ file[conn[d]] \in Data
                        /\ Len(file[conn[d]]) <= Len(file'[conn[d]])
      OBVIOUS
    <3>1. file'[conn[d]] = file[conn[d]] /\ file[conn[d]] \in Data
      BY <1>0, <1>1 DEF TypeOK
    <3> QED BY <3>1, DataParts
  <2> QED BY <1>0, <1>2, <2>1, <2>2, ServeFrame
<1> QED BY <1>3, <1>4, <1>5, <1>6 DEF StreamInv

\* Asking: nothing is on the connection yet, and what the asked peer has now is all
\* that the client may meet so far.
LEMMA AskStream ==
    ASSUME CopyInv, StreamInv, NEW p \in Peers, NEW q \in Peers, Ask(p, q), Shape'
    PROVE  StreamInv'
<1> USE Apart
<1>0. Typed /\ TypeOK
  BY DEF StreamInv, Typed
<1>1. PICK c \in Conns :
         /\ conn[c] = None
         /\ call' = [call EXCEPT ![p] = c]
         /\ conn' = [conn EXCEPT ![c] = q]
         /\ pc' = [pc EXCEPT ![p] = "reading",
                             ![c] = IF up[q] THEN "start" ELSE "closed"]
  BY DEF Ask
<1>2. pc[p] = "idle" /\ q # p /\ call[p] \notin Conns /\ tries[p] > 0
  BY DEF Ask, CopyInv, Wired
<1>3. \A r \in Peers : call[r] # c
  BY <1>1 DEF CopyInv, Wired
<1>4. wire'[c] = <<>>
  BY <1>3 DEF CopyInv, Wired, Read, Ask
<1>5. /\ call'[p] = c /\ \A r \in Peers \ {p} : call'[r] = call[r]
      /\ conn'[c] = q /\ \A d \in Conns \ {c} : conn'[d] = conn[d]
      /\ pc'[p] = "reading" /\ pc'[c] = IF up[q] THEN "start" ELSE "closed"
      /\ \A t \in Threads \ {p, c} : pc'[t] = pc[t]
  BY <1>1 DEF CopyInv, Shape
<1>6. /\ got' = [got EXCEPT ![p] = <<>>] /\ how' = [how EXCEPT ![p] = "none"]
      /\ asked' = [asked EXCEPT ![p] = q] /\ before' = [before EXCEPT ![p] = Contents(p)]
      /\ tries' = [tries EXCEPT ![p] = @ - 1]
      /\ wire' = wire /\ job' = job /\ up' = up
      /\ had' = [r \in Peers |->
                   IF r = p THEN {Contents(q)}
                   ELSE IF p \in CPeers /\ call[r] # None /\ conn[call[r]] = p
                   THEN had[r] \cup {Contents(p)} ELSE had[r]]
      /\ IF p \in CPeers THEN file' = [file EXCEPT ![p] = Contents(p)] ELSE file' = file
  BY DEF Ask
<1>7. \A r \in Peers : Contents(r) \in Data
  BY <1>0, Nothing DEF Contents, TypeOK, Data
<1>8. /\ got'[p] = <<>> /\ how'[p] = "none" /\ asked'[p] = q /\ before'[p] = Contents(p)
      /\ \A r \in Peers \ {p} : /\ got'[r] = got[r] /\ how'[r] = how[r]
                                /\ asked'[r] = asked[r] /\ before'[r] = before[r]
  BY <1>0, <1>6 DEF Typed, TypeOK
<1>9. /\ file' \in [Peers -> Data \cup {Missing}]
      /\ \A r \in Peers \ {p} : file'[r] = file[r]
      /\ p \in CPeers => file'[p] = Contents(p)
      /\ p \notin CPeers => file'[p] = file[p]
  <2> DEFINE g == Contents(p)
             D == Data \cup {Missing}
  <2>1. file \in [Peers -> D] /\ g \in D
    BY <1>0, <1>7 DEF TypeOK
  <2>2. IF p \in CPeers THEN file' = [file EXCEPT ![p] = g] ELSE file' = file
    BY <1>6
  <2> HIDE DEF g, D
  <2>3. /\ file' \in [Peers -> D] /\ \A r \in Peers \ {p} : file'[r] = file[r]
        /\ p \in CPeers => file'[p] = g
        /\ p \notin CPeers => file'[p] = file[p]
    BY <2>1, <2>2
  <2> QED BY <2>3 DEF g, D
<1>10. ASSUME NEW r \in Peers
       PROVE  /\ had'[r] \in SUBSET Data /\ IsFiniteSet(had'[r])
              /\ r # p => had'[r] = had[r] \/ (call[r] \in Conns /\ had[r] \subseteq had'[r])
  <2>1. CASE r = p
    BY <1>6, <1>7, <2>1, FS_Singleton
  <2>2. CASE r # p
    <3>1. IsFiniteSet(had[r]) /\ IsFiniteSet(had[r] \cup {Contents(p)})
          /\ had[r] \in SUBSET Data
      BY <1>0, FS_AddElement DEF Typed, TypeOK
    <3>2. call[r] # None => call[r] \in Conns
      BY DEF CopyInv, Shape
    <3> QED BY <1>6, <1>7, <2>2, <3>1, <3>2
  <2> QED BY <2>1, <2>2
<1>11. Typed'
  <2>1. had' \in [Peers -> SUBSET Data]
    <3>1. had' = [r \in Peers |-> had'[r]]
      BY <1>6
    <3> QED BY <1>10, <3>1
  <2>2. got' \in [Peers -> Seq(BlockSet)] /\ wire' \in [Conns -> Seq(BlockSet)]
    BY <1>0, <1>6, Nothing DEF Typed
  <2>3. tries' \in [Peers -> Nat]
    <3>1. tries \in [Peers -> Nat]
      BY <1>0 DEF TypeOK
    <3> QED BY <1>2, <1>6, <3>1
  <2>4. how' \in [Peers -> Ends]
    <3>1. how \in [Peers -> Ends] /\ "none" \in Ends
      BY <1>0 DEF TypeOK, Ends
    <3> QED BY <1>6, <3>1
  <2>5. asked' \in [Peers -> Peers \cup {None}] /\ before' \in [Peers -> Data]
    BY <1>0, <1>6, <1>7 DEF TypeOK
  <2>6. up' \in [Peers -> BOOLEAN] /\ job' \in [Conns -> [data : Data, left : SUBSET Nat]]
    BY <1>0, <1>6 DEF TypeOK
  <2> QED BY <1>9, <1>10, <2>1, <2>2, <2>3, <2>4, <2>5, <2>6 DEF Typed, TypeOK, Shape
<1>12. ASSUME NEW r \in Peers \ {p} PROVE ClientOK(r)'
  <2>1. call[r] # c /\ r # c
    BY <1>3
  <2> QED BY <1>5, <1>6, <1>8, <1>9, <1>10, <1>11, <2>1, ClientFrame
<1>13. ClientOK(p)'
  <2>1. p \in CPeers => file'[p] # Missing
    BY <1>7, <1>9, MissingAssumption
  <2>2. AskOK(p)'
    BY <1>5, <1>8, <2>1 DEF AskOK
  <2>3. KeptOK(p)' /\ EndOK(p)'
    BY <1>5 DEF KeptOK, EndOK, Ended
  <2>4. WrittenOK(p)'
    BY <1>6, <1>7, <1>8, <1>9 DEF WrittenOK, Placed
  <2>5. StreamOK(p)'
    <3> DEFINE f == Contents(q)
    <3>1. got'[p] \o wire'[c] = <<>>
      BY <1>4, <1>8
    <3>2. had'[p] = {f}
      BY <1>6
    <3> HIDE DEF f
    <3>3. Flow(pc'[c], job'[c], <<>>, q, f, up'[q], {f})
      <4> DEFINE n == Counted(q, f)
      <4>1. Numbered(<<>>, n)
        BY DEF Numbered
      <4>2. pc'[c] = "start" \/ (pc'[c] = "closed" /\ up'[q] # TRUE)
        <5>1. up[q] \in BOOLEAN /\ up'[q] = up[q]
          BY <1>0, <1>6 DEF TypeOK
        <5>2. pc'[c] = IF up[q] THEN "start" ELSE "closed"
          BY <1>5
        <5> QED BY <5>1, <5>2
      <4>3. Stage(pc'[c], job'[c].left, <<>>, n, up'[q])
        <5> HIDE DEF n
        <5> QED BY <4>1, <4>2 DEF Stage
      <4> QED BY <4>2, <4>3, Nothing DEF Flow
    <3>4. Flow(pc'[c], job'[c], got'[p] \o wire'[c], conn'[c], f, up'[conn'[c]], had'[p])
      BY <1>5, <3>1, <3>2, <3>3
    <3>5. f \in Data
      BY <1>7 DEF f
    <3> QED BY <1>5, <3>4, <3>5 DEF StreamOK
  <2> QED BY <2>2, <2>3, <2>4, <2>5 DEF ClientOK
<1>14. ASSUME NEW d \in Conns PROVE ServeOK(d)'
  <2>1. ServeOK(d)
    BY DEF StreamInv
  <2>2. pc'[d] \in {"read", "send"} =>
           d # c /\ conn'[d] = conn[d] /\ pc'[d] = pc[d] /\ job'[d] = job[d]
    BY <1>5, <1>6
  <2>3. conn[d] \in CPeers /\ file[conn[d]] # Missing =>
           /\ file'[conn[d]] \in Data /\ file[conn[d]] \in Data
           /\ Len(file[conn[d]]) <= Len(file'[conn[d]])
    <3> SUFFICES ASSUME conn[d] \in CPeers, file[conn[d]] # Missing
                 PROVE  /\ file'[conn[d]] \in Data /\ file[conn[d]] \in Data
                        /\ Len(file[conn[d]]) <= Len(file'[conn[d]])
      OBVIOUS
    <3>1. file'[conn[d]] = file[conn[d]] /\ file[conn[d]] \in Data
      BY <1>0, <1>9 DEF TypeOK, Contents
    <3> QED BY <3>1, DataParts
  <2> QED BY <1>0, <2>1, <2>2, <2>3, ServeFrame
<1> QED BY <1>11, <1>12, <1>13, <1>14 DEF StreamInv

-----------------------------------------------------------------------------
(* The handlers.                                                           *)

\* A handler refuses before it has sent anything.
LEMMA FlowRefuse ==
    ASSUME NEW j, NEW g \in Seq(BlockSet), NEW w \in Seq(BlockSet),
           NEW q, NEW f, NEW alive, NEW H, Flow("start", j, g \o w, q, f, alive, H), NEW k
    PROVE  Flow("closed", k, g \o Append(w, Refusal), q, f, alive, H)
<1>1. g \o w = <<>>
  BY DEF Flow, Stage
<1>2. g = <<>> /\ w = <<>>
  BY <1>1, ConcatEqualIffEmpty
<1>3. g \o Append(w, Refusal) = <<Refusal>>
  <2>1. Append(w, Refusal) = <<Refusal>>
    BY <1>2
  <2> QED BY <1>2, <2>1, Nothing, ConcatEmptySeq
<1>4. Sure(H, q) => f \in H
  BY DEF Flow
<1> QED BY <1>3, <1>4, Nothing DEF Flow, Stage

\* A handler opens the file; all the blocks are still to be sent.
LEMMA FlowLoad ==
    ASSUME NEW place \in {"start", "open"}, NEW j, NEW s, NEW q, NEW f, NEW alive, NEW H,
           Flow(place, j, s, q, f, alive, H), NEW d \in Data, d \in H,
           NEW next \in {"read", "send"},
           NEW k, k.data = d, k.left = 0..(Counted(q, d) - 1)
    PROVE  Flow(next, k, s, q, d, alive, H)
<1> DEFINE n == Counted(q, d)
<1>1. s = <<>>
  BY DEF Flow, Stage
<1>2. n \in Nat \ {0}
  BY CountedBounds
<1> HIDE DEF n
<1>3. Cardinality(0..(n - 1)) = n
  <2>1. 0 \in Int /\ n - 1 \in Int
    BY <1>2
  <2>2. Cardinality(0..(n - 1)) = IF 0 > n - 1 THEN 0 ELSE (n - 1) - 0 + 1
    BY <2>1, FS_Interval
  <2> QED BY <1>2, <2>2
<1>4. 0 \in 0..(n - 1) /\ Len(<<>>) = 0
  BY <1>2
<1>5. Remaining(0..(n - 1), <<>>, n)
  BY <1>2, <1>3, <1>4 DEF Remaining
<1>6. Remaining(k.left, s, n) /\ Numbered(s, n)
  BY <1>1, <1>5, Nothing DEF n
<1> QED BY <1>1, <1>6, Nothing DEF Flow, Stage, n

\* A handler sends block k of what it has.
LEMMA FlowSend ==
    ASSUME NEW j, NEW s \in Seq(BlockSet), NEW q, NEW f \in Data, NEW alive, NEW H,
           Flow("send", j, s, q, f, alive, H), j.data \in Data, NEW k \in j.left,
           NEW t \in Data, Sure(H, q) => t = f,
           NEW b \in BlockSet, b = Block(k, Counted(q, j.data), Piece(j.data, k), t)
    PROVE  /\ j.left = {k} => \A m : Flow("closed", m, Append(s, b), q, f, alive, H)
           /\ j.left # {k} => \A m : \A next \in {"read", "send"} :
                m.data = j.data /\ m.left = j.left \ {k}
                   => Flow(next, m, Append(s, b), q, f, alive, H)
<1> DEFINE n == Counted(q, f)
<1>1. n \in Nat
  BY CountedBounds
<1>2. /\ Numbered(s, n) /\ Remaining(j.left, s, n) /\ Len(j.data) = Len(f)
      /\ Sure(H, q) => f \in H /\ Faithful(s, f) /\ j.data = f
  BY DEF Flow, Stage
<1>3. Counted(q, j.data) = n
  BY <1>2 DEF Counted, PyCount
<1>4. /\ b.status = "OK" /\ b.num = k /\ b.count = n
      /\ b.payload = Piece(j.data, k) /\ b.total = t
  BY <1>3 DEF Block
<1> HIDE DEF n
<1>5. /\ Numbered(Append(s, b), n)
      /\ j.left = {k} => Len(Append(s, b)) = n
      /\ j.left # {k} => Remaining(j.left \ {k}, Append(s, b), n)
  <2>1. n \in Nat /\ Numbered(s, n) /\ Remaining(j.left, s, n) /\ b.status = "OK"
        /\ b.num = k /\ b.count = n
    BY <1>1, <1>2, <1>4
  <2> DEFINE u == Append(s, b)
  <2>2. u = Append(s, b)
    OBVIOUS
  <2> HIDE DEF u
  <2>3. Numbered(u, n)
    BY <2>1, <2>2, NumberedAppend, Zenon
  <2>4. j.left # {k} => Remaining(j.left \ {k}, u, n)
    BY <2>1, <2>2, NumberedAppend, Zenon
  <2>5. j.left = {k} => Len(u) = n
    <3>1. j.left = {k} => Cardinality(j.left) = 1
      BY FS_Singleton
    <3>2. Len(u) = Len(s) + 1
      BY <2>2, AppendProperties
    <3>3. Len(s) + Cardinality(j.left) = n
      BY <2>1 DEF Remaining
    <3> QED BY <3>1, <3>2, <3>3
  <2> QED BY <2>3, <2>4, <2>5 DEF u
<1>6. Sure(H, q) => Faithful(Append(s, b), f)
  <2> SUFFICES ASSUME Sure(H, q) PROVE Faithful(Append(s, b), f)
    OBVIOUS
  <2>1. \A i \in DOMAIN Append(s, b) : Append(s, b)[i] = b
                                      \/ (i \in DOMAIN s /\ Append(s, b)[i] = s[i])
    OBVIOUS
  <2>2. Faithful(s, f) /\ b.payload = Piece(f, b.num) /\ b.total = f
    BY <1>2, <1>4
  <2> QED BY <2>1, <2>2 DEF Faithful
<1> QED BY <1>2, <1>5, <1>6 DEF Flow, Stage, n

\* What a handler writes to the wires are blocks.
LEMMA SentTyped ==
    ASSUME Typed, Maps, NEW c \in Conns, NEW b \in BlockSet, wire' = Sent(c, b)
    PROVE  /\ wire' \in [Conns -> Seq(BlockSet)]
           /\ \A d \in Conns \ {c} : wire'[d] = wire[d]
           /\ Read(c) => wire'[c] = Append(wire[c], b)
<1>1. wire \in [Conns -> Seq(BlockSet)]
  BY DEF Typed
<1>2. Append(wire[c], b) \in Seq(BlockSet)
  BY <1>1, AppendProperties
<1> QED BY <1>1, <1>2 DEF Sent

\* A handler that returns.
LEMMA CloseParts ==
    ASSUME Typed, Shape, NEW c \in Conns, Close(c)
    PROVE  /\ job' \in [Conns -> [data : Data, left : SUBSET Nat]]
           /\ \A d \in Conns \ {c} : job'[d] = job[d] /\ pc'[d] = pc[d] /\ conn'[d] = conn[d]
           /\ \A r \in Peers : pc'[r] = pc[r]
           /\ pc'[c] \in {"closed", "idle"}
           /\ Read(c) => pc'[c] = "closed" /\ conn'[c] = conn[c]
<1> USE Apart
<1>1. NoJob \in [data : Data, left : SUBSET Nat]
  BY DEF NoJob, Data
<1>2. job \in [Conns -> [data : Data, left : SUBSET Nat]]
  BY DEF Typed, TypeOK
<1>3. job' \in [Conns -> [data : Data, left : SUBSET Nat]] /\ \A d \in Conns \ {c} : job'[d] = job[d]
  <2> DEFINE J == [data : Data, left : SUBSET Nat]
  <2> HIDE DEF J
  <2>1. NoJob \in J /\ job \in [Conns -> J] /\ job' = [job EXCEPT ![c] = NoJob]
    BY <1>1, <1>2 DEF Close, J
  <2>2. job' \in [Conns -> J] /\ \A d \in Conns \ {c} : job'[d] = job[d]
    BY <2>1
  <2> QED BY <2>2 DEF J
<1>4. /\ \A d \in Conns \ {c} : pc'[d] = pc[d] /\ conn'[d] = conn[d]
      /\ \A r \in Peers : pc'[r] = pc[r]
      /\ pc'[c] \in {"closed", "idle"}
      /\ Read(c) => pc'[c] = "closed" /\ conn'[c] = conn[c]
  BY DEF Close, Shape
<1> QED BY <1>3, <1>4

\* A handler leaves most of the state alone.
LEMMA ServeTyped ==
    ASSUME Typed, Shape', UNCHANGED <<up, file, client, had>>,
           job' \in [Conns -> [data : Data, left : SUBSET Nat]],
           wire' \in [Conns -> Seq(BlockSet)]
    PROVE  Typed'
BY DEF Typed, TypeOK, Shape, client

\* The one who reads from a handler.
LEMMA Reader ==
    ASSUME CopyInv, StreamInv, NEW c \in Conns, NEW r \in Peers, call[r] = c
    PROVE  /\ Read(c) /\ conn[c] \in Peers /\ Contents(conn[c]) \in had[r]
           /\ got[r] \in Seq(BlockSet) /\ wire[c] \in Seq(BlockSet)
           /\ \E f \in Data : Flow(pc[c], job[c], got[r] \o wire[c], conn[c], f, up[conn[c]], had[r])
<1>1. ClientOK(r) /\ Typed
  BY DEF StreamInv
<1>2. \E f \in Data : Flow(pc[c], job[c], got[r] \o wire[c], conn[c], f, up[conn[c]], had[r])
  BY <1>1 DEF ClientOK, StreamOK
<1>3. conn[c] \in Peers /\ Contents(conn[c]) \in had[r]
  BY DEF CopyInv, Known, Wired, Shape
<1> QED BY <1>1, <1>2, <1>3 DEF Typed, Read

\* Block i of the copy that a handler has.
LEMMA BlockTyped ==
    ASSUME NEW q, NEW d \in Data, NEW i \in Nat, NEW t \in Data
    PROVE  Block(i, Counted(q, d), Piece(d, i), t) \in BlockSet
<1>1. Counted(q, d) \in Nat /\ Piece(d, i) \in Data
  BY CountedBounds, PieceParts
<1> QED BY <1>1 DEF Block, BlockSet

\* A handler sends a block, and goes on or closes.
LEMMA SendStream ==
    ASSUME CopyInv, StreamInv, Shape', NEW c \in Conns, pc[c] = "send",
           UNCHANGED <<up, file, client, had>>, NEW i \in job[c].left,
           NEW next \in {"read", "send"}, Advance(c, i, next),
           NEW t \in Data, \A r \in Peers : \A f \in Data :
              call[r] = c /\ Sure(had[r], conn[c]) /\ f \in had[r] /\ job[c].data = f => t = f,
           wire' = Sent(c, Block(i, Counted(conn[c], job[c].data), Piece(job[c].data, i), t)),
           job[c].left # {i} => (pc'[c] = next /\ job'[c].data = job[c].data
                                 /\ job'[c].left = job[c].left \ {i} => ServeOK(c)')
    PROVE  StreamInv'
<1> USE Apart
<1> DEFINE q == conn[c]
           j == job[c]
           b == Block(i, Counted(q, j.data), Piece(j.data, i), t)
<1>0. Typed /\ TypeOK /\ Maps /\ Shape
  BY DEF StreamInv, Typed, CopyInv
<1>1. j \in [data : Data, left : SUBSET Nat] /\ i \in Nat
  BY <1>0 DEF TypeOK
<1>2. b \in BlockSet
  BY <1>1, BlockTyped
<1>3. wire' = Sent(c, b)
  OBVIOUS
<1>4. /\ wire' \in [Conns -> Seq(BlockSet)]
      /\ \A d \in Conns \ {c} : wire'[d] = wire[d]
      /\ Read(c) => wire'[c] = Append(wire[c], b)
  <2> HIDE DEF b
  <2> QED BY <1>0, <1>2, <1>3, SentTyped
<1>5. b = Block(i, Counted(q, j.data), Piece(j.data, i), t)
  OBVIOUS
<1> HIDE DEF b
<1>6. CASE j.left = {i}
  <2>1. Close(c)
    BY <1>6 DEF Advance
  <2>2. /\ job' \in [Conns -> [data : Data, left : SUBSET Nat]]
        /\ \A d \in Conns \ {c} : job'[d] = job[d] /\ pc'[d] = pc[d] /\ conn'[d] = conn[d]
        /\ \A r \in Peers : pc'[r] = pc[r]
        /\ pc'[c] \in {"closed", "idle"}
        /\ Read(c) => pc'[c] = "closed" /\ conn'[c] = conn[c]
    BY <1>0, <2>1, CloseParts
  <2>3. Typed'
    BY <1>0, <1>4, <2>2, ServeTyped
  <2>4. ASSUME NEW r \in Peers, call[r] = c PROVE StreamOK(r)'
    <3>1. PICK f \in Data : Flow(pc[c], j, got[r] \o wire[c], q, f, up[q], had[r])
      BY <2>4, Reader
    <3>2. Read(c) /\ got[r] \in Seq(BlockSet) /\ wire[c] \in Seq(BlockSet)
      BY <2>4, Reader
    <3>3. Sure(had[r], q) => t = f
      BY <2>4, <3>1 DEF Flow
    <3>4. Flow("closed", job'[c], Append(got[r] \o wire[c], b), q, f, up[q], had[r])
      <4> DEFINE s == got[r] \o wire[c]
                 H == had[r]
                 alive == up[q]
      <4>1. s \in Seq(BlockSet) /\ Flow("send", j, s, q, f, alive, H) /\ j.data \in Data
            /\ i \in j.left
        BY <1>1, <3>1, <3>2, ConcatProperties
      <4>2. Sure(H, q) => t = f
        BY <3>3
      <4> HIDE DEF s, H, alive, q, j
      <4>3. \A m : Flow("closed", m, Append(s, b), q, f, alive, H)
        BY <1>2, <1>5, <1>6, <4>1, <4>2, FlowSend
      <4> QED BY <4>3 DEF s, H, alive
    <3>5. got[r] \o wire'[c] = Append(got[r] \o wire[c], b)
      <4> DEFINE g == got[r]
                 w == wire[c]
      <4>1. g \in Seq(BlockSet) /\ w \in Seq(BlockSet)
        BY <3>2
      <4> HIDE DEF g, w
      <4>2. g \o Append(w, b) = Append(g \o w, b)
        BY <1>2, <4>1, ConcatMoves
      <4> QED BY <1>4, <3>2, <4>2 DEF g, w
    <3>6. /\ pc'[c] = "closed" /\ conn'[c] = q /\ call'[r] = c
          /\ got' = got /\ up' = up /\ had' = had
      BY <2>2, <2>4, <3>2 DEF client
    <3>7. Flow(pc'[c], job'[c], got'[r] \o wire'[c], conn'[c], f, up'[conn'[c]], had'[r])
      BY <3>4, <3>5, <3>6
    <3> QED BY <3>6, <3>7 DEF StreamOK
  <2>5. ServeOK(c)'
    BY <2>2 DEF ServeOK
  <2>6. conn'[c] = conn[c] \/ ~Read(c)
    BY <2>2
  <2> QED BY <1>4, <2>2, <2>3, <2>4, <2>5, <2>6, ServeStream
<1>7. CASE j.left # {i}
  <2>1. /\ job' = [job EXCEPT ![c].left = @ \ {i}]
        /\ pc' = [pc EXCEPT ![c] = next] /\ conn' = conn
    BY <1>7 DEF Advance
  <2>2. /\ job' \in [Conns -> [data : Data, left : SUBSET Nat]]
        /\ \A d \in Conns \ {c} : job'[d] = job[d]
        /\ job'[c].data = j.data /\ job'[c].left = j.left \ {i}
    <3> DEFINE J == [data : Data, left : SUBSET Nat]
               k == [j EXCEPT !.left = @ \ {i}]
    <3>1. k \in J /\ k.data = j.data /\ k.left = j.left \ {i}
      BY <1>1
    <3>2. job \in [Conns -> J] /\ job' = [job EXCEPT ![c] = k]
      BY <1>0, <2>1 DEF TypeOK
    <3> HIDE DEF J, k
    <3>3. job' \in [Conns -> J] /\ job'[c] = k /\ \A d \in Conns \ {c} : job'[d] = job[d]
      BY <3>2, <3>1
    <3> QED BY <3>1, <3>3 DEF J
  <2>3. /\ \A d \in Conns \ {c} : pc'[d] = pc[d]
        /\ \A r \in Peers : pc'[r] = pc[r]
        /\ pc'[c] = next
    BY <1>0, <2>1 DEF Shape
  <2>4. Typed'
    BY <1>0, <1>4, <2>2, ServeTyped
  <2>5. ASSUME NEW r \in Peers, call[r] = c PROVE StreamOK(r)'
    <3>1. PICK f \in Data : Flow(pc[c], j, got[r] \o wire[c], q, f, up[q], had[r])
      BY <2>5, Reader
    <3>2. Read(c) /\ got[r] \in Seq(BlockSet) /\ wire[c] \in Seq(BlockSet)
      BY <2>5, Reader
    <3>3. Sure(had[r], q) => t = f
      BY <2>5, <3>1 DEF Flow
    <3>4. Flow(next, job'[c], Append(got[r] \o wire[c], b), q, f, up[q], had[r])
      <4> DEFINE s == got[r] \o wire[c]
                 H == had[r]
                 alive == up[q]
                 k == job'[c]
      <4>1. s \in Seq(BlockSet) /\ Flow("send", j, s, q, f, alive, H) /\ j.data \in Data
            /\ i \in j.left
        BY <1>1, <3>1, <3>2, ConcatProperties
      <4>2. (Sure(H, q) => t = f) /\ k.data = j.data /\ k.left = j.left \ {i}
        BY <2>2, <3>3
      <4> HIDE DEF s, H, alive, q, j, k
      <4>3. j.left # {i} => \A m : \A goes \in {"read", "send"} :
                m.data = j.data /\ m.left = j.left \ {i}
                   => Flow(goes, m, Append(s, b), q, f, alive, H)
        BY <1>2, <1>5, <4>1, <4>2, FlowSend
      <4>4. Flow(next, k, Append(s, b), q, f, alive, H)
        BY <1>7, <4>2, <4>3
      <4> QED BY <4>4 DEF s, H, alive, k
    <3>5. got[r] \o wire'[c] = Append(got[r] \o wire[c], b)
      <4> DEFINE g == got[r]
                 w == wire[c]
      <4>1. g \in Seq(BlockSet) /\ w \in Seq(BlockSet)
        BY <3>2
      <4> HIDE DEF g, w
      <4>2. g \o Append(w, b) = Append(g \o w, b)
        BY <1>2, <4>1, ConcatMoves
      <4> QED BY <1>4, <3>2, <4>2 DEF g, w
    <3>6. /\ pc'[c] = next /\ conn'[c] = q /\ call'[r] = c
          /\ got' = got /\ up' = up /\ had' = had
      BY <2>1, <2>3, <2>5 DEF client
    <3>7. Flow(pc'[c], job'[c], got'[r] \o wire'[c], conn'[c], f, up'[conn'[c]], had'[r])
      BY <3>4, <3>5, <3>6
    <3> QED BY <3>6, <3>7 DEF StreamOK
  <2>6. ServeOK(c)'
    BY <1>7, <2>2, <2>3
  <2> QED BY <1>4, <2>1, <2>2, <2>3, <2>4, <2>5, <2>6, ServeStream
<1> QED BY <1>6, <1>7

\* Contents are data.
LEMMA ContentsTyped ==
    ASSUME Typed, NEW p \in Peers
    PROVE  Contents(p) \in Data /\ (file[p] # Missing => file[p] = Contents(p))
BY Nothing DEF Typed, TypeOK, Contents, Data

\* A handler opens the file.
LEMMA LoadStream ==
    ASSUME CopyInv, StreamInv, Shape', NEW c \in Conns, pc[c] \in {"start", "open"},
           conn[c] \in Peers, NEW next \in {"read", "send"}, pc' = [pc EXCEPT ![c] = next],
           NEW d \in Data, d = Contents(conn[c]),
           job' = [job EXCEPT ![c] = [data |-> d, left |-> 0..(Counted(conn[c], d) - 1)]],
           UNCHANGED <<up, file, client, conn, wire, had>>,
           job'[c] = [data |-> d, left |-> 0..(Counted(conn[c], d) - 1)] => ServeOK(c)'
    PROVE  StreamInv'
<1> USE Apart
<1> DEFINE q == conn[c]
           k == [data |-> d, left |-> 0..(Counted(q, d) - 1)]
<1>0. Typed /\ TypeOK /\ Maps /\ Shape
  BY DEF StreamInv, Typed, CopyInv
<1>1. k \in [data : Data, left : SUBSET Nat] /\ k.data = d /\ k.left = 0..(Counted(q, d) - 1)
  <2>1. Counted(q, d) \in Nat \ {0}
    BY CountedBounds
  <2>2. 0..(Counted(q, d) - 1) \subseteq Nat
    BY <2>1
  <2> QED BY <2>2
<1>2. job' = [job EXCEPT ![c] = k]
  OBVIOUS
<1> HIDE DEF k
<1>3. /\ job' \in [Conns -> [data : Data, left : SUBSET Nat]]
      /\ \A e \in Conns \ {c} : job'[e] = job[e]
      /\ job'[c] = k
  <2> DEFINE J == [data : Data, left : SUBSET Nat]
  <2>1. job \in [Conns -> J] /\ k \in J
    BY <1>0, <1>1 DEF TypeOK
  <2> HIDE DEF J
  <2>2. job' \in [Conns -> J] /\ job'[c] = k /\ \A e \in Conns \ {c} : job'[e] = job[e]
    BY <1>2, <2>1
  <2> QED BY <2>2 DEF J
<1>4. /\ \A e \in Conns \ {c} : pc'[e] = pc[e]
      /\ \A r \in Peers : pc'[r] = pc[r]
      /\ pc'[c] = next
  BY <1>0 DEF Shape
<1>5. Typed'
  <2>1. wire' \in [Conns -> Seq(BlockSet)]
    BY <1>0 DEF Typed
  <2> QED BY <1>0, <1>3, <2>1, ServeTyped
<1>6. ASSUME NEW r \in Peers, call[r] = c PROVE StreamOK(r)'
  <2>1. d \in had[r] /\ \E f \in Data :
           Flow(pc[c], job[c], got[r] \o wire[c], q, f, up[q], had[r])
    BY <1>6, Reader
  <2>2. Flow(next, k, got[r] \o wire[c], q, d, up[q], had[r])
    <3> DEFINE s == got[r] \o wire[c]
               H == had[r]
               alive == up[q]
               place == pc[c]
               j == job[c]
    <3>1. PICK f : Flow(place, j, s, q, f, alive, H)
      BY <2>1
    <3>2. place \in {"start", "open"} /\ d \in H /\ k.left = 0..(Counted(q, d) - 1)
      BY <1>1, <2>1
    <3> HIDE DEF s, H, alive, place, j, q
    <3>3. Flow(next, k, s, q, d, alive, H)
      BY <1>1, <3>1, <3>2, FlowLoad
    <3> QED BY <3>3 DEF s, H, alive
  <2>3. /\ call'[r] = c /\ got' = got /\ wire' = wire /\ conn'[c] = q /\ up' = up /\ had' = had
    BY <1>6 DEF client
  <2>4. Flow(pc'[c], job'[c], got'[r] \o wire'[c], conn'[c], d, up'[conn'[c]], had'[r])
    BY <1>3, <1>4, <2>2, <2>3
  <2> QED BY <2>3, <2>4 DEF StreamOK
<1>7. ServeOK(c)'
  BY <1>3 DEF k
<1> QED BY <1>3, <1>4, <1>5, <1>6, <1>7, ServeStream

\* The handler of a Python peer.
LEMMA PyHandlerStream ==
    ASSUME CopyInv, StreamInv, Shape', NEW c \in Conns, conn[c] \in PyPeers, PyHandler(c)
    PROVE  StreamInv'
<1> USE Apart
<1> DEFINE q == conn[c]
<1>0. Typed /\ TypeOK /\ Maps /\ Shape /\ q \in Peers /\ q \notin CPeers
  BY DEF StreamInv, Typed, CopyInv
<1>1. ASSUME Close(c), UNCHANGED <<up, file, client, had>>,
             \/ UNCHANGED wire /\ ~Read(c)
             \/ wire' = Sent(c, Refusal) /\ pc[c] = "start"
      PROVE  StreamInv'
  <2>1. /\ job' \in [Conns -> [data : Data, left : SUBSET Nat]]
        /\ \A d \in Conns \ {c} : job'[d] = job[d] /\ pc'[d] = pc[d] /\ conn'[d] = conn[d]
        /\ \A r \in Peers : pc'[r] = pc[r]
        /\ pc'[c] \in {"closed", "idle"}
        /\ Read(c) => pc'[c] = "closed" /\ conn'[c] = conn[c]
    BY <1>0, <1>1, CloseParts
  <2>2. /\ wire' \in [Conns -> Seq(BlockSet)]
        /\ \A d \in Conns \ {c} : wire'[d] = wire[d]
        /\ Read(c) => wire'[c] = Append(wire[c], Refusal) /\ pc[c] = "start"
    <3>1. CASE UNCHANGED wire /\ ~Read(c)
      BY <1>0, <3>1 DEF Typed
    <3>2. CASE wire' = Sent(c, Refusal) /\ pc[c] = "start"
      BY <1>0, <3>2, Nothing, SentTyped
    <3> QED BY <1>1, <3>1, <3>2
  <2>3. Typed'
    BY <1>0, <1>1, <2>1, <2>2, ServeTyped
  <2>4. ASSUME NEW r \in Peers, call[r] = c PROVE StreamOK(r)'
    <3>1. PICK f \in Data : Flow(pc[c], job[c], got[r] \o wire[c], q, f, up[q], had[r])
      BY <2>4, Reader
    <3>2. Read(c) /\ got[r] \in Seq(BlockSet) /\ wire[c] \in Seq(BlockSet)
      BY <2>4, Reader
    <3>3. Flow("closed", job'[c], got[r] \o Append(wire[c], Refusal), q, f, up[q], had[r])
      <4> DEFINE g == got[r]
                 w == wire[c]
                 H == had[r]
                 alive == up[q]
                 j == job[c]
                 k == job'[c]
      <4>1. g \in Seq(BlockSet) /\ w \in Seq(BlockSet) /\ Flow("start", j, g \o w, q, f, alive, H)
        BY <2>2, <3>1, <3>2
      <4> HIDE DEF g, w, H, alive, j, k, q
      <4>2. Flow("closed", k, g \o Append(w, Refusal), q, f, alive, H)
        BY <4>1, FlowRefuse
      <4> QED BY <4>2 DEF g, w, H, alive, k
    <3>4. /\ pc'[c] = "closed" /\ conn'[c] = q /\ call'[r] = c
          /\ got' = got /\ up' = up /\ had' = had /\ wire'[c] = Append(wire[c], Refusal)
      BY <1>1, <2>1, <2>2, <2>4, <3>2 DEF client
    <3>5. Flow(pc'[c], job'[c], got'[r] \o wire'[c], conn'[c], f, up'[conn'[c]], had'[r])
      BY <3>3, <3>4
    <3> QED BY <3>4, <3>5 DEF StreamOK
  <2>5. ServeOK(c)'
    BY <2>1 DEF ServeOK
  <2>6. conn'[c] = conn[c] \/ ~Read(c)
    BY <2>1
  <2> QED BY <1>1, <2>1, <2>2, <2>3, <2>4, <2>5, <2>6, ServeStream
<1>2. CASE PyAdmit(c)
  <2>1. CASE Close(c) /\ wire' = Sent(c, Refusal)
    BY <1>1, <1>2, <2>1 DEF PyAdmit
  <2>2. CASE pc' = [pc EXCEPT ![c] = "open"] /\ UNCHANGED <<conn, job, wire>>
    <3>1. UNCHANGED <<up, file, client, had>> /\ pc[c] = "start"
      BY <1>2 DEF PyAdmit
    <3>2. /\ \A d \in Conns \ {c} : pc'[d] = pc[d]
          /\ \A r \in Peers : pc'[r] = pc[r]
          /\ pc'[c] = "open"
      BY <1>0, <2>2 DEF Shape
    <3>3. Typed'
      <4>1. /\ job' \in [Conns -> [data : Data, left : SUBSET Nat]]
            /\ wire' \in [Conns -> Seq(BlockSet)]
        BY <1>0, <2>2 DEF Typed, TypeOK
      <4> QED BY <1>0, <3>1, <4>1, ServeTyped
    <3>4. ASSUME NEW r \in Peers, call[r] = c PROVE StreamOK(r)'
      <4>1. PICK f \in Data : Flow(pc[c], job[c], got[r] \o wire[c], q, f, up[q], had[r])
        BY <3>4, Reader
      <4>2. Flow("open", job[c], got[r] \o wire[c], q, f, up[q], had[r])
        BY <3>1, <4>1 DEF Flow, Stage
      <4>3. /\ pc'[c] = "open" /\ conn'[c] = q /\ call'[r] = c /\ job' = job
            /\ got' = got /\ up' = up /\ had' = had /\ wire' = wire
        BY <2>2, <3>1, <3>2, <3>4 DEF client
      <4>4. Flow(pc'[c], job'[c], got'[r] \o wire'[c], conn'[c], f, up'[conn'[c]], had'[r])
        BY <4>2, <4>3
      <4> QED BY <4>3, <4>4 DEF StreamOK
    <3>5. ServeOK(c)'
      BY <3>2 DEF ServeOK
    <3> QED BY <2>2, <3>1, <3>2, <3>3, <3>4, <3>5, ServeStream
  <2> QED BY <1>2, <2>1, <2>2 DEF PyAdmit
<1>3. CASE PyLoad(c)
  <2> DEFINE d == Contents(q)
             next == "send"
  <2>1. d \in Data /\ Counted(q, d) = PyCount(d)
    BY <1>0, ContentsTyped DEF Counted
  <2>2. /\ pc[c] = "open" /\ pc' = [pc EXCEPT ![c] = next]
        /\ job' = [job EXCEPT ![c] = [data |-> d, left |-> 0..(Counted(q, d) - 1)]]
        /\ UNCHANGED <<up, file, client, conn, wire, had>>
    BY <1>3, <2>1 DEF PyLoad
  <2>3. ServeOK(c)'
    BY <1>0, <2>2 DEF ServeOK
  <2> HIDE DEF d, next
  <2>4. d = Contents(q) /\ next \in {"read", "send"}
    BY DEF d, next
  <2> QED BY <1>0, <2>1, <2>2, <2>3, <2>4, LoadStream
<1>4. CASE PySend(c)
  <2> DEFINE d == job[c].data
             next == "send"
  <2>1. pc[c] = "send" /\ UNCHANGED <<up, file, client, had>>
    BY <1>4 DEF PySend
  <2>2. ASSUME NEW i \in job[c].left,
               wire' = Sent(c, Block(i, PyCount(d), Piece(d, i), d)),
               Advance(c, i, next)
        PROVE  StreamInv'
    <3>1. d \in Data /\ Counted(q, d) = PyCount(d)
      BY <1>0 DEF TypeOK, Counted
    <3>2. wire' = Sent(c, Block(i, Counted(q, job[c].data), Piece(job[c].data, i), d))
      BY <2>2, <3>1
    <3>3. conn'[c] = q \/ pc'[c] \in {"idle", "closed"}
      BY <1>0, <2>2 DEF Advance, Close, Shape
    <3>4. ServeOK(c)'
      BY <1>0, <3>3 DEF ServeOK
    <3>5. next \in {"read", "send"} /\ \A r \in Peers : \A f \in Data :
              call[r] = c /\ Sure(had[r], conn[c]) /\ f \in had[r] /\ job[c].data = f => d = f
      OBVIOUS
    <3> HIDE DEF d, next
    <3> QED BY <2>1, <2>2, <3>1, <3>2, <3>4, <3>5, SendStream
  <2> QED BY <1>1, <1>4, <2>1, <2>2 DEF PySend
<1> QED BY <1>2, <1>3, <1>4 DEF PyHandler

\* The first of the blocks from k to m.
LEMMA MinOfInterval ==
    ASSUME NEW k \in Nat, NEW m \in Nat, k <= m
    PROVE  /\ Min(k..m) = k /\ k \in k..m
           /\ (k..m) \ {k} = (k + 1)..m
           /\ k..m # {k} => k + 1 <= m
<1>1. k \in k..m /\ \A i \in k..m : k <= i
  OBVIOUS
<1>2. Min(k..m) = k
  BY <1>1 DEF Min
<1>3. k..m # {k} => k + 1 <= m
  OBVIOUS
<1> QED BY <1>1, <1>2, <1>3

\* What fread makes of the copy: as long as before, and the served file as long as
\* that does not change.
LEMMA ReadParts ==
    ASSUME NEW d \in Data, NEW f \in Data, Len(d) <= Len(f),
           NEW e, e = [i \in DOMAIN d |-> e[i]],
           \A i \in DOMAIN d : e[i] = d[i] \/ e[i] = f[i]
    PROVE  e \in Data /\ Len(e) = Len(d) /\ (d = f => e = f)
<1>1. Len(d) \in Nat /\ Len(f) \in Nat /\ DOMAIN d = 1..Len(d)
  BY DataParts
<1>2. \A i \in 1..Len(d) : d[i] \in Bytes \cup {NUL} /\ f[i] \in Bytes \cup {NUL}
  BY <1>1, DataParts
<1>3. e = [i \in 1..Len(d) |-> e[i]]
      /\ \A i \in 1..Len(d) : e[i] \in Bytes \cup {NUL}
  BY <1>1, <1>2
<1>4. e \in Seq(Bytes \cup {NUL}) /\ Len(e) = Len(d)
  BY <1>1, <1>3
<1>5. ASSUME d = f PROVE e = f
  <2>1. \A i \in 1..Len(e) : e[i] = f[i]
    BY <1>1, <1>4, <1>5
  <2> QED BY <1>4, <1>5, <2>1, DataParts, SeqEqual
<1> QED BY <1>4, <1>5 DEF Data

\* The handler of a C peer.
LEMMA CHandlerStream ==
    ASSUME CopyInv, StreamInv, Shape', NEW c \in Conns, conn[c] \in CPeers, CHandler(c)
    PROVE  StreamInv'
<1> USE Apart
<1> DEFINE q == conn[c]
<1>0. Typed /\ TypeOK /\ Maps /\ Shape /\ q \in Peers /\ q \notin PyPeers /\ ServeOK(c)
  BY DEF StreamInv, Typed, CopyInv
<1>1. CASE COpen(c)
  <2>1. CASE Die(q, Sent(c, Refusal))
    <3> DEFINE sent == Sent(c, Refusal)
    <3>1. \E e \in Conns : conn[e] = q /\ pc[e] = "start" /\ sent = Sent(e, Refusal)
      BY <1>1 DEF COpen
    <3>2. Die(q, sent)
      BY <2>1
    <3> HIDE DEF sent, q
    <3> QED BY <3>1, <3>2, DieStream DEF q
  <2>2. CASE ~Die(q, Sent(c, Refusal))
    <3> DEFINE d == file[q]
               next == "read"
    <3>1. /\ pc[c] = "start" /\ d # Missing /\ pc' = [pc EXCEPT ![c] = next]
          /\ job' = [job EXCEPT ![c] = [data |-> d, left |-> 0..(CCount(Len(d)) - 1)]]
          /\ UNCHANGED <<up, file, client, conn, wire, had>>
      BY <1>1, <2>2 DEF COpen
    <3>2. d \in Data /\ d = Contents(q)
      BY <1>0, <3>1, ContentsTyped
    <3>3. Counted(q, d) = CCount(Len(d))
      BY DEF Counted
    <3>4. ASSUME job'[c] = [data |-> d, left |-> 0..(Counted(q, d) - 1)] PROVE ServeOK(c)'
      <4>1. Len(d) \in Nat /\ Len(d) \div B \in Nat /\ CCount(Len(d)) - 1 = Len(d) \div B
        BY <3>2, DataParts, Quotient DEF CCount
      <4>2. job'[c].data = d /\ job'[c].left = 0..(Len(d) \div B)
        BY <3>3, <3>4, <4>1
      <4>3. file'[conn'[c]] = d
        BY <3>1
      <4>4. 0 \in 0..(Len(d) \div B) /\ Len(d) <= Len(d)
        BY <4>1
      <4> HIDE DEF d
      <4> QED BY <3>1, <4>2, <4>3, <4>4 DEF ServeOK
    <3>5. next \in {"read", "send"}
      OBVIOUS
    <3> HIDE DEF d, next
    <3> QED BY <1>0, <3>1, <3>2, <3>3, <3>4, <3>5, LoadStream
  <2> QED BY <2>1, <2>2
<1>2. CASE CRead(c)
  <2> DEFINE j == job[c]
             f == file[q]
  <2>1. PICK x \in 0..B :
           job' = [job EXCEPT ![c].data =
                     [i \in DOMAIN j.data |-> IF i <= Min(j.left) * B + x THEN j.data[i]
                                              ELSE f[i]]]
    BY <1>2 DEF CRead
  <2> DEFINE e == [i \in DOMAIN j.data |-> IF i <= Min(j.left) * B + x THEN j.data[i]
                                            ELSE f[i]]
  <2>2. job' = [job EXCEPT ![c].data = e]
    BY <2>1
  <2>3. /\ pc[c] = "read" /\ pc' = [pc EXCEPT ![c] = "send"]
        /\ UNCHANGED <<up, file, client, conn, wire, had>>
    BY <1>2 DEF CRead
  <2>4. /\ f # Missing /\ Len(j.data) <= Len(f)
        /\ j \in [data : Data, left : SUBSET Nat]
        /\ \E k \in 0..(Len(j.data) \div B) : j.left = k..(Len(j.data) \div B)
    BY <1>0, <2>3 DEF ServeOK, TypeOK
  <2>5. f \in Data /\ f = Contents(q)
    BY <1>0, <2>4, ContentsTyped
  <2>6. e \in Data /\ Len(e) = Len(j.data) /\ (j.data = f => e = f)
    <3> DEFINE d == j.data
    <3>1. d \in Data /\ e = [i \in DOMAIN d |-> e[i]]
          /\ \A i \in DOMAIN d : e[i] = d[i] \/ e[i] = f[i]
      BY <2>4
    <3>2. Len(d) <= Len(f)
      BY <2>4
    <3> HIDE DEF d, e, f
    <3>3. e \in Data /\ Len(e) = Len(d) /\ (d = f => e = f)
      BY <2>5, <3>1, <3>2, ReadParts
    <3> QED BY <3>3 DEF d
  <2> HIDE DEF e
  <2>7. /\ job' \in [Conns -> [data : Data, left : SUBSET Nat]]
        /\ \A d \in Conns \ {c} : job'[d] = job[d]
        /\ job'[c].data = e /\ job'[c].left = j.left
    <3> DEFINE J == [data : Data, left : SUBSET Nat]
               k == [j EXCEPT !.data = e]
    <3>1. k \in J /\ k.data = e /\ k.left = j.left
      BY <2>4, <2>6
    <3>2. job \in [Conns -> J] /\ job' = [job EXCEPT ![c] = k]
      BY <1>0, <2>2 DEF TypeOK
    <3> HIDE DEF J, k
    <3>3. job' \in [Conns -> J] /\ job'[c] = k /\ \A d \in Conns \ {c} : job'[d] = job[d]
      BY <3>2, <3>1
    <3> QED BY <3>1, <3>3 DEF J
  <2>8. /\ \A d \in Conns \ {c} : pc'[d] = pc[d]
        /\ \A r \in Peers : pc'[r] = pc[r]
        /\ pc'[c] = "send"
    BY <1>0, <2>3 DEF Shape
  <2>9. Typed'
    <3>1. wire' \in [Conns -> Seq(BlockSet)]
      BY <1>0, <2>3 DEF Typed
    <3> QED BY <1>0, <2>3, <2>7, <3>1, ServeTyped
  <2>10. ASSUME NEW r \in Peers, call[r] = c PROVE StreamOK(r)'
    <3>1. PICK z \in Data : Flow(pc[c], j, got[r] \o wire[c], q, z, up[q], had[r])
      BY <2>10, Reader
    <3>2. Sure(had[r], q) => f = z
      <4>1. f \in had[r]
        BY <2>5, <2>10, Reader
      <4>2. Sure(had[r], q) => \E y : had[r] = {y}
        BY <1>0, FS_Singleton DEF Sure, Typed
      <4>3. Sure(had[r], q) => z \in had[r]
        BY <3>1 DEF Flow
      <4> QED BY <4>1, <4>2, <4>3
    <3>3. Flow("send", job'[c], got[r] \o wire[c], q, z, up[q], had[r])
      <4> DEFINE s == got[r] \o wire[c]
                 H == had[r]
                 k == job'[c]
                 alive == up[q]
      <4>1. Flow("read", j, s, q, z, alive, H)
        BY <2>3, <3>1
      <4>2. k.data = e /\ k.left = j.left /\ Len(e) = Len(j.data)
            /\ (Sure(H, q) => f = z) /\ (j.data = f => e = f)
        BY <2>6, <2>7, <3>2
      <4> HIDE DEF s, H, k, alive, j, f, q
      <4>3. Flow("send", k, s, q, z, alive, H)
        BY <4>1, <4>2 DEF Flow, Stage
      <4> QED BY <4>3 DEF s, H, k, alive
    <3>4. /\ pc'[c] = "send" /\ conn'[c] = q /\ call'[r] = c
          /\ got' = got /\ up' = up /\ had' = had /\ wire' = wire
      BY <2>3, <2>8, <2>10 DEF client
    <3>5. Flow(pc'[c], job'[c], got'[r] \o wire'[c], conn'[c], z, up'[conn'[c]], had'[r])
      BY <3>3, <3>4
    <3> QED BY <3>4, <3>5 DEF StreamOK
  <2>11. ServeOK(c)'
    <3>1. file'[conn'[c]] = f
      BY <2>3
    <3> QED BY <2>4, <2>6, <2>7, <3>1 DEF ServeOK
  <2> QED BY <2>3, <2>7, <2>8, <2>9, <2>10, <2>11, ServeStream
<1>3. CASE CSend(c)
  <2> DEFINE j == job[c]
             i == Min(j.left)
             t == Contents(q)
             next == "read"
  <2>1. CASE ~Read(c) /\ Die(q, wire)
    <3> DEFINE sent == wire
    <3>1. Die(q, sent) /\ sent = wire
      BY <2>1
    <3> HIDE DEF sent, q
    <3> QED BY <3>1, DieStream DEF q
  <2>2. CASE ~(~Read(c) /\ Die(q, wire))
    <3>1. /\ pc[c] = "send" /\ Advance(c, i, next) /\ UNCHANGED <<up, file, client, had>>
          /\ wire' = Sent(c, Block(i, CCount(Len(j.data)), Piece(j.data, i), t))
      BY <1>3, <2>2 DEF CSend
    <3>2. /\ file[q] # Missing /\ Len(j.data) <= Len(file[q])
          /\ j \in [data : Data, left : SUBSET Nat]
      BY <1>0, <3>1 DEF ServeOK, TypeOK
    <3> DEFINE m == Len(j.data) \div B
    <3>3. PICK k \in 0..m : j.left = k..m
      BY <1>0, <3>1 DEF ServeOK
    <3>4. m \in Nat /\ k \in Nat /\ k <= m
      BY <3>2, <3>3, DataParts, Quotient
    <3> HIDE DEF m
    <3>5. i = k /\ i \in j.left /\ j.left \ {i} = (k + 1)..m /\ (j.left # {i} => k + 1 \in 0..m)
      BY <3>3, <3>4, MinOfInterval
    <3>6. ASSUME j.left # {i}, pc'[c] = next, job'[c].data = j.data, job'[c].left = j.left \ {i}
          PROVE  ServeOK(c)'
      <4>1. conn'[c] = q /\ file' = file
        BY <3>1, <3>6 DEF Advance
      <4> HIDE DEF i
      <4>2. job'[c].left = (k + 1)..m /\ k + 1 \in 0..m
        BY <3>5, <3>6
      <4> QED BY <3>2, <3>6, <4>1, <4>2 DEF ServeOK, m
    <3>7. t \in Data
      BY <1>0, ContentsTyped
    <3>8. ASSUME NEW r \in Peers, NEW f \in Data, call[r] = c, Sure(had[r], q), f \in had[r]
          PROVE  t = f
      <4>1. t \in had[r]
        BY <3>8, Reader
      <4>2. \E y : had[r] = {y}
        BY <1>0, <3>8, FS_Singleton DEF Sure, Typed
      <4> QED BY <3>8, <4>1, <4>2
    <3>9. wire' = Sent(c, Block(i, Counted(q, j.data), Piece(j.data, i), t))
      BY <3>1 DEF Counted
    <3>10. next \in {"read", "send"} /\ i \in j.left
      BY <3>5
    <3> HIDE DEF i, t, next
    <3> QED BY <3>1, <3>6, <3>7, <3>8, <3>9, <3>10, SendStream
  <2> QED BY <2>1, <2>2
<1> QED BY <1>1, <1>2, <1>3 DEF CHandler

-----------------------------------------------------------------------------
(* The clients.                                                            *)

\* The first block that a client received, and no other, tells the number of all
\* and the hash.
LEMMA FirstBlock ==
    ASSUME NEW place, NEW j, NEW g \in Seq(BlockSet), NEW w \in Seq(BlockSet),
           NEW q, NEW f \in Data, NEW alive, NEW H, NEW b,
           g # <<>>, b = g[1], b.status = "OK", Flow(place, j, g \o w, q, f, alive, H)
    PROVE  /\ Numbered(g \o w, Counted(q, f)) /\ b.count = Counted(q, f)
           /\ Sure(H, q) => Faithful(g \o w, f) /\ b.total = f
<1> DEFINE s == g \o w
           n == Counted(q, f)
<1>1. 1 \in DOMAIN s /\ s[1] = b /\ s # <<>>
  BY FirstOf
<1>2. 1 \in DOMAIN g
  OBVIOUS
<1>3. s # <<Refusal>>
  <2>1. <<Refusal>>[1].status # "OK"
    BY DEF Refusal
  <2> HIDE DEF s
  <2> QED BY <1>1, <2>1
<1>4. Flow(place, j, s, q, f, alive, H)
  OBVIOUS
<1> HIDE DEF s, n
<1>5. Numbered(s, n)
  BY <1>1, <1>3, <1>4 DEF Flow, Stage, n
<1>7. Sure(H, q) => Faithful(s, f)
  BY <1>4 DEF Flow
<1>8. b.count = n
  BY <1>1, <1>5 DEF Numbered
<1>9. Sure(H, q) => b.total = f
  BY <1>1, <1>7 DEF Faithful
<1> QED BY <1>5, <1>7, <1>8, <1>9 DEF s, n

\* The client of a C peer.  The blocks of one content agree; the stream of one who
\* lives is complete; and all the blocks of one content make that content.
LEMMA CClientStream ==
    ASSUME CopyInv, StreamInv, NEW p \in CPeers, CClient(p), Shape'
    PROVE  StreamInv'
<1> USE Apart
<1> DEFINE c == call[p]
           q == conn[c]
<1>0. Typed /\ TypeOK /\ ClientOK(p) /\ p \notin PyPeers
  BY DEF StreamInv, Typed
<1>1. CASE CStore(p)
  <2> DEFINE done == "check"
  <2>1. /\ Arrived(p) /\ NextBlock(p).status = "OK" /\ Keep(p) /\ done \in {"check", "gathered"}
        /\ SaveAs(p, WriteAt(file[p], NextBlock(p).num * B, UpToNul(NextBlock(p).payload)))
        /\ pc' = [pc EXCEPT ![p] = IF Len(got'[p]) = got'[p][1].count THEN done ELSE "reading"]
        /\ UNCHANGED <<up, call, conn, how, job, asked, tries, before>>
    BY <1>1 DEF CStore
  <2> HIDE DEF done
  <2> QED BY <2>1, StoreStream
<1>2. ASSUME pc[p] = "reading"
      PROVE  /\ c \in Conns /\ q = asked[p] /\ got[p] \in Seq(BlockSet) /\ wire[c] \in Seq(BlockSet)
             /\ \A i \in DOMAIN got[p] : got[p][i].status = "OK"
             /\ \E f \in Data : Flow(pc[c], job[c], got[p] \o wire[c], q, f, up[q], had[p])
  <2>1. c \in Conns
    BY <1>2 DEF CopyInv, Wired
  <2>2. q = asked[p] /\ \A i \in DOMAIN got[p] : got[p][i].status = "OK"
    BY <1>0, <2>1 DEF ClientOK, AskOK
  <2> QED BY <2>1, <2>2, Reader
<1>3. CASE CGiveUp(p)
  <2> DEFINE e == IF Consistent(p) THEN "refused" ELSE "aborted"
  <2>1. /\ pc[p] = "reading" /\ wire[c] # <<>> /\ HangUp(p, "idle")
        /\ UNCHANGED <<up, file, had, job, asked, tries, before>>
        /\ how' = [how EXCEPT ![p] = e] /\ got' = [got EXCEPT ![p] = <<>>]
    BY <1>3 DEF CGiveUp, End, Arrived
  <2>2. e \in Ends /\ e # "mismatch"
    BY DEF Ends
  <2>3. ASSUME e = "aborted", Unchanged(p) PROVE FALSE
    <3>1. ~Consistent(p)
      BY <2>3
    <3>2. got[p] # <<>> /\ Sure(had[p], q)
      BY <2>3, <3>1 DEF Consistent, Sure, Unchanged
    <3>3. PICK f \in Data : Flow(pc[c], job[c], got[p] \o wire[c], q, f, up[q], had[p])
      BY <1>2, <2>1
    <3> DEFINE g == got[p]
               w == wire[c]
               H == had[p]
               alive == up[q]
               place == pc[c]
               j == job[c]
               n == Counted(q, f)
               b == g[1]
    <3>4. /\ g \in Seq(BlockSet) /\ w \in Seq(BlockSet) /\ g # <<>> /\ w # <<>>
          /\ b.status = "OK" /\ Sure(H, q) /\ b = g[1]
          /\ Flow(place, j, g \o w, q, f, alive, H)
      <4>1. got[p] \in Seq(BlockSet) /\ \A i \in DOMAIN got[p] : got[p][i].status = "OK"
        BY <1>2, <2>1
      <4>2. 1 \in DOMAIN got[p]
        BY <3>2, <4>1
      <4> QED BY <1>2, <2>1, <3>2, <3>3, <4>1, <4>2
    <3>5. NextBlock(p) = Head(w) /\ (Consistent(p) <=> (g # <<>> => /\ NextBlock(p).count = b.count
                                          /\ NextBlock(p).total = b.total))
      BY DEF NextBlock, Consistent
    <3> HIDE DEF g, w, H, alive, place, j, q, b
    <3>6. /\ Numbered(g \o w, n) /\ b.count = n /\ Faithful(g \o w, f) /\ b.total = f
      BY <3>4, FirstBlock
    <3> HIDE DEF n
    <3>7. Head(w).count = n /\ Head(w).total = f
      BY <3>4, <3>6, FirstPart
    <3> QED BY <3>1, <3>5, <3>6, <3>7
  <2> HIDE DEF e
  <2> QED BY <1>0, <2>1, <2>2, <2>3, HangUpStream
<1>4. CASE CEof(p)
  <2>1. CASE Die(p, wire)
    <3> DEFINE sent == wire
    <3>1. Die(p, sent) /\ sent = wire
      BY <2>1
    <3> HIDE DEF sent
    <3> QED BY <3>1, DieStream
  <2>2. CASE /\ HangUp(p, "idle")
             /\ \E e \in {"aborted", "mismatch"} : End(p, e)
             /\ UNCHANGED <<up, file, listed, holder, job, had>>
    <3>0. PICK e \in {"aborted", "mismatch"} : End(p, e)
      BY <2>2
    <3>1. /\ pc[p] = "reading" /\ wire[c] = <<>> /\ pc[c] = "closed"
          /\ UNCHANGED <<up, file, had, job, asked, tries, before>>
          /\ how' = [how EXCEPT ![p] = e] /\ got' = [got EXCEPT ![p] = <<>>]
      BY <1>4, <2>2, <3>0 DEF CEof, End, AtEof
    <3>2. ASSUME up[asked[p]] PROVE FALSE
      <4>1. PICK f \in Data : Flow(pc[c], job[c], got[p] \o wire[c], q, f, up[q], had[p])
        BY <1>2, <3>1
      <4> DEFINE g == got[p]
                 H == had[p]
                 alive == up[q]
                 j == job[c]
                 n == Counted(q, f)
                 b == g[1]
      <4>2. /\ g \in Seq(BlockSet) /\ alive = TRUE
            /\ \A i \in DOMAIN g : g[i].status = "OK"
            /\ Flow("closed", j, g \o <<>>, q, f, alive, H)
        <5>1. q = asked[p]
          BY <1>2, <3>1
        <5> QED BY <1>2, <3>1, <3>2, <4>1, <5>1
      <4>3. g # <<>> => Len(g) # b.count
        BY <1>0, <3>1 DEF ClientOK, AskOK
      <4>4. n \in Nat \ {0}
        BY CountedBounds
      <4> HIDE DEF g, H, alive, j, q, b
      <4>5. g \o <<>> = g
        BY <4>2, ConcatEmptySeq
      <4>6. g # <<>> => 1 \in DOMAIN g /\ b.status = "OK"
        BY <4>2 DEF b
      <4>7. g # <<Refusal>>
        <5>1. <<Refusal>> # <<>> /\ <<Refusal>>[1].status # "OK"
          BY DEF Refusal
        <5> QED BY <4>6, <5>1 DEF b
      <4>8. Flow("closed", j, g, q, f, TRUE, H)
        BY <4>2, <4>5
      <4>9. Numbered(g, n) /\ Len(g) = n
        BY <4>7, <4>8 DEF Flow, Stage
      <4>10. g # <<>>
        BY <4>4, <4>9
      <4> HIDE DEF n
      <4>11. b.count = n
        BY <4>6, <4>9, <4>10 DEF Numbered, b
      <4> QED BY <4>3, <4>9, <4>10, <4>11
    <3>3. e \in Ends
      BY <3>0 DEF Ends
    <3> QED BY <1>0, <2>2, <3>1, <3>2, <3>3, HangUpStream
  <2> QED BY <1>4, <2>1, <2>2 DEF CEof
<1>5. CASE CCheck(p)
  <2> DEFINE g == got[p]
             l == Len(g)
             e == IF Contents(p) = g[l].total THEN "ok" ELSE "mismatch"
  <2>1. /\ pc[p] = "check" /\ HangUp(p, "idle")
        /\ UNCHANGED <<up, file, had, job, asked, tries, before>>
        /\ how' = [how EXCEPT ![p] = e] /\ got' = [got EXCEPT ![p] = <<>>]
    BY <1>5 DEF CCheck, End
  <2>2. e \in Ends /\ e # "aborted"
    BY DEF Ends
  <2>3. ASSUME e = "mismatch", Unchanged(p)
        PROVE  \E f \in had[p] : Len(f) < Len(before[p]) \/ \E i \in DOMAIN f : f[i] = NUL
    <3>1. c \in Conns
      BY <2>1 DEF CopyInv, Wired
    <3>2. PICK f \in Data : Whole(got[p], asked[p], f, had[p])
      BY <1>0, <2>1, <3>1, Received
    <3>3. Sure(had[p], asked[p]) /\ f \in had[p]
      BY <2>3, <3>2 DEF Unchanged, Sure, Whole
    <3>4. /\ g \in Seq(BlockSet) /\ g # <<>> /\ \A i \in DOMAIN g : g[i].status = "OK"
          /\ file[p] \in Data /\ file[p] = Contents(p)
      BY <1>0, <2>1, <3>1, ContentsTyped DEF Typed, ClientOK, AskOK
    <3>5. Numbered(g, Counted(asked[p], f)) /\ l = Counted(asked[p], f) /\ Faithful(g, f)
      BY <3>2, <3>3 DEF Whole
    <3>6. g[l].total = f
      <4>1. l \in DOMAIN g
        BY <3>4
      <4> HIDE DEF g, l
      <4> QED BY <3>4, <3>5, <4>1 DEF Faithful
    <3>7. ASSUME Plain(f), Len(before[p]) <= Len(f) PROVE FALSE
      <4>1. Placed(file[p], g, f)
        BY <1>0, <2>3, <3>1, <3>3, <3>7 DEF ClientOK, WrittenOK, Unchanged
      <4>2. file[p] = f
        <5> DEFINE mine == file[p]
                   o == asked[p]
        <5>1. mine \in Data /\ Placed(mine, g, f) /\ g \in Seq(BlockSet)
              /\ Numbered(g, Counted(o, f)) /\ Len(g) = Counted(o, f)
          BY <3>4, <3>5, <4>1
        <5> HIDE DEF mine, o, g
        <5>2. mine = f
          BY <5>1, PlacedAll
        <5> QED BY <5>2 DEF mine
      <4> QED BY <2>3, <3>4, <3>6, <4>2
    <3>8. Len(f) \in Nat /\ Len(before[p]) \in Nat
      BY <1>0, DataParts DEF TypeOK
    <3>9. Plain(f) \/ \E i \in DOMAIN f : f[i] = NUL
      BY DEF Plain
    <3> QED BY <3>3, <3>7, <3>8, <3>9
  <2> HIDE DEF e
  <2> QED BY <1>0, <2>1, <2>2, <2>3, HangUpStream
<1> QED BY <1>1, <1>3, <1>4, <1>5 DEF CClient

\* The client of a Python peer.
LEMMA PyClientStream ==
    ASSUME CopyInv, StreamInv, NEW p \in PyPeers, PyClient(p), Shape'
    PROVE  StreamInv'
<1> USE Apart
<1>0. Typed /\ TypeOK /\ ClientOK(p) /\ p \notin CPeers
  BY DEF StreamInv, Typed
<1>1. CASE PyStore(p)
  <2> DEFINE done == "gathered"
  <2>1. /\ Arrived(p) /\ NextBlock(p).status = "OK" /\ Keep(p) /\ done \in {"check", "gathered"}
        /\ pc' = [pc EXCEPT ![p] = IF Len(got'[p]) = got'[p][1].count THEN done ELSE "reading"]
        /\ UNCHANGED <<up, call, conn, how, job, asked, tries, before, file, had>>
    BY <1>1 DEF PyStore
  <2> HIDE DEF done
  <2> QED BY <2>1, StoreStream
<1>2. ASSUME pc[p] = "reading", NEW e \in Ends, e # "ok", NEW next \in {"idle", "dead"},
             HangUp(p, next), End(p, e), UNCHANGED <<up, file, had, job>>
      PROVE  StreamInv'
  <2>1. /\ UNCHANGED <<up, file, had, job, asked, tries, before>>
        /\ how' = [how EXCEPT ![p] = e] /\ got' = [got EXCEPT ![p] = <<>>]
        /\ next # "writing" /\ next \in {"idle", "dead", "writing"}
    BY <1>2 DEF End
  <2> QED BY <1>0, <1>2, <2>1, HangUpStream
<1>3. CASE PyGiveUp(p)
  BY <1>2, <1>3 DEF PyGiveUp, Arrived, Ends
<1>4. CASE PyRaise(p)
  BY <1>2, <1>4 DEF PyRaise, Arrived, AtEof, Ends
<1>5. CASE PyGathered(p)
  <2> DEFINE next == "writing"
             e == "none"
  <2>1. /\ pc[p] = "gathered" /\ HangUp(p, next) /\ next \in {"idle", "dead", "writing"}
        /\ next = "writing" /\ next # "idle" /\ e \in Ends
        /\ UNCHANGED <<up, file, had, job, asked, tries, before, how, got>>
    BY <1>5 DEF PyGathered, Ends
  <2> HIDE DEF next, e
  <2> QED BY <2>1, HangUpStream
<1>6. CASE PyOpen(p)
  <2> DEFINE f == <<>>
  <2>1. /\ pc[p] = "writing" /\ pc' = [pc EXCEPT ![p] = "opened"] /\ SaveAs(p, f)
        /\ UNCHANGED <<up, call, conn, job, wire, asked, tries, before, got, how>>
    BY <1>6 DEF PyOpen, client
  <2>2. f \in Data
    BY DEF Data
  <2> HIDE DEF f
  <2> QED BY <2>1, <2>2, WriteStream
<1>7. CASE PyWrite(p)
  <2> DEFINE f == Joined(got[p])
  <2>1. /\ pc[p] = "opened" /\ pc' = [pc EXCEPT ![p] = "idle"] /\ SaveAs(p, f) /\ End(p, "ok")
        /\ UNCHANGED <<up, call, conn, job, wire, asked, tries, before>>
    BY <1>7 DEF PyWrite, End
  <2>2. PICK x \in Data : Whole(got[p], asked[p], x, had[p])
    BY <1>0, <2>1 DEF ClientOK, KeptOK
  <2>3. /\ got[p] \in Seq(BlockSet) /\ Counted(asked[p], x) \in Nat
        /\ Numbered(got[p], Counted(asked[p], x)) /\ Len(got[p]) = Counted(asked[p], x)
        /\ Sure(had[p], asked[p]) => x \in had[p] /\ Faithful(got[p], x)
    BY <1>0, <2>2, CountedBounds DEF Whole, Typed
  <2>4. f \in Data /\ (Sure(had[p], asked[p]) => f \in had[p])
    <3> DEFINE s == got[p]
               o == asked[p]
               n == Counted(o, x)
    <3>1. s \in Seq(BlockSet) /\ n \in Nat /\ Numbered(s, n) /\ Len(s) = n
      BY <2>3
    <3> HIDE DEF s, o, n
    <3>2. Joined(s) \in Data /\ (n = Counted(o, x) /\ Faithful(s, x) => Joined(s) = x)
      BY <3>1, JoinedBlocks
    <3> QED BY <2>3, <3>2 DEF s, o, n
  <2> HIDE DEF f
  <2> QED BY <2>1, <2>4, WriteStream
<1> QED BY <1>1, <1>3, <1>4, <1>5, <1>6, <1>7 DEF PyClient

-----------------------------------------------------------------------------

\* The first state.
LEMMA InitStream == Init => StreamInv
<1> SUFFICES ASSUME Init PROVE StreamInv
  OBVIOUS
<1> USE Apart
<1>1. Typed
  <2>1. Shape
    BY InitInv DEF IInv
  <2>2. file \in [Peers -> Data \cup {Missing}] /\ up \in [Peers -> BOOLEAN]
    BY StartsAssumption DEF Init
  <2>3. tries \in [Peers -> Nat] /\ asked \in [Peers -> Peers \cup {None}]
    BY TriesAssumption DEF Init
  <2>4. <<>> \in Data /\ NoJob \in [data : Data, left : SUBSET Nat] /\ "none" \in Ends
    BY DEF NoJob, Data, Ends
  <2>5. job \in [Conns -> [data : Data, left : SUBSET Nat]]
    <3> DEFINE J == [data : Data, left : SUBSET Nat]
    <3>1. NoJob \in J
      BY <2>4
    <3> HIDE DEF J
    <3>2. job \in [Conns -> J]
      BY <3>1 DEF Init
    <3> QED BY <3>2 DEF J
  <2>6. /\ had \in [Peers -> SUBSET Data] /\ before \in [Peers -> Data]
        /\ how \in [Peers -> Ends]
        /\ got \in [Peers -> Seq(BlockSet)] /\ wire \in [Conns -> Seq(BlockSet)]
    BY <2>4, Nothing DEF Init
  <2>7. \A p \in Peers : IsFiniteSet(had[p])
    BY FS_EmptySet DEF Init
  <2> QED BY <2>1, <2>2, <2>3, <2>5, <2>6, <2>7 DEF Typed, TypeOK, Shape
<1>2. ASSUME NEW p \in Peers PROVE ClientOK(p)
  <2>1. pc[p] = "idle" /\ call[p] = None /\ how[p] = "none" /\ got[p] = <<>>
    BY DEF Init
  <2> QED BY <2>1 DEF ClientOK, AskOK, StreamOK, KeptOK, WrittenOK, EndOK, Ended
<1>3. ASSUME NEW c \in Conns PROVE ServeOK(c)
  BY DEF Init, ServeOK
<1> QED BY <1>1, <1>2, <1>3 DEF StreamInv

\* Every step preserves the invariant.
LEMMA NextStream == IInv /\ CopyInv /\ StreamInv /\ [Next]_vars => StreamInv'
<1> SUFFICES ASSUME IInv, CopyInv, StreamInv, [Next]_vars PROVE StreamInv'
  OBVIOUS
<1> USE Apart
<1>1. Shape'
  BY NextInv DEF IInv
<1>2. ASSUME NEW p \in Peers, NEW q \in Peers, Ask(p, q) PROVE StreamInv'
  BY <1>1, <1>2, AskStream
<1>3. ASSUME NEW p \in Peers, Client(p) PROVE StreamInv'
  BY <1>1, <1>3, CClientStream, PyClientStream DEF Client
<1>4. ASSUME NEW c \in Conns, Serve(c) PROVE StreamInv'
  BY <1>1, <1>4, CHandlerStream, PyHandlerStream DEF Serve
<1>5. CASE UNCHANGED vars
  <2>1. /\ call' = call /\ pc' = pc /\ got' = got /\ asked' = asked /\ before' = before
        /\ how' = how /\ file' = file /\ had' = had /\ conn' = conn /\ wire' = wire
        /\ job' = job /\ up' = up /\ tries' = tries /\ holder' = holder /\ listed' = listed
    BY <1>5 DEF vars, client
  <2>2. Typed'
    BY <2>1 DEF StreamInv, Typed, TypeOK
  <2>3. ASSUME NEW p \in Peers PROVE ClientOK(p)'
    BY <2>1, <2>2, ClientFrame
  <2>4. ASSUME NEW c \in Conns PROVE ServeOK(c)'
    BY <2>1 DEF StreamInv, ServeOK
  <2> QED BY <2>2, <2>3, <2>4 DEF StreamInv
<1> QED BY <1>2, <1>3, <1>4, <1>5 DEF Next

\* The three parts together are inductive.
LEMMA AllInvariant == Spec => [](IInv /\ CopyInv /\ StreamInv)
<1>1. IInv /\ CopyInv /\ StreamInv /\ [Next]_vars => (IInv /\ CopyInv /\ StreamInv)'
  BY NextInv, NextCopy, NextStream
<1> QED BY InitInv, InitCopy, InitStream, <1>1, PTL DEF Spec

\* TypeOK: whatever is read, sent and written, a file stays a sequence of the bytes
\* that were there at first, and every message is a block.
THEOREM FilesTyped == Spec => []TypeOK
<1>1. StreamInv => TypeOK
  BY DEF StreamInv, Typed
<1> QED BY AllInvariant, <1>1, PTL

\* AbortHasCause: the blocks that send_message of a C peer receives contradict each
\* other, or end too early, only if the served file changed or the peer died.
THEOREM AbortsHaveCause == Spec => []AbortHasCause
<1>1. StreamInv => AbortHasCause
  <2> SUFFICES ASSUME StreamInv, NEW p \in CPeers, Ended(p, "aborted")
               PROVE  ~Unchanged(p) \/ ~up[asked[p]]
    BY DEF AbortHasCause
  <2>1. EndOK(p)
    BY Apart DEF StreamInv, ClientOK
  <2> QED BY <2>1 DEF EndOK
<1> QED BY AllInvariant, <1>1, PTL

\* MismatchHasCause: if the served file does not change and its peer lives, a C client
\* finds another hash than the announced one only because it does not truncate its own
\* longer file, or because fputs stops at a zero byte; of a peer that died it may have
\* compared its file with no hash at all.
THEOREM MismatchesHaveCause == Spec => []MismatchHasCause
<1>1. StreamInv => MismatchHasCause
  <2> SUFFICES ASSUME StreamInv, NEW p \in CPeers, Ended(p, "mismatch"), Unchanged(p),
                      up[asked[p]]
               PROVE  \E f \in had[p] : Len(f) < Len(before[p]) \/ \E i \in DOMAIN f : f[i] = NUL
    BY DEF MismatchHasCause
  <2>1. EndOK(p)
    BY Apart DEF StreamInv, ClientOK
  <2> QED BY <2>1 DEF EndOK
<1> QED BY AllInvariant, <1>1, PTL

\* PyCopy: the blocks that a Python client joins by their numbers are the file that a
\* Python peer read, and that of a C peer if nobody changed it meanwhile.
THEOREM PyCopies == Spec => []PyCopy
<1>1. StreamInv => PyCopy
  <2> SUFFICES ASSUME StreamInv, NEW p \in PyPeers, Ended(p, "ok"),
                      asked[p] \in PyPeers \/ Unchanged(p)
               PROVE  file[p] \in had[p]
    BY DEF PyCopy
  <2>1. EndOK(p) /\ Sure(had[p], asked[p])
    BY Apart DEF StreamInv, ClientOK, Sure, Unchanged
  <2> QED BY <2>1 DEF EndOK
<1> QED BY AllInvariant, <1>1, PTL
=============================================================================
