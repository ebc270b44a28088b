-------------------------- MODULE PeerNetworkProofs --------------------------
(***************************************************************************)
(* Theorems about PeerNetwork for every set of C and Python peers, every    *)
(* choice of contacts and ports and every number of connections.            *)
(***************************************************************************)
EXTENDS PeerNetwork, SequenceTheorems, TLAPS

(***************************************************************************)
(* The inductive invariant.  LockDiscipline alone is not inductive: a       *)
(* connection that is free must serve nobody, or the handler that is given  *)
(* it next would inherit a mutex, and CTake must find the reply it awaited. *)
(***************************************************************************)
WireTypes == /\ pc \in [Threads -> ClientPCs \cup HandlerPCs]
             /\ call \in [Threads -> Conns \cup {None}]
             /\ conn \in [Conns -> Requests \cup {None}]
             /\ reply \in [Conns -> Replies \cup {None}]

\* A connection is free exactly while its handler is idle.
FreeIsIdle == \A c \in Conns : conn[c] = None <=> pc[c] = "idle"

\* Threads await connections that exist, each its own, and a thread about to
\* replace its list has the reply.
Calls == /\ \A t \in Threads : call[t] # None => conn[call[t]] # None
         /\ \A t, u \in Threads : call[t] # None /\ call[t] = call[u] => t = u
         /\ \A t \in Threads : pc[t] = "take" =>
               call[t] # None /\ reply[call[t]] # None

Wired == WireTypes /\ FreeIsIdle /\ Calls

\* A handler that still has to send or announce a list has one.
HasList == \A c \in Conns :
    pc[c] \in {"reply", "announce", "announcing"} => seen[c] # <<>>

\* The parts of the type that connections do not carry; a Python peer's list is
\* never empty.
ListTypes == /\ up \in [Peers -> {"starting", "listening", "crashed"}]
             /\ network \in [Peers -> Seq(Entries)]
             /\ mutex \in [Peers -> Threads \cup {None}]
             /\ seen \in [Threads -> Seq(Entries)]
             /\ at \in [Threads -> Nat]
             /\ aged \in [Peers -> Nat]
             /\ \A p \in PyPeers : network[p] # <<>>

IInv == ListTypes /\ Wired /\ LockDiscipline /\ HasList

-----------------------------------------------------------------------------
(* Lists of peers.                                                         *)

\* A list with one more entry is a list, and not empty.
LEMMA AppendIsSeq ==
    ASSUME NEW S, NEW s \in Seq(S), NEW e \in S
    PROVE  Append(s, e) \in Seq(S) /\ Append(s, e) # <<>>
BY AppendProperties

\* Overwriting the last entry and counting one more keeps a list (handle_inform).
LEMMA OverwriteLast ==
    ASSUME NEW S, NEW s \in Seq(S), NEW e \in S
    PROVE  [s EXCEPT ![Len(s)] = e] \in Seq(S)
<1>1. CASE s = <<>>
  <2>1. Len(s) = 0 /\ DOMAIN s = {}
    BY <1>1
  <2>2. [s EXCEPT ![Len(s)] = e] = s
    BY <2>1
  <2> QED BY <2>2
<1>2. CASE s # <<>>
  <2>1. Len(s) \in 1..Len(s)
    BY <1>2
  <2> QED BY <2>1, ExceptSeq
<1> QED BY <1>1, <1>2

-----------------------------------------------------------------------------
(* What the operations on connections preserve.                            *)

\* A thread that may act: a client, or the handler of a live connection.
Live(t) == t \in Conns => conn[t] # None

\* The connection a call is given is a free one.
LEMMA FreeConn ==
    FreeConns # {} => FirstFree \in Conns /\ conn[FirstFree] = None
BY DEF FreeConns, FirstFree

\* The owner of a live thread is a peer.
LEMMA OwnerIsPeer ==
    ASSUME WireTypes, NEW t \in Threads, Live(t)
    PROVE  Owner(t) \in Peers
BY NoneAssumption, PeersAssumption DEF WireTypes, Owner, Live, Threads, Requests

\* Asking a peer keeps threads and connections in step.
LEMMA AskWired ==
    ASSUME Wired, NEW t \in Threads, Live(t), NEW q, NEW cmd \in Awaited,
           NEW waiting \in (ClientPCs \cup HandlerPCs) \ {"idle", "take"},
           Ask(t, q, cmd, waiting)
    PROVE  Wired'
<1> DEFINE f == FirstFree
<1>1. f \in Conns /\ conn[f] = None /\ f # t /\ f \in Threads /\ f # None
  BY FreeConn, NoneAssumption DEF Ask, Live, Threads
<1>2. Owner(t) \in Peers
  BY OwnerIsPeer DEF Wired
<1> DEFINE r == [to |-> q, from |-> Owner(t), cmd |-> cmd, about |-> None]
<1>3. r \in Requests /\ r # None
  BY <1>2, NoneAssumption DEF Ask, Reachable, Requests
<1>4. /\ conn' = [conn EXCEPT ![f] = r]
      /\ call' = [call EXCEPT ![t] = f]
      /\ pc' = [pc EXCEPT ![t] = waiting, ![f] = "start"]
      /\ reply' = reply
  BY DEF Ask, Dial
<1> HIDE DEF f, r
<1>5. WireTypes'
  BY <1>1, <1>3, <1>4 DEF Wired, WireTypes, HandlerPCs
<1>6. FreeIsIdle'
  BY <1>1, <1>3, <1>4 DEF Wired, WireTypes, FreeIsIdle, Live, Threads
<1>7. Calls'
  BY <1>1, <1>3, <1>4 DEF Wired, WireTypes, Calls
<1> QED BY <1>5, <1>6, <1>7 DEF Wired


\* A thread that hangs up leaves nothing behind.
LEMMA HangUpWired ==
    ASSUME Wired, NEW t \in Threads, Live(t), call[t] # None,
           pc[t] # "closed",
           NEW next \in (ClientPCs \cup HandlerPCs) \ {"idle", "take"},
           HangUp(t, next)
    PROVE  Wired'
<1> DEFINE c == call[t]
<1>1. c \in Conns /\ conn[c] # None /\ c \in Threads
  BY DEF Wired, WireTypes, Calls, Threads
<1>2. call' = [call EXCEPT ![t] = None]
  BY DEF HangUp
<1>3. \A u \in Threads : u # t => call[u] # c
  BY <1>1, NoneAssumption DEF Wired, Calls, Threads
<1>4. CASE pc[c] = "closed"
  <2>1. /\ pc' = [pc EXCEPT ![t] = next, ![c] = "idle"]
        /\ conn' = [conn EXCEPT ![c] = None]
        /\ reply' = [reply EXCEPT ![c] = None]
    BY <1>4 DEF HangUp
  <2>2. c # t
    BY <1>4
  <2> HIDE DEF c
  <2>3. WireTypes'
    BY <1>1, <1>2, <2>1 DEF Wired, WireTypes, HandlerPCs
  <2>4. FreeIsIdle'
    BY <1>1, <2>1, <2>2 DEF Wired, WireTypes, FreeIsIdle, Live, Threads
  <2>5. Calls'
    BY <1>1, <1>2, <1>3, <2>1, <2>2 DEF Wired, WireTypes, Calls
  <2> QED BY <2>3, <2>4, <2>5 DEF Wired
<1>5. CASE pc[c] # "closed"
  <2>1. pc' = [pc EXCEPT ![t] = next] /\ conn' = conn /\ reply' = reply
    BY <1>5 DEF HangUp
  <2> HIDE DEF c
  <2>2. WireTypes'
    BY <1>2, <2>1 DEF Wired, WireTypes
  <2>3. FreeIsIdle'
    BY <2>1 DEF Wired, WireTypes, FreeIsIdle, Live, Threads
  <2>4. Calls'
    BY <1>2, <2>1 DEF Wired, WireTypes, Calls
  <2> QED BY <2>2, <2>3, <2>4 DEF Wired
<1> QED BY <1>4, <1>5

\* A handler that returns frees its connection only if nobody awaits it.
LEMMA FinishWired ==
    ASSUME Wired, NEW c \in Conns, conn[c] # None,
           NEW r \in Replies \cup {None}, Finish(c, r)
    PROVE  Wired'
<1>0. c \in Threads
  BY DEF Threads
<1>1. CASE \E t \in Threads : call[t] = c
  <2>1. /\ pc' = [pc EXCEPT ![c] = "closed"]
        /\ reply' = [reply EXCEPT ![c] = IF r = None THEN reply[c] ELSE r]
        /\ call' = call /\ conn' = conn
    BY <1>1 DEF Finish
  <2>2. WireTypes'
    BY <2>1 DEF Wired, WireTypes, HandlerPCs
  <2>3. FreeIsIdle'
    BY <1>0, <2>1 DEF Wired, WireTypes, FreeIsIdle
  <2>4. Calls'
    BY <1>0, <2>1 DEF Wired, WireTypes, Calls
  <2> QED BY <2>2, <2>3, <2>4 DEF Wired
<1>2. CASE ~\E t \in Threads : call[t] = c
  <2>1. /\ pc' = [pc EXCEPT ![c] = "idle"]
        /\ reply' = [reply EXCEPT ![c] = None]
        /\ conn' = [conn EXCEPT ![c] = None]
        /\ call' = call
    BY <1>2 DEF Finish
  <2>2. WireTypes'
    BY <2>1 DEF Wired, WireTypes, HandlerPCs
  <2>3. FreeIsIdle'
    BY <1>0, <2>1 DEF Wired, WireTypes, FreeIsIdle, Threads
  <2>4. Calls'
    BY <1>0, <1>2, <2>1 DEF Wired, WireTypes, Calls
  <2> QED BY <2>2, <2>3, <2>4 DEF Wired
<1> QED BY <1>1, <1>2

\* A thread that only moves on stays in step with its connection.
LEMMA MoveWired ==
    ASSUME Wired, NEW t \in Threads, Live(t),
           NEW next \in (ClientPCs \cup HandlerPCs) \ {"idle"},
           next = "take" => call[t] # None /\ reply[call[t]] # None,
           pc' = [pc EXCEPT ![t] = next], UNCHANGED wires
    PROVE  Wired'
<1>1. WireTypes'
  BY DEF Wired, WireTypes, wires
<1>2. FreeIsIdle'
  BY DEF Wired, WireTypes, FreeIsIdle, wires, Live, Threads
<1>3. Calls'
  BY DEF Wired, WireTypes, Calls, wires
<1> QED BY <1>1, <1>2, <1>3 DEF Wired

\* A process that dies takes its threads and sockets with it, and only those.
LEMMA CrashWired ==
    ASSUME Wired, NEW p \in Peers,
           NEW answered \in [Conns -> Replies \cup {None}],
           \A c \in Conns : reply[c] # None => answered[c] # None,
           Crash(p, answered)
    PROVE  Wired'
<1> DEFINE mine == {p} \cup {c \in Conns : conn[c] # None /\ conn[c].to = p}
           awaited(c) == \E t \in Threads \ mine : call[t] = c
           gone == {c \in Conns \ FreeConns :
                      ~awaited(c) /\ (c \in mine \/ pc[c] = "closed")}
<1>1. /\ pc' = [t \in Threads |-> IF t = p THEN "dead"
                                  ELSE IF t \in gone THEN "idle"
                                  ELSE IF t \in mine THEN "closed" ELSE pc[t]]
      /\ call' = [t \in Threads |-> IF t \in mine THEN None ELSE call[t]]
      /\ conn' = [c \in Conns |-> IF c \in gone THEN None ELSE conn[c]]
      /\ reply' = [c \in Conns |-> IF c \in gone THEN None ELSE answered[c]]
  BY DEF Crash
<1>2. p \notin Conns /\ p \in Threads /\ Conns \subseteq Threads
  BY PeersAssumption DEF Threads
<1>3. gone \subseteq Conns /\ \A c \in gone : conn[c] # None
  BY DEF FreeConns
<1>4. \A t \in Threads \ mine : call[t] \notin gone
  OBVIOUS
<1>5. \A c \in Conns : c \in mine => conn[c] # None
  BY <1>2
<1>6. p \in mine
  OBVIOUS
<1> HIDE DEF mine, gone
<1>7. WireTypes'
  BY <1>1, <1>2, <1>3 DEF Wired, WireTypes, HandlerPCs, ClientPCs
<1>8. FreeIsIdle'
  BY <1>1, <1>2, <1>3, <1>5 DEF Wired, WireTypes, FreeIsIdle
<1>9. Calls'
  <2>1. \A t \in Threads : call'[t] # None =>
           t \notin mine /\ call'[t] = call[t] /\ call[t] \in Conns \ gone
    BY <1>1, <1>4 DEF Wired, WireTypes
  <2>2. \A t \in Threads : pc'[t] = "take" => t \notin mine /\ pc[t] = "take"
    BY <1>1, <1>6
  <2>3. \A t \in Threads : call'[t] # None => conn'[call'[t]] # None
    BY <1>1, <2>1 DEF Wired, Calls
  <2>4. \A t, u \in Threads : call'[t] # None /\ call'[t] = call'[u] => t = u
    BY <2>1 DEF Wired, Calls
  <2>5. \A t \in Threads : pc'[t] = "take" =>
           call'[t] # None /\ reply'[call'[t]] # None
    BY <1>1, <1>4, <2>2 DEF Wired, WireTypes, Calls
  <2> QED BY <2>3, <2>4, <2>5 DEF Calls
<1> QED BY <1>7, <1>8, <1>9 DEF Wired


-----------------------------------------------------------------------------
(* What they do to the mutexes and to the handlers' lists.                 *)

Holding == {"inform", "asking", "take", "announcing"}
WithList == {"reply", "announce", "announcing"}

\* Nothing about the mutexes changes when nobody enters or leaves.
LEMMA LockFrame ==
    ASSUME LockDiscipline, mutex' = mutex,
           \A t \in Threads : Critical(t)' <=> Critical(t),
           \A t \in Threads : Critical(t) => Owner(t)' = Owner(t),
           ListTypes
    PROVE  LockDiscipline'
BY DEF LockDiscipline, ListTypes

\* A thread that makes a call outside the lists disturbs no mutex.
LEMMA AskLock ==
    ASSUME IInv, NEW t \in Threads, Live(t), NEW q, NEW cmd \in Awaited,
           NEW waiting,
           Ask(t, q, cmd, waiting), mutex' = mutex,
           t \in Peers => pc[t] # "merging" /\ waiting # "merging",
           t \in Conns => (pc[t] \in Holding <=> waiting \in Holding),
           waiting \notin WithList, seen' = seen
    PROVE  LockDiscipline' /\ HasList'
<1> DEFINE f == FirstFree
<1>1. f \in Conns /\ conn[f] = None /\ f # t /\ f \in Threads
  BY FreeConn DEF Ask, Live, Threads
<1>2. \E r : /\ r # None /\ conn' = [conn EXCEPT ![f] = r]
             /\ pc' = [pc EXCEPT ![t] = waiting, ![f] = "start"]
  <2>1. Owner(t) \in Peers
    BY OwnerIsPeer DEF IInv, Wired
  <2>2. [to |-> q, from |-> Owner(t), cmd |-> cmd, about |-> None] # None
    BY <2>1, NoneAssumption DEF Ask, Reachable, Requests
  <2> QED BY <2>2 DEF Ask, Dial
<1> HIDE DEF f
<1>3. \A u \in Threads : Critical(u)' <=> Critical(u)
  BY <1>1, <1>2, PeersAssumption
     DEF Critical, IInv, Wired, WireTypes, Holding, Live, Threads
<1>4. \A u \in Threads : Critical(u) => Owner(u)' = Owner(u)
  BY <1>1, <1>2, PeersAssumption
     DEF Critical, Owner, IInv, Wired, WireTypes, FreeIsIdle, Threads
<1>5. HasList'
  BY <1>1, <1>2 DEF HasList, IInv, Wired, WireTypes, WithList, Threads
<1> QED BY <1>3, <1>4, <1>5, LockFrame DEF IInv

\* A thread that gives up its call stays inside or outside its critical section.
LEMMA HangUpLock ==
    ASSUME IInv, NEW t \in Threads, Live(t), NEW next, HangUp(t, next),
           call[t] # None, pc[t] # "closed", mutex' = mutex,
           t \in Peers => pc[t] # "merging" /\ next # "merging",
           t \in Conns => (pc[t] \in Holding <=> next \in Holding),
           next \notin WithList, t \in Conns => seen' = seen,
           \A u \in Conns : seen'[u] = seen[u]
    PROVE  LockDiscipline' /\ HasList'
<1> DEFINE c == call[t]
<1>1. c \in Conns /\ c \in Threads
  BY DEF IInv, Wired, WireTypes, Threads
<1>2. \/ /\ pc[c] = "closed" /\ pc' = [pc EXCEPT ![t] = next, ![c] = "idle"]
         /\ conn' = [conn EXCEPT ![c] = None]
      \/ pc' = [pc EXCEPT ![t] = next] /\ conn' = conn
  BY DEF HangUp
<1> HIDE DEF c
<1>3. \A u \in Threads : Critical(u)' <=> Critical(u)
  BY <1>1, <1>2, PeersAssumption
     DEF Critical, IInv, Wired, WireTypes, Holding, Live, Threads
<1>4. \A u \in Threads : Critical(u) => Owner(u)' = Owner(u)
  BY <1>1, <1>2, PeersAssumption
     DEF Critical, Owner, IInv, Wired, WireTypes, Threads
<1>5. HasList'
  BY <1>1, <1>2, PeersAssumption
     DEF HasList, IInv, Wired, WireTypes, WithList, Threads
<1> QED BY <1>3, <1>4, <1>5, LockFrame DEF IInv

\* A thread that moves on, on the same side of its mutex, disturbs no mutex.
LEMMA MoveLock ==
    ASSUME IInv, NEW t \in Threads, NEW next, pc' = [pc EXCEPT ![t] = next],
           conn' = conn, mutex' = mutex,
           t \in Peers => pc[t] # "merging" /\ next # "merging",
           t \in Conns => (pc[t] \in Holding <=> next \in Holding),
           t \in Conns => (next \in WithList => seen'[t] # <<>>),
           \A u \in Conns \ {t} : seen'[u] = seen[u]
    PROVE  LockDiscipline' /\ HasList'
<1>1. \A u \in Threads : Critical(u)' <=> Critical(u)
  BY PeersAssumption DEF Critical, IInv, Wired, WireTypes, Holding, Threads
<1>2. \A u \in Threads : Critical(u) => Owner(u)' = Owner(u)
  BY DEF Owner
<1>3. HasList'
  BY DEF HasList, IInv, Wired, WireTypes, WithList, Threads
<1> QED BY <1>1, <1>2, <1>3, LockFrame DEF IInv


\* A handler that returns outside a critical section, or one that held the mutex
\* and releases it.
LEMMA FinishLock ==
    ASSUME IInv, NEW c \in Conns, conn[c] # None, NEW r, Finish(c, r),
           \/ pc[c] \notin Holding /\ mutex' = mutex
           \/ /\ pc[c] \in Holding
              /\ mutex' = [mutex EXCEPT ![conn[c].to] = None],
           \A u \in Conns \ {c} : seen'[u] = seen[u]
    PROVE  LockDiscipline' /\ HasList'
<1>1. c \in Threads /\ c \notin Peers /\ conn[c].to \in Peers
  BY PeersAssumption DEF Threads, IInv, Wired, WireTypes, Requests
<1>2. \/ pc' = [pc EXCEPT ![c] = "closed"] /\ conn' = conn
      \/ pc' = [pc EXCEPT ![c] = "idle"] /\ conn' = [conn EXCEPT ![c] = None]
  BY DEF Finish
<1>3. \A u \in Threads \ {c} : /\ Critical(u)' <=> Critical(u)
                               /\ Critical(u) => Owner(u)' = Owner(u)
  BY <1>1, <1>2, PeersAssumption
     DEF Critical, Owner, IInv, Wired, WireTypes, Threads
<1>4. ~Critical(c)' /\ (Critical(c) <=> pc[c] \in Holding)
  BY <1>1, <1>2 DEF Critical, IInv, Wired, WireTypes, Holding, Threads
<1>5. Owner(c) = conn[c].to
  BY <1>1 DEF Owner
<1>6. HasList'
  BY <1>1, <1>2, PeersAssumption DEF HasList, IInv, Wired, WireTypes, Threads
<1>7. LockDiscipline'
  <2>1. \A u \in Threads : Critical(u) => Owner(u) \in Peers
    BY OwnerIsPeer, PeersAssumption DEF Critical, Live, IInv, Wired
  <2>2. CASE mutex' = mutex /\ pc[c] \notin Holding
    BY <1>1, <1>3, <1>4, <2>1, <2>2 DEF LockDiscipline, IInv, ListTypes
  <2>3. CASE /\ mutex' = [mutex EXCEPT ![conn[c].to] = None]
             /\ pc[c] \in Holding
    <3> DEFINE h == conn[c].to
    <3>1. Critical(c) /\ mutex[h] = c
      BY <1>1, <1>4, <1>5, <2>3 DEF LockDiscipline, IInv
    <3>2. mutex' = [mutex EXCEPT ![h] = None] /\ h \in Peers
      BY <1>1, <2>3
    <3> HIDE DEF h
    <3>3. ASSUME NEW q \in Peers, mutex'[q] # None
          PROVE  Critical(mutex[q])' /\ Owner(mutex[q])' = q
      <4> DEFINE u == mutex[q]
      <4>1. q # h /\ mutex'[q] = u
        BY <3>2, <3>3 DEF IInv, ListTypes
      <4>2. Critical(u) /\ Owner(u) = q /\ u \in Threads
        BY <3>3, <4>1 DEF LockDiscipline, IInv, ListTypes
      <4>3. u # c
        BY <1>5, <4>1, <4>2 DEF h
      <4> QED BY <1>3, <4>1, <4>2, <4>3
    <3>4. ASSUME NEW u \in Threads, Critical(u)'
          PROVE  mutex'[Owner(u)'] = u
      <4>1. u # c /\ Critical(u) /\ Owner(u)' = Owner(u)
        BY <1>3, <1>4, <3>4
      <4>2. Owner(u) # h /\ mutex[Owner(u)] = u
        BY <3>1, <4>1 DEF LockDiscipline, IInv
      <4> QED BY <2>1, <3>2, <4>1, <4>2 DEF IInv, ListTypes
    <3> QED BY <3>3, <3>4 DEF LockDiscipline
  <2> QED BY <2>2, <2>3
<1> QED BY <1>6, <1>7

\* A process that dies leaves its mutex with nobody, and the others alone.
LEMMA CrashLock ==
    ASSUME IInv, NEW p \in Peers, NEW answered, Crash(p, answered)
    PROVE  LockDiscipline' /\ HasList' /\ ListTypes'
<1> DEFINE mine == {p} \cup {c \in Conns : conn[c] # None /\ conn[c].to = p}
           awaited(c) == \E t \in Threads \ mine : call[t] = c
           gone == {c \in Conns \ FreeConns :
                      ~awaited(c) /\ (c \in mine \/ pc[c] = "closed")}
<1>1. /\ pc' = [t \in Threads |-> IF t = p THEN "dead"
                                  ELSE IF t \in gone THEN "idle"
                                  ELSE IF t \in mine THEN "closed" ELSE pc[t]]
      /\ conn' = [c \in Conns |-> IF c \in gone THEN None ELSE conn[c]]
      /\ mutex' = [mutex EXCEPT ![p] = None]
      /\ seen' = [t \in Threads |-> IF t \in mine THEN <<>> ELSE seen[t]]
      /\ at' = [t \in Threads |-> IF t \in mine THEN 0 ELSE at[t]]
      /\ up' = [up EXCEPT ![p] = "crashed"]
      /\ network' = network /\ aged' = aged
  BY DEF Crash
<1>2. /\ p \notin Conns /\ p \in Threads /\ Conns \subseteq Threads
      /\ p \in mine
  BY PeersAssumption DEF Threads
<1>3. \A t \in Threads \ mine : pc'[t] = pc[t] \/ (pc[t] = "closed" /\ pc'[t] = "idle")
  BY <1>1, <1>2
<1>4. \A t \in Threads \ mine : Critical(t)' <=> Critical(t)
  BY <1>1, <1>2 DEF Critical, Threads
<1>5. \A t \in mine : ~Critical(t)' /\ (Critical(t) => Owner(t) = p)
  BY <1>1, <1>2, PeersAssumption DEF Critical, Owner, Threads
<1>6. \A t \in Threads \ mine : Critical(t) => Owner(t)' = Owner(t) /\ Owner(t) # p
  BY <1>1, <1>2, PeersAssumption DEF Critical, Owner, Threads
<1>7. HasList'
  BY <1>1, <1>2 DEF HasList, IInv, Threads
<1>8. ListTypes'
  BY <1>1 DEF ListTypes, IInv
<1>9. LockDiscipline'
  <2>1. ASSUME NEW q \in Peers, mutex'[q] # None
        PROVE  Critical(mutex[q])' /\ Owner(mutex[q])' = q
    <3> DEFINE u == mutex[q]
    <3>1. q # p /\ mutex'[q] = u
      BY <1>1, <2>1 DEF IInv, ListTypes
    <3>2. Critical(u) /\ Owner(u) = q /\ u \in Threads
      BY <2>1, <3>1 DEF LockDiscipline, IInv, ListTypes
    <3>3. u \notin mine
      BY <1>5, <3>1, <3>2
    <3> QED BY <1>4, <1>6, <3>1, <3>2, <3>3
  <2>2. ASSUME NEW u \in Threads, Critical(u)'
        PROVE  mutex'[Owner(u)'] = u
    <3>1. /\ u \notin mine /\ Critical(u)
          /\ Owner(u)' = Owner(u) /\ Owner(u) # p
      BY <1>4, <1>5, <1>6, <2>2
    <3>2. mutex[Owner(u)] = u /\ Owner(u) \in Peers
      BY <3>1, OwnerIsPeer, PeersAssumption
         DEF LockDiscipline, IInv, Wired, Critical, Live
    <3> QED BY <1>1, <3>1, <3>2 DEF IInv, ListTypes
  <2> QED BY <2>1, <2>2 DEF LockDiscipline
<1> QED BY <1>7, <1>8, <1>9


-----------------------------------------------------------------------------
(* Every step preserves the invariant.                                     *)

AllPCs == ClientPCs \cup HandlerPCs

\* send_message: the request goes out, or nobody listens and it returns.
LEMMA SendInv ==
    ASSUME IInv, NEW t \in Threads, Live(t), NEW q, NEW cmd \in Awaited,
           NEW waiting \in AllPCs \ {"idle", "take"},
           NEW next \in AllPCs \ {"idle", "take"},
           Send(t, q, cmd, waiting, next) \/ PySend(t, q, cmd, waiting),
           t \in Peers => pc[t] # "merging" /\ "merging" \notin {waiting, next},
           t \in Conns => /\ pc[t] \in Holding <=> waiting \in Holding
                          /\ pc[t] \in Holding <=> next \in Holding
                          /\ Send(t, q, cmd, waiting, next),
           {waiting, next} \cap WithList = {},
           mutex' = mutex, seen' = seen
    PROVE  Wired' /\ LockDiscipline' /\ HasList'
<1>1. CASE Ask(t, q, cmd, waiting)
  BY <1>1, AskWired, AskLock DEF IInv, AllPCs
<1>2. CASE pc' = [pc EXCEPT ![t] = next] /\ UNCHANGED wires
  <2>1. conn' = conn
    BY <1>2 DEF wires
  <2> QED BY <1>2, <2>1, MoveWired, MoveLock DEF IInv, AllPCs
<1>3. CASE /\ pc' = [pc EXCEPT ![t] = "dead"] /\ UNCHANGED wires
           /\ t \notin Conns
  <2>1. conn' = conn
    BY <1>3 DEF wires
  <2>2. "dead" \in AllPCs \ {"idle", "take"} /\ "dead" # "merging"
    BY DEF AllPCs, ClientPCs
  <2> QED BY <1>3, <2>1, <2>2, MoveWired, MoveLock DEF IInv, AllPCs
<1> QED BY <1>1, <1>2, <1>3 DEF Send, PySend, Dies

\* The lists and counters that a step leaves alone keep their types.
LEMMA ListFrame ==
    ASSUME ListTypes, UNCHANGED <<state, seen, at>>
    PROVE  ListTypes'
BY DEF ListTypes, state

\* The death of a process preserves the invariant.
LEMMA CrashInv ==
    ASSUME IInv, NEW p \in Peers, Crash(p, reply)
    PROVE  IInv'
<1>1. reply \in [Conns -> Replies \cup {None}]
  BY DEF IInv, Wired, WireTypes
<1> QED BY <1>1, CrashWired, CrashLock DEF IInv

\* A client or a handler of the C peer gets the reply it awaited, or none.
LEMMA CAwaitInv ==
    ASSUME IInv, NEW t \in Threads, NEW waiting, NEW next,
           CReply(t, waiting, next) \/ CEof(t, waiting, next),
           \/ t \in Peers /\ waiting \in {"registering", "retrieving"}
                          /\ next = "joined"
           \/ t \in Conns /\ waiting = "asking" /\ next = "inform"
    PROVE  IInv'
<1>1. pc[t] = waiting /\ call[t] # None
  BY DEF CReply, CEof, Answered, Eof
<1>2. Live(t)
  BY <1>1, PeersAssumption DEF Live, IInv, Wired, FreeIsIdle
<1>3. /\ t \in Peers => t \notin Conns
      /\ next \in AllPCs \ {"idle", "take"} /\ "take" \in AllPCs \ {"idle"}
      /\ next \notin WithList
      /\ t \in Conns => next \in Holding /\ waiting \in Holding
  BY PeersAssumption DEF AllPCs, ClientPCs, HandlerPCs, WithList, Holding
<1>4. CASE HangUp(t, next) /\ UNCHANGED <<state, seen, at>>
  <2>1. mutex' = mutex /\ seen' = seen
    BY <1>4 DEF state
  <2>2. Wired'
    BY <1>1, <1>2, <1>3, <1>4, HangUpWired DEF IInv, AllPCs
  <2>3. LockDiscipline' /\ HasList'
    BY <1>1, <1>2, <1>3, <1>4, <2>1, HangUpLock
  <2> QED BY <1>4, <2>2, <2>3, ListFrame DEF IInv
<1>5. CASE /\ Answered(t) /\ pc' = [pc EXCEPT ![t] = "take"]
           /\ UNCHANGED wires /\ UNCHANGED <<state, seen, at>>
  <2>1. mutex' = mutex /\ seen' = seen /\ conn' = conn
    BY <1>5 DEF state, wires
  <2>2. Wired'
    BY <1>2, <1>3, <1>5, MoveWired DEF IInv, AllPCs, Answered
  <2>3. LockDiscipline' /\ HasList'
    BY <1>1, <1>2, <1>3, <1>5, <2>1, MoveLock DEF Holding, WithList
  <2> QED BY <1>5, <2>2, <2>3, ListFrame DEF IInv
<1>6. CASE Crash(Owner(t), reply)
  BY <1>2, <1>6, OwnerIsPeer, CrashInv DEF IInv, Wired
<1> QED BY <1>4, <1>5, <1>6 DEF CReply, CEof

\* send_message takes the mutex to read the peers of an OK reply.
LEMMA CTakeInv ==
    ASSUME IInv, NEW t \in Threads, CTake(t)
    PROVE  IInv'
<1> DEFINE p == Owner(t)
           next == IF t \in Peers THEN "joined" ELSE "inform"
<1>1. /\ pc[t] = "take" /\ p \in CPeers /\ mutex[p] = None
      /\ network' = [network EXCEPT ![p] = reply[call[t]].peers]
      /\ HangUp(t, next)
      /\ UNCHANGED <<up, mutex, aged, seen, at>>
  BY DEF CTake, CThread
<1>2. Live(t)
  BY <1>1, PeersAssumption DEF Live, IInv, Wired, FreeIsIdle
<1>3. t \in Peers
  BY <1>1, <1>2, NoneAssumption
     DEF IInv, LockDiscipline, Critical, Live, Threads
<1>4. call[t] # None /\ reply[call[t]].peers \in Seq(Entries)
  BY <1>1 DEF IInv, Wired, WireTypes, Calls, Replies
<1>5. "joined" \in AllPCs \ {"idle", "take"} /\ "joined" \notin WithList
  BY DEF AllPCs, ClientPCs, WithList
<1>6. p \notin PyPeers
  BY <1>1, PeersAssumption
<1>7. Wired'
  BY <1>1, <1>2, <1>3, <1>4, <1>5, HangUpWired DEF IInv, AllPCs
<1>8. LockDiscipline' /\ HasList'
  BY <1>1, <1>2, <1>3, <1>4, <1>5, HangUpLock, PeersAssumption
<1>9. ListTypes'
  BY <1>1, <1>4, <1>6, PeersAssumption DEF ListTypes, IInv, Peers
<1> QED BY <1>7, <1>8, <1>9 DEF IInv


\* client_thread of the C peer.
LEMMA CClientInv ==
    ASSUME IInv, NEW p \in Peers, CClient(p) \/ CScan(p)
    PROVE  IInv'
<1>1. p \in Threads /\ Live(p) /\ p \notin Conns /\ Owner(p) = p
  BY PeersAssumption DEF Threads, Live, Owner
<1>2. /\ {"registering", "retrieving", "joined", "scanned"}
            \subseteq AllPCs \ {"idle", "take"}
      /\ {"registering", "retrieving", "joined", "scanned"} \cap WithList = {}
      /\ {"REGISTER", "RETRIEVE"} \subseteq Awaited
  BY DEF AllPCs, ClientPCs, WithList, Awaited
<1>3. CASE CBoot(p)
  <2>1. CASE FaultWithoutReply(p, Contact[p])
    BY <1>1, <2>1, CrashInv DEF FaultWithoutReply
  <2>2. CASE /\ Send(p, Contact[p], "REGISTER", "registering", "joined")
             /\ UNCHANGED <<state, seen, at>>
    <3>1. pc[p] = "boot" /\ mutex' = mutex /\ seen' = seen
      BY <1>3, <2>2 DEF CBoot, state
    <3>2. Wired' /\ LockDiscipline' /\ HasList'
      BY <1>1, <1>2, <2>2, <3>1, SendInv
    <3> QED BY <2>2, <3>2, ListFrame DEF IInv
  <2> QED BY <1>3, <2>1, <2>2 DEF CBoot
<1>4. CASE CPick(p)
  <2>1. CASE Crash(p, reply)
    BY <2>1, CrashInv
  <2>2. CASE \E q : /\ Send(p, q, "RETRIEVE", "retrieving", "joined")
                    /\ UNCHANGED <<state, seen, at>>
    <3>1. pc[p] = "scanned" /\ mutex' = mutex /\ seen' = seen
      BY <1>4, <2>2 DEF CPick, state
    <3>2. Wired' /\ LockDiscipline' /\ HasList'
      BY <1>1, <1>2, <2>2, <3>1, SendInv
    <3> QED BY <2>2, <3>2, ListFrame DEF IInv
  <2>3. CASE \E q : FaultWithoutReply(p, q)
    <3>1. Crash(p, reply)
      BY <2>3 DEF FaultWithoutReply, Owner
    <3> QED BY <3>1, CrashInv
  <2> QED BY <1>4, <2>1, <2>2, <2>3 DEF CPick
<1>5. CASE CScan(p)
  <2>1. /\ pc' = [pc EXCEPT ![p] = "scanned"] /\ UNCHANGED wires
        /\ pc[p] = "joined" /\ mutex' = mutex /\ conn' = conn
        /\ seen' = [seen EXCEPT ![p] = network[p]]
        /\ UNCHANGED <<state, at>>
    BY <1>5 DEF CScan, state, wires
  <2>2. Wired'
    BY <1>1, <1>2, <2>1, MoveWired DEF IInv, AllPCs
  <2>3. LockDiscipline' /\ HasList'
    <3>1. \A u \in Conns : seen'[u] = seen[u]
      BY <1>1, <2>1 DEF IInv, ListTypes, Threads
    <3> QED BY <1>1, <2>1, <3>1, MoveLock
  <2>4. ListTypes'
    BY <2>1 DEF ListTypes, IInv, state
  <2> QED BY <2>2, <2>3, <2>4 DEF IInv
<1>6. CASE \/ CReply(p, "registering", "joined") \/ CEof(p, "registering", "joined")
           \/ CReply(p, "retrieving", "joined")  \/ CEof(p, "retrieving", "joined")
  BY <1>1, <1>6, CAwaitInv
<1>7. CASE CTake(p)
  BY <1>1, <1>7, CTakeInv
<1> QED BY <1>3, <1>4, <1>5, <1>6, <1>7 DEF CClient

\* Entering a critical section: the mutex was free, so nobody of that peer was
\* in one.
LEMMA EnterLock ==
    ASSUME IInv, NEW t \in Threads, Live(t), NEW next \in AllPCs,
           mutex[Owner(t)] = None, mutex' = [mutex EXCEPT ![Owner(t)] = t],
           pc' = [pc EXCEPT ![t] = next], UNCHANGED <<wires, seen>>,
           t \in Peers => next = "merging",
           t \in Conns => next \in Holding,
           pc[t] = "announce" \/ next \notin WithList
    PROVE  LockDiscipline' /\ HasList'
<1>1. conn' = conn /\ Owner(t) \in Peers /\ t # None
  BY OwnerIsPeer, NoneAssumption DEF wires, IInv, Wired
<1>2. \A u \in Threads : Owner(u)' = Owner(u)
  BY <1>1 DEF Owner
<1>3. \A u \in Threads \ {t} : Critical(u)' <=> Critical(u)
  BY <1>1 DEF Critical, IInv, Wired, WireTypes, Threads
<1>4. Critical(t)'
  BY <1>1, PeersAssumption
     DEF Critical, IInv, Wired, WireTypes, Threads, Holding, Live
<1>5. HasList'
  BY DEF HasList, IInv, Wired, WireTypes, WithList, Threads
<1>6. ASSUME NEW q \in Peers, mutex'[q] # None
      PROVE  Critical(mutex[q])' /\ Owner(mutex[q])' = q
  <2>1. CASE q = Owner(t)
    BY <1>1, <1>2, <1>4, <2>1 DEF IInv, ListTypes
  <2>2. CASE q # Owner(t)
    <3> DEFINE u == mutex[q]
    <3>1. mutex'[q] = u /\ u # None
      BY <1>6, <2>2 DEF IInv, ListTypes
    <3>2. Critical(u) /\ Owner(u) = q /\ u \in Threads
      BY <3>1 DEF LockDiscipline, IInv, ListTypes
    <3> QED BY <1>2, <1>3, <2>2, <3>1, <3>2
  <2> QED BY <2>1, <2>2
<1>7. ASSUME NEW u \in Threads, Critical(u)'
      PROVE  mutex'[Owner(u)'] = u
  <2>1. CASE u = t
    BY <1>1, <1>2, <2>1 DEF IInv, ListTypes
  <2>2. CASE u # t
    <3>1. Critical(u) /\ mutex[Owner(u)] = u
      BY <1>3, <1>7, <2>2 DEF LockDiscipline, IInv
    <3>2. Owner(u) \in Peers /\ u # None
      BY <3>1, OwnerIsPeer, PeersAssumption, NoneAssumption
         DEF Critical, Live, IInv, Wired
    <3> QED BY <1>1, <1>2, <3>1, <3>2 DEF IInv, ListTypes
  <2> QED BY <2>1, <2>2
<1> QED BY <1>5, <1>6, <1>7 DEF LockDiscipline


\* A client that leaves its critical section gives the mutex back.
LEMMA LeaveLock ==
    ASSUME IInv, NEW p \in Peers, pc[p] = "merging",
           mutex' = [mutex EXCEPT ![p] = None],
           NEW next \in {"joined", "dead"},
           pc' = [pc EXCEPT ![p] = next], UNCHANGED wires,
           seen' = [seen EXCEPT ![p] = <<>>]
    PROVE  LockDiscipline' /\ HasList'
<1>1. conn' = conn /\ p \in Threads /\ p \notin Conns /\ Conns \subseteq Threads
  BY PeersAssumption DEF wires, Threads
<1>2. \A u \in Threads : Owner(u)' = Owner(u)
  BY <1>1 DEF Owner
<1>3. Critical(p) /\ Owner(p) = p /\ mutex[p] = p /\ ~Critical(p)'
  BY <1>1 DEF Critical, Owner, LockDiscipline, IInv, Wired, WireTypes
<1>4. \A u \in Threads \ {p} : Critical(u)' <=> Critical(u)
  BY <1>1 DEF Critical, IInv, Wired, WireTypes
<1>5. ASSUME NEW q \in Peers, mutex'[q] # None
      PROVE  Critical(mutex[q])' /\ Owner(mutex[q])' = q
  <2> DEFINE u == mutex[q]
  <2>1. q # p /\ mutex'[q] = u
    BY <1>5 DEF IInv, ListTypes
  <2>2. Critical(u) /\ Owner(u) = q /\ u \in Threads
    BY <1>5, <2>1 DEF LockDiscipline, IInv, ListTypes
  <2> QED BY <1>2, <1>3, <1>4, <2>1, <2>2
<1>6. ASSUME NEW u \in Threads, Critical(u)'
      PROVE  mutex'[Owner(u)'] = u
  <2>1. u # p /\ Critical(u) /\ mutex[Owner(u)] = u
    BY <1>3, <1>4, <1>6 DEF LockDiscipline, IInv
  <2>2. Owner(u) \in Peers
    BY <2>1, OwnerIsPeer, PeersAssumption DEF Critical, Live, IInv, Wired
  <2> QED BY <1>2, <1>3, <2>1, <2>2 DEF IInv, ListTypes
<1>7. HasList'
  BY <1>1 DEF HasList, IInv, Wired, WireTypes, ListTypes
<1> QED BY <1>5, <1>6, <1>7 DEF LockDiscipline

\* handle_server_request of the C peer.
LEMMA CHandlerInv ==
    ASSUME IInv, NEW c \in Conns, CHandler(c)
    PROVE  IInv'
<1>1. c \in Threads /\ c \notin Peers
  BY PeersAssumption DEF Threads
<1> DEFINE p == conn[c].to
<1>2. ASSUME conn[c] # None
      PROVE  /\ Live(c) /\ Owner(c) = p /\ p \in Peers
             /\ conn[c].from \in Peers /\ conn[c].about \in Entries \cup {None}
             /\ \A t \in Threads : Owner(t) = p /\ p \in CPeers => p \notin PyPeers
  BY <1>1, <1>2, PeersAssumption
     DEF Live, Owner, IInv, Wired, WireTypes, Requests
<1>3. /\ {"inform", "asking", "start"} \subseteq AllPCs \ {"idle", "take"}
      /\ {"inform", "asking"} \cap WithList = {}
      /\ {"inform", "asking"} \subseteq Holding /\ "start" \notin Holding
      /\ "REGISTER" \in Awaited
  BY DEF AllPCs, HandlerPCs, WithList, Holding, Awaited
<1>4. CASE CLock(c)
  <2>1. /\ conn[c] # None /\ pc[c] = "start" /\ mutex[p] = None
        /\ mutex' = [mutex EXCEPT ![p] = c]
        /\ pc' = [pc EXCEPT ![c] = "inform"]
        /\ at' = [at EXCEPT ![c] = 1]
        /\ UNCHANGED <<up, network, aged, wires, seen>>
    BY <1>4 DEF CLock, CHandles, Handles
  <2>2. Wired'
    BY <1>1, <1>2, <1>3, <2>1, MoveWired DEF IInv, AllPCs
  <2>3. LockDiscipline' /\ HasList'
    BY <1>1, <1>2, <1>3, <2>1, EnterLock DEF IInv, AllPCs
  <2>4. ListTypes'
    BY <1>1, <1>2, <2>1 DEF ListTypes, IInv
  <2> QED BY <2>2, <2>3, <2>4 DEF IInv
<1>5. CASE CInform(c)
  <2>1. conn[c] # None /\ pc[c] = "inform"
    BY <1>5 DEF CInform, CHandles, Handles
  <2>2. CASE Crash(p, reply)
    BY <1>2, <2>1, <2>2, CrashInv
  <2>3. CASE \E q : FaultWithoutReply(c, q)
    BY <1>2, <2>1, <2>3, CrashInv DEF FaultWithoutReply
  <2>4. CASE \E q : /\ \/ UNCHANGED <<pc, wires>>
                       \/ Send(c, q, "REGISTER", "asking", "inform")
                    /\ at' = [at EXCEPT ![c] = @ + 1]
                    /\ UNCHANGED <<state, seen>>
    <3>1. ListTypes' /\ mutex' = mutex /\ seen' = seen
      BY <1>1, <2>4 DEF ListTypes, IInv, state
    <3>2. CASE UNCHANGED <<pc, wires>>
      <4>1. pc' = pc /\ conn' = conn /\ call' = call /\ reply' = reply
        BY <3>2 DEF wires
      <4>2. Wired'
        BY <4>1 DEF IInv, Wired, WireTypes, FreeIsIdle, Calls
      <4>3. \A t \in Threads : /\ Critical(t)' <=> Critical(t)
                               /\ Owner(t)' = Owner(t)
        BY <4>1 DEF Critical, Owner
      <4>4. LockDiscipline'
        BY <3>1, <4>3, LockFrame DEF IInv
      <4>5. HasList'
        BY <3>1, <4>1 DEF IInv, HasList
      <4> QED BY <3>1, <4>2, <4>4, <4>5 DEF IInv
    <3>3. CASE \E q : Send(c, q, "REGISTER", "asking", "inform")
      <4>1. PICK q : Send(c, q, "REGISTER", "asking", "inform")
        BY <3>3
      <4>2. Wired' /\ LockDiscipline' /\ HasList'
        BY <1>1, <1>2, <1>3, <2>1, <3>1, <4>1, SendInv
      <4> QED BY <3>1, <4>2 DEF IInv
    <3> QED BY <2>4, <3>2, <3>3
  <2> QED BY <1>5, <2>2, <2>3, <2>4 DEF CInform
<1>6. CASE CAppend(c) /\ Crash(p, reply)
  <2>1. conn[c] # None
    BY <1>6 DEF CAppend, CHandles, Handles
  <2> QED BY <1>2, <1>6, <2>1, CrashInv
<1>6a. CASE CAppend(c) /\ ~Crash(p, reply)
  <2> DEFINE list == Append(network[p], conn[c].from)
             r == [status |-> "OK", peers |-> list]
  <2>1. /\ conn[c] # None /\ pc[c] = "inform" /\ p \in CPeers
        /\ network' = [network EXCEPT ![p] = list]
        /\ mutex' = [mutex EXCEPT ![p] = None]
        /\ Finish(c, r)
        /\ at' = [at EXCEPT ![c] = 0]
        /\ UNCHANGED <<up, aged, seen>>
    BY <1>6a DEF CAppend, CHandles, Handles
  <2>2. list \in Seq(Entries) /\ p \notin PyPeers
    BY <1>2, <2>1, PeersAssumption DEF IInv, ListTypes, Entries
  <2>3. r \in Replies
    BY <2>2 DEF Replies
  <2> HIDE DEF list, r
  <2>4. Wired'
    BY <2>1, <2>3, FinishWired DEF IInv
  <2>5. LockDiscipline' /\ HasList'
    BY <1>3, <2>1, FinishLock
  <2>6. ListTypes'
    BY <1>1, <1>2, <2>1, <2>2 DEF ListTypes, IInv
  <2> QED BY <2>4, <2>5, <2>6 DEF IInv
<1>7. CASE CInformed(c)
  <2> DEFINE n == network[p]
             list == Append([n EXCEPT ![Len(n)] = conn[c].about], Garbage)
  <2>1. /\ conn[c] # None /\ pc[c] = "start" /\ p \in CPeers
        /\ conn[c].cmd = "INFORM"
        /\ network' = [network EXCEPT ![p] = list]
        /\ Finish(c, None)
        /\ UNCHANGED <<up, mutex, aged, seen, at>>
    BY <1>7 DEF CInformed, CHandles, Handles
  <2>2. n \in Seq(Entries) /\ conn[c].about \in Entries /\ p \notin PyPeers
    BY <1>2, <2>1, PeersAssumption
       DEF IInv, ListTypes, Wired, WireTypes, Requests, Awaited
  <2>3. list \in Seq(Entries)
    <3>1. Garbage \in Entries
      BY DEF Entries
    <3>2. [n EXCEPT ![Len(n)] = conn[c].about] \in Seq(Entries)
      BY <2>2, OverwriteLast
    <3> QED BY <3>1, <3>2, AppendIsSeq
  <2> HIDE DEF list
  <2>4. Wired'
    BY <2>1, FinishWired DEF IInv
  <2>5. LockDiscipline' /\ HasList'
    BY <1>3, <2>1, FinishLock
  <2>6. ListTypes'
    BY <1>1, <1>2, <2>1, <2>2, <2>3 DEF ListTypes, IInv
  <2> QED BY <2>4, <2>5, <2>6 DEF IInv
<1>8. CASE CServe(c)
  <2>1. conn[c] # None /\ pc[c] = "start"
    BY <1>8 DEF CServe, CHandles, Handles
  <2>2. \A s \in {"OK", "BAD"} : [status |-> s, peers |-> <<>>] \in Replies
    BY DEF Replies
  <2>3. CASE /\ Finish(c, [status |-> "OK", peers |-> <<>>])
             /\ UNCHANGED <<state, seen, at>>
    <3>1. mutex' = mutex /\ seen' = seen
      BY <2>3 DEF state
    <3>2. Wired' /\ LockDiscipline' /\ HasList'
      BY <1>3, <2>1, <2>2, <2>3, <3>1, FinishWired, FinishLock DEF IInv
    <3> QED BY <2>3, <3>2, ListFrame DEF IInv
  <2>4. CASE Crash(p, [reply EXCEPT ![c] = [status |-> "BAD", peers |-> <<>>]])
    <3> DEFINE r == [status |-> "BAD", peers |-> <<>>]
               answered == [reply EXCEPT ![c] = r]
    <3>1. r \in Replies /\ r # None
      BY <2>2, NoneAssumption
    <3> HIDE DEF r
    <3>2. /\ answered \in [Conns -> Replies \cup {None}]
          /\ \A e \in Conns : reply[e] # None => answered[e] # None
      BY <3>1 DEF IInv, Wired, WireTypes
    <3>3. Crash(p, answered)
      BY <2>4 DEF r
    <3> HIDE DEF answered
    <3> QED BY <1>2, <2>1, <3>2, <3>3, CrashWired, CrashLock DEF IInv
  <2> QED BY <1>8, <2>3, <2>4 DEF CServe
<1>9. CASE CReply(c, "asking", "inform") \/ CEof(c, "asking", "inform")
  BY <1>1, <1>9, CAwaitInv
<1>10. CASE CTake(c)
  BY <1>1, <1>10, CTakeInv
<1> QED BY <1>4, <1>5, <1>6, <1>6a, <1>7, <1>8, <1>9, <1>10 DEF CHandler


\* run_client and to_server of the Python peer.
LEMMA PyClientInv ==
    ASSUME IInv, NEW p \in Peers, PyClient(p) \/ PyPick(p)
    PROVE  IInv'
<1>1. /\ p \in Threads /\ Live(p) /\ p \notin Conns /\ Owner(p) = p
      /\ Conns \subseteq Threads
  BY PeersAssumption DEF Threads, Live, Owner
<1>2. /\ {"registering", "retrieving", "merge", "merging", "joined", "dead"}
            \subseteq AllPCs \ {"idle", "take"}
      /\ {"registering", "retrieving", "merge", "merging", "joined", "dead"}
            \cap WithList = {}
      /\ {"REGISTER", "RETRIEVE"} \subseteq Awaited
  BY DEF AllPCs, ClientPCs, WithList, Awaited
<1>3. ASSUME NEW next \in {"merge", "joined", "dead"}, HangUp(p, next),
             pc[p] \in {"registering", "retrieving"}, call[p] # None,
             UNCHANGED state, \A u \in Conns : seen'[u] = seen[u]
      PROVE  Wired' /\ LockDiscipline' /\ HasList'
  <2>1. mutex' = mutex
    BY <1>3 DEF state
  <2>2. Wired'
    BY <1>1, <1>2, <1>3, HangUpWired DEF IInv, AllPCs
  <2>3. LockDiscipline' /\ HasList'
    BY <1>1, <1>2, <1>3, <2>1, HangUpLock
  <2> QED BY <2>2, <2>3
<1>4. ASSUME NEW q, NEW cmd \in Awaited, NEW waiting \in {"registering", "retrieving"},
             PySend(p, q, cmd, waiting), pc[p] \in {"boot", "joined"},
             UNCHANGED <<state, seen, at>>
      PROVE  IInv'
  <2>1. mutex' = mutex /\ seen' = seen
    BY <1>4 DEF state
  <2>2. Wired' /\ LockDiscipline' /\ HasList'
    BY <1>1, <1>2, <1>4, <2>1, SendInv
  <2> QED BY <1>4, <2>2, ListFrame DEF IInv
<1>5. CASE PyBoot(p)
  BY <1>2, <1>4, <1>5 DEF PyBoot
<1>6. CASE PyReply(p)
  <2>1. pc[p] = "registering" /\ call[p] # None /\ reply[call[p]] # None
    BY <1>6 DEF PyReply, Answered
  <2>2. reply[call[p]].peers \in Seq(Entries)
    BY <1>1, <2>1 DEF IInv, Wired, WireTypes, Replies
  <2>3. /\ \/ HangUp(p, "merge") /\ seen' = [seen EXCEPT ![p] = reply[call[p]].peers]
           \/ HangUp(p, "joined") /\ seen' = seen
           \/ HangUp(p, "dead") /\ seen' = seen
        /\ UNCHANGED <<state, at>>
    BY <1>6 DEF PyReply, Dies
  <2>4. ListTypes'
    BY <1>1, <2>2, <2>3 DEF ListTypes, IInv, state
  <2>5. \A u \in Conns : seen'[u] = seen[u]
    BY <1>1, <2>3 DEF ListTypes, IInv
  <2> QED BY <1>3, <2>1, <2>3, <2>4, <2>5 DEF IInv
<1>7. CASE PyEof(p) \/ PyRetrieved(p)
  <2>1. /\ pc[p] \in {"registering", "retrieving"} /\ call[p] # None
        /\ UNCHANGED <<state, seen, at>>
        /\ HangUp(p, "dead") \/ HangUp(p, "joined")
    BY <1>7 DEF PyEof, PyRetrieved, Eof, Answered, Dies
  <2>2. Wired' /\ LockDiscipline' /\ HasList'
    BY <1>3, <2>1
  <2> QED BY <2>1, <2>2, ListFrame DEF IInv
<1>8. CASE PyMergeLock(p)
  <2>1. /\ pc[p] = "merge" /\ mutex[p] = None
        /\ mutex' = [mutex EXCEPT ![p] = p]
        /\ pc' = [pc EXCEPT ![p] = "merging"]
        /\ at' = [at EXCEPT ![p] = 1]
        /\ UNCHANGED <<up, network, aged, wires, seen>>
    BY <1>8 DEF PyMergeLock
  <2>2. Wired'
    BY <1>1, <1>2, <2>1, MoveWired DEF IInv, AllPCs
  <2>3. LockDiscipline' /\ HasList'
    BY <1>1, <1>2, <2>1, EnterLock
  <2>4. ListTypes'
    BY <1>1, <2>1 DEF ListTypes, IInv
  <2> QED BY <2>2, <2>3, <2>4 DEF IInv
<1>9. CASE PyMerge(p)
  <2> DEFINE e == seen[p][at[p]]
             list == IF e \in ToSet(network[p]) THEN network[p]
                     ELSE Append(network[p], e)
  <2>1. /\ at[p] \in 1..Len(seen[p])
        /\ network' = [network EXCEPT ![p] = list]
        /\ at' = [at EXCEPT ![p] = @ + 1]
        /\ UNCHANGED <<up, mutex, aged, pc, wires, seen>>
    BY <1>9 DEF PyMerge
  <2>2. e \in Entries
    BY <1>1, <2>1 DEF IInv, ListTypes
  <2>3. list \in Seq(Entries) /\ (network[p] # <<>> => list # <<>>)
    <3>1. network[p] \in Seq(Entries)
      BY DEF IInv, ListTypes
    <3> HIDE DEF e
    <3> QED BY <2>2, <3>1, AppendIsSeq
  <2> HIDE DEF list
  <2>4. ListTypes'
    BY <1>1, <2>1, <2>3 DEF ListTypes, IInv
  <2>5. Wired'
    BY <2>1 DEF IInv, Wired, WireTypes, FreeIsIdle, Calls, wires
  <2>6. \A t \in Threads : /\ Critical(t)' <=> Critical(t)
                           /\ Owner(t)' = Owner(t)
    BY <2>1 DEF Critical, Owner, wires
  <2>7. LockDiscipline'
    BY <2>1, <2>6, LockFrame DEF IInv
  <2>8. HasList'
    BY <2>1 DEF IInv, HasList
  <2> QED BY <2>4, <2>5, <2>7, <2>8 DEF IInv
<1>10. CASE PyMerged(p)
  <2>1. /\ pc[p] = "merging"
        /\ mutex' = [mutex EXCEPT ![p] = None]
        /\ \E next \in {"joined", "dead"} : pc' = [pc EXCEPT ![p] = next]
        /\ seen' = [seen EXCEPT ![p] = <<>>]
        /\ at' = [at EXCEPT ![p] = 0]
        /\ UNCHANGED <<up, network, aged, wires>>
    BY <1>10 DEF PyMerged, Dies
  <2>0. PICK next \in {"joined", "dead"} : pc' = [pc EXCEPT ![p] = next]
    BY <2>1
  <2>2. Wired'
    BY <1>1, <1>2, <2>0, <2>1, MoveWired DEF IInv, AllPCs
  <2>3. LockDiscipline' /\ HasList'
    BY <1>1, <2>0, <2>1, LeaveLock
  <2>4. ListTypes'
    BY <1>1, <2>1 DEF ListTypes, IInv
  <2> QED BY <2>2, <2>3, <2>4 DEF IInv
<1>11. CASE PyPick(p)
  <2>1. CASE \E q : PySend(p, q, "RETRIEVE", "retrieving")
    BY <1>2, <1>4, <1>11, <2>1 DEF PyPick
  <2>2. CASE pc' = [pc EXCEPT ![p] = "dead"] /\ UNCHANGED wires
    <3>1. /\ pc[p] = "joined" /\ UNCHANGED <<state, seen, at>>
          /\ mutex' = mutex /\ conn' = conn
      BY <1>11, <2>2 DEF PyPick, state, wires
    <3>2. Wired'
      BY <1>1, <1>2, <2>2, MoveWired DEF IInv, AllPCs
    <3>3. LockDiscipline' /\ HasList'
      BY <1>1, <1>2, <2>2, <3>1, MoveLock
    <3> QED BY <3>1, <3>2, <3>3, ListFrame DEF IInv
  <2> QED BY <1>11, <2>1, <2>2 DEF PyPick, Dies
<1> QED BY <1>5, <1>6, <1>7, <1>8, <1>9, <1>10, <1>11 DEF PyClient


\* Announcing the newcomer to one peer.
LEMMA AnnounceInv ==
    ASSUME IInv, NEW c \in Conns, conn[c] # None, NEW e \in Peers,
           NEW about \in Entries, FreeConns # {},
           Dial(FirstFree, c, e, "INFORM", about),
           pc' = [pc EXCEPT ![FirstFree] = "start"],
           UNCHANGED <<call, reply, seen, mutex>>
    PROVE  Wired' /\ LockDiscipline' /\ HasList'
<1> DEFINE f == FirstFree
           r == [to |-> e, from |-> Owner(c), cmd |-> "INFORM", about |-> about]
<1>1. /\ f \in Conns /\ conn[f] = None /\ f # c /\ f \in Threads /\ f # None
      /\ c \in Threads /\ f \notin Peers
  BY FreeConn, NoneAssumption, PeersAssumption DEF Threads
<1>2. Owner(c) \in Peers
  BY <1>1, OwnerIsPeer DEF IInv, Wired, Live
<1>3. r \in Requests /\ r # None
  BY <1>2, NoneAssumption DEF Requests
<1>4. conn' = [conn EXCEPT ![f] = r] /\ pc' = [pc EXCEPT ![f] = "start"]
  BY DEF Dial
<1>5. pc[f] = "idle"
  BY <1>1 DEF IInv, Wired, FreeIsIdle
<1> HIDE DEF f, r
<1>6. WireTypes'
  BY <1>1, <1>3, <1>4 DEF IInv, Wired, WireTypes, HandlerPCs
<1>7. FreeIsIdle'
  BY <1>1, <1>3, <1>4 DEF IInv, Wired, WireTypes, FreeIsIdle, Threads
<1>8. Calls'
  BY <1>1, <1>3, <1>4 DEF IInv, Wired, WireTypes, Calls
<1>9. \A u \in Threads : Critical(u)' <=> Critical(u)
  BY <1>1, <1>3, <1>4, <1>5 DEF Critical, IInv, Wired, WireTypes
<1>10. \A u \in Threads : Critical(u) => Owner(u)' = Owner(u)
  BY <1>1, <1>4, PeersAssumption DEF Critical, Owner, IInv, Wired, WireTypes
<1>11. HasList'
  BY <1>1, <1>4 DEF HasList, IInv, Wired, WireTypes
<1> QED BY <1>6, <1>7, <1>8, <1>9, <1>10, <1>11, LockFrame DEF Wired, IInv

\* The list without its old entries is still a list that starts with this peer.
LEMMA RecentIsSeq ==
    ASSUME ListTypes, NEW p \in PyPeers
    PROVE  Recent(p) \in Seq(Entries) /\ Recent(p) # <<>>
<1> DEFINE n == network[p]
           s == SubSeq(n, aged[p] + 2, Len(n))
<1>1. n \in Seq(Entries) /\ n # <<>> /\ aged[p] \in Nat
  BY DEF ListTypes, Peers
<1>2. s \in Seq(Entries)
  <2>1. \A i \in (aged[p] + 2)..Len(n) : n[i] \in Entries
    BY <1>1
  <2> QED BY <1>1, <2>1, SubSeqProperties
<1>3. <<Head(n)>> \in Seq(Entries) /\ Len(<<Head(n)>>) = 1
  BY <1>1
<1> HIDE DEF s, n
<1>4. <<Head(n)>> \o s \in Seq(Entries) /\ Len(<<Head(n)>> \o s) > 0
  BY <1>2, <1>3, ConcatProperties
<1> QED BY <1>4 DEF Recent, s, n


\* RequestHandler of the Python peer.
LEMMA PyHandlerInv ==
    ASSUME IInv, NEW c \in Conns, PyHandler(c)
    PROVE  IInv'
<1> DEFINE p == conn[c].to
<1>1. c \in Threads /\ c \notin Peers /\ Conns \subseteq Threads
  BY PeersAssumption, SMTT(60) DEF Threads
<1>2. conn[c] # None /\ p \in PyPeers
  BY DEF PyHandler, PyTouch, PyRegister, PySendList, PyAnnounceLock, PyAnnounce,
         PyAnnounced, PyAdd, PyServe, PyHandles
<1>3. /\ Live(c) /\ Owner(c) = p /\ p \in Peers /\ conn[c].from \in Peers
      /\ conn[c].from \in Entries
      /\ conn[c].cmd = "INFORM" => conn[c].about \in Entries
      /\ network[p] \in Seq(Entries) /\ network[p] # <<>>
  BY <1>1, <1>2 DEF Live, Owner, IInv, ListTypes, Wired, WireTypes, Requests,
                    Awaited, Entries, Peers
<1>4. /\ {"touched", "reply", "announce", "announcing"}
            \subseteq AllPCs \ {"idle", "take", "merging"}
      /\ {"start", "touched", "reply", "announce"} \cap Holding = {}
      /\ {"start", "touched"} \cap WithList = {}
      /\ "announcing" \in Holding
  BY DEF AllPCs, ClientPCs, HandlerPCs, WithList, Holding
<1>5. \A status \in {"OK", "EXISTS", "BAD"} :
         [status |-> status, peers |-> <<>>] \in Replies
  BY DEF Replies
<1>6. ASSUME NEW next, pc[c] \notin Holding, next \notin Holding,
             next \in AllPCs \ {"idle", "take"},
             pc' = [pc EXCEPT ![c] = next], UNCHANGED wires, mutex' = mutex,
             next \in WithList => seen'[c] # <<>>,
             \A u \in Conns \ {c} : seen'[u] = seen[u]
      PROVE  Wired' /\ LockDiscipline' /\ HasList'
  <2>1. conn' = conn
    BY <1>6 DEF wires
  <2>2. Wired'
    BY <1>1, <1>3, <1>6, MoveWired DEF IInv, AllPCs
  <2>3. LockDiscipline' /\ HasList'
    BY <1>1, <1>6, <2>1, MoveLock
  <2> QED BY <2>2, <2>3
<1>7. ASSUME NEW r \in Replies \cup {None}, Finish(c, r),
             \/ pc[c] \notin Holding /\ mutex' = mutex
             \/ pc[c] \in Holding /\ mutex' = [mutex EXCEPT ![p] = None],
             \A u \in Conns \ {c} : seen'[u] = seen[u]
      PROVE  Wired' /\ LockDiscipline' /\ HasList'
  <2>1. Wired'
    BY <1>2, <1>7, FinishWired DEF IInv
  <2>2. LockDiscipline' /\ HasList'
    BY <1>2, <1>7, FinishLock
  <2> QED BY <2>1, <2>2
<1>8. CASE PyTouch(c)
  <2> DEFINE recent == Recent(p)
  <2>1. /\ pc[c] = "start"
        /\ \/ UNCHANGED <<network, aged>>
           \/ /\ network' = [network EXCEPT ![p] = recent]
              /\ aged' = [aged EXCEPT ![p] = 0]
        /\ pc' = [pc EXCEPT ![c] = "touched"]
        /\ UNCHANGED <<up, mutex, wires, seen, at>>
    BY <1>8 DEF PyTouch, PyHandles
  <2>2. recent \in Seq(Entries) /\ recent # <<>>
    BY <1>2, RecentIsSeq DEF IInv
  <2> HIDE DEF recent
  <2>3. ListTypes'
    <3>1. /\ network' \in [Peers -> Seq(Entries)]
          /\ \A q \in PyPeers : network'[q] # <<>>
      <4>1. \/ network' = network
            \/ network' = [network EXCEPT ![p] = recent]
        BY <2>1
      <4>2. network \in [Peers -> Seq(Entries)] /\ PyPeers \subseteq Peers
        BY DEF ListTypes, IInv, Peers
      <4>3. \A q \in PyPeers : network[q] # <<>>
        BY DEF ListTypes, IInv
      <4> QED BY <2>2, <4>1, <4>2, <4>3
    <3>2. aged' \in [Peers -> Nat]
      <4>1. aged' = aged \/ aged' = [aged EXCEPT ![p] = 0]
        BY <2>1
      <4> QED BY <4>1 DEF ListTypes, IInv
    <3> QED BY <2>1, <3>1, <3>2 DEF ListTypes, IInv
  <2>4. Wired' /\ LockDiscipline' /\ HasList'
    BY <1>4, <1>6, <2>1
  <2> QED BY <2>3, <2>4 DEF IInv
<1>9. CASE PyRegister(c)
  <2> DEFINE list == Append(network[p], conn[c].from)
  <2>1. list \in Seq(Entries) /\ list # <<>>
    BY <1>3, AppendIsSeq
  <2>2. pc[c] = "touched" /\ UNCHANGED <<up, mutex, aged, at>>
    BY <1>9 DEF PyRegister, PyHandles
  <2>3. CASE /\ Finish(c, [status |-> "EXISTS", peers |-> <<>>])
             /\ UNCHANGED <<network, seen>>
    <3>1. Wired' /\ LockDiscipline' /\ HasList'
      BY <1>4, <1>5, <1>7, <2>2, <2>3
    <3>2. ListTypes'
      BY <2>2, <2>3 DEF ListTypes, IInv
    <3> QED BY <3>1, <3>2 DEF IInv
  <2>4. CASE /\ network' = [network EXCEPT ![p] = list]
             /\ seen' = [seen EXCEPT ![c] = list]
             /\ pc' = [pc EXCEPT ![c] = "reply"]
             /\ UNCHANGED wires
    <3> HIDE DEF list
    <3>1. ListTypes'
      <4>1. /\ network' \in [Peers -> Seq(Entries)]
            /\ \A q \in PyPeers : network'[q] # <<>>
        BY <2>1, <2>4 DEF ListTypes, IInv, Peers
      <4>2. seen' \in [Threads -> Seq(Entries)]
        BY <2>1, <2>4 DEF ListTypes, IInv
      <4> QED BY <2>2, <4>1, <4>2 DEF ListTypes, IInv
    <3>2. seen'[c] = list /\ \A u \in Conns \ {c} : seen'[u] = seen[u]
      BY <1>1, <2>4 DEF ListTypes, IInv
    <3>3. Wired' /\ LockDiscipline' /\ HasList'
      BY <1>4, <1>6, <2>1, <2>2, <2>4, <3>2
    <3> QED BY <3>1, <3>3 DEF IInv
  <2> QED BY <1>9, <2>3, <2>4 DEF PyRegister
<1>10. CASE PySendList(c)
  <2> DEFINE r == [status |-> "OK", peers |-> seen[c]]
  <2>1. /\ pc[c] = "reply" /\ reply' = [reply EXCEPT ![c] = r]
        /\ pc' = [pc EXCEPT ![c] = "announce"]
        /\ UNCHANGED <<state, call, conn, seen, at>>
    BY <1>10 DEF PySendList, PyHandles
  <2>2. r \in Replies /\ r # None
    BY <1>1, NoneAssumption DEF Replies, IInv, ListTypes
  <2> HIDE DEF r
  <2>3. WireTypes'
    BY <1>4, <2>1, <2>2 DEF IInv, Wired, WireTypes, AllPCs
  <2>4. FreeIsIdle'
    BY <1>1, <1>2, <2>1 DEF IInv, Wired, WireTypes, FreeIsIdle
  <2>5. Calls'
    BY <1>1, <2>1, <2>2 DEF IInv, Wired, WireTypes, Calls
  <2>6. mutex' = mutex
    BY <2>1 DEF state
  <2>7. seen[c] # <<>>
    BY <2>1 DEF IInv, HasList
  <2>8. LockDiscipline' /\ HasList'
    BY <1>1, <1>4, <2>1, <2>6, <2>7, MoveLock
  <2> QED BY <2>1, <2>3, <2>4, <2>5, <2>8, ListFrame DEF IInv, Wired
<1>11. CASE PyAnnounceLock(c)
  <2>1. /\ pc[c] = "announce" /\ mutex[p] = None
        /\ mutex' = [mutex EXCEPT ![p] = c]
        /\ pc' = [pc EXCEPT ![c] = "announcing"]
        /\ at' = [at EXCEPT ![c] = 1]
        /\ UNCHANGED <<up, network, aged, wires, seen>>
    BY <1>11 DEF PyAnnounceLock, PyHandles
  <2>2. Wired'
    BY <1>1, <1>3, <1>4, <2>1, MoveWired DEF IInv, AllPCs
  <2>3. LockDiscipline' /\ HasList'
    BY <1>1, <1>3, <1>4, <2>1, EnterLock DEF IInv
  <2>4. ListTypes'
    BY <1>1, <1>3, <2>1 DEF ListTypes, IInv
  <2> QED BY <2>2, <2>3, <2>4 DEF IInv
<1>12. ASSUME pc[c] = "announcing", mutex' = [mutex EXCEPT ![p] = None],
              Finish(c, None), seen' = [seen EXCEPT ![c] = <<>>],
              at' = [at EXCEPT ![c] = 0], UNCHANGED <<up, network, aged>>
       PROVE  IInv'
  <2>1. ListTypes'
    BY <1>1, <1>3, <1>12 DEF ListTypes, IInv
  <2>2. \A u \in Conns \ {c} : seen'[u] = seen[u]
    BY <1>1, <1>12 DEF ListTypes, IInv
  <2>3. Wired' /\ LockDiscipline' /\ HasList'
    BY <1>4, <1>7, <1>12, <2>2
  <2> QED BY <2>1, <2>3 DEF IInv
<1>13. CASE PyAnnounce(c)
  <2> DEFINE e == network[p][at[c]]
  <2>1. pc[c] = "announcing" /\ at[c] \in 1..Len(network[p])
    BY <1>13 DEF PyAnnounce, PyHandles
  <2>2. CASE /\ at' = [at EXCEPT ![c] = @ + 1]
             /\ UNCHANGED <<state, pc, wires, seen>>
    <3>1. ListTypes'
      BY <1>1, <2>2 DEF ListTypes, IInv, state
    <3>2. Wired'
      BY <2>2 DEF IInv, Wired, WireTypes, FreeIsIdle, Calls, wires
    <3>3. \A t \in Threads : /\ Critical(t)' <=> Critical(t)
                             /\ Owner(t)' = Owner(t)
      BY <2>2 DEF Critical, Owner, wires
    <3>4. LockDiscipline' /\ HasList'
      BY <2>2, <3>3, LockFrame DEF IInv, HasList, state
    <3> QED BY <3>1, <3>2, <3>4 DEF IInv
  <2>3. CASE /\ Reachable(e) /\ FreeConns # {}
             /\ Dial(FirstFree, c, e, "INFORM", Last(seen[c]))
             /\ pc' = [pc EXCEPT ![FirstFree] = "start"]
             /\ at' = [at EXCEPT ![c] = @ + 1]
             /\ UNCHANGED <<state, call, reply, seen>>
    <3>1. seen[c] \in Seq(Entries) /\ seen[c] # <<>>
      BY <1>1, <2>1 DEF IInv, HasList, ListTypes
    <3>2. Last(seen[c]) \in Entries
      BY <3>1 DEF Last
    <3>3. e \in Peers /\ mutex' = mutex
      BY <2>3 DEF Reachable, state
    <3> HIDE DEF e
    <3>4. Wired' /\ LockDiscipline' /\ HasList'
      BY <1>2, <2>3, <3>2, <3>3, AnnounceInv
    <3>5. ListTypes'
      BY <1>1, <2>3 DEF ListTypes, IInv, state
    <3> QED BY <3>4, <3>5 DEF IInv
  <2>4. CASE /\ mutex' = [mutex EXCEPT ![p] = None]
             /\ Finish(c, None)
             /\ seen' = [seen EXCEPT ![c] = <<>>]
             /\ at' = [at EXCEPT ![c] = 0]
             /\ UNCHANGED <<up, network, aged>>
    BY <1>12, <2>1, <2>4
  <2> QED BY <1>13, <2>2, <2>3, <2>4 DEF PyAnnounce
<1>14. CASE PyAnnounced(c)
  BY <1>12, <1>14 DEF PyAnnounced, PyHandles
<1>15. CASE PyAdd(c)
  <2> DEFINE e == conn[c].about
             list == IF e \in ToSet(network[p]) THEN network[p]
                     ELSE Append(network[p], e)
  <2>1. /\ pc[c] = "touched" /\ conn[c].cmd = "INFORM"
        /\ network' = [network EXCEPT ![p] = list]
        /\ Finish(c, None)
        /\ UNCHANGED <<up, mutex, aged, seen, at>>
    BY <1>15 DEF PyAdd, PyHandles
  <2>2. list \in Seq(Entries) /\ list # <<>>
    BY <1>3, <2>1, AppendIsSeq
  <2> HIDE DEF list
  <2>3. ListTypes'
    BY <1>3, <2>1, <2>2 DEF ListTypes, IInv
  <2>4. Wired' /\ LockDiscipline' /\ HasList'
    BY <1>4, <1>7, <2>1
  <2> QED BY <2>3, <2>4 DEF IInv
<1>16. CASE PyServe(c)
  <2>1. PICK found \in Found :
           /\ Finish(c, [status |-> IF found THEN "OK" ELSE "BAD",
                         peers |-> <<>>])
           /\ pc[c] = "touched" /\ UNCHANGED <<state, seen, at>>
    BY <1>16 DEF PyServe, PyHandles
  <2>2. mutex' = mutex /\ seen' = seen
    BY <2>1 DEF state
  <2>3. Wired' /\ LockDiscipline' /\ HasList'
    BY <1>4, <1>5, <1>7, <2>1, <2>2
  <2> QED BY <2>1, <2>3, ListFrame DEF IInv
<1> QED BY <1>8, <1>9, <1>10, <1>11, <1>13, <1>14, <1>15, <1>16 DEF PyHandler


\* A server reaches its accept loop, or a minute passes.
LEMMA ServerInv ==
    ASSUME IInv, NEW p \in Peers, Listen(p) \/ Age(p)
    PROVE  IInv'
<1>1. /\ up' \in [Peers -> {"starting", "listening", "crashed"}]
      /\ aged' \in [Peers -> Nat]
  <2>1. aged[p] < Len(network[p]) - 1 => Len(network[p]) - 1 \in Nat
    BY DEF IInv, ListTypes
  <2>2. CASE Listen(p)
    BY <2>2 DEF Listen, IInv, ListTypes
  <2>3. CASE Age(p)
    BY <2>1, <2>3 DEF Age, IInv, ListTypes
  <2> QED BY <2>2, <2>3
<1>2. UNCHANGED <<network, mutex, pc, call, conn, reply, seen, at>>
  BY DEF Listen, Age, wires
<1>3. ListTypes'
  BY <1>1, <1>2 DEF IInv, ListTypes
<1>4. Wired'
  BY <1>2 DEF IInv, Wired, WireTypes, FreeIsIdle, Calls
<1>5. \A t \in Threads : (Critical(t)' <=> Critical(t)) /\ Owner(t)' = Owner(t)
  BY <1>2 DEF Critical, Owner
<1>6. LockDiscipline' /\ HasList'
  BY <1>2, <1>5, LockFrame DEF IInv, HasList
<1> QED BY <1>3, <1>4, <1>6 DEF IInv

\* The invariant holds initially and is preserved by every step.
LEMMA Invariance == Spec => []IInv
<1>1. Init => IInv
  <2> SUFFICES ASSUME Init PROVE IInv
    OBVIOUS
  <2>1. WireTypes
    BY PeersAssumption DEF Init, WireTypes, ClientPCs, HandlerPCs, Threads
  <2>2. FreeIsIdle
    BY DEF Init, FreeIsIdle, Threads
  <2>3. Calls
    BY DEF Init, Calls
  <2>4. LockDiscipline
    BY DEF Init, LockDiscipline, Critical
  <2>5. HasList
    BY DEF Init, HasList, Threads
  <2>6. ListTypes
    BY DEF Init, ListTypes, Entries, Peers
  <2> QED BY <2>1, <2>2, <2>3, <2>4, <2>5, <2>6 DEF IInv, Wired
<1>2. IInv /\ [Next]_vars => IInv'
  <2> SUFFICES ASSUME IInv, [Next]_vars PROVE IInv'
    OBVIOUS
  <2>1. CASE \E t \in Threads : ThreadStep(t)
    BY <2>1, CClientInv, PyClientInv, CHandlerInv, PyHandlerInv DEF ThreadStep
  <2>2. CASE \E p \in Peers : UserStep(p) \/ Listen(p) \/ Age(p)
    BY <2>2, CClientInv, PyClientInv, ServerInv DEF UserStep
  <2>3. CASE UNCHANGED vars
    <3>1. UNCHANGED <<up, network, mutex, pc, call, conn, reply, seen, at, aged>>
      BY <2>3 DEF vars
    <3>2. ListTypes' /\ Wired' /\ HasList'
      BY <3>1 DEF IInv, ListTypes, Wired, WireTypes, FreeIsIdle, Calls, HasList
    <3>3. \A t \in Threads : (Critical(t)' <=> Critical(t)) /\ Owner(t)' = Owner(t)
      BY <3>1 DEF Critical, Owner
    <3> QED BY <3>1, <3>2, <3>3, LockFrame DEF IInv
  <2> QED BY <2>1, <2>2, <2>3 DEF Next
<1> QED BY <1>1, <1>2, PTL DEF Spec

-----------------------------------------------------------------------------

\* Every reachable state has its type, whatever the mix of peers.
THEOREM TypeCorrect == Spec => []TypeOK
<1>1. IInv => TypeOK
  BY DEF IInv, ListTypes, Wired, WireTypes, TypeOK
<1> QED BY <1>1, Invariance, PTL

\* network_mutex is held exactly by the thread of the peer that is in a critical
\* section: mutual exclusion for handle_register, _register, to_server, and no
\* error path leaks the mutex or releases another thread's.
THEOREM MutexCorrect == Spec => []LockDiscipline
<1>1. IInv => LockDiscipline
  BY DEF IInv
<1> QED BY <1>1, Invariance, PTL


-----------------------------------------------------------------------------
(* The self-deadlock of handle_register is permanent.                      *)

\* Nothing another thread does moves a handler that is at "take".
Same(c) == pc'[c] = "take" /\ conn'[c] = conn[c]

\* Another thread makes a call.
LEMMA StuckAsk ==
    ASSUME IInv, NEW c \in Conns, Stuck(c), NEW t \in Threads \ {c}, NEW q,
           NEW cmd, NEW waiting, Ask(t, q, cmd, waiting)
    PROVE  Same(c)
<1>1. FirstFree \in Conns /\ FirstFree # c
  BY FreeConn DEF Ask, Stuck
<1> QED BY <1>1 DEF Same, Stuck, Ask, Dial, IInv, Wired, WireTypes, Threads

\* Another thread gives up its call.
LEMMA StuckHangUp ==
    ASSUME IInv, NEW c \in Conns, Stuck(c), NEW t \in Threads \ {c}, NEW next,
           HangUp(t, next)
    PROVE  Same(c)
<1>1. pc[c] # "closed" /\ c \in Threads
  BY DEF Stuck, Threads
<1>2. \/ /\ call[t] # c
         /\ pc' = [pc EXCEPT ![t] = next, ![call[t]] = "idle"]
         /\ conn' = [conn EXCEPT ![call[t]] = None]
      \/ pc' = [pc EXCEPT ![t] = next] /\ conn' = conn
  BY <1>1 DEF HangUp
<1> QED BY <1>1, <1>2 DEF Same, Stuck, IInv, Wired, WireTypes

\* Another handler returns.
LEMMA StuckFinish ==
    ASSUME IInv, NEW c \in Conns, Stuck(c), NEW e \in Conns \ {c}, NEW r,
           Finish(e, r)
    PROVE  Same(c)
BY DEF Same, Stuck, Finish, IInv, Wired, WireTypes, Threads

\* Another thread moves on.
LEMMA StuckMove ==
    ASSUME IInv, NEW c \in Conns, Stuck(c), NEW t \in Threads \ {c}, NEW next,
           pc' = [pc EXCEPT ![t] = next], UNCHANGED wires
    PROVE  Same(c)
BY DEF Same, Stuck, IInv, Wired, WireTypes, Threads, wires

\* A process dies: another one, or the one the handler belongs to.
LEMMA StuckCrash ==
    ASSUME IInv, NEW c \in Conns, Stuck(c), NEW p \in Peers, NEW answered,
           Crash(p, answered)
    PROVE  Same(c) \/ up'[conn[c].to] = "crashed"
<1>1. c \in Threads /\ c # p /\ conn[c] # None /\ pc[c] = "take"
  BY PeersAssumption DEF Threads, Stuck
<1>2. CASE conn[c].to = p
  BY <1>2 DEF Crash, IInv, ListTypes
<1>3. CASE conn[c].to # p
  BY <1>1, <1>3 DEF Crash, Same
<1> QED BY <1>2, <1>3

\* Of the handler's own actions only CTake starts at "take", and it waits for a
\* mutex that this very handler holds.
LEMMA StuckWaits ==
    ASSUME IInv, NEW c \in Conns, Stuck(c)
    PROVE  ~CHandler(c) /\ ~PyHandler(c)
<1>1. c \in Threads /\ c \notin Peers /\ pc[c] = "take" /\ Live(c)
  BY PeersAssumption DEF Threads, Stuck, Live
<1>2. mutex[Owner(c)] = c /\ c # None
  BY <1>1, NoneAssumption DEF IInv, LockDiscipline, Critical, Stuck
<1>3. ~PyHandler(c)
  BY <1>1 DEF PyHandler, PyTouch, PyRegister, PySendList, PyAnnounceLock,
              PyAnnounce, PyAnnounced, PyAdd, PyServe, PyHandles
<1>4. ~CHandler(c)
  BY <1>1, <1>2 DEF CHandler, CLock, CInform, CAppend, CInformed, CServe,
                    CHandles, Handles, CReply, CEof, CTake
<1> QED BY <1>3, <1>4


Waits(c) == Same(c) \/ up'[conn[c].to] = "crashed"

\* No client of any peer frees the handler.
LEMMA StuckClient ==
    ASSUME IInv, NEW c \in Conns, Stuck(c), NEW p \in Peers,
           CClient(p) \/ PyClient(p) \/ CScan(p) \/ PyPick(p)
    PROVE  Waits(c)
<1>1. p \in Threads \ {c} /\ Owner(p) = p
  BY PeersAssumption DEF Threads, Owner
<1>2. CASE Crash(p, reply) \/ Crash(Owner(p), reply)
  BY <1>1, <1>2, StuckCrash DEF Waits
<1>3. CASE \E next : HangUp(p, next)
  BY <1>1, <1>3, StuckHangUp DEF Waits
<1>4. CASE \E q, cmd, waiting : Ask(p, q, cmd, waiting)
  BY <1>1, <1>4, StuckAsk DEF Waits
<1>5. CASE \E next : pc' = [pc EXCEPT ![p] = next] /\ UNCHANGED wires
  BY <1>1, <1>5, StuckMove DEF Waits
<1>6. CASE UNCHANGED <<pc, wires>>
  BY <1>6 DEF Waits, Same, Stuck, wires
<1>7. ASSUME CClient(p) \/ CScan(p)
      PROVE  Waits(c)
  <2>1. CASE CBoot(p) \/ CPick(p)
    BY <1>2, <1>4, <1>5, <2>1 DEF CBoot, CPick, Send, FaultWithoutReply
  <2>2. CASE CScan(p)
    BY <1>5, <2>2 DEF CScan
  <2>3. CASE CTake(p)
    BY <1>3, <2>3 DEF CTake
  <2>4. CASE \E waiting, next : CReply(p, waiting, next) \/ CEof(p, waiting, next)
    BY <1>2, <1>3, <1>5, <2>4 DEF CReply, CEof
  <2> QED BY <1>7, <2>1, <2>2, <2>3, <2>4 DEF CClient
<1>8. ASSUME PyClient(p) \/ PyPick(p)
      PROVE  Waits(c)
  <2>1. CASE PyBoot(p) \/ PyPick(p)
    BY <1>4, <1>5, <2>1 DEF PyBoot, PyPick, PySend
  <2>2. CASE PyReply(p) \/ PyEof(p) \/ PyRetrieved(p)
    BY <1>3, <2>2 DEF PyReply, PyEof, PyRetrieved
  <2>3. CASE PyMergeLock(p) \/ PyMerged(p)
    BY <1>5, <2>3 DEF PyMergeLock, PyMerged
  <2>4. CASE PyMerge(p)
    BY <1>6, <2>4 DEF PyMerge
  <2> QED BY <1>8, <2>1, <2>2, <2>3, <2>4 DEF PyClient
<1> QED BY <1>7, <1>8

\* No other handler frees it, and it does not free itself.
LEMMA StuckHandler ==
    ASSUME IInv, NEW c \in Conns, Stuck(c), NEW e \in Conns \ {c},
           CHandler(e) \/ PyHandler(e)
    PROVE  Waits(c)
<1>1. e \in Threads \ {c} /\ e \notin Peers
  BY PeersAssumption DEF Threads
<1>2. ASSUME NEW p \in Peers, NEW answered, Crash(p, answered)
      PROVE  Waits(c)
  BY <1>2, StuckCrash DEF Waits
<1>3. CASE \E next : HangUp(e, next)
  BY <1>1, <1>3, StuckHangUp DEF Waits
<1>4. CASE \E q, cmd, waiting : Ask(e, q, cmd, waiting)
  BY <1>1, <1>4, StuckAsk DEF Waits
<1>5. CASE \E next : pc' = [pc EXCEPT ![e] = next] /\ UNCHANGED wires
  BY <1>1, <1>5, StuckMove DEF Waits
<1>6. CASE UNCHANGED <<pc, wires>>
  BY <1>6 DEF Waits, Same, Stuck, wires
<1>7. CASE \E r : Finish(e, r)
  BY <1>7, StuckFinish DEF Waits
<1>8. conn[e] # None => conn[e].to \in Peers /\ Owner(e) = conn[e].to
  BY <1>1 DEF IInv, Wired, WireTypes, Requests, Owner
<1>9. ASSUME CHandler(e)
      PROVE  Waits(c)
  <2>1. CASE CLock(e)
    BY <1>5, <2>1 DEF CLock
  <2>2. CASE CInform(e)
    <3>1. conn[e] # None
      BY <2>2 DEF CInform, CHandles, Handles
    <3> QED BY <1>2, <1>4, <1>5, <1>6, <1>8, <2>2, <3>1
            DEF CInform, Send, FaultWithoutReply
  <2>3. CASE CAppend(e) \/ CInformed(e)
    BY <1>2, <1>7, <1>8, <2>3 DEF CAppend, CInformed, CHandles, Handles
  <2>4. CASE CServe(e)
    BY <1>2, <1>7, <1>8, <2>4 DEF CServe, CHandles, Handles
  <2>5. CASE CTake(e)
    BY <1>3, <2>5 DEF CTake
  <2>6. CASE CReply(e, "asking", "inform") \/ CEof(e, "asking", "inform")
    <3>1. pc[e] = "asking"
      BY <2>6 DEF CReply, CEof
    <3>2. conn[e] # None
      BY <3>1 DEF IInv, Wired, FreeIsIdle
    <3> QED BY <1>2, <1>3, <1>5, <1>8, <2>6, <3>2 DEF CReply, CEof
  <2> QED BY <1>9, <2>1, <2>2, <2>3, <2>4, <2>5, <2>6 DEF CHandler
<1>10. ASSUME PyHandler(e)
       PROVE  Waits(c)
  <2>1. CASE PyTouch(e) \/ PyAnnounceLock(e)
    BY <1>5, <2>1 DEF PyTouch, PyAnnounceLock
  <2>2. CASE PyRegister(e)
    BY <1>5, <1>7, <2>2 DEF PyRegister
  <2>3. CASE PySendList(e)
    <3>1. pc' = [pc EXCEPT ![e] = "announce"] /\ conn' = conn
      BY <2>3 DEF PySendList
    <3> QED BY <1>1, <3>1 DEF Waits, Same, Stuck, IInv, Wired, WireTypes
  <2>4. CASE PyAnnounce(e)
    <3>1. CASE /\ FreeConns # {} /\ pc' = [pc EXCEPT ![FirstFree] = "start"]
               /\ \E q, about : Dial(FirstFree, e, q, "INFORM", about)
      <4>1. FirstFree # c /\ FirstFree \in Conns
        BY <3>1, FreeConn DEF Stuck
      <4> QED BY <3>1, <4>1
              DEF Dial, Waits, Same, Stuck, IInv, Wired, WireTypes, Threads
    <3> QED BY <1>6, <1>7, <2>4, <3>1 DEF PyAnnounce
  <2>5. CASE PyAnnounced(e) \/ PyAdd(e) \/ PyServe(e)
    BY <1>7, <2>5 DEF PyAnnounced, PyAdd, PyServe
  <2> QED BY <1>10, <2>1, <2>2, <2>3, <2>4, <2>5 DEF PyHandler
<1> QED BY <1>9, <1>10

\* A handler of handle_register that has an OK to its own REGISTER waits for the
\* mutex it holds (peer.c:339) until the process dies, in every network.
THEOREM SelfDeadlockIsPermanent == Spec => StuckForGood
<1>1. ASSUME IInv, [Next]_vars, NEW c \in Conns, Stuck(c)
      PROVE  Stuck(c)' \/ up'[conn[c].to] = "crashed"
  <2>1. Waits(c)
    <3>1. CASE \E t \in Threads : ThreadStep(t)
      BY <1>1, <3>1, StuckClient, StuckHandler, StuckWaits DEF ThreadStep
    <3>2. CASE \E p \in Peers : UserStep(p)
      BY <1>1, <3>2, StuckClient DEF UserStep
    <3>3. CASE \E p \in Peers : Listen(p) \/ Age(p)
      BY <1>1, <3>3 DEF Listen, Age, wires, Waits, Same, Stuck
    <3>4. CASE UNCHANGED vars
      BY <1>1, <3>4 DEF vars, Waits, Same, Stuck
    <3> QED BY <1>1, <3>1, <3>2, <3>3, <3>4 DEF Next
  <2> QED BY <1>1, <2>1 DEF Waits, Same, Stuck
<1>2. IInv /\ [Next]_vars =>
        [\A c \in Conns : Stuck(c) =>
            Stuck(c)' \/ up'[conn[c].to] = "crashed"]_vars
  BY <1>1
<1> QED BY <1>2, Invariance, PTL DEF Spec, StuckForGood


-----------------------------------------------------------------------------
(* The list of a Python peer.                                              *)

Once(s) == s # <<>> /\ IsInjective(s)

\* Appending a peer that is not listed lists nobody twice.
LEMMA AppendOnce ==
    ASSUME NEW S, NEW s \in Seq(S), NEW e \in S, Once(s), e \notin ToSet(s)
    PROVE  Once(Append(s, e)) /\ Head(Append(s, e)) = Head(s)
<1> DEFINE t == Append(s, e)
<1>1. /\ t \in Seq(S) /\ Len(t) = Len(s) + 1 /\ Len(s) > 0
      /\ \A i \in 1..Len(s) : t[i] = s[i]
      /\ t[Len(s) + 1] = e
  BY AppendProperties DEF Once
<1>2. \A i \in 1..Len(s) : s[i] # e
  BY DEF ToSet
<1>3. \A i, j \in 1..Len(s) : s[i] = s[j] => i = j
  BY DEF Once, IsInjective
<1>4. DOMAIN t = 1..(Len(s) + 1) /\ Len(s) \in Nat
  BY <1>1
<1> HIDE DEF t
<1>5. \A i, j \in 1..(Len(s) + 1) : t[i] = t[j] => i = j
  BY <1>1, <1>2, <1>3
<1>6. IsInjective(t)
  BY <1>4, <1>5 DEF IsInjective
<1>7. t # <<>> /\ Head(t) = t[1] /\ Head(s) = s[1] /\ t[1] = s[1]
  BY <1>1
<1> QED BY <1>6, <1>7 DEF Once, t

\* Removing old entries lists nobody twice.
LEMMA RecentOnce ==
    ASSUME ListTypes, NEW p \in PyPeers, Once(network[p])
    PROVE  Once(Recent(p)) /\ Head(Recent(p)) = Head(network[p])
<1> DEFINE n == network[p]
           k == aged[p]
           s == SubSeq(n, k + 2, Len(n))
           r == <<Head(n)>> \o s
<1>1. n \in Seq(Entries) /\ n # <<>> /\ k \in Nat /\ Len(n) \in Nat
  BY DEF ListTypes, Peers
<1>2. /\ s \in Seq(Entries)
      /\ Len(s) = IF k + 2 <= Len(n) THEN Len(n) - k - 1 ELSE 0
      /\ \A i \in 1..Len(s) : s[i] = n[k + 1 + i]
  <2>1. \A i \in (k + 2)..Len(n) : n[i] \in Entries
    BY <1>1
  <2>2. k + 2 \in Int /\ Len(n) \in Int
    BY <1>1
  <2> HIDE DEF n, k
  <2> QED BY <1>1, <2>1, <2>2, SubSeqProperties
<1>3. <<Head(n)>> \in Seq(Entries) /\ Len(<<Head(n)>>) = 1 /\ Head(n) = n[1]
      /\ <<Head(n)>>[1] = n[1]
  BY <1>1
<1>4. \A i, j \in 1..Len(n) : n[i] = n[j] => i = j
  BY <1>1 DEF Once, IsInjective
<1> HIDE DEF n, k, s
<1>5. /\ r \in Seq(Entries) /\ Len(r) = 1 + Len(s)
      /\ \A i \in 1..Len(r) : r[i] = IF i <= 1 THEN n[1] ELSE s[i - 1]
  BY <1>2, <1>3, ConcatProperties
<1> HIDE DEF r
<1>6. \A i \in 1..Len(r) : /\ i > 1 => r[i] = n[k + i] /\ k + i \in 2..Len(n)
                           /\ i = 1 => r[i] = n[1]
  BY <1>1, <1>2, <1>5
<1>7. \A i, j \in 1..Len(r) : r[i] = r[j] => i = j
  BY <1>1, <1>4, <1>6
<1>8. IsInjective(r) /\ r # <<>> /\ Head(r) = n[1]
  <2>1. DOMAIN r = 1..Len(r) /\ Len(r) >= 1
    <3>1. s \in Seq(Entries) /\ r \in Seq(Entries)
      BY <1>2, <1>5
    <3>2. Len(s) \in Nat /\ DOMAIN r = 1..Len(r)
      BY <3>1
    <3> QED BY <1>5, <3>2
  <2>2. IsInjective(r)
    BY <1>7, <2>1 DEF IsInjective
  <2>3. r # <<>> /\ Head(r) = r[1] /\ r[1] = n[1]
    BY <1>5, <2>1
  <2> QED BY <2>2, <2>3
<1> QED BY <1>3, <1>8 DEF Once, Recent, r, s, n, k


\* Every step of any thread keeps a Python peer's list sound.
LEMMA PyListsStep ==
    ASSUME IInv, PyListsOnce, Next, NEW p \in PyPeers
    PROVE  Head(network'[p]) = p /\ IsInjective(network'[p])
<1>1. /\ network \in [Peers -> Seq(Entries)] /\ p \in Peers /\ p \notin CPeers
      /\ Once(network[p]) /\ Head(network[p]) = p
  BY PeersAssumption DEF IInv, ListTypes, PyListsOnce, Once, Peers
<1>2. ASSUME network' = network \/ \E q \in Peers \ {p} : \E list :
                                      network' = [network EXCEPT ![q] = list]
      PROVE  Head(network'[p]) = p /\ IsInjective(network'[p])
  BY <1>1, <1>2 DEF Once
<1>3. ASSUME NEW e \in Entries,
             network' = [network EXCEPT ![p] =
                           IF e \in ToSet(@) THEN @ ELSE Append(@, e)]
      PROVE  Head(network'[p]) = p /\ IsInjective(network'[p])
  <2>1. CASE e \in ToSet(network[p])
    BY <1>1, <1>3, <2>1 DEF Once
  <2>2. CASE e \notin ToSet(network[p])
    <3>1. network'[p] = Append(network[p], e)
      BY <1>1, <1>3, <2>2
    <3>2. network[p] \in Seq(Entries)
      BY <1>1
    <3> QED BY <1>1, <2>2, <3>1, <3>2, AppendOnce DEF Once
  <2> QED BY <2>1, <2>2
<1>4. \A c \in Conns : conn[c] # None =>
         conn[c].to \in Peers /\ conn[c].from \in Peers
  BY DEF IInv, Wired, WireTypes, Requests
<1>5. ASSUME NEW t \in Peers, CClient(t) \/ CScan(t)
      PROVE  Head(network'[p]) = p /\ IsInjective(network'[p])
  <2>1. CASE CTake(t)
    <3>1. Owner(t) = t /\ Owner(t) \in CPeers
      BY <2>1 DEF CTake, CThread, Owner
    <3> QED BY <1>1, <1>2, <1>5, <2>1, <3>1 DEF CTake
  <2>2. CASE ~CTake(t)
    BY <1>2, <1>5, <2>2
       DEF CClient, CScan, CBoot, CPick, CReply, CEof, FaultWithoutReply, Crash,
           state
  <2> QED BY <2>1, <2>2
<1>6. ASSUME NEW c \in Conns, CHandler(c)
      PROVE  Head(network'[p]) = p /\ IsInjective(network'[p])
  <2>1. CASE CTake(c)
    <3>1. pc[c] = "take" /\ Owner(c) = conn[c].to /\ Owner(c) \in CPeers
      BY <2>1, PeersAssumption DEF CTake, CThread, Owner
    <3> QED BY <1>1, <1>2, <2>1, <3>1 DEF CTake, Peers
  <2>2. CASE CAppend(c) \/ CInformed(c)
    <3>1. conn[c].to \in CPeers
      BY <2>2 DEF CAppend, CInformed, CHandles
    <3> QED BY <1>1, <1>2, <2>2, <3>1 DEF CAppend, CInformed, Crash, Peers
  <2>3. CASE \/ CLock(c) \/ CInform(c) \/ CServe(c)
             \/ CReply(c, "asking", "inform") \/ CEof(c, "asking", "inform")
    BY <1>2, <2>3 DEF CLock, CInform, CServe, CReply, CEof, FaultWithoutReply,
                      Crash, state
  <2> QED BY <1>6, <2>1, <2>2, <2>3 DEF CHandler
<1>7. ASSUME NEW t \in Peers, PyClient(t) \/ PyPick(t)
      PROVE  Head(network'[p]) = p /\ IsInjective(network'[p])
  <2>1. CASE PyMerge(t)
    <3> DEFINE e == seen[t][at[t]]
    <3>1. /\ at[t] \in 1..Len(seen[t])
          /\ network' = [network EXCEPT ![t] =
                           IF e \in ToSet(@) THEN @ ELSE Append(@, e)]
      BY <2>1 DEF PyMerge
    <3>2. e \in Entries
      BY <3>1 DEF IInv, ListTypes, Threads
    <3> HIDE DEF e
    <3>3. CASE t = p
      BY <1>3, <3>1, <3>2, <3>3
    <3>4. CASE t # p
      BY <1>2, <3>1, <3>4
    <3> QED BY <3>3, <3>4
  <2>2. CASE ~PyMerge(t)
    BY <1>2, <1>7, <2>2
       DEF PyClient, PyBoot, PyReply, PyEof, PyMergeLock, PyMerged, PyRetrieved,
           PyPick, state
  <2> QED BY <2>1, <2>2
<1>8. ASSUME NEW c \in Conns, PyHandler(c)
      PROVE  Head(network'[p]) = p /\ IsInjective(network'[p])
  <2> DEFINE q == conn[c].to
  <2>1. CASE PyTouch(c)
    <3>1. \/ network' = network
          \/ q \in PyPeers /\ network' = [network EXCEPT ![q] = Recent(q)]
      BY <2>1 DEF PyTouch, PyHandles
    <3>2. CASE q = p /\ network' = [network EXCEPT ![q] = Recent(q)]
      <4>1. network'[p] = Recent(p)
        BY <1>1, <3>2
      <4>2. Once(Recent(p)) /\ Head(Recent(p)) = p
        BY <1>1, RecentOnce DEF IInv
      <4> QED BY <4>1, <4>2 DEF Once
    <3>3. CASE q # p \/ network' = network
      BY <1>2, <3>1, <3>3 DEF Peers
    <3> QED BY <3>1, <3>2, <3>3
  <2>2. CASE PyRegister(c)
    <3> DEFINE e == conn[c].from
    <3>1. /\ conn[c] # None
          /\ \/ network' = network
             \/ /\ e \notin ToSet(network[q])
                /\ network' = [network EXCEPT ![q] = Append(network[q], e)]
      BY <2>2 DEF PyRegister, PyHandles
    <3>2. e \in Entries /\ q \in Peers
      BY <1>4, <3>1 DEF Entries
    <3>3. CASE q # p \/ network' = network
      BY <1>2, <3>1, <3>2, <3>3
    <3>4. CASE q = p /\ network' # network
      <4>1. /\ e \notin ToSet(network[p])
            /\ network'[p] = Append(network[p], e)
        BY <1>1, <3>1, <3>4
      <4>2. network[p] \in Seq(Entries)
        BY <1>1
      <4> QED BY <1>1, <3>2, <4>1, <4>2, AppendOnce DEF Once
    <3> QED BY <3>3, <3>4
  <2>3. CASE PyAdd(c)
    <3> DEFINE e == conn[c].about
    <3>1. /\ conn[c] # None /\ conn[c].cmd = "INFORM"
          /\ network' = [network EXCEPT ![q] =
                           IF e \in ToSet(@) THEN @ ELSE Append(@, e)]
      BY <2>3 DEF PyAdd, PyHandles
    <3>2. e \in Entries /\ q \in Peers
      BY <3>1 DEF IInv, Wired, WireTypes, Requests, Awaited
    <3> HIDE DEF e
    <3>3. CASE q = p
      BY <1>3, <3>1, <3>2, <3>3
    <3>4. CASE q # p
      BY <1>2, <3>1, <3>2, <3>4
    <3> QED BY <3>3, <3>4
  <2>4. CASE \/ PySendList(c) \/ PyAnnounceLock(c) \/ PyAnnounce(c)
             \/ PyAnnounced(c) \/ PyServe(c)
    BY <1>2, <2>4 DEF PySendList, PyAnnounceLock, PyAnnounce, PyAnnounced,
                      PyServe, state
  <2> QED BY <1>8, <2>1, <2>2, <2>3, <2>4 DEF PyHandler
<1>9. CASE \E q \in Peers : Listen(q) \/ Age(q)
  BY <1>2, <1>9 DEF Listen, Age
<1> QED BY <1>5, <1>6, <1>7, <1>8, <1>9 DEF Next, ThreadStep, UserStep

\* A Python peer always lists itself first and nobody twice, however the
\* registrations, informs, merges and removals of its threads interleave.
THEOREM PyListsCorrect == Spec => []PyListsOnce
<1>1. Init => PyListsOnce
  BY DEF Init, PyListsOnce, IsInjective, Peers
<1>2. IInv /\ PyListsOnce /\ [Next]_vars => PyListsOnce'
  <2>1. ASSUME IInv, PyListsOnce, Next
        PROVE  PyListsOnce'
    BY <2>1, PyListsStep DEF PyListsOnce
  <2>2. ASSUME PyListsOnce, UNCHANGED vars
        PROVE  PyListsOnce'
    BY <2>2 DEF PyListsOnce, vars
  <2> QED BY <2>1, <2>2
<1> QED BY <1>1, <1>2, Invariance, PTL DEF Spec

-----------------------------------------------------------------------------
(* What an INFORM says.  It is made of the list the handler of a REGISTER    *)
(* copied when it appended the newcomer, so the invariant speaks of that     *)
(* copy, until the last peer is told.                                       *)

Relays(c) == pc[c] \in {"reply", "announce", "announcing"}

\* An INFORM names a third peer; the copy of a handler that still announces ends
\* with the peer that registered, which is not the peer it registered with.
News(c) ==
    /\ conn[c] # None /\ conn[c].cmd = "INFORM" =>
          conn[c].about \notin {conn[c].from, conn[c].to}
    /\ Relays(c) => /\ seen[c] # <<>> /\ Last(seen[c]) = conn[c].from
                    /\ conn[c].from # conn[c].to

NewsInv == \A c \in Conns : News(c)

\* A step that sends no INFORM on c and does not let its handler start to announce.
Steady(c) ==
    /\ conn'[c] \in {None, conn[c]} \/ conn'[c].cmd \in Awaited
    /\ Relays(c)' => Relays(c) /\ conn'[c] = conn[c] /\ seen'[c] = seen[c]

\* Such a step keeps the news true.
LEMMA SteadyNews ==
    ASSUME NEW c \in Conns, News(c), Steady(c)
    PROVE  News(c)'
<1>1. ASSUME conn'[c] # None, conn'[c].cmd = "INFORM"
      PROVE  conn'[c].about \notin {conn'[c].from, conn'[c].to}
  <2>1. conn'[c] = conn[c]
    BY <1>1 DEF Steady, Awaited
  <2> QED BY <1>1, <2>1 DEF News
<1>2. ASSUME Relays(c)'
      PROVE  seen'[c] # <<>> /\ Last(seen'[c]) = conn'[c].from /\ conn'[c].from # conn'[c].to
  BY <1>2 DEF Steady, News
<1> QED BY <1>1, <1>2 DEF News

\* A call carries a REGISTER or a RETRIEVE.
LEMMA SteadyAsk ==
    ASSUME IInv, NEW c \in Conns, NEW t \in Threads, Live(t), NEW q, NEW cmd \in Awaited,
           NEW waiting \in {"registering", "retrieving", "asking"},
           Ask(t, q, cmd, waiting), seen' = seen
    PROVE  Steady(c)
<1> DEFINE f == FirstFree
<1>1. f \in Conns /\ conn[f] = None /\ f # t
  BY FreeConn, NoneAssumption DEF Ask, Live
<1> DEFINE r == [to |-> q, from |-> Owner(t), cmd |-> cmd, about |-> None]
<1>2. conn' = [conn EXCEPT ![f] = r] /\ pc' = [pc EXCEPT ![t] = waiting, ![f] = "start"]
  BY DEF Ask, Dial
<1>3. r.cmd \in Awaited
  OBVIOUS
<1> HIDE DEF f, r
<1> QED BY <1>1, <1>2, <1>3 DEF Steady, Relays, IInv, Wired, WireTypes, Threads

\* A call ends.
LEMMA SteadyHangUp ==
    ASSUME IInv, NEW c \in Conns, NEW t \in Threads,
           NEW next \in {"joined", "merge", "dead", "inform"},
           HangUp(t, next), t # c => seen'[c] = seen[c]
    PROVE  Steady(c)
<1>1. \/ /\ pc' = [pc EXCEPT ![t] = next, ![call[t]] = "idle"]
         /\ conn' = [conn EXCEPT ![call[t]] = None]
      \/ pc' = [pc EXCEPT ![t] = next] /\ conn' = conn
  BY DEF HangUp
<1>2. CASE pc' = [pc EXCEPT ![t] = next] /\ conn' = conn
  BY <1>2 DEF Steady, Relays, IInv, Wired, WireTypes, Threads
<1>3. CASE /\ pc' = [pc EXCEPT ![t] = next, ![call[t]] = "idle"]
           /\ conn' = [conn EXCEPT ![call[t]] = None]
  <2>1. CASE call[t] = c
    BY <1>3, <2>1 DEF Steady, Relays, IInv, Wired, WireTypes, Threads
  <2>2. CASE call[t] # c
    BY <1>3, <2>2 DEF Steady, Relays, IInv, Wired, WireTypes, Threads
  <2> QED BY <2>1, <2>2
<1> QED BY <1>1, <1>2, <1>3

\* A handler returns.
LEMMA SteadyFinish ==
    ASSUME IInv, NEW c \in Conns, NEW e \in Conns, NEW r,
           Finish(e, r), e # c => seen'[c] = seen[c]
    PROVE  Steady(c)
<1>1. \/ pc' = [pc EXCEPT ![e] = "closed"] /\ conn' = conn
      \/ pc' = [pc EXCEPT ![e] = "idle"] /\ conn' = [conn EXCEPT ![e] = None]
  BY DEF Finish
<1> QED BY <1>1 DEF Steady, Relays, IInv, Wired, WireTypes, Threads

\* A thread moves on, and not towards an announcement on c.
LEMMA SteadyMove ==
    ASSUME IInv, NEW c \in Conns, NEW t \in Threads, NEW next,
           t = c => next \notin {"reply", "announce", "announcing"},
           pc' = [pc EXCEPT ![t] = next], conn' = conn, t # c => seen'[c] = seen[c]
    PROVE  Steady(c)
BY DEF Steady, Relays, IInv, Wired, WireTypes, Threads

\* A process dies.
LEMMA SteadyCrash ==
    ASSUME IInv, NEW c \in Conns, NEW p \in Peers, NEW answered, Crash(p, answered)
    PROVE  Steady(c)
<1>1. c \in Threads /\ c # p
  BY PeersAssumption DEF Threads
<1>2. CASE conn[c] # None /\ conn[c].to = p
  <2>1. pc'[c] \in {"idle", "closed"}
    BY <1>1, <1>2 DEF Crash
  <2>2. conn'[c] \in {None, conn[c]}
    BY DEF Crash
  <2> QED BY <2>1, <2>2 DEF Steady, Relays
<1>3. CASE ~(conn[c] # None /\ conn[c].to = p)
  <2>1. seen'[c] = seen[c]
    BY <1>1, <1>3 DEF Crash
  <2>2. pc'[c] = "idle" \/ (pc'[c] = pc[c] /\ conn'[c] = conn[c])
    BY <1>1, <1>3 DEF Crash
  <2>3. conn'[c] \in {None, conn[c]}
    BY DEF Crash
  <2> QED BY <2>1, <2>2, <2>3 DEF Steady, Relays
<1> QED BY <1>2, <1>3

\* Nothing a client does is about an announcement.
LEMMA SteadyClient ==
    ASSUME IInv, NEW c \in Conns, NEW p \in Peers,
           CClient(p) \/ PyClient(p) \/ CScan(p) \/ PyPick(p)
    PROVE  Steady(c)
<1>1. p \in Threads \ {c} /\ Owner(p) = p /\ Live(p)
  BY PeersAssumption DEF Threads, Owner, Live
<1>2. CASE Crash(p, reply) \/ Crash(Owner(p), reply)
  BY <1>1, <1>2, SteadyCrash
<1>3. CASE /\ \E next \in {"joined", "merge", "dead"} : HangUp(p, next)
           /\ seen' = seen \/ \E s : seen' = [seen EXCEPT ![p] = s]
  <2>1. seen'[c] = seen[c]
    BY <1>1, <1>3 DEF IInv, ListTypes, Threads
  <2> QED BY <1>1, <1>3, <2>1, SteadyHangUp
<1>4. CASE /\ \E q : \E cmd \in Awaited : \E waiting \in {"registering", "retrieving"} :
                 Ask(p, q, cmd, waiting)
           /\ seen' = seen
  BY <1>1, <1>4, SteadyAsk
<1>5. CASE /\ \E next : pc' = [pc EXCEPT ![p] = next]
           /\ conn' = conn
           /\ seen' = seen \/ \E s : seen' = [seen EXCEPT ![p] = s]
  <2>1. seen'[c] = seen[c]
    BY <1>1, <1>5 DEF IInv, ListTypes, Threads
  <2> QED BY <1>1, <1>5, <2>1, SteadyMove
<1>6. CASE UNCHANGED <<pc, wires, seen>>
  BY <1>6 DEF Steady, Relays, wires
<1>7. ASSUME CClient(p) \/ CScan(p)
      PROVE  Steady(c)
  <2>1. CASE CBoot(p) \/ CPick(p)
    BY <1>2, <1>4, <1>5, <2>1 DEF CBoot, CPick, Send, FaultWithoutReply, Awaited, wires
  <2>2. CASE CScan(p)
    BY <1>5, <2>2 DEF CScan, wires
  <2>3. CASE CTake(p)
    <3>1. \E next \in {"joined", "merge", "dead"} : HangUp(p, next)
      BY <1>1, <2>3 DEF CTake
    <3> QED BY <1>3, <2>3, <3>1 DEF CTake
  <2>4. CASE \E waiting : CReply(p, waiting, "joined") \/ CEof(p, waiting, "joined")
    BY <1>2, <1>3, <1>5, <2>4 DEF CReply, CEof, wires
  <2> QED BY <1>7, <2>1, <2>2, <2>3, <2>4 DEF CClient
<1>8. ASSUME PyClient(p) \/ PyPick(p)
      PROVE  Steady(c)
  <2>1. CASE PyBoot(p) \/ PyPick(p)
    BY <1>4, <1>5, <2>1 DEF PyBoot, PyPick, PySend, Awaited, wires
  <2>2. CASE PyReply(p) \/ PyEof(p) \/ PyRetrieved(p)
    BY <1>3, <2>2 DEF PyReply, PyEof, PyRetrieved, Dies
  <2>3. CASE PyMergeLock(p) \/ PyMerged(p)
    BY <1>5, <2>3 DEF PyMergeLock, PyMerged, wires
  <2>4. CASE PyMerge(p)
    BY <1>6, <2>4 DEF PyMerge
  <2> QED BY <1>8, <2>1, <2>2, <2>3, <2>4 DEF PyClient
<1> QED BY <1>7, <1>8

\* Nor is anything a handler of a C peer does.
LEMMA SteadyCHandler ==
    ASSUME IInv, NEW c \in Conns, NEW e \in Conns, CHandler(e)
    PROVE  Steady(c)
<1>1. e \in Threads /\ e \notin Peers
  BY PeersAssumption DEF Threads
<1>2. conn[e] # None => conn[e].to \in Peers /\ Owner(e) = conn[e].to /\ Live(e)
  BY <1>1 DEF IInv, Wired, WireTypes, Requests, Owner, Live
<1>3. ASSUME NEW p \in Peers, NEW answered, Crash(p, answered)
      PROVE  Steady(c)
  BY <1>3, SteadyCrash
<1>4. CASE HangUp(e, "inform") /\ seen' = seen
  BY <1>1, <1>4, SteadyHangUp
<1>5. CASE /\ pc' = [pc EXCEPT ![e] = "inform"] \/ pc' = [pc EXCEPT ![e] = "take"]
           /\ UNCHANGED wires /\ seen' = seen
  BY <1>1, <1>5, SteadyMove DEF wires
<1>6. CASE UNCHANGED <<pc, wires, seen>>
  BY <1>6 DEF Steady, Relays, wires
<1>7. CASE (\E r : Finish(e, r)) /\ seen' = seen
  BY <1>7, SteadyFinish
<1>8. CASE CLock(e)
  BY <1>5, <1>8 DEF CLock
<1>9. CASE CInform(e)
  <2>1. conn[e] # None
    BY <1>9 DEF CInform, CHandles, Handles
  <2>2. ASSUME NEW q, Ask(e, q, "REGISTER", "asking"), seen' = seen
        PROVE  Steady(c)
    BY <1>1, <1>2, <2>1, <2>2, SteadyAsk DEF Awaited
  <2> QED BY <1>2, <1>3, <1>5, <1>6, <1>9, <2>1, <2>2
          DEF CInform, Send, FaultWithoutReply
<1>10. CASE CAppend(e) \/ CInformed(e)
  BY <1>2, <1>3, <1>7, <1>10 DEF CAppend, CInformed, CHandles, Handles
<1>11. CASE CServe(e)
  BY <1>2, <1>3, <1>7, <1>11 DEF CServe, CHandles, Handles
<1>12. CASE CTake(e)
  BY <1>1, <1>4, <1>12 DEF CTake
<1>13. CASE CReply(e, "asking", "inform") \/ CEof(e, "asking", "inform")
  <2>1. pc[e] = "asking"
    BY <1>13 DEF CReply, CEof
  <2>2. conn[e] # None
    BY <2>1 DEF IInv, Wired, FreeIsIdle
  <2> QED BY <1>2, <1>3, <1>4, <1>5, <1>13, <2>2 DEF CReply, CEof
<1> QED BY <1>8, <1>9, <1>10, <1>11, <1>12, <1>13 DEF CHandler

\* A peer that PyRegister appends is not the peer it registers with, which is in
\* its own list.
LEMMA RegisterNews ==
    ASSUME IInv, PyListsOnce, NewsInv, NEW e \in Conns, PyRegister(e), NEW c \in Conns
    PROVE  News(c)'
<1> DEFINE p == conn[e].to
           q == conn[e].from
<1>1. e \in Threads /\ conn[e] # None /\ p \in PyPeers /\ p \in Peers /\ q \in Entries
  BY DEF PyRegister, PyHandles, IInv, Wired, WireTypes, Requests, Threads, Peers, Entries
<1>2. CASE q \in ToSet(network[p])
  <2>1. Finish(e, [status |-> "EXISTS", peers |-> <<>>]) /\ seen' = seen
    BY <1>2 DEF PyRegister
  <2> QED BY <2>1, SteadyFinish, SteadyNews DEF NewsInv
<1>3. CASE q \notin ToSet(network[p])
  <2>1. /\ seen' = [seen EXCEPT ![e] = Append(network[p], q)]
        /\ pc' = [pc EXCEPT ![e] = "reply"] /\ conn' = conn
    BY <1>3 DEF PyRegister, wires
  <2>2. CASE c # e
    <3>1. seen'[c] = seen[c]
      BY <2>1, <2>2 DEF IInv, ListTypes, Threads
    <3> QED BY <1>1, <2>1, <2>2, <3>1, SteadyMove, SteadyNews DEF NewsInv
  <2>3. CASE c = e
    <3>1. network[p] \in Seq(Entries) /\ network[p] # <<>> /\ Head(network[p]) = p
      BY <1>1 DEF IInv, ListTypes, PyListsOnce
    <3>2. 1 \in DOMAIN network[p] /\ network[p][1] = p
      BY <3>1
    <3>3. q # p
      BY <1>3, <3>2 DEF ToSet
    <3>4. seen'[e] = Append(network[p], q)
      BY <1>1, <2>1 DEF IInv, ListTypes
    <3> DEFINE s == Append(network[p], q)
    <3>5. s # <<>> /\ Last(s) = q
      BY <1>1, <3>1 DEF Last
    <3> QED BY <2>1, <2>3, <3>3, <3>4, <3>5 DEF News, NewsInv
  <2> QED BY <2>2, <2>3
<1> QED BY <1>2, <1>3

\* PyAnnounce tells a peer that is neither.
LEMMA AnnounceNews ==
    ASSUME IInv, NewsInv, NEW e \in Conns, PyAnnounce(e), NEW c \in Conns
    PROVE  News(c)'
<1> DEFINE p == conn[e].to
           q == network[p][at[e]]
           f == FirstFree
<1>1. e \in Threads /\ e \notin Peers /\ conn[e] # None /\ pc[e] = "announcing"
  BY PeersAssumption DEF PyAnnounce, PyHandles, Threads
<1>2. CASE UNCHANGED <<pc, wires, seen>>
  BY <1>2, SteadyNews DEF Steady, Relays, wires, NewsInv
<1>3. CASE Finish(e, None) /\ seen' = [seen EXCEPT ![e] = <<>>]
  <2>1. e # c => seen'[c] = seen[c]
    BY <1>3 DEF IInv, ListTypes, Threads
  <2> QED BY <1>3, <2>1, SteadyFinish, SteadyNews DEF NewsInv
<1>4. CASE /\ q \notin {p, conn[e].from} /\ FreeConns # {}
           /\ Dial(f, e, q, "INFORM", Last(seen[e]))
           /\ pc' = [pc EXCEPT ![f] = "start"] /\ seen' = seen
  <2>1. f \in Conns /\ conn[f] = None
    BY <1>4, FreeConn
  <2> DEFINE r == [to |-> q, from |-> p, cmd |-> "INFORM", about |-> Last(seen[e])]
  <2>2. conn' = [conn EXCEPT ![f] = r]
    BY <1>1, <1>4 DEF Dial, Owner
  <2>3. Last(seen[e]) = conn[e].from /\ conn[e].from # p
    BY <1>1 DEF NewsInv, News, Relays
  <2>4. r.about \notin {r.from, r.to}
    BY <1>4, <2>3
  <2> HIDE DEF r, f, q, p
  <2>5. CASE c = f
    <3>1. conn'[c] = r /\ pc'[c] = "start"
      BY <1>4, <2>1, <2>2, <2>5 DEF IInv, Wired, WireTypes, Threads
    <3> QED BY <2>4, <3>1 DEF News, Relays
  <2>6. CASE c # f
    <3>1. conn'[c] = conn[c] /\ pc'[c] = pc[c] /\ seen'[c] = seen[c]
      BY <1>4, <2>1, <2>2, <2>6 DEF IInv, Wired, WireTypes, Threads
    <3> QED BY <3>1, SteadyNews DEF Steady, Relays, NewsInv
  <2> QED BY <2>5, <2>6
<1> QED BY <1>2, <1>3, <1>4 DEF PyAnnounce

\* The other steps of a Python handler.
LEMMA PyHandlerNews ==
    ASSUME IInv, PyListsOnce, NewsInv, NEW e \in Conns, PyHandler(e), NEW c \in Conns
    PROVE  News(c)'
<1>1. e \in Threads
  BY DEF Threads
<1>2. CASE PyTouch(e)
  <2>1. pc' = [pc EXCEPT ![e] = "touched"] /\ conn' = conn /\ seen' = seen
    BY <1>2 DEF PyTouch, wires
  <2> QED BY <1>1, <2>1, SteadyMove, SteadyNews DEF NewsInv
<1>3. ASSUME Relays(e), Relays(e)', conn' = conn, seen' = seen,
             \E next : pc' = [pc EXCEPT ![e] = next]
      PROVE  News(c)'
  <2>1. Steady(c)
    BY <1>3 DEF Steady, Relays, IInv, Wired, WireTypes, Threads
  <2> QED BY <2>1, SteadyNews DEF NewsInv
<1>4. CASE PySendList(e)
  <2>1. pc[e] = "reply" /\ pc' = [pc EXCEPT ![e] = "announce"] /\ conn' = conn /\ seen' = seen
    BY <1>4 DEF PySendList, PyHandles
  <2> QED BY <1>1, <1>3, <2>1 DEF Relays, IInv, Wired, WireTypes
<1>5. CASE PyAnnounceLock(e)
  <2>1. /\ pc[e] = "announce" /\ pc' = [pc EXCEPT ![e] = "announcing"]
        /\ conn' = conn /\ seen' = seen
    BY <1>5 DEF PyAnnounceLock, PyHandles, wires
  <2> QED BY <1>1, <1>3, <2>1 DEF Relays, IInv, Wired, WireTypes
<1>6. CASE PyAnnounced(e) \/ PyAdd(e) \/ PyServe(e)
  <2>1. (\E r : Finish(e, r)) /\ (seen' = seen \/ seen' = [seen EXCEPT ![e] = <<>>])
    BY <1>6 DEF PyAnnounced, PyAdd, PyServe
  <2>2. e # c => seen'[c] = seen[c]
    BY <2>1 DEF IInv, ListTypes, Threads
  <2> QED BY <2>1, <2>2, SteadyFinish, SteadyNews DEF NewsInv
<1>7. CASE PyRegister(e)
  BY <1>7, RegisterNews
<1>8. CASE PyAnnounce(e)
  BY <1>8, AnnounceNews
<1> QED BY <1>2, <1>4, <1>5, <1>6, <1>7, <1>8 DEF PyHandler

\* The invariant holds in every network.
LEMMA NewsInvariance == Spec => []NewsInv
<1>1. Init => NewsInv
  BY DEF Init, NewsInv, News, Relays, Threads
<1>2. IInv /\ PyListsOnce /\ NewsInv /\ [Next]_vars => NewsInv'
  <2> SUFFICES ASSUME IInv, PyListsOnce, NewsInv, [Next]_vars, NEW c \in Conns
               PROVE  News(c)'
    BY DEF NewsInv
  <2>1. ASSUME Steady(c)
        PROVE  News(c)'
    BY <2>1, SteadyNews DEF NewsInv
  <2>2. CASE \E p \in Peers : CClient(p) \/ PyClient(p) \/ UserStep(p)
    BY <2>1, <2>2, SteadyClient DEF UserStep
  <2>3. CASE \E e \in Conns : CHandler(e) \/ PyHandler(e)
    BY <2>1, <2>3, SteadyCHandler, PyHandlerNews
  <2>4. CASE \E p \in Peers : Listen(p) \/ Age(p)
    BY <2>1, <2>4 DEF Listen, Age, wires, Steady, Relays
  <2>5. CASE UNCHANGED vars
    BY <2>1, <2>5 DEF vars, Steady, Relays
  <2> QED BY <2>2, <2>3, <2>4, <2>5 DEF Next, ThreadStep
<1> QED BY <1>1, <1>2, Invariance, PyListsCorrect, PTL DEF Spec

\* An INFORM names a third peer, neither its sender nor its receiver, whatever C
\* and Python peers register with whom, and however lists age meanwhile.
THEOREM InformsAreNews == Spec => []InformsOfNewcomer
<1>1. NewsInv => InformsOfNewcomer
  BY DEF NewsInv, News, InformsOfNewcomer
<1> QED BY <1>1, NewsInvariance, PTL

-----------------------------------------------------------------------------
(* Whom the contact of a Python peer lists.  Without ageing, lists only grow; *)
(* the invariant follows a registration from the list it is entered in to the *)
(* client that reads its reply.                                             *)

Young == \A p \in PyPeers : aged[p] = 0

Registers(c) == conn[c] # None /\ conn[c].cmd = "REGISTER" /\ conn[c].to \in PyPeers

\* A registration that is being answered, or was, is in the list; a connection
\* that is free has no reply.
Registered(c) ==
    /\ Registers(c) /\ (Relays(c) \/ reply[c] # None) =>
          conn[c].from \in ToSet(network[conn[c].to])
    /\ conn[c] = None => reply[c] = None

\* A client that registers waits for its contact.
Asks(p) == pc[p] = "registering" =>
    call[p] # None /\ conn[call[p]] = [to |-> Contact[p], from |-> p, cmd |-> "REGISTER",
                                       about |-> None]

Listed(p) ==
    pc[p] \in {"merge", "merging", "joined", "retrieving"} /\ Contact[p] \in PyPeers =>
        p \in ToSet(network[Contact[p]])

KnownInv == /\ Young
            /\ \A c \in Conns : Registered(c)
            /\ \A p \in PyPeers : Asks(p) /\ Listed(p)

-----------------------------------------------------------------------------
(* Lists grow.                                                             *)

\* Nothing is removed when nothing is old.
LEMMA RecentSame ==
    ASSUME IInv, NEW p \in PyPeers, aged[p] = 0
    PROVE  Recent(p) = network[p]
<1> DEFINE n == network[p]
<1>1. n \in Seq(Entries) /\ n # <<>>
  BY DEF IInv, ListTypes, Peers
<1>2. Recent(p) = <<Head(n)>> \o SubSeq(n, 2, Len(n))
  BY DEF Recent
<1> HIDE DEF n
<1> QED BY <1>1, <1>2 DEF n

\* An entry is added or not.
LEMMA AddGrows ==
    ASSUME NEW s \in Seq(Entries), NEW e \in Entries, NEW t,
           t = IF e \in ToSet(s) THEN s ELSE Append(s, e)
    PROVE  ToSet(s) \subseteq ToSet(t) /\ e \in ToSet(t)
<1>1. CASE e \in ToSet(s)
  BY <1>1
<1>2. CASE e \notin ToSet(s)
  <2>1. t = Append(s, e)
    BY <1>2
  <2>2. /\ Len(t) = Len(s) + 1 /\ DOMAIN t = 1..Len(t) /\ DOMAIN s = 1..Len(s)
        /\ Len(s) \in Nat
        /\ t[Len(t)] = e /\ \A i \in 1..Len(s) : t[i] = s[i]
    BY <2>1, AppendProperties
  <2> QED BY <2>2 DEF ToSet
<1> QED BY <1>1, <1>2

\* Without ageing the list of a Python peer only grows.
LEMMA GrowsStep ==
    ASSUME IInv, Young, Next, NEW p \in PyPeers
    PROVE  ToSet(network[p]) \subseteq ToSet(network'[p])
<1> DEFINE Grows == ToSet(network[p]) \subseteq ToSet(network'[p])
<1>1. /\ network \in [Peers -> Seq(Entries)] /\ p \in Peers /\ p \notin CPeers
  BY PeersAssumption DEF IInv, ListTypes, Peers
<1>2. ASSUME network' = network \/ \E q \in Peers \ {p} : \E list :
                                      network' = [network EXCEPT ![q] = list]
      PROVE  Grows
  BY <1>1, <1>2
<1>3. ASSUME NEW q \in Peers, NEW e \in Entries,
             network' = [network EXCEPT ![q] =
                           IF e \in ToSet(@) THEN @ ELSE Append(@, e)]
      PROVE  Grows
  <2>1. CASE q = p
    <3>1. network'[p] = IF e \in ToSet(network[p]) THEN network[p] ELSE Append(network[p], e)
      BY <1>1, <1>3, <2>1
    <3> QED BY <1>1, <3>1, AddGrows
  <2>2. CASE q # p
    BY <1>2, <1>3, <2>2
  <2> QED BY <2>1, <2>2
<1>4. \A c \in Conns : conn[c] # None =>
         conn[c].to \in Peers /\ conn[c].from \in Peers
  BY DEF IInv, Wired, WireTypes, Requests
<1>5. ASSUME NEW t \in Peers, CClient(t) \/ CScan(t)
      PROVE  Grows
  <2>1. CASE CTake(t)
    <3>1. Owner(t) = t /\ Owner(t) \in CPeers
      BY <2>1 DEF CTake, CThread, Owner
    <3> QED BY <1>1, <1>2, <1>5, <2>1, <3>1 DEF CTake
  <2>2. CASE ~CTake(t)
    BY <1>2, <1>5, <2>2
       DEF CClient, CScan, CBoot, CPick, CReply, CEof, FaultWithoutReply, Crash,
           state
  <2> QED BY <2>1, <2>2
<1>6. ASSUME NEW c \in Conns, CHandler(c)
      PROVE  Grows
  <2>1. CASE CTake(c)
    <3>1. Owner(c) = conn[c].to /\ Owner(c) \in CPeers
      BY <2>1, PeersAssumption, SMTT(60) DEF CTake, CThread, Owner
    <3> QED BY <1>1, <1>2, <2>1, <3>1 DEF CTake, Peers
  <2>2. CASE CAppend(c) \/ CInformed(c)
    <3>1. conn[c].to \in CPeers
      BY <2>2, SMTT(60) DEF CAppend, CInformed, CHandles
    <3> QED BY <1>1, <1>2, <2>2, <3>1 DEF CAppend, CInformed, Crash, Peers
  <2>3. CASE \/ CLock(c) \/ CInform(c) \/ CServe(c)
             \/ CReply(c, "asking", "inform") \/ CEof(c, "asking", "inform")
    BY <1>2, <2>3 DEF CLock, CInform, CServe, CReply, CEof, FaultWithoutReply,
                      Crash, state
  <2> QED BY <1>6, <2>1, <2>2, <2>3 DEF CHandler
<1>7. ASSUME NEW t \in Peers, PyClient(t) \/ PyPick(t)
      PROVE  Grows
  <2>1. CASE PyMerge(t)
    <3> DEFINE e == seen[t][at[t]]
    <3>1. /\ at[t] \in 1..Len(seen[t])
          /\ network' = [network EXCEPT ![t] =
                           IF e \in ToSet(@) THEN @ ELSE Append(@, e)]
      BY <2>1 DEF PyMerge
    <3>2. e \in Entries
      BY <3>1 DEF IInv, ListTypes, Threads
    <3> HIDE DEF e, Grows
    <3> QED BY <1>3, <3>1, <3>2
  <2>2. CASE ~PyMerge(t)
    BY <1>2, <1>7, <2>2
       DEF PyClient, PyBoot, PyReply, PyEof, PyMergeLock, PyMerged, PyRetrieved,
           PyPick, state
  <2> QED BY <2>1, <2>2
<1>8. ASSUME NEW c \in Conns, PyHandler(c)
      PROVE  Grows
  <2> DEFINE q == conn[c].to
  <2>1. CASE PyTouch(c)
    <3>1. \/ network' = network
          \/ q \in PyPeers /\ network' = [network EXCEPT ![q] = Recent(q)]
      BY <2>1 DEF PyTouch, PyHandles
    <3>2. CASE q \in PyPeers /\ network' = [network EXCEPT ![q] = Recent(q)]
      <4>1. Recent(q) = network[q]
        BY <3>2, RecentSame DEF Young
      <4> QED BY <1>1, <1>2, <3>2, <4>1
    <3> QED BY <1>2, <3>1, <3>2
  <2>2. CASE PyRegister(c)
    <3> DEFINE e == conn[c].from
    <3>1. /\ conn[c] # None
          /\ \/ network' = network
             \/ /\ e \notin ToSet(network[q])
                /\ network' = [network EXCEPT ![q] = Append(network[q], e)]
      BY <2>2 DEF PyRegister, PyHandles
    <3>2. e \in Entries /\ q \in Peers
      BY <1>4, <3>1 DEF Entries
    <3> HIDE DEF e, Grows, q
    <3>3. CASE /\ e \notin ToSet(network[q])
               /\ network' = [network EXCEPT ![q] = Append(network[q], e)]
      <4>1. network' = [network EXCEPT ![q] = IF e \in ToSet(@) THEN @ ELSE Append(@, e)]
        BY <3>3
      <4> QED BY <1>3, <3>2, <4>1
    <3> QED BY <1>2, <3>1, <3>3
  <2>3. CASE PyAdd(c)
    <3> DEFINE e == conn[c].about
    <3>1. /\ conn[c] # None /\ conn[c].cmd = "INFORM"
          /\ network' = [network EXCEPT ![q] =
                           IF e \in ToSet(@) THEN @ ELSE Append(@, e)]
      BY <2>3 DEF PyAdd, PyHandles
    <3>2. e \in Entries /\ q \in Peers
      BY <3>1 DEF IInv, Wired, WireTypes, Requests, Awaited
    <3> HIDE DEF e, Grows, q
    <3> QED BY <1>3, <3>1, <3>2
  <2>4. CASE \/ PySendList(c) \/ PyAnnounceLock(c) \/ PyAnnounce(c)
             \/ PyAnnounced(c) \/ PyServe(c)
    BY <1>2, <2>4 DEF PySendList, PyAnnounceLock, PyAnnounce, PyAnnounced,
                      PyServe, state
  <2> QED BY <1>8, <2>1, <2>2, <2>3, <2>4 DEF PyHandler
<1>9. CASE \E q \in Peers : Listen(q) \/ Age(q)
  BY <1>2, <1>9 DEF Listen, Age
<1> QED BY <1>5, <1>6, <1>7, <1>8, <1>9 DEF Next, ThreadStep, UserStep

\* And nothing gets old.
LEMMA YoungStep ==
    ASSUME IInv, Young, ~Ageing, Next
    PROVE  Young'
<1> SUFFICES ASSUME NEW p \in PyPeers PROVE aged'[p] = 0
  BY DEF Young
<1>1. aged[p] = 0 /\ aged \in [Peers -> Nat] /\ p \in Peers
  BY DEF Young, IInv, ListTypes, Peers
<1>2. CASE aged' = aged \/ \E q : aged' = [aged EXCEPT ![q] = 0]
  BY <1>1, <1>2, SMTT(60)
<1>3. ASSUME NEW t \in Peers, CClient(t) \/ CScan(t) \/ PyClient(t) \/ PyPick(t)
      PROVE  aged' = aged
  BY <1>3, SMTT(60) DEF CClient, CScan, CBoot, CPick, CReply, CEof, CTake, FaultWithoutReply, Crash,
           state, PyClient, PyBoot, PyReply, PyEof, PyMergeLock, PyMerge, PyMerged,
           PyRetrieved, PyPick
<1>4. ASSUME NEW c \in Conns, CHandler(c)
      PROVE  aged' = aged
  BY <1>4 DEF CHandler, CLock, CInform, CAppend, CInformed, CServe, CReply, CEof, CTake,
              FaultWithoutReply, Crash, state
<1>5. ASSUME NEW c \in Conns, PyHandler(c)
      PROVE  aged' = aged \/ \E q : aged' = [aged EXCEPT ![q] = 0]
  BY <1>5 DEF PyHandler, PyTouch, PyRegister, PySendList, PyAnnounceLock, PyAnnounce,
              PyAnnounced, PyAdd, PyServe, state
<1>6. ASSUME NEW q \in Peers, Listen(q) \/ Age(q)
      PROVE  aged' = aged
  BY <1>6 DEF Listen, Age
<1> QED BY <1>2, <1>3, <1>4, <1>5, <1>6 DEF Next, ThreadStep, UserStep

-----------------------------------------------------------------------------
(* Registrations and their replies.                                        *)

\* A step after which c carries no registration with a reply that it did not carry
\* before: c becomes free, or a new call, or stays the call it is.
Mute(c) ==
    \/ conn'[c] = None /\ reply'[c] = None
    \/ conn[c] = None /\ pc'[c] = "start" /\ reply'[c] = reply[c] /\ conn'[c] # None
    \/ /\ conn'[c] = conn[c]
       /\ Relays(c)' => Relays(c)
       /\ \/ reply'[c] = reply[c]
          \/ Relays(c) /\ conn[c] # None
          \/ conn[c] # None /\ ~Registers(c)

\* Lists grow.
Growing == \A q \in PyPeers : ToSet(network[q]) \subseteq ToSet(network'[q])

\* Such a step keeps registrations in the list.
LEMMA MuteRegistered ==
    ASSUME NEW c \in Conns, Registered(c), Mute(c), Growing
    PROVE  Registered(c)'
<1>1. CASE conn'[c] = None /\ reply'[c] = None
  BY <1>1 DEF Registered, Registers
<1>2. CASE conn[c] = None /\ pc'[c] = "start" /\ reply'[c] = reply[c] /\ conn'[c] # None
  BY <1>2 DEF Registered, Registers, Relays
<1>3. CASE /\ conn'[c] = conn[c]
           /\ Relays(c)' => Relays(c)
           /\ \/ reply'[c] = reply[c]
              \/ Relays(c) /\ conn[c] # None
              \/ conn[c] # None /\ ~Registers(c)
  <2>1. ASSUME Registers(c)', Relays(c)' \/ reply'[c] # None
        PROVE  conn'[c].from \in ToSet(network'[conn'[c].to])
    <3>1. Registers(c) /\ (Relays(c) \/ reply[c] # None)
      BY <1>3, <2>1 DEF Registers
    <3>2. conn[c].from \in ToSet(network[conn[c].to]) /\ conn[c].to \in PyPeers
      BY <3>1 DEF Registered, Registers
    <3> QED BY <1>3, <3>2 DEF Growing
  <2>2. conn'[c] = None => reply'[c] = None
    BY <1>3 DEF Registered
  <2> QED BY <2>1, <2>2 DEF Registered
<1> QED BY <1>1, <1>2, <1>3 DEF Mute

\* A call.
LEMMA MuteAsk ==
    ASSUME IInv, NEW c \in Conns, NEW t \in Threads, Live(t), NEW q, NEW cmd \in Awaited,
           NEW waiting \in {"registering", "retrieving", "asking"},
           Ask(t, q, cmd, waiting)
    PROVE  Mute(c)
<1> DEFINE f == FirstFree
<1>1. f \in Conns /\ conn[f] = None /\ f # t
  BY FreeConn, NoneAssumption DEF Ask, Live
<1> DEFINE r == [to |-> q, from |-> Owner(t), cmd |-> cmd, about |-> None]
<1>2. /\ conn' = [conn EXCEPT ![f] = r]
      /\ pc' = [pc EXCEPT ![t] = waiting, ![f] = "start"] /\ reply' = reply
  BY DEF Ask, Dial
<1>3. r # None
  <2>1. Owner(t) \in Peers
    BY OwnerIsPeer DEF IInv, Wired
  <2>2. r \in Requests
    BY <2>1 DEF Ask, Reachable, Requests
  <2> QED BY <2>2, NoneAssumption
<1> HIDE DEF f, r
<1>4. CASE c = f
  BY <1>1, <1>2, <1>3, <1>4 DEF Mute, IInv, Wired, WireTypes, Threads
<1>5. CASE c # f
  BY <1>1, <1>2, <1>5 DEF Mute, Relays, IInv, Wired, WireTypes, Threads
<1> QED BY <1>4, <1>5

\* The end of a call.
LEMMA MuteHangUp ==
    ASSUME IInv, NEW c \in Conns, NEW t \in Threads,
           NEW next \in {"joined", "merge", "dead", "inform"}, HangUp(t, next)
    PROVE  Mute(c)
<1>1. \/ /\ pc' = [pc EXCEPT ![t] = next, ![call[t]] = "idle"]
         /\ conn' = [conn EXCEPT ![call[t]] = None]
         /\ reply' = [reply EXCEPT ![call[t]] = None]
      \/ pc' = [pc EXCEPT ![t] = next] /\ conn' = conn /\ reply' = reply
  BY DEF HangUp
<1>2. CASE pc' = [pc EXCEPT ![t] = next] /\ conn' = conn /\ reply' = reply
  BY <1>2 DEF Mute, Relays, IInv, Wired, WireTypes, Threads
<1>3. CASE /\ pc' = [pc EXCEPT ![t] = next, ![call[t]] = "idle"]
           /\ conn' = [conn EXCEPT ![call[t]] = None]
           /\ reply' = [reply EXCEPT ![call[t]] = None]
  <2>1. CASE call[t] = c
    BY <1>3, <2>1 DEF Mute, IInv, Wired, WireTypes
  <2>2. CASE call[t] # c
    BY <1>3, <2>2 DEF Mute, Relays, IInv, Wired, WireTypes, Threads
  <2> QED BY <2>1, <2>2
<1> QED BY <1>1, <1>2, <1>3

\* The end of a handler that does not answer a registration, or has already.
LEMMA MuteFinish ==
    ASSUME IInv, NEW c \in Conns, NEW e \in Conns, conn[e] # None, NEW r,
           Finish(e, r), r # None => ~Registers(e)
    PROVE  Mute(c)
<1>1. \/ /\ pc' = [pc EXCEPT ![e] = "closed"] /\ conn' = conn
         /\ reply' = [reply EXCEPT ![e] = IF r = None THEN @ ELSE r]
      \/ /\ pc' = [pc EXCEPT ![e] = "idle"] /\ conn' = [conn EXCEPT ![e] = None]
         /\ reply' = [reply EXCEPT ![e] = None]
  BY DEF Finish
<1>2. CASE c = e
  BY <1>1, <1>2 DEF Mute, Relays, IInv, Wired, WireTypes, Threads
<1>3. CASE c # e
  BY <1>1, <1>3 DEF Mute, Relays, IInv, Wired, WireTypes, Threads
<1> QED BY <1>2, <1>3

\* A thread moves on, and not towards an answer on c.
LEMMA MuteMove ==
    ASSUME IInv, NEW c \in Conns, NEW t \in Threads, NEW next,
           t = c /\ next \in {"reply", "announce", "announcing"} => Relays(c),
           pc' = [pc EXCEPT ![t] = next], conn' = conn, reply' = reply
    PROVE  Mute(c)
BY DEF Mute, Relays, IInv, Wired, WireTypes, Threads

\* The end of a process, which may have refused a file before.
LEMMA MuteCrash ==
    ASSUME IInv, NEW c \in Conns, NEW p \in Peers, NEW answered, Crash(p, answered),
           answered[c] = reply[c] \/ (conn[c] # None /\ ~Registers(c))
    PROVE  Mute(c)
<1>1. c \in Threads /\ c # p
  BY PeersAssumption DEF Threads
<1>2. \/ conn'[c] = None /\ reply'[c] = None
      \/ conn'[c] = conn[c] /\ reply'[c] = answered[c]
  BY DEF Crash
<1>3. pc'[c] \in {"idle", "closed", pc[c]}
  BY <1>1 DEF Crash
<1> QED BY <1>2, <1>3 DEF Mute, Relays

\* Clients leave every registration as it is.
LEMMA MuteClient ==
    ASSUME IInv, NEW c \in Conns, NEW p \in Peers,
           CClient(p) \/ PyClient(p) \/ CScan(p) \/ PyPick(p)
    PROVE  Mute(c)
<1>1. p \in Threads \ {c} /\ Owner(p) = p /\ Live(p)
  BY PeersAssumption DEF Threads, Owner, Live
<1>2. CASE Crash(p, reply) \/ Crash(Owner(p), reply)
  BY <1>1, <1>2, MuteCrash
<1>3. CASE \E next \in {"joined", "merge", "dead"} : HangUp(p, next)
  BY <1>1, <1>3, MuteHangUp
<1>4. CASE \E q : \E cmd \in Awaited : \E waiting \in {"registering", "retrieving"} :
                 Ask(p, q, cmd, waiting)
  BY <1>1, <1>4, MuteAsk
<1>5. CASE (\E next : pc' = [pc EXCEPT ![p] = next]) /\ conn' = conn /\ reply' = reply
  BY <1>1, <1>5, MuteMove
<1>6. CASE UNCHANGED <<pc, wires>>
  BY <1>6 DEF Mute, Relays, wires
<1>7. ASSUME CClient(p) \/ CScan(p)
      PROVE  Mute(c)
  <2>1. CASE CBoot(p) \/ CPick(p)
    BY <1>2, <1>4, <1>5, <2>1 DEF CBoot, CPick, Send, FaultWithoutReply, Awaited, wires
  <2>2. CASE CScan(p)
    BY <1>5, <2>2 DEF CScan, wires
  <2>3. CASE CTake(p)
    <3>1. \E next \in {"joined", "merge", "dead"} : HangUp(p, next)
      BY <1>1, <2>3 DEF CTake
    <3> QED BY <1>3, <3>1
  <2>4. CASE \E waiting : CReply(p, waiting, "joined") \/ CEof(p, waiting, "joined")
    BY <1>2, <1>3, <1>5, <2>4 DEF CReply, CEof, wires
  <2> QED BY <1>7, <2>1, <2>2, <2>3, <2>4 DEF CClient
<1>8. ASSUME PyClient(p) \/ PyPick(p)
      PROVE  Mute(c)
  <2>1. CASE PyBoot(p) \/ PyPick(p)
    BY <1>4, <1>5, <2>1 DEF PyBoot, PyPick, PySend, Awaited, wires
  <2>2. CASE PyReply(p) \/ PyEof(p) \/ PyRetrieved(p)
    BY <1>3, <2>2 DEF PyReply, PyEof, PyRetrieved, Dies
  <2>3. CASE PyMergeLock(p) \/ PyMerged(p)
    BY <1>5, <2>3 DEF PyMergeLock, PyMerged, wires
  <2>4. CASE PyMerge(p)
    BY <1>6, <2>4 DEF PyMerge
  <2> QED BY <1>8, <2>1, <2>2, <2>3, <2>4 DEF PyClient
<1> QED BY <1>7, <1>8

\* A handler of a C peer answers no registration with a Python peer.
LEMMA MuteCHandler ==
    ASSUME IInv, NEW c \in Conns, NEW e \in Conns, CHandler(e)
    PROVE  Mute(c)
<1>1. e \in Threads /\ e \notin Peers
  BY PeersAssumption DEF Threads
<1>2. conn[e] # None => conn[e].to \in Peers /\ Owner(e) = conn[e].to /\ Live(e)
  BY <1>1 DEF IInv, Wired, WireTypes, Requests, Owner, Live
<1>3. ASSUME NEW p \in Peers, Crash(p, reply)
      PROVE  Mute(c)
  BY <1>3, MuteCrash
<1>4. CASE HangUp(e, "inform")
  BY <1>1, <1>4, MuteHangUp
<1>5. CASE /\ pc' = [pc EXCEPT ![e] = "inform"] \/ pc' = [pc EXCEPT ![e] = "take"]
           /\ UNCHANGED wires
  BY <1>1, <1>5, MuteMove DEF wires
<1>6. CASE UNCHANGED <<pc, wires>>
  BY <1>6 DEF Mute, Relays, wires
<1>7. conn[e] # None /\ conn[e].to \in CPeers => ~Registers(e)
  BY PeersAssumption DEF Registers
<1>8. ASSUME conn[e] # None, conn[e].to \in CPeers, NEW r, Finish(e, r)
      PROVE  Mute(c)
  BY <1>7, <1>8, MuteFinish
<1>9. CASE CLock(e)
  BY <1>5, <1>9 DEF CLock
<1>10. CASE CInform(e)
  <2>1. conn[e] # None
    BY <1>10 DEF CInform, CHandles, Handles
  <2>2. ASSUME NEW q, Ask(e, q, "REGISTER", "asking")
        PROVE  Mute(c)
    BY <1>1, <1>2, <2>1, <2>2, MuteAsk DEF Awaited
  <2> QED BY <1>2, <1>3, <1>5, <1>6, <1>10, <2>1, <2>2
          DEF CInform, Send, FaultWithoutReply
<1>11. CASE CAppend(e) \/ CInformed(e)
  BY <1>2, <1>3, <1>8, <1>11 DEF CAppend, CInformed, CHandles, Handles
<1>12. CASE CServe(e)
  <2>1. conn[e] # None /\ conn[e].to \in CPeers
    BY <1>12 DEF CServe, CHandles, Handles
  <2> DEFINE a == [reply EXCEPT ![e] = [status |-> "BAD", peers |-> <<>>]]
  <2>2. (\E r : Finish(e, r)) \/ Crash(conn[e].to, a)
    BY <1>12 DEF CServe
  <2>3. a[c] = reply[c] \/ (conn[c] # None /\ ~Registers(c))
    BY <1>7, <2>1 DEF IInv, Wired, WireTypes
  <2> HIDE DEF a
  <2> QED BY <1>2, <1>8, <2>1, <2>2, <2>3, MuteCrash
<1>13. CASE CTake(e)
  BY <1>1, <1>4, <1>13 DEF CTake
<1>14. CASE CReply(e, "asking", "inform") \/ CEof(e, "asking", "inform")
  <2>1. pc[e] = "asking"
    BY <1>14 DEF CReply, CEof
  <2>2. conn[e] # None
    BY <2>1 DEF IInv, Wired, FreeIsIdle
  <2> QED BY <1>2, <1>3, <1>4, <1>5, <1>14, <2>2 DEF CReply, CEof
<1> QED BY <1>9, <1>10, <1>11, <1>12, <1>13, <1>14 DEF CHandler

\* A Python handler answers a registration after it appended the peer, or because
\* it is in the list.
LEMMA PyHandlerRegistered ==
    ASSUME IInv, IInv', NEW e \in Conns, PyHandler(e), NEW c \in Conns,
           Registered(c), Growing
    PROVE  Registered(c)'
<1>1. e \in Threads /\ conn[e] # None /\ conn[e].to \in PyPeers /\ conn[e].to \in Peers
  BY DEF PyHandler, PyTouch, PyRegister, PySendList, PyAnnounceLock, PyAnnounce,
         PyAnnounced, PyAdd, PyServe, PyHandles, Threads, Peers
<1>2. ASSUME Mute(c)
      PROVE  Registered(c)'
  BY <1>2, MuteRegistered
<1>3. CASE PyTouch(e)
  <2>1. pc' = [pc EXCEPT ![e] = "touched"] /\ conn' = conn /\ reply' = reply
    BY <1>3 DEF PyTouch, wires
  <2> QED BY <1>1, <1>2, <2>1, MuteMove
<1>4. CASE PyRegister(e)
  <2> DEFINE p == conn[e].to
             q == conn[e].from
  <2>1. CASE q \in ToSet(network[p]) /\ \E r : Finish(e, r)
    <3>1. CASE c = e
      <4>1. \/ conn'[c] = None /\ reply'[c] = None
            \/ conn'[c] = conn[c] /\ conn[c] # None
        BY <1>1, <2>1, <3>1 DEF Finish, IInv, Wired, WireTypes
      <4> QED BY <1>1, <2>1, <3>1, <4>1 DEF Registered, Registers, Growing
    <3>2. CASE c # e
      <4>1. /\ conn'[c] = conn[c] /\ reply'[c] = reply[c] /\ pc'[c] = pc[c]
        BY <1>1, <2>1, <3>2 DEF Finish, IInv, Wired, WireTypes, Threads
      <4> QED BY <1>2, <4>1 DEF Mute, Relays
    <3> QED BY <3>1, <3>2
  <2>2. CASE /\ network' = [network EXCEPT ![p] = Append(network[p], q)]
             /\ pc' = [pc EXCEPT ![e] = "reply"] /\ UNCHANGED wires
    <3>1. CASE c = e
      <4>1. network'[p] = Append(network[p], q) /\ network[p] \in Seq(Entries)
        BY <1>1, <2>2 DEF IInv, ListTypes
      <4>2. q \in Entries
        BY <1>1 DEF IInv, Wired, WireTypes, Requests, Entries
      <4> HIDE DEF p, q
      <4>3. q \in ToSet(network'[p])
        <5>1. Len(network[p]) + 1 \in DOMAIN Append(network[p], q)
          BY <4>1, <4>2
        <5>2. Append(network[p], q)[Len(network[p]) + 1] = q
          BY <4>1, <4>2
        <5> QED BY <4>1, <5>1, <5>2 DEF ToSet
      <4> QED BY <1>1, <2>2, <3>1, <4>3 DEF Registered, Registers, wires, p, q
    <3>2. CASE c # e
      BY <1>1, <1>2, <2>2, <3>2, MuteMove DEF wires
    <3> QED BY <3>1, <3>2
  <2> QED BY <1>4, <2>1, <2>2 DEF PyRegister
<1>5. CASE PySendList(e)
  <2>1. /\ pc[e] = "reply" /\ pc' = [pc EXCEPT ![e] = "announce"] /\ conn' = conn
        /\ \E r : reply' = [reply EXCEPT ![e] = r]
    BY <1>5 DEF PySendList, PyHandles
  <2>2. Mute(c)
    BY <1>1, <2>1 DEF Mute, Relays, IInv, Wired, WireTypes, Threads
  <2> QED BY <1>2, <2>2
<1>6. CASE PyAnnounceLock(e)
  <2>1. /\ pc[e] = "announce" /\ pc' = [pc EXCEPT ![e] = "announcing"] /\ conn' = conn
        /\ reply' = reply
    BY <1>6 DEF PyAnnounceLock, PyHandles, wires
  <2>2. Mute(c)
    BY <1>1, <2>1 DEF Mute, Relays, IInv, Wired, WireTypes, Threads
  <2> QED BY <1>2, <2>2
<1>7. CASE PyAnnounce(e)
  <2> DEFINE f == FirstFree
  <2>1. CASE UNCHANGED <<pc, wires>>
    BY <1>2, <2>1 DEF Mute, Relays, wires
  <2>2. CASE Finish(e, None)
    BY <1>1, <1>2, <2>2, MuteFinish
  <2>3. CASE /\ FreeConns # {} /\ pc' = [pc EXCEPT ![f] = "start"] /\ reply' = reply
             /\ \E q \in Peers : \E about : Dial(f, e, q, "INFORM", about)
    <3>0. PICK q \in Peers : \E about : Dial(f, e, q, "INFORM", about)
      BY <2>3
    <3>1. PICK about : Dial(f, e, q, "INFORM", about)
      BY <3>0
    <3> DEFINE r == [to |-> q, from |-> Owner(e), cmd |-> "INFORM", about |-> about]
    <3>2. conn' = [conn EXCEPT ![f] = r] /\ f \in Conns /\ conn[f] = None
      BY <2>3, <3>1, FreeConn DEF Dial
    <3>3. conn'[f] # None
      <4>1. pc'[f] = "start"
        BY <2>3, <3>2 DEF IInv, Wired, WireTypes, Threads
      <4> QED BY <3>2, <4>1 DEF IInv, Wired, FreeIsIdle
    <3> HIDE DEF r, f
    <3>4. Mute(c)
      BY <2>3, <3>2, <3>3 DEF Mute, Relays, IInv, Wired, WireTypes, Threads
    <3> QED BY <1>2, <3>4
  <2> QED BY <1>7, <2>1, <2>2, <2>3 DEF PyAnnounce, Reachable
<1>8. CASE PyAnnounced(e)
  BY <1>1, <1>2, <1>8, MuteFinish DEF PyAnnounced
<1>9. CASE PyAdd(e)
  BY <1>1, <1>2, <1>9, MuteFinish DEF PyAdd
<1>10. CASE PyServe(e)
  <2>1. ~Registers(e) /\ \E r : Finish(e, r)
    BY <1>10 DEF PyServe, PyHandles, Registers
  <2> QED BY <1>1, <1>2, <2>1, MuteFinish
<1> QED BY <1>3, <1>4, <1>5, <1>6, <1>7, <1>8, <1>9, <1>10, SMTT(60) DEF PyHandler

-----------------------------------------------------------------------------
(* The client of a Python peer.                                            *)

\* A step of others: the client stays where it is, or its process dies.
Other(p) == \/ pc'[p] = "dead"
            \/ pc'[p] = pc[p] /\ call'[p] = call[p]

\* A connection carries what it carried, or is given back, or is a new one.
Carries(c) == conn'[c] \in {None, conn[c]} \/ conn[c] = None

\* A call of another thread.
LEMMA OtherAsk ==
    ASSUME IInv, NEW p \in Peers, NEW t \in Threads \ {p}, NEW q, NEW cmd, NEW waiting,
           Ask(t, q, cmd, waiting)
    PROVE  Other(p)
<1>1. FirstFree \in Conns /\ p \in Threads /\ FirstFree # p
  BY FreeConn, PeersAssumption DEF Ask, Threads
<1> QED BY <1>1 DEF Other, Ask, IInv, Wired, WireTypes, Threads

\* The end of such a call.
LEMMA OtherHangUp ==
    ASSUME IInv, NEW p \in Peers, NEW t \in Threads \ {p}, NEW next,
           call[t] # None, HangUp(t, next)
    PROVE  Other(p)
<1>1. call[t] \in Conns /\ p \in Threads /\ call[t] # p
  BY PeersAssumption DEF IInv, Wired, WireTypes, Threads
<1>2. \/ pc' = [pc EXCEPT ![t] = next, ![call[t]] = "idle"]
      \/ pc' = [pc EXCEPT ![t] = next]
  BY DEF HangUp
<1>3. call' = [call EXCEPT ![t] = None]
  BY DEF HangUp
<1> QED BY <1>1, <1>2, <1>3 DEF Other, IInv, Wired, WireTypes

\* The end of a handler.
LEMMA OtherFinish ==
    ASSUME IInv, NEW p \in Peers, NEW e \in Conns, NEW r, Finish(e, r)
    PROVE  Other(p)
<1>1. p \in Threads /\ p # e
  BY PeersAssumption DEF Threads
<1> QED BY <1>1 DEF Other, Finish, IInv, Wired, WireTypes

\* A move of another thread.
LEMMA OtherMove ==
    ASSUME IInv, NEW p \in Peers, NEW t \in Threads \ {p}, NEW next,
           pc' = [pc EXCEPT ![t] = next], call' = call
    PROVE  Other(p)
BY DEF Other, IInv, Wired, WireTypes, Threads

\* The end of a process.
LEMMA OtherCrash ==
    ASSUME IInv, NEW p \in Peers, NEW q \in Peers, NEW answered, Crash(q, answered)
    PROVE  Other(p)
<1>1. p \in Threads /\ p \notin Conns
  BY PeersAssumption DEF Threads
<1>2. CASE p = q
  BY <1>1, <1>2 DEF Other, Crash
<1>3. CASE p # q
  <2>1. pc'[p] = pc[p]
    BY <1>1, <1>3 DEF Crash
  <2>2. call'[p] = call[p]
    BY <1>1, <1>3 DEF Crash
  <2> QED BY <2>1, <2>2 DEF Other
<1> QED BY <1>2, <1>3

\* Other clients.
LEMMA OtherClient ==
    ASSUME IInv, NEW p \in Peers, NEW t \in Peers \ {p},
           CClient(t) \/ PyClient(t) \/ CScan(t) \/ PyPick(t)
    PROVE  Other(p)
<1>1. t \in Threads \ {p} /\ Owner(t) = t
  BY DEF Threads, Owner
<1>2. CASE Crash(t, reply) \/ Crash(Owner(t), reply)
  BY <1>1, <1>2, OtherCrash
<1>3. CASE call[t] # None /\ \E next : HangUp(t, next)
  BY <1>1, <1>3, OtherHangUp
<1>4. CASE \E q, cmd, waiting : Ask(t, q, cmd, waiting)
  BY <1>1, <1>4, OtherAsk
<1>5. CASE (\E next : pc' = [pc EXCEPT ![t] = next]) /\ call' = call
  BY <1>1, <1>5, OtherMove
<1>6. CASE UNCHANGED <<pc, wires>>
  BY <1>6 DEF Other, wires
<1>7. ASSUME CClient(t) \/ CScan(t)
      PROVE  Other(p)
  <2>1. CASE CBoot(t) \/ CPick(t)
    BY <1>2, <1>4, <1>5, <2>1 DEF CBoot, CPick, Send, FaultWithoutReply, wires
  <2>2. CASE CScan(t)
    BY <1>5, <2>2 DEF CScan, wires
  <2>3. CASE CTake(t)
    BY <1>1, <1>3, <2>3 DEF CTake, IInv, Wired, Calls
  <2>4. CASE \E waiting : CReply(t, waiting, "joined") \/ CEof(t, waiting, "joined")
    BY <1>2, <1>3, <1>5, <2>4 DEF CReply, CEof, wires, Answered, Eof
  <2> QED BY <1>7, <2>1, <2>2, <2>3, <2>4 DEF CClient
<1>8. ASSUME PyClient(t) \/ PyPick(t)
      PROVE  Other(p)
  <2>1. CASE PyBoot(t) \/ PyPick(t)
    BY <1>4, <1>5, <2>1 DEF PyBoot, PyPick, PySend, wires
  <2>2. CASE PyReply(t) \/ PyEof(t) \/ PyRetrieved(t)
    BY <1>3, <2>2 DEF PyReply, PyEof, PyRetrieved, Answered, Eof
  <2>3. CASE PyMergeLock(t) \/ PyMerged(t)
    BY <1>5, <2>3 DEF PyMergeLock, PyMerged, wires
  <2>4. CASE PyMerge(t)
    BY <1>6, <2>4 DEF PyMerge
  <2> QED BY <1>8, <2>1, <2>2, <2>3, <2>4 DEF PyClient
<1> QED BY <1>7, <1>8

\* Handlers.
LEMMA OtherHandler ==
    ASSUME IInv, NEW p \in Peers, NEW e \in Conns, CHandler(e) \/ PyHandler(e)
    PROVE  Other(p)
<1>1. e \in Threads \ {p} /\ e \notin Peers
  BY PeersAssumption DEF Threads
<1>2. ASSUME NEW q \in Peers, NEW answered, Crash(q, answered)
      PROVE  Other(p)
  BY <1>2, OtherCrash
<1>3. CASE call[e] # None /\ \E next : HangUp(e, next)
  BY <1>1, <1>3, OtherHangUp
<1>4. CASE \E q, cmd, waiting : Ask(e, q, cmd, waiting)
  BY <1>1, <1>4, OtherAsk
<1>5. CASE (\E next : pc' = [pc EXCEPT ![e] = next]) /\ call' = call
  BY <1>1, <1>5, OtherMove
<1>6. CASE UNCHANGED <<pc, wires>>
  BY <1>6 DEF Other, wires
<1>7. CASE \E r : Finish(e, r)
  BY <1>7, OtherFinish
<1>8. conn[e] # None => conn[e].to \in Peers /\ Owner(e) = conn[e].to
  BY <1>1 DEF IInv, Wired, WireTypes, Requests, Owner
<1>9. ASSUME CHandler(e)
      PROVE  Other(p)
  <2>1. CASE CLock(e)
    BY <1>5, <2>1 DEF CLock, wires
  <2>2. CASE CInform(e)
    <3>1. conn[e] # None
      BY <2>2 DEF CInform, CHandles, Handles
    <3> QED BY <1>2, <1>4, <1>5, <1>6, <1>8, <2>2, <3>1
            DEF CInform, Send, FaultWithoutReply, wires
  <2>3. CASE CAppend(e) \/ CInformed(e)
    BY <1>2, <1>7, <1>8, <2>3 DEF CAppend, CInformed, CHandles, Handles
  <2>4. CASE CServe(e)
    BY <1>2, <1>7, <1>8, <2>4 DEF CServe, CHandles, Handles
  <2>5. CASE CTake(e)
    BY <1>1, <1>3, <2>5 DEF CTake, IInv, Wired, Calls
  <2>6. CASE CReply(e, "asking", "inform") \/ CEof(e, "asking", "inform")
    <3>1. pc[e] = "asking"
      BY <2>6 DEF CReply, CEof
    <3>2. conn[e] # None
      BY <3>1 DEF IInv, Wired, FreeIsIdle
    <3> QED BY <1>2, <1>3, <1>5, <1>8, <2>6, <3>2 DEF CReply, CEof, wires, Answered, Eof
  <2> QED BY <1>9, <2>1, <2>2, <2>3, <2>4, <2>5, <2>6 DEF CHandler
<1>10. ASSUME PyHandler(e)
       PROVE  Other(p)
  <2>1. CASE PyTouch(e) \/ PyAnnounceLock(e) \/ PySendList(e)
    BY <1>5, <2>1 DEF PyTouch, PyAnnounceLock, PySendList, wires
  <2>2. CASE PyRegister(e)
    BY <1>5, <1>7, <2>2 DEF PyRegister, wires
  <2>3. CASE PyAnnounce(e)
    <3>1. CASE FreeConns # {} /\ pc' = [pc EXCEPT ![FirstFree] = "start"] /\ call' = call
      <4>1. FirstFree \in Threads \ {p}
        BY <3>1, FreeConn, PeersAssumption DEF Threads
      <4> QED BY <3>1, <4>1, OtherMove
    <3> QED BY <1>6, <1>7, <2>3, <3>1 DEF PyAnnounce
  <2>4. CASE PyAnnounced(e) \/ PyAdd(e) \/ PyServe(e)
    BY <1>7, <2>4 DEF PyAnnounced, PyAdd, PyServe
  <2> QED BY <1>10, <2>1, <2>2, <2>3, <2>4 DEF PyHandler
<1> QED BY <1>9, <1>10

\* Connections in a step of a Python handler.
LEMMA PyHandlerCarries ==
    ASSUME IInv, NEW e \in Conns, PyHandler(e), NEW c \in Conns
    PROVE  Carries(c)
<1>1. CASE conn' = conn \/ conn' = [conn EXCEPT ![e] = None]
  BY <1>1 DEF Carries, IInv, Wired, WireTypes
<1>2. CASE FreeConns # {} /\ \E r : conn' = [conn EXCEPT ![FirstFree] = r]
  BY <1>2, FreeConn DEF Carries, IInv, Wired, WireTypes
<1>3. CASE \E r : Finish(e, r)
  BY <1>1, <1>3 DEF Finish
<1>4. CASE PyTouch(e) \/ PyAnnounceLock(e) \/ PySendList(e)
  BY <1>1, <1>4 DEF PyTouch, PyAnnounceLock, PySendList, wires
<1>5. CASE PyRegister(e)
  BY <1>1, <1>3, <1>5 DEF PyRegister, wires
<1>6. CASE PyAnnounce(e)
  BY <1>1, <1>2, <1>3, <1>6 DEF PyAnnounce, Dial, wires
<1>7. CASE PyAnnounced(e) \/ PyAdd(e) \/ PyServe(e)
  BY <1>3, <1>7 DEF PyAnnounced, PyAdd, PyServe
<1> QED BY <1>4, <1>5, <1>6, <1>7 DEF PyHandler

\* A client that others leave alone knows what it knew.
LEMMA OtherKnown ==
    ASSUME IInv, IInv', NEW p \in PyPeers, Asks(p), Listed(p), Other(p),
           \A c \in Conns : Carries(c), Growing
    PROVE  Asks(p)' /\ Listed(p)'
<1>1. ASSUME pc'[p] = "registering" PROVE Asks(p)'
  <2>1. pc[p] = "registering" /\ call'[p] = call[p] /\ call[p] # None
    BY <1>1 DEF Other, Asks
  <2>2. p \in Threads
    BY DEF Threads, Peers
  <2>3. call[p] \in Conns /\ conn[call[p]] # None /\ conn'[call[p]] # None
    BY <2>1, <2>2 DEF IInv, Wired, WireTypes, Calls
  <2>4. conn'[call[p]] = conn[call[p]]
    BY <2>3 DEF Carries
  <2> QED BY <2>1, <2>4 DEF Asks
<1>2. Listed(p)'
  BY DEF Listed, Other, Growing
<1> QED BY <1>1, <1>2 DEF Asks

\* What the client itself does.
LEMMA OwnKnown ==
    ASSUME IInv, IInv', NEW p \in PyPeers, KnownInv, Growing, PyClient(p) \/ PyPick(p)
    PROVE  Asks(p)' /\ Listed(p)'
<1>0. p \in Threads /\ p \in Peers /\ p \notin Conns /\ Owner(p) = p /\ Asks(p) /\ Listed(p)
  BY PeersAssumption DEF Threads, Peers, Owner, KnownInv
<1>1. CASE pc'[p] \notin {"registering", "merge", "merging", "joined", "retrieving"}
  BY <1>1 DEF Asks, Listed
<1>2. CASE /\ pc[p] \in {"merge", "merging", "joined", "retrieving"}
           /\ pc'[p] \in {"merge", "merging", "joined", "retrieving"}
  BY <1>0, <1>2 DEF Asks, Listed, Growing
<1>3. ASSUME NEW next, HangUp(p, next), call[p] # None PROVE pc'[p] = next
  <2>1. call[p] \in Conns /\ call[p] # p
    BY <1>0, <1>3 DEF IInv, Wired, WireTypes
  <2>2. \/ pc' = [pc EXCEPT ![p] = next, ![call[p]] = "idle"]
        \/ pc' = [pc EXCEPT ![p] = next]
    BY <1>3 DEF HangUp
  <2> QED BY <1>0, <2>1, <2>2 DEF IInv, Wired, WireTypes
<1>4. ASSUME NEW q, NEW cmd, NEW waiting, Ask(p, q, cmd, waiting)
      PROVE  /\ pc'[p] = waiting /\ call'[p] \in Conns
             /\ conn'[call'[p]] = [to |-> q, from |-> p, cmd |-> cmd, about |-> None]
  <2>1. FirstFree \in Conns /\ FirstFree # p
    BY <1>0, <1>4, FreeConn DEF Ask
  <2> QED BY <1>0, <1>4, <2>1 DEF Ask, Dial, IInv, Wired, WireTypes
<1>5. CASE PyBoot(p)
  <2>1. CASE Ask(p, Contact[p], "REGISTER", "registering")
    BY <1>4, <2>1, NoneAssumption DEF Asks, Listed, Threads
  <2>2. CASE pc' = [pc EXCEPT ![p] = Dies]
    <3>1. pc'[p] = "dead"
      BY <1>0, <2>2 DEF Dies, IInv, Wired, WireTypes
    <3> QED BY <1>1, <3>1
  <2> QED BY <1>5, <2>1, <2>2 DEF PyBoot, PySend
<1>6. CASE PyReply(p)
  <2>1. /\ pc[p] = "registering" /\ call[p] # None /\ reply[call[p]] # None
        /\ HangUp(p, "merge") \/ HangUp(p, "joined") \/ HangUp(p, "dead")
    BY <1>6 DEF PyReply, Answered, Dies
  <2>2. pc'[p] \in {"merge", "joined", "dead"}
    BY <1>3, <2>1
  <2> DEFINE c == call[p]
  <2>3. c \in Conns /\ conn[c] = [to |-> Contact[p], from |-> p, cmd |-> "REGISTER", about |-> None]
    BY <1>0, <2>1 DEF Asks, IInv, Wired, WireTypes
  <2>4. conn[c] # None
    BY <1>0, <2>1 DEF IInv, Wired, Calls
  <2>5. Contact[p] \in PyPeers => p \in ToSet(network[Contact[p]])
    BY <2>1, <2>3, <2>4 DEF KnownInv, Registered, Registers
  <2> QED BY <2>2, <2>5 DEF Asks, Listed, Growing
<1>7. CASE PyEof(p)
  <2>1. HangUp(p, "dead") /\ call[p] # None
    BY <1>7 DEF PyEof, Eof, Dies
  <2> QED BY <1>1, <1>3, <2>1
<1>8. CASE PyMergeLock(p) \/ PyMerged(p)
  <2>1. pc[p] \in {"merge", "merging"} /\ pc'[p] \in {"merging", "joined", "dead"}
    BY <1>0, <1>8 DEF PyMergeLock, PyMerged, Dies, IInv, Wired, WireTypes
  <2> QED BY <1>1, <1>2, <2>1
<1>9. CASE PyMerge(p)
  BY <1>2, <1>9 DEF PyMerge
<1>10. CASE PyRetrieved(p)
  <2>1. /\ pc[p] = "retrieving" /\ call[p] # None
        /\ HangUp(p, "joined") \/ HangUp(p, "dead")
    BY <1>10 DEF PyRetrieved, Answered, Dies
  <2> QED BY <1>1, <1>2, <1>3, <2>1
<1>11. CASE PyPick(p)
  <2>1. pc[p] = "joined"
    BY <1>11 DEF PyPick
  <2>2. CASE \E q : Ask(p, q, "RETRIEVE", "retrieving")
    BY <1>2, <1>4, <2>1, <2>2
  <2>3. CASE pc' = [pc EXCEPT ![p] = Dies]
    <3>1. pc'[p] = "dead"
      BY <1>0, <2>3 DEF Dies, IInv, Wired, WireTypes
    <3> QED BY <1>1, <3>1
  <2> QED BY <1>11, <2>2, <2>3 DEF PyPick, PySend
<1> QED BY <1>5, <1>6, <1>7, <1>8, <1>9, <1>10, <1>11 DEF PyClient

\* Every step keeps the invariant.
LEMMA KnownStep ==
    ASSUME IInv, IInv', ~Ageing, KnownInv, Next
    PROVE  KnownInv'
<1>1. Young' /\ Growing
  BY YoungStep, GrowsStep DEF KnownInv, Growing
<1>2. ASSUME NEW c \in Conns, Mute(c) PROVE Carries(c)
  BY <1>2 DEF Mute, Carries
<1>3. ASSUME NEW p \in PyPeers, \A c \in Conns : Carries(c), Other(p)
      PROVE  Asks(p)' /\ Listed(p)'
  BY <1>1, <1>3, OtherKnown DEF KnownInv
<1>4. ASSUME \A c \in Conns : Mute(c) PROVE \A c \in Conns : Registered(c)' /\ Carries(c)
  BY <1>1, <1>2, <1>4, MuteRegistered DEF KnownInv
<1>5. ASSUME NEW t \in Peers, CClient(t) \/ PyClient(t) \/ UserStep(t)
      PROVE  KnownInv'
  <2>1. CClient(t) \/ PyClient(t) \/ CScan(t) \/ PyPick(t)
    BY <1>5 DEF UserStep
  <2>2. \A c \in Conns : Registered(c)' /\ Carries(c)
    BY <1>4, <2>1, MuteClient
  <2>3. ASSUME NEW p \in PyPeers PROVE Asks(p)' /\ Listed(p)'
    <3>1. p \in Peers /\ p \notin CPeers /\ Owner(p) = p
      BY PeersAssumption DEF Peers, Owner
    <3>2. CASE p = t
      <4>1. ~CClient(p) /\ ~CScan(p)
        BY <3>1 DEF CClient, CScan, CBoot, CPick, CReply, CEof, CTake, CThread
      <4> QED BY <1>1, <2>1, <3>2, <4>1, OwnKnown
    <3>3. CASE p # t
      BY <1>3, <2>1, <2>2, <3>1, <3>3, OtherClient
    <3> QED BY <3>2, <3>3
  <2> QED BY <1>1, <2>2, <2>3 DEF KnownInv
<1>6. ASSUME NEW e \in Conns, CHandler(e) \/ PyHandler(e)
      PROVE  KnownInv'
  <2>1. \A c \in Conns : Registered(c)' /\ Carries(c)
    <3>1. CASE CHandler(e)
      BY <1>4, <3>1, MuteCHandler
    <3>2. CASE PyHandler(e)
      BY <1>1, <3>2, PyHandlerRegistered, PyHandlerCarries DEF KnownInv
    <3> QED BY <1>6, <3>1, <3>2
  <2>2. ASSUME NEW p \in PyPeers PROVE Asks(p)' /\ Listed(p)'
    BY <1>3, <1>6, <2>1, OtherHandler DEF Peers
  <2> QED BY <1>1, <2>1, <2>2 DEF KnownInv
<1>7. ASSUME NEW q \in Peers, Listen(q) \/ Age(q)
      PROVE  KnownInv'
  <2>1. UNCHANGED <<pc, wires>>
    BY <1>7 DEF Listen, Age, wires
  <2>2. \A c \in Conns : Mute(c)
    BY <2>1 DEF Mute, Relays, wires
  <2>3. \A p \in PyPeers : Other(p)
    BY <2>1 DEF Other, wires
  <2>4. \A c \in Conns : Registered(c)' /\ Carries(c)
    BY <1>4, <2>2
  <2>5. \A p \in PyPeers : Asks(p)' /\ Listed(p)'
    BY <1>3, <2>3, <2>4
  <2> QED BY <1>1, <2>4, <2>5 DEF KnownInv
<1> QED BY <1>5, <1>6, <1>7 DEF Next, ThreadStep

\* The invariant holds in every network in which no entry ages.
LEMMA KnownInvariance == ~Ageing => (Spec => []KnownInv)
<1> SUFFICES ASSUME ~Ageing PROVE Spec => []KnownInv
  OBVIOUS
<1>1. Init => KnownInv
  <2> SUFFICES ASSUME Init PROVE KnownInv
    OBVIOUS
  <2>1. Young
    BY DEF Init, Young, Peers
  <2>2. ASSUME NEW c \in Conns PROVE Registered(c)
    BY DEF Init, Registered, Registers
  <2>3. ASSUME NEW p \in PyPeers PROVE Asks(p) /\ Listed(p)
    <3>1. pc[p] \in {"idle", "done", "boot"}
      BY DEF Init, Threads, Peers
    <3> QED BY <3>1 DEF Asks, Listed
  <2> QED BY <2>1, <2>2, <2>3 DEF KnownInv
<1>2. IInv /\ IInv' /\ KnownInv /\ [Next]_vars => KnownInv'
  <2>1. CASE UNCHANGED vars
    BY <2>1 DEF vars, KnownInv, Young, Registered, Registers, Relays, Asks, Listed
  <2> QED BY <2>1, KnownStep
<1> QED BY <1>1, <1>2, Invariance, PTL DEF Spec

\* If no entry ages, a Python client that has an answer to its registration is in
\* the list of the Python peer it registered with, for good, in every network.
THEOREM ContactKnows == ~Ageing => (Spec => []KnownToContact)
<1> SUFFICES ASSUME ~Ageing PROVE Spec => []KnownToContact
  OBVIOUS
<1>1. KnownInv => KnownToContact
  BY DEF KnownInv, Listed, KnownToContact
<1>2. Spec => []KnownInv
  BY KnownInvariance
<1> QED BY <1>1, <1>2, PTL

-----------------------------------------------------------------------------
(* Quiet networks.  In a network of Python peers in which every contact is a *)
(* first peer, the invariant says where the news of each peer is on its way  *)
(* to each other peer.                                                      *)

\* All peers run peer.py and accept connections, nothing ages, a recv
\* returns a whole reply, and only peers that contact nobody are contacted.
Stars == /\ CPeers = {} /\ ~Ageing /\ ~Partial /\ Listening = Peers
         /\ \A p \in Peers : Contact[p] # None => Contact[Contact[p]] = None

Request(c, cmd) == conn[c] # None /\ conn[c].cmd = cmd

\* A registration goes to the contact, once; the client waits until it has the list.
RegisterOK(c) == Request(c, "REGISTER") =>
    /\ conn[c].to = Contact[conn[c].from]
    /\ pc[c] \in {"start", "touched", "reply"} => reply[c] = None
    /\ reply[c] = None =>
          /\ pc[c] \in {"start", "touched", "reply"}
          /\ pc[conn[c].from] = "registering" /\ call[conn[c].from] = c
    /\ reply[c] # None => reply[c].status = "OK" /\ ToSet(reply[c].peers) \subseteq Peers
    /\ pc[c] \in {"start", "touched"} => conn[c].from \notin ToSet(network[conn[c].to])
    /\ pc[c] = "reply" => ToSet(seen[c]) \subseteq Peers

\* Only first peers send an INFORM, and none gets one.
InformOK(c) == Request(c, "INFORM") =>
    Contact[conn[c].from] = None /\ Contact[conn[c].to] # None /\ conn[c].about \in Peers

PeerOK(p) ==
    /\ up[p] = "listening" /\ ToSet(network[p]) \subseteq Peers
    /\ pc[p] = "boot" => Contact[p] # None /\ p \notin ToSet(network[Contact[p]])
    /\ pc[p] \in {"merge", "merging"} => ToSet(seen[p]) \subseteq Peers
    /\ Contact[p] = None => /\ pc[p] = "done"
                            /\ \A q \in ToSet(network[p]) : q = p \/ Contact[q] = p

\* The client of p has q in the list it is reading or merging.
Reading(p, q) ==
    \/ /\ pc[p] = "registering" /\ call[p] # None
       /\ reply[call[p]] # None /\ q \in ToSet(reply[call[p]].peers)
    \/ pc[p] = "merge" /\ q \in ToSet(seen[p])
    \/ pc[p] = "merging" /\ \E i \in DOMAIN seen[p] : at[p] <= i /\ seen[p][i] = q

\* A handler is going to tell p of q: by an INFORM that arrived at p, by the list for
\* p it is about to send, or by announcing q to all that h lists.
Telling(c, h, p, q) ==
    \/ /\ Request(c, "INFORM") /\ conn[c].to = p /\ conn[c].about = q
       /\ pc[c] \in {"start", "touched"}
    \/ /\ Request(c, "REGISTER") /\ conn[c].from = p /\ conn[c].to = h
       /\ pc[c] = "reply" /\ q \in ToSet(seen[c])
    \/ /\ Request(c, "REGISTER") /\ conn[c].from = q /\ conn[c].to = h
       /\ \/ pc[c] \in {"reply", "announce"}
          \/ /\ pc[c] = "announcing"
             /\ \E i \in DOMAIN network[h] : at[c] <= i /\ network[h][i] = p

Agree(h, p, q) == \/ q \in ToSet(network[p])
                  \/ Reading(p, q)
                  \/ \E c \in Conns : Telling(c, h, p, q)

AgreeInv == /\ \A c \in Conns : RegisterOK(c) /\ InformOK(c)
            /\ \A p \in Peers : PeerOK(p)
            /\ \A h \in Peers : Contact[h] = None =>
                  \A p, q \in ToSet(network[h]) : Agree(h, p, q)

AllInv == IInv /\ PyListsOnce /\ NewsInv /\ KnownInv /\ AgreeInv

\* What such a network is.
LEMMA StarPeers ==
    ASSUME Stars
    PROVE  /\ Peers = PyPeers /\ CPeers = {} /\ ~Ageing
           /\ \A p \in Peers : Contact[p] \in Peers \cup {None}
           /\ \A p \in Peers : Contact[p] \in Peers => Contact[Contact[p]] = None
           /\ None \notin Peers
BY ContactAssumption, NoneAssumption DEF Stars, Peers, Threads

\* The types that are used all the time.
LEMMA Typing ==
    ASSUME IInv
    PROVE  /\ network \in [Peers -> Seq(Entries)] /\ seen \in [Threads -> Seq(Entries)]
           /\ at \in [Threads -> Nat]
           /\ pc \in [Threads -> ClientPCs \cup HandlerPCs]
           /\ call \in [Threads -> Conns \cup {None}]
           /\ conn \in [Conns -> Requests \cup {None}]
           /\ reply \in [Conns -> Replies \cup {None}]
           /\ Conns \subseteq Threads /\ Peers \subseteq Threads
           /\ \A c \in Conns : conn[c] # None => conn[c].to \in Peers /\ conn[c].from \in Peers
           /\ \A c \in Conns : conn[c] = None <=> pc[c] = "idle"
           /\ \A t \in Threads : call[t] # None => call[t] \in Conns /\ conn[call[t]] # None
BY DEF IInv, ListTypes, Wired, WireTypes, FreeIsIdle, Calls, Requests, Threads

SameConn(c) == /\ conn'[c] = conn[c] /\ pc'[c] = pc[c] /\ seen'[c] = seen[c]
               /\ at'[c] = at[c] /\ reply'[c] = reply[c]

SamePeer(p) ==
    /\ pc'[p] = pc[p] /\ call'[p] = call[p] /\ seen'[p] = seen[p] /\ at'[p] = at[p]
    /\ pc[p] = "registering" /\ call[p] # None /\ reply[call[p]] # None =>
          reply'[call[p]] = reply[call[p]]

FirstSame == \A h \in Peers : Contact[h] = None => network'[h] = network[h]

\* A handler that is left alone tells what it told.
LEMMA TellingSame ==
    ASSUME NEW c, NEW h, NEW p, NEW q, SameConn(c), network'[h] = network[h],
           Telling(c, h, p, q)
    PROVE  Telling(c, h, p, q)'
BY DEF SameConn, Telling, Request

\* A client that is left alone reads what it read.
LEMMA ReadingSame ==
    ASSUME NEW p, NEW q, SamePeer(p), Reading(p, q)
    PROVE  Reading(p, q)'
BY DEF SamePeer, Reading

\* A connection that is left alone is as it was.
LEMMA RequestSame ==
    ASSUME IInv, Stars, FirstSame, NEW c \in Conns, conn[c] # None, SameConn(c),
           RegisterOK(c), InformOK(c),
           SamePeer(conn[c].from) \/ (Request(c, "REGISTER") => reply[c] # None)
    PROVE  RegisterOK(c)' /\ InformOK(c)'
<1>1. InformOK(c)'
  BY DEF InformOK, Request, SameConn
<1>2. ASSUME Request(c, "REGISTER")
      PROVE  network'[conn[c].to] = network[conn[c].to]
  <2>1. /\ conn[c].to \in Peers /\ conn[c].from \in Peers
        /\ conn[c].to = Contact[conn[c].from]
    BY <1>2, Typing DEF RegisterOK
  <2> QED BY <2>1, StarPeers DEF FirstSame
<1>3. RegisterOK(c)'
  <2> SUFFICES ASSUME Request(c, "REGISTER") PROVE RegisterOK(c)'
    BY DEF RegisterOK, Request, SameConn
  <2>1. conn'[c] = conn[c] /\ pc'[c] = pc[c] /\ seen'[c] = seen[c] /\ reply'[c] = reply[c]
    BY DEF SameConn
  <2>2. reply[c] = None => pc'[conn[c].from] = pc[conn[c].from]
                           /\ call'[conn[c].from] = call[conn[c].from]
    BY DEF SamePeer
  <2> QED BY <1>2, <2>1, <2>2 DEF RegisterOK, Request
<1> QED BY <1>1, <1>3

-----------------------------------------------------------------------------
(* Steps of a client.                                                      *)

\* What a step of the client t does to the others.
ClientStep(t) ==
    /\ \A p \in Peers \ {t} : SamePeer(p) /\ network'[p] = network[p]
    /\ \A c \in Conns : conn[c] # None =>
          SameConn(c) \/ (c = call[t] /\ pc[c] = "closed" /\ conn'[c] = None)
    /\ up' = up

\* What remains to be shown of it.
LEMMA ClientKeeps ==
    ASSUME AllInv, Stars, Growing, NEW t \in Peers, Contact[t] # None, ClientStep(t),
           PeerOK(t)',
           \A q : Reading(t, q) => Reading(t, q)' \/ q \in ToSet(network'[t]),
           \A c \in Conns : conn[c] = None /\ conn'[c] # None => RegisterOK(c)' /\ InformOK(c)',
           \A c \in Conns : Request(c, "REGISTER") /\ conn[c].from = t => reply[c] # None
    PROVE  AgreeInv'
<1>0. IInv /\ AgreeInv
  BY DEF AllInv
<1>1. FirstSame
  BY DEF FirstSame, ClientStep
<1>2. ASSUME NEW c \in Conns PROVE RegisterOK(c)' /\ InformOK(c)'
  <2>1. CASE conn'[c] = None
    BY <2>1 DEF RegisterOK, InformOK, Request
  <2>2. CASE conn[c] # None /\ conn'[c] # None
    <3>1. SameConn(c) /\ RegisterOK(c) /\ InformOK(c)
      BY <1>0, <2>2 DEF ClientStep, AgreeInv
    <3>2. conn[c].from # t => SamePeer(conn[c].from)
      BY <1>0, <2>2, Typing DEF ClientStep
    <3> QED BY <1>0, <1>1, <2>2, <3>1, <3>2, RequestSame
  <2> QED BY <2>1, <2>2
<1>3. ASSUME NEW p \in Peers PROVE PeerOK(p)'
  <2>1. CASE p = t
    BY <2>1
  <2>2. CASE p # t
    <3>1. PeerOK(p) /\ network'[p] = network[p] /\ pc'[p] = pc[p] /\ seen'[p] = seen[p] /\ up' = up
      BY <1>0, <2>2 DEF ClientStep, SamePeer, AgreeInv
    <3>2. pc[p] = "boot" => network'[Contact[p]] = network[Contact[p]]
      <4>1. pc[p] = "boot" => Contact[p] # None
        BY <3>1 DEF PeerOK
      <4> QED BY <1>1, <4>1, StarPeers DEF FirstSame
    <3> QED BY <3>1, <3>2 DEF PeerOK
  <2> QED BY <2>1, <2>2
<1>4. ASSUME NEW h \in Peers, Contact[h] = None,
             NEW p \in ToSet(network'[h]), NEW q \in ToSet(network'[h])
      PROVE  Agree(h, p, q)'
  <2>1. network'[h] = network[h]
    BY <1>1, <1>4 DEF FirstSame
  <2>2. Agree(h, p, q) /\ p \in Peers
    BY <1>0, <1>4, <2>1 DEF AgreeInv, PeerOK
  <2>3. CASE q \in ToSet(network[p])
    BY <2>2, <2>3, StarPeers DEF Growing, Agree
  <2>4. CASE Reading(p, q)
    BY <2>2, <2>4, ReadingSame DEF ClientStep, Agree
  <2>5. ASSUME NEW c \in Conns, Telling(c, h, p, q) PROVE Agree(h, p, q)'
    <3>1. conn[c] # None /\ pc[c] # "closed"
      BY <2>5 DEF Telling, Request
    <3>2. SameConn(c)
      BY <3>1 DEF ClientStep
    <3> QED BY <2>1, <2>5, <3>2, TellingSame DEF Agree
  <2> QED BY <2>2, <2>3, <2>4, <2>5 DEF Agree
<1> QED BY <1>2, <1>3, <1>4 DEF AgreeInv

\* A client that waits for its list does nothing.
LEMMA ClientWaits ==
    ASSUME AllInv, NEW t \in Peers, PyClient(t) \/ PyPick(t), NEW c \in Conns,
           Request(c, "REGISTER"), conn[c].from = t
    PROVE  reply[c] # None
<1> SUFFICES ASSUME reply[c] = None PROVE FALSE
  OBVIOUS
<1>1. pc[c] # "closed" /\ pc[t] = "registering" /\ call[t] = c
  BY DEF AllInv, AgreeInv, RegisterOK
<1> QED BY <1>1 DEF PyClient, PyBoot, PyReply, PyEof, PyMergeLock, PyMerge, PyMerged,
                    PyRetrieved, PyPick, Answered, Eof

\* A call, as the others see it.
LEMMA AskStep ==
    ASSUME IInv, NEW t \in Peers, NEW q, NEW cmd, NEW waiting, Ask(t, q, cmd, waiting),
           UNCHANGED <<state, seen, at>>
    PROVE  ClientStep(t) /\ pc'[t] = waiting
<1> DEFINE f == FirstFree
<1>1. f \in Conns /\ conn[f] = None /\ f # t /\ t \in Threads /\ f \in Threads
  BY FreeConn, PeersAssumption DEF Ask, Threads
<1>2. \E r : conn' = [conn EXCEPT ![f] = r]
  BY DEF Ask, Dial
<1>3. /\ call' = [call EXCEPT ![t] = f] /\ reply' = reply
      /\ pc' = [pc EXCEPT ![t] = waiting, ![f] = "start"]
      /\ seen' = seen /\ at' = at /\ up' = up /\ network' = network
  BY DEF Ask, state
<1> HIDE DEF f
<1>4. \A p \in Peers \ {t} : SamePeer(p)
  BY <1>1, <1>3, PeersAssumption, Typing DEF SamePeer
<1>5. \A c \in Conns : conn[c] # None => SameConn(c)
  BY <1>1, <1>2, <1>3, PeersAssumption, Typing DEF SameConn
<1>6. pc'[t] = waiting
  BY <1>1, <1>3, Typing
<1> QED BY <1>3, <1>4, <1>5, <1>6 DEF ClientStep

\* And its connection.
LEMMA AskConn ==
    ASSUME IInv, NEW t \in Peers, NEW q, NEW cmd, NEW waiting, Ask(t, q, cmd, waiting)
    PROVE  \E f \in Conns :
              /\ call'[t] = f /\ conn[f] = None /\ pc'[f] = "start" /\ reply'[f] = reply[f]
              /\ conn'[f] = [to |-> q, from |-> t, cmd |-> cmd, about |-> None]
              /\ \A c \in Conns \ {f} : conn'[c] = conn[c]
<1> DEFINE f == FirstFree
<1>1. f \in Conns /\ conn[f] = None /\ f # t /\ t \in Threads /\ f \in Threads /\ Owner(t) = t
  BY FreeConn, PeersAssumption DEF Ask, Threads, Owner
<1> DEFINE r == [to |-> q, from |-> t, cmd |-> cmd, about |-> None]
<1>2. /\ conn' = [conn EXCEPT ![f] = r] /\ reply' = reply
      /\ call' = [call EXCEPT ![t] = f]
      /\ pc' = [pc EXCEPT ![t] = waiting, ![f] = "start"]
  BY <1>1 DEF Ask, Dial
<1> HIDE DEF f, r
<1>3. call'[t] = f /\ pc'[f] = "start" /\ conn'[f] = r
      /\ \A c \in Conns \ {f} : conn'[c] = conn[c]
  BY <1>1, <1>2, Typing
<1> QED BY <1>1, <1>2, <1>3 DEF r

\* The end of one.
LEMMA HangUpStep ==
    ASSUME IInv, NEW t \in Peers, call[t] # None, NEW next, HangUp(t, next),
           UNCHANGED <<state, at>>, \A u \in Threads \ {t} : seen'[u] = seen[u]
    PROVE  /\ ClientStep(t) /\ pc'[t] = next /\ at' = at
           /\ \A c \in Conns : conn[c] = None => conn'[c] = None
           /\ network' = network /\ up' = up
<1> DEFINE d == call[t]
<1>1. d \in Conns /\ d # t /\ t \in Threads /\ d \in Threads /\ d # None
  BY PeersAssumption, NoneAssumption, Typing DEF Threads
<1>2. \A u \in Threads \ {t} : call[u] # d
  BY <1>1 DEF IInv, Wired, Calls
<1>3. /\ call' = [call EXCEPT ![t] = None]
      /\ seen' [d] = seen[d] /\ at' = at /\ up' = up /\ network' = network
  BY <1>1 DEF HangUp, state
<1>4. CASE pc[d] = "closed"
  <2>1. /\ pc' = [pc EXCEPT ![t] = next, ![d] = "idle"]
        /\ conn' = [conn EXCEPT ![d] = None]
        /\ reply' = [reply EXCEPT ![d] = None]
    BY <1>4 DEF HangUp
  <2> HIDE DEF d
  <2>2. \A p \in Peers \ {t} : SamePeer(p)
    BY <1>1, <1>2, <1>3, <2>1, PeersAssumption, Typing DEF SamePeer
  <2>3. \A c \in Conns \ {d} : SameConn(c)
    BY <1>1, <1>3, <2>1, PeersAssumption, Typing DEF SameConn
  <2>4. conn'[d] = None /\ pc'[t] = next
    BY <1>1, <2>1, Typing
  <2>5. \A c \in Conns : conn[c] = None => conn'[c] = None
    BY <2>1, Typing
  <2> QED BY <1>3, <1>4, <2>2, <2>3, <2>4, <2>5 DEF ClientStep, d
<1>5. CASE pc[d] # "closed"
  <2>1. pc' = [pc EXCEPT ![t] = next] /\ conn' = conn /\ reply' = reply
    BY <1>5 DEF HangUp
  <2> HIDE DEF d
  <2>2. \A p \in Peers \ {t} : SamePeer(p)
    BY <1>1, <1>3, <2>1, PeersAssumption, Typing DEF SamePeer
  <2>3. \A c \in Conns : SameConn(c)
    BY <1>1, <1>3, <2>1, PeersAssumption, Typing DEF SameConn
  <2> QED BY <1>1, <1>3, <2>1, <2>2, <2>3, Typing DEF ClientStep
<1> QED BY <1>4, <1>5

\* A client moves on, or stays.
LEMMA MoveStep ==
    ASSUME IInv, NEW t \in Peers, NEW next, pc' = [pc EXCEPT ![t] = next],
           UNCHANGED <<up, wires>>,
           \A p \in Peers \ {t} : network'[p] = network[p],
           \A u \in Threads \ {t} : seen'[u] = seen[u] /\ at'[u] = at[u]
    PROVE  ClientStep(t) /\ pc'[t] = next /\ conn' = conn
<1>1. \A p \in Peers \ {t} : SamePeer(p)
  BY Typing DEF SamePeer, wires
<1>2. \A c \in Conns : SameConn(c)
  BY PeersAssumption, Typing DEF SameConn, wires
<1> QED BY <1>1, <1>2, Typing DEF ClientStep, wires

\* A client that neither registers nor merges, before or after its step, disturbs
\* nothing.
LEMMA PlainClient ==
    ASSUME AllInv, Stars, Growing, NEW t \in Peers, PyClient(t) \/ PyPick(t), ClientStep(t),
           network' = network, pc[t] \in {"joined", "retrieving", "merging"},
           pc[t] = "merging" => \A q : ~Reading(t, q),
           pc'[t] \in {"joined", "retrieving", "dead"},
           \A c \in Conns : conn[c] = None /\ conn'[c] # None => conn'[c].cmd = "RETRIEVE"
    PROVE  AgreeInv'
<1>1. IInv /\ PeerOK(t)
  BY DEF AllInv, AgreeInv
<1>2. Contact[t] # None
  BY <1>1 DEF PeerOK
<1>3. PeerOK(t)'
  BY <1>1, <1>2 DEF PeerOK, ClientStep
<1>4. \A q : ~Reading(t, q)
  BY DEF Reading
<1>5. \A c \in Conns : conn[c] = None /\ conn'[c] # None => RegisterOK(c)' /\ InformOK(c)'
  BY DEF RegisterOK, InformOK, Request
<1>6. \A c \in Conns : Request(c, "REGISTER") /\ conn[c].from = t => reply[c] # None
  BY ClientWaits
<1> QED BY <1>2, <1>3, <1>4, <1>5, <1>6, ClientKeeps

\* The client registers: its peer accepts connections, and does not list it yet.
LEMMA BootAgrees ==
    ASSUME AllInv, Stars, Growing, NEW t \in Peers, PyBoot(t)
    PROVE  AgreeInv'
<1>1. IInv /\ PeerOK(t) /\ pc[t] = "boot"
  BY DEF AllInv, AgreeInv, PyBoot
<1> DEFINE h == Contact[t]
<1>2. h \in Peers /\ t \notin ToSet(network[h]) /\ h # None
  BY <1>1, StarPeers DEF PeerOK
<1>3. Reachable(h)
  BY <1>2 DEF AllInv, AgreeInv, PeerOK, Reachable
<1>4. Ask(t, h, "REGISTER", "registering") /\ UNCHANGED <<state, seen, at>>
  BY <1>3 DEF PyBoot, PySend
<1>5. ClientStep(t) /\ pc'[t] = "registering" /\ network' = network /\ up' = up
  <2>1. network' = network /\ up' = up
    BY <1>4 DEF state
  <2> QED BY <1>1, <1>4, <2>1, AskStep
<1>6. PICK f \in Conns :
         /\ call'[t] = f /\ conn[f] = None /\ pc'[f] = "start" /\ reply'[f] = reply[f]
         /\ conn'[f] = [to |-> h, from |-> t, cmd |-> "REGISTER", about |-> None]
         /\ \A c \in Conns \ {f} : conn'[c] = conn[c]
  BY <1>1, <1>4, AskConn
<1>7. RegisterOK(f)' /\ InformOK(f)'
  <2>1. reply'[f] = None
    BY <1>6 DEF AllInv, KnownInv, Registered
  <2>2. conn'[f].to = h /\ conn'[f].from = t /\ conn'[f].cmd = "REGISTER"
    BY <1>6
  <2> QED BY <1>2, <1>5, <1>6, <2>1, <2>2 DEF RegisterOK, InformOK, Request
<1>8. \A c \in Conns : conn[c] = None /\ conn'[c] # None => RegisterOK(c)' /\ InformOK(c)'
  BY <1>6, <1>7
<1>9. PeerOK(t)'
  BY <1>1, <1>2, <1>5 DEF PeerOK
<1>10. \A q : ~Reading(t, q)
  BY <1>1 DEF Reading
<1>11. \A c \in Conns : Request(c, "REGISTER") /\ conn[c].from = t => reply[c] # None
  BY ClientWaits DEF PyClient
<1> QED BY <1>2, <1>5, <1>8, <1>9, <1>10, <1>11, ClientKeeps

\* The client has the list.
LEMMA ReplyAgrees ==
    ASSUME AllInv, Stars, Growing, NEW t \in Peers, PyReply(t)
    PROVE  AgreeInv'
<1> DEFINE d == call[t]
<1>1. IInv /\ PeerOK(t) /\ pc[t] = "registering" /\ d # None /\ reply[d] # None /\ Asks(t)
  BY StarPeers DEF AllInv, AgreeInv, PyReply, Answered, KnownInv
<1>2. d \in Conns /\ conn[d] # None
  BY <1>1, Typing
<1>3. Request(d, "REGISTER")
  BY <1>1, <1>2 DEF Asks, Request
<1>4. reply[d].status = "OK" /\ ToSet(reply[d].peers) \subseteq Peers
  BY <1>1, <1>2, <1>3 DEF AllInv, AgreeInv, RegisterOK
<1>5. HangUp(t, "merge") /\ seen' = [seen EXCEPT ![t] = reply[d].peers]
      /\ UNCHANGED <<state, at>>
  BY <1>4 DEF PyReply, Stars
<1>6. t \in Threads /\ seen'[t] = reply[d].peers /\ \A u \in Threads \ {t} : seen'[u] = seen[u]
  BY <1>1, <1>5, Typing
<1>7. /\ ClientStep(t) /\ pc'[t] = "merge" /\ network' = network /\ up' = up
      /\ \A c \in Conns : conn[c] = None => conn'[c] = None
  BY <1>1, <1>5, <1>6, HangUpStep
<1>8. Contact[t] # None
  BY <1>1 DEF PeerOK
<1>9. PeerOK(t)'
  BY <1>1, <1>4, <1>6, <1>7, <1>8 DEF PeerOK
<1>10. ASSUME NEW q, Reading(t, q) PROVE Reading(t, q)'
  BY <1>1, <1>6, <1>7, <1>10 DEF Reading
<1>11. \A c \in Conns : Request(c, "REGISTER") /\ conn[c].from = t => reply[c] # None
  BY ClientWaits DEF PyClient
<1> QED BY <1>7, <1>8, <1>9, <1>10, <1>11, ClientKeeps

\* It merges it.
LEMMA MergeLockAgrees ==
    ASSUME AllInv, Stars, Growing, NEW t \in Peers, PyMergeLock(t)
    PROVE  AgreeInv'
<1>1. IInv /\ PeerOK(t) /\ pc[t] = "merge" /\ t \in Threads
  BY Typing DEF AllInv, AgreeInv, PyMergeLock
<1>2. /\ pc' = [pc EXCEPT ![t] = "merging"] /\ at' = [at EXCEPT ![t] = 1]
      /\ UNCHANGED <<up, network, wires, seen>>
  BY DEF PyMergeLock
<1>3. at'[t] = 1 /\ \A u \in Threads \ {t} : seen'[u] = seen[u] /\ at'[u] = at[u]
  BY <1>1, <1>2, Typing
<1>4. ClientStep(t) /\ pc'[t] = "merging" /\ conn' = conn
  BY <1>1, <1>2, <1>3, MoveStep
<1>5. Contact[t] # None
  BY <1>1 DEF PeerOK
<1>6. PeerOK(t)'
  BY <1>1, <1>2, <1>4, <1>5 DEF PeerOK
<1>7. ASSUME NEW q, Reading(t, q) PROVE Reading(t, q)'
  <2>1. q \in ToSet(seen[t]) /\ seen[t] \in Seq(Entries)
    BY <1>1, <1>7, Typing DEF Reading
  <2>2. PICK i \in DOMAIN seen[t] : seen[t][i] = q
    BY <2>1 DEF ToSet
  <2>3. 1 <= i
    BY <2>1
  <2> QED BY <1>2, <1>3, <1>4, <2>2, <2>3 DEF Reading
<1>8. \A c \in Conns : Request(c, "REGISTER") /\ conn[c].from = t => reply[c] # None
  BY ClientWaits DEF PyClient
<1> QED BY <1>4, <1>5, <1>6, <1>7, <1>8, ClientKeeps

\* One entry of the received list: the client knows it now.
LEMMA MergeAgrees ==
    ASSUME AllInv, Stars, Growing, NEW t \in Peers, PyMerge(t)
    PROVE  AgreeInv'
<1> DEFINE e == seen[t][at[t]]
<1>1. IInv /\ PeerOK(t) /\ pc[t] = "merging" /\ t \in Threads /\ at[t] \in 1..Len(seen[t])
  BY Typing DEF AllInv, AgreeInv, PyMerge
<1>2. /\ network' = [network EXCEPT ![t] = IF e \in ToSet(@) THEN @ ELSE Append(@, e)]
      /\ at' = [at EXCEPT ![t] = @ + 1]
      /\ UNCHANGED <<up, pc, wires, seen>>
  BY DEF PyMerge
<1>3. /\ at'[t] = at[t] + 1 /\ \A u \in Threads \ {t} : seen'[u] = seen[u] /\ at'[u] = at[u]
      /\ pc' = [pc EXCEPT ![t] = "merging"]
      /\ \A p \in Peers \ {t} : network'[p] = network[p]
  BY <1>1, <1>2, Typing
<1>4. ClientStep(t) /\ pc'[t] = "merging" /\ conn' = conn
  BY <1>1, <1>2, <1>3, MoveStep
<1>5. Contact[t] # None
  BY <1>1 DEF PeerOK
<1>6. seen[t] \in Seq(Entries) /\ network[t] \in Seq(Entries) /\ at[t] \in DOMAIN seen[t]
  BY <1>1, Typing
<1>7. e \in Entries /\ e \in ToSet(seen[t])
  BY <1>6 DEF ToSet
<1>8. network'[t] = IF e \in ToSet(network[t]) THEN network[t] ELSE Append(network[t], e)
  BY <1>1, <1>2, Typing
<1> HIDE DEF e
<1>9. e \in ToSet(network'[t])
  BY <1>6, <1>7, <1>8, AddGrows
<1>10. ToSet(network'[t]) \subseteq Peers
  <2>1. ToSet(network[t]) \subseteq Peers /\ e \in Peers
    BY <1>1, <1>7 DEF PeerOK
  <2>2. CASE e \in ToSet(network[t])
    BY <1>8, <2>1, <2>2
  <2>3. CASE e \notin ToSet(network[t])
    <3>1. network[t] \in Seq(Peers)
      BY <1>6, <2>1 DEF ToSet
    <3>2. network'[t] \in Seq(Peers)
      BY <1>8, <2>1, <2>3, <3>1
    <3> QED BY <3>2 DEF ToSet
  <2> QED BY <2>2, <2>3
<1>11. PeerOK(t)'
  BY <1>1, <1>2, <1>4, <1>5, <1>10 DEF PeerOK
<1>12. ASSUME NEW q, Reading(t, q) PROVE Reading(t, q)' \/ q \in ToSet(network'[t])
  <2>1. PICK i \in DOMAIN seen[t] : at[t] <= i /\ seen[t][i] = q
    BY <1>1, <1>12 DEF Reading
  <2>2. CASE i = at[t]
    BY <1>9, <2>1, <2>2 DEF e
  <2>3. CASE i # at[t]
    <3>1. at[t] + 1 <= i
      BY <1>6, <2>1, <2>3
    <3> QED BY <1>2, <1>3, <1>4, <2>1, <3>1 DEF Reading
  <2> QED BY <2>2, <2>3
<1>13. \A c \in Conns : Request(c, "REGISTER") /\ conn[c].from = t => reply[c] # None
  BY ClientWaits DEF PyClient
<1> QED BY <1>4, <1>5, <1>11, <1>12, <1>13, ClientKeeps

\* The end of the merge: there is nothing left to read.
LEMMA MergedAgrees ==
    ASSUME AllInv, Stars, Growing, NEW t \in Peers, PyMerged(t)
    PROVE  AgreeInv'
<1>1. IInv /\ PeerOK(t) /\ pc[t] = "merging" /\ t \in Threads
  BY Typing DEF AllInv, AgreeInv, PyMerged
<1>2. seen[t] \in Seq(Entries) /\ at[t] \in Nat
  BY <1>1, Typing
<1>3. ~(at[t] \in 1..Len(seen[t]) /\ seen[t][at[t]] = Garbage)
  <2> SUFFICES ASSUME at[t] \in 1..Len(seen[t]), seen[t][at[t]] = Garbage PROVE FALSE
    OBVIOUS
  <2>1. Garbage \in ToSet(seen[t])
    BY <1>2 DEF ToSet
  <2> QED BY <1>1, <2>1, GarbageAssumption DEF PeerOK, Threads
<1>4. /\ at[t] > Len(seen[t]) /\ pc' = [pc EXCEPT ![t] = "joined"]
      /\ UNCHANGED <<up, network, wires>>
      /\ seen' = [seen EXCEPT ![t] = <<>>] /\ at' = [at EXCEPT ![t] = 0]
  BY <1>3 DEF PyMerged
<1>5. \A u \in Threads \ {t} : seen'[u] = seen[u] /\ at'[u] = at[u]
  BY <1>1, <1>4, Typing
<1>6. ClientStep(t) /\ pc'[t] = "joined" /\ conn' = conn /\ network' = network
  BY <1>1, <1>4, <1>5, MoveStep
<1>7. ASSUME NEW q PROVE ~Reading(t, q)
  BY <1>1, <1>2, <1>4 DEF Reading
<1> QED BY <1>1, <1>6, <1>7, PlainClient DEF PyClient

\* The other steps of a client.
LEMMA ClientAgrees ==
    ASSUME AllInv, Stars, Growing, NEW t \in Peers, PyClient(t) \/ PyPick(t)
    PROVE  AgreeInv'
<1>0. IInv /\ PeerOK(t) /\ t \in Threads
  BY Typing DEF AllInv, AgreeInv
<1>1. CASE PyEof(t)
  <2>1. call[t] # None /\ pc[call[t]] = "closed" /\ reply[call[t]] = None /\ HangUp(t, "dead")
        /\ UNCHANGED <<state, at, seen>>
    BY <1>1 DEF PyEof, Eof, Dies
  <2>2. pc[t] # "registering"
    <3> SUFFICES ASSUME pc[t] = "registering" PROVE FALSE
      OBVIOUS
    <3>1. Asks(t) /\ call[t] \in Conns /\ conn[call[t]] # None
      BY <1>0, <2>1, StarPeers, Typing DEF AllInv, KnownInv
    <3>2. Request(call[t], "REGISTER") /\ RegisterOK(call[t])
      BY <3>1 DEF Asks, Request, AllInv, AgreeInv
    <3> QED BY <2>1, <3>2 DEF RegisterOK
  <2>3. pc[t] = "retrieving"
    BY <1>1, <2>2 DEF PyEof
  <2>4. /\ ClientStep(t) /\ pc'[t] = "dead" /\ network' = network
        /\ \A c \in Conns : conn[c] = None => conn'[c] = None
    BY <1>0, <2>1, HangUpStep
  <2> QED BY <2>3, <2>4, PlainClient
<1>2. CASE PyRetrieved(t)
  <2>1. call[t] # None /\ HangUp(t, "joined") /\ UNCHANGED <<state, at, seen>>
        /\ pc[t] = "retrieving"
    BY <1>2 DEF PyRetrieved, Answered, Stars
  <2>2. /\ ClientStep(t) /\ pc'[t] = "joined" /\ network' = network
        /\ \A c \in Conns : conn[c] = None => conn'[c] = None
    BY <1>0, <2>1, HangUpStep
  <2> QED BY <2>1, <2>2, PlainClient
<1>3. CASE PyPick(t)
  <2>1. pc[t] = "joined" /\ UNCHANGED <<state, seen, at>> /\ network' = network
    BY <1>3 DEF PyPick, state
  <2>2. ASSUME NEW q, Ask(t, q, "RETRIEVE", "retrieving") PROVE AgreeInv'
    <3>0. UNCHANGED <<state, seen, at>>
      BY <2>1
    <3>1. ClientStep(t) /\ pc'[t] = "retrieving"
      BY <1>0, <2>2, <3>0, AskStep
    <3>2. PICK f \in Conns :
            /\ conn'[f] = [to |-> q, from |-> t, cmd |-> "RETRIEVE", about |-> None]
            /\ \A c \in Conns \ {f} : conn'[c] = conn[c]
      BY <1>0, <2>2, AskConn
    <3>3. \A c \in Conns : conn[c] = None /\ conn'[c] # None => conn'[c].cmd = "RETRIEVE"
      BY <3>2
    <3> QED BY <1>3, <2>1, <3>1, <3>3, PlainClient
  <2>3. CASE pc' = [pc EXCEPT ![t] = "dead"] /\ UNCHANGED wires
    <3>1. ClientStep(t) /\ pc'[t] = "dead" /\ conn' = conn
      BY <1>0, <2>1, <2>3, MoveStep DEF state
    <3> QED BY <1>3, <2>1, <3>1, PlainClient
  <2> QED BY <1>3, <2>2, <2>3 DEF PyPick, PySend, Dies
<1> QED BY <1>1, <1>2, <1>3, BootAgrees, ReplyAgrees, MergeLockAgrees, MergeAgrees,
           MergedAgrees DEF PyClient

-----------------------------------------------------------------------------
(* Steps of a handler.                                                     *)

\* What a step of the handler of e does to the others.
HandlerStep(e) ==
    /\ \A p \in Peers : SamePeer(p)
    /\ \A c \in Conns \ {e} : conn[c] # None => SameConn(c)
    /\ up' = up

\* What remains to be shown of it, unless it changes the list of a first peer.
LEMMA HandlerKeeps ==
    ASSUME AllInv, Stars, Growing, NEW e \in Conns, HandlerStep(e), FirstSame,
           \A p \in Peers : ToSet(network'[p]) \subseteq Peers,
           \A c \in Conns : conn'[c] # None /\ (conn[c] = None \/ c = e) =>
               RegisterOK(c)' /\ InformOK(c)',
           \A h, p, q \in Peers :
               /\ Contact[h] = None /\ p \in ToSet(network[h]) /\ q \in ToSet(network[h])
               /\ Telling(e, h, p, q)
               => Agree(h, p, q)'
    PROVE  AgreeInv'
<1>0. IInv /\ AgreeInv
  BY DEF AllInv
<1>1. ASSUME NEW c \in Conns PROVE RegisterOK(c)' /\ InformOK(c)'
  <2>1. CASE conn'[c] = None
    BY <2>1 DEF RegisterOK, InformOK, Request
  <2>2. CASE conn'[c] # None /\ conn[c] # None /\ c # e
    <3>1. SameConn(c) /\ RegisterOK(c) /\ InformOK(c)
      BY <1>0, <2>2 DEF HandlerStep, AgreeInv
    <3>2. SamePeer(conn[c].from)
      BY <1>0, <2>2, Typing DEF HandlerStep
    <3> QED BY <1>0, <2>2, <3>1, <3>2, RequestSame
  <2> QED BY <2>1, <2>2
<1>2. ASSUME NEW p \in Peers PROVE PeerOK(p)'
  <2>1. PeerOK(p) /\ pc'[p] = pc[p] /\ seen'[p] = seen[p] /\ up' = up
    BY <1>0 DEF HandlerStep, SamePeer, AgreeInv
  <2>2. pc[p] = "boot" => network'[Contact[p]] = network[Contact[p]]
    <3>1. pc[p] = "boot" => Contact[p] # None
      BY <2>1 DEF PeerOK
    <3> QED BY <3>1, StarPeers DEF FirstSame
  <2> QED BY <2>1, <2>2 DEF PeerOK, FirstSame
<1>3. ASSUME NEW h \in Peers, Contact[h] = None,
             NEW p \in ToSet(network'[h]), NEW q \in ToSet(network'[h])
      PROVE  Agree(h, p, q)'
  <2>1. network'[h] = network[h]
    BY <1>3 DEF FirstSame
  <2>2. Agree(h, p, q) /\ p \in Peers /\ q \in Peers
    BY <1>0, <1>3, <2>1 DEF AgreeInv, PeerOK
  <2>3. CASE q \in ToSet(network[p])
    BY <2>2, <2>3, StarPeers DEF Growing, Agree
  <2>4. CASE Reading(p, q)
    BY <2>2, <2>4, ReadingSame DEF HandlerStep, Agree
  <2>5. ASSUME NEW c \in Conns, Telling(c, h, p, q) PROVE Agree(h, p, q)'
    <3>1. CASE c = e
      BY <1>3, <2>1, <2>2, <2>5, <3>1
    <3>2. CASE c # e
      <4>1. conn[c] # None
        BY <2>5 DEF Telling, Request
      <4>2. SameConn(c)
        BY <3>2, <4>1 DEF HandlerStep
      <4> QED BY <2>1, <2>5, <4>2, TellingSame DEF Agree
    <3> QED BY <3>1, <3>2
  <2> QED BY <2>2, <2>3, <2>4, <2>5 DEF Agree
<1> QED BY <1>1, <1>2, <1>3 DEF AgreeInv

\* A handler moves on.
LEMMA StepOn ==
    ASSUME IInv, NEW e \in Conns, NEW next, pc' = [pc EXCEPT ![e] = next],
           call' = call, conn' = conn, reply' = reply, up' = up,
           \A u \in Threads \ {e} : seen'[u] = seen[u] /\ at'[u] = at[u]
    PROVE  HandlerStep(e) /\ pc'[e] = next
<1>1. \A p \in Peers : SamePeer(p)
  BY PeersAssumption, Typing DEF SamePeer
<1>2. \A c \in Conns \ {e} : SameConn(c)
  BY PeersAssumption, Typing DEF SameConn
<1> QED BY <1>1, <1>2, Typing DEF HandlerStep

\* A handler returns: the client that waits for a list has it already.
LEMMA FinishStep ==
    ASSUME IInv, NEW e \in Conns, conn[e] # None, NEW r, Finish(e, r), up' = up,
           \A p \in Peers : pc[p] = "registering" /\ call[p] = e => r = None,
           \A u \in Threads \ {e} : seen'[u] = seen[u] /\ at'[u] = at[u]
    PROVE  /\ HandlerStep(e) /\ pc'[e] \in {"idle", "closed"}
           /\ \A c \in Conns : conn[c] = None => conn'[c] = None
           /\ conn'[e] # None => /\ conn'[e] = conn[e] /\ pc'[e] = "closed"
                                 /\ r = None => reply'[e] = reply[e]
<1>1. CASE \E t \in Threads : call[t] = e
  <2>1. /\ pc' = [pc EXCEPT ![e] = "closed"] /\ call' = call /\ conn' = conn
        /\ reply' = [reply EXCEPT ![e] = IF r = None THEN @ ELSE r]
    BY <1>1 DEF Finish
  <2>2. \A p \in Peers : SamePeer(p)
    BY <2>1, PeersAssumption, Typing DEF SamePeer
  <2>3. \A c \in Conns \ {e} : SameConn(c)
    BY <2>1, PeersAssumption, Typing DEF SameConn
  <2> QED BY <2>1, <2>2, <2>3, Typing DEF HandlerStep
<1>2. CASE ~\E t \in Threads : call[t] = e
  <2>1. /\ pc' = [pc EXCEPT ![e] = "idle"] /\ call' = call
        /\ conn' = [conn EXCEPT ![e] = None] /\ reply' = [reply EXCEPT ![e] = None]
    BY <1>2 DEF Finish
  <2>2. \A p \in Peers : SamePeer(p)
    BY <1>2, <2>1, PeersAssumption, Typing DEF SamePeer
  <2>3. \A c \in Conns \ {e} : SameConn(c)
    BY <2>1, PeersAssumption, Typing DEF SameConn
  <2> QED BY <2>1, <2>2, <2>3, Typing DEF HandlerStep
<1> QED BY <1>1, <1>2

\* The lists stay lists of peers when none changes.
LEMMA ListsSame ==
    ASSUME AllInv, network' = network
    PROVE  FirstSame /\ \A p \in Peers : ToSet(network'[p]) \subseteq Peers
BY DEF AllInv, AgreeInv, PeerOK, FirstSame

\* The timestamps: without ageing, nothing changes.
LEMMA TouchAgrees ==
    ASSUME AllInv, Stars, Growing, NEW e \in Conns, PyTouch(e)
    PROVE  AgreeInv'
<1>1. IInv /\ conn[e] # None /\ pc[e] = "start" /\ e \in Threads
  BY Typing DEF AllInv, PyTouch, PyHandles
<1>2. network' = network
  <2> DEFINE p == conn[e].to
  <2>1. p \in PyPeers /\ p \in Peers
    BY <1>1, Typing DEF PyTouch, PyHandles
  <2>2. Recent(p) = network[p]
    BY <1>1, <2>1, RecentSame DEF AllInv, KnownInv, Young
  <2>3. network' = network \/ network' = [network EXCEPT ![p] = Recent(p)]
    BY DEF PyTouch
  <2> HIDE DEF p
  <2>4. network \in [Peers -> Seq(Entries)]
    BY <1>1, Typing
  <2> QED BY <2>1, <2>2, <2>3, <2>4
<1>3. pc' = [pc EXCEPT ![e] = "touched"] /\ call' = call /\ conn' = conn /\ reply' = reply
      /\ up' = up /\ seen' = seen /\ at' = at
  BY DEF PyTouch, wires
<1>4. HandlerStep(e) /\ pc'[e] = "touched"
  BY <1>1, <1>3, StepOn
<1>5. RegisterOK(e) /\ InformOK(e) /\ conn[e].from \in Peers
  BY <1>1, Typing DEF AllInv, AgreeInv
<1>6. pc'[conn[e].from] = pc[conn[e].from] /\ call'[conn[e].from] = call[conn[e].from]
  BY <1>4, <1>5 DEF HandlerStep, SamePeer
<1>7. RegisterOK(e)' /\ InformOK(e)'
  BY <1>1, <1>2, <1>3, <1>4, <1>5, <1>6 DEF RegisterOK, InformOK, Request
<1>8. ASSUME NEW h, NEW p, NEW q, Telling(e, h, p, q) PROVE Agree(h, p, q)'
  <2>1. Request(e, "INFORM") /\ conn[e].to = p /\ conn[e].about = q
    BY <1>1, <1>8 DEF Telling
  <2>2. Telling(e, h, p, q)'
    BY <1>3, <1>4, <2>1 DEF Telling, Request
  <2> QED BY <2>2 DEF Agree
<1>9. FirstSame /\ \A p \in Peers : ToSet(network'[p]) \subseteq Peers
  BY <1>2, ListsSame
<1>10. \A c \in Conns : conn'[c] # None /\ (conn[c] = None \/ c = e) =>
          RegisterOK(c)' /\ InformOK(c)'
  BY <1>3, <1>7
<1> QED BY <1>4, <1>8, <1>9, <1>10, HandlerKeeps

\* The list is sent: the client that waits for it can read it.
LEMMA SendListAgrees ==
    ASSUME AllInv, Stars, Growing, NEW e \in Conns, PySendList(e)
    PROVE  AgreeInv'
<1> DEFINE r == [status |-> "OK", peers |-> seen[e]]
<1>1. /\ IInv /\ conn[e] # None /\ pc[e] = "reply" /\ e \in Threads
      /\ Request(e, "REGISTER") /\ RegisterOK(e) /\ conn[e].from \in Peers
  BY Typing DEF AllInv, AgreeInv, PySendList, PyHandles, Request
<1>2. /\ pc' = [pc EXCEPT ![e] = "announce"] /\ reply' = [reply EXCEPT ![e] = r]
      /\ call' = call /\ conn' = conn /\ seen' = seen /\ at' = at /\ up' = up
      /\ network' = network
  BY DEF PySendList, state
<1>3. reply[e] = None /\ pc[conn[e].from] = "registering" /\ call[conn[e].from] = e
      /\ ToSet(seen[e]) \subseteq Peers
  BY <1>1 DEF RegisterOK
<1>4. r # None
  <2>1. seen[e] \in Seq(Entries)
    BY <1>1, Typing
  <2>2. r \in Replies
    BY <2>1 DEF Replies
  <2> QED BY <2>2, NoneAssumption
<1>5. r.status = "OK" /\ r.peers = seen[e]
  OBVIOUS
<1> HIDE DEF r
<1>6. reply'[e] = r /\ pc'[e] = "announce"
  BY <1>1, <1>2, Typing
<1>7. HandlerStep(e)
  <2>1. \A p \in Peers : SamePeer(p)
    BY <1>2, <1>3, PeersAssumption, Typing, <1>1 DEF SamePeer
  <2>2. \A c \in Conns \ {e} : SameConn(c)
    BY <1>1, <1>2, PeersAssumption, Typing DEF SameConn
  <2> QED BY <1>2, <2>1, <2>2 DEF HandlerStep
<1>8. RegisterOK(e)' /\ InformOK(e)'
  BY <1>1, <1>2, <1>3, <1>4, <1>5, <1>6 DEF RegisterOK, InformOK, Request
<1>9. ASSUME NEW h, NEW p \in Peers, NEW q, Telling(e, h, p, q) PROVE Agree(h, p, q)'
  <2>1. CASE conn[e].from = p /\ q \in ToSet(seen[e])
    <3>1. pc'[p] = "registering" /\ call'[p] = e /\ e # None
      BY <1>1, <1>2, <1>3, <2>1, PeersAssumption, NoneAssumption, Typing DEF Threads
    <3>2. Reading(p, q)'
      BY <1>4, <1>5, <1>6, <2>1, <3>1 DEF Reading
    <3> QED BY <3>2 DEF Agree
  <2>2. CASE conn[e].from = q /\ conn[e].to = h
    <3>1. Telling(e, h, p, q)'
      BY <1>1, <1>2, <1>6, <2>2 DEF Telling, Request
    <3> QED BY <3>1 DEF Agree
  <2> QED BY <1>1, <1>9, <2>1, <2>2 DEF Telling
<1>10. FirstSame /\ \A p \in Peers : ToSet(network'[p]) \subseteq Peers
  BY <1>2, ListsSame
<1>11. \A c \in Conns : conn'[c] # None /\ (conn[c] = None \/ c = e) =>
          RegisterOK(c)' /\ InformOK(c)'
  BY <1>2, <1>8
<1> QED BY <1>7, <1>9, <1>10, <1>11, HandlerKeeps

\* The loop over the list begins at its first entry.
LEMMA LockAgrees ==
    ASSUME AllInv, Stars, Growing, NEW e \in Conns, PyAnnounceLock(e)
    PROVE  AgreeInv'
<1>1. /\ IInv /\ conn[e] # None /\ pc[e] = "announce" /\ e \in Threads
      /\ Request(e, "REGISTER") /\ RegisterOK(e) /\ conn[e].from \in Peers
  BY Typing DEF AllInv, AgreeInv, PyAnnounceLock, PyHandles, Request
<1>2. /\ pc' = [pc EXCEPT ![e] = "announcing"] /\ at' = [at EXCEPT ![e] = 1]
      /\ call' = call /\ conn' = conn /\ reply' = reply /\ seen' = seen /\ up' = up
      /\ network' = network
  BY DEF PyAnnounceLock, wires
<1>3. at'[e] = 1 /\ \A u \in Threads \ {e} : seen'[u] = seen[u] /\ at'[u] = at[u]
  BY <1>1, <1>2, Typing
<1>4. HandlerStep(e) /\ pc'[e] = "announcing"
  BY <1>1, <1>2, <1>3, StepOn
<1>5. reply[e] # None
  BY <1>1 DEF RegisterOK
<1>6. RegisterOK(e)' /\ InformOK(e)'
  BY <1>1, <1>2, <1>4, <1>5 DEF RegisterOK, InformOK, Request
<1>7. ASSUME NEW h \in Peers, NEW p \in ToSet(network[h]), NEW q, Telling(e, h, p, q)
      PROVE  Agree(h, p, q)'
  <2>1. conn[e].from = q /\ conn[e].to = h
    BY <1>1, <1>7 DEF Telling, Request
  <2>2. PICK i \in DOMAIN network[h] : network[h][i] = p
    BY <1>7 DEF ToSet
  <2>3. 1 <= i
    BY <1>1, <2>2, Typing
  <2>4. Telling(e, h, p, q)'
    BY <1>1, <1>2, <1>3, <1>4, <2>1, <2>2, <2>3 DEF Telling, Request
  <2> QED BY <2>4 DEF Agree
<1>8. FirstSame /\ \A p \in Peers : ToSet(network'[p]) \subseteq Peers
  BY <1>2, ListsSame
<1>9. \A c \in Conns : conn'[c] # None /\ (conn[c] = None \/ c = e) =>
          RegisterOK(c)' /\ InformOK(c)'
  BY <1>2, <1>6
<1> QED BY <1>4, <1>7, <1>8, <1>9, HandlerKeeps

\* A peer that registers does so with a first peer.
LEMMA WithFirst ==
    ASSUME AllInv, Stars, NEW e \in Conns, Request(e, "REGISTER")
    PROVE  /\ conn[e].to \in Peers /\ conn[e].from \in Peers
           /\ conn[e].to = Contact[conn[e].from] /\ Contact[conn[e].to] = None
<1>1. conn[e].to \in Peers /\ conn[e].from \in Peers /\ conn[e].to = Contact[conn[e].from]
  BY Typing DEF AllInv, AgreeInv, RegisterOK, Request
<1> QED BY <1>1, StarPeers

\* One round of the loop: whoever is passed over knows already, and whoever is not
\* is sent an INFORM.
LEMMA AnnounceAgrees ==
    ASSUME AllInv, Stars, Growing, NEW e \in Conns, PyAnnounce(e)
    PROVE  AgreeInv'
<1>0. PICK h, d, f : h = conn[e].to /\ d = network[h][at[e]] /\ f = FirstFree
  OBVIOUS
<1>1. /\ IInv /\ conn[e] # None /\ pc[e] = "announcing" /\ e \in Threads
      /\ Request(e, "REGISTER") /\ RegisterOK(e)
  BY Typing DEF AllInv, AgreeInv, PyAnnounce, PyHandles, Request
<1>2. /\ h \in Peers /\ conn[e].from \in Peers /\ Contact[h] = None /\ h # None
      /\ at[e] \in 1..Len(network[h]) /\ network[h] \in Seq(Entries) /\ at[e] \in Nat
  BY <1>0, <1>1, WithFirst, StarPeers, Typing DEF PyAnnounce
<1>3. d \in ToSet(network[h]) /\ d \in Peers /\ (d = h \/ Contact[d] = h) /\ up[d] = "listening"
  <2>1. d \in ToSet(network[h])
    BY <1>0, <1>2 DEF ToSet
  <2>2. PeerOK(h)
    BY <1>2 DEF AllInv, AgreeInv
  <2>3. d \in Peers /\ (d = h \/ Contact[d] = h)
    BY <1>2, <2>1, <2>2 DEF PeerOK
  <2>4. PeerOK(d)
    BY <2>3 DEF AllInv, AgreeInv
  <2> QED BY <2>1, <2>3, <2>4 DEF PeerOK
<1>4. reply[e] # None
  BY <1>1 DEF RegisterOK
<1>5. CASE /\ d \in {h, conn[e].from} /\ at' = [at EXCEPT ![e] = @ + 1]
           /\ UNCHANGED <<state, pc, wires, seen>>
  <2>1. at'[e] = at[e] + 1 /\ \A u \in Threads \ {e} : seen'[u] = seen[u] /\ at'[u] = at[u]
    BY <1>1, <1>5, Typing
  <2>2. /\ pc' = [pc EXCEPT ![e] = "announcing"] /\ call' = call /\ conn' = conn
        /\ reply' = reply /\ up' = up /\ network' = network
    BY <1>1, <1>5, Typing DEF state, wires
  <2>3. HandlerStep(e) /\ pc'[e] = "announcing"
    BY <1>1, <2>1, <2>2, StepOn
  <2>4. RegisterOK(e)' /\ InformOK(e)'
    BY <1>1, <1>4, <2>2, <2>3 DEF RegisterOK, InformOK, Request
  <2>5. ASSUME NEW p, NEW q \in ToSet(network[h]), Telling(e, h, p, q)
        PROVE  Agree(h, p, q)'
    <3>1. conn[e].from = q /\ \E i \in DOMAIN network[h] : at[e] <= i /\ network[h][i] = p
      BY <1>0, <1>1, <2>5 DEF Telling, Request
    <3>2. PICK i \in DOMAIN network[h] : at[e] <= i /\ network[h][i] = p
      BY <3>1
    <3>3. CASE i # at[e]
      <4>1. at[e] + 1 <= i
        BY <1>2, <3>2, <3>3
      <4>2. Telling(e, h, p, q)'
        BY <1>0, <1>1, <2>1, <2>2, <2>3, <3>1, <3>2, <4>1 DEF Telling, Request
      <4> QED BY <4>2 DEF Agree
    <3>4. CASE i = at[e] /\ p = h
      BY <2>2, <2>5, <3>4 DEF Agree
    <3>5. CASE i = at[e] /\ p = q
      <4>1. q \in PyPeers /\ q \in Peers
        BY <1>2, <3>1, StarPeers
      <4>2. network[q] # <<>> /\ network[q] \in Seq(Entries) /\ Head(network[q]) = q
        BY <1>1, <4>1, Typing DEF AllInv, IInv, ListTypes, PyListsOnce
      <4>3. 1 \in DOMAIN network[q] /\ network[q][1] = q
        BY <4>2
      <4> QED BY <2>2, <3>5, <4>3 DEF Agree, ToSet
    <3> QED BY <1>0, <1>5, <3>1, <3>2, <3>3, <3>4, <3>5
  <2>6. ASSUME NEW g, NEW p, NEW q, Telling(e, g, p, q) PROVE g = h
    BY <1>0, <1>1, <2>6 DEF Telling, Request
  <2>7. FirstSame /\ \A p \in Peers : ToSet(network'[p]) \subseteq Peers
    BY <2>2, ListsSame
  <2>8. \A c \in Conns : conn'[c] # None /\ (conn[c] = None \/ c = e) =>
           RegisterOK(c)' /\ InformOK(c)'
    BY <2>2, <2>4
  <2>9. \A g, p, q \in Peers :
           /\ Contact[g] = None /\ p \in ToSet(network[g]) /\ q \in ToSet(network[g])
           /\ Telling(e, g, p, q)
           => Agree(g, p, q)'
    <3> SUFFICES ASSUME NEW g, NEW p, NEW q \in ToSet(network[g]), Telling(e, g, p, q)
                 PROVE  Agree(g, p, q)'
      OBVIOUS
    <3>1. g = h
      BY <2>6
    <3> QED BY <2>5, <3>1
  <2> QED BY <2>3, <2>7, <2>8, <2>9, HandlerKeeps
<1>6. CASE /\ d \notin {h, conn[e].from} /\ FreeConns # {}
           /\ Dial(f, e, d, "INFORM", Last(seen[e]))
           /\ pc' = [pc EXCEPT ![f] = "start"] /\ at' = [at EXCEPT ![e] = @ + 1]
           /\ UNCHANGED <<state, call, reply, seen>>
  <2>1. f \in Conns /\ conn[f] = None /\ f # e /\ f \in Threads
    BY <1>0, <1>1, <1>6, FreeConn DEF Threads
  <2>2. Owner(e) = h /\ Last(seen[e]) = conn[e].from
    <3>1. e \notin Peers
      BY PeersAssumption
    <3>2. News(e)
      BY DEF AllInv, NewsInv
    <3> QED BY <1>0, <1>1, <3>1, <3>2 DEF Owner, News, Relays
  <2>0. PICK r : r = [to |-> d, from |-> h, cmd |-> "INFORM", about |-> conn[e].from]
    OBVIOUS
  <2>3. /\ conn' = [conn EXCEPT ![f] = r] /\ call' = call /\ reply' = reply /\ seen' = seen
        /\ up' = up /\ network' = network
    BY <1>6, <2>0, <2>2 DEF Dial, state
  <2>4. r.to = d /\ r.from = h /\ r.cmd = "INFORM" /\ r.about = conn[e].from
    BY <2>0
  <2>5. /\ conn'[f] = r /\ pc'[f] = "start" /\ pc'[e] = "announcing" /\ conn'[e] = conn[e]
        /\ at'[e] = at[e] + 1
    BY <1>1, <1>6, <2>1, <2>3, Typing
  <2>6. r # None
    <3>1. r \in Requests
      BY <1>2, <1>3, <2>0 DEF Requests, Entries
    <3> QED BY <3>1, NoneAssumption
  <2>7. HandlerStep(e)
    <3>1. \A p \in Peers : SamePeer(p)
      BY <1>1, <1>6, <2>1, <2>3, PeersAssumption, Typing DEF SamePeer
    <3>2. \A c \in Conns \ {e} : conn[c] # None => SameConn(c)
      BY <1>1, <1>6, <2>1, <2>3, PeersAssumption, Typing DEF SameConn
    <3> QED BY <2>3, <3>1, <3>2 DEF HandlerStep
  <2>8. RegisterOK(e)' /\ InformOK(e)'
    BY <1>1, <1>4, <2>3, <2>5 DEF RegisterOK, InformOK, Request
  <2>9. RegisterOK(f)' /\ InformOK(f)'
    <3>1. Contact[d] # None
      BY <1>2, <1>3, <1>6
    <3>2. /\ conn'[f].to = d /\ conn'[f].from = h /\ conn'[f].cmd = "INFORM"
          /\ conn'[f].about \in Peers
      BY <1>2, <2>4, <2>5
    <3> QED BY <1>2, <3>1, <3>2 DEF RegisterOK, InformOK, Request
  <2>10. ASSUME NEW p, NEW q, Telling(e, h, p, q)
         PROVE  Agree(h, p, q)'
    <3>1. conn[e].from = q /\ \E i \in DOMAIN network[h] : at[e] <= i /\ network[h][i] = p
      BY <1>0, <1>1, <2>10 DEF Telling, Request
    <3>2. PICK i \in DOMAIN network[h] : at[e] <= i /\ network[h][i] = p
      BY <3>1
    <3>3. CASE i # at[e]
      <4>1. at[e] + 1 <= i
        BY <1>2, <3>2, <3>3
      <4>2. Telling(e, h, p, q)'
        BY <1>0, <1>1, <2>3, <2>5, <3>1, <3>2, <4>1 DEF Telling, Request
      <4> QED BY <4>2 DEF Agree
    <3>4. CASE i = at[e]
      <4>1. p = d
        BY <1>0, <3>2, <3>4
      <4>2. Telling(f, h, p, q)'
        BY <2>4, <2>5, <2>6, <3>1, <4>1 DEF Telling, Request
      <4> QED BY <2>1, <4>2 DEF Agree
    <3> QED BY <3>3, <3>4
  <2>11. ASSUME NEW g, NEW p, NEW q, Telling(e, g, p, q) PROVE g = h
    BY <1>0, <1>1, <2>11 DEF Telling, Request
  <2>12. FirstSame /\ \A p \in Peers : ToSet(network'[p]) \subseteq Peers
    BY <2>3, ListsSame
  <2>13. \A c \in Conns : conn'[c] # None /\ (conn[c] = None \/ c = e) =>
            RegisterOK(c)' /\ InformOK(c)'
    <3>1. \A c \in Conns \ {f} : conn'[c] = conn[c]
      BY <2>1, <2>3, Typing, <1>1
    <3> QED BY <2>8, <2>9, <3>1
  <2>14. \A g, p, q \in Peers :
            /\ Contact[g] = None /\ p \in ToSet(network[g]) /\ q \in ToSet(network[g])
            /\ Telling(e, g, p, q)
            => Agree(g, p, q)'
    <3> SUFFICES ASSUME NEW g, NEW p, NEW q, Telling(e, g, p, q)
                 PROVE  Agree(g, p, q)'
      OBVIOUS
    <3>1. g = h
      BY <2>11
    <3> QED BY <2>10, <3>1
  <2> QED BY <2>7, <2>12, <2>13, <2>14, HandlerKeeps
<1>7. Reachable(d)
  BY <1>3 DEF Reachable
<1> QED BY <1>0, <1>5, <1>6, <1>7 DEF PyAnnounce

\* The end of the loop: everybody was told.
LEMMA AnnouncedAgrees ==
    ASSUME AllInv, Stars, Growing, NEW e \in Conns, PyAnnounced(e)
    PROVE  AgreeInv'
<1> DEFINE h == conn[e].to
<1>1. /\ IInv /\ conn[e] # None /\ pc[e] = "announcing" /\ e \in Threads
      /\ Request(e, "REGISTER") /\ RegisterOK(e)
  BY Typing DEF AllInv, AgreeInv, PyAnnounced, PyHandles, Request
<1>2. at[e] > Len(network[h]) /\ network[h] \in Seq(Entries) /\ at[e] \in Nat
  BY <1>1, Typing DEF PyAnnounced
<1>3. /\ Finish(e, None) /\ up' = up /\ network' = network
      /\ seen' = [seen EXCEPT ![e] = <<>>] /\ at' = [at EXCEPT ![e] = 0]
  BY DEF PyAnnounced
<1>4. \A u \in Threads \ {e} : seen'[u] = seen[u] /\ at'[u] = at[u]
  BY <1>1, <1>3, Typing
<1>5. /\ HandlerStep(e)
      /\ \A c \in Conns : conn[c] = None => conn'[c] = None
      /\ conn'[e] # None => conn'[e] = conn[e] /\ pc'[e] = "closed" /\ reply'[e] = reply[e]
  BY <1>1, <1>3, <1>4, FinishStep
<1>6. reply[e] # None
  BY <1>1 DEF RegisterOK
<1>7. conn'[e] # None => RegisterOK(e)' /\ InformOK(e)'
  BY <1>1, <1>3, <1>5, <1>6 DEF RegisterOK, InformOK, Request
<1>8. ASSUME NEW g, NEW p, NEW q PROVE ~Telling(e, g, p, q)
  <2>1. ~(g = h /\ \E i \in DOMAIN network[g] : at[e] <= i /\ network[g][i] = p)
    BY <1>2
  <2> QED BY <1>1, <2>1 DEF Telling, Request
<1>9. FirstSame /\ \A p \in Peers : ToSet(network'[p]) \subseteq Peers
  BY <1>3, ListsSame
<1>10. \A c \in Conns : conn'[c] # None /\ (conn[c] = None \/ c = e) =>
          RegisterOK(c)' /\ InformOK(c)'
  BY <1>5, <1>7
<1> QED BY <1>5, <1>8, <1>9, <1>10, HandlerKeeps

\* An INFORM: the peer lists whom it names.
LEMMA AddAgrees ==
    ASSUME AllInv, Stars, Growing, NEW e \in Conns, PyAdd(e)
    PROVE  AgreeInv'
<1> DEFINE t == conn[e].to
           d == conn[e].about
<1>1. /\ IInv /\ conn[e] # None /\ pc[e] = "touched" /\ e \in Threads
      /\ Request(e, "INFORM") /\ InformOK(e) /\ t \in Peers
  BY Typing DEF AllInv, AgreeInv, PyAdd, PyHandles, Request
<1>2. Contact[t] # None /\ d \in Peers /\ ToSet(network[t]) \subseteq Peers
      /\ network[t] \in Seq(Entries)
  BY <1>1, Typing DEF InformOK, AllInv, AgreeInv, PeerOK
<1>3. /\ network' = [network EXCEPT ![t] = IF d \in ToSet(@) THEN @ ELSE Append(@, d)]
      /\ Finish(e, None) /\ up' = up /\ seen' = seen /\ at' = at
  BY DEF PyAdd
<1>4. /\ network'[t] = IF d \in ToSet(network[t]) THEN network[t] ELSE Append(network[t], d)
      /\ \A p \in Peers \ {t} : network'[p] = network[p]
  BY <1>1, <1>3, Typing
<1> HIDE DEF d
<1>5. d \in ToSet(network'[t])
  <2>1. d \in Entries
    BY <1>2 DEF Entries
  <2> HIDE DEF t
  <2> QED BY <1>2, <1>4, <2>1, AddGrows
<1>6. ToSet(network'[t]) \subseteq Peers
  <2>1. CASE d \in ToSet(network[t])
    BY <1>2, <1>4, <2>1
  <2>2. CASE d \notin ToSet(network[t])
    <3>1. network[t] \in Seq(Peers)
      BY <1>2 DEF ToSet
    <3>2. network'[t] \in Seq(Peers)
      BY <1>2, <1>4, <2>2, <3>1
    <3> QED BY <3>2 DEF ToSet
  <2> QED BY <2>1, <2>2
<1>7. FirstSame /\ \A p \in Peers : ToSet(network'[p]) \subseteq Peers
  BY <1>1, <1>2, <1>4, <1>6 DEF FirstSame, AllInv, AgreeInv, PeerOK
<1>8. /\ HandlerStep(e)
      /\ \A c \in Conns : conn[c] = None => conn'[c] = None
      /\ conn'[e] # None => conn'[e] = conn[e]
  BY <1>1, <1>3, FinishStep
<1>9. conn'[e] # None => RegisterOK(e)' /\ InformOK(e)'
  BY <1>1, <1>8 DEF RegisterOK, InformOK, Request
<1>10. ASSUME NEW h, NEW p, NEW q, Telling(e, h, p, q) PROVE Agree(h, p, q)'
  <2>1. p = t /\ q = d
    BY <1>1, <1>10 DEF Telling, Request, d
  <2> QED BY <1>5, <2>1 DEF Agree
<1>11. \A c \in Conns : conn'[c] # None /\ (conn[c] = None \/ c = e) =>
          RegisterOK(c)' /\ InformOK(c)'
  BY <1>8, <1>9
<1> QED BY <1>7, <1>8, <1>10, <1>11, HandlerKeeps

\* A retrieval is about no list.
LEMMA ServeAgrees ==
    ASSUME AllInv, Stars, Growing, NEW e \in Conns, PyServe(e)
    PROVE  AgreeInv'
<1>1. /\ IInv /\ conn[e] # None /\ e \in Threads /\ conn[e].cmd = "RETRIEVE"
  BY Typing DEF AllInv, PyServe, PyHandles
<1>2. PICK r : Finish(e, r)
  BY DEF PyServe
<1>3. up' = up /\ seen' = seen /\ at' = at /\ network' = network
  BY DEF PyServe, state
<1>4. \A p \in Peers : pc[p] = "registering" /\ call[p] = e => r = None
  <2> SUFFICES ASSUME NEW p \in Peers, pc[p] = "registering", call[p] = e PROVE FALSE
    OBVIOUS
  <2>1. Asks(p)
    BY StarPeers DEF AllInv, KnownInv
  <2>2. conn[e].cmd = "REGISTER"
    BY <2>1 DEF Asks
  <2> QED BY <1>1, <2>2
<1>5. /\ HandlerStep(e)
      /\ \A c \in Conns : conn[c] = None => conn'[c] = None
      /\ conn'[e] # None => conn'[e] = conn[e]
  BY <1>1, <1>2, <1>3, <1>4, FinishStep
<1>6. conn'[e] # None => RegisterOK(e)' /\ InformOK(e)'
  BY <1>1, <1>5 DEF RegisterOK, InformOK, Request
<1>7. \A h, p, q : ~Telling(e, h, p, q)
  BY <1>1 DEF Telling, Request
<1>8. FirstSame /\ \A p \in Peers : ToSet(network'[p]) \subseteq Peers
  BY <1>3, ListsSame
<1>9. \A c \in Conns : conn'[c] # None /\ (conn[c] = None \/ c = e) =>
          RegisterOK(c)' /\ InformOK(c)'
  BY <1>5, <1>6
<1> QED BY <1>5, <1>7, <1>8, <1>9, HandlerKeeps

\* A handler that is left alone tells what it told, if the list of the first peer got
\* an entry at its end.
LEMMA TellingMore ==
    ASSUME NEW c, NEW h, NEW p, NEW q, SameConn(c), Telling(c, h, p, q), NEW e,
           network[h] \in Seq(Entries), network'[h] = Append(network[h], e)
    PROVE  Telling(c, h, p, q)'
<1>1. CASE \E i \in DOMAIN network[h] : at[c] <= i /\ network[h][i] = p
  <2>1. PICK i \in DOMAIN network[h] : at[c] <= i /\ network[h][i] = p
    BY <1>1
  <2>2. /\ Len(network'[h]) = Len(network[h]) + 1
        /\ DOMAIN network'[h] = 1..Len(network'[h]) /\ DOMAIN network[h] = 1..Len(network[h])
        /\ Len(network[h]) \in Nat
        /\ \A k \in 1..Len(network[h]) : network'[h][k] = network[h][k]
    BY AppendProperties
  <2>3. i \in DOMAIN network'[h] /\ network'[h][i] = p
    BY <2>1, <2>2
  <2> QED BY <2>1, <2>3 DEF SameConn, Telling, Request
<1>2. CASE ~\E i \in DOMAIN network[h] : at[c] <= i /\ network[h][i] = p
  BY <1>2 DEF SameConn, Telling, Request
<1> QED BY <1>1, <1>2

\* A registration: the newcomer is in the list and will be sent it, and everybody in
\* the list is going to be told of the newcomer.
LEMMA RegisterAgrees ==
    ASSUME AllInv, Stars, Growing, NEW e \in Conns, PyRegister(e)
    PROVE  AgreeInv'
<1>0. PICK h, n : h = conn[e].to /\ n = conn[e].from
  OBVIOUS
<1>1. /\ IInv /\ conn[e] # None /\ pc[e] = "touched" /\ e \in Threads
      /\ Request(e, "REGISTER") /\ RegisterOK(e)
  BY Typing DEF AllInv, AgreeInv, PyRegister, PyHandles, Request
<1>2. /\ h \in Peers /\ n \in Peers /\ h = Contact[n] /\ Contact[h] = None /\ h # None
      /\ network[h] \in Seq(Entries) /\ ToSet(network[h]) \subseteq Peers
  BY <1>0, <1>1, WithFirst, StarPeers, Typing DEF AllInv, AgreeInv, PeerOK
<1>3. /\ n \notin ToSet(network[h]) /\ reply[e] = None
      /\ pc[n] = "registering" /\ call[n] = e
  BY <1>0, <1>1 DEF RegisterOK
<1>4. PICK list : list = Append(network[h], n)
  OBVIOUS
<1>5. /\ network' = [network EXCEPT ![h] = list] /\ seen' = [seen EXCEPT ![e] = list]
      /\ pc' = [pc EXCEPT ![e] = "reply"] /\ call' = call /\ conn' = conn /\ reply' = reply
      /\ up' = up /\ at' = at
  BY <1>0, <1>3, <1>4 DEF PyRegister, wires
<1>6. /\ network'[h] = list /\ \A g \in Peers \ {h} : network'[g] = network[g]
      /\ seen'[e] = list /\ pc'[e] = "reply"
      /\ \A u \in Threads \ {e} : seen'[u] = seen[u] /\ at'[u] = at[u] /\ pc'[u] = pc[u]
  BY <1>1, <1>2, <1>5, Typing
<1>7. HandlerStep(e)
  BY <1>1, <1>5, <1>6, StepOn
<1>8. ToSet(list) = ToSet(network[h]) \cup {n}
  <2>1. /\ Len(list) = Len(network[h]) + 1 /\ DOMAIN list = 1..Len(list)
        /\ DOMAIN network[h] = 1..Len(network[h]) /\ Len(network[h]) \in Nat
        /\ list[Len(list)] = n /\ \A i \in 1..Len(network[h]) : list[i] = network[h][i]
    BY <1>2, <1>4, AppendProperties
  <2> QED BY <2>1 DEF ToSet
<1>9. ASSUME NEW c \in Conns PROVE RegisterOK(c)' /\ InformOK(c)'
  <2>1. RegisterOK(c) /\ InformOK(c)
    BY DEF AllInv, AgreeInv
  <2>2. InformOK(c)'
    BY <1>5, <2>1 DEF InformOK, Request
  <2>3. CASE c = e
    <3>1. conn'[e].to = h /\ conn'[e].from = n /\ conn'[e].cmd = "REGISTER"
      BY <1>0, <1>1, <1>5 DEF Request
    <3>2. pc'[n] = "registering" /\ call'[n] = e /\ reply'[e] = None
      BY <1>2, <1>3, <1>5, <1>6, PeersAssumption, Typing, <1>1
    <3> QED BY <1>2, <1>6, <1>8, <2>2, <2>3, <3>1, <3>2 DEF RegisterOK, Request
  <2>4. CASE c # e /\ Request(c, "REGISTER")
    <3>1. conn[c].to \in Peers /\ conn[c].from \in Peers
      BY <1>1, <2>4, Typing DEF Request
    <3>2. pc'[c] = pc[c] /\ seen'[c] = seen[c] /\ pc'[conn[c].from] = pc[conn[c].from]
      BY <1>1, <1>6, <2>4, <3>1, PeersAssumption, Typing
    <3>3. pc[c] \in {"start", "touched"} => conn[c].from # n
      BY <1>3, <2>1, <2>4 DEF RegisterOK
    <3>4. pc[c] \in {"start", "touched"} => conn[c].from \notin ToSet(network'[conn[c].to])
      BY <1>6, <1>8, <2>1, <2>4, <3>1, <3>3 DEF RegisterOK
    <3> QED BY <1>5, <2>1, <2>2, <2>4, <3>2, <3>4 DEF RegisterOK, Request
  <2>5. CASE c # e /\ ~Request(c, "REGISTER")
    BY <1>5, <2>2, <2>5 DEF RegisterOK, Request
  <2> QED BY <2>3, <2>4, <2>5
<1>10. ASSUME NEW p \in Peers PROVE PeerOK(p)'
  <2>1. PeerOK(p) /\ pc'[p] = pc[p] /\ seen'[p] = seen[p] /\ up' = up
    BY <1>7 DEF AllInv, AgreeInv, HandlerStep, SamePeer
  <2>2. ToSet(network'[p]) \subseteq Peers
    BY <1>2, <1>6, <1>8, <2>1 DEF PeerOK
  <2>3. ASSUME pc[p] = "boot" PROVE Contact[p] # None /\ p \notin ToSet(network'[Contact[p]])
    <3>1. Contact[p] # None /\ p \notin ToSet(network[Contact[p]]) /\ p # n
      BY <1>3, <2>1, <2>3 DEF PeerOK
    <3>2. Contact[p] \in Peers
      BY <3>1, StarPeers
    <3> QED BY <1>6, <1>8, <3>1, <3>2
  <2>4. ASSUME Contact[p] = None, NEW q \in ToSet(network'[p]) PROVE q = p \/ Contact[q] = p
    BY <1>2, <1>6, <1>8, <2>1, <2>4 DEF PeerOK
  <2> QED BY <2>1, <2>2, <2>3, <2>4 DEF PeerOK
<1>11. ASSUME NEW g \in Peers, Contact[g] = None, NEW p \in ToSet(network[g]),
              NEW q \in ToSet(network[g])
       PROVE  Agree(g, p, q)'
  <2>1. Agree(g, p, q) /\ p \in Peers
    BY <1>11 DEF AllInv, AgreeInv, PeerOK
  <2>2. CASE q \in ToSet(network[p])
    BY <2>1, <2>2, StarPeers DEF Growing, Agree
  <2>3. CASE Reading(p, q)
    BY <1>7, <2>1, <2>3, ReadingSame DEF HandlerStep, Agree
  <2>4. ASSUME NEW c \in Conns, Telling(c, g, p, q) PROVE Agree(g, p, q)'
    <3>1. c # e /\ conn[c] # None
      BY <1>1, <2>4 DEF Telling, Request
    <3>2. SameConn(c)
      BY <1>7, <3>1 DEF HandlerStep
    <3>3. Telling(c, g, p, q)'
      <4>1. CASE g = h
        <5>1. network'[h] = Append(network[h], n) /\ Telling(c, h, p, q)
          BY <1>4, <1>6, <2>4, <4>1
        <5>2. Telling(c, h, p, q)'
          BY <1>2, <3>2, <5>1, TellingMore
        <5> QED BY <4>1, <5>2
      <4>2. CASE g # h
        BY <1>6, <2>4, <3>2, <4>2, TellingSame
      <4> QED BY <4>1, <4>2
    <3> QED BY <3>3 DEF Agree
  <2> QED BY <2>1, <2>2, <2>3, <2>4 DEF Agree
<1>12. ASSUME NEW p \in ToSet(network'[h]), NEW q \in ToSet(network'[h]), p = n \/ q = n
       PROVE  Agree(h, p, q)'
  <2>1. Telling(e, h, p, q)'
    <3>1. conn'[e] # None /\ conn'[e].cmd = "REGISTER" /\ conn'[e].from = n /\ conn'[e].to = h
      BY <1>0, <1>1, <1>5 DEF Request
    <3>2. pc'[e] = "reply" /\ (p = n => q \in ToSet(seen'[e]))
      BY <1>6
    <3> QED BY <1>12, <3>1, <3>2 DEF Telling, Request
  <2> QED BY <2>1 DEF Agree
<1>13. ASSUME NEW g \in Peers, Contact[g] = None,
              NEW p \in ToSet(network'[g]), NEW q \in ToSet(network'[g])
       PROVE  Agree(g, p, q)'
  <2>1. CASE p \in ToSet(network[g]) /\ q \in ToSet(network[g])
    BY <1>11, <1>13, <2>1
  <2>2. CASE ~(p \in ToSet(network[g]) /\ q \in ToSet(network[g]))
    <3>1. g = h
      BY <1>6, <2>2
    <3>2. p = n \/ q = n
      BY <1>6, <1>8, <2>2, <3>1
    <3> QED BY <1>12, <3>1, <3>2
  <2> QED BY <2>1, <2>2
<1> QED BY <1>9, <1>10, <1>13 DEF AgreeInv

-----------------------------------------------------------------------------
(* Every step.                                                             *)

\* The steps of a handler.
LEMMA HandlerAgrees ==
    ASSUME AllInv, Stars, Growing, NEW e \in Conns, PyHandler(e)
    PROVE  AgreeInv'
BY TouchAgrees, RegisterAgrees, SendListAgrees, LockAgrees, AnnounceAgrees,
   AnnouncedAgrees, AddAgrees, ServeAgrees DEF PyHandler

\* Nothing is changed that the invariant is about.
LEMMA AgreeStutters ==
    ASSUME AgreeInv, UNCHANGED vars
    PROVE  AgreeInv'
BY DEF vars, AgreeInv, RegisterOK, InformOK, PeerOK, Agree, Reading, Telling, Request

\* In such a network there is no C peer, everybody listens already, and nothing ages.
LEMMA AgreeStep ==
    ASSUME AllInv, Stars, Next
    PROVE  AgreeInv'
<1>1. Growing
  BY StarPeers, GrowsStep DEF AllInv, KnownInv, Growing
<1>2. ASSUME NEW t \in Peers, CClient(t) \/ CScan(t)
      PROVE  FALSE
  BY <1>2, StarPeers, SMTT(60) DEF CClient, CScan, CBoot, CPick, CReply, CEof, CTake, CThread
<1>3. ASSUME NEW c \in Conns, CHandler(c)
      PROVE  FALSE
  BY <1>3, StarPeers DEF CHandler, CHandles, CLock, CInform, CAppend, CInformed, CServe, CReply,
        CEof, CTake, CThread
<1>4. ASSUME NEW p \in Peers, Listen(p) \/ Age(p)
      PROVE  FALSE
  BY <1>4, StarPeers DEF Listen, Age, AllInv, AgreeInv, PeerOK
<1> QED BY <1>1, <1>2, <1>3, <1>4, ClientAgrees, HandlerAgrees DEF Next, ThreadStep, UserStep

\* The beginning: every first peer lists itself.
LEMMA AgreeInit ==
    ASSUME Stars, Init
    PROVE  AgreeInv
<1>1. ASSUME NEW c \in Conns PROVE RegisterOK(c) /\ InformOK(c)
  BY DEF Init, RegisterOK, InformOK, Request
<1>2. ASSUME NEW p \in Peers PROVE network[p] = <<p>> /\ ToSet(network[p]) = {p}
  BY DEF Init, ToSet
<1>3. ASSUME NEW p \in Peers PROVE PeerOK(p)
  <2>1. p \in Threads /\ p \notin Conns
    BY PeersAssumption DEF Threads
  <2>2. pc[p] = IF Contact[p] = None THEN "done" ELSE "boot"
    BY <2>1 DEF Init
  <2>3. up[p] = "listening"
    BY DEF Init, Stars
  <2>4. Contact[p] # None => Contact[p] \in Peers /\ Contact[p] # p
    BY ContactAssumption
  <2>5. Contact[p] # None => p \notin ToSet(network[Contact[p]])
    BY <1>2, <2>4
  <2> QED BY <1>2, <2>2, <2>3, <2>5 DEF PeerOK
<1>4. ASSUME NEW h \in Peers, NEW p \in ToSet(network[h]), NEW q \in ToSet(network[h])
      PROVE  Agree(h, p, q)
  BY <1>2, <1>4 DEF Agree
<1> QED BY <1>1, <1>3, <1>4 DEF AgreeInv

\* When nothing is in progress no news is on its way: who lists whom is settled.
LEMMA AgreeQuiet ==
    ASSUME IInv, AgreeInv
    PROVE  QuietAgreement
<1> SUFFICES ASSUME Quiet, NEW h \in Peers, Contact[h] = None,
                    NEW p \in ToSet(network[h]), NEW q \in ToSet(network[h])
             PROVE  q \in ToSet(network[p])
  BY DEF QuietAgreement
<1>1. p \in Peers /\ Agree(h, p, q)
  BY DEF AgreeInv, PeerOK
<1>2. ~Reading(p, q)
  BY <1>1 DEF Quiet, Reading
<1>3. \A c \in Conns : conn[c] = None
  BY Typing DEF Quiet
<1>4. \A c \in Conns : ~Telling(c, h, p, q)
  BY <1>3 DEF Telling, Request
<1> QED BY <1>1, <1>2, <1>4 DEF Agree

\* In a network of peers that run peer.py, all of which accept connections and in which
\* only peers that contact nobody are contacted, as long as no entry ages: whenever
\* nothing is in progress, all that a first peer lists know each other, in whatever
\* order they registered and whatever the announcements of several newcomers interleave.
THEOREM StarsAgree == Stars => (Spec => []QuietAgreement)
<1> SUFFICES ASSUME Stars PROVE Spec => []QuietAgreement
  OBVIOUS
<1>1. Init => AgreeInv
  BY AgreeInit
<1>2. IInv /\ PyListsOnce /\ NewsInv /\ KnownInv /\ AgreeInv /\ [Next]_vars => AgreeInv'
  BY AgreeStep, AgreeStutters DEF AllInv
<1>3. IInv /\ AgreeInv => QuietAgreement
  BY AgreeQuiet
<1>4. ~Ageing
  BY StarPeers
<1>5. Spec => []KnownInv
  BY <1>4, KnownInvariance
<1> QED BY <1>1, <1>2, <1>3, <1>5, Invariance, PyListsCorrect, NewsInvariance, PTL DEF Spec
=============================================================================
