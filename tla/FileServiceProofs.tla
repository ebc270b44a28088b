-------------------------- MODULE FileServiceProofs --------------------------
(***************************************************************************)
(* Proofs about FileService: its types, and that no crash of a client or of *)
(* the server loses the salt of a user whom a C client registered.          *)
(***************************************************************************)
EXTENDS FileService, SequenceTheorems, TLAPS

\* Who has started a program has typed a name and a password; who waits does so
\* on a connection.
ClientsReady ==
    \A c \in Clients :
       /\ pc[c] # "off" => me[c] \in [user : Users, sig : Signatures]
       /\ pc[c] \in {"lookup", "save"} => me[c].sig.salt \in Salts
       /\ pc[c] \in {"registering", "getting", "writing"} => call[c] \in Conns
       /\ round[c] = Blocks => pc[c] = "writing"

\* A handler at work has a request; only registrations are checked for their name.
HandlersReady ==
    \A k \in Conns :
       /\ serving[k] \in {"start", "vacant"} => conn[k] \in Requests
       /\ serving[k] = "vacant" => conn[k].cmd = "register"

Typed == ServiceTypeOK /\ ClientsReady /\ HandlersReady

\* A client has a connection as long as it waits, nobody else has it, and it is there.
Calls ==
    \A c \in Clients :
       /\ call[c] # None <=> pc[c] \in {"registering", "getting", "writing"}
       /\ \A d \in Clients : call[c] # None /\ call[d] = call[c] => d = c
       /\ call[c] # None => conn[call[c]] # None /\ serving[call[c]] # "idle"

\* A connection that the server has closed is kept for its client; the others carry
\* nothing yet.
Ends ==
    \A k \in Conns :
       /\ conn[k] = None => serving[k] = "idle"
       /\ serving[k] = "closed" => Read(k)
       /\ serving[k] # "closed" => answer[k] = None /\ wire[k] = <<>>

\* As many blocks as the text has are all its blocks.
Whole(w) ==
    /\ Len(w) <= Blocks
    /\ Len(w) = Blocks => \A n \in 1..Blocks : \E i \in 1..Blocks : w[i] = n

\* Blocks come with a header and answer a request of the text.
Fits(w, a, r) ==
    /\ Whole(w)
    /\ w # <<>> => a = "OK"
    /\ a = "OK" => r.cmd \in {"register", "text"}

Wires == \A k \in Conns : Fits(wire[k], answer[k], conn[k])

\* Only who gets a text has read blocks of it; client.py has all when it writes.
Rounds ==
    \A c \in Clients :
       /\ round[c] > 0 => pc[c] \in {"getting", "writing"}
       /\ pc[c] = "getting" => conn[call[c]].cmd # "register"
       /\ pc[c] = "writing" => /\ c \in PyClients /\ round[c] = Blocks
                               /\ Len(wire[call[c]]) = Blocks

NetInv == Typed /\ Calls /\ Ends /\ Wires /\ Rounds

\* A C client that has read a block has emptied its file.
CopyTyped ==
    /\ copy \in [Homes -> Copies \cup {None}]
    /\ \A c \in CClients : round[c] > 0 => copy[CClients] \in Copies

\* The blocks that a C client has read are where they belong, unless the answer has
\* been cut off before.
CopyInv ==
    \A c \in CClients : pc[c] = "getting" /\ round[c] > 0 =>
       LET w == wire[call[c]]
       IN /\ serving[call[c]] = "closed"
          /\ round[c] <= Len(w) => \A i \in 1..round[c] : copy[CClients][w[i]] = w[i]

\* One C client runs at a time.
OneAtATime == \A c, d \in CClients : c = d

\* The salt is on disk of every client that has looked for one and saved its own, ...
SaltKnown ==
    \A c \in Clients :
       pc[c] \notin {"off", "lookup", "save"} =>
          me[c].sig.salt = PySalt \/ Saved(me[c].user, me[c].sig.salt)

\* ... that of every request, ...
SaltSent ==
    \A k \in Conns :
       conn[k] # None => conn[k].sig.salt = PySalt \/ Saved(conn[k].user, conn[k].sig.salt)

\* ... and that of every user.
SaltInv == Typed /\ SaltKnown /\ SaltSent /\ SaltSaved

\* A user has one line, and none while a client is about to write it.
OneLine ==
    /\ \A i, j \in DOMAIN db : db[i].user = db[j].user => i = j
    /\ \A c \in Clients : pc[c] \in {"lookup", "save"} => c \in CClients
    /\ \A c \in Clients : pc[c] = "save" => Lines(me[c].user) = {}

-----------------------------------------------------------------------------
(* Types.                                                                  *)

\* An order of the blocks is a sequence of them.
LEMMA OrderIs ==
    ASSUME NEW o \in Orders
    PROVE  /\ o \in Seq(1..Blocks) /\ Len(o) = Blocks
           /\ \A n \in 1..Blocks : \E i \in 1..Blocks : o[i] = n
<1>1. Blocks \in Nat /\ o \in [1..Blocks -> 1..Blocks]
  BY BoundsAssumption DEF Orders
<1>2. o \in Seq(1..Blocks)
  BY <1>1, SeqDef
<1>3. Len(o) = Blocks
  BY <1>1, <1>2, LenProperties
<1> QED BY <1>2, <1>3 DEF Orders

\* A client connects, or goes away.
LEMMA AskTyped ==
    ASSUME Typed, NEW c \in Clients, NEW cmd \in {"register", "text", "empty", "missing"},
           NEW waiting \in {"registering", "getting"}, pc[c] \in {"register", "prompt"},
           Ask(c, cmd, waiting),
           UNCHANGED <<up, restarts, users, db, me, runs>>
    PROVE  Typed'
<1>1. PICK k \in Conns :
         /\ conn[k] = None
         /\ conn' = [conn EXCEPT ![k] = [cmd |-> cmd, user |-> me[c].user, sig |-> me[c].sig]]
         /\ call' = [call EXCEPT ![c] = k]
         /\ serving' = [serving EXCEPT ![k] = "start"]
         /\ pc' = [pc EXCEPT ![c] = waiting]
         /\ UNCHANGED <<answer, wire, round>>
  BY DEF Ask
<1>2. [cmd |-> cmd, user |-> me[c].user, sig |-> me[c].sig] \in Requests
  BY DEF Requests, Typed, ClientsReady
<1>3. ServiceTypeOK'
  BY <1>1, <1>2 DEF Typed, ServiceTypeOK
<1>4. ClientsReady'
  BY <1>1 DEF Typed, ServiceTypeOK, ClientsReady
<1>5. HandlersReady'
  BY <1>1, <1>2 DEF Typed, ServiceTypeOK, HandlersReady
<1> QED BY <1>3, <1>4, <1>5 DEF Typed

\* A client goes away with its answer, or without one.
LEMMA HangUpTyped ==
    ASSUME Typed, NEW c \in Clients, NEW next \in {"off", "prompt"}, pc[c] # "off",
           HangUp(c, next),
           UNCHANGED <<up, restarts, users, db, me, runs>>
    PROVE  Typed'
<1>1. ServiceTypeOK'
  <2>1. 0 \in 0..Blocks /\ <<>> \in Seq(1..Blocks)
    BY BoundsAssumption, EmptySeq
  <2>2. wire' \in [Conns -> Seq(1..Blocks)] /\ round' \in [Clients -> 0..Blocks]
    BY <2>1 DEF HangUp, Typed, ServiceTypeOK
  <2>3. /\ conn' \in [Conns -> Requests \cup {None}]
        /\ answer' \in [Conns -> Answers \cup {None}]
        /\ serving' \in [Conns -> {"idle", "start", "vacant", "closed"}]
    BY DEF HangUp, Typed, ServiceTypeOK
  <2> QED BY <2>2, <2>3 DEF HangUp, Typed, ServiceTypeOK
<1>2. ClientsReady'
  BY NoneAssumption, BoundsAssumption DEF HangUp, Typed, ServiceTypeOK, ClientsReady
<1>3. HandlersReady'
  BY DEF HangUp, Typed, ServiceTypeOK, HandlersReady
<1> QED BY <1>1, <1>2, <1>3 DEF Typed

\* A handler answers.
LEMMA RespondTyped ==
    ASSUME Typed, NEW k \in Conns, NEW a \in Answers \cup {None},
           NEW w \in Seq(1..Blocks), Respond(k, a, w),
           users' \in [Users -> Signatures \cup {None}],
           UNCHANGED <<up, restarts, db, pc, me, runs>>
    PROVE  Typed'
<1>1. ServiceTypeOK'
  BY DEF Respond, Typed, ServiceTypeOK
<1>2. ClientsReady'
  BY DEF Respond, Typed, ClientsReady
<1>3. HandlersReady'
  BY DEF Respond, Typed, ServiceTypeOK, HandlersReady
<1> QED BY <1>1, <1>2, <1>3 DEF Typed

\* The program of a client takes a step.
LEMMA ClientTyped ==
    ASSUME Typed, NEW c \in Clients, Start(c) \/ Client(c) \/ Get(c) \/ Quit(c)
    PROVE  Typed'
<1>1. CASE Start(c)
  <2>1. PICK u \in Users, w \in Passwords, s \in Salts :
           IF c \in CClients
           THEN /\ u # Anonymous
                /\ me' = [me EXCEPT ![c] = [user |-> u, sig |-> [pw |-> w, salt |-> s]]]
                /\ pc' = [pc EXCEPT ![c] = "lookup"]
           ELSE /\ me' = [me EXCEPT ![c] = [user |-> u, sig |-> [pw |-> w, salt |-> PySalt]]]
                /\ pc' = [pc EXCEPT ![c] = "register"]
    BY <1>1 DEF Start, net
  <2>2. /\ [user |-> u, sig |-> [pw |-> w, salt |-> s]] \in [user : Users, sig : Signatures]
        /\ [user |-> u, sig |-> [pw |-> w, salt |-> PySalt]] \in [user : Users, sig : Signatures]
    BY DEF Signatures
  <2>3. ServiceTypeOK'
    <3>1. runs' \in [Clients -> Nat]
      BY <1>1 DEF Start, net, Typed, ServiceTypeOK
    <3>2. me' \in [Clients -> [user : Users, sig : Signatures] \cup {Nobody}]
      BY <2>1, <2>2 DEF Typed, ServiceTypeOK
    <3>3. pc' \in [Clients -> {"off", "lookup", "save", "register", "registering",
                              "prompt", "getting", "writing"}]
      BY <2>1 DEF Typed, ServiceTypeOK
    <3> QED BY <1>1, <3>1, <3>2, <3>3 DEF Start, net, Typed, ServiceTypeOK
  <2>4. ClientsReady'
    BY <1>1, <2>1, <2>2 DEF Start, net, Typed, ServiceTypeOK, ClientsReady
  <2>5. HandlersReady'
    BY <1>1 DEF Start, net, Typed, HandlersReady
  <2> QED BY <2>3, <2>4, <2>5 DEF Typed
<1>2. CASE LookUp(c)
  <2>1. CASE /\ Lines(me[c].user) = {}
             /\ pc' = [pc EXCEPT ![c] = "save"]
             /\ UNCHANGED me
    BY <1>2, <2>1 DEF LookUp, net, Typed, ServiceTypeOK, ClientsReady, HandlersReady
  <2>2. ASSUME NEW i \in Lines(me[c].user),
               me' = [me EXCEPT ![c].sig.salt = db[i].salt],
               pc' = [pc EXCEPT ![c] = "prompt"]
        PROVE  Typed'
    <3>1. me[c] \in [user : Users, sig : Signatures]
      BY <1>2 DEF LookUp, net, Typed, ClientsReady
    <3>2. db[i].salt \in Salts
      <4>1. i \in DOMAIN db /\ db \in Seq([user : Users, salt : Salts])
        BY <2>2 DEF Lines, Typed, ServiceTypeOK
      <4>2. db[i] \in [user : Users, salt : Salts]
        BY <4>1, ElementOfSeq, LenProperties
      <4> QED BY <4>2
    <3>3. [me[c] EXCEPT !.sig.salt = db[i].salt] \in [user : Users, sig : Signatures]
      BY <3>1, <3>2 DEF Signatures
    <3>4. me' = [me EXCEPT ![c] = [me[c] EXCEPT !.sig.salt = db[i].salt]]
      BY <2>2 DEF Typed, ServiceTypeOK
    <3>5. me' \in [Clients -> [user : Users, sig : Signatures] \cup {Nobody}]
          /\ me'[c] \in [user : Users, sig : Signatures]
      BY <3>3, <3>4 DEF Typed, ServiceTypeOK
    <3>6. \A d \in Clients : d # c => me'[d] = me[d]
      BY <2>2 DEF Typed, ServiceTypeOK
    <3>7. ServiceTypeOK'
      BY <1>2, <2>2, <3>5 DEF LookUp, net, Typed, ServiceTypeOK
    <3>8. ClientsReady'
      BY <1>2, <2>2, <3>5, <3>6 DEF LookUp, net, Typed, ServiceTypeOK, ClientsReady
    <3>9. HandlersReady'
      BY <1>2 DEF LookUp, net, Typed, HandlersReady
    <3> QED BY <3>7, <3>8, <3>9 DEF Typed
  <2> QED BY <1>2, <2>1, <2>2 DEF LookUp, net
<1>3. CASE Save(c)
  <2>1. me[c] \in [user : Users, sig : Signatures] /\ me[c].sig.salt \in Salts
    BY <1>3 DEF Save, net, Typed, ClientsReady
  <2>2. db' \in Seq([user : Users, salt : Salts])
    BY <1>3, <2>1 DEF Save, net, Typed, ServiceTypeOK
  <2> QED BY <1>3, <2>2 DEF Save, net, Typed, ServiceTypeOK, ClientsReady, HandlersReady
<1>4. ASSUME NEW cmd \in {"register", "text", "empty", "missing"},
             NEW waiting \in {"registering", "getting"}, pc[c] \in {"register", "prompt"},
             Send(c, cmd, waiting)
      PROVE  Typed'
  BY <1>4, AskTyped, HangUpTyped DEF Send
<1>5. CASE Register(c)
  BY <1>4, <1>5 DEF Register
<1>6. CASE Get(c)
  <2>1. CASE \E f \in Files : Send(c, f, "getting")
    <3>1. PICK f \in Files : Send(c, f, "getting")
      BY <2>1
    <3>2. f \in {"register", "text", "empty", "missing"}
      BY BoundsAssumption
    <3> QED BY <1>4, <1>6, <3>1, <3>2 DEF Get
  <2>2. CASE Send(c, "register", "registering")
    BY <1>4, <1>6, <2>2 DEF Get
  <2> QED BY <1>6, <2>1, <2>2 DEF Get
<1>7. CASE Receive(c)
  BY <1>7, HangUpTyped DEF Receive
<1>8. CASE Eof(c)
  BY <1>8, HangUpTyped DEF Eof, Typed, ServiceTypeOK
<1>9. CASE Quit(c)
  BY <1>9, HangUpTyped DEF Quit, Typed, ServiceTypeOK
<1>10. CASE CStore(c)
  <2>1. CASE HangUp(c, "prompt")
    BY <1>10, <2>1, HangUpTyped DEF CStore, Getting
  <2>2. CASE /\ round[c] + 1 # Blocks
             /\ round' = [round EXCEPT ![c] = round[c] + 1]
             /\ UNCHANGED <<pc, call, conn, serving, answer, wire>>
    <3>1. round' \in [Clients -> 0..Blocks]
      <4>1. round[c] \in 0..Blocks /\ round[c] + 1 \in Nat /\ Blocks \in Nat
        BY BoundsAssumption DEF Typed, ServiceTypeOK
      <4>2. round[c] # Blocks
        BY <1>10 DEF CStore, Getting, Typed, ClientsReady
      <4>3. round[c] + 1 \in 0..Blocks
        BY <4>1, <4>2
      <4> QED BY <2>2, <4>3 DEF Typed, ServiceTypeOK
    <3> QED BY <1>10, <2>2, <3>1 DEF CStore, Typed, ServiceTypeOK, ClientsReady, HandlersReady
  <2> QED BY <1>10, <2>1, <2>2 DEF CStore
<1>11. CASE PyOpen(c)
  <2>1. round' \in [Clients -> 0..Blocks] /\ pc' = [pc EXCEPT ![c] = "writing"]
    BY <1>11, BoundsAssumption DEF PyOpen, Typed, ServiceTypeOK
  <2> QED BY <1>11, <2>1 DEF PyOpen, Getting, Typed, ServiceTypeOK, ClientsReady, HandlersReady
<1>12. CASE PyWrite(c)
  BY <1>12, HangUpTyped DEF PyWrite
<1>13. CASE PyGiveUp(c)
  BY <1>13, HangUpTyped DEF PyGiveUp, Getting
<1> QED BY <1>1, <1>2, <1>3, <1>5, <1>6, <1>7, <1>8, <1>9, <1>10, <1>11, <1>12, <1>13 DEF Client

\* A thread of the server takes a step.
LEMMA HandlerTyped ==
    ASSUME Typed, NEW k \in Conns, Handler(k)
    PROVE  Typed'
<1>1. CASE CheckName(k)
  <2>1. CASE /\ serving' = [serving EXCEPT ![k] = "vacant"]
             /\ UNCHANGED <<call, conn, answer, wire, round>>
    BY <1>1, <2>1 DEF CheckName, Typed, ServiceTypeOK, ClientsReady, HandlersReady
  <2>2. ASSUME NEW a \in {"BAD_REQUEST", "EXISTS"}, Respond(k, a, <<>>)
        PROVE  Typed'
    BY <1>1, <2>2, RespondTyped, EmptySeq DEF CheckName, Typed, ServiceTypeOK, Answers
  <2> QED BY <1>1, <2>1, <2>2 DEF CheckName
<1>2. CASE Enter(k)
  <2>1. conn[k] \in Requests
    BY <1>2 DEF Enter, Typed, HandlersReady
  <2>2. users' \in [Users -> Signatures \cup {None}]
    BY <1>2, <2>1 DEF Enter, Typed, ServiceTypeOK, Requests
  <2> QED BY <1>2, <2>2, RespondTyped, EmptySeq DEF Enter, Answers
<1>3. CASE Serve(k)
  <2>1. ASSUME NEW a \in Answers \cup {None}, NEW w \in Seq(1..Blocks), Respond(k, a, w)
        PROVE  Typed'
    BY <1>3, <2>1, RespondTyped DEF Serve, Typed, ServiceTypeOK
  <2>2. PICK a \in Answers \cup {None}, w \in Orders \cup {<<>>} : Respond(k, a, w)
    BY <1>3 DEF Serve, Served, Answers
  <2>3. w \in Seq(1..Blocks)
    BY OrderIs, EmptySeq
  <2> QED BY <2>1, <2>2, <2>3
<1> QED BY <1>1, <1>2, <1>3 DEF Handler

\* Blocks are lost; the server stops and starts.
LEMMA ServerTyped ==
    ASSUME Typed, Stop \/ StartServer \/ \E k \in Conns : Cut(k)
    PROVE  Typed'
<1>1. CASE Stop
  <2>1. ServiceTypeOK'
    <3>1. up' \in BOOLEAN /\ restarts' \in Nat
      <4>1. restarts \in Nat /\ restarts > 0 /\ restarts' = restarts - 1 /\ up' = FALSE
        BY <1>1 DEF Stop, Typed, ServiceTypeOK
      <4>2. restarts' \in Nat
        BY <4>1
      <4> QED BY <4>1, <4>2
    <3>2. users' \in [Users -> Signatures \cup {None}]
      BY <1>1 DEF Stop
    <3>3. serving' \in [Conns -> {"idle", "start", "vacant", "closed"}]
      BY <1>1 DEF Stop
    <3>4. conn' \in [Conns -> Requests \cup {None}]
      BY <1>1 DEF Stop, Typed, ServiceTypeOK
    <3> QED BY <1>1, <3>1, <3>2, <3>3, <3>4 DEF Stop, Typed, ServiceTypeOK
  <2>2. ClientsReady'
    BY <1>1 DEF Stop, Typed, ClientsReady
  <2>3. HandlersReady'
    BY <1>1 DEF Stop, Typed, ServiceTypeOK, HandlersReady
  <2> QED BY <2>1, <2>2, <2>3 DEF Typed
<1>2. CASE StartServer
  BY <1>2 DEF StartServer, net, Typed, ServiceTypeOK, ClientsReady, HandlersReady
<1>3. ASSUME NEW k \in Conns, Cut(k) PROVE Typed'
  <2>1. PICK m \in 0..Blocks : /\ m < Len(wire[k]) \/ m = 0
                               /\ wire' = [wire EXCEPT ![k] = SubSeq(@, 1, m)]
                               /\ answer' = IF m = 0 THEN [answer EXCEPT ![k] = None]
                                            ELSE answer
    BY <1>3 DEF Cut
  <2>2. wire[k] \in Seq(1..Blocks) /\ m \in Int /\ 1 \in Int
    BY BoundsAssumption DEF Typed, ServiceTypeOK
  <2>3. \A i \in 1..m : wire[k][i] \in 1..Blocks
    <3>1. \A i \in 1..m : i \in 1..Len(wire[k])
      BY <2>1, <2>2, LenProperties
    <3> QED BY <2>2, <3>1, ElementOfSeq
  <2>4. SubSeq(wire[k], 1, m) \in Seq(1..Blocks)
    BY <2>2, <2>3, SubSeqProperties
  <2>5. /\ wire' \in [Conns -> Seq(1..Blocks)] /\ answer' \in [Conns -> Answers \cup {None}]
        /\ UNCHANGED <<up, restarts, users, db, pc, me, runs, call, conn, serving, round>>
    BY <1>3, <2>1, <2>4 DEF Cut, Typed, ServiceTypeOK
  <2> QED BY <2>5 DEF Typed, ServiceTypeOK, ClientsReady, HandlersReady
<1> QED BY <1>1, <1>2, <1>3

\* The first state has its types.
LEMMA InitTyped == Init => Typed
<1> SUFFICES ASSUME Init PROVE Typed
  OBVIOUS
<1>1. wire \in [Conns -> Seq(1..Blocks)] /\ round \in [Clients -> 0..Blocks]
  BY BoundsAssumption, EmptySeq DEF Init
<1> QED BY <1>1, BoundsAssumption, NoneAssumption
        DEF Init, Typed, ServiceTypeOK, ClientsReady, HandlersReady, Nobody

\* Every step keeps the types.
LEMMA NextTyped == Typed /\ [Next]_vars => Typed'
<1> SUFFICES ASSUME Typed, [Next]_vars PROVE Typed'
  OBVIOUS
<1>1. CASE UNCHANGED vars
  BY <1>1 DEF vars, net, Typed, ServiceTypeOK, ClientsReady, HandlersReady
<1> QED BY <1>1, ClientTyped, HandlerTyped, ServerTyped DEF Next

-----------------------------------------------------------------------------
(* Connections.                                                            *)

\* Before the answer there is nothing on the wire.
LEMMA NothingFits == \A r : Fits(<<>>, None, r)
BY BoundsAssumption, NoneAssumption DEF Fits, Whole, Answers

\* A client connects.
LEMMA AskNet ==
    ASSUME NetInv, Typed', NEW c \in Clients,
           NEW cmd, NEW waiting \in {"registering", "getting"},
           waiting = "getting" => cmd # "register",
           pc[c] \in {"register", "prompt"}, Ask(c, cmd, waiting)
    PROVE  NetInv'
<1>1. PICK k \in Conns :
         /\ conn[k] = None
         /\ conn' = [conn EXCEPT ![k] = [cmd |-> cmd, user |-> me[c].user, sig |-> me[c].sig]]
         /\ call' = [call EXCEPT ![c] = k]
         /\ serving' = [serving EXCEPT ![k] = "start"]
         /\ pc' = [pc EXCEPT ![c] = waiting]
         /\ UNCHANGED <<answer, wire, round>>
  BY DEF Ask
<1>2. /\ conn'[k].cmd = cmd /\ call'[c] = k /\ serving'[k] = "start" /\ pc'[c] = waiting
      /\ \A j \in Conns : j # k => conn'[j] = conn[j] /\ serving'[j] = serving[j]
      /\ \A d \in Clients : d # c => call'[d] = call[d] /\ pc'[d] = pc[d]
  BY <1>1 DEF NetInv, Typed, ServiceTypeOK
<1>3. conn'[k] # None /\ k # None /\ k \in Conns
  <2>1. conn'[k] \in Requests
    BY <1>2 DEF Typed, HandlersReady
  <2> QED BY <2>1, NoneAssumption
<1>4. serving[k] = "idle" /\ answer[k] = None /\ wire[k] = <<>>
  BY <1>1 DEF NetInv, Ends
<1>5. \A d \in Clients : call[d] # k /\ call[d] \in Conns \cup {None}
  BY <1>1, <1>3 DEF NetInv, Typed, ServiceTypeOK, Calls
<1>6. call[c] = None /\ round[c] = 0
  <2>1. ~(round[c] > 0)
    BY DEF NetInv, Rounds
  <2>2. round[c] \in 0..Blocks /\ Blocks \in Nat
    BY BoundsAssumption DEF NetInv, Typed, ServiceTypeOK
  <2>3. call[c] = None
    BY DEF NetInv, Calls
  <2> QED BY <2>1, <2>2, <2>3
<1>7. Calls'
  BY <1>2, <1>3, <1>5 DEF NetInv, Calls
<1>8. Ends'
  <2>1. \A j \in Conns : Read(j) => Read(j)'
    BY <1>2, <1>6, NoneAssumption DEF Read
  <2> QED BY <1>1, <1>2, <1>3, <1>4, <2>1 DEF NetInv, Ends
<1>9. Wires'
  <2>1. \A j \in Conns : j # k => Fits(wire'[j], answer'[j], conn'[j])
    BY <1>1, <1>2 DEF NetInv, Wires
  <2>2. Fits(wire'[k], answer'[k], conn'[k])
    BY <1>1, <1>4, NothingFits
  <2> QED BY <2>1, <2>2 DEF Wires
<1>10. Rounds'
  BY <1>1, <1>2, <1>5, <1>6, NoneAssumption DEF NetInv, Calls, Rounds
<1> QED BY <1>7, <1>8, <1>9, <1>10 DEF NetInv

\* A client closes its end.
LEMMA HangUpNet ==
    ASSUME NetInv, Typed', NEW c \in Clients, NEW next \in {"off", "prompt"},
           HangUp(c, next)
    PROVE  NetInv'
<1> DEFINE k == call[c]
<1>1. /\ call'[c] = None /\ pc'[c] = next /\ round'[c] = 0
      /\ \A d \in Clients : d # c => call'[d] = call[d] /\ pc'[d] = pc[d]
                                       /\ round'[d] = round[d]
  BY DEF HangUp, NetInv, Typed, ServiceTypeOK
<1>2. \A d \in Clients : d # c /\ call[d] # None => call[d] # k /\ call[d] \in Conns
  BY DEF NetInv, Typed, ServiceTypeOK, Calls
<1>3. \A j \in Conns : j # k =>
         /\ conn'[j] = conn[j] /\ serving'[j] = serving[j]
         /\ answer'[j] = answer[j] /\ wire'[j] = wire[j]
  BY DEF HangUp, NetInv, Typed, ServiceTypeOK
<1>4. ASSUME k \in Conns
      PROVE  \/ /\ conn'[k] = None /\ serving'[k] = "idle"
                /\ answer'[k] = None /\ wire'[k] = <<>>
             \/ /\ conn'[k] = conn[k] /\ serving'[k] = serving[k] /\ serving[k] # "closed"
                /\ answer'[k] = answer[k] /\ wire'[k] = wire[k]
  BY <1>4, NoneAssumption DEF HangUp, NetInv, Typed, ServiceTypeOK
<1>5. Calls'
  BY <1>1, <1>2, <1>3 DEF NetInv, Calls
<1>6. Ends'
  <2>1. \A j \in Conns : j # k /\ Read(j) => Read(j)'
    BY <1>1 DEF Read
  <2> QED BY <1>3, <1>4, <2>1 DEF NetInv, Ends
<1>7. Wires'
  <2>1. \A j \in Conns : j # k => Fits(wire'[j], answer'[j], conn'[j])
    BY <1>3 DEF NetInv, Wires
  <2>2. k \in Conns => Fits(wire'[k], answer'[k], conn'[k])
    BY <1>4, NothingFits DEF NetInv, Wires
  <2> QED BY <2>1, <2>2 DEF Wires
<1>8. Rounds'
  BY <1>1, <1>2, <1>3, NoneAssumption DEF NetInv, Calls, Rounds
<1> QED BY <1>5, <1>6, <1>7, <1>8 DEF NetInv

\* A handler answers.
LEMMA RespondNet ==
    ASSUME NetInv, Typed', NEW k \in Conns, NEW a, NEW w, serving[k] \in {"start", "vacant"},
           Fits(w, a, conn[k]), Respond(k, a, w), UNCHANGED pc
    PROVE  NetInv'
<1>1. UNCHANGED <<call, round>>
  BY DEF Respond
<1>2. \A j \in Conns : j # k =>
         /\ conn'[j] = conn[j] /\ serving'[j] = serving[j]
         /\ answer'[j] = answer[j] /\ wire'[j] = wire[j]
  BY DEF Respond, NetInv, Typed, ServiceTypeOK
<1>3. answer[k] = None /\ wire[k] = <<>>
  BY DEF NetInv, Ends
<1>4. \/ /\ Read(k) /\ conn'[k] = conn[k] /\ serving'[k] = "closed"
         /\ answer'[k] = a /\ wire'[k] = w
      \/ /\ ~Read(k) /\ conn'[k] = None /\ serving'[k] = "idle"
         /\ answer'[k] = None /\ wire'[k] = <<>>
  BY <1>3 DEF Respond, NetInv, Typed, ServiceTypeOK
<1>5. \A j \in Conns : Read(j)' <=> Read(j)
  BY <1>1 DEF Read
<1>6. Calls'
  BY <1>1, <1>2, <1>4 DEF NetInv, Typed, ServiceTypeOK, Calls, Read
<1>7. Ends'
  <2>1. conn[k] # None
    BY DEF NetInv, Ends
  <2> QED BY <1>2, <1>4, <1>5, <2>1 DEF NetInv, Ends
<1>8. Wires'
  <2>1. \A j \in Conns : j # k => Fits(wire'[j], answer'[j], conn'[j])
    BY <1>2 DEF NetInv, Wires
  <2>2. Fits(wire'[k], answer'[k], conn'[k])
    BY <1>4, NothingFits
  <2> QED BY <2>1, <2>2 DEF Wires
<1>9. Rounds'
  <2>1. \A c \in Clients : pc[c] \in {"getting", "writing"} => call[c] \in Conns /\ Read(call[c])
    BY DEF NetInv, Typed, ClientsReady, Read
  <2>2. \A c \in Clients : pc[c] = "writing" => call[c] # k
    <3>1. Len(<<>>) # Blocks
      BY BoundsAssumption
    <3> QED BY <1>3, <3>1 DEF NetInv, Rounds
  <2> QED BY <1>1, <1>2, <1>4, <2>1, <2>2 DEF NetInv, Rounds
<1> QED BY <1>6, <1>7, <1>8, <1>9 DEF NetInv

\* A step that leaves the connections alone.
LEMMA SameNet ==
    ASSUME NetInv, Typed', UNCHANGED <<call, conn, answer, wire, round>>,
           \A k \in Conns : serving'[k] = serving[k]
                            \/ (serving[k] = "start" /\ serving'[k] = "vacant"),
           \A c \in Clients :
              pc'[c] = pc[c] \/ {pc[c], pc'[c]} \cap {"registering", "getting", "writing"} = {}
    PROVE  NetInv'
<1>1. Calls'
  <2>1. \A c \in Clients : pc'[c] \in {"registering", "getting", "writing"}
           <=> pc[c] \in {"registering", "getting", "writing"}
    OBVIOUS
  <2>2. \A c \in Clients : call[c] # None => call[c] \in Conns
    BY DEF NetInv, Typed, ServiceTypeOK
  <2>3. \A k \in Conns : serving[k] # "idle" => serving'[k] # "idle"
    OBVIOUS
  <2> QED BY <2>1, <2>2, <2>3 DEF NetInv, Calls
<1>2. Ends'
  <2>1. \A k \in Conns : Read(k)' <=> Read(k)
    BY DEF Read
  <2> QED BY <2>1 DEF NetInv, Ends
<1>3. Wires'
  BY DEF NetInv, Wires
<1>4. Rounds'
  BY DEF NetInv, Rounds
<1> QED BY <1>1, <1>2, <1>3, <1>4 DEF NetInv

\* The program of a client keeps to its connection.
LEMMA ClientNet ==
    ASSUME NetInv, NEW c \in Clients, Start(c) \/ Client(c) \/ Get(c) \/ Quit(c)
    PROVE  NetInv'
<1>0. Typed'
  BY ClientTyped DEF NetInv
<1>1. ASSUME UNCHANGED net, pc[c] \in {"off", "lookup", "save"},
             \/ pc' = [pc EXCEPT ![c] = "lookup"] \/ pc' = [pc EXCEPT ![c] = "save"]
             \/ pc' = [pc EXCEPT ![c] = "prompt"] \/ pc' = [pc EXCEPT ![c] = "register"]
      PROVE  NetInv'
  <2>1. \A d \in Clients :
           pc'[d] = pc[d] \/ {pc[d], pc'[d]} \cap {"registering", "getting", "writing"} = {}
    BY <1>1 DEF NetInv, Typed, ServiceTypeOK
  <2> QED BY <1>0, <1>1, <2>1, SameNet DEF net
<1>2. CASE Start(c) \/ LookUp(c) \/ Save(c)
  BY <1>1, <1>2 DEF Start, LookUp, Save
<1>3. CASE Register(c)
  BY <1>0, <1>3, AskNet, HangUpNet DEF Register, Send
<1>4. CASE Get(c)
  <2>1. CASE \E f \in Files : Send(c, f, "getting")
    <3>1. PICK f \in Files : Send(c, f, "getting")
      BY <2>1
    <3>2. f # "register"
      BY BoundsAssumption
    <3> QED BY <1>0, <1>4, <3>1, <3>2, AskNet, HangUpNet DEF Get, Send
  <2>2. CASE Send(c, "register", "registering")
    BY <1>0, <1>4, <2>2, AskNet, HangUpNet DEF Get, Send
  <2> QED BY <1>4, <2>1, <2>2 DEF Get
<1>5. CASE Receive(c) \/ Eof(c) \/ Quit(c) \/ PyWrite(c) \/ PyGiveUp(c)
  BY <1>0, <1>5, HangUpNet DEF Receive, Eof, Quit, PyWrite, PyGiveUp
<1>6. CASE CStore(c)
  <2>1. CASE /\ round' = [round EXCEPT ![c] = round[c] + 1]
             /\ UNCHANGED <<pc, call, conn, serving, answer, wire>>
    <3>1. Calls' /\ Ends' /\ Wires'
      BY <2>1 DEF NetInv, Calls, Ends, Wires, Read
    <3>2. Rounds'
      BY <1>6, <2>1 DEF CStore, Getting, NetInv, Typed, ServiceTypeOK, Rounds
    <3> QED BY <1>0, <3>1, <3>2 DEF NetInv
  <2> QED BY <1>0, <1>6, <2>1, HangUpNet DEF CStore
<1>7. CASE PyOpen(c)
  <2>1. /\ pc[c] = "getting" /\ c \in PyClients /\ Len(wire[call[c]]) = Blocks
        /\ pc'[c] = "writing" /\ round'[c] = Blocks
        /\ \A d \in Clients : d # c => pc'[d] = pc[d] /\ round'[d] = round[d]
        /\ UNCHANGED <<call, conn, serving, answer, wire>>
    BY <1>7 DEF PyOpen, Getting, NetInv, Typed, ServiceTypeOK
  <2>2. Calls' /\ Ends' /\ Wires'
    BY <2>1 DEF NetInv, Calls, Ends, Wires, Read
  <2>3. Rounds'
    BY <2>1 DEF NetInv, Rounds
  <2> QED BY <1>0, <2>2, <2>3 DEF NetInv
<1> QED BY <1>2, <1>3, <1>4, <1>5, <1>6, <1>7 DEF Client

\* What a handler sends fits the request.
LEMMA HandlerNet ==
    ASSUME NetInv, NEW k \in Conns, Handler(k)
    PROVE  NetInv'
<1>0. Typed'
  BY HandlerTyped DEF NetInv
<1>1. ASSUME NEW a, a = "OK" => conn[k].cmd \in {"register", "text"}
      PROVE  Fits(<<>>, a, conn[k])
  BY <1>1, BoundsAssumption DEF Fits, Whole
<1>2. CASE CheckName(k)
  <2>1. CASE /\ serving' = [serving EXCEPT ![k] = "vacant"]
             /\ UNCHANGED <<call, conn, answer, wire, round>>
    <3>1. \A j \in Conns : serving'[j] = serving[j]
                           \/ (serving[j] = "start" /\ serving'[j] = "vacant")
      BY <1>2, <2>1 DEF CheckName, NetInv, Typed, ServiceTypeOK
    <3> QED BY <1>0, <1>2, <2>1, <3>1, SameNet DEF CheckName
  <2>2. CASE Respond(k, "BAD_REQUEST", <<>>) \/ Respond(k, "EXISTS", <<>>)
    BY <1>0, <1>1, <1>2, <2>2, RespondNet DEF CheckName
  <2> QED BY <1>2, <2>1, <2>2 DEF CheckName
<1>3. CASE Enter(k)
  <2>1. conn[k].cmd = "register"
    BY <1>3 DEF Enter, NetInv, Typed, HandlersReady
  <2> QED BY <1>0, <1>1, <1>3, <2>1, RespondNet DEF Enter
<1>4. CASE Serve(k)
  <2>1. conn[k] \in Requests /\ conn[k].cmd \in {"text", "empty", "missing"}
    BY <1>4 DEF Serve, NetInv, Typed, HandlersReady, Requests
  <2>2. ASSUME NEW o \in Orders, Respond(k, "OK", o), conn[k].cmd = "text"
        PROVE  NetInv'
    <3>1. Whole(o)
      <4>1. Len(o) = Blocks /\ \A n \in 1..Blocks : \E i \in 1..Blocks : o[i] = n
        BY OrderIs
      <4>2. Blocks <= Blocks
        BY BoundsAssumption
      <4> QED BY <4>1, <4>2 DEF Whole
    <3>2. Fits(o, "OK", conn[k])
      BY <2>2, <3>1 DEF Fits
    <3> QED BY <1>0, <1>4, <2>2, <3>2, RespondNet DEF Serve
  <2>3. ASSUME NEW a, a # "OK", Respond(k, a, <<>>)
        PROVE  NetInv'
    BY <1>0, <1>1, <1>4, <2>3, RespondNet DEF Serve
  <2>4. None # "OK"
    BY NoneAssumption DEF Answers
  <2> QED BY <1>4, <2>1, <2>2, <2>3, <2>4 DEF Serve, Served
<1> QED BY <1>2, <1>3, <1>4 DEF Handler

\* A server that stops closes the connections somebody waits on; a cut takes no block
\* that has been read.
LEMMA ServerNet ==
    ASSUME NetInv, Stop \/ StartServer \/ \E k \in Conns : Cut(k)
    PROVE  NetInv'
<1>0. Typed'
  BY ServerTyped DEF NetInv
<1>1. CASE Stop
  <2>1. /\ \A k \in Conns : serving'[k] = IF conn[k] # None /\ Read(k) THEN "closed" ELSE "idle"
        /\ \A k \in Conns : conn'[k] = IF Read(k) THEN conn[k] ELSE None
        /\ UNCHANGED <<pc, call, answer, wire, round>>
    BY <1>1 DEF Stop
  <2>2. \A k \in Conns : Read(k)' <=> Read(k)
    BY <2>1 DEF Read
  <2>3. \A c \in Clients : call[c] # None => call[c] \in Conns /\ Read(call[c])
    BY DEF NetInv, Typed, ServiceTypeOK, Read
  <2>4. Calls'
    BY <2>1, <2>3 DEF NetInv, Calls
  <2>5. Ends'
    BY <2>1, <2>2 DEF NetInv, Ends
  <2>6. Wires'
    <3>1. ASSUME NEW k \in Conns PROVE Fits(wire'[k], answer'[k], conn'[k])
      <4>1. CASE Read(k)
        BY <2>1, <4>1 DEF NetInv, Wires
      <4>2. CASE ~Read(k)
        <5>1. answer[k] = None /\ wire[k] = <<>>
          BY <4>2 DEF NetInv, Ends
        <5> QED BY <2>1, <4>2, <5>1, NothingFits
      <4> QED BY <4>1, <4>2
    <3> QED BY <3>1 DEF Wires
  <2>7. Rounds'
    BY <2>1, <2>3 DEF NetInv, Typed, ClientsReady, Rounds, Read
  <2> QED BY <1>0, <2>4, <2>5, <2>6, <2>7 DEF NetInv
<1>2. CASE StartServer
  BY <1>0, <1>2, SameNet DEF StartServer, net
<1>3. ASSUME NEW k \in Conns, Cut(k) PROVE NetInv'
  <2>1. PICK c \in Clients, m \in 0..Blocks :
           /\ call[c] = k /\ round[c] <= m
           /\ m < Len(wire[k]) \/ (m = 0 /\ answer[k] # None)
           /\ wire' = [wire EXCEPT ![k] = SubSeq(@, 1, m)]
           /\ answer' = IF m = 0 THEN [answer EXCEPT ![k] = None] ELSE answer
    BY <1>3 DEF Cut
  <2>2. UNCHANGED <<pc, call, conn, serving, round>>
    BY <1>3 DEF Cut
  <2>3. /\ m \in Nat /\ Blocks \in Nat /\ Blocks > 0
        /\ Len(wire[k]) \in Nat /\ Len(wire[k]) <= Blocks /\ wire[k] \in Seq(1..Blocks)
    BY BoundsAssumption, LenProperties DEF NetInv, Typed, ServiceTypeOK, Wires, Fits, Whole
  <2>4. wire'[k] = SubSeq(wire[k], 1, m) /\ \A j \in Conns : j # k => wire'[j] = wire[j]
    BY <2>1 DEF NetInv, Typed, ServiceTypeOK
  <2>5. Len(wire'[k]) = m /\ m < Blocks
    <3>1. Len(SubSeq(wire[k], 1, m)) = m
      BY <2>1, <2>3, SubSeqProperties
    <3> QED BY <2>1, <2>3, <2>4, <3>1
  <2>6. serving[k] = "closed"
    BY <2>1, <2>3 DEF NetInv, Ends
  <2>7. /\ \A j \in Conns : j # k => answer'[j] = answer[j]
        /\ answer'[k] = IF m = 0 THEN None ELSE answer[k]
    BY <2>1 DEF NetInv, Typed, ServiceTypeOK
  <2>8. Calls'
    BY <2>2 DEF NetInv, Calls
  <2>9. Ends'
    BY <2>2, <2>4, <2>6, <2>7 DEF NetInv, Ends, Read
  <2>10. Wires'
    <3>1. \A j \in Conns : j # k => Fits(wire'[j], answer'[j], conn'[j])
      BY <2>2, <2>4, <2>7 DEF NetInv, Wires
    <3>2. Fits(wire'[k], answer'[k], conn'[k])
      <4>1. CASE m = 0
        <5>1. wire'[k] = <<>>
          BY <2>3, <2>4, <4>1
        <5> QED BY <2>7, <4>1, <5>1, NothingFits
      <4>2. CASE m # 0
        <5>1. Whole(wire[k])'
          BY <2>3, <2>5 DEF Whole
        <5>2. wire[k] # <<>>
          BY <2>1, <2>3, <4>2
        <5>3. answer'[k] = "OK" /\ conn'[k] = conn[k] /\ conn[k].cmd \in {"register", "text"}
          BY <2>2, <2>7, <4>2, <5>2 DEF NetInv, Wires, Fits
        <5> QED BY <5>1, <5>3 DEF Fits
      <4> QED BY <4>1, <4>2
    <3> QED BY <3>1, <3>2 DEF Wires
  <2>11. Rounds'
    <3>1. \A d \in Clients : pc[d] = "writing" => call[d] # k
      <4>1. ASSUME NEW d \in Clients, pc[d] = "writing", call[d] = k PROVE FALSE
        <5>1. d = c
          BY <2>1, <4>1, NoneAssumption DEF NetInv, Calls
        <5>2. round[c] = Blocks
          BY <4>1, <5>1 DEF NetInv, Rounds
        <5> QED BY <2>1, <2>3, <2>5, <5>2
      <4> QED BY <4>1
    <3>2. \A d \in Clients : pc[d] = "writing" => call[d] \in Conns
      BY DEF NetInv, Typed, ClientsReady
    <3> QED BY <2>2, <2>4, <3>1, <3>2 DEF NetInv, Rounds
  <2> QED BY <1>0, <2>8, <2>9, <2>10, <2>11 DEF NetInv
<1> QED BY <1>1, <1>2, <1>3

\* Every step keeps to the connections.
LEMMA NextNet == NetInv /\ [Next]_vars => NetInv'
<1> SUFFICES ASSUME NetInv, [Next]_vars PROVE NetInv'
  OBVIOUS
<1>1. CASE UNCHANGED vars
  BY <1>1, NextTyped, SameNet DEF vars, net, NetInv
<1> QED BY <1>1, ClientNet, HandlerNet, ServerNet DEF Next

\* The first state has no connections.
LEMMA InitNet == Init => NetInv
<1> SUFFICES ASSUME Init PROVE NetInv
  OBVIOUS
<1>1. Typed
  BY InitTyped
<1>2. Calls /\ Ends
  BY DEF Init, Calls, Ends
<1>3. Wires
  BY NothingFits DEF Init, Wires
<1>4. Rounds
  BY DEF Init, Rounds
<1> QED BY <1>1, <1>2, <1>3, <1>4 DEF NetInv

-----------------------------------------------------------------------------
(* Copies.                                                                 *)

\* What Put writes is a copy.
LEMMA PutTyped ==
    ASSUME NetInv, CopyTyped, NEW c \in CClients, NEW n \in 1..Blocks,
           NEW d \in {Hole, Junk} \cup 1..Blocks, Put(c, n, d)
    PROVE  /\ copy' \in [Homes -> Copies \cup {None}]
           /\ copy'[CClients] \in Copies
           /\ \A h \in Homes : h # CClients => copy'[h] = copy[h]
<1> DEFINE old == IF round[c] = 0 THEN [m \in 1..Blocks |-> Hole] ELSE copy[CClients]
           new == [old EXCEPT ![n] = d]
<1>1. CClients \in Homes /\ copy \in [Homes -> Copies \cup {None}]
  BY DEF Homes, CopyTyped
<1>2. round[c] = 0 \/ round[c] > 0
  <2>1. round[c] \in 0..Blocks
    BY DEF NetInv, Typed, ServiceTypeOK, Clients
  <2> QED BY <2>1, BoundsAssumption
<1>3. old \in Copies
  BY <1>2 DEF CopyTyped, Copies
<1>4. new \in Copies
  BY <1>3 DEF Copies
<1>5. copy' = [copy EXCEPT ![CClients] = new]
  BY <1>1 DEF Put
<1> QED BY <1>1, <1>4, <1>5

\* What client.py writes is the text.
LEMMA PyWriteIs ==
    ASSUME NetInv, CopyTyped, NEW c \in Clients, PyWrite(c)
    PROVE  /\ c \in PyClients /\ {c} \in Homes
           /\ copy' = [copy EXCEPT ![{c}] = Text]
<1> DEFINE w == wire[call[c]]
           written == [n \in 1..Blocks |-> w[CHOOSE i \in DOMAIN w : w[i] = n]]
<1>1. c \in PyClients /\ Len(w) = Blocks /\ call[c] \in Conns
  BY DEF PyWrite, NetInv, Typed, ClientsReady, Rounds
<1>2. w \in Seq(1..Blocks) /\ DOMAIN w = 1..Blocks
  BY <1>1, LenProperties DEF NetInv, Typed, ServiceTypeOK
<1>3. \A n \in 1..Blocks : \E i \in 1..Blocks : w[i] = n
  BY <1>1 DEF NetInv, Wires, Fits, Whole
<1>4. \A n \in 1..Blocks : w[CHOOSE i \in DOMAIN w : w[i] = n] = n
  BY <1>2, <1>3
<1>5. written = Text
  BY <1>4 DEF Text
<1>6. copy' = [copy EXCEPT ![{c}] = written]
  BY DEF PyWrite
<1> QED BY <1>1, <1>5, <1>6 DEF Homes

\* The programs of the clients write copies.
LEMMA ClientCopies ==
    ASSUME NetInv, CopyTyped, NEW c \in Clients, Start(c) \/ Client(c) \/ Get(c) \/ Quit(c)
    PROVE  CopyTyped'
<1>0. CClients \in Homes /\ CClients \subseteq Clients
  BY DEF Homes, Clients
<1>1. ASSUME UNCHANGED copy,
             \A d \in Clients : round'[d] = round[d] \/ ~(round'[d] > 0)
      PROVE  CopyTyped'
  BY <1>0, <1>1 DEF CopyTyped
<1>2. ASSUME NEW next, HangUp(c, next)
      PROVE  \A d \in Clients : round'[d] = round[d] \/ ~(round'[d] > 0)
  BY <1>2 DEF HangUp, NetInv, Typed, ServiceTypeOK
<1>3. CASE Start(c) \/ LookUp(c) \/ Save(c)
  BY <1>1, <1>3 DEF Start, LookUp, Save, net
<1>4. ASSUME NEW cmd, NEW waiting, Send(c, cmd, waiting)
      PROVE  CopyTyped'
  BY <1>1, <1>2, <1>4 DEF Send, Ask
<1>5. CASE Register(c) \/ Get(c)
  BY <1>4, <1>5 DEF Register, Get
<1>6. CASE Receive(c) \/ Quit(c) \/ PyGiveUp(c)
  BY <1>1, <1>2, <1>6 DEF Receive, Quit, PyGiveUp
<1>7. CASE Eof(c)
  <2>1. CASE UNCHANGED copy
    BY <1>1, <1>2, <1>7, <2>1 DEF Eof
  <2>2. ASSUME NEW n \in 1..Blocks, HangUp(c, "prompt"),
               copy' = [copy EXCEPT ![CClients] =
                          [m \in 1..Blocks |-> IF m = n THEN Junk ELSE Hole]]
        PROVE  CopyTyped'
    <3>1. [m \in 1..Blocks |-> IF m = n THEN Junk ELSE Hole] \in Copies
      BY DEF Copies
    <3>2. copy' \in [Homes -> Copies \cup {None}] /\ copy'[CClients] \in Copies
      BY <1>0, <2>2, <3>1 DEF CopyTyped
    <3> QED BY <3>2 DEF CopyTyped
  <2> QED BY <1>7, <2>1, <2>2 DEF Eof
<1>8. CASE CStore(c)
  <2>1. \E n \in 1..Blocks, d \in {Hole, Junk} \cup 1..Blocks : Put(c, n, d)
    <3>1. CASE round[c] < Len(wire[call[c]])
               /\ Put(c, wire[call[c]][round[c] + 1], wire[call[c]][round[c] + 1])
      <4>1. wire[call[c]] \in Seq(1..Blocks) /\ round[c] \in 0..Blocks
        BY <1>8 DEF CStore, Getting, NetInv, Typed, ServiceTypeOK, ClientsReady
      <4>2. round[c] + 1 \in 1..Len(wire[call[c]])
        BY <3>1, <4>1, BoundsAssumption, LenProperties
      <4>3. wire[call[c]][round[c] + 1] \in 1..Blocks
        BY <4>1, <4>2, ElementOfSeq
      <4> QED BY <3>1, <4>3
    <3>2. CASE \E n \in 1..Blocks : Put(c, n, Junk)
      BY <3>2
    <3> QED BY <1>8, <3>1, <3>2 DEF CStore
  <2>2. c \in CClients
    BY <1>8 DEF CStore
  <2> QED BY <2>1, <2>2, PutTyped DEF CopyTyped
<1>9. CASE PyOpen(c)
  <2>1. [m \in 1..Blocks |-> Hole] \in Copies
    BY DEF Copies
  <2>2. c \notin CClients
    BY <1>9, ClientsAssumption DEF PyOpen
  <2>3. copy' = [copy EXCEPT ![{c}] = [m \in 1..Blocks |-> Hole]]
    BY <1>9 DEF PyOpen
  <2>4. copy' \in [Homes -> Copies \cup {None}]
    BY <2>1, <2>3 DEF CopyTyped
  <2>5. {c} # CClients
    BY <2>2
  <2>6. copy'[CClients] = copy[CClients]
    BY <1>0, <2>3, <2>5 DEF CopyTyped
  <2>7. \A d \in CClients : round'[d] = round[d]
    BY <1>0, <1>9, <2>2 DEF PyOpen, NetInv, Typed, ServiceTypeOK
  <2> QED BY <2>4, <2>6, <2>7 DEF CopyTyped
<1>10. CASE PyWrite(c)
  <2>1. c \in PyClients /\ {c} \in Homes /\ copy' = [copy EXCEPT ![{c}] = Text]
    BY <1>10, PyWriteIs
  <2>2. Text \in Copies
    BY DEF Text, Copies
  <2>3. {c} # CClients
    BY <2>1, ClientsAssumption
  <2>4. copy' \in [Homes -> Copies \cup {None}] /\ copy'[CClients] = copy[CClients]
    BY <1>0, <2>1, <2>2, <2>3 DEF CopyTyped
  <2>5. \A d \in Clients : round'[d] = round[d] \/ ~(round'[d] > 0)
    BY <1>2, <1>10 DEF PyWrite
  <2> QED BY <1>0, <2>4, <2>5 DEF CopyTyped
<1> QED BY <1>3, <1>5, <1>6, <1>7, <1>8, <1>9, <1>10 DEF Client

\* Every step writes only copies.
LEMMA NextCopies == NetInv /\ CopyTyped /\ [Next]_vars => CopyTyped'
<1> SUFFICES ASSUME NetInv, CopyTyped, [Next]_vars PROVE CopyTyped'
  OBVIOUS
<1>1. ASSUME UNCHANGED <<copy, round>>
      PROVE  CopyTyped'
  BY <1>1 DEF CopyTyped
<1>2. CASE UNCHANGED vars
  BY <1>1, <1>2 DEF vars, net
<1>3. ASSUME NEW k \in Conns, Handler(k)
      PROVE  CopyTyped'
  BY <1>1, <1>3 DEF Handler, CheckName, Enter, Serve, Respond
<1>4. CASE Stop \/ StartServer \/ \E k \in Conns : Cut(k)
  BY <1>1, <1>4 DEF Stop, StartServer, Cut, net
<1> QED BY <1>2, <1>3, <1>4, ClientCopies DEF Next

\* TypeOK: the variables of clients, server, connections and files have their types,
\* for any number of clients, connections, users, blocks and restarts.
THEOREM FileServiceTyped == Spec => []TypeOK
<1>1. Init => NetInv /\ CopyTyped
  <2>1. Init => CopyTyped
    BY DEF Init, CopyTyped, Clients
  <2> QED BY <2>1, InitNet
<1>2. NetInv /\ CopyTyped => TypeOK
  BY DEF NetInv, CopyTyped, Typed, TypeOK
<1> QED BY <1>1, <1>2, NextNet, NextCopies, PTL DEF Spec

\* A client does nothing to another one's connection.
LEMMA OthersStay ==
    ASSUME NetInv, NEW c \in Clients, NEW d \in Clients, c # d,
           Start(d) \/ Client(d) \/ Get(d) \/ Quit(d)
    PROVE  /\ pc'[c] = pc[c] /\ call'[c] = call[c] /\ round'[c] = round[c]
           /\ call[c] # None => /\ wire'[call[c]] = wire[call[c]]
                               /\ serving'[call[c]] = serving[call[c]]
<1>1. call[c] # None => /\ call[c] \in Conns /\ call[d] # call[c]
                        /\ conn[call[c]] # None
  BY DEF NetInv, Typed, ServiceTypeOK, Calls
<1>2. ASSUME NEW next, HangUp(d, next)
      PROVE  /\ pc'[c] = pc[c] /\ call'[c] = call[c] /\ round'[c] = round[c]
             /\ call[c] # None => /\ wire'[call[c]] = wire[call[c]]
                                 /\ serving'[call[c]] = serving[call[c]]
  BY <1>1, <1>2 DEF HangUp, NetInv, Typed, ServiceTypeOK
<1>3. ASSUME NEW cmd, NEW waiting, Send(d, cmd, waiting)
      PROVE  /\ pc'[c] = pc[c] /\ call'[c] = call[c] /\ round'[c] = round[c]
             /\ call[c] # None => /\ wire'[call[c]] = wire[call[c]]
                                 /\ serving'[call[c]] = serving[call[c]]
  BY <1>1, <1>2, <1>3 DEF Send, Ask, NetInv, Typed, ServiceTypeOK
<1>4. CASE Start(d) \/ LookUp(d) \/ Save(d)
  BY <1>4 DEF Start, LookUp, Save, net, NetInv, Typed, ServiceTypeOK
<1>5. CASE Register(d) \/ Get(d)
  BY <1>3, <1>5 DEF Register, Get
<1>6. CASE Receive(d) \/ Eof(d) \/ Quit(d) \/ PyWrite(d) \/ PyGiveUp(d)
  BY <1>2, <1>6 DEF Receive, Eof, Quit, PyWrite, PyGiveUp
<1>7. CASE CStore(d)
  BY <1>2, <1>7 DEF CStore, NetInv, Typed, ServiceTypeOK
<1>8. CASE PyOpen(d)
  BY <1>8 DEF PyOpen, NetInv, Typed, ServiceTypeOK
<1> QED BY <1>4, <1>5, <1>6, <1>7, <1>8 DEF Client

\* A Python client does nothing to the file of the C clients.
LEMMA PyLeavesC ==
    ASSUME NetInv, CopyTyped, NEW d \in PyClients, Start(d) \/ Client(d) \/ Get(d) \/ Quit(d)
    PROVE  copy'[CClients] = copy[CClients]
<1>1. d \in Clients /\ d \notin CClients /\ {d} # CClients /\ CClients \in Homes
  BY ClientsAssumption DEF Clients, Homes
<1>2. CASE PyOpen(d)
  BY <1>1, <1>2 DEF PyOpen, CopyTyped
<1>3. CASE PyWrite(d)
  BY <1>1, <1>3, PyWriteIs DEF CopyTyped
<1>4. CASE Start(d) \/ LookUp(d) \/ Save(d) \/ Register(d) \/ Get(d) \/ Receive(d) \/ Eof(d)
           \/ PyGiveUp(d) \/ Quit(d)
  BY <1>1, <1>4 DEF Start, LookUp, Save, Register, Get, Send, Receive, Eof, PyGiveUp, Quit
<1>5. CASE CStore(d)
  BY <1>1, <1>5 DEF CStore
<1> QED BY <1>2, <1>3, <1>4, <1>5 DEF Client

\* A C client puts the next block where it belongs and leaves the others there.
LEMMA PutKeeps ==
    ASSUME NetInv, CopyTyped, CopyInv, NEW c \in CClients, Getting(c),
           round[c] < Len(wire[call[c]]),
           Put(c, wire[call[c]][round[c] + 1], wire[call[c]][round[c] + 1])
    PROVE  \A i \in 1..(round[c] + 1) :
              copy'[CClients][wire[call[c]][i]] = wire[call[c]][i]
<1> DEFINE w == wire[call[c]]
           r == round[c]
           old == IF r = 0 THEN [m \in 1..Blocks |-> Hole] ELSE copy[CClients]
<1>1. w \in Seq(1..Blocks) /\ r \in 0..Blocks /\ c \in Clients
  BY DEF Getting, NetInv, Typed, ServiceTypeOK, ClientsReady, Clients
<1>2. Blocks \in Nat /\ Len(w) \in Nat /\ r \in Nat /\ r < Len(w)
  BY <1>1, BoundsAssumption, LenProperties
<1>3. \A i \in 1..(r + 1) : i \in 1..Len(w)
  BY <1>2
<1>4. \A i \in 1..(r + 1) : w[i] \in 1..Blocks
  BY <1>1, <1>3, ElementOfSeq
<1>5. DOMAIN old = 1..Blocks
  <2>1. r = 0 \/ r > 0
    BY <1>2
  <2>2. r > 0 => DOMAIN copy[CClients] = 1..Blocks
    BY DEF CopyTyped, Copies
  <2> QED BY <2>1, <2>2
<1>6. copy'[CClients] = [old EXCEPT ![w[r + 1]] = w[r + 1]]
  BY DEF Put, CopyTyped, Homes
<1>7. ASSUME NEW i \in 1..(r + 1)
      PROVE  copy'[CClients][w[i]] = w[i]
  <2>1. CASE w[i] = w[r + 1]
    BY <1>4, <1>5, <1>6, <2>1
  <2>2. CASE w[i] # w[r + 1]
    <3>1. i \in 1..r /\ r > 0 /\ r # 0 /\ r <= Len(w)
      <4>1. i # r + 1
        BY <2>2
      <4> QED BY <1>2, <1>7, <4>1
    <3>2. copy[CClients][w[i]] = w[i]
      BY <3>1 DEF Getting, CopyInv
    <3> QED BY <1>4, <1>5, <1>6, <2>2, <3>1, <3>2
  <2> QED BY <2>1, <2>2
<1> QED BY <1>7

\* The programs of the clients keep the blocks where they belong.
LEMMA ClientCopyInv ==
    ASSUME NetInv, CopyTyped, CopyInv, OneAtATime, NEW d \in Clients,
           Start(d) \/ Client(d) \/ Get(d) \/ Quit(d)
    PROVE  CopyInv'
<1>0. CClients \subseteq Clients
  BY DEF Clients
<1>1. CASE d \notin CClients
  <2>1. d \in PyClients
    BY <1>1 DEF Clients
  <2>2. copy'[CClients] = copy[CClients]
    BY <2>1, PyLeavesC
  <2>3. \A c \in CClients : pc[c] = "getting" => call[c] # None
    BY <1>0 DEF NetInv, Calls
  <2>4. \A c \in CClients : c # d
    BY <1>1
  <2> QED BY <1>0, <2>2, <2>3, <2>4, OthersStay DEF CopyInv
<1>2. CASE d \in CClients
  <2>0. \A c \in CClients : c = d
    BY <1>2 DEF OneAtATime
  <2>1. ASSUME pc'[d] # "getting" \/ ~(round'[d] > 0)
        PROVE  CopyInv'
    BY <2>0, <2>1 DEF CopyInv
  <2>2. ASSUME NEW next \in {"off", "prompt"}, HangUp(d, next)
        PROVE  CopyInv'
    BY <2>1, <2>2 DEF HangUp, NetInv, Typed, ServiceTypeOK
  <2>3. ASSUME NEW cmd, NEW waiting, Send(d, cmd, waiting),
               pc[d] \in {"register", "prompt"}
        PROVE  CopyInv'
    <3>1. CASE HangUp(d, "off")
      BY <2>2, <3>1
    <3>2. CASE Ask(d, cmd, waiting)
      BY <2>1, <2>3, <3>2 DEF Ask, NetInv, Rounds
    <3> QED BY <2>3, <3>1, <3>2 DEF Send
  <2>4. CASE Start(d) \/ LookUp(d) \/ Save(d)
    BY <2>1, <2>4 DEF Start, LookUp, Save, NetInv, Typed, ServiceTypeOK
  <2>5. CASE Register(d) \/ Get(d)
    BY <2>3, <2>5 DEF Register, Get
  <2>6. CASE Receive(d) \/ Eof(d) \/ Quit(d) \/ PyWrite(d) \/ PyGiveUp(d)
    BY <2>2, <2>6 DEF Receive, Eof, Quit, PyWrite, PyGiveUp
  <2>7. CASE PyOpen(d)
    BY <1>2, <2>7, ClientsAssumption DEF PyOpen
  <2>8. CASE CStore(d)
    <3>1. CASE HangUp(d, "prompt")
      BY <2>2, <3>1
    <3>2. CASE /\ round' = [round EXCEPT ![d] = round[d] + 1]
               /\ UNCHANGED <<pc, call, conn, serving, answer, wire>>
      <4>1. round'[d] = round[d] + 1 /\ call[d] \in Conns
        BY <2>8, <3>2 DEF CStore, Getting, NetInv, Typed, ServiceTypeOK, ClientsReady
      <4>2. serving[call[d]] = "closed"
        BY <2>8, <4>1, NoneAssumption DEF CStore, Getting, NetInv, Ends, Answers
      <4>3. CASE /\ round[d] < Len(wire[call[d]])
                 /\ Put(d, wire[call[d]][round[d] + 1], wire[call[d]][round[d] + 1])
        <5>1. \A i \in 1..(round[d] + 1) :
                 copy'[CClients][wire[call[d]][i]] = wire[call[d]][i]
          BY <1>2, <2>8, <4>3, PutKeeps DEF CStore
        <5> QED BY <2>0, <3>2, <4>1, <4>2, <5>1 DEF CopyInv
      <4>4. CASE round[d] >= Len(wire[call[d]])
        <5>1. round[d] \in Nat /\ Len(wire[call[d]]) \in Nat
          <6>1. round[d] \in 0..Blocks /\ wire[call[d]] \in Seq(1..Blocks)
            BY <4>1 DEF NetInv, Typed, ServiceTypeOK
          <6> QED BY <6>1, LenProperties
        <5>2. ~(round'[d] <= Len(wire'[call'[d]]))
          BY <3>2, <4>1, <4>4, <5>1
        <5> QED BY <2>0, <3>2, <4>2, <5>2 DEF CopyInv
      <4> QED BY <2>8, <4>3, <4>4 DEF CStore
    <3> QED BY <2>8, <3>1, <3>2 DEF CStore
  <2> QED BY <2>4, <2>5, <2>6, <2>7, <2>8 DEF Client
<1> QED BY <1>1, <1>2

\* The server answers before a block is read, and a cut leaves the blocks that were.
LEMMA ServerCopyInv ==
    ASSUME NetInv, CopyInv, Stop \/ StartServer \/ \E k \in Conns : Handler(k) \/ Cut(k)
    PROVE  CopyInv'
<1>1. \A c \in CClients : pc[c] = "getting" => call[c] \in Conns /\ Read(call[c])
                                               /\ conn[call[c]] # None
  BY NoneAssumption DEF NetInv, Typed, ClientsReady, Calls, Read, Clients
<1>2. ASSUME UNCHANGED <<pc, call, wire, round, copy>>,
             \A k \in Conns : conn[k] # None /\ Read(k) /\ serving[k] = "closed"
                              => serving'[k] = "closed"
      PROVE  CopyInv'
  BY <1>1, <1>2 DEF CopyInv
<1>3. CASE Stop \/ StartServer
  BY <1>2, <1>3 DEF Stop, StartServer, net
<1>4. ASSUME NEW k \in Conns, Handler(k)
      PROVE  CopyInv'
  <2>1. /\ UNCHANGED <<pc, call, round, copy>> /\ serving[k] # "closed"
        /\ \A j \in Conns : j # k => wire'[j] = wire[j] /\ serving'[j] = serving[j]
    BY <1>4 DEF Handler, CheckName, Enter, Serve, Respond, NetInv, Typed, ServiceTypeOK
  <2>2. \A c \in CClients : pc[c] = "getting" /\ round[c] > 0 => call[c] # k
    BY <2>1 DEF CopyInv
  <2> QED BY <1>1, <2>1, <2>2 DEF CopyInv
<1>5. ASSUME NEW k \in Conns, Cut(k)
      PROVE  CopyInv'
  <2>1. PICK c \in Clients, m \in 0..Blocks :
           /\ call[c] = k /\ round[c] <= m
           /\ m < Len(wire[k]) \/ m = 0
           /\ wire' = [wire EXCEPT ![k] = SubSeq(@, 1, m)]
    BY <1>5 DEF Cut
  <2>2. UNCHANGED <<pc, call, serving, round, copy>>
    BY <1>5 DEF Cut
  <2>3. /\ wire[k] \in Seq(1..Blocks) /\ wire'[k] = SubSeq(wire[k], 1, m)
        /\ \A j \in Conns : j # k => wire'[j] = wire[j]
    BY <2>1 DEF NetInv, Typed, ServiceTypeOK
  <2>4. m \in Nat /\ Len(wire[k]) \in Nat
    BY <2>3, BoundsAssumption, LenProperties
  <2>5. \A i \in 1..m : wire'[k][i] = wire[k][i]
    BY <2>1, <2>3, <2>4, SubSeqProperties
  <2>6. ASSUME NEW d \in CClients, pc[d] = "getting", round[d] > 0
        PROVE  LET w == wire'[call[d]]
               IN round[d] <= Len(w) => \A i \in 1..round[d] : copy[CClients][w[i]] = w[i]
    <3>1. CASE call[d] # k
      BY <1>1, <2>3, <2>6, <3>1 DEF CopyInv
    <3>2. CASE call[d] = k
      <4>1. d = c
        BY <2>1, <3>2, NoneAssumption DEF NetInv, Calls, Clients
      <4>2. round[d] \in Nat
        BY <4>1, BoundsAssumption DEF NetInv, Typed, ServiceTypeOK
      <4>3. round[d] <= m /\ round[d] <= Len(wire[k])
        BY <2>1, <2>4, <4>1, <4>2
      <4>4. \A i \in 1..round[d] : i \in 1..m
        BY <2>4, <4>2, <4>3
      <4>5. \A i \in 1..round[d] : copy[CClients][wire[k][i]] = wire[k][i]
        BY <2>6, <3>2, <4>3 DEF CopyInv
      <4> QED BY <2>5, <3>2, <4>4, <4>5
    <3> QED BY <3>1, <3>2
  <2> QED BY <2>2, <2>6 DEF CopyInv
<1> QED BY <1>3, <1>4, <1>5

\* A client that goes on has the text.
LEMMA ClientCopiedTruly ==
    ASSUME NetInv, CopyTyped, CopyInv, NEW c \in Clients,
           Start(c) \/ Client(c) \/ Get(c) \/ Quit(c)
    PROVE  CopiedTruly(c)
<1> SUFFICES ASSUME pc[c] \in {"getting", "writing"}, pc'[c] = "prompt"
             PROVE  CopiedTruly(c)
  BY DEF CopiedTruly
<1>1. call[c] \in Conns
  BY DEF NetInv, Typed, ClientsReady
<1>2. ASSUME NEW next, HangUp(c, next) PROVE pc'[c] = next
  BY <1>2 DEF HangUp, NetInv, Typed, ServiceTypeOK
<1>3. CASE Start(c) \/ LookUp(c) \/ Save(c) \/ Register(c) \/ Get(c)
  BY <1>3 DEF Start, LookUp, Save, Register, Get
<1>4. CASE Quit(c)
  BY <1>2, <1>4 DEF Quit
<1>5. CASE Receive(c)
  BY <1>5 DEF Receive, CopiedTruly
<1>6. CASE PyGiveUp(c)
  BY <1>6 DEF PyGiveUp, CopiedTruly, Clients
<1>7. CASE Eof(c)
  <2>1. answer[call[c]] = None /\ None # "OK"
    BY <1>7, NoneAssumption DEF Eof, Answers
  <2>2. Len(wire[call[c]]) < Blocks
    BY <1>1, <2>1, BoundsAssumption DEF NetInv, Wires, Fits
  <2> QED BY <1>2, <1>7, <2>1, <2>2 DEF Eof, CopiedTruly
<1>8. CASE PyOpen(c)
  BY <1>8 DEF PyOpen, NetInv, Typed, ServiceTypeOK
<1>9. CASE PyWrite(c)
  <2>1. c \in PyClients /\ {c} \in Homes /\ copy' = [copy EXCEPT ![{c}] = Text]
    BY <1>9, PyWriteIs
  <2>2. copy'[{c}] = Text /\ c \notin CClients
    BY <2>1, ClientsAssumption DEF CopyTyped
  <2>3. answer[call[c]] = "OK"
    <3>1. Len(wire[call[c]]) = Blocks
      BY <1>9 DEF PyWrite, NetInv, Rounds
    <3>2. wire[call[c]] # <<>>
      BY <3>1, BoundsAssumption
    <3> QED BY <1>1, <3>2 DEF NetInv, Wires, Fits
  <2> QED BY <2>2, <2>3 DEF CopiedTruly
<1>10. CASE CStore(c)
  <2> DEFINE w == wire[call[c]]
             r == round[c]
  <2>1. c \in CClients /\ Getting(c) /\ answer[call[c]] = "OK"
    BY <1>10 DEF CStore, Getting
  <2>2. conn[call[c]].cmd = "text"
    <3>1. conn[call[c]].cmd # "register"
      BY <2>1 DEF Getting, NetInv, Rounds
    <3> QED BY <1>1, <2>1, <3>1 DEF NetInv, Wires, Fits
  <2>3. r + 1 = Blocks
    BY <1>10, <2>1 DEF CStore, Getting
  <2>4. /\ r \in Nat /\ Len(w) \in Nat /\ Blocks \in Nat /\ Len(w) <= Blocks
    <3>1. r \in 0..Blocks /\ w \in Seq(1..Blocks) /\ Len(w) <= Blocks
      BY <1>1 DEF NetInv, Typed, ServiceTypeOK, Wires, Fits, Whole
    <3> QED BY <3>1, BoundsAssumption, LenProperties
  <2>5. CASE r >= Len(w)
    <3>1. Len(w) < Blocks
      BY <2>3, <2>4, <2>5
    <3> QED BY <2>1, <2>2, <3>1 DEF CopiedTruly
  <2>6. CASE r < Len(w) /\ Put(c, w[r + 1], w[r + 1])
    <3>1. \A i \in 1..(r + 1) : copy'[CClients][w[i]] = w[i]
      BY <2>1, <2>6, PutKeeps
    <3>2. Len(w) = Blocks
      BY <2>3, <2>4, <2>6
    <3>3. \A n \in 1..Blocks : \E i \in 1..Blocks : w[i] = n
      BY <1>1, <3>2 DEF NetInv, Wires, Fits, Whole
    <3>4. \A n \in 1..Blocks : copy'[CClients][n] = n
      BY <2>3, <3>1, <3>3
    <3>5. copy'[CClients] \in Copies
      <4>1. w \in Seq(1..Blocks) /\ r + 1 \in 1..Len(w)
        <5>1. w \in Seq(1..Blocks)
          BY <1>1 DEF NetInv, Typed, ServiceTypeOK
        <5> QED BY <2>4, <2>6, <5>1
      <4>2. w[r + 1] \in 1..Blocks
        BY <4>1, ElementOfSeq
      <4> QED BY <2>1, <2>6, <4>2, PutTyped
    <3>6. copy'[CClients] = Text
      BY <3>4, <3>5 DEF Copies, Text
    <3> QED BY <2>1, <3>6 DEF CopiedTruly
  <2> QED BY <1>10, <2>5, <2>6 DEF CStore
<1> QED BY <1>3, <1>4, <1>5, <1>6, <1>7, <1>8, <1>9, <1>10 DEF Client

\* Every step keeps the blocks where they belong and ends a transfer truly.
LEMMA NextCopyInv ==
    NetInv /\ CopyTyped /\ CopyInv /\ OneAtATime /\ [Next]_vars
    => CopyInv' /\ [\A c \in Clients : CopiedTruly(c)]_vars
<1> SUFFICES ASSUME NetInv, CopyTyped, CopyInv, OneAtATime, [Next]_vars
             PROVE  CopyInv' /\ [\A c \in Clients : CopiedTruly(c)]_vars
  OBVIOUS
<1>1. CASE UNCHANGED vars
  BY <1>1 DEF vars, net, CopyInv
<1>2. ASSUME NEW d \in Clients, Start(d) \/ Client(d) \/ Get(d) \/ Quit(d)
      PROVE  CopyInv' /\ \A c \in Clients : CopiedTruly(c)
  <2>1. \A c \in Clients : c # d => pc'[c] = pc[c]
    BY <1>2, OthersStay
  <2>2. \A c \in Clients : c # d => CopiedTruly(c)
    BY <2>1 DEF CopiedTruly
  <2> QED BY <1>2, <2>2, ClientCopyInv, ClientCopiedTruly
<1>3. CASE Stop \/ StartServer \/ \E k \in Conns : Handler(k) \/ Cut(k)
  <2>1. UNCHANGED pc
    BY <1>3 DEF Stop, StartServer, Handler, CheckName, Enter, Serve, Cut
  <2>2. \A c \in Clients : CopiedTruly(c)
    BY <2>1 DEF CopiedTruly
  <2> QED BY <1>3, <2>2, ServerCopyInv
<1> QED BY <1>1, <1>2, <1>3 DEF Next

\* CopyTrue: one C client at a time, and any number of Python clients, have the whole
\* text when they prompt again, unless a C client was cut off.
THEOREM TextIsWhole == OneAtATime => (Spec => CopyTrue)
<1> SUFFICES ASSUME OneAtATime PROVE Spec => CopyTrue
  OBVIOUS
<1>1. Init => NetInv /\ CopyTyped /\ CopyInv
  <2>1. Init => CopyTyped /\ CopyInv
    BY DEF Init, CopyTyped, CopyInv, Clients
  <2> QED BY <2>1, InitNet
<1>2. NetInv /\ CopyTyped /\ CopyInv /\ [Next]_vars
      => CopyInv' /\ [\A c \in Clients : CopiedTruly(c)]_vars
  BY NextCopyInv
<1> QED BY <1>1, <1>2, NextNet, NextCopies, PTL DEF Spec, CopyTrue

-----------------------------------------------------------------------------
(* Salts.                                                                  *)

\* Lines of database.txt stay.
LEMMA SavedStays ==
    ASSUME Typed, NEW c \in Clients, Save(c), NEW u, NEW s, Saved(u, s)
    PROVE  Saved(u, s)'
<1>1. PICK i \in DOMAIN db : db[i] = [user |-> u, salt |-> s]
  BY DEF Saved
<1>2. me[c].user \in Users /\ me[c].sig.salt \in Salts
  BY DEF Save, net, Typed, ClientsReady
<1>3. [user |-> me[c].user, salt |-> me[c].sig.salt] \in [user : Users, salt : Salts]
  BY <1>2
<1>4. db \in Seq([user : Users, salt : Salts])
  BY DEF Typed, ServiceTypeOK
<1>5. i \in DOMAIN db' /\ db'[i] = db[i]
  BY <1>1, <1>3, <1>4, AppendProperties, LenProperties DEF Save, net
<1> QED BY <1>1, <1>5 DEF Saved

\* The line a client appends is there.
LEMMA SaveSaves ==
    ASSUME Typed, NEW c \in Clients, Save(c)
    PROVE  Saved(me[c].user, me[c].sig.salt)'
<1> DEFINE line == [user |-> me[c].user, salt |-> me[c].sig.salt]
<1>1. line \in [user : Users, salt : Salts]
  BY DEF Save, net, Typed, ClientsReady
<1>2. db \in Seq([user : Users, salt : Salts])
  BY DEF Typed, ServiceTypeOK
<1>3. Len(db') \in DOMAIN db' /\ db'[Len(db')] = line
  BY <1>1, <1>2, AppendProperties, LenProperties DEF Save, net
<1> QED BY <1>3 DEF Save, net, Saved

\* A step that leaves database.txt alone, registers nobody and makes no salt known
\* or sent that was not.
LEMMA NothingNew ==
    ASSUME SaltInv, Typed', UNCHANGED db,
           \A u \in Users : users'[u] = users[u] \/ users'[u] = None,
           \A k \in Conns : \/ conn'[k] = conn[k] \/ conn'[k] = None
                            \/ conn'[k].sig.salt = PySalt
                            \/ Saved(conn'[k].user, conn'[k].sig.salt),
           \A c \in Clients : pc'[c] \notin {"off", "lookup", "save"} =>
              \/ pc[c] \notin {"off", "lookup", "save"} /\ me'[c] = me[c]
              \/ me'[c].sig.salt = PySalt
              \/ Saved(me'[c].user, me'[c].sig.salt)
    PROVE  SaltInv'
<1>1. \A u, s : Saved(u, s)' <=> Saved(u, s)
  BY DEF Saved
<1>2. SaltKnown'
  BY <1>1 DEF SaltInv, SaltKnown
<1>3. SaltSent'
  BY <1>1 DEF SaltInv, SaltSent
<1>4. SaltSaved'
  BY <1>1 DEF SaltInv, SaltSaved
<1> QED BY <1>2, <1>3, <1>4 DEF SaltInv

\* A client that goes away changes no salt.
LEMMA HangUpSalt ==
    ASSUME SaltInv, Typed', NEW c \in Clients, NEW next \in {"off", "prompt"},
           pc[c] \in {"register", "registering", "prompt", "getting", "writing"} \/ next = "off",
           HangUp(c, next), UNCHANGED <<users, db, me>>
    PROVE  SaltInv'
<1>1. \A k \in Conns : conn'[k] = conn[k] \/ conn'[k] = None
  BY DEF HangUp, SaltInv, Typed, ServiceTypeOK
<1>2. \A d \in Clients : pc'[d] \notin {"off", "lookup", "save"} =>
         pc[d] \notin {"off", "lookup", "save"}
  BY DEF HangUp, SaltInv, Typed, ServiceTypeOK
<1> QED BY <1>1, <1>2, NothingNew

\* A handler that answers changes no salt.
LEMMA RespondSalt ==
    ASSUME SaltInv, Typed', NEW k \in Conns, NEW a, NEW w, Respond(k, a, w),
           UNCHANGED <<users, db, me, pc>>
    PROVE  SaltInv'
BY NothingNew DEF Respond, SaltInv, Typed, ServiceTypeOK

\* Who sends a request has its salt on disk.
LEMMA SendSalt ==
    ASSUME SaltInv, Typed', NEW c \in Clients, NEW cmd, NEW waiting,
           pc[c] \in {"register", "prompt"}, Send(c, cmd, waiting)
    PROVE  SaltInv'
<1>1. CASE Ask(c, cmd, waiting)
  <2>1. PICK k \in Conns :
           /\ conn' = [conn EXCEPT ![k] = [cmd |-> cmd, user |-> me[c].user,
                                          sig |-> me[c].sig]]
           /\ pc' = [pc EXCEPT ![c] = waiting]
    BY <1>1 DEF Ask
  <2>2. me[c].sig.salt = PySalt \/ Saved(me[c].user, me[c].sig.salt)
    BY DEF SaltInv, SaltKnown
  <2>3. \A j \in Conns : \/ conn'[j] = conn[j] \/ conn'[j].sig.salt = PySalt
                         \/ Saved(conn'[j].user, conn'[j].sig.salt)
    BY <2>1, <2>2 DEF SaltInv, Typed, ServiceTypeOK
  <2>4. \A d \in Clients : pc'[d] = pc[d] \/ d = c
    BY <2>1 DEF SaltInv, Typed, ServiceTypeOK
  <2> QED BY <2>3, <2>4, NothingNew DEF Send
<1>2. CASE HangUp(c, "off")
  BY <1>2, HangUpSalt DEF Send
<1> QED BY <1>1, <1>2 DEF Send

\* The program of a client: a line is written before a registration is asked for.
LEMMA ClientSalt ==
    ASSUME SaltInv, Typed', NEW c \in Clients, Start(c) \/ Client(c) \/ Get(c) \/ Quit(c)
    PROVE  SaltInv'
<1>1. CASE Start(c)
  <2>1. \A d \in Clients : pc'[d] \notin {"off", "lookup", "save"} =>
           \/ pc[d] \notin {"off", "lookup", "save"} /\ me'[d] = me[d]
           \/ me'[d].sig.salt = PySalt
    BY <1>1 DEF Start, SaltInv, Typed, ServiceTypeOK
  <2> QED BY <1>1, <2>1, NothingNew DEF Start, net
<1>2. CASE LookUp(c)
  <2>1. \A d \in Clients : d # c => pc'[d] = pc[d] /\ me'[d] = me[d]
    BY <1>2 DEF LookUp, SaltInv, Typed, ServiceTypeOK
  <2>2. pc'[c] = "save" \/ Saved(me'[c].user, me'[c].sig.salt)
    <3>1. CASE pc' = [pc EXCEPT ![c] = "save"]
      BY <3>1 DEF SaltInv, Typed, ServiceTypeOK
    <3>2. ASSUME NEW i \in Lines(me[c].user), me' = [me EXCEPT ![c].sig.salt = db[i].salt]
          PROVE  Saved(me'[c].user, me'[c].sig.salt)
      <4>1. me'[c].user = me[c].user /\ me'[c].sig.salt = db[i].salt
        <5>1. me[c] \in [user : Users, sig : Signatures]
          BY <1>2 DEF LookUp, SaltInv, Typed, ClientsReady
        <5> QED BY <3>2, <5>1 DEF SaltInv, Typed, ServiceTypeOK, Signatures
      <4>2. i \in DOMAIN db /\ db[i].user = me[c].user
        BY <3>2 DEF Lines
      <4>3. db[i] \in [user : Users, salt : Salts]
        <5>1. db \in Seq([user : Users, salt : Salts])
          BY DEF SaltInv, Typed, ServiceTypeOK
        <5> QED BY <4>2, <5>1, ElementOfSeq, LenProperties
      <4>4. db[i] = [user |-> me[c].user, salt |-> db[i].salt]
        BY <4>2, <4>3
      <4> QED BY <4>1, <4>2, <4>4 DEF Saved
    <3> QED BY <1>2, <3>1, <3>2 DEF LookUp
  <2> QED BY <1>2, <2>1, <2>2, NothingNew DEF LookUp, net
<1>3. CASE Save(c)
  <2>1. \A u, s : Saved(u, s) => Saved(u, s)'
    BY <1>3, SavedStays DEF SaltInv
  <2>2. Saved(me[c].user, me[c].sig.salt)'
    BY <1>3, SaveSaves DEF SaltInv
  <2>3. SaltKnown'
    BY <1>3, <2>1, <2>2 DEF Save, SaltInv, Typed, ServiceTypeOK, SaltKnown
  <2>4. SaltSent'
    BY <1>3, <2>1 DEF Save, net, SaltInv, SaltSent
  <2>5. SaltSaved'
    BY <1>3, <2>1 DEF Save, SaltInv, SaltSaved
  <2> QED BY <2>3, <2>4, <2>5 DEF SaltInv
<1>4. CASE Register(c)
  BY <1>4, SendSalt DEF Register
<1>5. CASE Get(c)
  BY <1>5, SendSalt DEF Get
<1>6. CASE Receive(c)
  BY <1>6, HangUpSalt DEF Receive
<1>7. CASE Eof(c)
  BY <1>7, HangUpSalt DEF Eof
<1>8. CASE Quit(c)
  BY <1>8, HangUpSalt DEF Quit
<1>9. CASE CStore(c)
  <2>1. CASE UNCHANGED <<pc, conn>>
    BY <1>9, <2>1, NothingNew DEF CStore
  <2>2. CASE HangUp(c, "prompt")
    BY <1>9, <2>2, HangUpSalt DEF CStore, Getting
  <2> QED BY <1>9, <2>1, <2>2 DEF CStore
<1>10. CASE PyOpen(c)
  <2>1. \A d \in Clients : pc'[d] = pc[d] \/ (d = c /\ pc[c] = "getting")
    BY <1>10 DEF PyOpen, Getting, SaltInv, Typed, ServiceTypeOK
  <2> QED BY <1>10, <2>1, NothingNew DEF PyOpen
<1>11. CASE PyWrite(c)
  BY <1>11, HangUpSalt DEF PyWrite
<1>12. CASE PyGiveUp(c)
  BY <1>12, HangUpSalt DEF PyGiveUp, Getting
<1> QED BY <1>1, <1>2, <1>3, <1>4, <1>5, <1>6, <1>7, <1>8, <1>9, <1>10, <1>11, <1>12
        DEF Client

\* The server registers only what was asked for, with its salt on disk.
LEMMA HandlerSalt ==
    ASSUME SaltInv, Typed', NEW k \in Conns, Handler(k)
    PROVE  SaltInv'
<1>1. CASE CheckName(k)
  <2>1. CASE UNCHANGED conn
    BY <1>1, <2>1, NothingNew DEF CheckName
  <2>2. ASSUME NEW a, NEW w, Respond(k, a, w)
        PROVE  SaltInv'
    BY <1>1, <2>2, RespondSalt DEF CheckName
  <2> QED BY <1>1, <2>1, <2>2 DEF CheckName
<1>2. CASE Enter(k)
  <2>1. conn[k] \in Requests
    BY <1>2 DEF Enter, SaltInv, Typed, HandlersReady
  <2>2. conn[k].sig.salt = PySalt \/ Saved(conn[k].user, conn[k].sig.salt)
    BY <2>1, NoneAssumption DEF SaltInv, SaltSent
  <2>3. \A u, s : Saved(u, s)' <=> Saved(u, s)
    BY <1>2 DEF Enter, Saved
  <2>4. SaltKnown'
    BY <1>2, <2>3 DEF Enter, SaltInv, SaltKnown
  <2>5. \A j \in Conns : conn'[j] = conn[j] \/ conn'[j] = None
    BY <1>2 DEF Enter, Respond, SaltInv, Typed, ServiceTypeOK
  <2>6. SaltSent'
    BY <2>3, <2>5 DEF SaltInv, SaltSent
  <2>7. \A u \in Users : users'[u] = users[u] \/ (u = conn[k].user /\ users'[u] = conn[k].sig)
    BY <1>2 DEF Enter, SaltInv, Typed, ServiceTypeOK
  <2>8. SaltSaved'
    BY <2>2, <2>3, <2>7 DEF SaltInv, SaltSaved
  <2> QED BY <1>2, <2>4, <2>6, <2>8 DEF SaltInv
<1>3. CASE Serve(k)
  <2>1. ASSUME NEW a, NEW w, Respond(k, a, w)
        PROVE  SaltInv'
    BY <1>3, <2>1, RespondSalt DEF Serve
  <2> QED BY <1>3, <2>1 DEF Serve
<1> QED BY <1>1, <1>2, <1>3 DEF Handler

\* A server that stops forgets users and so needs fewer lines.
LEMMA ServerSalt ==
    ASSUME SaltInv, Typed', Stop \/ StartServer \/ \E k \in Conns : Cut(k)
    PROVE  SaltInv'
<1>1. CASE Stop
  <2>1. \A u \in Users : users'[u] = None
    BY <1>1 DEF Stop
  <2>2. \A k \in Conns : conn'[k] = conn[k] \/ conn'[k] = None
    BY <1>1 DEF Stop
  <2>3. UNCHANGED <<db, pc, me>>
    BY <1>1 DEF Stop
  <2> QED BY <2>1, <2>2, <2>3, NothingNew
<1>2. CASE StartServer
  BY <1>2, NothingNew DEF StartServer, net
<1>3. ASSUME NEW k \in Conns, Cut(k) PROVE SaltInv'
  BY <1>3, NothingNew DEF Cut
<1> QED BY <1>1, <1>2, <1>3

\* Every step keeps the salts.
LEMMA NextSalt == SaltInv /\ [Next]_vars => SaltInv'
<1> SUFFICES ASSUME SaltInv, [Next]_vars PROVE SaltInv'
  OBVIOUS
<1>1. Typed'
  BY NextTyped DEF SaltInv
<1>2. CASE UNCHANGED vars
  BY <1>1, <1>2, NothingNew DEF vars, net
<1> QED BY <1>1, <1>2, ClientSalt, HandlerSalt, ServerSalt DEF Next

\* SaltSaved: whenever a client is killed or the server restarted, the salt of
\* every user the server knows from a C client is in database.txt.
THEOREM NoSaltIsLost == Spec => []SaltSaved
<1>1. Init => SaltInv
  <2>1. Init => SaltKnown /\ SaltSent /\ SaltSaved
    BY DEF Init, SaltKnown, SaltSent, SaltSaved
  <2> QED BY <2>1, InitTyped DEF SaltInv
<1>2. SaltInv => SaltSaved
  BY DEF SaltInv
<1> QED BY <1>1, <1>2, NextSalt, PTL DEF Spec

\* A step that writes no line and brings no client to the place where it does.
LEMMA NoNewLine ==
    ASSUME OneLine, UNCHANGED db,
           \A c \in Clients : pc'[c] \in {"lookup", "save"} => pc'[c] = pc[c] /\ me'[c] = me[c]
    PROVE  OneLine'
BY DEF OneLine, Lines

\* One C client at a time writes one line per user.
LEMMA ClientOneLine ==
    ASSUME Typed, OneLine, OneAtATime, NEW c \in Clients,
           Start(c) \/ Client(c) \/ Get(c) \/ Quit(c)
    PROVE  OneLine'
<1>1. ASSUME NEW next \in {"off", "prompt"}, HangUp(c, next), UNCHANGED <<db, me>>
      PROVE  OneLine'
  BY <1>1, NoNewLine DEF HangUp, Typed, ServiceTypeOK
<1>2. CASE Start(c)
  <2>1. c \in CClients \/ pc'[c] = "register"
    BY <1>2 DEF Start, Typed, ServiceTypeOK
  <2>2. /\ pc'[c] \in {"lookup", "register"} /\ UNCHANGED db
        /\ \A d \in Clients : d # c => pc'[d] = pc[d] /\ me'[d] = me[d]
    BY <1>2 DEF Start, Typed, ServiceTypeOK
  <2> QED BY <2>1, <2>2 DEF OneLine, Lines
<1>3. CASE LookUp(c)
  <2>1. \/ pc'[c] = "save" /\ Lines(me[c].user) = {} /\ UNCHANGED me
        \/ pc'[c] = "prompt"
    BY <1>3 DEF LookUp, Typed, ServiceTypeOK
  <2>2. /\ pc[c] = "lookup" /\ UNCHANGED db
        /\ \A d \in Clients : d # c => pc'[d] = pc[d] /\ me'[d] = me[d]
    BY <1>3 DEF LookUp, Typed, ServiceTypeOK
  <2> QED BY <2>1, <2>2 DEF OneLine, Lines
<1>4. CASE Save(c)
  <2> DEFINE line == [user |-> me[c].user, salt |-> me[c].sig.salt]
  <2>1. line \in [user : Users, salt : Salts] /\ db \in Seq([user : Users, salt : Salts])
    BY <1>4 DEF Save, Typed, ClientsReady, ServiceTypeOK
  <2>2. db' = Append(db, line)
    BY <1>4 DEF Save
  <2>3. /\ Len(db) \in Nat /\ DOMAIN db = 1..Len(db) /\ DOMAIN db' = 1..(Len(db) + 1)
        /\ db'[Len(db) + 1] = line
        /\ \A i \in 1..Len(db) : db'[i] = db[i]
    BY <2>1, <2>2, AppendProperties, LenProperties
  <2>4. \A i \in DOMAIN db' : i \in DOMAIN db \/ i = Len(db) + 1
    BY <2>3
  <2>5. \A i \in DOMAIN db : db[i].user # me[c].user
    BY <1>4 DEF Save, OneLine, Lines
  <2>6. \A i, j \in DOMAIN db' : db'[i].user = db'[j].user => i = j
    BY <2>3, <2>4, <2>5 DEF OneLine
  <2>7. /\ pc[c] = "save" /\ pc'[c] = "register"
        /\ \A d \in Clients : d # c => pc'[d] = pc[d]
    BY <1>4 DEF Save, Typed, ServiceTypeOK
  <2>8. \A d \in Clients : d # c => pc[d] # "save"
    BY <2>7 DEF OneLine, OneAtATime
  <2> QED BY <2>6, <2>7, <2>8 DEF OneLine
<1>5. ASSUME NEW cmd, NEW waiting \in {"registering", "getting"}, Send(c, cmd, waiting)
      PROVE  OneLine'
  <2>1. CASE HangUp(c, "off")
    BY <1>1, <1>5, <2>1 DEF Send
  <2>2. CASE Ask(c, cmd, waiting)
    BY <1>5, <2>2, NoNewLine DEF Send, Ask, Typed, ServiceTypeOK
  <2> QED BY <1>5, <2>1, <2>2 DEF Send
<1>6. CASE Register(c) \/ Get(c)
  BY <1>5, <1>6 DEF Register, Get
<1>7. CASE Receive(c) \/ Eof(c) \/ Quit(c) \/ PyWrite(c) \/ PyGiveUp(c)
  BY <1>1, <1>7 DEF Receive, Eof, Quit, PyWrite, PyGiveUp
<1>8. CASE CStore(c)
  <2>1. CASE UNCHANGED pc
    BY <1>8, <2>1, NoNewLine DEF CStore
  <2> QED BY <1>1, <1>8, <2>1 DEF CStore
<1>9. CASE PyOpen(c)
  BY <1>9, NoNewLine DEF PyOpen, Typed, ServiceTypeOK
<1> QED BY <1>2, <1>3, <1>4, <1>6, <1>7, <1>8, <1>9 DEF Client

\* Every step keeps one line per user.
LEMMA NextOneLine == Typed /\ OneLine /\ OneAtATime /\ [Next]_vars => OneLine'
<1> SUFFICES ASSUME Typed, OneLine, OneAtATime, [Next]_vars PROVE OneLine'
  OBVIOUS
<1>1. CASE UNCHANGED vars
  BY <1>1, NoNewLine DEF vars
<1>2. ASSUME NEW k \in Conns, Handler(k) \/ Cut(k)
      PROVE  OneLine'
  BY <1>2, NoNewLine DEF Handler, CheckName, Enter, Serve, Cut
<1>3. CASE Stop \/ StartServer
  BY <1>3, NoNewLine DEF Stop, StartServer
<1> QED BY <1>1, <1>2, <1>3, ClientOneLine DEF Next

\* Two salts of a user are one.
LEMMA OneSalt ==
    ASSUME OneLine, NEW u, NEW s, NEW t, Saved(u, s), Saved(u, t)
    PROVE  s = t
<1>1. PICK i \in DOMAIN db : db[i] = [user |-> u, salt |-> s]
  BY DEF Saved
<1>2. PICK j \in DOMAIN db : db[j] = [user |-> u, salt |-> t]
  BY DEF Saved
<1>3. i = j
  BY <1>1, <1>2 DEF OneLine
<1> QED BY <1>1, <1>2, <1>3

\* Only Serve refuses a password, and only a wrong one.
LEMMA ServeRefusesRightly ==
    ASSUME SaltInv, OneLine, NEW k \in Conns, Serve(k)
    PROVE  RightlyRefused(k)
<1> DEFINE r == conn[k]
           known == users[r.user]
<1> SUFFICES ASSUME answer[k] = None, answer'[k] = "INVALID_LOGIN", r.sig.salt # PySalt,
                    known.salt # PySalt
             PROVE  known.pw # r.sig.pw
  BY DEF RightlyRefused
<1>1. r \in Requests /\ r # None
  BY NoneAssumption DEF Serve, SaltInv, Typed, HandlersReady
<1>2. r.user \in Users /\ r.sig \in Signatures
  BY <1>1 DEF Requests
<1>3. known # None /\ known # r.sig
  <2>1. ASSUME NEW a, NEW w, Respond(k, a, w), a # "INVALID_LOGIN"
        PROVE  FALSE
    <3>1. answer'[k] = a \/ answer'[k] = answer[k]
      BY <2>1 DEF Respond, SaltInv, Typed, ServiceTypeOK
    <3> QED BY <2>1, <3>1, NoneAssumption DEF Answers
  <2>2. None # "INVALID_LOGIN"
    BY NoneAssumption DEF Answers
  <2> QED BY <2>1, <2>2 DEF Serve, Served
<1>4. known \in Signatures
  BY <1>2, <1>3 DEF SaltInv, Typed, ServiceTypeOK
<1>5. Saved(r.user, known.salt) /\ Saved(r.user, r.sig.salt)
  BY <1>1, <1>2, <1>3 DEF SaltInv, SaltSaved, SaltSent
<1>6. known.salt = r.sig.salt
  BY <1>5, OneSalt
<1> QED BY <1>2, <1>3, <1>4, <1>6 DEF Signatures

\* No other step refuses one.
LEMMA NextRefusesRightly ==
    ASSUME SaltInv, OneLine, [Next]_vars
    PROVE  [\A k \in Conns : RightlyRefused(k)]_vars
<1>0. \A k \in Conns : answer'[k] \in {answer[k], None} => RightlyRefused(k)
  BY NoneAssumption DEF RightlyRefused, Answers
<1>1. ASSUME NEW c \in Clients, Start(c) \/ Client(c) \/ Get(c) \/ Quit(c)
      PROVE  \A k \in Conns : RightlyRefused(k)
  <2>1. ASSUME NEW next, HangUp(c, next)
        PROVE  \A k \in Conns : answer'[k] \in {answer[k], None}
    BY <2>1 DEF HangUp, SaltInv, Typed, ServiceTypeOK
  <2>2. ASSUME NEW cmd, NEW waiting, Send(c, cmd, waiting)
        PROVE  \A k \in Conns : answer'[k] \in {answer[k], None}
    BY <2>1, <2>2 DEF Send, Ask
  <2>3. CASE Register(c) \/ Get(c)
    BY <1>0, <2>2, <2>3 DEF Register, Get
  <2>4. CASE Start(c) \/ LookUp(c) \/ Save(c) \/ PyOpen(c)
    BY <1>0, <2>4 DEF Start, LookUp, Save, PyOpen, net
  <2>5. CASE Receive(c) \/ Eof(c) \/ Quit(c) \/ PyWrite(c) \/ PyGiveUp(c) \/ CStore(c)
    BY <1>0, <2>1, <2>5 DEF Receive, Eof, Quit, PyWrite, PyGiveUp, CStore
  <2> QED BY <1>1, <2>3, <2>4, <2>5 DEF Client
<1>2. ASSUME NEW k \in Conns, Handler(k)
      PROVE  \A j \in Conns : RightlyRefused(j)
  <2>1. \A j \in Conns : j # k => answer'[j] = answer[j]
    BY <1>2 DEF Handler, CheckName, Enter, Serve, Respond, SaltInv, Typed, ServiceTypeOK
  <2>2. CASE Serve(k)
    BY <1>0, <2>1, <2>2, ServeRefusesRightly DEF SaltInv
  <2>3. ASSUME NEW a \in {"BAD_REQUEST", "EXISTS", "OK"}, Respond(k, a, <<>>)
        PROVE  RightlyRefused(k)
    <3>1. answer'[k] = a \/ answer'[k] = answer[k]
      BY <2>3 DEF Respond, SaltInv, Typed, ServiceTypeOK
    <3> QED BY <2>3, <3>1, NoneAssumption DEF RightlyRefused, Answers
  <2>4. CASE CheckName(k) \/ Enter(k)
    BY <1>0, <2>1, <2>3, <2>4 DEF CheckName, Enter
  <2> QED BY <1>2, <2>2, <2>4 DEF Handler
<1>3. CASE Stop \/ StartServer
  BY <1>0, <1>3 DEF Stop, StartServer, net
<1>4. ASSUME NEW k \in Conns, Cut(k)
      PROVE  \A j \in Conns : RightlyRefused(j)
  BY <1>0, <1>4 DEF Cut, SaltInv, Typed, ServiceTypeOK
<1>5. CASE UNCHANGED vars
  BY <1>5
<1> QED BY <1>1, <1>2, <1>3, <1>4, <1>5 DEF Next

\* RightPasswordWorks: with one C client at a time, no kill and no restart makes the
\* server refuse the password a C client registered.
THEOREM RightPasswordStays == OneAtATime => (Spec => RightPasswordWorks)
<1> SUFFICES ASSUME OneAtATime PROVE Spec => RightPasswordWorks
  OBVIOUS
<1>1. Init => SaltInv /\ OneLine
  <2>1. Init => SaltKnown /\ SaltSent /\ SaltSaved /\ OneLine
    BY DEF Init, SaltKnown, SaltSent, SaltSaved, OneLine
  <2> QED BY <2>1, InitTyped DEF SaltInv
<1>2. SaltInv /\ OneLine /\ [Next]_vars
      => OneLine' /\ [\A k \in Conns : RightlyRefused(k)]_vars
  BY NextOneLine, NextRefusesRightly DEF SaltInv
<1> QED BY <1>1, <1>2, NextSalt, PTL DEF Spec, RightPasswordWorks

=============================================================================
