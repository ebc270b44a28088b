----------------------------- MODULE FileService -----------------------------
(***************************************************************************)
(* A3: clients that register a user with a file server and retrieve files.  *)
(* The server (python/server/server.py) keeps the users in memory only; the *)
(* C client (src/networking.c) keeps the salts it made in database.txt,     *)
(* which all C clients of a directory share; the Python client              *)
(* (python/client/client.py) has one fixed salt.                            *)
(*                                                                          *)
(* A signature is the password and the salt it was computed from, and what  *)
(* block n of a text holds is n.                                            *)
(***************************************************************************)
EXTENDS Integers, Sequences

CONSTANTS
    CClients, PyClients,   \* places where a client program is run, again and again
    Conns,                 \* names of connections; free again once both ends closed
    Users, Anonymous,      \* the names users type, and the empty one
    Passwords,
    Salts, PySalt,         \* the salts rand() makes, and that of client.py
    Files,                 \* subset of {"text", "empty", "missing"}: what users ask for
    Runs,                  \* how often each client program is started
    Restarts,              \* how often the server is restarted
    Blocks,                \* how many blocks a file with text has
    UpAtFirst,             \* whether the server is started before the clients
    None                   \* not registered, not on a connection, no answer

Clients    == CClients \cup PyClients
Signatures == [pw : Passwords, salt : Salts \cup {PySalt}]
Requests   == [cmd : {"register", "text", "empty", "missing"}, user : Users,
               sig : Signatures]
Homes      == {CClients} \cup {{c} : c \in PyClients}  \* directories, by who runs there
Text       == [n \in 1..Blocks |-> n]
Hole       == 0    \* never written
Junk       == -1   \* what a buffer of networking.c held
Copies     == [1..Blocks -> {Hole, Junk} \cup 1..Blocks]
Answers    == {"OK", "EXISTS", "USER_MISSING", "INVALID_LOGIN", "BAD_REQUEST"}

ASSUME ClientsAssumption == CClients \cap PyClients = {}
ASSUME SaltAssumption    == PySalt \notin Salts
ASSUME NoneAssumption    == None \notin Signatures \cup Requests \cup Answers \cup Conns
ASSUME BoundsAssumption  == /\ Runs \in Nat /\ Restarts \in Nat /\ UpAtFirst \in BOOLEAN
                            /\ Blocks \in Nat \ {0}
                            /\ Files \subseteq {"text", "empty", "missing"}

VARIABLES
    up,        \* whether the server runs
    restarts,  \* how often it will still be restarted
    users,     \* the server's dictionary
    db,        \* the lines of database.txt
    pc,        \* where each client is
    me,        \* the user and signature of each client
    runs,      \* how often it will still be started
    call,      \* the connection a client waits on, or None
    conn,      \* the request on a connection, or None
    serving,   \* where the handler of a connection is
    answer,    \* what it answered, or None
    wire,      \* the blocks of a text that reach the client, in the order sent
    round,     \* how many of them a client has read
    copy       \* the text in each directory, or None

net  == <<call, conn, serving, answer, wire, round>>
vars == <<up, restarts, users, db, pc, me, runs, net, copy>>

Nobody == [user |-> Anonymous, sig |-> None]

Init ==
    /\ up = UpAtFirst
    /\ restarts = Restarts
    /\ users = [u \in Users |-> None]
    /\ db = <<>>
    /\ pc = [c \in Clients |-> "off"]
    /\ me = [c \in Clients |-> Nobody]
    /\ runs = [c \in Clients |-> Runs]
    /\ call = [c \in Clients |-> None]
    /\ conn = [k \in Conns |-> None]
    /\ serving = [k \in Conns |-> "idle"]
    /\ answer = [k \in Conns |-> None]
    /\ wire = [k \in Conns |-> <<>>]
    /\ round = [c \in Clients |-> 0]
    /\ copy = [h \in Homes |-> None]

-----------------------------------------------------------------------------
(* Connections.                                                            *)

\* The client connects and sends a request; it will wait at pc "waiting".
Ask(c, cmd, waiting) ==
    \E k \in Conns :
       /\ conn[k] = None
       /\ conn' = [conn EXCEPT ![k] = [cmd |-> cmd, user |-> me[c].user,
                                       sig |-> me[c].sig]]
       /\ call' = [call EXCEPT ![c] = k]
       /\ serving' = [serving EXCEPT ![k] = "start"]
       /\ pc' = [pc EXCEPT ![c] = waiting]
       /\ UNCHANGED <<answer, wire, round>>

\* The client closes its end and goes on at next.
HangUp(c, next) ==
    LET k == call[c] IN
    /\ call' = [call EXCEPT ![c] = None]
    /\ pc' = [pc EXCEPT ![c] = next]
    /\ round' = [round EXCEPT ![c] = 0]
    /\ IF k # None /\ serving[k] = "closed"
       THEN /\ conn' = [conn EXCEPT ![k] = None]
            /\ serving' = [serving EXCEPT ![k] = "idle"]
            /\ answer' = [answer EXCEPT ![k] = None]
            /\ wire' = [wire EXCEPT ![k] = <<>>]
       ELSE UNCHANGED <<conn, serving, answer, wire>>

Read(k) == \E c \in Clients : call[c] = k

\* The handler answers a (None: nothing at all), with blocks w of a text, and closes.
Respond(k, a, w) ==
    IF Read(k)
    THEN /\ serving' = [serving EXCEPT ![k] = "closed"]
         /\ answer' = [answer EXCEPT ![k] = a]
         /\ wire' = [wire EXCEPT ![k] = w]
         /\ UNCHANGED <<call, conn, round>>
    ELSE /\ serving' = [serving EXCEPT ![k] = "idle"]
         /\ conn' = [conn EXCEPT ![k] = None]
         /\ UNCHANGED <<call, answer, wire, round>>

-----------------------------------------------------------------------------
(* The clients.                                                            *)

\* Somebody starts the program and types a name and a password.
Start(c) ==
    /\ pc[c] = "off" /\ runs[c] > 0
    /\ runs' = [runs EXCEPT ![c] = @ - 1]
    /\ \E u \in Users, w \in Passwords, s \in Salts :
          IF c \in CClients
          THEN /\ u # Anonymous
               /\ me' = [me EXCEPT ![c] = [user |-> u, sig |-> [pw |-> w, salt |-> s]]]
               /\ pc' = [pc EXCEPT ![c] = "lookup"]
          ELSE /\ me' = [me EXCEPT ![c] = [user |-> u, sig |-> [pw |-> w, salt |-> PySalt]]]
               /\ pc' = [pc EXCEPT ![c] = "register"]
    /\ UNCHANGED <<up, restarts, users, db, net, copy>>

\* The lines of database.txt for user u.
Lines(u) == {i \in DOMAIN db : db[i].user = u}

\* Mutation: the new salt is kept though the user is found.
LookUpOnly(c) ==
    /\ pc[c] = "lookup"
    /\ pc' = [pc EXCEPT ![c] = IF Lines(me[c].user) = {} THEN "save" ELSE "prompt"]
    /\ UNCHANGED <<up, restarts, users, db, me, runs, net, copy>>

\* The first line of the user gives the salt; who is not found must register.
LookUp(c) ==
    /\ pc[c] = "lookup"
    /\ \/ /\ Lines(me[c].user) = {}
          /\ pc' = [pc EXCEPT ![c] = "save"]
          /\ UNCHANGED me
       \/ \E i \in Lines(me[c].user) :
             /\ \A j \in Lines(me[c].user) : i <= j
             /\ me' = [me EXCEPT ![c].sig.salt = db[i].salt]
             /\ pc' = [pc EXCEPT ![c] = "prompt"]
    /\ UNCHANGED <<up, restarts, users, db, runs, net, copy>>

\* Mutation: the line is to be written after the registration, and is not yet.
SaveLater(c) ==
    /\ pc[c] = "save"
    /\ pc' = [pc EXCEPT ![c] = "register"]
    /\ UNCHANGED <<up, restarts, users, db, me, runs, net, copy>>

\* Mutation: the signature is written, not the salt.
SaveSignature(c) ==
    /\ pc[c] = "save"
    /\ db' = Append(db, me[c])
    /\ pc' = [pc EXCEPT ![c] = "register"]
    /\ UNCHANGED <<up, restarts, users, me, runs, net, copy>>

\* A line is appended, before the server is asked.
Save(c) ==
    /\ pc[c] = "save"
    /\ db' = Append(db, [user |-> me[c].user, salt |-> me[c].sig.salt])
    /\ pc' = [pc EXCEPT ![c] = "register"]
    /\ UNCHANGED <<up, restarts, users, me, runs, net, copy>>

\* A request to a server that is down ends the program.
Send(c, cmd, waiting) ==
    /\ \/ up /\ Ask(c, cmd, waiting)
       \/ ~up /\ HangUp(c, "off")
    /\ UNCHANGED <<up, restarts, users, db, me, runs, copy>>

Register(c) == pc[c] = "register" /\ Send(c, "register", "registering")

\* The user names a file.  client.py takes an empty line too: a request of length 0,
\* which registers once more.
Get(c) ==
    /\ pc[c] = "prompt"
    /\ \/ \E f \in Files : Send(c, f, "getting")
       \/ c \in PyClients /\ Send(c, "register", "registering")

\* The client reads the answer, which is not a file, and prompts, whatever the answer
\* to a registration was.
Receive(c) ==
    /\ \/ pc[c] = "registering" /\ answer[call[c]] # None
       \/ pc[c] = "getting" /\ answer[call[c]] \notin {None, "OK"}
    /\ HangUp(c, "prompt")
    /\ UNCHANGED <<up, restarts, users, db, me, runs, copy>>

\* The connection ended without an answer.  client.py fails; networking.c takes what
\* its buffer held for the answer: it fails or goes on, or, if that was the header of
\* an earlier file, writes one block of what its other buffer held, again and again.
Eof(c) ==
    /\ pc[c] \in {"registering", "getting"}
    /\ serving[call[c]] = "closed" /\ answer[call[c]] = None
    /\ \/ HangUp(c, "off") /\ UNCHANGED copy
       \/ c \in CClients /\ HangUp(c, "prompt") /\ UNCHANGED copy
       \/ /\ c \in CClients /\ conn[call[c]].cmd = "text" /\ HangUp(c, "prompt")
          /\ \E n \in 1..Blocks :
                copy' = [copy EXCEPT ![CClients] = [m \in 1..Blocks |->
                                                      IF m = n THEN Junk ELSE Hole]]
    /\ UNCHANGED <<up, restarts, users, db, me, runs>>

\* The user quits, or the program is killed.
Quit(c) ==
    /\ pc[c] # "off"
    /\ HangUp(c, "off")
    /\ UNCHANGED <<up, restarts, users, db, me, runs, copy>>

-----------------------------------------------------------------------------
(* The blocks of a text.                                                   *)

Getting(c) == pc[c] = "getting" /\ answer[call[c]] = "OK"

\* Mutation: the blocks are written one after the other.
PutNext(c, n, d) ==
    copy' = [copy EXCEPT ![CClients] =
                [(IF round[c] = 0 THEN [m \in 1..Blocks |-> Hole] ELSE @)
                    EXCEPT ![round[c] + 1] = d]]

\* d is written where block n belongs, in a file that the first block empties.
Put(c, n, d) ==
    copy' = [copy EXCEPT ![CClients] =
                [(IF round[c] = 0 THEN [m \in 1..Blocks |-> Hole] ELSE @) EXCEPT ![n] = d]]

\* A round of get_file.  Once the connection has ended, the header is that of the
\* last block, or of one more that arrived without what it holds.
CStore(c) ==
    LET w == wire[call[c]]
        r == round[c]
    IN /\ c \in CClients /\ Getting(c)
       /\ \/ r < Len(w) /\ Put(c, w[r + 1], w[r + 1])
          \/ /\ r >= Len(w)
             /\ \E n \in 1..Blocks :
                   (\A i \in 1..(Len(w) - 1) : w[i] # n) /\ Put(c, n, Junk)
       /\ IF r + 1 = Blocks THEN HangUp(c, "prompt")
          ELSE /\ round' = [round EXCEPT ![c] = r + 1]
               /\ UNCHANGED <<pc, call, conn, serving, answer, wire>>
       /\ UNCHANGED <<up, restarts, users, db, me, runs>>

\* client.py has all blocks and empties its file, ...
PyOpen(c) ==
    /\ c \in PyClients /\ Getting(c) /\ Len(wire[call[c]]) = Blocks
    /\ round' = [round EXCEPT ![c] = Blocks]
    /\ copy' = [copy EXCEPT ![{c}] = [m \in 1..Blocks |-> Hole]]
    /\ pc' = [pc EXCEPT ![c] = "writing"]
    /\ UNCHANGED <<up, restarts, users, db, me, runs, call, conn, serving, answer, wire>>

\* ... and writes it: all_blocks in the order of their numbers.
PyWrite(c) ==
    /\ pc[c] = "writing"
    /\ LET w == wire[call[c]]
       IN copy' = [copy EXCEPT ![{c}] = [n \in 1..Blocks |->
                                           w[CHOOSE i \in DOMAIN w : w[i] = n]]]
    /\ HangUp(c, "prompt")
    /\ UNCHANGED <<up, restarts, users, db, me, runs>>

\* A recv returns a part of a block, or nothing more: the hash is wrong, or the
\* program fails.
PyGiveUp(c) ==
    /\ c \in PyClients /\ Getting(c)
    /\ \E next \in {"off", "prompt"} : HangUp(c, next)
    /\ UNCHANGED <<up, restarts, users, db, me, runs, copy>>

Client(c) == LookUp(c) \/ Save(c) \/ Register(c) \/ Receive(c) \/ Eof(c)
             \/ CStore(c) \/ PyOpen(c) \/ PyWrite(c) \/ PyGiveUp(c)

-----------------------------------------------------------------------------
(* The server: a thread per connection.                                    *)

\* _register_new_user, first half: is the name taken?
CheckName(k) ==
    LET r == conn[k] IN
    /\ serving[k] = "start" /\ r.cmd = "register"
    /\ IF r.user = Anonymous THEN Respond(k, "BAD_REQUEST", <<>>)
       ELSE IF users[r.user] # None THEN Respond(k, "EXISTS", <<>>)
       ELSE /\ serving' = [serving EXCEPT ![k] = "vacant"]
            /\ UNCHANGED <<call, conn, answer, wire, round>>
    /\ UNCHANGED <<up, restarts, users, db, pc, me, runs, copy>>

\* Second half: the user is entered.
Enter(k) ==
    /\ serving[k] = "vacant"
    /\ users' = [users EXCEPT ![conn[k].user] = conn[k].sig]
    /\ Respond(k, "OK", <<>>)
    /\ UNCHANGED <<up, restarts, db, pc, me, runs, copy>>

\* The answer to a request of f: an empty file makes no block, and no answer.
Served(f) == IF f = "missing" THEN "BAD_REQUEST" ELSE IF f = "empty" THEN None ELSE "OK"

\* The orders that random.shuffle makes.
Orders == {o \in [1..Blocks -> 1..Blocks] : \A n \in 1..Blocks : \E i \in 1..Blocks : o[i] = n}

\* _handle_request, with all that _build_and_send_responses sends (see Cut).
Serve(k) ==
    LET r == conn[k] IN
    /\ serving[k] = "start" /\ r.cmd # "register"
    /\ IF users[r.user] = None THEN Respond(k, "USER_MISSING", <<>>)
       ELSE IF users[r.user] # r.sig THEN Respond(k, "INVALID_LOGIN", <<>>)
       ELSE IF Served(r.cmd) = "OK" THEN \E o \in Orders : Respond(k, "OK", o)
       ELSE Respond(k, Served(r.cmd), <<>>)
    /\ UNCHANGED <<up, restarts, users, db, pc, me, runs, copy>>

\* What has not been read of an answer is lost: the server stops while it sends it, or
\* closes a connection of which it has not read all, for a C client sends MAXLINE
\* bytes of which the server reads MSG_MAX.
Cut(k) ==
    \E c \in Clients, m \in 0..Blocks :
       /\ call[c] = k /\ (c \in CClients \/ ~up)
       /\ round[c] <= m
       /\ m < Len(wire[k]) \/ (m = 0 /\ answer[k] # None)
       /\ wire' = [wire EXCEPT ![k] = SubSeq(@, 1, m)]
       /\ answer' = IF m = 0 THEN [answer EXCEPT ![k] = None] ELSE answer
       /\ UNCHANGED <<up, restarts, users, db, pc, me, runs, call, conn, serving, round, copy>>

Handler(k) == CheckName(k) \/ Enter(k) \/ Serve(k)

\* The server stops, with its threads and its dictionary.
Stop ==
    /\ up /\ restarts > 0
    /\ up' = FALSE
    /\ restarts' = restarts - 1
    /\ users' = [u \in Users |-> None]
    /\ serving' = [k \in Conns |-> IF conn[k] # None /\ Read(k) THEN "closed" ELSE "idle"]
    /\ conn' = [k \in Conns |-> IF Read(k) THEN conn[k] ELSE None]
    /\ UNCHANGED <<db, pc, me, runs, call, answer, wire, round, copy>>

StartServer ==
    /\ ~up /\ up' = TRUE
    /\ UNCHANGED <<restarts, users, db, pc, me, runs, net, copy>>

-----------------------------------------------------------------------------

Next == \/ \E c \in Clients : Start(c) \/ Client(c) \/ Get(c) \/ Quit(c)
        \/ \E k \in Conns : Handler(k) \/ Cut(k)
        \/ Stop \/ StartServer

Spec == Init /\ [][Next]_vars

-----------------------------------------------------------------------------

\* The type of all but the copies.
ServiceTypeOK ==
    /\ up \in BOOLEAN /\ restarts \in Nat
    /\ users \in [Users -> Signatures \cup {None}]
    /\ db \in Seq([user : Users, salt : Salts])
    /\ pc \in [Clients -> {"off", "lookup", "save", "register", "registering",
                           "prompt", "getting", "writing"}]
    /\ me \in [Clients -> [user : Users, sig : Signatures] \cup {Nobody}]
    /\ runs \in [Clients -> Nat]
    /\ call \in [Clients -> Conns \cup {None}]
    /\ conn \in [Conns -> Requests \cup {None}]
    /\ serving \in [Conns -> {"idle", "start", "vacant", "closed"}]
    /\ answer \in [Conns -> Answers \cup {None}]
    /\ wire \in [Conns -> Seq(1..Blocks)]
    /\ round \in [Clients -> 0..Blocks]

\* The type of the state.
TypeOK == ServiceTypeOK /\ copy \in [Homes -> Copies \cup {None}]

\* The salt of every user whom a C client registered is in database.txt, whoever
\* was killed and whenever the server was restarted.
Saved(u, s) == \E i \in DOMAIN db : db[i] = [user |-> u, salt |-> s]
SaltSaved ==
    \A u \in Users : users[u] # None /\ users[u].salt # PySalt => Saved(u, users[u].salt)

\* A C client is turned away only for a wrong password, or because a client with
\* another salt, a Python client, registered the name (one C client at a time).
RightlyRefused(k) ==
    /\ answer[k] = None /\ answer'[k] = "INVALID_LOGIN"
    /\ conn[k].sig.salt # PySalt
    => LET known == users[conn[k].user]
       IN known.pw # conn[k].sig.pw \/ known.salt = PySalt
RightPasswordWorks == [][\A k \in Conns : RightlyRefused(k)]_vars

\* server.py: "The user is registered, unless a user by that name already exists."
\* While the server runs, nobody's signature is replaced.
UsersKept == [][\A u \in Users : users[u] # None /\ up' => users'[u] = users[u]]_vars

\* A client that prompts after it asked for the text has all of it, whatever the order
\* of the blocks, or has left its file alone; but a C client takes an answer that was
\* cut off for the text (one C client at a time).
CopiedTruly(c) ==
    pc[c] \in {"getting", "writing"} /\ pc'[c] = "prompt" =>
       LET k == call[c]
           h == IF c \in CClients THEN CClients ELSE {c}
       IN \/ answer[k] = "OK" /\ copy'[h] = Text
          \/ (answer[k] # "OK" \/ c \in PyClients) /\ copy'[h] = copy[h]
          \/ c \in CClients /\ conn[k].cmd = "text" /\ Len(wire[k]) < Blocks
CopyTrue == [][\A c \in Clients : CopiedTruly(c)]_vars
=============================================================================
