---------------------------- MODULE FileExchange -----------------------------
(***************************************************************************)
(* Peers of A4 that retrieve one and the same file from each other, in      *)
(* blocks, while other peers retrieve it from them.  C peers are            *)
(* handle_retrieve and the retrieving part of send_message in peer.c,       *)
(* Python peers _handle_request, _build_and_send_responses, send_to_server  *)
(* and to_server in peer.py.                                                *)
(*                                                                          *)
(* A client thread is named by its peer, a handler by its connection.       *)
(***************************************************************************)
EXTENDS Blocks, FiniteSets

CONSTANTS
    CPeers, PyPeers,
    Conns,     \* names of connections; free again once both ends have closed
    Starts,    \* the contents the peers' files may have at first
    Tries,     \* how many retrievals each user asks for
    Missing,   \* no such file
    None

Peers   == CPeers \cup PyPeers
Threads == Peers \cup Conns

ASSUME PeersAssumption == CPeers \cap PyPeers = {} /\ Peers \cap Conns = {}
ASSUME NoneAssumption  == None \notin Threads
ASSUME TriesAssumption == Tries \in [Peers -> Nat]

VARIABLES
    up,       \* whether the process runs
    file,     \* what the peer's directory holds under the name
    listed,   \* Python: whether the name is in currently_retreiving
    holder,   \* C: the handler that holds retrieving_mutex
    pc,       \* where each thread is
    call,     \* the connection on which a client waits, or None
    asked,    \* the peer a client asked last
    got,      \* the blocks a client has received
    tries,    \* how many retrievals the user will still ask for
    conn,     \* the peer that serves a connection, or None
    job,      \* a handler's copy of the file, and the blocks still to be sent
    wire,     \* the blocks sent and not yet received
    had,      \* history: what the served file was since the client asked
    before,   \* history: what the client's own file was when it asked
    how       \* history: how the last retrieval ended

client  == <<call, asked, got, tries, before, how>>
vars    == <<up, file, listed, holder, pc, client, conn, job, wire, had>>

Bytes   == UNION {UNION {{s[p][i] : i \in DOMAIN s[p]} :
                            p \in {q \in Peers : s[q] # Missing}} : s \in Starts}
Data    == Seq(Bytes \cup {NUL})
Ends    == {"none", "ok", "mismatch", "refused", "aborted"}

ASSUME StartsAssumption == Starts \subseteq [Peers -> Data \cup {Missing}]
ASSUME MissingAssumption == Missing \notin Data

-----------------------------------------------------------------------------

NoJob == [data |-> <<>>, left |-> {}]

Init ==
    /\ up = [p \in Peers |-> TRUE]
    /\ file \in Starts
    /\ listed = [p \in Peers |-> FALSE]
    /\ holder = [p \in Peers |-> None]
    /\ pc = [t \in Threads |-> "idle"]
    /\ call = [p \in Peers |-> None]
    /\ asked = [p \in Peers |-> None]
    /\ got = [p \in Peers |-> <<>>]
    /\ tries = Tries
    /\ conn = [c \in Conns |-> None]
    /\ job = [c \in Conns |-> NoJob]
    /\ wire = [c \in Conns |-> <<>>]
    /\ had = [p \in Peers |-> {}]
    /\ before = [p \in Peers |-> <<>>]
    /\ how = [p \in Peers |-> "none"]

\* Mutation: nobody makes sure that the file exists.
ContentsIfAny(p) == file[p]

\* What reading the file of p gives; a missing one is created empty ("a").
Contents(p) == IF file[p] = Missing THEN <<>> ELSE file[p]

\* Peer p's file becomes f; whoever is retrieving it may meet both contents.
SaveAs(p, f) ==
    /\ file' = [file EXCEPT ![p] = f]
    /\ had' = [r \in Peers |-> IF call[r] # None /\ conn[call[r]] = p
                               THEN had[r] \cup {Contents(p)'} ELSE had[r]]

\* Somebody still reads what the handler of c writes.
Read(c) == \E p \in Peers : call[p] = c

\* The wires after the handler of c wrote a block.
Sent(c, block) == IF Read(c) THEN [wire EXCEPT ![c] = Append(@, block)] ELSE wire

\* The handler of c returns and closes.
Close(c) ==
    /\ job' = [job EXCEPT ![c] = NoJob]
    /\ IF Read(c)
       THEN pc' = [pc EXCEPT ![c] = "closed"] /\ UNCHANGED conn
       ELSE /\ pc' = [pc EXCEPT ![c] = "idle"]
            /\ conn' = [conn EXCEPT ![c] = None]

\* The client of p closes its end and goes on at next.
HangUp(p, next) ==
    LET c == call[p] IN
    /\ call' = [call EXCEPT ![p] = None]
    /\ wire' = [wire EXCEPT ![c] = <<>>]
    /\ IF pc[c] = "closed"
       THEN /\ pc' = [pc EXCEPT ![p] = next, ![c] = "idle"]
            /\ conn' = [conn EXCEPT ![c] = None]
       ELSE /\ pc' = [pc EXCEPT ![p] = next]
            /\ UNCHANGED conn

\* The process of q dies, and with it all its threads; sent is what has been
\* written to the wires by then.
Die(q, sent) ==
    LET mine(c) == conn[c] = q
        gone(c) == \/ call[q] = c /\ pc[c] = "closed"
                   \/ mine(c) /\ \A r \in Peers \ {q} : call[r] # c
    IN /\ up' = [up EXCEPT ![q] = FALSE]
       /\ call' = [call EXCEPT ![q] = None]
       /\ pc' = [t \in Threads |-> IF t = q THEN "dead"
                                   ELSE IF t \in Peers THEN pc[t]
                                   ELSE IF gone(t) THEN "idle"
                                   ELSE IF mine(t) THEN "closed" ELSE pc[t]]
       /\ conn' = [c \in Conns |-> IF gone(c) THEN None ELSE conn[c]]
       /\ wire' = [c \in Conns |-> IF gone(c) \/ call[q] = c THEN <<>> ELSE sent[c]]
       /\ holder' = [holder EXCEPT ![q] = None]
       /\ job' = [c \in Conns |-> IF mine(c) THEN NoJob ELSE job[c]]
       /\ UNCHANGED <<file, listed, asked, got, tries, had, before, how>>

-----------------------------------------------------------------------------
(* The clients.                                                            *)

\* The user of p names the file and get_random_peer picks q.  A C client makes
\* sure that its file exists, a Python client notes that it is being retrieved.
\* If q is dead, connect fails: a C client does not look and reads nothing, and a
\* Python client raises, as both would at the end of a stream.
Ask(p, q) ==
    /\ pc[p] = "idle" /\ tries[p] > 0 /\ q # p
    /\ \E c \in Conns :
          /\ conn[c] = None /\ \A d \in Conns : conn[d] = None => c <= d
          /\ call' = [call EXCEPT ![p] = c]
          /\ conn' = [conn EXCEPT ![c] = q]
          /\ pc' = [pc EXCEPT ![p] = "reading",
                              ![c] = IF up[q] THEN "start" ELSE "closed"]
    /\ tries' = [tries EXCEPT ![p] = @ - 1]
    /\ asked' = [asked EXCEPT ![p] = q]
    /\ got' = [got EXCEPT ![p] = <<>>]
    /\ before' = [before EXCEPT ![p] = Contents(p)]
    /\ how' = [how EXCEPT ![p] = "none"]
    /\ had' = [r \in Peers |->
                 IF r = p THEN {Contents(q)}
                 ELSE IF p \in CPeers /\ call[r] # None /\ conn[call[r]] = p
                 THEN had[r] \cup {Contents(p)} ELSE had[r]]
    /\ IF p \in CPeers
       THEN file' = [file EXCEPT ![p] = Contents(p)] /\ UNCHANGED listed
       ELSE listed' = [listed EXCEPT ![p] = TRUE] /\ UNCHANGED file
    /\ UNCHANGED <<up, holder, job, wire>>

Arrived(p)  == pc[p] = "reading" /\ wire[call[p]] # <<>>
NextBlock(p) == Head(wire[call[p]])
AtEof(p)    == /\ pc[p] = "reading" /\ wire[call[p]] = <<>>
               /\ pc[call[p]] = "closed"

\* The block agrees with the first one on the number of blocks and the hash.
Consistent(p) == got[p] # <<>> => /\ NextBlock(p).count = got[p][1].count
                                  /\ NextBlock(p).total = got[p][1].total

Keep(p) == /\ got' = [got EXCEPT ![p] = Append(@, NextBlock(p))]
           /\ wire' = [wire EXCEPT ![call[p]] = Tail(@)]

\* The retrieval ends as e says.
End(p, e) == /\ how' = [how EXCEPT ![p] = e]
             /\ got' = [got EXCEPT ![p] = <<>>]
             /\ UNCHANGED <<asked, tries, before>>

\* A C client writes each block at its place, and returns at the first one that
\* refuses or contradicts.
CStore(p) ==
    /\ Arrived(p) /\ Consistent(p) /\ NextBlock(p).status = "OK"
    /\ Keep(p)
    /\ SaveAs(p, WriteAt(file[p], NextBlock(p).num * B, UpToNul(NextBlock(p).payload)))
    /\ pc' = [pc EXCEPT ![p] = IF Len(got'[p]) = got'[p][1].count
                               THEN "check" ELSE "reading"]
    /\ UNCHANGED <<up, listed, holder, call, asked, tries, before, how, conn, job>>

CGiveUp(p) ==
    /\ Arrived(p) /\ (~Consistent(p) \/ NextBlock(p).status # "OK")
    /\ HangUp(p, "idle")
    /\ End(p, IF Consistent(p) THEN "refused" ELSE "aborted")
    /\ UNCHANGED <<up, file, listed, holder, job, had>>

\* The stream ends too early, and what is left in the buffer is taken for a
\* header: its count, hash or status are wrong, or its lengths end the process.
\* Before the first block it is the client's own request.  Its "count" is the end
\* of the IP string, zero if that is short: then no block is awaited, and the file
\* is compared with a hash that nobody sent (and if the buffer held that of the
\* file from an earlier call, the copy that follows would end the process).
CEof(p) ==
    /\ AtEof(p)
    /\ \/ /\ HangUp(p, "idle")
          /\ \/ End(p, "aborted")
             \/ got[p] = <<>> /\ End(p, "mismatch")
          /\ UNCHANGED <<up, file, listed, holder, job, had>>
       \/ Die(p, wire)

\* Mutation: the hash of the file is not compared.
CCheckNot(p) ==
    /\ pc[p] = "check" /\ HangUp(p, "idle") /\ End(p, "ok")
    /\ UNCHANGED <<up, file, listed, holder, job, had>>

\* The hash of the file is compared with that of the last block.
CCheck(p) ==
    /\ pc[p] = "check"
    /\ HangUp(p, "idle")
    /\ End(p, IF Contents(p) = got[p][Len(got[p])].total THEN "ok" ELSE "mismatch")
    /\ UNCHANGED <<up, file, listed, holder, job, had>>

CClient(p) == CStore(p) \/ CGiveUp(p) \/ CEof(p) \/ CCheck(p)

\* Mutation: the name stays listed.
UnlistNot(p) == UNCHANGED listed

Unlist(p) == listed' = [listed EXCEPT ![p] = FALSE]

\* A Python client gathers all blocks.
PyStore(p) ==
    /\ Arrived(p) /\ NextBlock(p).status = "OK" /\ Keep(p)
    /\ pc' = [pc EXCEPT ![p] = IF Len(got'[p]) = got'[p][1].count
                               THEN "gathered" ELSE "reading"]
    /\ UNCHANGED <<up, file, listed, holder, call, asked, tries, before, how, conn, job, had>>

\* It gives up when it is refused, or when one recv returned a part of a block.
PyGiveUp(p) ==
    /\ Arrived(p)
    /\ HangUp(p, "idle") /\ Unlist(p)
    /\ End(p, IF NextBlock(p).status = "OK" THEN "aborted" ELSE "refused")
    /\ UNCHANGED <<up, file, holder, job, had>>

\* An incomplete header, or the end of the stream, raises: the thread ends and
\* the name stays listed.
PyRaise(p) ==
    /\ Arrived(p) \/ AtEof(p)
    /\ HangUp(p, "dead")
    /\ End(p, "aborted")
    /\ UNCHANGED <<up, file, listed, holder, job, had>>

\* send_to_server closes the socket and returns, and the name is removed.
PyGathered(p) ==
    /\ pc[p] = "gathered"
    /\ HangUp(p, "writing") /\ Unlist(p)
    /\ UNCHANGED <<up, file, holder, asked, got, tries, before, how, job, had>>

\* The file is truncated when it is opened.
PyOpen(p) ==
    /\ pc[p] = "writing" /\ pc' = [pc EXCEPT ![p] = "opened"]
    /\ SaveAs(p, <<>>)
    /\ UNCHANGED <<up, listed, holder, client, conn, job, wire>>

PyWrite(p) ==
    /\ pc[p] = "opened" /\ pc' = [pc EXCEPT ![p] = "idle"]
    /\ SaveAs(p, Joined(got[p]))
    /\ End(p, "ok")
    /\ UNCHANGED <<up, listed, holder, call, conn, job, wire>>

PyClient(p) == PyStore(p) \/ PyGiveUp(p) \/ PyRaise(p) \/ PyGathered(p)
               \/ PyOpen(p) \/ PyWrite(p)

-----------------------------------------------------------------------------
(* The handlers.                                                           *)

\* A Python peer refuses a file it has not, or is retrieving.
PyAdmit(c) ==
    LET q == conn[c] IN
    /\ pc[c] = "start"
    /\ IF file[q] = Missing \/ listed[q]
       THEN Close(c) /\ wire' = Sent(c, Refusal)
       ELSE pc' = [pc EXCEPT ![c] = "open"] /\ UNCHANGED <<conn, job, wire>>
    /\ UNCHANGED <<up, file, listed, holder, client, had>>

\* It reads the whole file.
PyLoad(c) ==
    LET d == Contents(conn[c]) IN
    /\ pc[c] = "open" /\ pc' = [pc EXCEPT ![c] = "send"]
    /\ job' = [job EXCEPT ![c] = [data |-> d, left |-> 0..(PyCount(d) - 1)]]
    /\ UNCHANGED <<up, file, listed, holder, client, conn, wire, had>>

\* The handler goes on at next with one block less, or closes after the last.
Advance(c, i, next) ==
    IF job[c].left = {i} THEN Close(c)
    ELSE /\ job' = [job EXCEPT ![c].left = @ \ {i}]
         /\ pc' = [pc EXCEPT ![c] = next]
         /\ UNCHANGED conn

\* The blocks go out in any order.  Once nobody reads, a write may raise.
PySend(c) ==
    LET d == job[c].data IN
    /\ pc[c] = "send"
    /\ \/ \E i \in job[c].left :
             /\ wire' = Sent(c, Block(i, PyCount(d), Piece(d, i), d))
             /\ Advance(c, i, "send")
       \/ ~Read(c) /\ Close(c) /\ UNCHANGED wire
    /\ UNCHANGED <<up, file, listed, holder, client, had>>

PyHandler(c) == PyAdmit(c) \/ PyLoad(c) \/ PySend(c)

\* Mutation: retrieving_mutex is not awaited.
COpenAnyway(c) ==
    LET q == conn[c] IN
    /\ pc[c] = "start" /\ file[q] # Missing
    /\ holder' = [holder EXCEPT ![q] = c]
    /\ pc' = [pc EXCEPT ![c] = "read"]
    /\ job' = [job EXCEPT ![c] = [data |-> file[q],
                                  left |-> 0..(CCount(Len(file[q])) - 1)]]
    /\ UNCHANGED <<up, file, listed, client, conn, wire, had>>

\* A C peer serves one request at a time.  The path is not terminated, so the
\* file may not be found even if it exists; then the refusal is written, and
\* fclose(NULL) ends the process.
COpen(c) ==
    LET q == conn[c] IN
    /\ pc[c] = "start" /\ holder[q] = None
    /\ \/ /\ file[q] # Missing
          /\ holder' = [holder EXCEPT ![q] = c]
          /\ pc' = [pc EXCEPT ![c] = "read"]
          /\ job' = [job EXCEPT ![c] =
                       [data |-> file[q], left |-> 0..(CCount(Len(file[q])) - 1)]]
          /\ UNCHANGED <<up, file, listed, client, conn, wire, had>>
       \/ Die(q, Sent(c, Refusal))

\* fread: the first bytes may have been buffered by an earlier call.
CRead(c) ==
    /\ pc[c] = "read" /\ pc' = [pc EXCEPT ![c] = "send"]
    /\ \E k \in 0..B :
          job' = [job EXCEPT ![c].data =
                     [i \in DOMAIN @ |-> IF i <= Min(job[c].left) * B + k THEN @[i]
                                         ELSE file[conn[c]][i]]]
    /\ UNCHANGED <<up, file, listed, holder, client, conn, wire, had>>

\* The block is sent with the hash of the file as it is now.  Once nobody reads,
\* a write may kill the process.
CSend(c) ==
    LET q == conn[c]
        j == job[c]
        i == Min(j.left)
    IN /\ pc[c] = "send"
       /\ \/ /\ wire' = Sent(c, Block(i, CCount(Len(j.data)), Piece(j.data, i), Contents(q)))
             /\ Advance(c, i, "read")
             /\ holder' = [holder EXCEPT ![q] = IF j.left = {i} THEN None ELSE c]
             /\ UNCHANGED <<up, file, listed, client, had>>
          \/ ~Read(c) /\ Die(q, wire)

CHandler(c) == COpen(c) \/ CRead(c) \/ CSend(c)

-----------------------------------------------------------------------------

Client(p) == (p \in CPeers /\ CClient(p)) \/ (p \in PyPeers /\ PyClient(p))
Serve(c)  == \/ conn[c] \in CPeers /\ CHandler(c)
             \/ conn[c] \in PyPeers /\ PyHandler(c)

Next == \/ \E p, q \in Peers : Ask(p, q)
        \/ \E p \in Peers : Client(p)
        \/ \E c \in Conns : Serve(c)

Spec == Init /\ [][Next]_vars

FairSpec == /\ Spec
            /\ \A p \in Peers : WF_vars(Client(p))
            /\ \A c \in Conns : WF_vars(Serve(c))
-----------------------------------------------------------------------------

\* The type of the state.
TypeOK ==
    /\ up \in [Peers -> BOOLEAN]
    /\ file \in [Peers -> Data \cup {Missing}]
    /\ listed \in [Peers -> BOOLEAN]
    /\ holder \in [Peers -> Conns \cup {None}]
    /\ pc \in [Threads -> {"idle", "reading", "check", "gathered", "writing", "opened",
                           "dead", "start", "open", "read", "send", "closed"}]
    /\ call \in [Peers -> Conns \cup {None}]
    /\ asked \in [Peers -> Peers \cup {None}]
    /\ tries \in [Peers -> Nat]
    /\ conn \in [Conns -> Peers \cup {None}]
    /\ job \in [Conns -> [data : Data, left : SUBSET Nat]]
    /\ had \in [Peers -> SUBSET Data]
    /\ before \in [Peers -> Data]
    /\ how \in [Peers -> Ends]

Ended(p, e) == pc[p] = "idle" /\ how[p] = e
Unchanged(p) == Cardinality(had[p]) = 1

\* When the C client is content, its file is what the served file was at some
\* moment of the retrieval: no mixture of two contents passes for a file.
VerifiedCopy == \A p \in CPeers : Ended(p, "ok") => Contents(p) \in had[p]

\* A Python client saves what the served file was, whatever the order of the
\* blocks and their number, if the peer read the file at once or nobody changed it.
PyCopy == \A p \in PyPeers :
    Ended(p, "ok") /\ (asked[p] \in PyPeers \/ Unchanged(p)) => file[p] \in had[p]

\* The C client reports a wrong file only if the served one changed, or was
\* shorter than what the client already had, or contains a zero byte; or the peer
\* that should have served it died.
MismatchHasCause == \A p \in CPeers :
    Ended(p, "mismatch") /\ Unchanged(p) /\ up[asked[p]] =>
       \E f \in had[p] : Len(f) < Len(before[p]) \/ \E i \in DOMAIN f : f[i] = NUL

\* A C client gives up only if the served file changed or the peer died: the
\* blocks of one file never contradict each other.
AbortHasCause == \A p \in CPeers :
    Ended(p, "aborted") => ~Unchanged(p) \/ ~up[asked[p]]

\* retrieving_mutex is held by a handler that is serving the file, and by it only
\* while it does.
MutexHeldToServe == \A q \in CPeers, c \in Conns :
    holder[q] = c <=> conn[c] = q /\ pc[c] \in {"read", "send"}

\* A Python peer refuses the file only while its client retrieves it, or ended
\* in an exception.
ListedWhileBusy == \A p \in PyPeers :
    listed[p] => pc[p] \in {"reading", "gathered", "dead"}

\* Every retrieval ends, if only with the end of its thread.
Retrieving(p) == pc[p] \notin {"idle", "dead"}
EveryRetrievalEnds == \A p \in Peers : Retrieving(p) ~> ~Retrieving(p)

\* peer.py: "This will ensure we don't serve an incomplete file to another
\* peer."  A handler never reads the file between its truncation and the write.
ServesNothingHalf == [][\A c \in Conns :
    pc[c] = "open" /\ pc'[c] = "send" => pc[conn[c]] # "opened"]_vars
=============================================================================
