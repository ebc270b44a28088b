# A verification project for ComputerSystermer

The repository holds four assignments of a computer-systems course. Each is a
small program of its own; this project models them one by one, most important
first. Paths below are relative to the repository root, which the manifest
writes as `src/`.

## 1. Inventory

| Part | Files | State | Operations | What is hard |
|---|---|---|---|---|
| C peer (A4) | `A4/handout/src/peer.c`, `common.h` | `network` (array of pointers), `peer_count`, two mutexes, one thread per connection, one client thread | register, inform, retrieve; the client's register and retrieve | calls made with the mutex held, unchecked errors, unlocked reads |
| Python peer (A4) | `A4/handout/python/first_peer/peer.py` (`second_peer/peer.py` is the same file) | `network` (list of address and time), `currently_retreiving`, two mutexes | the same protocol | several critical sections per request, exceptions in the middle of loops, ageing of entries |
| Block transfer (A4) | `send_message`, `handle_retrieve`, `_build_and_send_responses`, `send_to_server` | blocks of a reply, the output file | shuffle and send, check hashes, write at an offset | order of blocks, sizes at a block boundary, stale output files |
| File server (A3) | `A3/handout/python/server/server.py` | dictionary of users | register, get file | check-then-set without a lock, users lost at a restart |
| Client (A3) | `A3/handout/src/networking.c`, `python/client/client.py` | `database.txt` with user and salt, the copies of files | register, get file | the salt is saved before the server knows the user; blocks in any order; connections that are cut |
| Simulated memory (A5) | `A5/src/memory.c` | 64 KiB pages, allocated on demand | read and write of 1, 2, 4 bytes | byte lanes, misalignment |
| Assembly table (A5) | `A5/src/assembly.c` | open-addressing hash table | set, get, grow and rehash | a rehash that fails and starts over |
| Loader (A5) | `A5/src/main.c`, `read_exec.c` | the line that is read, the next argument | arguments and a disassembly file into memory and table | columns taken for data, addresses that overlap |
| Simulator (A5) | `A5/src/simulate.c`, `decode_helpers.c` | PC, 32 registers, memory, log | one RV32IM instruction per step | decoding masks, signs, x0, overflow, division by zero |
| Radix tree (A6) | `A6/handout/radix.c` (`radix_1.0.c` is the same) | a binary tree that skips bits, with counts in its leaves | add, take in order, release | branches injected and removed, reuse of memory |
| Run-time library (A6) | `A6/handout/lib.c` | heap limit, free lists by size | allocate, release, buffered integers | reuse of a released block |
| Scripts, tests, socket helpers, SHA-256 | `A6/handout/gcc.py`, `compsys_helpers.c`, `sha256.c`, ... | none that lasts | input, output, third-party code | nothing a model would show |

How they interact. The two A4 peers speak one protocol over TCP and may be
mixed freely (`A4/handout/README.md`: "in theory every peer on the network will
be exactly the same"). The A3 clients talk to the A3 server the same way. In A5
the loader fills the memory and the assembly table, and the simulator uses both.
In A6 the tree calls the library; the compiled result runs in the simulator.

What is right, per part: a peer's list has no duplicates, every registration is
answered and becomes known to everybody, a mutex is never leaked; a transferred
file equals the served one; a user who saved a salt can log in; the table
returns what was last set; memory behaves as a flat array of bytes; the loaded
program and its arguments are where the program looks for them; every
instruction does what RV32IM says, and is logged under the text it has; numbers come back sorted, each as often as it was added; live blocks of the heap
are disjoint.

## 2. The networks of peers (A4)

### Modules

* `PeerNet` holds what both programs share: the constants, the variables, the
  life of a connection (`Ask`, `Dial`, `Finish`, `HangUp`, `Eof`), the death of a
  process (`Crash`), `Init`, `Listen` and `TypeOK`.
* `CPeer` is `peer.c`: `CClient` is `client_thread` with the part of
  `send_message` a REGISTER or RETRIEVE runs, `CHandler` is
  `handle_server_request` with the three handlers.
* `PyPeer` is `peer.py`: `PyClient` and `PyPick` are `run_client` and `to_server`,
  `PyHandler` is `RequestHandler`.
* `PeerNetwork` composes them to a network of any mix of both (`CPeers`,
  `PyPeers`) and states the properties.
* `MCPeerNetwork` gives the topologies for TLC; `PeerNetworkProofs` proves.

### State

A thread is a client (named by its peer) or a handler (named by the connection
it serves). `network[p]`, `mutex[p]` are `network`, `network_mutex` of `p`;
`conn[c]` is the request on a connection, `reply[c]` what was written back,
`call[t]` the connection on which `t` waits. `seen[t]` and `at[t]` are local
variables: a copy of a list and the position in a loop over one. `Garbage` is an
entry whose bytes were never written.

### What is one step

One critical section, or one round of a loop that makes a network call, is one
step; everything another thread could do in between can happen between two
steps. `get_random_peer` of `peer.c` reads the list without the mutex and so takes
two steps (`CScan`, `CPick`). `PyTouch` (timestamps) and `PyRegister` or `PyAdd`
are separate, because the code releases the mutex between them.

### Abstractions

* A connection is made and its request read in one step when the peer listens;
  otherwise the connect fails. A message is not lost: TCP. `PyAnnounce` does not
  wait: the INFORM is handled later, in any order.
* The C caller that gets no connection or no reply parses its own request as the
  reply header: the first bytes of its IP string become a length and the next
  ones a status. Either the copy of that many bytes faults, or an unexpected
  status ends the call: both are outcomes (`FaultWithoutReply`, `CEof`, `Send`).
* A Python peer reads a reply with one `recv`, which may return a part of it
  (`peer.py:492-503`): the check of the block fails, or the parsing raises and ends the
  client (`PyReply`, `PyRetrieved`). `Partial` says whether that happens.
* A write to a connection the other end has closed is not a failure here (on the
  C side it could raise SIGPIPE, but only after the caller crashed).
* Contents of files are not here but in `FileExchange` (section 4): `CServe` and
  `PyServe` keep whether the file exists, with the crash of `fclose(NULL)`. The
  second mutex protects only files.
* A `Garbage` entry read by `peer.c` is a wild pointer: a fault, or the address of
  any peer or of nobody (`Reads`). An entry received from another peer whose
  bytes are no address is the same value: the C reader may then fault too, which
  is more than it does; the Python reader may raise while decoding it.
* Malformed requests are left out: both programs build theirs correctly.
* `quit` at the prompt only stops the users' retrievals (`Found` may be `{}`).
* Time is `Age`: a minute without a request makes all entries old at once.

### Runs

The passing runs have three peers. `PyStar` and `Mixed` have five connections, which is
enough: six give the same number of states (a peer has at most one call of its own
client open, plus the INFORMs of one announcement). `Aged` has three, so that a
call or an announcement may have to wait for a handler to end; with one million states
it is the largest. A network may rightly stop, once nothing is in progress or its C peers
hang, so no run checks deadlock.

| Run | Network | Shows |
|---|---|---|
| `PyStar` | Python, p2 and p3 contact p1, all listen, fair | no registration lost, agreement when quiet, in the end everybody knows everybody |
| `Aged` | Python p2 and C p3 contact Python p1; p2 listens late, entries age, replies come in parts, users ask for files | lists of Python peers stay without duplicates, announcements stay right when entries are removed and announcements fail; mutexes through exceptions in the loop of announcements, and while `handle_inform` damages the list of p3 and its client crashes on it |
| `Mixed` | C p1, p2 and Python p3 in a chain, files found or not, replies in parts, fair | mutexes through hangs, crashes and calls without a reply; the self-deadlock never resolves; the Python peer answers all the same |
| `CStarLive` | C only, fair | **violation**: a registration is never answered (deadlock of `handle_register`) |
| `LatePeer` | Python p2, p3, p4 contact p1, the server of p2 is not up yet | **violation**: a peer that listens is never told of a newcomer |

Three peers are the least with a sender, a newcomer and somebody to be told; the
star makes two newcomers race at one peer, the chain makes a peer register while
it is being registered with. `LatePeer` needs a fourth, behind the one that is not
reached.

In `PyStar` no connect fails, so that `QuietAgreement` and `Converges` say nothing of
failing announcements; what those do is `LatePeer`. `Aged` reaches one INFORM at a C
peer, the damaged list and its pick. That such a list is gone through once more by
`handle_register` or appended to (`CInform`, `CAppend` with `Garbage` in the list) takes a
C peer that is informed and registered with, and is in the proofs only.

Fairness (`FairSpec`): every thread that can step infinitely long does (weak
fairness of each `ThreadStep`), since the operating system schedules all threads
and a free mutex is eventually given to a waiting thread; every server reaches
its accept loop. Users need not ask for anything, no minute need pass. Weak
fairness is not enough in general for a mutex that others take again and again;
here each peer takes part in finitely many exchanges in the live runs, so it is.

The model also has behaviours that no document contradicts and no run singles
out: `rand() % 0` when a C peer knows no other (`peer.c:120`), lists that are read
while they are replaced (`peer.c:98-119`; `CPick` crashes or calls any address), the entry
of a C list that nobody wrote (`peer.c:533`) and C lists with doubles, and a peer that is removed a minute after it was added though it was
heard from since (`peer.py:130`: the assignment to a tuple raises and is skipped).

### Proofs

`PeerNetworkProofs` proves for any sets of peers and connections, any contacts
and ports:

* `TypeCorrect`: `Spec => []TypeOK`;
* `MutexCorrect`: `Spec => []LockDiscipline`;
* `SelfDeadlockIsPermanent`: `Spec => StuckForGood`;
* `PyListsCorrect`: `Spec => []PyListsOnce`;
* `InformsAreNews`: `Spec => []InformsOfNewcomer`;
* `ContactKnows`: `~Ageing => (Spec => []KnownToContact)`;
* `StarsAgree`: `Stars => (Spec => []QuietAgreement)`.

The inductive invariant of the first four is `IInv`: the types of the lists (with the
fact that a Python peer's list is never empty, so that its head exists), `Wired` (a free
connection has no handler, no reply and no caller; two threads never wait on one
connection; a waiting thread waits on a connection in use), `LockDiscipline`, and
`HasList` (a handler that is about to announce has the list it answered with, so
that its last element exists). `LockDiscipline` alone is not inductive: without
`Wired` a connection could be reused while its handler is inside a critical
section. Each action is one step of the argument; the lemmas `AskWired`,
`HangUpWired`, `FinishWired`, `CrashWired` and their `Lock` counterparts say what
the shared operations preserve.

The last three add what the requests in flight say, each on top of the one before:

* `NewsInv`: the copy of the list a registration is answered with ends with who
  registered, and neither the sender nor the receiver of an INFORM is its subject. The
  announcement takes the last element of that copy (`unpack_from` leaves its variables
  at the last entry), so the theorem is about the order of two loops. `PyListsOnce` is
  needed: the peer itself is first in its list and so is not its own newcomer.
* `KnownInv` follows a registration: a handler that is past its critical section has the
  registering peer in the list of its own (`Registered`), the client waits on a
  connection that carries its own REGISTER to its contact (`Asks`), and a client that
  merges or is done is listed (`Listed`). `~Ageing` is a hypothesis because the
  property is false with ageing: `peer.py` removes a peer a minute after it was added.
* `AgreeInv` says for every two peers p and q that a first peer lists where the news of q
  is on its way to p (`Agree`): p lists q; or the client of p is reading or merging a
  list with q in it (`Reading`); or some handler is going to tell (`Telling`): one that
  answers p with a copy that has q in it, one that answers q and has yet to come to p in
  its loop of announcements, or one that has received the INFORM at p. Each action
  hands the news from one of these to the next. In a quiet network only the first is left.
  `Stars` names what that takes: all peers run `peer.py` (`peer.c` loses entries), all
  accept connections from the start (an announcement to one that does not ends the
  loop, `peer.py:257`; the run `LatePeer` is such a network), nothing ages, replies are
  read whole, and a peer that is contacted contacts nobody, so that
  a peer is told of others by one first peer only. The run `PyStar` is such a network, with
  one first peer; the theorem has any number of them and of peers that join.

Only model-checked: the liveness properties, which the prover cannot treat.

## 3. The assembly table (A5)

### Model

`AssemblyTable` is `assembly.c`: `Set` is `assembly_set`, `Get` is `assembly_get`,
`Grow`, `Rehash` and `Retry` are `assembly_grow_and_rehash` and the loop around it.
A table is a record of its size and its slots, `Find` and `FindEmpty` are the two
searches, which look at four slots from `addr % size` on. The program has one
thread; the steps inside a growth are separate so that the invariants speak of
the half-copied table. One round of the copying loop is one step; a round that
finds no slot starts over with a table of size `2n + 1`, as the code does, and
the old table is the one it started from.

`AddrMap` is the abstract directory: a function from addresses to texts that is
set and looked up. `Implements` says that the table is this directory, where a
set takes effect when its entry is written and all of a growth is a stutter. That
a step is some step of the directory would allow a call to do another call's
work, so `Implements` also says, by `AsCalled`, that the effect is at the address
and with the text of the call.

Left out: `assembly_delete` (it only frees), a `calloc` that fails, and negative
addresses (`AddrAssumption`: `sscanf` reads 32 bits and the test programs are
linked below 2^31; a negative one would be a negative index, `assembly.c:25`). The
text is a value; its truncation to the buffer happens in the loader.

### Run and proofs

`Table` checks all of it for six addresses and two texts: multiples of 19 that
fill a run of slots in the tables of 4 and 9 and cannot all be placed in that of
19, so that growths start over and are repeated (tables up to 39). Deadlock is
checked: some call is always possible. `SetReturns` (every growth ends) assumes
only that a call that began runs on; it holds for these addresses and is not
proved: it needs that sizes `2n + 1` in the end separate any five addresses.

`AssemblyTableProofs` proves for any addresses and texts that the inductive
invariant `IInv` = `TypeOK`, `TablesSound`, `Copied`, `GrowsForStranger` holds, and
from it `TableImplements`: `Spec => Implements`. None of the parts is inductive
alone: that an entry of the old table is not in the new one yet (`NotYetCopied`)
needs the soundness of the old table and that only the first `next` slots have
been copied; without it the copying could make two entries for an address.

## 4. The exchange of files (A4)

### Model

`Blocks` is how both programs cut data into blocks (`PyCount`, `CCount`, `Piece`)
and put them together (`WriteAt` with `UpToNul` is `fseek` and `fputs` of `peer.c`,
`Joined` the sorting of `peer.py`). `FileExchange` has peers of both kinds that
retrieve one file from each other. `CStore`, `CGiveUp`, `CEof`, `CCheck` are the
retrieving part of `send_message`; `PyStore` to `PyWrite` are `send_to_server` and the
rest of `to_server`; `PyAdmit`, `PyLoad`, `PySend` and `COpen`, `CRead`, `CSend` are the
handlers. `file[p]` is what the directory of p holds, `wire[c]` the blocks on a
connection, `job[c]` the handler's buffer and the numbers still to be sent,
`holder[q]` is `retrieving_mutex` of a C peer, `listed[p]` says whether the name is
in `currently_retreiving`. `had`, `before` and `how` are history: the contents the
served file had during a retrieval, the client's own before it, and the outcome.

A step is one read or write of a file, or one block on a connection. The file of a
peer is replaced by that peer's own client, while its handlers serve it.

Abstractions:

* A hash is the data it is computed from: SHA-256 has no collisions.
* A block has B = 2 bytes instead of 8116 (8196 minus a header of 80; both
  programs have the same maximum). Contents are none, one byte less than two
  blocks, exactly one block, and one with a byte 0.
* All peers retrieve the same name. A peer that is asked may be dead: a C client goes
  on as at the end of a stream, a Python client raises.
* At the end of a stream before the first block a C client parses its own request as
  the header (`peer.c:184-205`). `CEof` has what may follow: it gives up; or the end of
  its IP string, taken for the number of blocks, is 0, the loop is skipped and the file
  does not have the hash (305-322); or a copy of a wrong length ends the process.
* A handler's write never blocks: a client that does not read at all, while
  `retrieving_mutex` is held for it, is not modelled.
* The stdio buffer of `fread` is `CRead`: the first bytes of a block may be those
  of an earlier read.
* A block is received whole or the client fails: `recv` may return a part,
  which `peer.py` does not wait for (`PyGiveUp`, `PyRaise`); `peer.c` reads on.
* Contents have no carriage returns and are valid UTF-8: `peer.py` writes text.
* Once a client has gone, a write of the handler may raise (Python: the handler
  ends) or kill the process (C: SIGPIPE), or still succeed.

### Runs

Users ask a bounded number of times (`Tries`), so the system may stop: deadlock is
not checked.

| Run | Peers and files | Shows |
|---|---|---|
| `Files` | C p1, p2, Python p3, p4; three versions and none, or two, an empty one and none; one retrieval each, p4 only serves; 2 connections; fair | what a client accepts was the file once, what it rejects had a cause, mutex and list are held only while they should be; every retrieval ends, though handlers of a C peer wait for one mutex and processes die |
| `HalfFile` | Python only | **violation**: a file is served while it is half written |

Two connections are the fewest with which a file is replaced while it is served, and
with which two handlers wait for one mutex; the third client asks when one of them is
free. Three, without the fairness, and the first contents have a million states and were
checked too. Fairness is that of threads: each client and each handler that can step
does. The user need not ask.

`VerifiedCopy` is about any change of the served file between any two blocks: the
hash that travels with the last block is compared with the file on disk, so that
a mixture of two versions is not taken for the file. `MismatchHasCause` states
when the comparison fails although nobody changed anything and the served peer lives:
the client's own older file was longer (`fopen` with `r+b`, `peer.c:285`, keeps its tail)
or the file holds a zero byte (`fputs` stops there). A peer that died is the other cause:
after it any client may call its file wrong, also an intact one (`CEof`).

### Proofs

`FileExchangeProofs` proves `RetrievingMutex` (`Spec => []MutexHeldToServe`) and
`ListedTruly` (`Spec => []ListedWhileBusy`) for any peers, connections and contents.
The invariant `IInv` is both with the types of the control state (`Shape`); they
are proved together because one step of a peer moves a client and a handler.

It also proves `CopiesVerified` (`Spec => []VerifiedCopy`). Its invariant
`CopyInv` follows the hash of the file from the peer that serves it to the peer that
compares it: what the served peer has now is among the contents the client may
accept, so is what a Python handler has loaded, every hash on the wire (`Known`) and
every hash received (`Gathered`). `Wired` is needed because connections are used
again: a client waits on a connection of its own, and where nobody reads, nothing
is left that the next reader would take for its own.

`FilesTyped` (`TypeOK`), `AbortsHaveCause` (`AbortHasCause`), `MismatchesHaveCause`
(`MismatchHasCause`) and `PyCopies` (`PyCopy`) are the other safety properties of the
runs, for any peers, contents, block size and number of tries. They are about whole
streams of blocks, so `CopyInv`, which looks at hashes, does not give them.
`StreamInv`, which is inductive together with it (`AllInvariant`), says of each
client that waits (`StreamOK`): there is one content f such that what it has received,
and after it what is on the wire, are the first blocks of f, or of something of its
length. `Numbered` means that each number occurs once (the order is free, both
programs shuffle), `Remaining` that the handler has kept the others, `Faithful` that
payload and hash are those of f. That f was the file (`Sure`) is known when the
handler is a Python one, which reads the file at once, or when the file did not
change; a C handler reads block by block, and f is then only a length.

Further parts: `KeptOK` carries the stream over to the writing of a Python client,
whose connection is already free; `WrittenOK` says that the copy of a C client has
each block that came at its place (`Placed`), if the served file did not change, has
no zero byte and is not shorter than the old copy; `EndOK` keeps what the
outcome means until the next retrieval; `ServeOK` says why a C handler never comes to
the end of its file too early: only its own client writes the file while it is
served, with `r+b`, which shortens nothing, and what is left to send is an end of
0 .. count - 1.
From there `MismatchesHaveCause` is an argument about positions (blocks that are all
placed are the file, if nothing of the old copy sticks out) and `PyCopies` that the
sorted pieces of f, appended, are f: two inductions over the number of blocks, done
by a least element (`LeastNat`).

The assumptions: that peers, connections and `None` are distinct, that a block has at
least one byte (`BlockAssumption`), that what the files start with are contents
(`StartsAssumption`), and that a missing file is none (`MissingAssumption`).

## 5. The file service (A3)

### Model

`FileService` has the server (`server.py`, a thread per connection), C clients
(`networking.c`), which share one `database.txt`, and Python clients (`client.py`)
with their fixed salt. `Start` to `Quit` are the clients' programs, `CheckName`,
`Enter` and `Serve` the handlers; `CheckName` and `Enter` are two steps because
`_register_new_user` looks a name up and enters it without a lock. Any program may
be killed at any step (`Quit`), and the server stopped and started (`Stop`,
`StartServer`), which loses its users but not `database.txt`.

A text is a number of blocks (`Blocks`), block n of which holds n. `Serve` sends them
in any order (`random.shuffle`). The C client reads and writes a block per round
(`CStore`, the loop of `get_file`), each where its number says (`Put`); the Python
client collects all (`PyOpen` empties its file, `PyWrite` writes the blocks in order).
C clients of one directory share one `copy`, each Python client has its own.
`Cut` is the loss of what has not been read of an answer: when the server stops, or
when it closes a connection on which a C client has sent 8192 bytes (`MAXLINE`,
`networking.c:129,182`) of which the server has read 1024 (`server.py:55`), so that TCP
resets it. `get_file` ignores what `readn` returns, and goes on with the header and the
payload its buffers hold: `CStore` then writes `Junk` at the last block or at one more
(whose header came), `Eof` if not even the first header came.

Abstractions:

* A signature is the pair of password and salt (no collisions of the hash).
* What a user asks for is one of a file with text, an empty one and a missing
  one. Only the copies of the text are followed; it does not change on the server.
* `Junk` is whatever an uninitialized or stale buffer holds, `Hole` what has not been
  written of a file that was emptied. The buffer of `fwrite` is left out: what a killed
  C client leaves of its file is no subject of a property.
* A malformed request changes nothing and is left out, and so is a `recv` of the server
  that returns a part of one; both clients send whole, valid requests. A `recv` of
  `client.py` that returns a part of a block ends in a wrong hash or an exception
  (`PyGiveUp`).
* `database.txt` exists (the C client would stop without it) and has short lines.
* `rand()` is seeded with the time: any salt may be drawn, the same one twice.

### Runs

The programs are started a bounded number of times, so the system may stop:
deadlock is not checked.

| Run | System | Shows |
|---|---|---|
| `Accounts` | one C and one Python client, each started twice, one server that starts late and restarts once, 2 connections, 2 passwords, 2 salts, one name and the empty one, a text of 2 blocks | salts are on disk, the right password is not turned away, a text is copied whole or was cut off |
| `Race` | two C clients, one name | **violation**: two registrations of one name are both answered OK |

Two connections are enough: a client uses one at a time, and a killed client
leaves its request behind on the other. Clients, salts, passwords and
connections are interchangeable (`Alike`); no liveness is checked, so symmetry is
sound. `RightPasswordWorks` supposes one C client at a time: two of them may draw
two salts for a name. The request of an empty file is not answered: the server makes no
block of one (`Served`, `server.py:249`; section 9). A Python client may
register again and again (an empty line at its prompt, `client.py:244-251`). Two blocks are
the fewest that come in two orders and can be cut between; `CopyTrue` says that a
client which prompts again has the whole text or its old file, with the one
exception the code makes: a C client whose answer was cut off does not notice.
`CopyTrue` also supposes one C client at a time, for two of them write one file.

### Proofs

`FileServiceProofs` proves every property of the run `Accounts`, for any number of
clients, users, salts, files, blocks and restarts.

* `FileServiceTyped` (`Spec => []TypeOK`) is more than bookkeeping: that what
  `PyWrite` writes is a text needs that all blocks are there. `NetInv` says so: a client
  has a connection of its own as long as it waits (`Calls`), a connection is kept open
  for whoever reads it (`Ends`), what is on it fits the request (`Wires`), and who
  writes has read all blocks and nobody can cut them (`Rounds`).
* `NoSaltIsLost` (`Spec => []SaltSaved`): `SaltInv` follows a salt on its way. It is on
  disk before the client asks to register and as long as it runs (`SaltKnown`), while
  the request is on a connection or its client already killed (`SaltSent`), and once
  the server has it. The order of `Save` before `Register` in `networking.c:374-387` is
  what makes it true.
* `RightPasswordStays` (`OneAtATime => (Spec => RightPasswordWorks)`): with one C client
  `database.txt` has one line per user (`OneLine`), so that the salt of a request and
  that of the user the server knows, both on disk, are one (`OneSalt`).
* `TextIsWhole` (`OneAtATime => (Spec => CopyTrue)`): `CopyInv` says that the blocks a C
  client has read are where they belong unless it was cut off; `PutKeeps` is the step.
  `OneAtATime` is a hypothesis about the constants (at most one C client), satisfied by
  the run and false of the code without it.

A consequence of the same order that nothing repairs: a user whose line was
written but whose registration failed is found in `database.txt` from then on and
never registered (`networking.c:361-374`).

## 6. The simulator (A5)

### Modules

* `Memory` is `memory.c`: an operator per access. `GetPage` is `get_page`, which
  creates a page also for a read, and for a read before the alignment is checked.
  A word is the function of its four bytes, so that the masks and shifts of the
  code are the choice of lanes; an address is the number its 32 bits are without
  a sign. `ByteMemory` is the promise: a byte per address, zero at first, of which
  one, two or four are loaded or stored, and an end of the program at an unaligned
  access.
* `Words` has the arithmetic of `int32_t` and `uint32_t` for bytes of any width.
* `Decode` is `decode_helpers.c`, shift by shift and mask by mask on 32 bits, with
  the switches of `simulate.c` that choose the operation. `Formats` is the promise:
  the fields, immediates and encodings of RV32IM.
* `Loader` is `main.c` and `read_exec.c`: `PassArg` a round of
  `pass_args_to_program`, `ReadData`, `ReadInsn`, `ReadEntry` and `ReadOther` a line
  of the file, `Perform` one write of them to the memory.
* `Simulator` is `simulate.c`: `Start`, and for each instruction `Fetch` and
  `Execute`, whose disjuncts are the functions of the code by type. `Isa` is the
  promise: the RV32IM machine over a memory of bytes, with the environment calls
  of `simulate.h`.
* `Machine` composes them and states the properties; `MCMachine` has the programs
  for TLC; `MemoryProofs` and `MachineProofs` prove.

### The machine that is built and the one that is promised

`Executes` says that each step is one of `Isa`, with the registers as the next
instruction sees them (x0 zeroed). It names by `Deviates` where it is not:

| Operator | Deviation | Code |
|---|---|---|
| `HighRegister` | the first source register loses the highest bit of its number: s2 is read as sp | `decode_helpers.c:38` |
| `LooseJump` | `jalr` reads x0 before it is zeroed, and keeps bit 0 of its target | `simulate.c:46` |
| `SignedShift` | `srl` and `srli` shift an `int` and keep the sign | `simulate.c:257`, `455` |
| `SignedProduct` | `mulhu` and `mulhsu` take all operands as signed, though the comments at 163 and 169 call them unsigned: an `int` cast to `uint64_t` is extended with its sign first | `simulate.c:165`, `171` |
| `Undefined` | a division by zero, or of the smallest int by -1: a signal, or some result | `helper_extension` |
| `Meaningless` | an unknown opcode, funct3 or call leaves the PC: the program repeats it for ever; an unknown funct7 runs a neighbour | the `default` cases |
| `NoPlace` | with `-l` an instruction in the upper half has a negative index in the assembly table | `assembly.c:25` |

Beside these, `memset` clears only 8 of the 32 registers (`Leftovers`: what the
others hold is whatever was there), and a line of less than four full blocks
of a data section is followed by its ASCII column, which is data again if it
looks like hexes (`Hexes`, `Spoilt`).

### Abstractions

* A byte has any width and the word four of them; the operations on bytes are
  constants (`ByteAnd`, ...) that `OperationsAssumption` defines by bits. An
  instruction has its 32 bits whatever the width is: `Code` says which instruction
  a word of memory is. In the code this is the identity.
* Undefined behaviour in sums and shifts is what the builds do: they wrap, and a
  shift takes the low bits of its count.
* A line of the file is what `sscanf` makes of it; how lines are told apart and cut
  is left out. The assembly table is the directory that section 3 shows it to be;
  the empty text is `NoText`.
* The measured time, the summary and the wording of the log are left out, and so
  are `memory_delete` (it frees at the exit) and a `calloc` that fails.

### Run

`Machine` has bytes of 4 bits, so words of 16, and 128 of them in two pages. The 61
instructions of `Book` are all operations with both signs of every immediate, the
high register numbers and the encodings next to the known ones; each runs first
in a program, followed by a jump, by a call or by a store over the code, with 36
pairs of operands (the smallest int, small numbers of both signs, a large one, and
an address of data) and with what is left in a7 as the call. Words of 16 bits make
a carry out of each byte, an overflow and a sign in each width as likely as words
of 32; programs of three instructions (`MaxInstructions`) are enough for one to be
repeated after it has been logged and for the code to be overwritten. The other
command lines have arguments (none, an empty one, several), files about the place
of the arguments, ASCII columns before and after the line they spoil, lines given
twice, and what makes the loader give up. The program ends, so deadlock is not
checked.

`LogTrue` and `ImageLoaded` have exceptions: a text that the log gave an address in an
earlier pass is taken as it is, encodings that mean nothing may have any name, and
bytes that an ASCII column spoilt may be anything. So they do not show that the log or
the image is right there; it is not.

### Proofs

`MemoryProofs` proves `MemoryImplements` for any number and size of pages: each
access is that access of `ByteMemory`. The lemmas are about the place of a byte:
two addresses have the same page, word and lane only if they are the same (by
division with remainder), and an aligned access stays within one word.

`MachineProofs` proves, for any width of a byte, layout of the pages, program,
file and arguments:

* `MachineTypes`: `Spec => []TypeOK`. `TypeOK` is inductive as it stands; that what
  an instruction puts into a register is a word is one lemma per group of
  instructions (`SumType`, `ProductType`, `ImmediateType`, `ValueType`).
* `MachineExecutes`: `Spec => Executes`. `FieldsTrue`, `ImmediatesTrue` and
  `OperationTrue` say that the masks and shifts of `Decode` take the fields of
  `Formats` from all 2^32 encodings and that the switches find the operation;
  `ExecuteStep` takes each instruction that does not deviate to one of `Isa`, loads
  and stores by `MemoryImplements`.
* `MachineLogs`: `Spec => LogTrue`. The log both reads the table and writes it, so
  the invariant is `TextsTrue`: while the file is read the table has the last text
  of the lines that were read (`Latest`), and after that an address for which the
  file has a text keeps it, because the log writes only what it has found.

* `MachineImage`: `Spec => []ImageLoaded`, and `MachineArguments`:
  `Spec => [](str_addr \in Addresses \cap Ints => ArgumentsPassed)`. A call of the
  loader is many writes, between which memory is neither what it was nor what the
  line says, so the invariant `LoadedInv` is about `Will`, the byte an address has
  once the writes to be done are done. Byte for byte, each line that was read is
  there or a later line has been written over it (`Image`), and each argument that
  was passed is there with its pointer, unless the file is about those addresses
  (`Arguments`). `ReadDataLoaded`, `ReadInsnLoaded` and `PassArgLoaded` say that a
  line and an argument queue their own bytes and disturb no others; `PerformLoaded`
  that a write done changes nothing of what will be. At the start nothing is to be
  done, so `Will` is the memory. The hypothesis says that the end of the last
  argument is an address of the memory and no negative int; with the base at
  0x1000000 that is two gigabytes of arguments away. TLC checked `LoadedInv` with the
  bounds of the run before it was proved.

## 7. The radix tree and its heap (A6)

### Model

`Allocator` is `allocate` and `release` of `lib.c`. A block is named by its first
address, `size` holds the size fields of the blocks in use, `headers` the free
lists, which the code keeps in the blocks themselves, and `free_space` the end of
the heap. The clearing of the lists at the first call is part of `HeapInit` where
the code remembers it (`Remembers`); the copy of the library in
`A5/src/test_files/lib.c` sets `initialized` to 0 there and so forgets all free
blocks at each call, and `Kept` is that.

`RadixTree` EXTENDS it with `radix.c`. `node` is the memory of the nodes, `bit_pos`
the number of a bit instead of its value. `Create`, `Inject`, `Descend` and `Count`
are the rounds of the loop of `add_number`; `TakeFrom`, `VisitBranch`, `VisitNothing`
and `Leave` are `take_numbers_2` with `stack` for its calls, `Write` the loop of `main`
around it, `ReleaseBranch` and `ReleaseNode` are `release_tree`. A pointer to a
pointer (`parent`) is a pair of a block and one of its links, or `Root`.

`SortedBag` is the promise: a number that was read is added once, and a take
yields the smallest numbers of the bag, as many as were asked for or as there
are. A number counts when its leaf counts it, whatever the tree is at that time.

Abstractions:

* The input is any sequence of commands; numbers are read one by one (the code
  reads up to 100 at once, before it acts on any of them), and an error ends the
  input as its end does.
* A write is complete. `write_int_buffer` may write a part; the code then writes
  the buffer again from its start (`radix.c:174-177`).
* Requests the small-block allocator refuses (`NULL`) are no steps; the tree asks
  only for nodes. The heap has no end, as in the code.

### Run and proof

`Radix` has numbers of three bits, so that a branch can be injected at, between
and below others, inputs of at most five commands, takes of one and of three with
a buffer of two (a take that fills the buffer, and comes back for the rest), and
chunks of two blocks, so that there are several chunks and blocks used again. The
program ends, so deadlock is not checked. `CommandsEnd` assumes that the program
runs on when it does not wait for input (`WF` of `Run`): it has one thread.

`AllocatorProofs` proves `BlocksApart` (`HeapSpec => []HeapSound`) for any sizes,
chunks and orders of calls and for both copies of the library. `HeapSound` with
the types of the lists (`HeapTypes`, among them that a size is a multiple of 8 that
has a list) is inductive. `CutSound` is the arithmetic of a chunk; `ChoiceSound`
says that what `allocate` chooses from, the old list or the new chunk, is apart from
everything else. The theorem is about `HeapSpec`, the heap under any program.

`RadixTreeProofs` proves every safety property of the run, for numbers of any
width, any input, any size of the buffer and any heap:

* `RadixUsesHeap` (`Spec => HeapSpec`): the program is such a user of the heap. It needs
  that a node that is released is in use, so that `HeapSound` carries over
  (`RadixHeapSound`).
* `RadixOneTree`, `RadixWellFormed`, `RadixReleases`, `RadixTyped`: `OneLink`, `WellFormed`,
  `AllReleased` and `TypeOK`.
* `RadixImplements` (`Spec => Implements`): each step is one of `SortedBag` or changes
  nothing it can see.

None of the properties is inductive, and reachability from the root, which one
would like to speak of, is a recursion. `Tree(m, r, G)` does without it. It says of
any two nodes of the memory `m`, wherever they are, that `Below` depends on their
bits and numbers alone; that every link outside `G` leads to a node that belongs
there (`Linked`); that whoever belongs below a branch belongs below what the branch
has on that side (`Complete`); that no two nodes are for the same numbers
(`Distinct`); and that all are below the root (`Rooted`). One link per node
follows: of the nodes above one, take the lowest (`SomeParent`, `OneParent`). The
operations on such memories are `InsertTree` (a leaf or a branch), `PruneTree` (a node
nobody is below, with its link), `CutTree` (without its link) and `RecountTree`.

`Adding` says that the number belongs where `add_number` looks. For the recursive
functions the invariant has the stack: `Path` says that the frames are a way down from
the root, each at the side that was begun (`Steps`, `Descending`), and `Emptied` that
nothing is left on the sides that are done, unless the buffer is full. So a branch
that is left has both links, or its node is alone, and what a leaf gives is smaller
than whatever is still in the tree: of a leaf elsewhere take the lowest frame above
both; it is on the side not yet done, and `FirstDifference` orders the numbers. For
`release_tree` the same way holds with the links it leaves behind as `G` (`Dangling`),
and for the empty stack that nothing is in use.

The bits of a number are quotients by powers of two; `AgreeQuotient` says that two
numbers agree above a bit if and only if their quotients are the same. It is an
induction over the bits, done by a least element of a set of numbers (`LeastNat`),
which needs no operator as a parameter. The invariant was checked by TLC with the
bounds of the run before it was proved.

## 8. What is proved and what is only checked

| Module | Proved for all constants | Only checked on small instances |
|---|---|---|
| `PeerNetwork` | `TypeOK`, `LockDiscipline`, `StuckForGood`, `PyListsOnce`, `InformsOfNewcomer`; `KnownToContact` without ageing; `QuietAgreement` for stars of Python peers that all listen | `Converges`, `PyAnswers` |
| `AssemblyTable` | `TypeOK`, `TablesSound`, `Copied`, `GrowsForStranger`, `Implements` | `SetReturns` |
| `FileExchange` | `TypeOK`, `VerifiedCopy`, `MutexHeldToServe`, `ListedWhileBusy`, `AbortHasCause`, `MismatchHasCause`, `PyCopy` | `EveryRetrievalEnds` |
| `FileService` | `TypeOK`, `SaltSaved`; with one C client `RightPasswordWorks`, `CopyTrue` | |
| `Memory` | each access as one of `ByteMemory` (`MemoryImplements`) | |
| `Machine` (with `Loader`, `Simulator`, `Decode`) | `TypeOK`, `Executes`, `LogTrue`, `ImageLoaded`; `ArgumentsPassed` for arguments that end within the memory | |
| `Allocator`, `RadixTree` | `HeapSound` (of any `HeapSpec` and of the program), `TypeOK`, `OneLink`, `WellFormed`, `AllReleased`, `Implements` | `CommandsEnd` |

Liveness under fairness is out of the prover's reach and stays with TLC. Induction
theorems that take an operator as a parameter cannot be used either; where an
induction is over numbers (the bits in `RadixTreeProofs`, the blocks in
`FileExchangeProofs`, the last line about a byte in `MachineProofs`), the proof takes
the least or the greatest element of a set (`LeastNat`, `Greatest`, from `WFMin`). The proofs rest on the named
assumptions of the modules about their constants: that peers, connections and
`None` are distinct, that bounds are natural numbers, and for the machine that a
power of two is a natural number, that the number of bytes is the power of two of
their width, that the operations on bytes give bytes (`WordsAssumption`), and that a
line of data has at most the 16 bytes that `count_hexes` counts in its four blocks
and the memory at least as many (`DataAssumption`): a line of more bytes than the
memory has would write over itself. The
powers are assumed because exponentiation is no operation of the provers.

## 9. Disagreements between code and documents

Four runs end in a counterexample on purpose: `CStarLive` and `LatePeer` (section 2),
`HalfFile` (section 4) and `Race` (section 5). Each checks one property that a comment
states and the code does not keep; `PROJECT.json` quotes the line.

The models have more of them, which take one actor and one step, and have no run:

| Says | Code | In the model |
|---|---|---|
| "Select a peer from the network at random, without picking the peer defined in my_address" (`peer.c:95`) | `handle_inform` leaves an entry that nobody wrote (`peer.c:533`), and the list is read without its mutex: the pick crashes or is anybody | `CInformed`, `CPick` |
| "Any input message will ALWAYS receive an appropriate response." (`server.py:42`) | an empty file makes no block (`server.py:249`; `peer.py:416` has the branch that is missing) | `Served` |
| "inst[19:15]" (`decode_helpers.c:35`) | the mask has four bits (38) | `HighRegister` |
| "One signed with one unsigned", "Multiply two unsigned numbers" (`simulate.c:163`, 169) | both operands are extended with their sign first | `SignedProduct` |
| "x0 should always be zero" (`simulate.c:48`) | `jalr` has read it two lines before | `LooseJump` |
| "read file into simulated memory" (`read_exec.h:9`) | bytes of the ASCII column are written too (`read_exec.c:80`) | `Hexes`, `Spoilt` |

## 10. Plan

Left to do: writes that write a part, in `RadixTree`.

Not planned: build and measuring scripts, the buffered reads and sockets of the
shared C helpers, SHA-256 (I/O, third-party code or no state), how `sscanf` cuts a
line, and the programs that run inside the simulator (data).
