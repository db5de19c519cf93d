# multisim in TLA+

multisim links simulations that run in separate processes. A *server* simulation and a *client*
simulation share *channels*; a channel has a name, a direction, a push module with a ready/valid
port at one end and a pull module at the other. Below the two modules are a DPI library, a stream
socket (Unix on one host, TCP between hosts) and two functions, `send_msg` and `read_msg`, that make
whole messages of a byte stream.

This directory holds TLA+ models of that stack and of programs that use it, the TLC instances that check
them, and proofs of the safety properties of every part of the library itself, for all values of the constants. Every
definition that stands for code is tied to its lines in `PROJECT.json` ("map").

    tlc -workers 2 -config SocketIo.cfg SocketIo      # any run of the table below
    tlapm SocketIo_proofs.tla                         # any proof module, one to four minutes each

## 1. Inventory

Paths are relative to the library's `src/` directory.

| component | state it keeps | operations | how it interacts |
| - | - | - | - |
| message I/O, `core/socket_server/socket_io.h` | per call: `done`, the part transferred so far | `send_msg`, `read_msg`, `socket_wait_and_retry` | called by the DPI library on a connected socket; loops on `poll(-1)` in the middle of a message |
| socket server, `server.cpp/.h` | listening TCP and Unix sockets, port | `start` (bind loop, listen, Unix socket, info file), `acceptNewSocket` | publishes `server_<name>.txt`; hands connections to the DPI library |
| socket client, `client.cpp/.h` | the address read last, the socket | `start` (wait for the file, Unix, TCP, read again) | reads the info file, connects |
| info file and Unix names, `info_file.h`, `unix_socket.h` | files in `.multisim/` | read, write, name shortening | shared between processes without a lock |
| server DPI library, `multisim_server.cpp` | table of names, one socket per channel | `multisim_server_start`, `..._pull_core`, `..._push_core`, ZeBu deferred calls | accepts a client at the call that finds none, closes it when it is gone |
| client DPI library, `multisim_client.cpp` | table of channels, one socket each | `multisim_client_start`, `..._push_core`, `..._pull_core` | called by the client modules or by software |
| push/pull modules, `core/multisim_{client,server}_{push,pull}.sv` | `data_rdy`, `data_q`; `data_vld`, `data`, `dpi_delay` | one `always @(posedge clk)` each | a DPI call per posedge, back-pressure to the user |
| pull-then-push, `core/multisim_server_pull_then_push.sv` | command and response registers, `dpi_delay`, `grace_pulls` | one process: pull, present, respond, push, retry | the request/response port of a device |
| quasi-static, `quasi_static/*.sv` | `data_prev`, a queue, `data_push`, `data_vld` | sample, offer, show | a channel module inside |
| APB, `apb/*.sv` | the FSM's previous state, latches | request in SETUP, response at `pready` | a request channel and a response channel inside |
| AXI, `axi/*.sv` | none of its own | wiring of five channels | a channel module per AXI channel |
| packing, `multisim_common.h`, `*_common.svh` | none | SystemVerilog vectors to 32-bit words and back, 4-state values | called around `send_msg`/`read_msg` |
| ZeBu calls, `multisim_server.cpp`, `multisim_common.svh` | call counter, status register | deferred DPI calls | the hardware waits for the call count |
| software programs, `example/sw_server/sw_client` | the memory of the read/write server, the loop counters of the tests | the read/write server and its test, the benchmark's modes, `unit/stream.cpp`, `unit/sigpipe.cpp` | two processes of one thread each on two or three channels |
| scripts and SystemVerilog examples | processes | start, kill, compare | users of the library |

What makes it hard, and what correctness means for each part:

* **message I/O**: the kernel cuts messages anywhere, the peer may go at any unit, and a call in the
  middle of a message blocks its simulation. Correct: the stream stays aligned on messages, a result
  of 0 hides no complete message, every call returns.
* **channel modules with the DPI library**: the user, the retry register, the kernel and the data
  register hold items at the same time; clients come, queue in two backlogs and go; an item is "taken"
  from the user before it is sent. Correct: each item is in one place at any time and reaches the
  other user once, in order; a client that waits is served; a client that goes does not stop the rest.
* **rendezvous**: an info file written line by line is read by other processes, stale files survive a
  kill, ports are handed out by order of start, long names are cut. Correct: a client gets a connection, at once
  when nothing was killed, to the server of its name.
* **two channels of one thread**: a call blocked in one channel stops the other; the exit command has a
  channel of its own; a client may be killed in the middle of a message. Correct: no call waits for ever,
  no check of the programs fails, a server that ends leaves nothing unserved.
* **ZeBu calls**: hardware and host count the calls independently, the host's calls come from many threads,
  any of which may be the one that starts a server. Correct: the macro returns the result of its own call,
  a module has the server of its name.
* **pull-then-push**: the process, the device and the two connections hold commands at the same time,
  its two servers notice at different moments that a client has gone, the delay is shifted, capped and frozen
  by a counter that wraps. Correct: every command is answered once, to the client that sent it; the delay
  settles.
* **quasi-static**: the signal may change faster than the channel takes values. Correct: every value
  is shown, in order, and the last one stays.
* **APB**: the phases of a bus are reconstructed at both ends from a `pready` seen one cycle late, and
  two valids are up for one cycle only. Correct: the same transfers at both ends.

`PROJECT.json` lists the hazards at their lines, with the properties that cover each of them.

## 2. Modules

```
MsgChannel   <-- implemented by --  SocketIo  <-- two instances --  SwPrograms
                                       ^
                                 SocketIo_proofs
ClientToServer, ServerToClient     one channel, whole messages, many clients
      |
      +-- implement --> ReadyValid <-- instances -- QuasiStatic (one), ApbBridge (two)
Rendezvous                         how a connection comes to be
PullThenPush                       one server process on two connections
ZebuCalls                          the ZeBu flavour of the server calls
RemoteCall  <-- implemented by --  ZebuCalls, ApbBridge
```

MsgChannel, ReadyValid and RemoteCall are abstract: what a layer promises to the one above it. Each of the other
modules but SwPrograms has a module `<name>_proofs`.

**SocketIo** is one connection used through `send_msg` and `read_msg`. A unit of the stream is known
by its message and its offset in it, so that a unit at a wrong place is seen. `sendDone` is the `done`
of `send_msg`, `readBuf` the first `done` units of the buffer of `read_msg`. One action is one turn of
one of the two loops, that is one system call: some units (`SendSome(k)`, `ReadSome(k)`), nothing
because the buffer is full or empty (`SendAgain`, `ReadAgain`), the peer gone (`SendGone`, `ReadEof`).
In the middle of a message a full or empty buffer is no step: the call waits in `poll()`. The ends may
close at any point. Blocking sockets (`MULTISIM_SW` clients) are two constants.

**MsgChannel** is what a connection promises: whole messages, in order, once, and an end of stream
that leaves none behind. SocketIo implements it, by TLC on its run and by proof in general. This is what
allows the other modules to have whole messages on their connections.

**ClientToServer** and **ServerToClient** are the four push/pull modules with the DPI calls they make.
An action is one posedge of one simulator's clock with its DPI call; under `MULTISIM_SIMULATION` a
call takes no simulated time. The user's side of a port is an environment action: it presents items
when it wants and holds them until they are taken, and has `data_rdy` as it likes. `left` is where the
process stands in `repeat (dpi_delay)`. `sock` is `sockets[idx]`, `unixQ` and `tcpQ` are the backlogs,
and `Accepted` has the order of `acceptNewSocket`: Unix first.

**Rendezvous** has `Server::start()` and `Client::start()` step by step: each `bind`, each line of
the info file and each attempt to connect is an action. A channel name is a sequence of characters;
`InfoFile` and `UnixFile` cut it and append a hash as `info_file_path()` and `unix_socket_file()` do, and
the files and socket paths are indexed by the result: servers that got the same one would share it. `unixAt`
is the server a path leads to, since a server removes what is there before it binds. A kill closes the
server's sockets, leaves its file, and may leave its port unusable for a while (the server does not set
`SO_REUSEADDR`).

**SwPrograms** puts two instances of SocketIo between two processes of one thread each and runs the
repository's software programs on them: the read/write server with its test client, the modes of the
benchmark (ping-pong, stream, upstream, idle), `unit/stream.cpp` with its slow reader, `unit/sigpipe.cpp`. A
program is a sequence of calls with what its code does when the call fails (`while (!...)`, `assert`,
nothing); the read/write server is its own loop, with its memory. One action is one `send` or `read`, so that a process
in the middle of a message does nothing else. The client may be killed at any point.

**ZebuCalls** is what the ZeBu build puts between a module and the functions above: the macro that requests a
call and waits for a count, the process that calls the DPI and lets the latency pass, the status register, and
on the host the mutex, the cache of packed names, `multisim_server_start` at the first call that
names a server, and the call counts. The steps of a host call under the mutex are separate actions, so that a
lock that is missing shows. A host exit (name too long, too many servers) is an action.

**PullThenPush** has the process of that module, its device (as the examples drive it, or one that may
be busy) and clients that come one after another, each on two connections. `cmdSock` and `rspSock` are
the two servers' `sockets[]`: which client each is at, and whether it still has the connection. A client
ends when it has its answers, or is killed (`Killable`). Over TCP (`Tcp`) the kernel may still take a push
after the client has gone; over a Unix socket it does not. `grace_pulls` is an `int` that wraps.

**ReadyValid** is a push module, whole messages and a pull module as the modules above them see
them, without the clients that come and go. It is instantiated, and its `PushPosedge` and `PullPosedge` are
conjuncts of a posedge of the module that uses it. `PullNothing` may happen with a message on the way: it
covers `dpi_delay` and the time a message travels. The two channel modules implement it (`ImplementsChannel`), by TLC on
their runs and by proof in general:

* ClientToServer does so for each client, whatever the others do. What is shown to the server's user is the client's `data`
  as long as it is the client's; the connections of others, the backlogs and the waits look like `PullNothing`.
* ServerToClient does so for a client as long as no other one comes and it stays (`OnlyClient`). With two clients the items
  of the one push module go to one client after the other, which no single channel does; what each gets then is the
  subject of `Consecutive` and `ExactlyOneClient`. A server's push module starts before any client (`StartedInit`).

**RemoteCall** is what a call across two simulations promises: the callee executes it once, while the caller waits, and
the caller goes on with the result of that execution. The macro of ZebuCalls (executed by the host) and the transfer of
ApbBridge (performed by the subordinate at the other end) implement it.

**QuasiStatic** is `multisim_*_quasi_static_push` and `_pull` on one channel; **ApbBridge** is
`multisim_*_apb_push` and `_pull` with their FSMs on a request and a response channel. The client and
server flavours have the same code and differ in the channel module inside, which ReadyValid covers.

The MC modules only give sets to constants. Definitions whose name begins with `Bug` stand next to
the definition they change: each is a plausible mistake in the code, kept to show that a property
notices it; no specification uses them.

## 3. Runs

| run | result | shows |
| - | - | - |
| `socket_io` | holds | the stream stays aligned however it is cut, 0 means drained, calls return, sent is received, refinement of MsgChannel, and the inductive invariant of the proofs |
| `client_to_server` | holds | items are conserved in order through retry register, kernel and data register; clients that wait or have ended already in a backlog are drained before they are closed; refinement of ReadyValid for each client |
| `server_to_client` | holds | each client gets consecutive items, each item goes to one client, a retry goes to the next client when one has gone; a client that is up is in a backlog or accepted; refinement of ReadyValid for an only client |
| `rendezvous` | holds | two long names that begin alike. Without a kill: the right server at the first try; with one: a started server is published as it is, every client connects |
| `rendezvous_stale` | violated | after a kill a client may be connected to the server of another channel |
| `sw_programs` | holds | every program of the examples, with messages that go in pieces: no assertion of theirs fails, calls return although the peer may be killed in the middle of one, nothing is left unserved, both programs end |
| `zebu_calls` | holds | the macro gets the result of its own call over failed calls and a count that wraps, each module has the server of its name in whatever order the threads come, every call returns; refinement of RemoteCall |
| `pull_then_push` | holds | clients one after another: commands and responses are conserved, each client is answered and with its own answers, the delay settles although `grace_pulls` wraps |
| `pull_then_push_busy` | violated | a command that meets `pull_data_rdy` low is lost |
| `pull_then_push_restart` | violated | after a client on TCP the first response to the next client is lost |
| `quasi_static` | holds | every value is shown once, in order, and the last one stays |
| `apb_bridge` | holds | the phases are followed, the ready signals nobody looks at are high when it matters, both ends perform the same transfers; refinement of RemoteCall |

The violated runs are disagreements of the code with what the repository says of it:

* `rendezvous_stale`: README.md says that the unique `server_name` links the two ends of a channel,
  but nothing sent over a connection names the channel, and ports go by order of start. A server is
  killed, another server gets its port, and a client with the old file connects to that one. It needs
  a client that reads the file before the restart and does not use the Unix socket.
* `pull_then_push_busy`: `pull_data_vld` is high for one posedge, `pull_data_rdy` is not waited for.
  The devices of the examples are always ready at that posedge, which is what `pull_then_push` assumes.
* `pull_then_push_restart`: the response server only pushes, so it learns that a client has gone from a
  push that fails. Over TCP the first `send` after the peer has closed succeeds. That push is the
  first response to the next client: it is reported as done, and the next client waits for ever.
  "retry until the client gets the data" (`multisim_server_pull_then_push.sv:106`) and "the client
  disconnected (0, EPIPE...): the next push accepts a new client" (`multisim_server.cpp:141`) hold over Unix
  sockets (client 2 of `pull_then_push` follows one) and for a last client on TCP (client 3 there).

### Bounds

| run | bounds | why they are enough |
| - | - | - |
| `socket_io` | messages of 3 units, buffer of 4, 3 messages | the buffer is larger than a message and no multiple of it: the kernel holds parts of two messages, calls stop at every offset. The proofs have no bound |
| `client_to_server` | 3 clients (2 Unix, 1 TCP), up to 3 items, 1 message per connection, delays 1 and 2 | two clients in one backlog and one in the other; a user that presents the third item while the second is retried and the first is on the way; both waits |
| `server_to_client` | 2 clients, 3 items, 1 message, delays 1 and 2 | a client that goes with the item in its register, on its connection, or before the retry; one that takes over |
| `rendezvous` | 2 names of 3 characters that differ in the last, limits 2 and 1, 2 clients, 1 kill | both names are cut to the same beginning for the file and for the socket; a port that changes hands, at any point of any `start()`, with each kind of client. The proofs have no bound |
| `sw_programs` | 2 messages (addresses), commands of 3 units and responses of 2 over buffers of 2 | each command has to go in pieces, and a stream fills its buffer |
| `zebu_calls` | 2 modules, a count of 1 bit, 3 calls each, latency 1, 2 servers, names of up to 2 characters | the count wraps at every second call; names that the port keeps, cuts to one character too many (an exit), and that end in another's name |
| `pull_then_push` | 3 clients of up to 2 commands, the first killable, the third on TCP, 1 message per connection, delays 0 and 5, grace 2, 4-bit `int` | a response retried while a command waits; a killed client and a client that ended, each before another; from 0 the delay goes 1, 4, 5 (capped); 4 bits wrap after about ten empty pulls |
| `pull_then_push_busy`, `_restart` | 1 client of 2 commands; 2 clients of 1 command | the shortest counterexamples |
| `quasi_static` | 3 values, 5 changes, 1 message | as many values as the registers of the path, its connection and a waiting queue entry hold together |
| `apb_bridge` | 4 transfers, 1 message | back to back and spaced transfers, the first one before the response channel is up. One transfer is in flight at a time, so that more transfers repeat the same states |

No run but `pull_then_push` lists `TypeOK` by itself: each of these is part of an inductive invariant, was checked on the
instance before the proof, and is proved for every one (`TypeCorrect`). That of PullThenPush says more than types:
that the delay stays within the inactive one and that `grace_pulls` is an `int`.

Deadlock checking is off where a system may really be at its end (`CHECK_DEADLOCK FALSE`, with the reason
in the cfg).

### Fairness

* A call that has begun goes on, and a clock that runs keeps running: weak fairness of the posedges and of
  the loops of `send_msg`/`read_msg`. The code has no other scheduler.
* A user is ready again and again (`ServerPosedge(TRUE)`, `ClientPosedge(c, TRUE)`): a user that never is
  stops its channel by design. No user has to send, except in Rendezvous, where starting is the subject.
* In `client_to_server` a client ends some day: the server holds one connection per channel and serves the
  next client when the one before has gone. Without it a second client waits for ever, by design.
* In Rendezvous killed servers are started again.
* In SwPrograms each process goes on with its calls and a client at the end of `main` ends.
* In ZebuCalls a clock runs while its module waits or has a DPI process, and every thread of the host is served.
  A module need not call again.
* In PullThenPush the clock runs, the device gets to its response, and a client pulls its responses. It
  need not send, nor end.
* ReadyValid's `PullNothing` may be taken with a message there; fairness of the posedge with `PullOk`
  says that a DPI call is made again and again and that messages arrive.
* Nothing is assumed of kills, of ends of the clients of PullThenPush, or of ports to be released.

## 4. Proofs

### SocketIo_proofs

It holds for every message size, buffer size, number of messages, and for blocking and
non-blocking sockets, from `SocketIoAssumption` alone (sizes are positive numbers).

`Invariance` proves `Spec => []IInv`. `Aligned` says that each buffer `read_msg` gave is the next
message. That is not inductive: a step of the reader takes units from the kernel, so one must know which
units are there. `IInv` adds

* that `readBuf` is a prefix of the next message (needed when the last piece comes),
* `Chain`: neighbours in the kernel are neighbours in an aligned stream, also across messages,
* `Ends`: the first unit there is the one the reader needs next, the last one is the one before what the
  sender sends next; with an empty kernel the two stand at the same place,
* `Behind`: what is in the kernel was sent,
* and that after a result of 0 the sender is closed and all was received.

`Chain`, `Ends` and `Behind` are stated while the reader is open: a send that fails in the middle
of a message because the reader has gone leaves the stream cut, and a next call would start a
new message behind it. Nobody reads that stream any more. The proof has a lemma for `SendSome`, one for
`ReadSome` (the two that move units) and one for all other actions. `Chain` is stated for any
distance inside a message, not only for neighbours: what `ReadSome(k)` needs is `wire[i]` for every i up to k, and
with neighbours only that would take an induction.

From it follow `TypeCorrect`, `AlignedHolds` and `ZeroMeansDrainedHolds`, and `Refinement`: `Spec =>
ImplementsChannel`. A `SendSome` that completes a message is `Accept`, a `ReadSome` that completes one is
`Deliver` (`Aligned` gives the number of the message), `ReadEof` is `End` (`Ends` gives that nothing is left),
`CloseSender` and `CloseReader` are the two ends going, all else is a stutter.

### Rendezvous_proofs

It holds for every set of server names, clients and kills, and for all limits of the names, from

* `RendezvousAssumption`: the names are sequences of characters, finitely many; what is kept of a long one
  is no longer than the limit;
* `HashAssumption`: no two of the names have the same hash, and no name is spelled like a cut one with its
  hash. The code relies on both: a 32-bit FNV-1a hash collides rarely, not never.

`ShortenedInjective` shows from these that different names have different files and different paths,
whichever of the two is cut: a cut one ends with its hash, the other with a character. This is what lets every
later step treat a file and a path as its server's own (`Names`).

`RightServerUntilCrash` is not inductive: that a client connects to the right server when it tries TCP
depends on what it read earlier, that on what was in the file, and that on which port the server was
bound to when it wrote. `IInv` has one part for each link of this chain:

* `Bound`: from `listen` on the server is bound to `try`, the value the file gets; `OnePort`: no two servers are
  bound to the same port;
* `Written`: what is in the server's file at each line of `start()`; `Paths`: its Unix path leads to it or nowhere;
* `Known`: what a client has read of the path is its server's, and it has a port once it is past the first loop;
* `Fresh`: without a kill, a port that is in a file or that a client has read is the one its server listens
  on, no client has had to wait for a second try, and every connection is right.

There is one lemma per action with a step per part. `InfoKeep <= InfoMax` (200 and 244) is needed only for the
naming lemma. `Invariance` gives `TypeCorrect`, `RightServerHolds`, `FirstTryHolds` and `FreshHolds`.

The bind loop has as many ports as it can need (`Cardinality(Channels) + MaxCrash`): a server whose next
port is beyond them would stop. TLC's `EveryClientConnects` shows that in the instance it does not happen.

### ClientToServer_proofs

It holds for any clients on either kind of socket, any number of items per client, any buffer of at least one
message and any two delays, from `ClientToServerAssumption`.

`Conserved` and `NothingLeftBehind` are inductive together with `TypeOK` and `WaitIsEmpty`: while the pull module
waits in its `repeat`, its register is empty, or the pull at the end of the wait would overwrite an item
(`CallIsFree`). `NothingLeftBehind` rests on `AcceptKeepsPending`: an accept takes no client out of a backlog but the one it
turns to. A path is a concatenation of four sequences and a step moves one item over a boundary between two of
them; there is one lemma per action, and an item that is not the acting client's stays where it is (`OthersKept`).

`ChannelRefinement` is `Spec => ImplementsChannel`. The `data` of a client's channel is the item its server's user is shown
or, with nothing shown, the last one that was taken, of which `got` has the number. That these agree, so that
a `PullNothing` leaves `data` alone, is `ShownIsNext`: an item on the server's port is the next of its client, which
`Conserved` gives. `ServerStep` and `ClientStep` go through the cases of a posedge; for every other client than the
one at work the step is a stutter or a `PullNothing` (`NothingForClient`).

### ServerToClient_proofs

The same constants, from `ServerToClientAssumption`. `Consecutive` and `ExactlyOneClient` speak of what was sent to each
client; that the next item continues the right stream takes more:

* `Kept`: the item kept for a retry is the last one that was taken, so that all before it were sent;
* `ConnectsOnce`: a client is in one backlog once, and the accepted client in none; `FreshIsEmpty`: before a push
  has accepted a client nothing was sent to it;
* `EachToOne`: the items sent are those up to the last one, each to one client;
* `LastToAccepted`: the accepted client was sent the last item of all, or nothing yet. A push to it therefore
  continues its stream, also when a client between went without having got any.

`NoClientDropped` is inductive together with `IInv`: a client enters a backlog when it comes up (`TailKeeps` and
`AcceptKeepsPending`: an accept takes out the one it turns to, nobody else), and the connection is closed only after a send
that failed because its client has gone (`PushDropsNobody`).

`ChannelRefinement` is `Spec => ImplementsChannel`. The steps of the push module are those of `ReadyValid` since an only
client that is up is the one a push turns to (`CurrentIsOnly`): nobody else was ever in a backlog or accepted, and
`NoClientDropped` says that the client is in one of these places. A push that finds it in a backlog accepts it and sends in the
same call, so that a server's channel is `linked` as soon as its client has connected.

### PullThenPush_proofs

It holds for any number of clients and commands, any set of clients that may be killed or are on TCP, any delays,
grace, buffers and width of `int`, from `PullThenPushAssumption`. It has two inductive invariants.

`IInv` makes no assumption on the device. Its parts: `Control` (which registers hold a message at each `pc`),
`InTurn` (nothing is there of a client that has not come), and `Alone`: as long as no earlier client was killed or on TCP,
the running client's messages are at their places in order (`Flow`: those it has, those on its way, the
one in the process, those not pulled yet), and between two clients the process and the connections hold nothing. A
command that met a busy device is `Stuck`, and then no later response comes, which `Flow` says as well. This gives
`TypeCorrect` and `OwnAnswersHolds`. The condition on TCP in `OwnAnswers` is needed: a client that has ended may take
a response to the next one with it (`pull_then_push_restart`), and that one then gets its second answer first.

`Kept` adds, for a device that is ready when a command comes (`AlwaysReady`; with a busy one `pull_then_push_busy` shows
the command lost), that `CommandsKept` holds together with

* `CommandsAhead`: the process passes no command over: connections before the one it is at are empty;
* `ResponsesBehind`: no client after the one it is at has got a response.

These two say why the two servers, which notice at different moments that a client has gone, never mix the order.
`CommandsKept` is stated with what is before what (`InOrder`) and what is anywhere (`IsSomewhere`), rather than as one long
concatenation, so that a step needs to speak only of the two places between which a message moves (`SentIsKept`,
`PulledIsKept`, `PushedIsKept`).

### QuasiStatic_proofs

It holds for any values, number of changes and buffer, from `QuasiStaticAssumption`. `NoChangeLost` is the concatenation of
seven places; `IInv` has it as `Path`, grouped by what one posedge moves, with the types and `ReadyIfStarted`. The
grouping is changed by one lemma (`Assoc`).

### ZebuCalls_proofs

It holds for any modules, namings, lengths of the port, numbers of servers, widths of the count, latencies and
numbers of calls, from `ZebuCallsAssumption`, also for modules that have the same name. `IInv` has

* `Serialized`: one thread at a time is in the code that `zebu_mutex` protects. All the rest of the host relies on it;
* `NamesOfServers`, `IndexIsNew`, `CacheIsRight`, `NamesAreKnown`: the table of names, the index that the next server gets
  and the cache of packed names agree at each step under the mutex;
* `Phases`: a module's call is at one of five points (idle, requested, in the host, ended, delivered). The counts of the
  macro and of the status register are equal when it is idle and differ from the request until the host's answer is
  delivered. A count that wraps is enough at any width, since the next one differs: `2 ^ CountBits` is at least 2.

`InStepHolds` and `OwnServerHolds` follow, and `SerializedHolds`, which no run checks by itself.

`CallRefinement` is that each module's macro implements RemoteCall: a posedge that requests is `Call`, the end of the host's
call is `Execute`, and a posedge at which the counts are equal is `Return`. `Phases` gives the two guards that could
fail: the host ends a call only of a module that waits and whose results are all returned, and the macro goes on only when
there is one result more.

### ApbBridge_proofs

It holds for any number of transfers and any buffers, from `ApbBridgeAssumption`. `FollowsBus` is inductive with the
types, but neither of the other two properties is: a second transfer must not begin while something of the first
is left. `OnePlace` says so: the transfer of the bus is nowhere yet (`Idle`, `Setup`), a request in the first channel (`Requested`),
at the subordinate (`Performing`) or a response in the second channel (`Answered`), and all else is empty. In `Idle` and
`Setup` the first channel is empty, and its push module ready; in `Performing` the second: `ReadyIsNotNeeded` follows. The
list of what was performed at each place gives `SameTransfers`.

`CallRefinement`: the bus implements RemoteCall, with the manager as the caller and the transfer's number as argument and
result. The subordinate performs a transfer only in `Performing`, where the manager holds that very one (`Execute`), and the
manager sees `pready` only in `Answered` (`Return`, after which the next transfer is on the bus when it comes back to back).

### What the proofs assume

Each holds from the named assumptions of its module's constants alone; TLC evaluates them in every run. Two have a conjunct
about a power that follows from the one before it (`2 ^ CountBits`, `2 ^ (IntWidth - 1)`), since the provers do not
compute powers. The inductive invariants were checked by TLC on the instances of the runs before they were proved.

### Only model-checked

* Liveness: TLAPS has no reasoning about fairness here.
* SwPrograms: `ChecksPass` and `NothingUnserved` are about a handful of fixed programs, which the run goes through
  completely. Its two connections are instances of SocketIo, whose own properties are proved.
* `FreshHolds` and the others of Rendezvous leave open that a server finds a port: `EveryClientConnects` shows it.

## 5. Abstractions

* `EINTR` is folded into `EAGAIN`: the same wait in the middle of a message. With nothing transferred
  `multisim_server_push_core` would close the connection on `EINTR`, which a `send` on a non-blocking socket
  does not return.
* Units are in the kernel from `send` on; a unit that travels is one that is sent later. After the reader
  has gone TCP may still take units: `SendSome` allows it.
* Only connections, not the backlogs, have a bound: the listen backlog of 8 is larger than the
  number of clients of any instance.
* The info file's lines become visible one by one. The C library buffers them and writes them at `fclose`, so
  the program shows fewer intermediate states than the model.
* All servers of Rendezvous run on one host. There is no host crash; a process may be killed.
* The channel modules begin with the server started. The first `data_rdy <= 1` of the push modules is a
  non-blocking assignment of an initial block, and a posedge in the very time step in which the server starts would
  still find it low. That takes the scheduling regions of one time step, which no module has; in every example the
  names are set at time 0 and the clock rises later. It is a listed hazard without a property.
* In ApbBridge a push module has started before the first transfer: `multisim_client_start` blocks at time 0.
  The FSM's state is X before the first posedge, which its `case` takes to the default, IDLE.
* QuasiStatic's input changes after a posedge, at most once per cycle.
* In SwPrograms the server is started before its client connects to the first channel (which rendezvous it uses is
  the subject of Rendezvous), and the exit command is one whole message.
* In PullThenPush a client is connected to both servers at once, and clients follow one another; two at a time
  are in ClientToServer and ServerToClient. What the kernel took for a client that has gone stays in `rsp[c]`.
* In ZebuCalls a call has a result, 0 or 1: what it does with the socket is in the channel modules. `server_name` is a
  sequence of characters, packed into a port that has room for one more than is allowed.

## 6. Not modelled

* AXI: wiring of five independent channels, each a ClientToServer or ServerToClient.
* Packing of vectors into words and 4-state values: pure functions of the payload, without state, which no other
  property depends on.
* The exits of calls on a server that was not started and of a second `Server::start()`, `getIp()`: they
  end the process, or are lookups.
* Build targets (preprocessor), scripts, the unit tests that are scripts around processes, the SystemVerilog examples
  apart from the device of pull-then-push.

Two things the models show but no run does, since no line of the repository promises them otherwise:

* Two programs that both push while both buffers are full wait for each other for ever: in the
  middle of a message `poll` has no limit. Request/response programs are safe (`sw_programs`).
* Two ZeBu modules of one process with the same name share a server and its call count, and a macro may wait for a
  count that never comes; `multisim_server_start` refuses the second one in the simulation build. README.md asks the user
  for unique names; the instances keep to that.

## 7. Plan

Done, in this order: SocketIo, MsgChannel and their proofs; ClientToServer; ServerToClient; Rendezvous;
PullThenPush; ReadyValid, QuasiStatic, ApbBridge; SwPrograms (which took the place of a generic model of two
channels); ZebuCalls; names in Rendezvous and its proofs; clients that come and go in PullThenPush.

Then the proofs of the channel modules and what is built on them: ClientToServer, ServerToClient, QuasiStatic, ZebuCalls, ApbBridge,
PullThenPush; and the refinements that tie the modules together: ClientToServer and ServerToClient to ReadyValid, ZebuCalls
and ApbBridge to RemoteCall.

Open:

* the time step in which `data_rdy` is first set in the push modules;
* `ChecksPass` and `NothingUnserved` of SwPrograms for any program and any sizes, from the refinement of MsgChannel;
* a server that goes while clients are connected: the library promises nothing about it, its users end the clients
  from outside.
