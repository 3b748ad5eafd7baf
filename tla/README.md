# TLA+ models of the TCP/IP socket programs

The repository holds the sample programs of a book on TCP/IP socket
programming, for Linux (C++), Windows (C++) and .NET (C#). Most of them are a few
dozen lines of straight code; a good dozen are small concurrent or event-driven
systems. This directory holds TLA+ models of the latter, the TLC runs that check
them on small instances, and TLAPS proofs of the results that can be had for all
sizes.

`PROJECT.json` lists the components, runs, theorems, hazards and findings, and
maps each definition to the lines it stands for.

## 1. The system

Paths are below `src/`. Linux programs are `Linux/ChapterNN/X.cpp`, Windows
programs `Windows/ChapterNN/X/X.cpp`, C# programs `C#/ChapterNN/X/Program.cs`.

| Component | State | Operations | What makes it hard |
|---|---|---|---|
| `SelectTCPServer` (Linux 12, Windows 11) | `SocketInfoArray` of (socket, buffer, `recvbytes`, `sendbytes`), `nTotalSockets`, two `fd_set`s, `nready` | accept, recv, partial send, add and remove a record (the last record fills the hole) | records move while they are scanned; one buffer for both directions; readiness is used after other calls; limited sets |
| `PollTCPServer` (Linux 12) | the same, with `Pollfds` as a second, parallel array | the same | the two arrays must move together; entries keep old `revents` |
| `EPollTCPServer` (Linux 12) | the kernel's interest list, one `SOCKETINFO` per event | the same, with `EPOLL_CTL_ADD/MOD/DEL` | the list must follow the buffers; batches; `--nready` shortens the batch |
| `PrjServer` (Linux and Windows 14), chat | records with a message under construction, one `fd_set`, two listeners | accept on IPv4 and IPv6, collect `BUFSIZE` bytes, broadcast with blocking `send()` | a removal inside the broadcast inside the scan; `nfds`; blocking |
| `PrjClient` (Windows 14) | two buffers, two events, `g_bCommStarted`, the dialog | three threads and the window procedure | waits of the dialog on threads and of threads on the dialog |
| `Events`, `CondVars` (Windows and C# 6, Linux 7) | a shared buffer; two events, or two flags with a mutex and a condition variable each | one writer, two readers, `main` | lost signals, spurious wakeups, two readers on one event |
| `Mutexes`, `CriticalSections` (Linux 7, Windows and C# 6) | a counter and a mutex | two threads that change the counter | lost updates |
| `ThreadTCPServer` (Linux 7, Windows and C# 6) | one thread per client | accept, create thread, echo | exit of `main` ends all threads |
| `NonblockTCPServer` (Linux 12, Windows 11) | one connection, non-blocking | accept, recv and send with retries | the retry reuses a length that was overwritten |
| `AsyncSelectTCPServer` (Windows 11) | a linked list of records, the message queue | FD_ACCEPT, FD_READ, FD_WRITE, FD_CLOSE | stale and self-posted messages |
| `CompletionPortTCPServer` (Windows 11) | a record per connection, pending overlapped operations | several workers | one operation per record at a time, immediate failures |
| `GUITCPClient`, `GUITCPServer` (Windows 10) | two events, a buffer, an edit control | network threads and a dialog | waits between them |
| `TCPServer`, `TCPClient` (all, 4; `Server.cpp` of 1) | one connection at a time | accept, echo; connect, send, receive | a client that waits for more than was echoed |
| Framing (all, 5): `Fixed`, `Variable`, `FixedVariable`, `CloseOnTransfer` | the read buffer of `_recv_ahead()` | find the end of a message in the stream | bounds, length 0, data beyond the message |
| `UDPServer`, `UDPClient` (all, 8), `RcvTimeO` (all, 9) | none | sendto, recvfrom, compare the sender | loss, late answers |
| Broadcast and multicast, socket options, addresses, dialogs, Bluetooth, serial line | none to speak of | library calls | little: see section 7 |

The programs meet at the network: the clients of chapter 4, or any others, talk
to each of the echo servers, `PrjClient` to `PrjServer`. Inside a program,
components meet in shared variables, events and window messages. The sockets of
the operating system are part of every server's behaviour, which is why they have
a module of their own.

What makes each component correct:

* Echo servers: a client gets back what it sent, once and in order, whatever the
  others do; a connection is given up only when its client is gone, and is given
  up then; records, descriptors and connections correspond one to one.
* Chat server: messages are whole; everyone sees the same messages in the same
  order; nobody is left out, put out before it has left, or turned away while a record
  is free; everyone who connects is accepted.
* Chat client: a text is sent once, as a whole and in its turn; what others draw has
  the colour they drew it in; the dialog comes back to the user.
* Buffer programs: each number is printed once, in order, and as a whole.
* Counter: no update is lost.
* Message framing: however the stream is cut, the messages printed are those sent.
* UDP echo: an answer is shown for the request it belongs to; a client does not wait
  for ever.

## 2. Modules

    environment       programs                              implement
    -----------       --------                              ---------
    TCPSockets        SelectTCPServer                       EchoSpec
                      EPollTCPServer                        EchoSpec
                      CompletionPortTCPServer               EchoSpec
                      AcceptLoopServers                     EchoSpec (TCPServer, ThreadTCPServer)
                      PollTCPServer                         EchoSpec, but for stale events
                      AsyncSelectTCPServer
                      PrjServer                             ChatRoom
                      Framing
    in the module     PrjClient                             HandOff
                      EchoClients                           HandOff
                      UDPEcho
    BufferThreads     CondVars                              Events
                      Events                                HandOff
    none              Mutexes

* **`TCPSockets`** is the environment of every TCP server: connection requests,
  byte streams, send buffers, the descriptor table, and the outcomes of `accept()`,
  `recv()`, `send()`, `select()` and `close()`. It is not code of the repository;
  it is modelled from how the servers use these calls. A byte is a pair
  `<<client, number>>`, so that a byte that reaches the wrong client, twice or in
  the wrong order can be told from the right one.
* **`EchoSpec`**: the echo service without sockets, buffers or records. The
  refinement mapping of each server keeps `link`, `peer`, `sent` and `out` and hides
  everything else.
* **`HandOff`**: a buffer of one place that passes on 1, 2, ..., N.
* **`ChatRoom`**: a room in which one message is spoken at a time and everybody inside
  hears it before the next is spoken or anybody else comes in. A message is lost only
  when its speaker has left. Nobody is put out; one may be turned away when the seats
  are taken, and the room closes when somebody has gone or the doors are used up.
  `PrjServer` maps `link` to the places, the messages in `log` to what was spoken, `out`
  to what was told, `FD_SETSIZE` records to the seats and the descriptors that are
  left beside those of the process and the listeners to the doors (`ImplementsChat`).

Echo servers. In each of them, `Server` is split at the system calls: an action is
one call and the code up to the next one. In between, the remote programs
(`Environment`) send, read, close and reset.

* **`SelectTCPServer`**, **`PollTCPServer`**, **`EPollTCPServer`**: one thread and a
  table of connections.
* **`CompletionPortTCPServer`**: `main()` accepts and starts the first receive; any
  number of workers take completions from the port and start the next operation. The
  kernel carries operations out in between, and completes those of a connection
  that has gone.
* **`AsyncSelectTCPServer`**: the window procedure handles one message at a time. The
  message queue, and the rule by which Winsock posts a message and is rearmed, are
  part of the module.
* **`AcceptLoopServers`**: the programs that accept and then serve:
  `TCPServer` (one connection at a time), `ThreadTCPServer` and `GUITCPServer`
  (a thread each, which may fail to start), `NonblockTCPServer` (sockets that do not
  block, with its `SEND_AGAIN`), and `Server` of chapter 1 (one thread per address
  family, receives only). The `VARIABLE program` tells which of them runs.

Chat.

* **`PrjServer`**: both listeners, message assembly, the broadcast.
* **`PrjClient`**: the dialog, `ClientMain`, `ReadThread` and `WriteThread`, their two
  events and the window messages between them. `send()` of a message is several steps,
  since two threads send on one socket. The server is there as what it does to one
  client: it reads a message, sends it back, sends those of others, leaves. That is
  where the two programs are composed: the blocking `send()` of `PrjServer` (module
  `PrjServer`) against the threads of the client.

Clients and other programs.

* **`EchoClients`**: `TCPClient`, which waits for the whole echo, and `GUITCPClient`, a
  dialog and a network thread with two events. `EnableWindow()` of the network thread is
  two steps there, `EnableSend` and `Notified`: it enables the button and then waits for
  the dialog.
* **`UDPEcho`**: the clients and servers of chapter 8 and the `RcvTimeO` ones of
  chapter 9, with datagrams that are lost, doubled and overtaken.
* **`Framing`**: the four pairs of programs of chapter 5 and `_recv_ahead()` with its
  static buffer; the stream arrives cut in any way and may end anywhere.
* **`BufferThreads`**: the threads and constants shared by the two buffer programs.
  **`Events`**: writer and readers with auto-reset events (Windows, C#).
  **`CondVars`**: the Linux program; every event is a flag, a mutex and a condition
  variable.
* **`Mutexes`**: the counter; `count += 2` is a load and a store.

`*_proofs` hold theorems and their proofs, `MC*` instances for TLC. Three of the
latter hold several programs: `MCEchoServers` (the last four kinds of echo server
and epoll), `MCThreads` (`CondVars`, `Mutexes`) and `MCClients` (`PrjClient`,
`EchoClients`, `UDPEcho`, `Framing`). The proofs of those programs are together too:
`Threads_proofs` has `Events`, `CondVars` and `Mutexes`, `Clients_proofs` the programs of
`MCClients`, and `EchoServers_proofs` those of `MCEchoServers`. There a variable `program` or `which` gets its
value in the initial state and never changes, and only the steps of that program are
enabled: the run is one run of each, with a property for each or one that all must
have.

### Correspondence with the code

| Program | Model |
|---|---|
| `SocketInfoArray[i]`, `nTotalSockets` | a sequence `SocketInfoArray` (indices from 1) and its length |
| `ptr->buf`, `recvbytes`, `sendbytes` | the record's fields; `buf` holds byte pairs |
| `Pollfds[FD_SETSIZE]` | a function on all `FD_SETSIZE` entries, the ones not in use included |
| epoll interest list, `events[]` | `interest[fd]`, and the set of events of the batch not yet looked at, taken in any order |
| `rset`, `wset` | sets of descriptors |
| `SOCKETINFO` of the completion port server | `info[fd]`, with `overlapped[fd]`, the operation in progress; `hcp` is the queue of the port and `held[w]` what a worker has taken from it |
| `SocketInfoList` of the `WSAAsyncSelect()` server | the set of sockets that have a record, with the record `info[fd]`; `wParam` is the socket of the handler between `recv()` and `send()` |
| window messages | `queue`, with the connection a message was posted for, which may have been removed since; `enabled[fd]` says which messages Winsock may post |
| place in the loop | `pc`, `i`, and `j` for the broadcast; `loop[l]` of an accept loop and `conn[c]` of the thread of a connection |
| descriptors | numbers from 3; `accept()` takes the lowest free one, so that numbers are used again |
| `RemoveSocketInfo(i)` | `RemoveSocketInfo(k)`: close, and the last record takes the place |
| `break` after a failed `accept()`; SIGPIPE | `pc = "exit"` (or `loop`), and the kernel closes every descriptor |
| `delete ptr` in `PrjServer` | `ptr.freed`; a later read of the buffer gives the message or `Garbage` |
| `CreateEvent()`, `SetEvent()`, `WaitForSingleObject()` | a Boolean; the wait is enabled when it is true and makes it false |
| `SendMessage()` to the dialog | the sender is in state `"show"` until the dialog, when idle, has handled the message |
| `EnableWindow()` by another thread | `GUITCPClient`: `EnableSend`, which enables the button, and `Notified`, when the dialog, idle, has handled `WM_ENABLE`. `PrjClient`: `Disconnected`, one step when the dialog is idle, since a button that is disabled earlier only prevents a click that would delay the step |
| `TerminateThread()` | the thread is ended wherever it is |
| `pthread_cond_wait()` | `TestAndWait` (unlock and wait at once), `SpuriousWakeup` or a signal, `Relock`, the test again |
| `pthread_cond_signal()` | wakes any non-empty set of the waiting threads |

Platform differences are constants: `SetCapacity` (an `fd_set` is an array of
`FD_SETSIZE` sockets on Windows, where `FD_SET` on a full one does nothing, and a bit
vector on Linux; of `SelectTCPServer` and `PrjServer`), `IgnoresNfds` (Windows
ignores the first argument of `select()`), `SigPipe` (Linux), `AcceptReset` (some
systems report a connection that was reset in the queue from `accept()`).

What the data is abstracted to: contents, addresses and printed text are left out.
`memset()`, `inet_ntop()` and `printf()` do not appear. A message of the chat client
is its type and its number, and a line of the picture the number of the line and the
number of the message its colour is from. A blocking `send()` of the chat server is
one step that can be taken once the kernel has room for the whole message.
`select()`, `poll()` and `epoll_wait()` do not fail. `new` does not fail.

Operators whose comment begins with *Mutation* are variants of the definition that
follows them, each with a plausible slip (a missing reset, a wrong index, `if` for
`while`, a forgotten unlock). They are used nowhere in the specifications.
`PROJECT.json` pairs each property with the slip it detects: with the variant put in
place of the definition, TLC finds the property violated.

## 3. Runs

Every run is one cfg file. All of them set `CHECK_DEADLOCK FALSE`: the servers end
(`exit`), and a server whose clients have all said what they had to say waits for
ever in its wait call, which is not an error; the readers of the buffer programs wait
for ever after the last number; the threads of the counter and the clients end.

| Run | Instance | Shows |
|---|---|---|
| `SelectLinux` | 2 clients, 2 bytes each, buffers of 2, send buffers of 1 | `OneRecordPerConnection`, `BufferIsBacklog`, `ImplementsEcho`, and with fairness `EveryByteEchoed` for a client that reads while the other may not, and `GoneIsClosed` |
| `SelectWindows` | 3 clients, `FD_SETSIZE` 2 | `ReadyWhenUsed` and `ImplementsEcho` with full tables and full sets, refused clients, failing `accept()` |
| `SelectWindowsFull` | 2 clients, `FD_SETSIZE` 2 | finding: `EveryByteEchoed` is violated |
| `PollServer` | 3 clients, room for 2 | `OneEntryPerConnection`, `BufferIsBacklog`, `ClosedLosesNothing`, `EchoesUnlessStale` |
| `PollStaleEvent` | 3 clients | finding: `ClosedOnlyWhenGone` is violated |
| `PrjLinux` | 3 clients, messages of one byte, room for 2 records, resets, SIGPIPE, freed memory | `CommonOrder`, `NeverStuckInRecv`, `ImplementsChat` |
| `PrjLive` | Windows, `FD_SETSIZE` 4; 3 clients of both address families, messages of two bytes; one of the clients never reads | `WholeMessages`, and with fairness `EveryClientAccepted`, `EveryMessageDelivered` |
| `PrjIPv6` | Linux | finding: `EveryClientAccepted` is violated |
| `PrjFreed` | a sender that is reset while it is broadcast for | finding: `DeliveredIntact` is violated |
| `EchoServers` | `EPollTCPServer`, `CompletionPortTCPServer` with 2 workers, `AsyncSelectTCPServer`, `TCPServer`, `ThreadTCPServer`, `NonblockTCPServer`, `Server`; 2 or 3 clients | `TypesOK`; `InterestFollowsBuffer` and `EventsStayValid` (epoll), `OneOwner` (completion port), `OneReadMessage` and `ClosedOnlyFor` (`WSAAsyncSelect()`), `BytesKept` (accept loops and `WSAAsyncSelect()`); `AllImplementEcho`; with fairness `EveryByteServed` |
| `Threads` | `CondVars` with 2 readers, 3 numbers, a buffer of 2; `Mutexes` with 8 iterations | `BufferExclusive`, `NoLostWakeup`, `NoLostUpdate`, `ImplementsEvents`, and with fairness `WorkDone` |
| `Clients` | `PrjClient` with 2 texts, 1 line, 1 message of others; `EchoClients` and `UDPEcho` with 3 texts; `Framing` with 2 clients of 2 messages | `TypesOK`; `OneRight`, `WholeUnlessBoth`, `RightColour` (chat client), `NeverWaitsInVain` (echo clients), `OwnAnswer` (UDP), `MessagesKept` (framing); `HandOffs`; with fairness `NobodyWaitsForEver` |

`Threads` has some 8,000 states, `PrjLive` 145,000, `Clients` 206,000, `EchoServers`
278,000.

### Exceptions

Some properties hold only up to an exception. The exception is part of the property,
so that the run shows that nothing else goes wrong.

* `BytesKept` for `NonblockTCPServer` ends when a `send()` has not taken everything
  (`spoilt`): a partial send drops the rest, and `SEND_AGAIN` repeats the call with
  the result of the failed one, -1, as the length.
* `ClosedOnlyFor`: the `WSAAsyncSelect()` server removes a connection when `send()`
  would block, and a message of an earlier connection can be handled for a later one
  with the same number. It also removes one at once when `WSAAsyncSelect()` fails for
  it (`Unregistered`).
* `EveryMessageDelivered` and `EveryClientAccepted`, two exceptions. `Blocked`: a client
  stops reading while the server is in a blocking `send()` to it; nobody else is served
  then, until it reads or leaves. `Unheard`, for delivery only: on Windows the two
  listening sockets take two of the `FD_SETSIZE` places of the read set, and
  `AddSocketInfo()` admits `FD_SETSIZE` clients, so the clients in the last two records
  are not looked at. It is the defect of finding 1 in the chat server. Each exception is of the
  form `[]P`, so it is granted only to a server that stays that way.
* `NeverWaitsInVain` for `GUITCPClient`: `Crossed`. `EnableWindow()` in `ClientMain` first
  enables the button and then waits for the dialog to handle `WM_ENABLE`. When the Enter
  key comes in between, the dialog goes to wait for `hReadEvent`, which `ClientMain` sets
  after `EnableWindow()`: neither goes on.
* `NobodyWaitsForEver` for `PrjClient`: the four ways in which the dialog waits for ever.
  `Abandoned`: `WriteThread`, ended by a failed `send()` or terminated, has not set
  `g_hReadEvent`, and the user sends another text. `Missed`: the connection ends at
  once, and `ClientMain` sets `g_bCommStarted` and resets it before the dialog, which
  spins on it, has looked. `HeldUp`: the dialog is in a blocking `send()`, or waits for
  `WriteThread` which is, and the server, though it could read, does not: it is held up by
  another client. `Embrace`: the server cannot read because it is in its own `send()` to
  this client, and `ReadThread`, which would make room, is in `SendMessage()` to the
  dialog. A dialog that hangs must stay in one of the four for good (`<>[]`), and TLC has a
  counterexample when any of them is left out.
* `WholeUnlessBoth`: the dialog and `WriteThread` use one socket without a lock; their
  messages are whole as long as the two are not in `send()` at once.
* `EchoesUnlessStale`: the poll server implements `EchoSpec` but for `DropsStale`, the
  close of finding 2, which reaches only a client that has not sent anything yet.
* `OwnAnswer`: datagrams carry no number. One that the network doubles is taken for the
  answer to a later text; a late one is not, since the client has one request under way
  and ends when the time is up.
* `OneOwner`: a completion port connection for which `WSASend()` or `WSARecv()` fails at
  once has no owner any more: it keeps its record and its descriptor for good. The
  property allows that for a reset connection only.

### Bounds

* `MaxSend`, the bytes a client sends. Two bytes against a send buffer of one and
  receive buffers of two give every combination of a full, a partial and a refused
  send, and a second `recv()` into a buffer used before. More bytes repeat them.
  `XMaxSend` is 3 for the `WSAAsyncSelect()` server, where the third byte arrives while
  a receive is delayed.
* Two or three clients. Three are needed for a removal that moves a record past one
  that stays while a further client waits for the place; the runs with a full table
  have three. Each client connects once; descriptors are still used again, since a
  later client gets the descriptor of an earlier one. In `EchoServers` the second
  client sends less than the first, and the third only fills `ThreadTCPServer`
  (`MaxThreads` 2).
* `NOFILE`. One above what is needed in the runs where `accept()` fails because of
  resets; in `SelectWindows` and `PollServer` the table is the bottleneck, in the
  others the descriptors can run out.
* `BUFSIZE` 2 in `PrjLive` is the smallest size at which a message arrives in
  pieces; `SNDBUF >= BUFSIZE` is required there because the model's blocking
  `send()` needs room for a message. `FD_SETSIZE` 4 leaves two places beside the
  listeners, so the third client is one that is not looked at while all three
  are in the room. To keep the run small, `LiveSpec` restricts the clients: the one that
  never reads connects first and leaves, if at all, by a reset; the steady ones leave with
  a FIN, and one of them only listens.
* `Clients`: two `PIECES` to a message and room for one piece and one message
  (`SNDBUF`, `RCVBUF`) let every `send()` of either side block half-way. Messages of
  2 and 3 bytes with `BUFSIZE` 3 are one that is filled up and one that is not, and a
  read-ahead buffer of 3 (`AHEAD`) leaves data of the next message in the buffer.
  `LINESIZE` 4, the limit of `recvline()`, is the least that a line of 3 bytes and its
  `'\n'` fit into; in the code it is 512, and the clients' buffers have 50.
  `MaxFaults` 2 losses and doublings of datagrams in three exchanges.
* `MAXCNT` 8 iterations in `Mutexes`; the proof is for all values with
  `2 * MAXCNT <= INT_MAX`, which holds for the 100,000,000 of the code.
* Symmetry is used in runs without liveness, over clients that are treated alike.

### Fairness

* `WF(Server)`: the thread of a server goes on when its next call can return. A
  blocking call is an action that is not enabled before. Nothing is assumed of the
  order in which the data loop is run: the code fixes it. In `EchoServers` one weak
  fairness condition stands for all threads and the kernel together, which is less
  than what schedulers promise.
* `WF(ClientRead(c))` for `c \in Steady` only: such a client keeps reading what has
  been sent to it. No client is ever obliged to connect, send or close, and the
  others may stop reading at any moment. In `PrjLive` two of the three are steady; what
  the other one can do to them is the exception `Blocked`.
* `CondVars`: weak fairness for the steps of a thread that needs no mutex, strong
  fairness for taking a mutex, which a thread gets in the end although others take it
  in between. No fairness for spurious wakeups.
* `Mutexes`: weak fairness of each thread suffices.
* `Clients`: weak fairness of every thread of the chat client, of
  `recvfrom()` with its time limit and of the servers of chapters 5 and 8. The chat
  server has none, since `PrjServer` does not read while it sends to a client that does not.
  The users do nothing they do not want to; `Cancel`, clicks and losses have no fairness.

## 4. Findings

1. **`SelectWindowsFull`** - `AddSocketInfo()` admits `FD_SETSIZE` clients, but the
   listening socket takes a place in `rset` too. The last client of a full server is
   accepted and never looked at while the others have no data to be sent back.
   The chat server has the same defect on Windows, with two listeners and so for the
   last two clients (`src/Windows/Chapter14/PrjServer/PrjServer.cpp:91-95`, `:186`): that
   is `Unheard` in `PrjLive`.
2. **`PollStaleEvent`** - the data loop of the poll server runs over an entry added
   after `poll()` returned. Its `revents` is left over from its last user. A new
   client may be closed with "client has ended" before it has sent a byte.
   `ClosedLosesNothing` and `EchoesUnlessStale` show the damage is limited: no byte
   that had arrived is lost, no client is closed that has sent something, and in all
   else the server is an echo server.
3. **`PrjIPv6`** - the first argument of `select()` is computed from `listen_sock4`
   and the clients. `listen_sock6` has a higher number. As long as there is no IPv4
   client with a descriptor above it, IPv6 clients are not accepted. (Windows
   ignores that argument: `PrjLive`.)
4. **`PrjFreed`** - when `send()` to the sender itself fails in the broadcast, its
   record is deleted and the rest of the broadcast reads the message from it.

## 5. Proofs

| Module | Theorems |
|---|---|
| `SelectTCPServer_proofs` | `Invariance` (`IInv`), `TypeCorrect`, `RecordsMatch` (`OneRecordPerConnection`), `BufferMatches` (`BufferIsBacklog`), `ReportsHold` (`ReadyWhenUsed`), `RefinesEcho` (`ImplementsEcho`) |
| `PollTCPServer_proofs` | `Invariance`, `TypeCorrect`, `EntriesMatch` (`OneEntryPerConnection`), `BufferMatches` (`BufferIsBacklog`), `NothingLost` (`ClosedLosesNothing`), `RefinesUnlessStale` (`EchoesUnlessStale`) |
| `EPollTCPServer_proofs` | `Invariance`, `TypeCorrect`, `InterestFollows` (`InterestFollowsBuffer`), `EventsValid` (`EventsStayValid`), `RefinesEcho` (implements `EchoSpec`) |
| `PrjServer_proofs` | `Invariance`, `TypeCorrect`, `NeverStuck` (`NeverStuckInRecv`), `MessagesWhole` (`WholeMessages`), `OrderKept` (`CommonOrder`), `NobodyForgotten` (`RoomInv`), `RefinesChat` (`ImplementsChat`) |
| `EchoServers_proofs` | completion port: `PortInvariance`, `PortTypeCorrect`, `OwnersKept`; accept loops: `LoopInvariance`, `EchoesUntilFull`; `WSAAsyncSelect()`: `AsyncInvariance`, `AsyncTypeCorrect`, `OneReadLeft`, `BacklogKept`, `GivenUpFor`; the run: `RunInvariance`, `RunTypesKept` (`TypesOK`), `RunOneOwner` (`OneOwner`), `RunOneRead` (`OneReadMessage`), `RunBytesKept` (`BytesKept`), `RunGivesUp` (`ClosedOnlyFor`), `RunEchoes` (`AllImplementEcho`) |
| `Clients_proofs` | chat client: `Invariance`, `TypeCorrect`, `RightKept` (`OneRight`), `ColoursKept` (`RightColour`), `HandsOver` (implements `HandOff`), `MessagesWhole` (`WholeUnlessBoth`); echo clients: `EchoTypeCorrect`, `WaitsEnd`, `EchoHandsOver`; UDP: `UDPTypeCorrect`, `AnswersBelong`; framing: `FramingInvariance`, `FramingTypeCorrect`, `MessagesFramed` (`MessagesKept`); the run: `ClientsTypesKept` (`TypesOK`), `ClientsCorrect` (`NeverWaitsInVain`, `OwnAnswer`, `MessagesKept`), `TextsHandedOver` (`HandOffs`) |
| `Threads_proofs` | condition variables: `Invariance`, `TypeCorrect`, `Exclusion` (`BufferExclusive`), `WakeupsKept` (`NoLostWakeup`), `RefinesEvents` (`ImplementsEvents`); events: `EventsTypeCorrect`, `EventsExclusion`, `HandsOver` (implements `HandOff`); mutex: `CounterTypeCorrect`, `UpdatesKept` (`NoLostUpdate`) |

All of them hold for every value of the constants that satisfies the modules' named
assumptions (`SocketsAssumption`, `SelectAssumption`, `PollAssumption`, `EPollAssumption`,
`PrjAssumption`, `EchoServersAssumption`, `PrjClientAssumption`, `ClientsAssumption`,
`ThreadsAssumption`, `CondVarsAssumption`, `MutexesAssumption`): sizes are naturals (a
buffer or a message has at least one byte), names differ, the descriptors of the
listening sockets exist. The runs' bounds are among these constants, or restrict the
steps of the clients, which only leaves out behaviours. Every safety property and every
refinement that a passing run checks is the property of a theorem; the inductive
invariants, and those type invariants that are conjuncts of another proved invariant,
are stated in the proof modules only.

`TCPSockets_proofs` has the lemmas that the proofs about the servers share: sequences,
what clients leave alone (`RemoteFrame`, `RemoteKeepsReady`), and the books of a record
and its client, `Booked`: `BookedRecv` and `BookedSend` carry them over a `recv()` and a
`send()`, `NextBytes` says that what waits in the buffer is the next part of the
client's stream.

* **Select server.** `OneRecordPerConnection` and `BufferIsBacklog` are not
  inductive: that a removal closes the right connection needs the descriptor table
  (no connection has two descriptors), and that a `recv()` overwrites nothing needs to
  know that the sets of `select()` are still true of the buffers. `IInv` has a
  conjunct for each: `DescriptorTable`, `Records`, `Accounts` (the bytes between what
  was taken and what was given are in the buffer, in order), `EmptyWhenRead` (a
  record still to be scanned and in `rset` has an empty buffer) and `Counted`. There
  is a lemma per action, and lemmas for the compaction of the array, the change of
  one record and the end of the process.
* **Select server as an echo service.** The second part builds on `IInv`. To
  drop a client is allowed only when it has left and what came ahead of its FIN has
  been echoed, so the refinement needs that an answer of `recv()` or `send()` means
  what it says: `ReadyWhenUsed` (no `EWOULDBLOCK` where `select()` reported the
  descriptor). `EInv` adds that to `IInv`, with `ListenerOnce` (nobody connects to the
  listening socket of a process that ended), `ReportedInUse` (the descriptor of a new
  connection was not reported before) and `ArrivedFirst` (nothing is taken before it is
  sent). A refusal needs counting: the open connections are as many as the records, and
  as many as the descriptors but one when no descriptor is free (`OpenConnections`).
* **Poll server.** The invariant has the same parts, with `Entered` for the two parallel
  arrays (`Pollfds` has all its `FD_SETSIZE` entries, so the type says that none beyond
  them is used) and `EventsHold` in place of `EmptyWhenRead`: whatever the `revents` of an
  entry say, and they may be those of its last user, it is read from only when its buffer
  is empty and not written to in vain. A new entry has an empty buffer, so old `revents`
  do not break this. `NothingLost` follows from it: the wrong close of the run
  `PollStaleEvent` happens only when everything that had arrived has been echoed.
  `RefinesUnlessStale` says of every other step that it is one of `EchoSpec`.
  `ReadyOrNew` is what it needs beyond the select server's argument: an entry that the
  loop will read from was reported by `poll()` and is still readable, or its client is
  new and nothing has been taken from it. A `recv()` that would block therefore means
  that nothing has been sent.
* **epoll server.** The properties of the run are conjuncts of the invariant: a `recv()`
  overwrites nothing because of `InterestFollowsBuffer`, and `EventsStayValid` needs that a
  descriptor that `accept()` hands out again is not named by an event of the batch. It is
  not, since an event names an open connection and the event of a closed one is done.
  `DescriptorTable`, `Accounts` and `ArrivedFirst` are those of the other servers.
  `RefinesEcho` follows as for the select server; the connections are counted by
  their descriptors.
* **Chat server.** `WholeMessages` and `CommonOrder` need each other and the books of
  the records. `Collected`: what was taken from a client is `BUFSIZE` bytes for each
  of its messages in the log and what its record holds; so the next message to be
  broadcast is the next `BUFSIZE` bytes of its stream, which is what `WholeMessages`
  says of all of them. `Deliveries`: a client has been given whole messages, none of
  which was broadcast before it joined. `CaughtUp`: every record has the whole
  log, but for the message under way (`Broadcasting`) and the records that the loop over
  `j` has yet to come to; this is what a removal in the middle of that loop could break.
  `SameMessages` then gives `CommonOrder`; a message may differ from the log only where
  the record it was in was freed. `StillReadable` gives `NeverStuckInRecv`: what `select()`
  reported stays true until the data loop comes to it.
* **Chat server as a chat room.** `CaughtUp` speaks of records, `ChatRoom` of clients.
  `Seated` joins them: every open connection has a record, also in the middle of a
  removal, so that whoever is inside has heard everything when the loop over `j` is
  done. `Speaking`: while a message is sent, its record is that of its speaker, or was
  freed because the speaker has gone; that is why a garbled message is always one
  of somebody who has left. `RoomInv` is `IInv` with these two. A removal is never of a
  client that is there, since `recv()` and `send()` fail only when the other side
  has gone. The two refusals need counting: the records are no more than the clients
  inside (`SeatsTaken`), and when no descriptor is free, those beside the
  listeners' are of clients inside (`DoorsTaken`). There is a lemma per action; the
  reception of a part of a message, the steps of `select()` and the scans are stutters.
* **Completion port.** The record of a connection is with the main thread, the kernel,
  the port or one worker. `OwnedOnce` says so without counting: no two of them have it,
  no two completions and no two workers name the same one. `OneOwner`, which counts,
  follows. `Books` says of the record, by who has it, what is in its buffer, and
  `Means` what a completion on its way says: that the client was reset, that it
  has left, or that the bytes of the record are those that were taken.
* **Accept loops.** `Attended`: a descriptor is served while it is a connection;
  `InAnswer`: between `recv()` and the end of `send()` the buffer has what was taken and
  not yet given back, and a connection is closed when its client has left. Of a
  connection that the non-blocking server has spoilt (`send()` met a full buffer)
  nothing is claimed; the other servers spoil none.
* **`WSAAsyncSelect()`.** `RightToRead` is `OneReadMessage` without counting (the
  message is in the queue once, or `FD_READ` is enabled, or the read is delayed by a full
  buffer that somebody will empty) together with what makes it worth having: where
  `recv()` was announced it finds something. Messages stay true while they wait in the
  queue (`Truthful`), since a client does not come back after its FIN or its reset; a message
  about an earlier connection of the same socket is the exception, and the connections
  it reaches are in `misled`. That the bytes are right (`Booked`) holds for those too.
* **The run of the echo servers.** `RunIInv` is the invariant of the program that runs and
  the types of the others, whose variables do not change. `AllImplementEcho` also needs
  that a process that has ended has no connection (`PortEnded`, `LoopEnded`), that the
  open connections are as many as the descriptors of connections (`XConnections`), for
  refusals and for the end of a full server, and that bytes given are the next of the
  client's stream. `EchoStep` says what `EchoSpec` allows in terms of the servers' own
  variables; each action has a lemma that it is an `EchoStep`, and two lemmas
  (`BlockingStep`, `ThreadsStep`) carry an `EchoStep` over to the two instances of
  `EchoSpec`. `EchoThreads` holds as many connections as it has threads and descriptors,
  whichever are fewer (`Places`).
* **Chat client.** There is one right to `g_chatmsg`, which goes from the dialog to
  `g_hWriteEvent`, to `WriteThread` and by `g_hReadEvent` back; it may end with
  `WriteThread`. `IInv` says where it is (`RightHeld`), what is in `g_chatmsg` there
  (`TextInHand`), that the threads are started once (`StartedOnce`) and that
  the colour the picture is drawn in is that of the message being shown (`Colours`).
  `HandsOver` follows: entering a text fills the buffer, `WriterSets` empties it.
  For `MessagesWhole`, `Control` says which places of the threads go with a `send()`
  in progress, and `Grouped` that, unless both threads were in `send()` at once, the
  pieces that have arrived are cut into messages of `PIECES` equal pieces each, up to
  the one being sent. Lemmas on division by `PIECES` carry it over an append.
* **Echo clients.** `EchoInHand` is the right to `buf` and its contents, as for the
  chat client; `OneEcho`: one text is under way and only while the client is in `recv()`;
  `AnswerComes`: while the button is enabled or the dialog waits, `hReadEvent` is set, or
  `ClientMain` is between enabling the button and setting it; it is in the first of these two
  places, `EnableWindow()`, that the two can cross. With `TCPClient`, which has one thread, the same invariant speaks of
  its four places.
* **UDP.** `UnderWay` counts the datagrams with one text, in both directions and in the
  server. As long as none was doubled, an answer that has been shown has no other
  datagram, and nothing is under way that was not asked for (`Asked`).
* **Framing.** `Position`: what was taken from a stream, less what is kept in `line` and
  `ahead`, ends where the frames of the printed messages end or inside the next
  frame (`InFrame`), or the stream has ended (`StreamOver`). A frame's start is defined as a
  cardinality, that of the cells of the frames before it, so no recursion is involved:
  `StartNext` says how far the next frame is, and that each byte is in one frame follows
  by monotony. `TextsKept` is `MessagesKept` with the piece of the last message
  made explicit (`Cut`).
* **Events.** At any time there is one right to the buffer: it is an event that is
  set, or a thread that has taken one and not set the other, or `main` before its
  first `SetEvent()`. With the contents of the buffer in each case this is inductive
  and gives the refinement of `HandOff`.
* **Condition variables.** `IInv` adds to that where each thread can be, who holds
  which mutex and who sleeps on which condition. `NoLostWakeup` is one of its
  conjuncts. The refinement maps a flag to an event; taking a flag is the wait,
  raising it is `SetEvent()`, and all other steps are stutters.
* **Mutex.** The holder is the only thread between lock and unlock, and what it has
  loaded is still the count.

Only model-checked, on the instances above: the liveness properties (`EveryByteEchoed`,
`GoneIsClosed`, `EveryClientAccepted`, `EveryMessageDelivered`, `EveryByteServed`,
`WorkDone`, `NobodyWaitsForEver`), since the prover does not handle fairness and ENABLED;
and the properties of the runs that expect a violation. What would be proved next: that
`NonblockTCPServer` and `AsyncSelectTCPServer` implement `EchoSpec` until a `send()`
meets a full buffer, and the steps of the liveness arguments that need no fairness:
that a server that owes something to a client has an action for it.

## 6. What is not in the models

* Descriptors at or above `FD_SETSIZE` on Linux, where `FD_SET` writes out of bounds.
* Failures of `new`, `select()`, `poll()`, `epoll_wait()` and of the calls before the
  main loop; they end the program before it has clients, or in no state of interest.
* A `send()` of the chat server that returns less than asked; a blocking send does
  so only when a signal handler interrupts it, and there is none.
* The chat client's `recv()` of less than a message at the end of a connection, when
  the last message is cut off.
* The UDP parts of `PrjServer` and `PrjClient` and the files of `PrjClient`, which are
  TODO comments in the code.
* A failing `epoll_ctl()`, `fcntl()` or `CreateIoCompletionPort()` for a new connection, and
  a `WSASend()` or `WSARecv()` that fails at once for a connection that was not reset.
* The end of the buffer programs: `main()` waits for readers that never end.
* The clients' own buffers in chapter 5: the longest of the texts has 50 bytes in UTF-8,
  `BUFSIZE`, so the newline that `TCPClient_Variable` appends on Linux lands behind `buf`.

## 7. Components without a model

Broadcast, multicast and socket option samples are the loops of chapters 4 and 8
after a `setsockopt()`. The address samples call library functions and print the
result. `ThreadTest1` to `3` start threads and wait for them. The dialog, Bluetooth
and serial line samples are sequential programs around device and window calls.
Their behaviour is the operating system's; there is no state of their own to get
wrong.
