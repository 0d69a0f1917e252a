# A TLA+ verification of libjaypea

libjaypea is a C++ library for servers: a threaded epoll server, its TLS, WebSocket
and symmetrically encrypted variants, matching clients, an HTTP API layer with a file
cache, JSON, a PostgreSQL model, and applications built on them.  This directory
models the library's concurrent core, its conversions and the programs on top of it in
TLA+, checks them with TLC on small instances, and proves their invariants, and the one
refinement, with TLAPS for every instance.

Every definition that stands for code is listed in `PROJECT.json` under `map` with the
source lines it translates; sources are relative to the repository (`src/cpp-source`).

    tlc -workers 2 -config FileCache.cfg MCFileCache.tla     # one run
    tlapm EpollServerProofs.tla                              # the proofs of one module

## 1. Inventory

| Component | Source | State it keeps | Operations | Status |
|---|---|---|---|---|
| Epoll server | `tcp-server.cpp` | per thread: epoll instance, timer maps, `num_connections`, event batch; shared: listening socket, `accept_mutex`, `running`, descriptor table | `run_thread`: accept, read, idle timeout, error, close | modelled, proved |
| Broadcasting | `tcp-server.cpp` 152-160, 315-336 | one pipe shared by all threads | send to `broadcast_fd`, read and forward | modelled, proved |
| Symmetric channel | `symmetric-*.cpp`, `simple-tcp-client.cpp` | transaction counters on both sides, the connection | `communicate`, `send`, `recv`, reconnect | modelled, proved |
| HTTP file cache | `http-api.cpp` 81-329 | `file_cache`, `file_cache_remaining_bytes`, `file_cache_mutex` | `respond_http` | modelled, proved |
| HTTP API dispatch | `http-api.cpp` 331-538 | `sessions`, captchas, `client_ms_at_call` | `on_read` of `HttpApi::start` | modelled, proved |
| TLS server, WebSocket servers | `tls-epoll-server.cpp`, `tls-websocket-server.cpp`, `websocket.hpp` | `client_ssl`, `client_handshake_complete`, by descriptor | `accept_continuation`, `recv`, `send`, `close_client` | modelled for one server thread, proved |
| Event clients | `tcp-event-client.cpp` | connection states, `alive_connections` | `add`, `run` | modelled, types proved |
| Distributed node | `distributed-node.cpp` | known nodes, status hash, `clients_mutex` | `add_client`, `set_ddata`, `start`, the server's answers | modelled, types proved |
| comd / com | `shell.hpp`, `examples/comd.cpp`, `examples/com.cpp` | identity and routine states, the shell and its pipes | the protocol, `sopen`, `sclose`, the relay of output | modelled, proved |
| JSON, utilities | `json.cpp`, `util.cpp` | none (pure) | parse, stringify, escapes, URL coding, HTTP requests, command lines | modelled, proved but for two reference definitions |
| PostgreSQL model, jph2 application | `pgsql-model.cpp`, `examples/jph2/` | the database; the game's tables and queue | statements, routes, the tick thread | modelled but for reads and the chat, proved |
| Queue, stack | `queue.hpp`, `stack.hpp` | linked nodes | used by a manual test only | not modelled |
| TLS client manager, other examples, scripts, web pages | | | | out of scope (I/O or little behaviour of their own) |

How they interact: `EpollServer::run` starts threads that all execute `run_thread`; the
TLS, WebSocket and symmetric servers override `recv`, `send`, `accept_continuation` and
`close_client`, which `run_thread` calls.  An application installs callbacks
(`on_connect`, `on_read`, `on_disconnect`) that run on whichever thread owns the client.
`HttpApi` is such an application; its maps are shared by all threads without a lock
except `file_cache_mutex`, which is only try-locked.  `DistributedNode` and `comd` are a
symmetric server plus a thread of their own.

What is hard here, and listed line by line under `hazards` in `PROJECT.json`:

- one `epoll_wait` returns a batch; handling one event can invalidate the next;
- one-shot registrations that must be renewed on every path, or nobody listens;
- books kept twice, by the kernel and by the thread (maps, counts, registrations);
- descriptor numbers that are closed and reused, and descriptors that run out;
- check-then-act on shared maps by several threads (cache, rate limit, captcha);
- retries and restarts on a channel whose two ends count messages separately;
- state kept by descriptor number, or kept once for all clients, when the number or the
  place goes to the next one (TLS sessions, the handshake, comd's shell);
- handlers of several statements or steps beside another thread (jph2's routes, the
  game's tables);
- a recursive parser whose calls share one pointer and step it back.

What makes each component correct: the server's counts, registrations, timers and
descriptors agree with the kernel's and somebody keeps listening; broadcast packets are
not reordered or lost to clients of the reading thread; a call over the symmetric
channel is executed at most once, gets its own answer, and returns; the cache never
serves what is older than the request saw and stays within a stated overshoot; limits
and captchas are enforced up to a bound the number of threads gives.  The programs keep
their users apart: a shell's output goes to whom it belongs, unless a command outlives its
session; a row is changed by those it has belonged to, while it keeps its number; a
WebSocket message follows the handshake of its own connection.
What one conversion writes the other reads.

## 2. The modules

| Module | Models | Extends / instantiates |
|---|---|---|
| `EpollServer` | `run_thread` and the kernel objects it uses | |
| `EpollServerProofs` | inductive invariants and theorems about `EpollServer` | `EpollServer` |
| `Broadcast` | the broadcast pipe between threads | |
| `BroadcastProofs` | theorems about `Broadcast` | `Broadcast` |
| `RpcChannel` | abstract: what `communicate` promises its caller | |
| `SymmetricChannel` | client, two framed streams, one-thread server | refines `RpcChannel` |
| `SymmetricChannelProofs` | theorems about it, and the refinement | `SymmetricChannel` |
| `FileCache` | `respond_http` on several threads | |
| `FileCacheProofs` | inductive invariants and theorems about `FileCache` | `FileCache` |
| `HttpApi` | the request handler on several threads | |
| `HttpApiProofs` | theorems about `HttpApi` | `HttpApi` |
| `Json`, `HttpRequest`, `WebsocketFrame`, `Arguments` | the conversions of `json.cpp`, `util.cpp`, `websocket.hpp` | |
| `Codecs` | inputs for them and what they should give | the four above |
| `CodecsProofs` | theorems about the conversions | `Codecs` |
| `EventClient` | `EventClient::run` | |
| `RemoteShell` | `com`, `comd` and `Shell` | |
| `Tanks` | the game's two threads | |
| `DistributedNode` | several processes with a node each | |
| `TlsWebsocketServer` | TLS, the WebSocket handshake, a sending thread | |
| `PgSqlModel`, `Jph2` | statements on a table; the routes that use them | `Jph2` extends `PgSqlModel` |
| `Programs` | one of the six programs above running | all of them |
| `RemoteShellProofs` | the lemmas about comd | `RemoteShell` |
| `ProgramsProofs` | theorems about the six programs | `Programs`, `RemoteShellProofs` |
| `MC*` | symmetry and constant definitions for TLC | the module of that name |

### EpollServer

State.  `kind`, `ep`, `armed`, `peer`, `expired`, `backlog` are the kernel's: what each
descriptor is, whose epoll instances watch it, whether its one-shot registration is
armed, what a read would find, which timers have fired, how many connections wait.
`srv` and `tmo` are each thread's registrations of `server_fd` and of its
`timeout_epoll_fd`.  The rest are the locals of `run_thread`: the maps keep their names,
`batch`, `errs` and `timeouts` are the events harvested but not yet handled, `closing`
is the client between `close()` and the rest of `close_client_callback`, `new_fd` the
one between `accept` and its registration.  `sessions` counts `on_connect` minus
`on_disconnect` calls and is history only.

Steps.  One action per branch of the event loop, cut where another thread can see the
difference: `EpollWait` (lines 252-265), `ErrorEvent` (267-286), `TimeoutEvent` /
`CloseTimedOut` / `TimeoutsDone` (287-314), `AcceptLock` / `AcceptBusy` (337-338),
`AcceptClient` / `AcceptFails` / `ContinuationFails` / `Track` / `AcceptUnlock`
(339-416), `ReadEvent` (417-446), and `Disconnect` (238-248), which is the part of
`close_client_callback` after `close()`.  A missing key of an `unordered_map<int, int>`
reads as 0, so the code may close descriptor 0: `At` and the descriptor `Stdin` model
that.  `num_connections` is an unsigned word of `WordSize` values and wraps.  The order
of the events in a batch is the kernel's; the model allows every order.

Environment.  Peers connect, send, finish and (if `Resets`) reset; timers fire (if
`Timeouts`); any free descriptor number may be the next.  The rest of the process (a
file being sent, a database, a shell) takes up to `MaxElsewhere` descriptors and gives
them back, so that `timerfd_create` may fail for one client and work for the next.

### Broadcast

The pipe holds message numbers.  Every thread waits for its read end with a one-shot
registration of its own; `BroadcastEvent` is one pass through lines 315-336: read a
packet if one is left, send it to the clients of the reading thread, re-arm.  `Slow`
clients may have a full socket buffer; the code reports and drops what they miss.
`audience` and `reader` are history: who was connected when a packet was sent, and
which thread read it.

### SymmetricChannel and RpcChannel

A message is a size block and a data block, each with its sender's transaction number
modulo 255 (`Modulus` here).  Client steps follow `communicate` block by block: connect,
send size, send data, receive size, receive data; a failed send closes the connection,
resets the counters and retries on a new one; a failed receive returns an empty string.
Server steps follow `recv` and `send` of one server thread with the per-descriptor
counters set on accept.  Connections are numbered; each has its two streams and two
ends.  The server may time a client out and may restart, which closes every connection.

`RpcChannel` has only `Call`, `Execute`, `Answer` and `Fail`.  `RpcSpec` in
`SymmetricChannel` is that specification, `INSTANCE RpcChannel WITH` its variables
`status`, `executed` and `answer`; every behaviour of the channel is one of it, which
includes that a request is never executed twice although it may be sent twice.

### FileCache

`respond_http` cut at each access to shared state, in the order the code makes them:
`lstat`; `count`; `->modified`; `erase`; the three conditions of caching (`CheckAbsent`,
`CheckRoom` and `TryLock`); the unfilled entry put into the cache (`Publish`), which other
threads find before its `Charge`; one buffer at a time (`LoadBuffer`); `count`; `operator[]`;
one buffer sent at a time.  Two things stay one step: `read` with the `memcpy` of what it
read, and with the `unlock` if it was the last, as nobody else writes that buffer, and a
thread that sees it or the lock a moment later does what it may do anyway.  Files are
edited at any moment, possibly within the second of the last edit.  `disk` keeps every
version, so that a buffer in the cache is the number of the version it came from, and
`Garbage` where nothing was read.  An access to an entry that was erased meanwhile is a
null dereference and a copy past the end of an entry a heap overrun: `Crash`, after
which nothing happens (the overrun may also do no visible harm).

### HttpApi

`on_read` for a rate-limited route that asks for a captcha and for `GET /api/captcha/`.
A session key comes from the header if it names a session younger than `Lifetime`, else
from the hash of the client's data; sessions are never removed, so an expired one is
found again under the same hash.  Then the limit is checked, stamped, the required
parameters looked at, the captcha compared and cleared: one action for each access.
An empty captcha answer is refused before the comparison because the routes that ask
for a captcha list it as a required parameter (`examples/jph2.cpp:85`).

### Codecs

A behaviour is one conversion of one input.  `Json` has `parse` step by step: `stack` is
its recursion, `it` the pointer every call shares, one action per kind of character;
`Stringify`, `Escape` and `Deescape` are functions.  `HttpRequest` has
`parse_http_request` as a fold over the characters of a request, with `url_encode` and
`url_decode`; `Arguments` has `parse_arguments` over the words of a command line and a
configuration file; `WebsocketFrame` the frames.  The recursion is written as recursive
functions.  `Codecs` adds what a client writes and what it means, as the reference: the members it
gives in turn, the last with a key counting (`Overlaid`).

A query's or a form's value is given to `JsonObject::parse`, on the object its key has
already or a new one, and only if that finds no type is it kept as the text it is.  So a
value that opens a quote becomes the text up to the next quote, one that opens a bracket or
a brace an array or an object, and one without a text of its own leaves the key the text of
the value before it.  `MemberOf` says which of these happens, `Put` what becomes of the
object.  `MemberOf` looks for the characters that count instead of stepping through
`parse`; that it comes to the same is a part of `JsonRoundTrip`, for every text of up to
four characters.  What such an array or object holds is left out.  `Readable` excludes the
values that `parse` does not return from or reads past (those that end in a backslash, and
those that end in a quote without beginning a string).

Where the code gives up something, the reference says so, and these are worth knowing:
`parse` drops the escapes of line feeds and tabs (`Kept`); a text that ends in a quote
opening a string inside an array makes it loop for ever, and one that ends in a
backslash makes it read past its end (such texts are not among the inputs);
`strict_compare_inequal` calls everything unequal for a count of 0, against the comment
at `util.cpp:264`; a form's value loses any `=` of its own; a key without `=` leaves the
key's former value; a parameter or header may be called `route` or `method` and replaces
the request's; a browser's message of 256 bytes or more is cut, as `parse_frame` reads
the length low byte first; `url_decode` gives back bytes up to 127 only.

### EventClient

One action per case of the switch in `run`, for the connection at `turn`, with `running`
and `alive` (`alive_connections`, which starts from `Garbage`: no constructor sets it).
A socket for which there is no descriptor leaves its connection as it is.

### RemoteShell

`pc` says where comd's two threads are: the server's in a callback (`write`, the steps of
`sclose`, `sleep`), the main thread in its loop.  Each system call of `sclose` is a step,
as both threads may run it; what they close is what the shared members name at that
moment.  A connection is two ordered channels of whole messages, which is what
`SymmetricChannel` shows.  The connection's number is the same for each run of `com`,
since the last one was closed before the next is accepted.

`sclose` sends SIGTERM to bash and to nothing else.  `jobs` counts the commands bash has
started that have not ended: they outlive it, hold the ends of the pipes that bash had
(`Peopled`), may read what is left of the input, and may still write.  So a `read` of the
main thread does not end with bash.  `sleep(10)` in `on_disconnect` is taken to be long
enough for every call of the main thread except that `read` (`Waits`); when it ends with the
main thread still there, the shell is remembered as `late`.  What follows then is in the
model: the server accepts the next connection, which has the same number; the command ends;
its output goes to that connection, even before the identity was asked for; or, with no
output, the main thread finds the pipe at its end and closes whatever shell is open, the
next session's.  `SessionsKeptApart` states this exception (`late`) and that there is no
other: without the sleep (`AwakeAtOnce`) the sessions mix with no such command at all.

### Tanks

The tick thread's `phase` and the game server's `spawning` and `steered` cut both threads at each
access to a table they share.  `locations` stands for the four tables that change
together.  Of the tanks' movement only the overlaps matter, which may be any set of
pairs.  `raced` is history: tanks for which an event (a departure, or a second explosion
of one that overlapped two others) was carried out while `on_read` was at them.  Nothing
prevents that, and it is how the program is `lost`: `locations.at` throws for a tank that
lost its location while it spawned, and an input (`FindTank`, `Steer`) that counted a tank
gets a null one from `operator[]` once the tank is gone.  `TablesAgree` says that these are
the only ways.  A place that is no number ends the program as well (`Refuse`: `std::stod`
throws), by one message and without a race.

### DistributedNode

`NodeThread` is `start` with the steps of `communicate` that another process can see;
`Answers` is the server's `on_read`.  A link has a client's end and a server's end, which
are closed at different moments.  Two things in the code shape it: `on_read` takes the
length that `send` returns for a failure and closes the connection after every answer, so
that every second exchange finds it closed and returns nothing; and a node that is asked
before its `set_ddata` ends, for `GetStr` throws a pointer (`json.cpp:299`).

### TlsWebsocketServer

Numbers are reused, so every table has, per number, the connection it speaks of, as
history.  The server's thread is cut where the other thread can see the difference:
inside `accept_continuation`, and in a close between the erase of the SSL, the `close`
and `on_disconnect`.  The sending thread takes a number from the application's table and
sends later; that the number may be another connection's by then is the code's behaviour,
and `HandshakeFirst` asks only that this one has had its own handshake.

### PgSqlModel and Jph2

A table is a function from ids to rows, a statement an operator on it, a handler a chain
of statements with what it remembers in `doing`.  `owners` is a history column.  The
owner of the database may `Grant` access by hand, and the process may end.  A row's
other columns are left out, so that an edit is one that gives the row to its owner.

`Insert` and `Update` take `id` like any other column: `update_thread` and the others pass
what the request holds, and `update_user` erases `id` from the wrong object.  A new row may
therefore have any number that is free, and an `UpdateUser` or `ApplyChange` may give a row
another one, within what the schema (`scripts/extras/tables.sql`) admits: two rows never
have one number, and a user that other rows refer to keeps its own.  A token goes on naming
the number.  So a handler that has looked up a row's owner may find another row, of another
user, under that number when it comes to change it, and does change it.  `kept`, in `doing`,
is history: whether the row that was looked up still has the number; `OwnersKept` speaks of
those rows.

### Programs

`program` is the one that runs; the others keep their initial values.  They
share nothing, so the states are the sum of theirs and one run checks them all.

## 3. Runs

| Run | Instance | Properties | What it shows |
|---|---|---|---|
| `EpollServer_idle` | 2 threads of 1 client, 4 descriptors (one may be taken elsewhere), idle timeouts | `TypeOK SomeoneListens DescriptorsAccounted SessionsMatch ListenerMatches` | the books agree with the kernel's in every interleaving, also while `accept` and `timerfd_create` fail and until both threads have left the loop |
| `EpollServer_batch` | 1 thread of 2 clients, 4 descriptors (one too few, and one may be taken elsewhere) | `PendingServed AcceptProgress` | one batch may close the client of a later event; what was sent is read, or the client closed; connections keep being accepted |
| `EpollServer_reset` | 1 thread of 2 clients, 6 descriptors (one may be taken elsewhere), resets, no timeouts | `CountMatches DescriptorsAccounted ClientsTimed` | the error branch keeps the books and the timers |
| `EpollServer_deaf` | 2 threads | `EveryThreadListens` (violated) | see findings |
| `EpollServer_stale` | 1 thread, resets and timeouts | `DisconnectedOnce` (violated) | see findings |
| `Broadcast_order` | 2 threads, 2 clients (1 slow), 3 messages, pipe of 2 | `DeliveredInOrder ReachesReadersClients PipeDrains` | no loss, duplicate or reordering towards the reader's clients |
| `Broadcast_threads` | 2 threads, 1 message | `ReachesEveryClient` (violated) | see findings |
| `SymmetricChannel_calls` | 3 requests, 3 connections, 1 restart, numbers modulo 2 | `TypeOK TransactionsInStep RpcSpec CommunicateReturns` | at most once, own answers, counters in step past their wrap, and return |
| `FileCache` | 2 threads, 1 file of up to 2 buffers, 3 versions, budget 3 | `TypeOK HolderLoads LedgerBalances CacheBounded ServedFresh` | lock, budget, bound and freshness under unlocked reads |
| `HttpApi` | 2 threads, 2 clients of 1 address, 3 clock values | `TypeOK LimitBounded CaptchaBounded` | how far the races open the limit and the captcha |
| `Codecs` | the inputs of `MCCodecs` | `TypeOK JsonRoundTrip JsonReturns TextsRestored HttpPartsFound ArgumentsResolved FramesRead` | the parser stays in its text and returns, and makes of a value what the HTTP parser counts on; what is written is read back; requests and command lines mean what they say |
| `Programs` | see below | `ProgramsTypeOK SessionsKeptApart TablesAgree HandshakeFirst OwnersKept ClientReturns ShellReleased NodesHear` | users kept apart but for what outlives a session or changes its number, tables and books in step, and the three loops that must get on |

Why the bounds are enough.  Two threads are what every race here needs: the hazards are
between a thread and one other.  Thread and client limits of 1 and 2 make "full" and
"room again" frequent.  Five descriptors (one is standard input) would be exactly enough for two
clients with timers; with four, or one taken by the rest of the process, a client gets
no timer, and `accept` fails as well and stops the server (`EpollServer_batch` and
`EpollServer_idle`, whose peers do not reset: see `OneCause` below for the two
together).  In `EpollServer_reset` six are enough for two clients, their timers and one
elsewhere.
`WordSize` 8 leaves a wrapped count
visible as a violation of the type or of the bound.  Modulus 2 wraps the transaction
number with the second message of a connection.  Two buffers are the least a file needs
to be half loaded, three versions let a request be overtaken twice, and a budget of 3
lets a file fit once but not always twice; one file is enough because entries of
different files share only the lock and the budget, both of which two requests for one
file exercise too.  In `HttpApi` the window is 2 ticks out of 3, one captcha can be
asked for and answered by both threads, and two sessions let one be replaced.

In `Codecs` the inputs are values with at most two members and the characters that mean
something to a parser (quotes, brackets, separators, escapes), texts that are cut short
or closed twice, requests with a key in two places, command lines in which an argument
is given twice, in a file, or last without a value, values that open a quote, a bracket or
a brace alone and after another value of their key, and frame lengths on both sides of
each boundary (125 and 126, 255 and 256, 65535 and 65536).  In `Programs`: two connections of an event client; two runs of `com`,
with up to two commands and two shells, so that the second meets what the first left, a
command that still runs included;
two tanks and a connection that leaves and comes back; a node that knows two others, one
of which ends once; three connections over two numbers; two threads of jph2, two numbers of
users and two of a table's rows, so that a row moves and another takes its number, and one
user that is deleted or given access by hand (`MaxMarked`).

Symmetry is used for threads, descriptors or clients in runs without temporal
properties only.

Deadlock is checked in every run but `Codecs`, where a conversion ends, and `Programs`,
where `EventClient` returns, the game may end and bounds run out.  Elsewhere, where the
system may stop, the module says so with a stuttering action: all threads have left `run_thread`, the process is dead, the calls or
the bound are used up.

### Fairness

`EpollServer!Fairness`: a thread that can take a step eventually does (the operating
system schedules threads), and an armed `timerfd` eventually expires unless it is
restarted or closed.  Nothing is assumed of peers.  `Broadcast`: the threads are
scheduled.  `Programs`: every thread of the program that runs is scheduled, and
`sleep(5)` leaves `clients_mutex` free long enough for a waiting `add_client` (strong
fairness); users, peers, bash and processes that have ended need do nothing.  `Codecs`:
the call goes on.  `SymmetricChannel`: the client and the server processes each run; nothing is
assumed about connects, timeouts or restarts.  `FileCache` and `HttpApi` state safety only.

`AcceptProgress` is checked with one thread; that several threads never all stop
listening is the invariant `SomeoneListens`, proved for any number.  Both leave out one
case on purpose.  A client that `timerfd_create` left without a timer and whose
registration a result of 0 or `PACKET_LIMIT` left disarmed is never closed: the thread
it fills stays full.  When the other threads are deaf, such a server accepts nothing any
more; the model reaches that state, and no document of the repository excludes it.

### Findings

Three runs end in a violation, of a statement the repository makes about itself.

- `EpollServer_deaf`.  The comment at `tcp-server.cpp:14` says each thread "is able to
  accept new connections".  `server_fd` is registered one-shot and re-armed only by the
  thread that wins `accept_mutex.try_lock()`; the loser never hears of a connection again.
  That this is never all of them is proved (`SomeoneAlwaysListens`).
- `EpollServer_stale`.  The comment at `tcp-server.cpp:18` considers a timeout and another
  event for one client resolved.  Removing a descriptor from epoll does not take back an
  event already harvested: an error event of the batch closes the client a second time.
- `Broadcast_threads`.  The comment at `tcp-server.cpp:317` says each thread receives a
  broadcast.  A packet is consumed by the first read; only that thread's clients get it.

## 4. Proofs

Every invariant that a run checks is also a theorem, except `JsonRoundTrip` of `Codecs` and
a part of its `TypeOK` (see "Only model-checked"): for every number of threads, clients, descriptors,
messages and files, texts of every length, every limit, and every bound of the models.
The one refinement is a theorem too.  Each proof module has an inductive invariant, a
lemma that `Init` establishes it, one lemma for each action, or for each kind of step,
that keeps it, and a theorem for each property that follows from it; `CodecsProofs` has
instead, for each conversion, a lemma of what it has made of the first i elements.

What is assumed of the constants stands with them, in the assumption each module names;
TLC evaluates all of these.  They say no more than the code or the meaning of a constant
gives: sets of threads, descriptors or workers are finite (and not empty where the code
starts one at least), limits and bounds are natural numbers, `Stdin` is a descriptor,
`max_connections` is positive and below the word size, connections of an event client are
numbered from 1 on, a node knows only nodes, a handle is a sequence of strings.  Of the
inputs of `Codecs`: the texts and words are strings without a NUL inside, a URL is made of
bytes, no JSON text ends in a backslash (`parse` reads past the end of one that does), requests
are `WellFormed` (see `CodecsProofs`), and `configuration_file` is among the arguments, as
`parse_arguments` defines it itself.

### EpollServerProofs

| Theorem | Property | Hypothesis |
|---|---|---|
| `TypeCorrect` | `TypeOK` | |
| `SomeoneAlwaysListens` | `SomeoneListens` | |
| `CountCorrect` | `CountMatches` | `OneCause` |
| `ListenerCorrect` | `ListenerMatches` | `OneCause` |
| `DescriptorsCorrect` | `DescriptorsAccounted` | `OneCause` |
| `SessionsCorrect` | `SessionsMatch` | `OneCause` |
| `TimersCorrect` | `ClientsTimed` | `OneCause`, `EnoughFds` |

`OneCause` is `Resets => ~Timeouts /\ EnoughFds`: peers may reset connections, or idle
timeouts and exhausted descriptors may end them, but not both.  Both halves are needed.
With resets and timeouts together the properties do not hold, which is what
`EpollServer_stale` shows.  With resets and too few descriptors, an error event of a
client without a timer finds nothing in `client_to_timer_map`, `operator[]` answers 0, and
the code closes descriptor 0; the next connection that is accepted may get that number,
and the next error of a client without a timer closes it, uncounted.  (TLC finds this with
`EpollServer_reset` reduced to three descriptors.)  `EnoughFds`, more descriptors than
`MaxElsewhere` and two for each client that any thread may have, is also what
`ClientsTimed` is about: `timerfd_create` does fail otherwise.  `EpollServer_reset` is an
instance of both hypotheses.

`TypeOK` is not inductive: `Track` increments a word that `HasRoom` bounds, so
`AcceptInv` adds that a thread that has accepted a client still has room and is not
closing one.  `SomeoneListens` needs `MutexInv`: whoever holds `accept_mutex` is in the
accept branch and its registration is "fired", so the thread that makes another one
deaf is not deaf itself.

The rest is about the kernel's objects, and the code reaches those through two maps; the
invariant has to say that the maps are right.  `LinkInv` is the conjunction of

- `KernelInv`: descriptor 0 stays standard input, free descriptors belong to nobody;
- `MapsInv`: the maps of a thread pair its timers with its clients, both ways, but for
  the entries of value 0 that stale events leave behind;
- `TimeoutsInv`: timers reported to a thread are still its own when it closes them;
- `EventsInv`: there are error events only if peers reset, and where no timer fires every
  event of a batch is of a client that the thread still watches;
- `TimedInv`: with `EnoughFds`, every client has its timer.  `Track` finds a free
  descriptor because those in use are standard input, the clients and one timer for each,
  and those of the rest of the process, and no thread has more than `max_connections`
  clients.

`KernelMapsStep` shows that each handler keeps the kernel and the maps in step,
`EndConnection` that ending a paired timer and client does, and `CountStep` that each
step changes the number of clients and `num_connections` alike.  `OwnedInv` (a client is
watched or being accepted) gives the descriptors.  `SessionsMatch` counts calls for a
number: those who watch it and those between `close` and `on_disconnect`.

### BroadcastProofs

`OrderCorrect` (`DeliveredInOrder`), `PipeCorrect` (`ReadOnce`, stated in this module) and
`ReachCorrect` (`ReachesReadersClients`).  `ReadOnce` is what several readers of one pipe
could break: what is in the pipe or was delivered was broadcast, and what a client was sent
is not in the pipe any more, for a second thread to read.  Order needs to know of the pipe: it holds an ascending run of
messages that is newer than everything delivered (`PipeInv`), as every read takes the
oldest.  Reach needs `AudienceInv`: a message in the pipe has no reader yet, and an
audience of clients that are still connected.

### SymmetricChannelProofs

`TypeCorrect`, `NumbersInStep` (`TransactionsInStep`) and `CommunicateImplementsRpc`
(`Spec => RpcSpec`), for every modulus and every number of connections and restarts.  All
three come from `ChannelInv`:

- `EndsInv`: connections not made yet are empty, those before the present one closed on
  the client's side, and nothing is left to read of one that the server closed;
- `CallerInv`: one request is called at a time, and until its data block was sent it was
  not executed;
- `InUseInv`: of the connection in use, exactly what is on the way at each step of
  `communicate`, and that both ends count the same;
- `LeftInv`: a connection that was given up still holds a request or the rest of one, or
  nothing.  That request failed, was not executed, and is on no other connection.

`LeftInv` is why a retry is safe: a write fails, and the request is sent again, only where
the server has closed its end, and such a connection holds nothing the server would read.
A request whose answer was given up may still be executed from the connection it was left
on, but only there.  The refinement maps the start of `communicate` to `Call`, a data
block the server accepts to `Execute`, the answer's data block to `Answer`, an empty
return to `Fail`, and every other step to a stutter.

### FileCacheProofs

| Theorem | Property |
|---|---|
| `TypeCorrect` | `TypeOK` |
| `LockCorrect` | `HolderLoads` |
| `BoundCorrect` | `CacheBounded` |
| `LedgerCorrect` | `LedgerBalances` |
| `FreshCorrect` | `ServedFresh` |

`CacheBounded` is not inductive: several threads pass the check for room before one of
them charges the budget.  `RoomLeft` counts them: what is left, less `MaxSize` for every
thread that has passed the check and neither charged nor failed to get the lock, is more
than `MaxSize` times the number of all threads below zero.  Passing the check needs a
positive budget, which gives the bound for any number of threads past it; charging leaves
that set.

`ServedFresh` is about bytes that one thread sends and another may have loaded.  It needs
`StampInv`, an entry in the cache holds nothing older than its own time, and `PastInv`,
past the comparison of times whatever is in the cache for a request holds nothing older
than its `lstat` found, whoever put it there.  That survives another thread's slow load
because what is loaded is the newest version at the moment of the `read`, and versions
only grow (`DiskInv`); and it needs `OwnInv`, that no entry is of two files, since a
buffer is written through a pointer.

`LedgerBalances` speaks of a sum over a sequence that grows, and of the entry that was put
into the cache a step before it is charged (`Uncharged`); that there is at most one such
entry is the lock's doing, so it is proved together with `LockInv`.  `Allocated` is a recursive
function of the number of entries; what such a function is has to be shown to exist
before anything is known of its values, so `LedgerInv` speaks of every function that sums
(`Sums`) and of there being one, which one more entry extends by one value.

### HttpApiProofs

`TypeCorrect`, `CaptchaCorrect` (`CaptchaBounded`) and `LimitCorrect` (`LimitBounded`).

The captcha's invariant: no two sessions hold one captcha, one that is held has not been
used (`HeldInv`); a thread that found an answer right is with the session that holds it,
if one still does (`RightInv`); and the calls a captcha has let through and the threads
that will still be let through are together no more than the threads (`SpentInv`).

The rate limit is the one bound here that nobody sees at a glance.  A window of
`Minimum` opens when the clock reaches its start.  Threads that read the clock before and
may yet stamp that older time are `Old`; each can reopen the limit once, and after that
everybody who is not old any more may pass once.  `Credit` adds up the calls made, those
still to come as the limit stands, and for `old` old threads the `N + (N - 1) + ...` that
they can cause: `2 * calls + 2 * coming + old * (2 * N - old + 1) <= N * (N + 1)`.  Every
step keeps it, because stamping an older time trades one old thread for the calls it
opens.  The invariant speaks of all windows, those that have not begun included.  The sum
of calls is a recursive function; `Descent` (see `CodecsProofs`) stands in for the
induction that shows what it is.

### CodecsProofs

| Theorem | Property |
|---|---|
| `ParserStaysInText` | `TypeOK`, for the texts `parse` is called with from outside |
| `FramesCorrect` | `FramesRead` |
| `TextsCorrect` | `TextsRestored` |
| `ArgumentsCorrect` | `ArgumentsResolved` |
| `RequestsCorrect` | `HttpPartsFound` |

`TypeOK` says that the pointer the nested calls share stays in the text, and needs to know
why the steps back are safe.  `ParserInv` adds that a call whose caller steps back has read
something (a call for an element that is not a string starts at the brace or bracket that
gives the element its type), and that a backslash is never the last character, so that the
character taken after it is one of the text.

The others say what a fold makes of a text of any length.  The library's induction
theorems cannot be used, but `Descent` (a set of natural numbers that holds the
predecessor of each of its members is empty, by counting the members below one of them)
needs no operator and stands in for induction: `Recursion` gives the results of N steps,
`FoldExists` and `FoldValue` tie them to the folds of the community modules,
`FlattenRuns` and `PartsFound` find each part in what `FlattenSeq` puts together.  On that:

- `EscapeRestored`, `UrlRestored`: after the code of i characters the decoder has given
  back exactly those, and has nothing pending;
- `LineRead`: after i words of a command line, an argument has what the last place among
  them gives it (`ReadSoFar`), or an exception has ended the program; `FileRead` adds the
  configuration file, which is the one that the command line or the default names, even if
  it has a member `configuration_file` itself;
- `ServerFrame`, `BrowserFrame`: the three ways to write a length against the two to read it;
- `RequestTakenApart`: `Reads(head, p, s, q)` says that the text `s` takes the parser from
  `p` to `q`, and texts are joined by `ReadsJoin`.  Each part of a request has its lemma
  (`RouteRead`, `QueryRead`, `HeadersRead`, `EmptyLineRead`, `BodyRead`, `FormRead`);
  `ReadsParts` repeats one for every parameter, header or field, with the object that the
  members so far have made of it (`FirstOver`); `HeadRead` puts the parts together.

`RequestsCorrect` needs to know what a request may hold, which `CodecsAssumption` says for
all that are sampled (`WellFormed`): no part holds the character that ends it, nor one that
the parser takes for something else (a `%` is dropped, and a carriage return), the route
starts with a slash, and a body is JSON or a form exactly if the headers say so.  Nothing
bounds how many parameters, headers and fields there are, and their keys may coincide with
each other or with `method`, `route`, `protocol` and `Content-Type`.  Values may hold quotes,
brackets and braces: a member is then what `MemberOf` makes of it, and the object that the
members so far have made has the type of the last with its key and the text of the last that
had one (`FirstOver`).

### RemoteShellProofs, ProgramsProofs

`ProgramsProofs` has the theorems of the six programs and the lemmas about jph2; those
about comd have a module of their own.  A program has its own inductive invariant, and no
step of one changes another's variables.

| Theorem | Property | Inductive invariant |
|---|---|---|
| `SessionsCorrect` | `SessionsKeptApart` | `RemoteInv` |
| `OwnersCorrect` | `OwnersKept` | `Jph2Inv` |
| `TablesCorrect` | `TablesAgree` | `TanksInv` |
| `HandshakeCorrect` | `HandshakeFirst` | `TlsInv` |
| `TypesCorrect` | `ProgramsTypeOK` | these, `ClientInv` and `NodesInv` |

- comd.  `PlacesInv` says where its two threads can be together: while a connection is
  open the server's thread closes nothing, and the main thread is busy only with that
  connection's shell or one that is `late`; before the next is accepted the shell is closed
  and the main thread back at its check or waiting for a late one.  `ProtocolInv` remembers
  what each state of `comd` took to reach.
- jph2.  `CheckedRight`: what the first statement of a handler found stays true until its
  second while the row is `kept`, as former owners are only ever added and another handler
  that moves the row says so.  A user that has access or rows keeps its number, so what
  `create_*` looked up does too.  `PromotedInv` bounds the administrators by counting those
  who are still on their way to be one, whichever user has their number by then.
- Tanks.  `SpawnInv` ties the event being carried out and the tank being added to the
  tables, except where the two met.
- TLS.  `TlsGreetedInv`: a number that is complete, in the application's table or aimed
  at by the sending thread has had the handshake of the connection it has now, but for
  the moment between `accept` and the reset.
- EventClient.  `alive_connections` less the living connections is what it started from.
- DistributedNode.  A process that ends takes with it what was asked on its connections.

### Only model-checked

- Liveness (`PendingServed`, `AcceptProgress`, `PipeDrains`, `CommunicateReturns`,
  `JsonReturns`, `ClientReturns`, `ShellReleased`, `NodesHear`), out of the proof
  system's reach.
- `JsonRoundTrip` (with it, that `MemberOf` is what `parse` does), and `TypeOK` of `Codecs` for the texts that `stringify` writes: what a
  function that recurs over nested values computes, against a parser with a stack.
- `EpollServer` where resets meet timeouts or exhausted descriptors: the properties fail.

## 5. Not modelled, and abstractions

- Memory races.  Single accesses to shared maps, words and pointers are atomic; a data
  race inside a standard container has no defined outcome.  What the models show is what
  the order of accesses alone allows.
- The byte before `packet` that line 325 writes after an empty read.
- `epoll_wait` errors and set-up failures, which stop or abort the server.
- Cryptography: blocks keep only kind, transaction number and request.  Partial reads
  of a block, which close the connection.
- In `FileCache`: `HEAD`, content types, parameter substitution, a failing `close`, the
  uncached responses (they change no shared state).  Sizes are in whole buffers.
- In `HttpApi`: route registration, token decryption, the bodies of routes; several
  rate-limited routes (their stamps are independent).
- In `Tanks`: the memory of a tank that the tick thread deletes while `on_read` writes to it.
- In the conversions: bytes above 127, the texts `parse` does not survive, what a request's
  value holds as an array or an object, the help text of `parse_arguments`.
- In `EpollServer`: two failures of `Track`.  `timerfd_settime` (382) fails for a negative
  timeout only, which no program sets; the timer's descriptor would then stay open.
  `epoll_ctl` cannot watch the timer (390) without memory or with too many watches; the
  client would then never be idle.  And a timer that cannot be closed (298).
- In `RemoteShell`: a bash or a command that traps SIGTERM; a command that writes in several
  pieces; output cut into packets.  A command that never ends keeps the main thread waiting
  for ever, in the code and in the model, and no later session gets output then.
- In `DistributedNode`: a peer that hangs with its connection open blocks the thread, and
  `add_client` with it, for ever, as `communicate` has no timeout.
- In `TlsWebsocketServer`: several server threads, which no program uses; a send between
  the erase of an SSL and `on_disconnect`, which hands OpenSSL a null pointer.
- In `Jph2`: `arrayValues[0]` of a user that has deleted or renumbered itself, which is
  undefined and may end the process (`ProcessEnds`); pqxx's one connection shared by threads without a lock.
- Components with status `not_modelled` in `PROJECT.json`, each with its reason: they use
  the library for little more than input and output, or are run by hand.

## 6. Plan

In this order:

1. Proofs: `JsonRoundTrip`, with `ReadsParts` for the members of an object and the elements
   of an array.
2. Action properties of the core worth a theorem beside the invariants: what a client was
   sent it keeps, an answer of `communicate` is never taken back, the versions of a file
   only grow.
3. Model: `ponal-server` and the polling server; the chat of jph2; several server threads
   of the TLS server, should a program use them.
