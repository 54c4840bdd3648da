# TLA+ specifications of cs-system-lab

This directory models the part of the repository that has behaviour worth
checking: the multi-threaded reactor and HTTP server under
`epoll-http-server/`. The modules are written from the source; comments name
the code behind each action, and `PROJECT.json` maps each definition to its
lines. `file:line` references below are relative to `epoll-http-server/src/`
unless they start with `examples/` or `db-engineering/`.

## 1. Inventory

### epoll-http-server

| Component | State | Operations | Interacts through |
|---|---|---|---|
| `EventLoop`, `Channel`, `Epoll` | `quit_`, eventfd, epoll set, `pendingFunctors_` under `mutex_` | `loop`, `quit`, `runInLoop`, `queueInLoop`, `updateChannel`, `handleEvent` | epoll events, functors queued by other threads, eventfd wakeups |
| `EventLoopThread` | `loop_`, thread, mutex and condition variable | `startLoop`, `threadFunc`, destructor | condition variable, `EventLoop::quit`, `join` |
| `EventLoopThreadPool` | `loops_`, `next_` | `start`, `getNextLoop` | called on the main loop only |
| `Acceptor`, `Socket` | listening descriptor and channel | `onAccept` | callback into the server |
| `HttpServer` | `connections_` keyed by descriptor, under `connectionsMutex_`; per connection channel, request, `writeBuf`, `writeSent`, `closing` | `onNewConnection`, `onRead`, `onWrite`, `onClose`, `sendResponse`, `removeConnection` | functors to a connection's loop, the kernel's descriptor table and socket buffers |
| `HttpRequest` (`HttpContext` wraps it, unused) | parser state, buffer, headers, body | `parse`, `reset`, `keepAlive` | called from `onRead` and `onWrite` |
| `HttpResponse` | status, headers, body, `keepAlive_` | setters, `toMessage` | built in `onRead` |
| stage 1 (`examples/main_stage1.cpp`) | the connection it serves | blocking accept, read, write, close | - |
| stage 2 `EchoServer` | `clients_` | `onAccept`, `onRead`, `onClose` | one loop |
| stage 3 `ReactorServer` | `clients_` under `mutex_` | `onNewConnection`, `onRead`, `onClose`, `removeConnection` | as `HttpServer` |
| stage 4 | - | configures `HttpServer` | - |

What is hard here: the push under the lock and the wakeup outside it, against
the eventfd read and the swap in the loop; the start and stop handshakes of a
thread that owns its loop on its stack; connections owned by a map whose keys
are descriptor numbers that the kernel recycles, touched by several loops; and
responses that leave in pieces while the next input is already arriving. The
list with lines is under `hazards` in `PROJECT.json`.

What makes each part correct: no lost wakeup, functors in order and once, `quit`
heeded (EventLoop); `startLoop` returns a live loop, the destructor joins
(EventLoopThread); a channel lives as long as someone holds its address, a
descriptor is open exactly as long as someone serves it, every connection goes
through accepting, serving and closing to the end, whatever becomes of the
others (servers); responses whole, one per request, EPOLLOUT on while
needed, and the connection closed when a response said so (data path); the
result of parsing independent of how the bytes were cut (parser).

### db-engineering

`DiskManager`, `BufferPoolManager`, `BPlusTree`, `SqlParser`, the executors,
`Transaction`, `LockManager` and the WAL are declarations without an
implementation at this commit, so there is nothing to translate. `Page`
(`storage/page.h`) and the type helpers (`type/type.cc`) are implemented, as
accessors and tables; section 7 says why they are not modelled. `common/` holds
constants and logging macros.

## 2. Modules

| Module | Models |
|---|---|
| `TaskQueue` | what an event loop promises to the callers of `queueInLoop`: one order, a prefix of it executed, nothing twice |
| `EventLoop` | `EventLoop`, its loop's thread and the threads that use it |
| `EventLoopThread` | owner and thread of one `EventLoopThread`, composed with the actions of `EventLoop` |
| `EventLoop_proofs` | the theorems about `EventLoop`, `TaskQueue` and `EventLoopThread` |
| `Reactor` | what both servers share: kernel descriptor table, acceptor, round robin, creation on the sub loop, dispatch, functor turns |
| `ConnectionLife` | what a multi-reactor server promises of each connection: a number of its own, one object, an end, and what it may not promise once a number was accepted too early; with its theorems |
| `HttpServer` | `Reactor` and `HttpServer::removeConnection` |
| `HttpServer_proofs` | its theorems |
| `ReactorServer` | `Reactor` and stage 3's `removeConnection` |
| `ReactorServer_proofs` | its safety theorems, and that it implements `ConnectionLife` |
| `HttpConnection` | the data path of one `HttpServer` connection with parser, socket buffers and client |
| `HttpConnection_proofs` | its theorems |
| `HttpRequest` | the parser: its result against the way the input is cut |
| `HttpRequest_proofs` | its theorems |
| `EchoServer`, `EchoServer_proofs` | stage 2, with its clients and the descriptor table; its theorems |
| `BlockingServer`, `BlockingServer_proofs` | stage 1, with its clients and the listen backlog; its theorems |
| `MC...` | instances for TLC |

**EventLoop.** `pc` is where the loop's thread is in `loop()`; `stage[t]` is
`"waking"` while thread `t` is between the state change of `queueInLoop` or
`quit` and its eventfd write. `EpollWait` takes any subset of the ready events
that `kMaxEvents` allows (`Epoll.cpp:46-55`), `HandleWakeup` is the eventfd
read, `SwapFunctors` the locked scope of `doPendingFunctors`. Callback and
functor bodies are abstract: they may queue functors or quit. `runInLoop` on
the loop's own thread is a direct call and therefore part of the running
callback. The history `ran` records the executed functors. `TQ` maps the
concatenation `ran \o functors \o pendingFunctors_` to `TaskQueue`'s order.

**EventLoopThread.** The owner's `startLoop` (`lock`, `blocked`, `return`,
`started`) and destructor (`dtor`, `quit`, `join`, `gone`), and the thread's
`construct`, `looping`, `nulled`, `done`. The scopes under `mutex_` are single
steps; the read of `loop_` after the unlock, the destructor's unlocked read and
the thread's unlocked `loop_ = nullptr` are steps of their own.

**Reactor, HttpServer, ReactorServer.** A loop is reduced to what `TaskQueue`
promises: `tasks[l]` is a FIFO of which a turn runs the tasks that were there
when dispatch ended (`turn[l]`). `open` is the kernel's descriptor table;
`accept` takes the lowest free number. `object[c]` is the C++ object of
connection `c`, `connections_` the map. `removeConnection` is one action per
step that another loop can observe: in `HttpServer` mark and `disableAll`,
`close(fd)`, queue the erase, and later the erase by number; in
`ReactorServer` `disableAll`, erase under the lock, `close(fd)`. A number is
free as soon as it is closed, as on Linux, also while it is still a key of the
map: `HttpServer`'s history `reused` records the numbers `accept` has returned in
that situation. The callbacks hold raw pointers (`HttpServer.cpp:50-58`). When
the object behind one has been destroyed, a thread that comes to use it
(`Uses`) either finds the memory as it was, which is what the other actions do,
or does something else (`UseDestroyed`): it may close any descriptor, `corrupt`
is set, and the model stops, because nothing can be said of the process from
there on.

`EnableReading` may fail, because `Epoll::addFd` only prints the error of
`epoll_ctl` (`Epoll.cpp:26`) and `updateChannel` sets `addedToEpoll_` all the
same: the connection is then in `deaf`, owned by the map, open, and served by
nobody until the process ends.

`ConnectionLife` is the abstract specification of both servers. `Stage(c)`
computes the stage of a connection from the descriptor table, its object and its
registration; a state the promise has no place for (a registered channel whose
object is gone, an object that outlives its number, and so on) is the stage
`"lost"`, which the abstract server never reaches. `ImplementsLife` therefore
forbids at once that a connection is served before or after its time, that two
hold one number, that a step ends more than one of them, and that one is
forgotten. For stage 3 it is this without exception (`shared` is `{}`, `failed`
is `FALSE`). For `HttpServer` `shared` is `reused` and `failed` is `corrupt`:
`AcceptEarly` is an `accept` that returns a number of a connection that is still
ending, `Confuse` what may happen to the connections whose numbers are shared, and to
no other, and `Fail` the step after which nothing is promised, which only a
shared number can bring about. `LifeGoesOn` is the liveness part.

**HttpConnection.** A connection's handlers run on one thread, so each is an
action. A request is two units, its line with the headers up to `Connection` and
the rest of the headers; a `"large"` one has a body on top that is longer than
the parser buffers. Responses are two units, a 400 one. `inbox` and `unread` are
the socket's two buffers, `SndBuf` the size of the second, `left` is what the
client still has to send of the request it has begun. `Parse` is three turns of
the loop of `HttpRequest::parse` (`ParseUnit`), which is as many as it can make; a
failed line leaves the rest of its unit behind (part 3), and data over the limit
is refused before any of it is looked at, so that a well-formed `"large"` request
gets a 400, with the rest of it unread. The
client may reset the connection between the server's `read()` and its `write()`. `handleEvent` runs at most one
callback per event, the write callback first; since the write callback needs
room and the read callback input, their order is any. `closeCallback_` is never
reached for a TCP socket on Linux, where a hang-up always comes with `EPOLLIN`.
`polite`, chosen at the start, says whether the client waits for each answer
before it sends the next request; most properties are about such a client,
because README.md:14 of the server says that pipelining is not supported. `Aborted`: a
close with input unread, or input that arrives after it, makes the kernel reset
the connection, and the client may lose what it has not read. This is how the 400
of a malformed or a large request gets lost; `OnlyRefusalsAreLost` says that no
other answer does.

**HttpRequest.** `HttpRequest::parse` on a sequence of tokens: a line's text, a
CR, an LF; what follows a head is made of CRs and LFs, the bytes a parser could
mistake for the end of a line. The texts are the kinds of lines it tells apart;
the bytes inside a line are left out (only the place of the line's end matters
to `find("\r\n")`), and so is the path. The client sends the tokens of a
request, and `Parse` feeds any part of what is unread, as a `read()` does.
`Reset` may follow at any time once the request is complete (the response has been
sent, `HttpServer.cpp:171-172`): it throws away what is left in the buffer, and what
had been sent behind the body but not read yet becomes `stray`, which the parser
is fed before the next request. `parseRequestLine` takes a lone CR or LF in front
of a request line for a part of the method, and a CR LF ends a line that is no
request line. `NewConnection` is a fresh parser on a fresh stream, at any time.
The reset after a refusal that `onWrite` has finished (section 5, `conn_close`)
is in `HttpConnection` only. `Turn` is one turn of
the `while` loop of `parse`, `ParseLoop` a recursive function on the number of
turns, applied to the length of the buffer: a turn that does not return takes a
token or more off it, and one that returns is repeated without effect. The
reference the result is compared with is read off the request as it was sent,
not computed by the parser.

**EchoServer.** One thread, so a callback is interrupted by clients only. The
accept loop, `onRead` (read, write, close) and the turn's event array are there
step by step, because a callback destroys its own channel and a number closed in
a turn may be accepted again in the same turn. `client[c]` is what the client has
done to its side, `answered` a history of the responses written. As in `Reactor`
epoll may refuse a connection (`Deaf`).

**BlockingServer.** The loop of stage 1's `main`, one action per blocking call.
A client sends pieces of any length, each of which arrives at once. `read()` is
called once and takes what is there, but at most `ReadSize`, the `sizeof(buf) - 1`
of `main_stage1.cpp:61`; what it leaves is unread when `close()` comes. The error
of a reset is reported once, after which a `write()` raises SIGPIPE
(`pc = "killed"`).

## 3. Runs

| Run | Question | Bounds |
|---|---|---|
| `loop_safety` | no lost wakeup; refinement of `TaskQueue` | 2 posting threads and the loop itself, 2 functors each, 2 channels and the eventfd competing for a batch of 2 |
| `loop_live` | functors run, `quit` stops the loop | the same threads with 1 functor each, a batch of 1 |
| `thread_life` | `startLoop` handshake, destructor after the loop was entered | 3 functors from the owner, 3 from the loop |
| `thread_dtor` | the destructor at any time: **violated** | 1 functor each |
| `http_life` | with numbers reused, who is affected and who is not: ownership, descriptors, refinement of `ConnectionLife`, and that connections do not get stuck | 2 sub loops, 3 connections, 2 descriptor numbers |
| `http_dispatch` | a channel lives through its callback, with numbers reused: **violated** | 2 sub loops, 3 connections, 2 numbers |
| `stage3_safety` | the same hazards in stage 3, and the same refinement, with numbers reused: hold | 2 sub loops, 4 connections, 3 numbers |
| `conn` | responses whole and one per request, EPOLLOUT exactly while needed, `Connection: close` kept, only refusals lost, every request answered | 2 requests of five kinds, from a client that waits for its answers or sends ahead, and may leave; a send buffer of half a response; a parser buffer of 3 units, and bodies of 4 |
| `conn_close` | `Connection: close` kept when a malformed request is sent ahead: **violated** | 2 requests |
| `parser` | the parsed request is what was sent, however it was cut, and is refused only for a reason | 9 kinds of lines, heads of up to 4 lines, 4 tokens after a head, 6 unread tokens, a buffer of 5 tokens, 2 header keys (3.2 million states) |
| `echo` | pointers are owned; senders are answered, waiting clients accepted, descriptors freed | 3 connections, 2 descriptors, 1 piece of data each |
| `stage1` | an answer is cut off only if the request was divided or too long for one `read()`; the queue moves | 2 connections, 2 pieces each, of up to 3 units where a `read()` takes 2 |

Why the bounds are enough. Two posting threads and the loop's own thread give
every order of push, wakeup, read and swap; two functors each let a batch hold
tasks of several threads and be overtaken by the next; a batch smaller than the
number of ready events makes a turn leave events behind. Three connections on
two numbers force a number to be reused while the first connection with it is
still being removed and a third one is served elsewhere; two sub loops are the
least with which two loops touch the map; two numbers for three connections also
let epoll refuse as many connections as there are numbers, so that the third one
waits for ever, and let one loop's late erase meet another loop's connection. A
response ends at once, in pieces, with a close or as a 400; a second request after
each of these is what a state left over would spoil, and a send buffer of half a
response makes every one of them need `onWrite` unless the client reads in
between. In `parser`, four lines are a request line and three headers
where two keys are allowed, so the header limit, a repeated key and a repeated
`Content-Length` all occur; four tokens behind the head are two more than the
longest body, so that some are left in the buffer and some become stray, a CR LF
among them; and a buffer of five is smaller than what one read may bring. In `echo`
the third client finds both descriptors taken, and gets one
in the turn that closes it. In `stage1` the second client waits behind the one
that is being served; two pieces are the least a request
can be divided into, and pieces of one, two and three units are below, at and
above what one `read()` takes. `numThreads = 0` is not a run of its own: the safety
properties of both servers are proved for it as for every other number.

Deadlock is not checked where the system may really stop: after `quit`, when
the clients have nothing more to send, when the owner never destroys its thread.
Each passing property is also checked to fail when one definition is replaced
by one of the faulty variants marked "seeded fault" in the modules.

## 4. Fairness

* A thread that can take a step is scheduled: weak fairness on each loop
  (servers), on the wakeup write, on the owner's and the thread's steps.
* In `EventLoop` the loop's own steps get strong fairness because they are
  disabled while its thread is inside `wakeup()`; callbacks and functors return.
* `LifeGoesOn`: weak fairness on each loop of the server; no client has to
  connect, and an event handler may be run for ever without ending a connection.
* `conn`: the loop dispatches level-triggered events, and the client
  finishes a request it has begun and reads its answers.
* `echo`: the loop's thread runs and every event it reports is dispatched; no
  client has to connect, send, read or leave, and a silent one may keep its
  descriptor for ever (`WaitingIsAccepted` says so).
* `stage1`: the thread goes on when its call can return; one client that stays
  silent may keep it in `read()` for ever (`QueueMoves` says so).
* Nobody has to call `queueInLoop`, `quit` or the destructor, no signal has to
  arrive, no client has to connect or leave, no condition variable has to wake
  by itself.

## 5. What the violated runs show

* `thread_dtor`: `loop()` stores `false` into `quit_` on entry
  (`EventLoop.cpp:29`), so a destructor that comes first has its `quit()`
  overwritten, and `join()` waits for ever.
* `http_dispatch`: `removeConnection` closes the descriptor
  (`HttpServer.cpp:188`) before the queued erase, keyed by the number, has run
  (193-196). Once the number is reused the insertion of the new connection
  destroys the old object inside its callback, or the old erase destroys the new
one. How far this reaches is what `http_life` checks under the same constants.
Stage 3 erases first and is right (`stage3_safety`).
* `conn_close`: `onWrite` asks `conn->request.keepAlive()` where `sendResponse`
  asks `resp.keepAlive()` (`HttpServer.cpp:134` and 171).

## 6. Proofs

All proofs are for arbitrary constants satisfying the named assumptions of the
modules (`ThreadsAssumption`, `EpollAssumption`, `BoundAssumption`,
`OwnerAssumption`, `ReactorAssumption`, `KindAssumption`,
`ConnectionAssumption`, `TextAssumption`, `LimitAssumption`, `EchoAssumption`,
`BlockingAssumption`). These say what kind of value each constant is, that names
differ, and, of the owner of an `EventLoopThread`, that its destructor is the
only caller of `quit()`. No theorem has a further hypothesis, and none restricts
which descriptor numbers the kernel returns. In
every module the safety theorems follow from one inductive invariant, kept by
each action in a lemma of its own.

### The loop and its thread

`EventLoop_proofs` has two parts. The first is about the loop alone and does not
use `OwnerAssumption`:

* `TypeCorrect`: the type invariant of `EventLoop`, with the two bounds in it.
* `WakeupCorrect`: `NoLostWakeup`. It is not inductive: `WakeupInv` strengthens
  it to every place of the loop between the swap and the wait, because what
  makes the wait safe is that pending work found after the swap has left the
  eventfd readable or a thread on its way to write it.
* `LoopImplementsTaskQueue`: each step of `EventLoop` is a step of `TaskQueue`
  or a stutter under the mapping `TQ`; `OrderCounted` (the tasks of thread `t`
  in the order are numbered up to `posted[t]`) shows that a new task is new.
* `TasksAreDistinct` says what `TaskQueue` promises, and
  with the refinement gives `FunctorsRunAtMostOnce`.

The second part is about the loop with its owner. `ThreadRunsLoop` shows that the owner and its thread
only decide when the loop steps, so that every behaviour of the composition is
one of `EventLoop`; `ThreadNeverSleepsOnWork` and `ThreadImplementsTaskQueue`
follow from the theorems above. `ThreadTypesHold` and `ReturnedLoopLives` prove
`ThreadTypeOK` and `ReturnedLoopIsLive` from `ThreadInv`: only the destructor
asks the loop to quit (`QuitInv`), so the loop does not return, and `loop_` is
not cleared, before the owner is past the last use of what `startLoop` returned
(`LifeInv`). `OwnerAssumption` is what makes that true; with another caller of
`quit()` a returned loop could end while its owner still uses it.

### The two multi-reactor servers

`ReactorServer_proofs`: `TypeCorrect`, `EntriesCorrect`, `ChannelCorrect`,
`EventsCorrect` and `FdsCorrect` prove `ReactorTypeOK`, `EntriesAreOpen`,
`ChannelAliveWhenUsed`, `NoDanglingEvent` and `OpenFdIsServed` for any number of
sub loops, connections and descriptors. They all
follow from `ServerInv`. Its core is that a number, as
long as it is open, denotes the connection that got it from `accept`
(`TableInv`) and that an entry of the map is open and alive (`EntryInv`): a
number that `accept` returns is then no key of the map, and an insertion
destroys nothing. `RegisteredInv` and `EventInv` tie epoll's pointers and the
event arrays to the map and to the one loop that dispatches the channel;
`CreatingInv`, `InsertingInv`, `HandlingInv` and `ClosingInv` say what a thread
knows of the connection it is working on, so that no two threads work on the
same one; `QueueInv` and `QueueDistinct` say that each queued functor creates
the object of an open descriptor nobody else is creating; `ServedInv` says who
will close a descriptor whose object is gone. The invariant was checked with TLC
for zero, one and two sub loops, 4 connections and 3 numbers before it was
proved.

`ServerImplementsLife` shows that every step of `ReactorServer` is a step in the
life of one connection, as `ConnectionLife` has it, or a stutter. Beyond
`ServerInv` the mapping needs `NumberInv` (an accepted
connection keeps its number until its object is destroyed) and `DeafInv` (the
object of a connection that epoll has refused is never removed). `QuietSteps`
collects the actions that change no stage; the others have a lemma each, in
which `SameStage` says that all other connections stay where they are and
`OneMoves` that the one at hand makes the step of the abstract server. With
`UniqueCorrect` of `ConnectionLife` (a number that is not shared denotes one
connection at a time) it gives `NumbersCorrect`: no two
connections of stage 3 hold the same number, in the sense of the mapping.

In `HttpServer` an entry outlives its number: `EntryInv` of `ReactorServer` is
false there, and `http_dispatch` shows what follows when the kernel gives such a
number out again. `HttpServer_proofs` proves how far that goes, for whatever
numbers the kernel returns. The invariant `IInv` says that either a destroyed
object has been used (`corrupt`), of which nothing more is claimed than the
types, or `KernelInv` and `MapInv` hold.

* `KernelInv` says about the descriptor table, the queues and the threads what
  does not depend on the map: an open number denotes the connection that got it,
  a registered channel is open and not closing, a thread in a callback holds an
  open descriptor up to its own `close()`, and a number that does not denote its
  connection after it. From it: `TypeCorrect` (`TypeOK`), and `CloseCorrect`, an
  action property: a descriptor is closed only by the loop of the connection it
  denotes, after that connection was marked and taken out of epoll, up to the
  step in which a thread uses a destroyed object. That step may close any
  descriptor, so the theorem says nothing of it: a process that has got there is
  beyond the promise.
* `MapInv` is `KeyInv`, of every number, and `MapAt(f)` for each number `f` that
  was never accepted while it was a key of the map. There an entry is alive and
  either open or closed by its own removal (`EntryAt`), each live object is in
  the map or in the hands of the thread that inserts it (`OwnedAt`), a channel
  registered, inserted or in its callback is alive (`AliveAt`), and each queued
  erase is the only one, for a closed connection of the loop that runs it
  (`EraseAt`), so that it destroys an object whose callback has returned. Each
  action touches one number, and `UntouchedKeeps` shows that all others keep
  their part, reused or not: this is why a bad number spoils its own connections only.
* From these: `DanglesCorrect` and `ServedCorrect` prove `DanglesOnlyIfReused`
  and `OpenFdIsServed`; `ServerImplementsLife` proves `ImplementsLife`, with a
  lemma for each action that is visible in `ConnectionLife` (`AcceptAccepts` has
  the case of a number that is still a key, `OnReusedNumber` that of every later
  step on it, and `DestroyedIsReused` shows that only such a number can lead to
  the use of a destroyed object); `NumbersCorrect` follows as above. An erase
  before the close, as in stage 3, would keep `reused` empty, and the
  exceptions would be gone.

### The data path of a connection

`HttpConnection_proofs` proves all the invariants of `HttpConnection` that the
run `conn` checks, for any number of requests, any send buffer and any
limit of the parser. `AnyClientInv` holds for every client: the types, that
responses and unread input are bounded by what was sent, `EPOLLOUT` on exactly
while something is unsent, the parser ready when nothing is
(`TypesHold`, `EpolloutIsOnWhileUnfinished`, `ParserIsReady`). `PoliteInv` holds
for a client that waits for its answers. Its core is `ServingInv`: an open
connection is in one of three phases, idle, in a request of which so much has
been sent and read, or with the rest of a response to write, and in each of them
the parser's state, both socket buffers and the write buffer are determined. The
units sent so far are those of one response after the other (`StreamInv`);
`Counted` ties the number of complete responses the client has read, which is
what it waits for, to the last unit it has read. `StoppedInv` says what is left
when the connection is closed: if a response is unread while input is left over
or still to come, it is the refusal of a malformed or a large request. From these: `ResponsesAreWhole`,
`AnsweredOnce`, `CloseIsKept` and `AcceptedRequestsKeepTheirAnswers`. For a large
request `LargeInRequest` takes the place of the phases: its units alone never
complete it, since the buffer is shorter than the body, so it can only be refused.

### The parser

`HttpRequest_proofs` proves the three invariants of the run `parser`, for any
lines, any payload, any limits and any way the reads cut them: `TypesHold`
(`TypeOK`, with the bound of the buffer), `RefusalsAreJustified`
(`RefusedForAReason`) and `RequestsAreParsedAsSent` (`ParsedAsSent`). The text of
a line is one of the ten kinds the model has, as `TextAssumption` says.

* The invariant, `RequestInv`, relates the parser to what has been sent
  (`Progress`). A parser that has not refused is `Waiting` for its first line, with
  all that was read still in its buffer, the stray tokens included; or no line
  ended in the stray tokens, they went into the method, and from there on the
  parser is where it would be without them (`Parsed`, of the `Share` of the input
  that is the request's). It has then taken the first `k` lines (`Taken`: the first
  is the version; each later one is valid, and each key of `headers_` holds the
  last line with it; `contentLength_` is that of the last `Content-Length`), and
  its buffer is the rest of what was read, without the body if that has been
  taken (`Left`). `Stopped` says why the last `parse()` returned, from which
  `AllTaken` concludes that `k` is all the lines received: without it the parser
  might still have lines to take, and `ParsedAsSent` would not follow. A parser that has
  refused was given a malformed request, a line that ended in the stray tokens
  (`Refusable`), or more than `kMaxRequestSize` tokens.
  The invariant was checked with TLC on a small instance before it was proved.
* The loop. `LoopTurns` shows that the recursive function of `ParseLoop` exists
  and does what its definition says, and that is all the later proofs know of
  it. The library's theorem for this takes an operator as a parameter, so it is
  shown directly: each restriction to `0 .. n` exists (`UpToExists`), any two
  agree (`UpToAgree`). Both use induction in the form of a fact about sets,
  `SetInduction`, which follows from the well-foundedness of the naturals.
  `ParseLoopEnds` then shows that the turns keep `Progress`, that each
  one that does not stop shortens the buffer (`TurnAdvances`), and that
  therefore as many turns as there are tokens end in a stopped parser.
* A turn. `FirstLineTurn`, `HeaderTurn`, `EmptyLineTurn` and `BodyTurn` treat
  the states of the parser; in the first `FirstLines` tells where the first line
  of a buffer ends that begins with stray tokens. They rest on `StreamShape` (the stream, token by
  token), on lemmas about cuts of a sequence (`CutIsSeq`, `CutOfCut`,
  `CutsJoin`, `CutOfLonger`) and on `LinesInBuffer`: the first CR LF of a buffer
  that begins with a line is the end of that line, and there is none while the
  line is not complete.
* The client. Whatever it sends next leaves the tokens it has sent in place
  (`StreamOfGrows`), so it disturbs no part of the invariant (`ClientKeepsInv`).
  At a reset all that is left of the stream is CRs and LFs from behind the body
  (`SurplusIsStray`), which is what the next request may find in front of it.

### The single-threaded stages

`EchoServer_proofs`: `PointersCorrect` (`PointersAreOwned`) and `TypeCorrect`,
from `EchoInv`: the map and the kernel's table are equal (`TableInv`), a
registered channel's descriptor is open, and the running callback's channel is
registered and no longer in the event array (`CallbackInv`), so that its
destruction leaves no pointer behind. `MinIsIn`, that a set of numbers has a
least element, comes from the well-foundedness of the naturals.

`BlockingServer_proofs`: `TypeCorrect` and `CutCorrect`
(`OnlyDividedOrLongAreCut`), from `BlockingInv`: once `read()` has returned, a
connection whose client has sent a single piece that one `read()` can take has
nothing unread, and what the client does later keeps it so.

### Only model-checked

The liveness properties (`EveryFunctorRuns`, `QuitStopsLoop`,
`StartLoopTerminates`, `DtorJoinsRunningLoop`, `LifeGoesOn`,
`EveryRequestAnswered`, `SenderIsAnswered`, `WaitingIsAccepted`,
`LeavingFreesFd`, `QueueMoves`): fairness and `ENABLED` are out of the prover's
reach. Every other property of the passing runs is proved.

## 7. Not modelled

* The text of requests and responses, socket set-up, logging; what stage 3 reads
  and writes; `~HttpServer`, because no program of the repository leaves `run()`;
  memory exhaustion; the benchmark script. `EventLoop`'s constructor only prints
  an error when `eventfd()` fails, and registers the descriptor all the same
  (`EventLoop.cpp:7-19`), and `Epoll::addFd` only prints that of `epoll_ctl`: a
  loop without a working eventfd would sleep on pending functors. The model of
  `EventLoop` starts with one that works; a refused registration is modelled for
  connections only. Stage 4 parses its arguments and
  installs a callback. A failing `accept()` of stage 1 is retried at once.
* `EventLoopThreadPool::start` is a sequence of `startLoop` calls made before
  any connection is accepted; each of them is `EventLoopThread`'s.
* Two remarks no property is about. The comment at `HttpRequest.cpp:6` calls
  `kMaxRequestSize` the size of a single request; it bounds what is buffered
  (`RefusedForAReason` is stated accordingly). The fixed response of stages 1 to
  3 announces a length one short of its body.
* Two hazards have no property because they lie outside what the code does:
  SIGPIPE on a connection the client has reset, and `quit()`'s wakeup on a loop
  that its thread has just destroyed. The steps are in the models.
* db-engineering. Most of it is declarations without an implementation. `Page`
  is a buffer with accessors that nothing but their test calls, and `type.cc`
  four switch tables: a model would repeat them and its properties with it.

## 8. Plan

The modules were written from the loop upwards: `TaskQueue` and `EventLoop`, the
thread that owns a loop, the two servers over their common `Reactor`, the data
path, the parser, and the two single-threaded stages; each was checked before it
was proved about. All safety properties are proved. If the code changes, three
places are where the models would follow first:

* a `quit_` that `loop()` does not reset, an erase before `close(fd)` in
  `HttpServer::removeConnection`, or an `onWrite` that remembers what the
  response said: the violated run of section 5 becomes a passing one, and
  with the second `reused` stays empty and the exceptions in `HttpServer`'s
  properties can be dropped;
* implementations of the db-engineering interfaces, the buffer pool and the lock
  manager above all, would be modules of their own;
* request pipelining would make `HttpConnection` and `HttpRequest` one module,
  because the client would then no longer wait for `reset()`.
