# A TLA+ model of mingfwq

mingfwq is a C++ server framework: fibers (user-level coroutines on
`ucontext`), an N-to-M fiber scheduler, an epoll based I/O scheduler with
timers, hooks that turn blocking libc calls into fiber waits, and on top of
them sockets, streams, a TCP server, an HTTP server, an HTTP client with a
connection pool, a serialisation buffer, a configuration store and a logger.
This directory holds the specifications kept beside that code.

## 1. Inventory

| Component | Source (`src/mingfwq/`) | State | Operations | Module |
|---|---|---|---|---|
| Fiber | `fiber.*` | `m_state`, `m_ctx`, `m_cb`, thread-local current fiber | swapIn, swapOut, call, back, reset, YieldToReady, YieldToHold, MainFunc | `Scheduler` |
| Scheduler | `scheduler.*` | `m_fibers`, `m_threads`, `m_activeThreadCount`, `m_idleThreadCount`, `m_stopping`, `m_autoStop`, `m_rootFiber` | start, stop, schedule, run, idle, tickle, stopping | `Scheduler` |
| TimerManager | `timer.*` | `m_timers` ordered by `(m_next, address)`, `m_tickled` | addTimer, addConditionTimer, cancel, refresh, reset, getNextTimer, listExpiredCb | `TimerManager` |
| IOManager | `iomanager.*` | `m_FdContexts`, `m_pendingEventCount`, tickle pipe, epoll set | addEvent, delEvent, cancelEvent, cancelAll, idle, tickle, stopping, contextResize | `IOManager` |
| FdManager | `fd_manager.*` | `m_datas[fd]`: socket?, non-blocking?, timeouts | get, del, FdCtx::init | `FdManager` |
| Hooks | `hook.*` | thread-local enable flag, `timer_info` | sleep family, socket, connect, accept, do_io, close, fcntl, ioctl, setsockopt | `HookIO`, `FdManager` |
| Socket, Stream | `socket.*`, `stream.*`, `socket_stream.*` | `m_sock`, `m_isConnected` | accept, connect, close, send, recv, readFixSize, writeFixSize | `Stream` and its users |
| TcpServer | `tcp_server.*` | `m_socks`, `m_isStop` | bind, start, startAccpet, stop | `TcpServer` |
| HttpServer, session | `http/http_server.*`, `http/http_session.*` | buffer and offset of the session | handleClient, recvRequest, sendResponse | `HttpServer`, `HttpSession` |
| Servlets | `http/servlet.*` | `m_datas`, `m_globs`, `m_default` | add, del, getMatchedServlet | `Servlet` |
| HTTP client, pool | `http/http_connection.*` | `m_conns`, `m_total` | DoGet, DoRequest, doRequest, getConnection, ReleasePtr, recvResponse | `HttpConnection` |
| Parsers | `uri.rl*`, `http/http11_parser.rl*`, `http/httpclient_parser.rl*`, `http/http_parser.*` | machine state, marks, the message under construction | execute, the callbacks, Uri::Create and dump | `Uri`, `UriGrammar`, `Http11Parser`, `HttpClientParser` |
| ByteArray | `bytearray.*` | blocks, `m_position`, `m_size`, `m_capacity`, `m_cur` | read, write, setPosition, addCapacity, codecs, iovec buffers | `ByteArray`, `ByteFile` |
| Config | `config.*` | name -> ConfigVar, listeners | Lookup, setValue, LoadFromYaml, listeners | `Config` |
| Log | `log.*` | loggers, appenders, formatters | log, configuration reload, LogFormatter::init | `Log`, `LogFormatter` |
| Thread and locks, Address, util | `thread.*`, `address.*`, `util.*`, `endian.h`, `macro.h` | - | - | not modelled (section 7) |

How they interact: a worker thread runs `Scheduler::run`, which takes entries
from the shared queue and switches into a fiber; a hooked call arms a timer
and/or an epoll event holding the current fiber and switches out
(`YieldToHold`); `IOManager::idle`, on any worker, collects expired timers and
ready events and puts their fibers back on the queue. `stop()` is answered when
the queue, the active count, the pending events and the timers are all empty.
Servers and clients are ordinary fibers that call the hooked functions through
`Socket` and `SocketStream`, so every read of theirs may wait, time out or
return less than was asked for. The configuration calls the logger back while
other threads log.

### What is hard, and what makes each part correct

| Component | Hard behaviour | Correct when |
|---|---|---|
| Scheduler, Fiber | a fiber is queued, entered, left and queued again by different threads; counters are updated outside the queue's lock; `stop()` waits for all of them | a fiber runs on one thread at most; it is queued, held by a wake-up, on a thread or finished, never lost; the counters are exact; `stop()` returns, with nothing left |
| TimerManager | callers insert, cancel and reset while workers sleep, wake and collect; one flag limits the announcements | a timer is fired or cancelled, not both; no sleep misses a timer |
| IOManager | epoll results are handled after the world has changed; the table of contexts grows | a waiter is held once and scheduled once; count, context and kernel agree; edge triggering loses nothing |
| Hooks, FdManager | a timeout races the event it limits; a retry reuses its state; descriptors are reused | a call with a limit returns, a timeout belongs to its call, no call blocks the thread unasked |
| TcpServer | `stop()` is a task that competes with the accept fibers and with `start()` | accept fibers end, connections are accepted, no socket has two waiters |
| HttpServer, session | requests come in pieces; clients close, reset, are late and do not read | a servlet gets what was sent; sessions end; the process stays up |
| HTTP client | connections are taken, reused and released by many fibers; answers come in pieces, requests go out in pieces | a caller gets the answer to its request; the pool's books are right; requests return |
| ByteArray | positions at block and capacity boundaries | it behaves as a file of bytes; codecs are inverse |
| Config, Log | check, notify and assign in separate critical sections; a reload step by step while others log; appenders that share a file | listeners and loggers have what the variable has |

The same list, by line, is under "hazards" in `PROJECT.json`.

## 2. Plan

Done: all modules of the table above, with their runs; the proofs about
`Scheduler`, `TimerManager`, `IOManager`, `HookIO`, `ByteArray`, `TcpServer` and
`HttpServer` with the request parser, `HttpConnection`, and `Config` and `Log`
with the formatter. `UriParsesBack` and `ResponseMatches` are the only invariants
of a passing run without a theorem; `NoLostFiber` has one without the waits of
`dup`. To do, in this order:

1. These two, along the argument that `ServerProofs` makes for the request parser: the text in pieces, and per piece and byte the
   state of the machine. The machines of `Uri` and `HttpClientParser` have more
   states, and the text of a URI is not fixed by its fields.
2. `OneRunner` and `NoLostFiber` for fibers that wait on a scheduler with one
   runner, where the race of `wait_race` cannot happen.

## 3. The modules and the code

A definition that has an unused twin above it (`SleepUntil` and `SleepMax`) is
one whose plausible bug the twin spells out; replacing one by the other makes
TLC find a violation.

### Scheduler

State: the members of `Scheduler` under their own names, per fiber `m_state`
and `m_cb`, and per runner - a thread inside `Scheduler::run` - a program
counter `pc` and the locals `ft`, `cb_fiber` and whether its idle fiber has
terminated. `timers`, `events` and `m_pendingEventCount` are the wake-ups that
hold a fiber.

A step is what `run()` does between two points where another thread can matter:
the scan of the queue (`Take`, `TakeNothing`), the switch into a fiber
(`SwapInFiber`, `SwapInCb`), the decrement after the switch back
(`SwappedOut`), and the write of the state or the return to the queue
(`HandleFiber`, `HandleCb`). `IdlePending`/`IdleStopping` are the two halves of
`IOManager::stopping`, which are not atomic together. Application code inside a
fiber may schedule, `YieldToReady`, wait (`UserArm` then `YieldToHold`, as the
hooks do), return or throw (`MainFuncEnd`). A sleep's wake-up is a callback
that goes through the queue (`RunWake`); an event's puts the fiber on the queue
directly. `start()` and the steps of `stop()` are actions of the owner.

### TimerManager

State: `m_timers` as a set with `m_next` and `m_ms` per timer, `m_cb` as the
set of timers whose callback is not null, `m_tickled`, the tickle pipe (a byte
in it, and an edge not yet reported), and per worker where it is in
`IOManager::idle`. Addresses are numbers because the comparator uses them to
break ties. The constructor reads the clock before the lock is taken
(`NewTimer`, then `AddTimer`), the announcement comes after the unlock
(`OnTimerInsertedAtFront`), and `listExpiredCb` reads the clock before the lock
too (`WakeTimeout`/`WakeTickle`, then `ListExpiredCb`). `Tickle` is the call
that `schedule()` makes.

### IOManager

State: the size of the context table; per context - a descriptor and the
allocation of it - the registered events and who waits in them;
`m_pendingEventCount`; the kernel's registration, readiness and ready list; per
worker the results of `epoll_wait` it has not handled yet. `AddEvent`,
`AddEventResize` and `AddEventRegister` are the three critical sections of
`addEvent`. `Handle`, `HandleSkip` and `HandleAbort` are the ways the loop in
`idle` treats a result. The kernel (`Ctl`, `Readiness`, `Fail`) is external and
modelled from its edge triggered interface. History: `shrunk`, two racing
resizes made the table smaller, and `overtaken`, an event of a result was ended
between `epoll_wait` and the lock of its context. `cancelEvent` looks the
context up under the table's read lock and then takes the context's lock: one
step here, since a context stays where it is once the table has it.

### FdManager and HookIO

`FdManager` keeps, per descriptor number, the kernel's socket (open, O_NONBLOCK,
what it is ready for, whether the program asked for blocking) and the `FdCtx`
that the hooks stored under that number; nothing but the hooked calls ties the
two together. `m_userNonblock` is the only flag, because `setSysNonblock` and
`getSysNonblock` use it too. `HookIO` extends it with fibers, timers and
events. `BeginIo` ... `Return` are the pieces of `do_io` between its calls:
the system call, the condition timer, `addEvent` (and its failure), the yield,
the wake-up with its cancelled timer, the retry. The timer's callback is two
steps, the lock of the weak `timer_info` (`CallbackBegin`) and the cancellation
(`CallbackCancel`), and with two threads both may come before `addEvent`. A fiber
goes on (`Resume`) only when it is off its thread (`held`): the other order is what
`wait_race` is about. The kernel's SO_RCVTIMEO, which `setsockopt` sets too, has no
effect on the non-blocking sockets of `do_io` and is left out; a descriptor that
blocks its thread is taken to do so for good. Timers and events behave as their own modules show. Reads,
writes and accepts share the actions, as they share `do_io`;
`BeginConnect`, `SysConnect`, `ConnectResult` are `connect_with_timeout`.

### TcpServer, Servlet, HttpSession, HttpServer

`TcpServer` has the listening sockets in the order they are bound, the accept
fibers, one per `start()` and socket, each in its loop, in `accept` or waiting, the
caller's `bind`, `start` and `stop` in any order, and the task of `stop` in its
three steps per socket (`StopCancel`, `StopClose`, `StopDone`). The worker has
`Threads` threads, so that a fiber may run between two steps of the task. A `bind`
in which an address fails drops every socket bound before. History: `early`,
`start` was called before the stop task and the accept fibers had ended, and
`lost`, the fibers whose socket a failed bind has dropped and those that began to
wait between `cancelAll` and `close`. `HttpServer` extends it, `Servlet` and
`HttpSession`: an accepted connection runs `handleClient`, which receives a
request, looks its servlet up (`Dispatch`; the table may change at that
moment), and sends its answer in pieces, as far as the client leaves room for
them. A session's buffer is the text it has read and not
consumed; the parser's machine runs over it, call by call of `execute`, with
its pointers relative to the buffer of that call. The client sends the text of
`HttpRequest::dump` in pieces.

### Uri, UriGrammar, Http11Parser, HttpClientParser

One operator per class of states of the generated machines in the `.rl.cpp`
files, which are what is built (CMake does not run ragel, and the client
parser's `.rl` differs). States that differ only in which letters of a fixed
word have been read are one state with a counter. A machine is a record that is
folded over the characters; the embedded actions are operators of their own
(`OnPath`, `SavePort`, `WriteField`). Quirks of the grammars are translated, not
repaired: `{2}` inside an alternative is a control character to ragel, so most
IPv6 literals are rejected; `"1"-"9"` is a set difference.

### HttpConnection

Callers in `HttpConnectionPool::doRequest` or in `HttpConnection::DoGet` with a
connection of their own, the pool (`conns`, `total`), and per connection what
the peer has sent and not yet been read. A request goes out in `RequestPieces`
pieces; `send` waits while the peer does not read (`link.full`). `ReadHead`,
`ReadChunk`, `ChunkBody`, `ReadRest`, `ReadBody` are the reads of `recvResponse`.
An answer has a length, two chunks, or a chunk greater than the buffer, and the
characters of its body differ. `clean` (nothing of an earlier answer was left) and
`split` (the buffer held only a part of the chunk) are history. The peer is
external; it numbers its answers, so that an answer to another request is
recognised.

### ByteArray, ByteFile

`ByteArray` has the blocks' memory by address, `m_cur` as a block's number or
null, and the members under their names. `write`, `read`, `setPosition`,
`clear` and the two transfers of `SocketStream` are actions; the codecs are
operators on byte sequences (`Encode`, `Takes`, `Decode`). A string is two calls of
`write`, of its length and of its text (`PutBoth`), each of which grows the chain by
the number of blocks that `addCapacity` computes (`Count`); when that is a block too
few the copy runs off the end and the process is gone (`crashed`). `getWriteBuffers`
grows the chain also when the `recvmsg` after it gets nothing. `ByteFile` is the
abstract specification, a sequence of bytes and a position; `IsFile` is its
specification under the mapping that reads the bytes by address.

### Config, Log, LogFormatter

A document is the sequence of its nodes in the order in which `ListAllMember`
visits them, each with its full name, so that the recursion over a tree is the
order of a sequence. `LoadFromYaml` sets the variables it names one by one;
`SetKey`, `CallListener`, `Called`, `WriteValue` are the steps of `setValue`
with the lock changes between them; `calls` is the set of listeners that are
still to be called, of which the one with the smallest key is next. The
listener of `logs` (`LogChanged`) is a sequence of calls on loggers (`ApplyOp`), each of which takes its own lock, so
that a thread that logs can come in between: it makes the event (`LogEvent`), reads
the level again (`CheckLevel`), takes the mutex or goes on to the root
(`LockLogger`), and writes through one appender after the other (`WriteEvent`).
Every file appender has a stream with its own place, buffer and m_lastTime, so two
appenders of one file write over each other; `alone` is history, that an appender
has had its file to itself since it opened it. The line that the listener itself
logs is one of the writers' events.
`LogFormatter::init` is an operator over patterns (`Parse`).

## 4. The runs

| Run | Configuration | Shows |
|---|---|---|
| `pool` | `SchedulerPool` | a thread and the caller, two callbacks, one bound to the thread, yields: types, one runner per fiber, no fiber lost, nothing but entries bound to a thread left after `stop()`, and `stop()` returns unless an entry is bound to a runner that has ended |
| `dup` | `SchedulerDup` | an IOManager on its caller's thread, waits, a fiber scheduled twice: entries that outlive their fiber are dropped with exact counters, no waiting fiber is lost, `stop()` returns |
| `wait_race` | `SchedulerWaitRace` | violated: a waiting fiber is entered by a second thread before the first has left it |
| `timers` | `TimerManagerTwo` | a one-shot and a recurring timer, two workers: fired or cancelled, no sleep misses a timer while all workers sleep |
| `io` | `IOManager` | two workers, two clients, both events of one descriptor, each for one client, and one event of another, errors, cancellation and a growing table: waiters held once, exact count, kernel agrees, every wait served; without an error an abort needs a result that was overtaken |
| `hook` | `HookIO` | two fibers on two threads, two descriptor numbers, all hooked calls, failing `epoll_ctl`: limits end their own call, limited calls return unless the timer's callback came before `addEvent`, nobody blocks the thread unasked |
| `tcp` | `TcpServer` | a worker of two threads, up to two sockets bound in one or more calls of `bind`, one of which may fail, two starts and two stops in any order, a connection: accept fibers end unless lost, no open socket is left to one after the stop tasks, connections are accepted, a second waiter needs an early start |
| `server` | `HttpServer` | a client with two requests in up to three pieces, with closing, reset, lateness and answers it does not read: what a servlet gets is what was sent, bodies are put together right, sessions end, and the exceptions |
| `client` | `HttpConnection` | two callers, three requests, answers by length and in one or two chunks, in pieces, requests in pieces to a peer that may not read, connections closed at any time; and DoGet with 1920 URIs, each of which is dumped and parsed |
| `client_spin` | `HttpConnectionSpin` | violated: a closed connection from the pool makes a request loop for ever |
| `bytes` | `ByteArray` | blocks of 1, 2 and 3 bytes, transfers of up to 3 bytes and pairs of typed values: `m_cur` is right, values are read back up to the first whose reader is another type's, and the array implements `ByteFile` |
| `config` | `Log` | two loaders, four documents, two listeners, a writer, two loggers and the root, two files, one of them shared, two events, two seconds, and all patterns of up to five characters: listeners and loggers have what the variable has, a file holds its last second, a formatter spells its pattern, and the exceptions |

### Bounds

Two runners or workers are enough for every race that was found, all of which
are between a thread that leaves something half done and one that takes it
over. `MaxYields` and `MaxDup` bound how often a fiber yields and is submitted;
one yield already reaches the recycled `cb_fiber`, and two let a fiber bind an
entry to a thread that has ended since it yielded first. The clock runs to `MaxTime`
= 2 with periods 1 and 3 and sleeps of at most 2, so that a timer can be before,
at and beyond the end of a sleep. Descriptors 2 and 3 with a table of 2 are the
smallest for which `fd * 1.5` of the one is not enough for the other. `MaxGen`
bounds how often a context is reallocated or a number reopened; a second time is
what stale state needs. Two calls per fiber (`MaxCalls`) let a late callback of
the first meet the second; the calls a fiber may make (`EveryOp`) put those that
wait against those that change a descriptor or cancel. Two sockets, starts and
stops and one failing bind are what it takes for a fiber of an earlier start to
meet a socket of a later bind. An answer of the server has two pieces and the
kernel holds two (`AnswerPieces`, `SendRoom`), so that a second answer may have to
wait for the client to read the first; the client's requests have two
(`RequestPieces`), which only the callers in `Slow` send one by one: the other
caller is there to meet them at the pool. Pieces of a message end before or after the
characters in `CutChars`, the only places that differ for the parsers: inside
and at the end of a word. A buffer of 24 or 40 characters is filled by the
longer messages and not by the shorter ones. Words of the protocol (header
names, methods) are shortened where a parser tells them apart by comparison
only. `ByteBits` = 3 makes 1, 2 and 3 byte varints out of small numbers; types
keep their number of bytes. `MaxLate` = 1 is one failed read in a body; after it
the remaining length is wrong for good.

Deadlock is checked in `pool`, `dup`, `wait_race` and `timers`. The other
systems may stop: the process aborts, or clients have done what they were to do.

### Fairness

`StopTerminates` assumes that the operating system runs every thread (weak
fairness of each runner), that application code reaches its next call or its
end, and that a timer or event which holds a fiber is reported to some idle
worker in the end (strong fairness, because a worker is not always in
`epoll_wait`): `IOManager::idle` sleeps `MAX_TIMEOUT` at most. `WaitServed`
assumes weak fairness of the workers' loops and of calls of `addEvent` once
begun; nothing of the kernel or of who cancels. `LimitedReturns`, `Returns`,
`SessionEnds`, `AcceptsAll` and `StopEndsAccept` assume that fibers that can go
on do, and that timers fire, which is what the scheduler's and the timers' own
runs show; nothing is assumed of the peer: it need not send, read or close, and a
`send` without room waits as long as it likes. `LimitedReturns` is stated for
behaviours in which no thread is blocked in the kernel for ever, which
`BlocksOnlyIf` says when to expect, and but for the call whose timer's callback
came before its `addEvent` (`Missed`).

## 5. The proofs

Eight modules of theorems. Each rests on the named `ASSUME`s of the modules it
is about, which type the constants, name the finite and the non-empty sets and
keep special values apart; TLC evaluates them in every run. `Runners # {}` of
`Scheduler` is the assertion of its constructor (scheduler.cpp:14). Every
invariant was checked in a run before it was proved.

`SchedulerProofs` (any finite set of threads, any fibers and callbacks):

- `TypeCorrect`: every variable keeps its type, and a runner that uses `ft`,
  `cb_fiber` or a fired wake-up has one. `TypeInv` is inductive.
- `CountsCorrect`: `m_activeThreadCount` and `m_idleThreadCount` are the numbers
  of runners at the corresponding points. The argument counts: a step moves one
  runner into or out of the set whose cardinality the counter is (`CountStep`,
  `GotoCounts`), and every action does so together with its increment or
  decrement (`CountsStep`). The run `dup` checks it where an entry is dropped.
- `PoolOneRunner`, `PoolExecWhileRunning`, `PoolNoLostFiber` and `PoolAllDone`
  are about schedulers whose fibers only yield and are submitted at most once
  (`ReadyOnce`). With waits `ExecWhileRunning` is false, which `wait_race`
  shows, and with a fiber submitted twice so is `OneRunner`; the hypothesis is
  what the code needs, not what the proof needs. The inductive invariant
  (`PoolInv`) says that what is queued, held by runners and recycled as
  `cb_fiber` are different fibers (`Distinct`, `Unbound`, `Apart`, `Fresh`), that
  a fiber's state fits where it is (`StateOK`), that one alive is somewhere
  (`Live`), and that a callback has one body (`Bodies`). `AllDone` also needs
  what `stopping()` saw: while an entry for any thread is left, a runner works
  or has not seen `stopping()` (`WorkSeen`, `Phases`).
- `SoloNoWaitLeft`: with one runner `stop()` leaves no timer and no event
  (`EventsCounted`, `SoloOK`). With two it may; see section 6.

`TimerManagerProofs` (any timers, periods and non-empty set of workers):

- `TimerTypeCorrect`, `CbInSetCorrect`, `CancelExcludesFiringCorrect`,
  `OnTimeCorrect`, all from one inductive invariant
  `IInv`. It adds to the properties that a timer's times stay within one period
  of the clock (`Clock`; without it `refresh` could move a timer to an earlier
  time unannounced and `reset` could wrap around), that timers in the set,
  fired or cancelled exist (`Life`), and that a set `m_tickled` while all
  workers sleep means a tickle is under way (`TickleUnderWay`; it says why the
  flag may suppress an announcement: clearing it is the last thing a worker
  does before it sleeps).

`IOManagerProofs` (any clients, workers, descriptors and table sizes):
`IOTypeOK`, `IOWaiterHeldOnce`, `IOPendingExact`, `IOKernelAgrees`,
`IOAbortNeedsRace`, `IOCancelFinds`. "This event is registered" is kept three
times: by the client that waits, by the `EventContext` and by epoll. `IInv` ties
the copies together (`ClientOK`, `OneRequest`, `HeldIsWaiting`,
`EventHasWaiter`, `KernelAgrees`). `PendingExact` is then a count over the pairs
of a context and an event, and that the count is never decremented below zero
follows from it, which is why `TypeOK` is a theorem of its own and not part of
the induction.

`HookIOProofs` (any fibers, descriptors, threads and programs of calls):
`HookTypeOK`, `HookOneWakeup`, `HookOwnTimeout`, `HookBlocksOnlyIf`. The heart
is `OneWakeup`: a fiber that is switched out has exactly one of an entry in the
queue, an `EventContext`, or the timer of its sleep. It needs to know which timers
can be left over from a call that has returned (`TimerOK`, `FiringOK`), which
call a fiber is in (`CallOK`), and that a descriptor in use is open and has one
user in each direction (`FdOK`, `UseOK`, which is what the programs do).
`HookBlocksOnlyIf` is an action property.

`ByteArrayProofs` (any block size, any bounds): `BytesShape`,
`BytesCurAtPosition`, and `BytesIsFile`, the refinement `Spec => IsFile`. `m_cur`
is the block of the position (`CurAtPosition`) is inductive together with the
arithmetic of the chain; each operation then is one step of `ByteFile` or
changes neither its bytes nor its position. Of a codec these three use only the
length of what it writes. The others are about what it writes:

- `BytesCodecsInverse`: a value of every type is decoded from its bytes, in either
  byte order, with any bytes behind it. A fixed-size integer is its digits to the
  base 2^ByteBits (lemmas on `Pow2`, and that a number below 2^(a+b) is its last a
  bits and the rest); a varint is the same with groups of one bit less and a flag
  on all but the last; zigzag and the two's complement are their own inverses.
- `BytesItemsReadBack`: the values written since the last clear lie one behind the
  other (`Placed`, with the positions as witnesses), and the reader is at the end
  of the ones it has taken and has got them right (`ReadSoFar`); `ItemsLaid` says
  both. Sequences with an int64 or a double, whose readers are others' readers, are
  the exception (`OwnReaders`). A string is placed as its length and its text, which
  two writes with a growth of the chain of their own put there.
- `BytesTypeOK`: in particular what a codec writes are bytes.

`ServerProofs` (any sockets, connections, number of starts, scripts of requests,
cuts of their text and size of the buffer):

- `TcpNoSecondWaiter`, for any number of threads and any order of binds, starts and
  stops. `TcpInv` orders the queue: between the fibers of two starts there is the
  stop task of the first (`LaterOK`), and when it has run its sockets are closed
  (`OpenOK`), so that with one thread a fiber of a later start finds none of them
  open (`LaterRuns`).
- `TcpStoppedIsClosed`, the safety half of `StopEndsAccept`, likewise; the fibers that
  a failed bind or the window of the stop task loses are its exception.
- `TcpNoWaiterLeft`, for a worker of one thread: between `cancelAll` and `close` no
  fiber can register (`WaitsOnOpen`); with two it can, see section 6.
- `ExecuteInBuffer`: whatever the parser has read before, `execute` takes no more
  bytes than there are, and the pointers it leaves and the tokens it hands to the
  callbacks lie in the buffer. Every state of the machine is treated
  (`ParserShape`, `ParserOK`, `CallbacksOK`), those that no client of the run
  reaches too.
- `ServerBodyAsSent`: a body has the length that the header says, and its bytes are
  those of the client's text right before the next one to be read. From the invariant `Sessions`: what a session has read, keeps
  in its buffer and has handed on is a stretch of what the client sent, in order
  and without gaps (`SessionOK`).
- `ServerHandledIsSent` and `ServerErrorNeedsCause`. The head of a request is cut
  into eleven pieces, each a word with the character behind it (`Piece`). `Follow`
  says where the machine is after each byte of each piece and what it has of the
  request; within one call of `execute` the machine follows the head, has finished
  it, or has refused a character of more_delims (`InRun`). Between calls the
  session is at the start of a piece (`InHead`): a read that ends inside one is
  what `torn` records (`WithinPiece`). `Tracks` carries this through the steps of
  the session, and on to the body, whose length is the header's (`LengthSent`).

The last two are about scripts that are `PlainScript`, which `MCHttpServer` assumes
of its own, so that TLC evaluates it. A method is a known name, of capital letters
and digits, at most the 20 the grammar allows, and no other known name begins it,
because `on_request_method` takes the first that fits; a path begins with one slash
(two make an authority); a query has no question mark, which `torn` would take for
the end of a word; header names and values are words, and the two names differ.
Escapes are left out of paths and queries to spare the proof three states, and a
request of the model has no fragment. Characters of more_delims are allowed in
paths: they are the exception in `ErrorNeedsCause`.

`HttpConnectionProofs` (any callers, connections, requests and answers):
`ClientPoolExact`. A new connection must be one that nobody has, so the
invariant says that a connection with an owner is alive (`LiveOK`) and where a
caller has none (`CallShape`). Nothing of the parsers is used except that
`recvResponse` leaves the caller its connection.

`LogProofs` (any loaders, documents, listeners, writers and files):

- `ConfigListenersAgree`: between the calls and the write every listener has
  been told the new value or is still to be called (`ToldNew`); one setter at a
  time (`OneSetter`) or the variable is `raced`; and nobody adds or deletes a
  listener under the read lock.
- `LogFileHoldsSecond`: an appender's `m_lastTime` is the second of the last event it
  wrote (`StreamOK`); if it has its file to itself, its stream is at the file's end,
  and file and buffer are the events from the first of that second on (`FileOK`); no
  other stream has that file. Opening, closing and flushing of any other stream leave
  such a file alone.
- `LogLoggersAsConfigured`: the listener's calls are one flattened list in which the
  calls on one logger lie together and in order. For each logger and each number of
  calls made, `Reached` and `Done` say what it has by then; before its first call it
  is as the old value says, after its last as the new one does. `LogsAssumption`
  says that a value has one definition per logger and that names are not repeated.
- `LogPatternSpelled`: the loop of `init` keeps that the items made so far and the
  text under construction spell what has been read (`Spelled`), whatever the
  pattern. `LettersAssumption` keeps the format letters apart from the characters
  with a meaning.

Where a proof is about a loop or a recursive function, it is an induction over
numbers with the claim as a set (`Induct`: a set that has 0, and with every number
the next, has them all); that a recursive function has the values its definition
gives is the lemma `Recursion`, for a step given as a function.

Only model-checked:

- liveness: `StopTerminates`, `WaitServed`, `LimitedReturns`, `AcceptsAll`,
  `StopEndsAccept`, `SessionEnds`, `Returns`; the proof system has no rules for
  the fairness they need;
- `UriParsesBack` and `ResponseMatches`: what the machines of `Uri` and
  `HttpClientParser` make of a text. They need the argument of
  `ServerHandledIsSent` for machines of more states (section 2);
- `OneRunner`, `NoLostFiber` and `AllDone` outside `ReadyOnce`, and `NoWaitLeft`
  with several runners.

## 6. What the models found

Two disagreements are runs of their own (`wait_race`, `client_spin`; quoted
under "findings"). The properties of the other runs name the following as
exceptions, each of which TLC reaches when the exception is taken out, or were
met by variations of a run's constants:

- `run()` queues a fiber that yielded without its thread (scheduler.cpp:207,
  226), so a callback bound to a thread may continue on another.
- m_activeThreadCount is zero for a moment before a READY fiber is queued again
  (scheduler.cpp:202). Another runner's `stopping()` may see it and end; an
  entry bound to that runner then keeps `stop()` from returning (`Orphaned`),
  and with two runners of an IOManager `stop()` may return with a wait left. If
  all runners see it in turn, a fiber that is in flight can bind an entry to a
  thread that has left `run()`, and `stop()` returns with that entry in the
  queue (`AllDone` allows such entries, and only them).
- A byte for a new first timer may be taken by a worker that knows the timer
  and becomes busy, while another sleeps past it (`OnTime` holds while all
  workers sleep).
- `idle` turns an error report into both events, and does not cut a result down
  to what is still registered (iomanager.cpp:366-404): with one event left the
  assertion of `triggerEvent` aborts. No error is needed: a result with both
  events, one of which is cancelled before it is handled, is enough.
- Two racing `addEvent`s may shrink the table (iomanager.cpp:98).
- With two threads, the timer of `do_io` may fire before `addEvent`
  (hook.cpp:128-147), and the call then has no limit (`Missed`).
- `close` with hooks enabled leaves the `FdCtx` and the registered events
  (hook.cpp:374); the number's next socket stays blocking.
- With two threads an accept fiber may register between `cancelAll` and
  `close` of the stop task (tcp_server.cpp:100) and wait for ever (`lost`).
- A second `start` before the stop task and the accept fibers have ended lets two
  fibers wait on one socket, and addEvent's assertion ends the process.
- A `bind` in which an address fails clears m_socks (tcp_server.cpp:57): sockets
  bound before stay open with the fibers that hold them, and no `stop` reaches them.
- `bind` never clears the caller's `fails`, so a retry with the same vector
  cannot succeed.
- A client that does not read its answers keeps its session, and a peer that does not
  read its request keeps a caller: only the receiving side has a limit
  (tcp_server.cpp:71, http_connection.cpp:126, 463).
- `readFixSize` and `writeFixSize` keep -1 in a `size_t` (stream.cpp:10, 35): a
  failed read goes on with a larger remaining length and an earlier address; a
  failed write loops.
- A body that arrives completely with its head is dropped, by the server
  (http_session.cpp:65-71) and the client (http_connection.cpp).
- The client's parser starts again with every piece of a head; its loop over
  chunks ends after the first (http_connection.cpp:236); two bytes are lost of a
  chunk that does not fit what was read (`split`). What is left of an answer on a
  connection is read as the beginning of the next (`clean`).
- `uri_relaxed` is never initialised. "http://h:/p" makes `Uri::Create` throw,
  and "user:12@h" loses the user's name.
- `addCapacity` may make a block too few, so that a later write runs off the
  chain (`crashed` in `ByteArray`); `readInt64` and `readBouble` use the readers of
  the types of half their size (`ReadAs`), although tests/test_bytearray.cpp:39 takes
  `readInt64` for the inverse of `writeInt64`.
- Two threads that set one variable leave listeners with a value other than
  `m_val`; a listener added between the calls and the write misses the change.
- A reload of `logs` with an unchanged entry dereferences a null logger
  (log.cpp:785), and every reload and every new second empties the log file. Two
  appenders of one file empty it and write over each other, and so does, for a
  moment, an appender that a reload moves from one logger to another: the new one
  opens the file before the old one flushes its buffer into it.
- `%%` is mishandled by `LogFormatter::init` (log.cpp:490).
- `getMatchedServlet` compares glob patterns for equality; `addGlobServlet`
  erases the first pattern that matches the new one.

## 7. Not modelled

- Memory: stacks, reference counts and the contents of contexts. A fiber that is
  entered twice is reported as such, not followed further.
- `detectClockRollover`, a clock that is set back, and the conversion of a
  timeout to `int`; interrupted `epoll_wait` calls, which restart the full
  timeout; more than 64 results per call.
- `FdManager::get` by two threads at once: it tests under the read lock and
  creates under the write lock, as `addEvent` does, whose race is modelled.
- Thread and locks: wrappers of pthread primitives, which the steps of all
  modules rely on to be atomic.
- Address: sequential arithmetic and resolver calls, without state. Reading it
  showed `operator==` with an inverted `memcmp` (address.cpp:245), an index
  beyond an IPv6 address in `GetInterfaceAddresses` (150), and a comma for an
  `||` (175).
- util, macros, singleton, the texts of log items, `toString` and `dump` where
  nothing parses them, YAML conversion of container types, files read and
  written by `ByteArray`: formatting and I/O without state of their own.
- In `TcpServer`: the vector of sockets that `bind` reallocates while the stop task
  iterates over it, two stop tasks at once on different threads, and a descriptor
  number that is reused while an accept fiber still holds it.
- Log events have one length and no text, so overlapping writes replace whole
  events; `toYamlString`, and the reading of a document's text: a node stands for
  the value that `FromStr` gives for it, a map's too.
- The parts of generated machines that no message of this program reaches (the
  request parser's XML and JSON framing is modelled but not exercised).
