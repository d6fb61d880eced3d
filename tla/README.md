# A TLA+ model of chhttp

chhttp is a C++20 HTTP/1.1 library: an asynchronous client and server built on
coroutines (`Task<T>`) that run on libuv loop threads, with streaming bodies,
server-sent events and WebSockets. This directory models the parts of it whose
correctness depends on order: who runs on which thread, what is read before a
lock is dropped and used after it, which of several parties lets go last, and
how input cut at arbitrary places is put together again.

Line numbers refer to `src/src/*.cpp`, `src/src/detail.hpp` and
`src/include/chhttp/chhttp.hpp`. `PROJECT.json` maps every definition that
models code to its lines, and lists the runs, the mutants, the hazards and the
theorems.

## The system

| Component | State it keeps | Operations | What makes it correct |
|---|---|---|---|
| `Task<T>`, `TaskState` (chhttp.hpp 60-400) | the handoff word, a count of two references, the result, a lazily allocated block to sleep on; all inside the coroutine frame | call, `co_await`, `get`, drop, detach, `resume_on` | the frame is destroyed once, after the last access; each suspended consumer is resumed once |
| `Runtime` (runtime.cpp 20-130) | the libuv loop and its thread, queue of posted callbacks, stopping | `post`, `drain`, `stop` | a callback runs once on the loop, or is dropped only after stop |
| `Connection`, `Listener` (runtime.cpp 130-1070) | libuv handle, pending read, writes, timers, TLS session, open/closing | connect, handshake, read, write, close, accept | every operation completes once, also when its timer and its event coincide or another thread closes |
| Client pool and requests (client.cpp 220-1040) | per origin: idle connections, count of slots, queue of waiters; the active connections; per request a `RequestControl` | request, acquire, release, discard, redirect, retry, cancel one, cancel all | slots neither leaked nor exceeded, leases exclusive, wakeups not lost, cancellation reaches its request and no other |
| HTTP message reading (protocol.cpp 39-777) | bytes read ahead, bytes left of a chunk, received and trailer counts | read head, line, body; deliver | the body delivered is the one sent, however it is cut; limits hold |
| HTTP message writing (protocol.cpp) | declared length, chunk framing | write head, body stream, chunk, terminator | what is sent is what was declared |
| SSE parser and client (sse.cpp) | partial line and event, last id, retry delay, failure; running, the active stop source | feed, finish, connect, stop | events are those of the stream; resume after the last one seen; stop ends connect |
| WebSocket channel (protocol.cpp 928-1215) | fragments of a message, close sent and received | read, send, ping, close | one close frame, reassembly, limits |
| Server (server.cpp 490-860) | started, stopping, port, list and number of sessions, each session's `in_request` | start, listen, wait, stop, accept, serve | stop drains requests, closes idle connections, returns, and leaves nobody on a destroyed object |
| Worker pool (server.cpp 240-350) | job queue, number of sleeping workers, stopping | execute, worker, destructor | every job runs before the pool is gone, none waits beside a sleeping worker |
| Routing, static files (server.cpp) | immutable tables after start | match, serve a file | the index finds what a scan would find |
| Streaming bodies (streaming_body.cpp) | file sink with a serial queue on a file pool; multipart and Base64 remainders | submit, run, complete; feed, finish | actions in order, each completed on its loop; boundaries found across fragments |
| Utilities (common.cpp) | none | URL, header, range, digest, cookie, encodings | pure functions |

The parts meet in a few places. A request coroutine runs on the client's loop
and suspends in a queue of the pool or in the transport; other threads reach it
only through `RequestControl::cancel`, `AsyncClient::cancel`, a stop token, a
shared flag or a deadline. A session coroutine runs on the server's loop and
suspends in the transport, on the worker pool (which posts its continuation
back to the loop) or in a coroutine of the user; `stop()` reaches it from other
threads through `in_request`, `stopping` and `Connection::close`, which only
posts. `Task` carries all of these across threads. On a response, the body
reader calls the consumer (`on_data`), which for server-sent events is the
parser, and the parser's errors and `stop()` travel back as its refusal.

What is hard to test in this: a cancellation between two statements of another
thread; a wakeup given to somebody who leaves; the last of two references
dropped inside a resume; `notify` between a check and a sleep; `stop()` against
a session that is listed but not yet counted; a timer and the event it guards in
one turn of the loop; a coroutine that starts its next operation inside the
callback that ended the last; a connection reused by one side while the other
is about to close it; a fragment that ends between CR and LF. The hazards are
listed one by one, at their lines, in `PROJECT.json`.

## Modules

| Module | Models | State and actions |
|---|---|---|
| `ConnectionPool` | client.cpp 220-1040 | One action per stretch of a request's coroutine between two suspensions, or between two places where another thread can interfere (`Start` ... `Leave`); `loop` is the request running on the loop thread. `StopMark`, `StopSnapshot`, `StopClose`, `StopWake` are the steps of `RequestControl::cancel` on its own thread, `CancelAll`, `CloseActive`, `AllMark` those of `AsyncClient::cancel`. |
| `SlotAllocator` | (abstract) | What the pool promises of slots: a count of the used ones that follows who takes one, gives it back or answers, a limit on it, one answer each. |
| `ConnectionPoolProofs`, `ConnectionUseProofs` | | Theorems about `ConnectionPool`: slots; leases, cancellation, the refinement of `SlotAllocator`, wakeups. |
| `ExecutorProofs` | | Theorems about `TaskChain` and `WorkerPool`. |
| `HttpExchangeProofs`, `TransportProofs`, `ServerLifecycleProofs`, `FileSinkProofs`, `WebSocketChannelProofs` | | Theorems about the module each is named after. |
| `TaskChain` | chhttp.hpp 60-390, `ResumeOnAwaiter`, `detach_task`, `Runtime::drain` | A chain of coroutines; call stacks of two threads decide who can run. Each atomic access of the handoff word and the reference count is a step; so are lock, check and sleep of `wait()`. |
| `ServerLifecycle` | server.cpp 490-860, 264-309, 1039-1075, 1393-1401, `Connection::close` | Sessions on the loop thread, `stop()`, `start()`, `wait()` on user threads, a step for every atomic, lock and wait. Transport operations and handlers are outcomes. |
| `WorkerPool` | server.cpp 240-350 | enqueue and its late signal, the worker loop with a condition variable that may wake spuriously, the destructor. |
| `BodyReader` | `read_line`, `read_body`, `timed_read` | Bytes are tokens. `Read(n)` is any fragment; `ChunkSize`, `Trailer`, `ChunkEnd`, `LengthEnd` are the framing; `Deliver`, `Accepted`, `Refused` the consumer. |
| `SseParser` | `SseParser::Impl` | `Feed` and `FeedStep` (one turn of the loop), `ProcessLine`, `Field`, `Dispatch`, `Finish`. |
| `EventStream` | `SseClient::Impl::connect`, one response | Composes the two above; also holds the reference definitions `Decode`, `EventsOf`, `FailsOn` of what a whole wire and a whole stream mean. |
| `Transport` | `Connection` (runtime.cpp 130-1070): connect, accept, read, write, timers, close, TLS | `stack` is the call stack of the loop thread: `FinishRead`, `FinishWrite`, `FinishConnect`, `CloseOnLoop` and `CloseHandles` are calls on it, and each may push a resumed coroutine above its caller. libuv calls back (`ReadCallback`, `WriteCallback`, `TcpConnected`, `Resolved`, `ReadTimeout`, `WriteTimeout`, `CloseCallback`, `Drain`) when it is empty. `CloseFromThread` is `close()` elsewhere. `TlsBegin` ... `Fed` are the handshake, read and write loops over the memory BIOs. One `Connection` object per resolved address. |
| `HttpExchange` | `write_request`, `RequestBodySink`, `read_response`, `exchange` on the client; `read_request_head`, `read_request_body`, `serve`, `send_response`, `send_file`, `ChunkSink` on the server | A wire per direction and connection, of heads, units of body, chunks and last chunks. `Begin` ... `ReadEnds` are the client's steps, `ReadRequestHead` ... `NextRequest` those of a session; `Cut`, `Reset`, `Stop`, the timeouts and the failures of producers and handlers are the faults. |
| `WebSocketChannel` | protocol.cpp 928-1215 and 1990-2105, the WebSocket route of `serve` | Frames in two pieces, so that a read may end inside one. `Connect`, `ServerUpgrade`, `ClientUpgraded`; `Fill`, `Eof`, `ReadError`, `BadFrame`, `ReadClose`, `ReadControl`, `ReadData` are `read()` taken apart at its suspensions; `Send`, `Ping`, `Close`; `ServerLeaves`, `ClientLeaves` the ends of handler and client. The client may instead be another implementation (`Foreign`). |
| `FileSink` | `FileIoPool`, `run_file_io`, `AsyncFileSink` (streaming_body.cpp) | `Submit`, `TakeJob`, `TakeAction`, `Act`, the completion through `uv_async_t` and its close callback (`AsyncCallback`, `AsyncClosed`), or on the pool thread; `StopLoop` and `StopPool` end the runtime and the process. |
| `MC*` | | Constants, symmetry and inputs for TLC. `MCExecutors` puts `TaskChain`, `WorkerPool` and `FileSink`, which share no state, into one run: in each behaviour one of them works. |

Definitions commented "Mutant" are plausible mistakes in one mapped definition.
Each property of a passing run has one that breaks it; no run uses them.

## Runs

**`pool_slots`** (3 requests, 1 origin, 1 slot, 2 connections, 1 redirect; a stop
token on one request, a deadline on another, retry and the legacy flag on the
third; every request may be challenged and redirected). Three requests are what
it takes for a woken waiter to leave while another one sleeps behind it.
`NoLostWakeup`: while a queued request has not been woken, every slot is held or
announced to somebody who has not used it yet. `SlotAccounting`, `ExclusiveLease`,
`WithinLimits`: counts equal idle connections and holders; no connection is
leased twice; limits hold. `TypeOK` includes that the counts, a `size_t` each, do
not wrap and that no request is redirected more often than the limit allows.
`ImplementsAllocator`: the pool implements `SlotAllocator` when a request is taken
to hold the slot of its origin while at a holding position, and the used slots of
an origin to be what `connection_counts` has beyond the idle connections. The two
are independent in the code, so a path that forgets `release_slot`, or calls it
twice, is a step the allocator does not have. Connections are interchangeable,
hence the symmetry. Deadlock is not checked here, where only safety is asked;
`pool_cancel` checks it.

**`pool_cancel`** (2 requests, one slot, secure origin, 2 connections, one
`AsyncClient::cancel`, a stop token on one request, a deadline on the other).
`CancelReachesConnection`: once `RequestControl::cancel` has returned, the
connection of its request is closed, also when it was bound in between.
`ExactCancellation`: nobody loses a connection to the stop of another request
(a request that is alive while `AsyncClient::cancel` runs may).
`CancelledEnds`: a cancelled request ends wherever it is, and a queued one whose
deadline has passed too, even if no peer ever answers and the slot never comes
free. `EveryRequestEnds`: when the operations of the transport end, so does every
request that starts, also one woken before its deadline that finds no slot and
queues again.

**`executors`**. *Tasks* (3 tasks, 2 threads; any coroutine may hop to the loop):
`FrameLifetime`: a frame is destroyed once, and nobody touches it afterwards;
`ResumedOnce`; `ChainEnds`. Depth 3 has a task that is both consumer and producer
while its own consumer is one. *Worker pool* (3 workers, 3 jobs): `NoIdleWorker`,
`EveryJobRuns`. Three of each let a wasted signal, a sleeping worker and a queued
job coexist. *File sink* (2 pool threads, a coroutine on a loop, one without, 2
actions each, 1 fault): `FileInOrder`: one thread is in `process()` at a time, and
the file holds the first of the queued writes in their order; `ActionsEnd`: who
waits for the disk is resumed, though `process()` gives up on an empty queue, the
runtime stops or the process ends.

**`server_stop`** (2 sessions, one listening thread, two stopping ones, one
request each). `GracefulDrain`: a request in flight when stop() begins keeps
its connection until shutdown_timeout runs out. `DrainWakesStop`: the last
session cannot leave between the check of stop() and its sleep. `NotStranded`:
no session is left on a pool or runtime that is gone unless a wait ran out.
`DrainedAtEnd`: then none is left at all when stop() is over. Sessions are
symmetric.

**`server_restart`** (1 session, TLS, 2 requests, each thread calls twice).
`IdleSwept`: after the first pass nobody waits for a next request on an open
connection. `StopEnds`: stop() returns even when a user's coroutine hangs.

**`event_stream`**. All event streams of up to 5 tokens over two alphabets, all
triples of 13 kinds of lines, an event in every division into chunks, two
chunks that meet and exceed the limit, two messages with an extension, trailers
and a following message in every variant that differs in one token, lengths
from 0 to beyond the end; each cut in every way. `BodyExact`: an accepted body
is what the wire encodes and what follows the message is still unread.
`NoFalseReject`: a well-formed message within the limits is never refused.
`EventsMatch`, `FailsExactly`: the events and the failures are those of the whole
stream read at once; the id a reconnect sends is the question of `sse_resume_id`. Limits are a few tokens so
that streams reach, meet and exceed each of them.

**`transport`** (2 addresses, 2 coroutines, 2 operations each, plain or TLS, 1
write in a row without a turn of the loop, 2 pieces of ciphertext).
`OperationResumedOnce`: whichever of completion, timer and close reaches an
operation, and however their calls nest, its coroutine is resumed once.
`TimerPerOperation`: between callbacks a timer is armed just when an operation
waits for it, so that none is left to close a pooled connection. `KeptWhileInUse`:
the object outlives every callback libuv still owes. `OperationEnds`: every
operation ends though the peer never answers. Two coroutines allow a read and a
write at once on a plain connection; a TLS connection is used by one. Two
addresses allow an attempt that fails before the next one is tried.

**`http_exchange`** (2 requests of 8 kinds, 6 kinds of answers, 2 connections, 1
fault; the body limit is one unit, a session serves 2 requests).
`AnswersItsRequest`: a response belongs to its request and its body is whole,
unless the end of the connection delimits it and something went wrong.
`HandledOnce`: handlers run once for requests that must not be repeated.
`BoundariesAgree`: both sides agree where a message ends. `FailureHasCause`: no
request fails on a connection on which nothing went wrong, in particular because
the server closed what the client was told it may reuse. `RequestEnds`. Two
requests are what it takes for the bytes of one to reach the other, and two
connections for a retry.

**`websocket`** (2 operations of each application, 3 frames of a foreign client, 1
fault). `DeliveredInOrder`: messages, pings, pongs and close codes are those the
peer sent, whole and in order, also those that arrived together with the upgrade.
`CloseFrameLast`: one close frame, nothing after it. `SessionReleases`: the
close handshake, errors, timeouts, bad frames, a handler that returns or throws all
leave no connection behind; the end of file, where `need()` lowers `open_` and
`serve()` takes the socket for closed, is the one exception it grants, which it
therefore cannot catch (see Findings). `ReaderReleased`: who
reads is released once the other side is done. Three frames are a message of two
fragments with a control frame between them.

**`server_listen`, `http10_stream`, `sse_resume_id`** show violations, see Findings.
The last has the bounds of `event_stream`.

Bounds: `MaxCancelAll`, `MaxCalls` bound calls of the user; `MaxRedirects`,
`MaxRequests`, `MaxConnections`, `PoolSize` and the reader's and parser's limits
are options of the program with small values. `Conns` are recycled, so their
number does not bound the number of connections over time. `NumRequests`,
`MaxConns`, `MaxOps`, `MaxFrames`, `MaxActions`, `MaxPieces` bound what users and
peers do, `MaxFaults` and `MaxIoFaults` what goes wrong; one fault at any place
is enough for the properties to be wrong, as their mutants show. `MaxServed`,
`MaxBody`, `MaxImmediate` are options or constants of the program with small
values. Deadlock is not checked in `http_exchange` and `websocket`, where client and
server may both be through; their liveness properties exclude that somebody is
stuck.

The type invariants of the modules other than `ConnectionPool` (`TypeOK`,
`ChainTypeOK`, `PoolTypeOK`) hold in these runs as well; they are kept for the
proofs and are not in the configurations.

### Fairness

*ConnectionPool.* `LoopSpec`: the loop serves posted callbacks, due timers and
handles that were closed, and the operating system runs the threads that
cancel. Nothing is assumed of peers. `EveryRequestEnds` alone asks more, as its
premise: `TransportEnds`, that every transport operation ends, which connect, read
and write timeouts ensure.

*TaskChain.* Both threads are scheduled; spurious wakeups are allowed and not
relied on.

*ServerLifecycle.* Threads and workers are scheduled; transport operations end
by their timeouts; a closed listener and a posted close are served; `wait_for`
has an absolute deadline and so runs out in spite of spurious wakeups, which is
why its clock is strongly fair; taking a mutex is strongly fair because others
may take it again and again but not for ever hold it. Jobs on workers return,
since `~WorkerPool` joins them and the code offers nothing else; handlers that
are coroutines of the user may never return.

*WorkerPool.* Handlers return and threads are scheduled, strongly fair for the
same reason.

*FileSink.* The threads of the pool are scheduled, the loop turns, and a coroutine
that runs on either does not keep it for ever.

*Transport.* The loop runs what it was given, drains what was posted, and timers
that stay armed fire. Nothing is asked of peers.

*HttpExchange.* Handlers and producers come to an end; the loops of both sides
serve what arrives and the timer of a session that waits for a head. Nothing is
asked of the client's timeouts.

*WebSocketChannel.* What has arrived is read, a handshake goes on, and an
application leaves in the end. Nothing is asked of timers or of a foreign client.

## Proofs

The theorems hold for every value of the constants that the assumptions allow.
Each proof has the same shape: an inductive invariant, checked by TLC before it
was proved; a lemma that it holds initially; one step per action, built on
lemmas that say what the helpers of the action do; and the property as a
consequence.

| Theorem | Statement | For every number of |
|---|---|---|
| `TypeCorrect`, `SlotsAccounted`, `LimitsKept` | `Spec => []TypeOK`, `[]SlotAccounting`, `[]WithinLimits` | requests, origins, connections, limits |
| `LeasesExclusive`, `CancelReaches`, `CancellationExact` | `[]ExclusiveLease`, `[]CancelReachesConnection`, `[]ExactCancellation` | the same |
| `PoolImplementsAllocator` | `Spec => ImplementsAllocator`, the refinement | the same |
| `WakeupsKept` | `[]NoLostWakeup` | the same |
| `FramesOutliveUse`, `NeverResumedTwice`, `ChainTypeCorrect` | `ChainSpec => []FrameLifetime`, `[]ResumedOnce`, `[]ChainTypeOK` | tasks in the chain |
| `GracefulShutdown`, `IdleSessionsSwept`, `DrainWakeup`, `NobodyStranded`, `StopDrains`, `ServerTypeCorrect` | `Spec => []GracefulDrain`, `[]IdleSwept`, `[]DrainWakesStop`, `[]NotStranded`, `[]DrainedAtEnd`, `[]TypeOK` | sessions, threads, requests, calls |
| `NoWorkerIdles`, `ClosuresRunOnce`, `WorkerTypeCorrect` | `PoolSpec => []NoIdleWorker`, `RunsOnce` (an action property), `[]PoolTypeOK` | workers, jobs |
| `ResumedOnce`, `TimersMatch`, `KeptAlive`, `TransportTypeCorrect` | `Spec => []OperationResumedOnce`, `[]TimerPerOperation`, `[]KeptWhileInUse`, `[]TypeOK` | coroutines, addresses, operations, pieces |
| `BoundariesKept`, `AnswersMatch`, `FailuresHaveCauses`, `HandlersOnce` | `Spec => []BoundariesAgree`, `[]AnswersItsRequest`, `[]FailureHasCause`, `[]HandledOnce` | requests and answers of any kind, connections, units, faults, limits |
| `FileKeepsOrder` | `SinkSpec => []FileInOrder` | pool threads, coroutines, operations, faults |
| `NothingBehindClose`, `SessionsRelease`, `ChannelTypeCorrect` | `Spec => []CloseFrameLast`, `[]SessionReleases`, `[]TypeOK` | operations, frames, faults |

The assumptions (`PoolAssumption`, `ChainAssumption`, `ServerAssumption`,
`WorkerAssumption`, `SinkAssumption`, `ChannelAssumption`, `TransportAssumption`,
`ExchangeAssumption`) say that the sets that
are counted are finite, that sentinels lie outside of the sets they are told apart
from, that limits are natural numbers, that there is a worker and a pool thread,
that kinds of threads and coroutines are disjoint, and which fields a request and
a handler's answer have. TLC evaluates them on every
run.

*Slots.* `TypeOK` is not inductive: that `count` stays a natural number when
`release_slot` or the loop over stale idle entries decrements it (a `size_t` in
the code) needs to know that the slot was counted. `Inv` therefore adds
`SlotAccounting` (count = idle connections + holders), `HoldersHaveConn`,
`StoppersHaveReq` and `CountLimits`. An action either moves no slot
(`SlotsUntouched`), takes one (`SlotTaken`) or gives one back (`SlotGivenBack`);
finite-set theorems give the cardinality of the holders.

*Leases and cancellation.* `LeaseInv` stands beside `Inv`. `Paired` says that
`bind` and `unbind` follow the lease; `SnapshotFresh` that the connection a
thread inside `cancel()` has copied is the one still bound, or that `bind()` has
closed the new one; `ClosesOwn` that nobody else has the connection a stop
callback is about to close, because a request that has pooled its connection
keeps the loop until its callback is over (`~stop_callback` waits). Without
`ClosesOwn` the snapshot of `cancel()` could be leased again before it is closed.
`AllOverlaps` and `ClosedUnder` treat `AsyncClient::cancel`, which gives no such
guarantee. For the refinement, a step is classified by what it does to holders
and results (`SlotStutter`, `SlotDropped`, `SlotGives`, `SlotAnswers`,
`SlotTakes`). `SlotAccounting` before and after the step turns the count of used
slots into the number of holders (`UsedIsHeld`, `UsedStaysHeld`); that a slot is
free when one is taken is `RoomToTake`, from the same accounts.

*Wakeups.* `NoLostWakeup` counts announcements, so `WakeInv` says where they can
be: a queued request has none (`Queues`), `notified_origin` is carried only from
`await_resume` until a connection is taken or the announcement is handed on
(`TokensHeld`), and a request about to queue has found every slot held and keeps
the loop until it is queued (`LoopOwner`, `Parking`). `Covered` then survives each
step because every freed slot is exchanged for an announcement (`Exchanged`).

*Tasks.* The invariant is stated task by task (`Pair`), given where the coroutine
and its consumer stand. `FrameLifetime` needs the word: who lets go last destroys
the frame only if `done()` holds, and it does because a coroutine publishes before
it releases and a consumer consumes only a completed task. `ResumedOnce` needs
that the word is `registered` exactly while the consumer is suspended, and that
an actor stands on a stack only at a position where it has its turn (`Turns`).

*Server.* The invariant comes in three layers, each proved from the ones before:
`Discipline` (who holds the loop and the mutexes; the list and the count agree
with the sessions; `in_request` with their positions), `Control` (which thread may
start or stop, and what it has built or taken away) and `Drain` (how far sessions
are drained at each position of `stop()`). `DrainWakesStop` needs that a thread
about to sleep has seen a session and has held `state_mutex` since.

*Worker pool.* `NoIdleWorker` needs `SleepExact`, because `enqueue` looks at the
counter and not at the workers, and `EntersEmpty`, because a worker falls asleep
one step after it has looked at the queue.

*Transport.* The loop's stack is the witness of `OperationResumedOnce`: its frames
resume exactly the coroutines that run (`Turns`). A callback may resume a
coroutine only if it is suspended, which `Waits` says of whomever a connection
remembers as its reader, writer or connector. `close_on_loop` does its work in
four calls with coroutines running in between, so an operation of a closing
connection is either gone or its completion is still on the stack (`Closes`), and
the object stays until the count of its handles is zero (`Sound`). `Timed` is
`TimerPerOperation` with the exceptions that hold while a close or the start of a
connect is on the stack. `Begins` and `Succeeds` say what a connect finds when it
starts and when it is finished; without them an operation could open a connection
that is closing.

*Exchange.* None of the four properties is inductive: they look at moments between
messages, and what is true there depends on every byte before. `ExchangeInv` says
of each connection what is under way in both directions, given what its session
and its client are doing (`Good`). `Upward`: of a request's body exactly what the
session still expects, by units for a length and up to the last chunk otherwise;
less only if something went wrong on the connection. `Exchange`: the request waits
(`Waiting`), is being served and has no answer but 100 Continue (`Served`), or has
been answered (`Replied`), and then what the client has read, what is under way
and what the producer owes make up what the head promises (`Body`). `Answered`
holds the core of `FailureHasCause`: a head that lets the client keep the
connection comes from a session that will read another request, and it comes
only when the request has been consumed. `Rested`: between exchanges nothing is
under way. `Owner` says that the client uses one connection or one is pooled,
which makes every other one nobody's. `AnswersItsRequest` and `FailureHasCause`
follow where a request ends (`Results`).

`HandledOnce` needs a count besides (`CountInv`): calls made, plus connections on
which a call for the request is still to come (`Pending`), plus times it may still
be written (`Chances`), stay within the limit. Writing moves one from the last to
the second and a call one from the second to the first; a second attempt is taken
only by a request whose limit is two.

*File sink.* At most one thread is inside `process()` and `worker_running` says so
(`OneProcess`); what was queued and not yet written is exactly the line of
actions, in its order, while the stream is good (`Owed`). Once it is bad nothing
is written.

*WebSocket.* `CloseFrameLast` is not inductive, since `ping()` and the answers of
`read()` do not look at `open_`: whoever has sent a close frame has closed its
connection in the same step (`ClosedWithFrame`). `SessionReleases` needs that
`open_` is false on an open connection only after an end of file (`Sound`), since
`serve()` asks `open()` before it closes.

Only model-checked:

- all liveness (`EveryRequestEnds`, `CancelledEnds`, `ChainEnds`, `EveryJobRuns`,
  `ActionsEnd`, `StopEnds`, `OperationEnds`, `RequestEnds`, `ReaderReleased`),
  which needs fairness and ENABLED and is outside of the prover's reach;
- `BodyExact`, `NoFalseReject`, `EventsMatch`, `FailsExactly` and
  `DeliveredInOrder`: they compare a state with what a recursive definition or a
  fold computes over a whole stream (`Decode`, `EventsOf`, `FailsOn`, `Messages`),
  which takes induction over data.

## Findings

- `server_listen`: `stop()` changes `started` and notifies `state_cv` without
  `state_mutex` (server.cpp 618-620); a thread in `wait()` that has checked
  `started` and not yet gone to sleep misses both, and `listen()` does not return.
- `http10_stream`: `serve()` decides whether the connection is reusable (server.cpp
  831, and 726 for streamed routes) before `send_response` lowers `keep_alive` for
  a streamed response to HTTP/1.0 (1191). The session then waits for another
  request on a connection whose end is the end of the body.
- `sse_resume_id`: an `id` line takes effect at once (sse.cpp 105). When the stream
  ends before the blank line, `finish()` (157-167) drops the event but not its id,
  and the reconnect of `connect()` asks for what comes after an event that no
  handler saw. A WHATWG event stream, which README.md:46 and chhttp.hpp:1227 name,
  commits the id at the blank line. `ResumesAfterComplete` is stated for responses
  the server ended or cut, without a failure of the parser or a `stop()`.

Noted without a run:

- `stop()` clears `bound_port` after `started` (618-619). A thread that leaves
  `wait()` in between and starts the server again has its port overwritten with 0.
- After an end of file on a WebSocket (protocol.cpp 1111) `open()` is false while the
  connection is open, so `serve()` calls no `close()` (server.cpp 816-818) and
  returns without the `connection->close()` of its other exits. The connection holds
  itself (`self_keep_`, runtime.cpp 394) until it is closed, and the session is off
  the list `stop()` sweeps.
- A LF at the edge of a trailer value is accepted when the line's CRLF is buffered
  with it (`trim`, protocol.cpp 632) and refused as a bare LF (442) when the
  fragment ends before.

## What is abstracted

- URLs, headers, cookies, credentials and bodies are data; the outcome of a
  transport operation is a choice. Time is a choice too: a deadline or a timer may
  fire at any moment it is armed.
- The body reader's tokens stand for bytes; a field name with its colon is one
  token, as is a name that is a line of its own; they stand only in bodies. Hexadecimal digits above 6 and chunk sizes
  beyond 64 bits, which `from_chars` refuses, do not occur. A block delivered
  without a copy and one delivered from the buffer are the same step.
- In `HttpExchange` the heads of messages are units: their syntax and their limits
  are data. `BodyReader` is the detail of one body; the two are separate models,
  as every division of a body into fragments times every exchange is out of reach.
- The transport of `ConnectionPool`, `ServerLifecycle`, `HttpExchange` and
  `WebSocketChannel` is an outcome per operation; `Transport` shows that an
  operation has one.
- A WebSocket is used by one coroutine at a time, as the repository's README asks;
  `writing_` is therefore never contended.
- The legacy cancel flag of a request takes part in `pool_slots`, whose properties
  are about safety; that a queued request reacts to the flag is not checked. The
  pool runs have one origin: that a slot of one origin does nothing for the
  waiters of another is covered by the theorems, which hold for any number.
- Some failures share an outcome that has another cause and are not steps of their
  own: `uv_timer_init` of a waiter (client.cpp 372-376); `set_no_delay` of a plain
  origin (544-547), which ends as `ConnectFail`; a `push_back` that throws while
  `process()` runs (streaming_body.cpp 467), which ends as `SubmitThrows`. With more
  than two addresses `Transport` lets an attempt end early that the code would make.
- Head and body of a message are written in one step of `HttpExchange` also where
  the code writes a body beyond 64 KiB in blocks (protocol.cpp 1757-1768, 1885-1888);
  a failure between them has the outcome of a cut connection.
- A read that times out resumes its coroutine from `finish_read` before the timer
  callback closes the connection (runtime.cpp 660-672), and a small write is tried at
  once, so the 408 of `BodyTimeout` leaves before the close.
- Nothing is enqueued in `WorkerPool` once its destructor has begun; `ServerLifecycle`
  has the sessions that could try. A handler that clears `keep_alive` itself is not
  among the handlers of `HttpExchange`.
- Destruction of `AsyncClient` and `Server` while calls run is not an action.
- Sequential consistency: the code's release/acquire pairs on the handoff word and
  the reference count are taken as such.

## Not modelled

- Compression and decompression: zlib, brotli and zstd keep the state.
- TLS itself and certificates; what libuv and the operating system do beyond the
  callbacks the code relies on.
- Multipart, Base64 and JSON writers and parsers, URL, header, cookie, range and
  digest functions: sequential functions over text, which the repository's tests
  reach. Boundary recognition across fragments is the one worth a model.
- Routing and static files: tables that do not change while the server runs.
- The reconnect loop of `SseClient`, `Runtime::stop` called on the loop's own
  thread, `sleep_for`, `SseParser::reset`.
- Examples and benchmarks.

## Plan

1. `SseClient`: the loop of `connect()`, `stop()` and a second `connect()` around
   `EventStream`'s response: `stop()` before the stop source is published
   (sse.cpp 231-254, 349-355), a stop followed by a connect while the first loop
   sleeps, the growth of the retry delay.
2. Multipart boundaries across fragments, the routing index against a scan, ranges.
