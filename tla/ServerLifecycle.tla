--------------------------- MODULE ServerLifecycle ---------------------------
(***************************************************************************)
(* Server::Impl (src/src/server.cpp): start, stop, wait and listen on user *)
(* threads, against the accept callback and the serve() coroutine of every *)
(* session on the server's one loop thread, and the handlers that run on   *)
(* the worker pool or on an executor of the user's.                        *)
(*                                                                         *)
(* A session holds the loop (variable "loop") until it suspends.  The user *)
(* threads interleave with the loop at every atomic and every lock.        *)
(***************************************************************************)
EXTENDS Naturals, FiniteSets

CONSTANTS
  Sessions,    \* accepted connections, each with its serve() coroutine
  Listeners,   \* threads that call Server::listen, that is start and wait
  Stoppers,    \* threads that call Server::stop
  MaxRequests, \* ServerOptions::keep_alive_max_requests
  Tls,         \* ServerOptions::tls is set
  MaxCalls,    \* bound: calls of listen or stop each thread makes
  NoSession, NoThread

ASSUME ServerAssumption ==
  /\ IsFiniteSet(Sessions) /\ Listeners \cap Stoppers = {}
  /\ NoSession \notin Sessions /\ NoThread \notin Listeners \cup Stoppers
  /\ MaxRequests \in Nat /\ MaxCalls \in Nat /\ Tls \in BOOLEAN

Threads == Listeners \cup Stoppers

VARIABLES
  pc,        \* where each session's coroutine stands
  loop,      \* the session running on the loop thread
  link,      \* the session's Connection; "closing" when close() is posted
  inRequest, \* Session::in_request
  requests,  \* serve()'s request_count
  keep,      \* serve()'s reusable
  sessions, active,   \* Impl::sessions, active_sessions
  started, stopping,  \* Impl::started, stopping
  port,      \* bound_port is not 0
  listener, workers, runtime, \* the objects start() creates
  thread,    \* where each user thread stands
  calls,     \* calls each user thread has made
  mutex,     \* the user thread holding state_mutex across steps
  sweeper,   \* the user thread holding sessions_mutex in stop()
  sweep,     \* sessions stop()'s loop has still to visit
  expired,   \* history: the later wait_for of a stop() that has run out
  inFlight   \* history: sessions in a request when stop() began

sessVars == <<pc, loop, inRequest, requests, keep>>
ctlVars  == <<started, stopping, port>>
objVars  == <<listener, workers, runtime>>
userVars == <<thread, calls, mutex, sweeper, sweep, expired, inFlight>>
vars == <<pc, loop, link, inRequest, requests, keep, sessions, active, started,
          stopping, port, listener, workers, runtime, thread, calls, mutex,
          sweeper, sweep, expired, inFlight>>

(* A session is suspended on its connection when Io, on a worker when Job,  *)
(* in a user's coroutine when User; it holds the loop when Running.         *)
Io      == {"handshake", "head", "body", "errorReply", "upgrade", "send", "wsclose"}
Job     == {"job", "compress"}
User    == {"handler", "socket"}
Running == {"accepted", "pushed", "top", "check", "request", "routed", "dispatch",
            "answered", "closing", "erase", "decrement", "notify"}
Posted  == {"jobPosted", "compressPosted"}
Over    == {"none", "refused", "ended", "stranded"}
Serving == {"request", "routed", "dispatch", "answered", "body", "upgrade", "send",
            "wsclose"} \cup Job \cup User \cup Posted

Steps(i) == IF i = 1
            THEN [lock |-> "lock1", check |-> "check1", enter |-> "enter1",
                  sleep |-> "sleep1", late |-> "late1", next |-> "recheck"]
            ELSE [lock |-> "lock2", check |-> "check2", enter |-> "enter2",
                  sleep |-> "sleep2", late |-> "late2", next |-> "resetWorkers"]
Draining == {"lock1", "check1", "enter1", "sleep1", "late1", "recheck", "allLock",
             "allSweep", "lock2", "check2", "enter2", "sleep2", "late2",
             "resetWorkers", "joinWorkers", "stopRuntime", "joinLoop", "unstart"}
Calls    == {"idle", "build", "publish", "clear", "set", "waitLock", "waitCheck",
             "waitEnter", "waitSleep", "cas", "shut", "idleLock", "idleSweep",
             "unport", "notifyAll"} \cup Draining

(* Every member holds what it can hold: active_sessions counts at most the  *)
(* sessions there are and never wraps below zero.                           *)
TypeOK ==
  /\ pc \in [Sessions -> Io \cup Job \cup User \cup Running \cup Posted \cup Over]
  /\ loop \in Sessions \cup {NoSession}
  /\ link \in [Sessions -> {"none", "open", "closing", "closed"}]
  /\ inRequest \in [Sessions -> BOOLEAN] /\ keep \in [Sessions -> BOOLEAN]
  /\ requests \in [Sessions -> 0..MaxRequests]
  /\ sessions \subseteq Sessions /\ active \in 0..Cardinality(Sessions)
  /\ started \in BOOLEAN /\ stopping \in BOOLEAN /\ port \in BOOLEAN
  /\ listener \in {"none", "up", "closing"} /\ workers \in {"none", "up", "joining"}
  /\ runtime \in {"none", "up", "stopping"}
  /\ thread \in [Threads -> Calls] /\ calls \in [Threads -> 0..MaxCalls]
  /\ mutex \in Threads \cup {NoThread} /\ sweeper \in Threads \cup {NoThread}
  /\ sweep \subseteq Sessions /\ expired \in 0..2 /\ inFlight \subseteq Sessions

Init ==
  /\ pc = [s \in Sessions |-> "none"] /\ loop = NoSession
  /\ link = [s \in Sessions |-> "none"]
  /\ inRequest = [s \in Sessions |-> FALSE] /\ keep = [s \in Sessions |-> FALSE]
  /\ requests = [s \in Sessions |-> 0]
  /\ sessions = {} /\ active = 0
  /\ started = FALSE /\ stopping = FALSE /\ port = FALSE
  /\ listener = "none" /\ workers = "none" /\ runtime = "none"
  /\ thread = [t \in Threads |-> "idle"] /\ calls = [t \in Threads |-> 0]
  /\ mutex = NoThread /\ sweeper = NoThread /\ sweep = {}
  /\ expired = 0 /\ inFlight = {}

-----------------------------------------------------------------------------
(* The accept callback and serve(), on the loop thread.                     *)

(* The coroutine of s goes on, on the loop, at position p.                  *)
Continue(s, p) == pc' = [pc EXCEPT ![s] = p] /\ loop' = s
(* The coroutine of s suspends (or is over) at p, and the loop is free.     *)
Suspend(s, p) == pc' = [pc EXCEPT ![s] = p] /\ loop' = NoSession

(* The coroutine of s holds the loop at p, or a callback resumes it from p. *)
At(s, p) == pc[s] = p /\ loop = s
Wakes(s, p) == pc[s] = p /\ loop = NoSession /\ runtime # "none"

Open(s) == link[s] = "open"
CloseHere(s) == link' = [link EXCEPT ![s] = "closed"]

(* Connection accepted: refused while stopping or without TCP_NODELAY.      *)
Accept(s) ==
  /\ loop = NoSession /\ listener \in {"up", "closing"} /\ pc[s] = "none"
  /\ \/ Suspend(s, "refused") /\ CloseHere(s)
     \/ ~stopping /\ Continue(s, "accepted") /\ link' = [link EXCEPT ![s] = "open"]
  /\ UNCHANGED <<inRequest, requests, keep, sessions, active, ctlVars, objVars, userVars>>

(* sessions.push_back under sessions_mutex.                                 *)
PushSession(s) ==
  /\ At(s, "accepted") /\ sweeper = NoThread
  /\ sessions' = sessions \cup {s}
  /\ Continue(s, "pushed")
  /\ UNCHANGED <<link, inRequest, requests, keep, active, ctlVars, objVars, userVars>>

(* ++active_sessions, and serve() starts.                                   *)
CountSession(s) ==
  /\ At(s, "pushed")
  /\ active' = active + 1
  /\ IF Tls THEN Suspend(s, "handshake") ELSE Continue(s, "top")
  /\ UNCHANGED <<link, inRequest, requests, keep, sessions, ctlVars, objVars, userVars>>

(* The head of serve()'s loop: in_request goes down ...                     *)
Top(s) ==
  /\ At(s, "top")
  /\ \/ /\ Open(s) /\ requests[s] < MaxRequests
        /\ inRequest' = [inRequest EXCEPT ![s] = FALSE] /\ Continue(s, "check")
     \/ /\ ~(Open(s) /\ requests[s] < MaxRequests)
        /\ Continue(s, "closing") /\ UNCHANGED inRequest
  /\ UNCHANGED <<link, requests, keep, sessions, active, ctlVars, objVars, userVars>>

(* Mutant: reads the next head without looking at stopping.                 *)
CheckNothing(s) ==
  /\ At(s, "check") /\ Suspend(s, "head")
  /\ UNCHANGED <<link, inRequest, requests, keep, sessions, active, ctlVars,
                 objVars, userVars>>

(* ... before stopping is read; then the coroutine waits for a head.        *)
CheckStopping(s) ==
  /\ At(s, "check")
  /\ IF stopping THEN Continue(s, "closing") ELSE Suspend(s, "head")
  /\ UNCHANGED <<link, inRequest, requests, keep, sessions, active, ctlVars,
                 objVars, userVars>>

(* A head has been read: in_request goes up.                                *)
HeadRead(s) ==
  /\ Wakes(s, "head") /\ link[s] # "closed"
  /\ inRequest' = [inRequest EXCEPT ![s] = TRUE] /\ Continue(s, "request")
  /\ UNCHANGED <<link, requests, keep, sessions, active, ctlVars, objVars, userVars>>

(* An operation on the connection succeeds: the handshake, the body, an     *)
(* error reply, the WebSocket upgrade or the WebSocket close frame.         *)
IoOk(s) ==
  /\ link[s] # "closed"
  /\ \/ Wakes(s, "handshake") /\ Continue(s, "top") /\ UNCHANGED link
     \/ Wakes(s, "body") /\ Continue(s, "routed") /\ UNCHANGED link
     \/ Wakes(s, "errorReply") /\ Continue(s, "closing") /\ UNCHANGED link
     \/ Wakes(s, "upgrade") /\ Suspend(s, "socket") /\ UNCHANGED link
     \/ Wakes(s, "wsclose") /\ Continue(s, "erase") /\ CloseHere(s)
  /\ UNCHANGED <<inRequest, requests, keep, sessions, active, ctlVars, objVars, userVars>>

(* It fails, by the peer, a timeout or the connection being closed.  A bad  *)
(* head and any failure to read a body are still answered.                  *)
IoFail(s) ==
  /\ \/ \E p \in {"handshake", "head", "errorReply", "upgrade"} :
          Wakes(s, p) /\ Continue(s, "closing") /\ UNCHANGED link
     \/ \E p \in {"head", "body"} : Wakes(s, p) /\ Suspend(s, "errorReply") /\ UNCHANGED link
     \/ Wakes(s, "wsclose") /\ Continue(s, "erase") /\ CloseHere(s)
  /\ UNCHANGED <<inRequest, requests, keep, sessions, active, ctlVars, objVars, userVars>>

(* What the head asks for: a stream route (its handler, or 413), a body to  *)
(* read first, or neither.                                                  *)
Request(s) ==
  /\ At(s, "request")
  /\ \/ \E p \in {"errorReply", "handler", "body"} : Suspend(s, p)
     \/ Continue(s, "routed")
  /\ UNCHANGED <<link, inRequest, requests, keep, sessions, active, ctlVars,
                 objVars, userVars>>

(* dispatch(): WebSocket upgrade or its 404, an asynchronous handler, a     *)
(* synchronous one, or an answer made here (pre-routing, 404, exception).   *)
Route(s) ==
  /\ At(s, "routed")
  /\ \/ \E p \in {"errorReply", "upgrade", "handler"} : Suspend(s, p)
     \/ \E p \in {"dispatch", "answered"} : Continue(s, p)
  /\ UNCHANGED <<link, inRequest, requests, keep, sessions, active, ctlVars,
                 objVars, userVars>>

(* workers->execute; without a pool the dereference is undefined and the    *)
(* coroutine never goes on.                                                 *)
Execute(s, p) == Suspend(s, IF workers = "up" THEN p ELSE "stranded")

Dispatch(s) ==
  /\ At(s, "dispatch") /\ Execute(s, "job")
  /\ UNCHANGED <<link, inRequest, requests, keep, sessions, active, ctlVars,
                 objVars, userVars>>

(* A worker runs the job and posts the continuation to the loop, which      *)
(* drops it once Runtime::stop has begun.                                   *)
RunJob(s) ==
  /\ pc[s] \in Job /\ workers # "none"
  /\ pc' = [pc EXCEPT ![s] = IF runtime # "up" THEN "stranded"
                             ELSE IF @ = "job" THEN "jobPosted" ELSE "compressPosted"]
  /\ UNCHANGED <<loop, link, inRequest, requests, keep, sessions, active, ctlVars,
                 objVars, userVars>>

JobDone(s) ==
  /\ \/ Wakes(s, "jobPosted") /\ Continue(s, "answered")
     \/ Wakes(s, "compressPosted") /\ Suspend(s, "send")
  /\ UNCHANGED <<link, inRequest, requests, keep, sessions, active, ctlVars,
                 objVars, userVars>>

(* An asynchronous handler returns, possibly on another executor, and       *)
(* serve() returns to the loop.  A runtime that is gone is undefined.       *)
HandlerReturns(s) ==
  /\ \/ Wakes(s, "handler") /\ Continue(s, "answered")
     \/ Wakes(s, "socket") /\ Open(s) /\ Suspend(s, "wsclose")
     \/ Wakes(s, "socket") /\ ~Open(s) /\ Continue(s, "erase")
     \/ /\ pc[s] \in User /\ runtime # "up"
        /\ pc' = [pc EXCEPT ![s] = "stranded"] /\ UNCHANGED loop
  /\ UNCHANGED <<link, inRequest, requests, keep, sessions, active, ctlVars,
                 objVars, userVars>>

(* The response is ready: give up on a closed connection; otherwise decide  *)
(* on keep-alive and send, compressing on the pool if need be.              *)
Answer(s) ==
  /\ At(s, "answered")
  /\ \/ ~Open(s) /\ Continue(s, "closing") /\ UNCHANGED keep
     \/ /\ Open(s)
        /\ \E k \in BOOLEAN : keep' = [keep EXCEPT ![s] =
             k /\ requests[s] + 1 < MaxRequests /\ ~stopping]
        /\ Suspend(s, "send") \/ Execute(s, "compress")
  /\ UNCHANGED <<link, inRequest, requests, sessions, active, ctlVars, objVars, userVars>>

(* send_response is over, with or without an error.                         *)
Sent(s) ==
  /\ Wakes(s, "send")
  /\ requests' = [requests EXCEPT ![s] = @ + 1]
  /\ inRequest' = [inRequest EXCEPT ![s] = FALSE]
  /\ \/ keep[s] /\ link[s] # "closed" /\ Continue(s, "top")
     \/ Continue(s, "closing")
  /\ UNCHANGED <<link, keep, sessions, active, ctlVars, objVars, userVars>>

Close(s) ==
  /\ At(s, "closing") /\ CloseHere(s) /\ Continue(s, "erase")
  /\ UNCHANGED <<inRequest, requests, keep, sessions, active, ctlVars, objVars, userVars>>

(* session_finished: leave the list ...                                     *)
EraseSession(s) ==
  /\ At(s, "erase") /\ sweeper = NoThread
  /\ sessions' = sessions \ {s}
  /\ Continue(s, "decrement")
  /\ UNCHANGED <<link, inRequest, requests, keep, active, ctlVars, objVars, userVars>>

(* Mutant: counts down without state_mutex.                                 *)
DecrementUnlocked(s) ==
  /\ At(s, "decrement")
  /\ active' = active - 1
  /\ Continue(s, "notify")
  /\ UNCHANGED <<link, inRequest, requests, keep, sessions, ctlVars, objVars, userVars>>

(* ... count down under state_mutex ...                                     *)
DecrementActive(s) ==
  /\ At(s, "decrement") /\ mutex = NoThread
  /\ active' = active - 1
  /\ Continue(s, "notify")
  /\ UNCHANGED <<link, inRequest, requests, keep, sessions, ctlVars, objVars, userVars>>

(* ... and sessions_cv.notify_all.                                          *)
NotifySessions(s) ==
  /\ At(s, "notify") /\ Suspend(s, "ended")
  /\ thread' = [t \in Threads |-> IF thread[t] = "sleep1" THEN "lock1"
                                  ELSE IF thread[t] = "sleep2" THEN "lock2"
                                  ELSE thread[t]]
  /\ UNCHANGED <<link, inRequest, requests, keep, sessions, active, ctlVars, objVars,
                 calls, mutex, sweeper, sweep, expired, inFlight>>

(* Callbacks other threads posted: Connection::close and Listener::close.   *)
CloseOnLoop(s) ==
  /\ loop = NoSession /\ link[s] = "closing" /\ CloseHere(s)
  /\ UNCHANGED <<sessVars, sessions, active, ctlVars, objVars, userVars>>

ListenerClosed ==
  /\ loop = NoSession /\ listener = "closing" /\ listener' = "none"
  /\ UNCHANGED <<sessVars, link, sessions, active, ctlVars, workers, runtime, userVars>>

-----------------------------------------------------------------------------
(* start(), wait() and stop(), on user threads.                             *)

Goto(t, p) == thread' = [thread EXCEPT ![t] = p]
Local == UNCHANGED <<sessVars, link, sessions, active>>

(* start(): take state_mutex; false when the server already runs.           *)
StartLock(t) ==
  /\ t \in Listeners /\ thread[t] = "idle" /\ calls[t] < MaxCalls /\ mutex = NoThread
  /\ calls' = [calls EXCEPT ![t] = @ + 1]
  /\ IF started THEN Goto(t, "idle") /\ UNCHANGED mutex
                ELSE Goto(t, "build") /\ mutex' = t
  /\ Local /\ UNCHANGED <<ctlVars, objVars, sweeper, sweep, expired, inFlight>>

(* Runtime, workers, TLS context and listener; a failure takes down again   *)
(* what was made.  From here on connections are accepted.                   *)
Build(t) ==
  /\ thread[t] = "build"
  /\ \/ /\ listener' = "up" /\ workers' = "up" /\ runtime' = "up"
        /\ Goto(t, "publish") /\ UNCHANGED mutex
     \/ Goto(t, "idle") /\ mutex' = NoThread /\ UNCHANGED objVars
  /\ Local /\ UNCHANGED <<ctlVars, calls, sweeper, sweep, expired, inFlight>>

(* bound_port, stopping and started, one atomic after the other.            *)
Publish(t) ==
  /\ \/ thread[t] = "publish" /\ port' = TRUE /\ Goto(t, "clear")
        /\ UNCHANGED <<stopping, started, mutex>>
     \/ thread[t] = "clear" /\ stopping' = FALSE /\ Goto(t, "set")
        /\ UNCHANGED <<port, started, mutex>>
     \/ thread[t] = "set" /\ started' = TRUE /\ Goto(t, "waitLock")
        /\ mutex' = NoThread /\ UNCHANGED <<port, stopping>>
  /\ Local /\ UNCHANGED <<objVars, calls, sweeper, sweep, expired, inFlight>>

(* wait(): state_cv.wait with the predicate !started.                       *)
Wait(t) ==
  /\ \/ thread[t] = "waitLock" /\ mutex = NoThread /\ Goto(t, "waitCheck") /\ mutex' = t
     \/ thread[t] = "waitCheck" /\ started /\ Goto(t, "waitEnter") /\ UNCHANGED mutex
     \/ thread[t] = "waitCheck" /\ ~started /\ Goto(t, "idle") /\ mutex' = NoThread
     \/ thread[t] = "waitEnter" /\ Goto(t, "waitSleep") /\ mutex' = NoThread
  /\ Local /\ UNCHANGED <<ctlVars, objVars, calls, sweeper, sweep, expired, inFlight>>

(* A condition variable may wake spuriously.                                *)
SpuriousWake(t) ==
  /\ \/ thread[t] = "waitSleep" /\ Goto(t, "waitLock")
     \/ \E i \in {1, 2} : thread[t] = Steps(i).sleep /\ Goto(t, Steps(i).lock)
  /\ Local
  /\ UNCHANGED <<ctlVars, objVars, calls, mutex, sweeper, sweep, expired, inFlight>>

(* stop(): nothing to do unless started ...                                 *)
StopLoad(t) ==
  /\ t \in Stoppers /\ thread[t] = "idle" /\ calls[t] < MaxCalls
  /\ calls' = [calls EXCEPT ![t] = @ + 1]
  /\ Goto(t, IF started THEN "cas" ELSE "idle")
  /\ Local /\ UNCHANGED <<ctlVars, objVars, mutex, sweeper, sweep, expired, inFlight>>

(* ... and for one thread only, which sets stopping.                        *)
StopCas(t) ==
  /\ thread[t] = "cas"
  /\ \/ stopping /\ Goto(t, "idle") /\ UNCHANGED <<stopping, inFlight>>
     \/ /\ ~stopping /\ stopping' = TRUE /\ Goto(t, "shut")
        /\ inFlight' = {s \in Sessions : inRequest[s]}
  /\ Local /\ UNCHANGED <<started, port, objVars, calls, mutex, sweeper, sweep, expired>>

ShutListener(t) ==
  /\ thread[t] = "shut" /\ listener' = "closing" /\ Goto(t, "idleLock")
  /\ Local
  /\ UNCHANGED <<ctlVars, workers, runtime, calls, mutex, sweeper, sweep, expired, inFlight>>

(* Both passes over the sessions hold sessions_mutex.                       *)
SweepLock(t) ==
  /\ sweeper = NoThread
  /\ \/ thread[t] = "idleLock" /\ Goto(t, "idleSweep")
     \/ thread[t] = "allLock" /\ Goto(t, "allSweep")
  /\ sweeper' = t /\ sweep' = sessions
  /\ Local /\ UNCHANGED <<ctlVars, objVars, calls, mutex, expired, inFlight>>

(* Mutant: the first pass closes sessions inside a request.                 *)
SparesNobody(t, s) == FALSE
(* Mutant: the second pass spares them as well.                             *)
SparesAlways(t, s) == inRequest[s]

(* The first pass spares sessions that are inside a request.                *)
Spares(t, s) == thread[t] = "idleSweep" /\ inRequest[s]

SweepOne(t, s) ==
  /\ thread[t] \in {"idleSweep", "allSweep"} /\ s \in sweep
  /\ sweep' = sweep \ {s}
  /\ link' = IF Spares(t, s) \/ ~Open(s) THEN link ELSE [link EXCEPT ![s] = "closing"]
  /\ UNCHANGED <<sessVars, sessions, active, ctlVars, objVars, thread, calls, mutex,
                 sweeper, expired, inFlight>>

SweepDone(t) ==
  /\ sweep = {} /\ sweeper = t
  /\ \/ thread[t] = "idleSweep" /\ Goto(t, "lock1")
     \/ thread[t] = "allSweep" /\ Goto(t, "lock2")
  /\ sweeper' = NoThread
  /\ Local /\ UNCHANGED <<ctlVars, objVars, calls, mutex, sweep, expired, inFlight>>

(* sessions_cv.wait_for on active_sessions == 0, first for shutdown_timeout *)
(* and then for two seconds.                                                *)
WaitFor(t, i) ==
  LET st == Steps(i)
  IN  /\ \/ thread[t] = st.lock /\ mutex = NoThread /\ Goto(t, st.check) /\ mutex' = t
         \/ thread[t] = st.check /\ active = 0 /\ Goto(t, st.next) /\ mutex' = NoThread
         \/ thread[t] = st.check /\ active # 0 /\ Goto(t, st.enter) /\ UNCHANGED mutex
         \/ thread[t] = st.enter /\ Goto(t, st.sleep) /\ mutex' = NoThread
      /\ Local /\ UNCHANGED <<ctlVars, objVars, calls, sweeper, sweep, expired, inFlight>>

(* The wait runs out; the predicate is read once more under the mutex.      *)
WaitExpires(t, i) ==
  /\ \/ thread[t] = Steps(i).sleep /\ Goto(t, Steps(i).late) /\ UNCHANGED expired
     \/ /\ thread[t] = Steps(i).late /\ mutex = NoThread /\ Goto(t, Steps(i).next)
        /\ expired' = IF active # 0 /\ expired < i THEN i ELSE expired
  /\ Local /\ UNCHANGED <<ctlVars, objVars, calls, mutex, sweeper, sweep, inFlight>>

Recheck(t) ==
  /\ thread[t] = "recheck" /\ Goto(t, IF active # 0 THEN "allLock" ELSE "lock2")
  /\ Local
  /\ UNCHANGED <<ctlVars, objVars, calls, mutex, sweeper, sweep, expired, inFlight>>

(* workers.reset(): the pointer goes first, then ~WorkerPool runs the jobs  *)
(* that are left and joins.                                                 *)
ResetWorkers(t) ==
  /\ \/ thread[t] = "resetWorkers" /\ workers' = "joining" /\ Goto(t, "joinWorkers")
     \/ /\ thread[t] = "joinWorkers" /\ \A s \in Sessions : pc[s] \notin Job
        /\ workers' = "none" /\ Goto(t, "stopRuntime")
  /\ Local
  /\ UNCHANGED <<ctlVars, listener, runtime, calls, mutex, sweeper, sweep, expired, inFlight>>

(* The loop runs on while a connection or a posted callback is left; a      *)
(* handler on another executor does not keep it.                            *)
KeepsLoop(s) ==
  /\ pc[s] \notin Over
  /\ ~(pc[s] \in User /\ link[s] = "closed")

(* Mutant: does not join the loop thread.                                   *)
StopRuntimeDetached(t) ==
  /\ \/ thread[t] = "stopRuntime" /\ runtime' = "stopping" /\ Goto(t, "joinLoop")
     \/ thread[t] = "joinLoop" /\ runtime' = "none" /\ Goto(t, "unstart")
  /\ Local
  /\ UNCHANGED <<ctlVars, listener, workers, calls, mutex, sweeper, sweep, expired, inFlight>>

(* runtime->stop() posts the end of the loop and joins its thread.          *)
StopRuntime(t) ==
  /\ \/ thread[t] = "stopRuntime" /\ runtime' = "stopping" /\ Goto(t, "joinLoop")
     \/ /\ thread[t] = "joinLoop" /\ listener = "none" /\ loop = NoSession
        /\ \A s \in Sessions : ~KeepsLoop(s) /\ link[s] # "closing"
        /\ runtime' = "none" /\ Goto(t, "unstart")
  /\ Local
  /\ UNCHANGED <<ctlVars, listener, workers, calls, mutex, sweeper, sweep, expired, inFlight>>

(* started and bound_port, one atomic after the other.                      *)
Unpublish(t) ==
  /\ \/ thread[t] = "unstart" /\ started' = FALSE /\ Goto(t, "unport") /\ UNCHANGED port
     \/ thread[t] = "unport" /\ port' = FALSE /\ Goto(t, "notifyAll") /\ UNCHANGED started
  /\ Local
  /\ UNCHANGED <<stopping, objVars, calls, mutex, sweeper, sweep, expired, inFlight>>

(* state_cv.notify_all, without state_mutex.                                *)
NotifyAll(t) ==
  /\ thread[t] = "notifyAll"
  /\ thread' = [u \in Threads |-> IF u = t THEN "idle"
                                  ELSE IF thread[u] = "waitSleep" THEN "waitLock"
                                  ELSE thread[u]]
  /\ Local
  /\ UNCHANGED <<ctlVars, objVars, calls, mutex, sweeper, sweep, expired, inFlight>>

Quiet ==
  /\ \A t \in Threads : thread[t] \in {"idle", "waitSleep"}
  /\ loop = NoSession
  /\ UNCHANGED vars

-----------------------------------------------------------------------------
SessionStep(s) ==
  \/ PushSession(s) \/ CountSession(s) \/ Top(s) \/ CheckStopping(s) \/ Request(s)
  \/ Route(s) \/ Dispatch(s) \/ JobDone(s) \/ Answer(s) \/ Sent(s) \/ Close(s)
  \/ EraseSession(s) \/ DecrementActive(s) \/ NotifySessions(s)

CallStep(t) ==
  \/ Build(t) \/ Publish(t) \/ Wait(t) \/ StopCas(t) \/ ShutListener(t)
  \/ SweepLock(t) \/ SweepDone(t) \/ Recheck(t) \/ ResetWorkers(t)
  \/ StopRuntime(t) \/ Unpublish(t) \/ NotifyAll(t)
  \/ \E s \in Sessions : SweepOne(t, s)
  \/ \E i \in {1, 2} : WaitFor(t, i)

ClockStep(t) == \E i \in {1, 2} : WaitExpires(t, i)

Next ==
  \/ \E s \in Sessions : \/ Accept(s) \/ SessionStep(s) \/ HeadRead(s) \/ IoOk(s)
                         \/ IoFail(s) \/ RunJob(s) \/ HandlerReturns(s) \/ CloseOnLoop(s)
  \/ ListenerClosed
  \/ \E t \in Threads : \/ StartLock(t) \/ StopLoad(t) \/ CallStep(t)
                        \/ ClockStep(t) \/ SpuriousWake(t)
  \/ Quiet

Spec == Init /\ [][Next]_vars

(* The loop, the workers and the calling threads are scheduled; every       *)
(* operation on a connection ends, since each has a timeout; wait_for runs  *)
(* out.  Fairness is strong where spurious wakeups could keep others from a *)
(* mutex.  Connections need not come, nobody must call, handlers may hang.  *)
FairSpec ==
  /\ Spec
  /\ \A s \in Sessions : /\ SF_vars(SessionStep(s)) /\ WF_vars(IoFail(s))
                         /\ WF_vars(RunJob(s)) /\ WF_vars(CloseOnLoop(s))
  /\ WF_vars(ListenerClosed)
  /\ \A t \in Threads : SF_vars(CallStep(t)) /\ SF_vars(ClockStep(t))

-----------------------------------------------------------------------------
(* A request being served when stop() begins is answered on an open         *)
(* connection: stop() closes it only after shutdown_timeout has run out,    *)
(* however in_request, the first pass and the responses interleave.         *)
GracefulDrain ==
  \A s \in inFlight : pc[s] \in Serving /\ ~Open(s) => expired # 0

(* After the first pass nobody waits for another request on an open         *)
(* connection: in_request is lowered before stopping is read, and stopping  *)
(* is set before in_request is read, so one of the two sees the other, also *)
(* for a connection accepted while stop() was sweeping.                     *)
IdleSwept ==
  \A t \in Threads : thread[t] \in Draining =>
    \A s \in Sessions : pc[s] = "head" => ~Open(s)

(* stop() never sleeps in wait_for when the last session is gone, unless    *)
(* that session is about to notify it: a drained server does not sit out    *)
(* its grace period (the lost wakeup session_finished guards against).      *)
DrainWakesStop ==
  \A t \in Threads : thread[t] \in {"sleep1", "sleep2"} /\ active = 0 =>
    \E s \in Sessions : pc[s] = "notify"

(* No session runs into the worker pool or the runtime that stop() has      *)
(* taken away, nor is its continuation dropped, unless both waits ran out,  *)
(* although a connection is counted only after it was put on the list.      *)
NotStranded == (\E s \in Sessions : pc[s] = "stranded") => expired = 2

(* When stop() declares the server stopped no session is left on the list,  *)
(* in the count or in its coroutine, unless both waits ran out.             *)
DrainedAtEnd ==
  \A t \in Threads : thread[t] = "unstart" /\ expired # 2 =>
    /\ sessions = {} /\ active = 0
    /\ \A s \in Sessions : pc[s] \in Over

(* stop() returns, even when handlers never do.                             *)
StopEnds == \A t \in Stoppers : (thread[t] # "idle") ~> (thread[t] = "idle")

(* listen() keeps its thread blocked while the server runs and lets it go   *)
(* once a stop() has come to its end.                                       *)
ListenReturns ==
  \A t \in Listeners :
    (thread[t] = "waitSleep" /\ ~started) ~> (thread[t] # "waitSleep" \/ started)
=============================================================================
