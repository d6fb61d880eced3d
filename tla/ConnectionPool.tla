--------------------------- MODULE ConnectionPool ---------------------------
(***************************************************************************)
(* The per-origin connection pool of AsyncClient (src/src/client.cpp): how *)
(* a request queues for one of max_connections_per_origin slots, checks a  *)
(* connection out, uses it, retries, follows redirects, hands the slot on, *)
(* and how stop tokens, the legacy cancellation flag, deadlines and        *)
(* AsyncClient::cancel interfere from other threads.                       *)
(*                                                                         *)
(* Everything that touches the pool runs on the client's one libuv loop    *)
(* thread.  "loop" is the request whose coroutine is running there, NoReq  *)
(* between two callbacks; a request keeps the loop until it suspends.      *)
(* Cancelling threads interleave with the loop at every step.              *)
(***************************************************************************)
EXTENDS Naturals, Sequences, FiniteSets

CONSTANTS
  Requests,       \* calls of AsyncClient::request
  Origins,        \* pool keys: origin "|" proxy url
  Conns,          \* identities of detail::Connection objects, recycled
  NoReq, NoConn, NoOrigin,
  All,            \* the thread that calls AsyncClient::cancel
  MaxConnections, \* ClientOptions::max_connections_per_origin, 0 = unlimited
  PoolSize,       \* ClientOptions::connection_pool_size
  MaxRedirects,   \* ClientOptions::max_redirects
  SecureOrigins,  \* origins that need a tunnel or a TLS handshake
  Challenged,     \* requests met with a digest challenge the client can answer
  Redirected,     \* requests a server may answer with a redirect
  Idempotent,     \* requests idempotent_method() holds of, without body_stream
  WithStopToken,  \* requests somebody may stop through their stop_token
  WithFlag,       \* requests given the legacy shared cancellation flag
  WithDeadline,   \* requests with a deadline
  MaxCancelAll    \* bound: calls of AsyncClient::cancel

ASSUME PoolAssumption ==
  /\ IsFiniteSet(Requests) /\ IsFiniteSet(Conns) /\ All \notin Requests
  /\ NoReq \notin Requests /\ NoConn \notin Conns /\ NoOrigin \notin Origins
  /\ MaxConnections \in Nat /\ PoolSize \in Nat /\ MaxRedirects \in Nat
  /\ MaxCancelAll \in Nat /\ Challenged \subseteq Requests /\ Redirected \subseteq Requests
  /\ SecureOrigins \subseteq Origins
  /\ Idempotent \subseteq Requests /\ WithStopToken \subseteq Requests
  /\ WithFlag \subseteq Requests /\ WithDeadline \subseteq Requests

VARIABLES
  pc,         \* where each request's coroutine stands
  loop,       \* the request running on the loop thread
  origin,     \* the pool key the request currently wants
  conn,       \* Lease::connection, or the connection being connected
  reused,     \* Lease::reused
  attempt,    \* exchange()'s loop counter
  redirects, digest, \* exchange()'s parameters
  result,     \* how the request ended
  notifiedOrigin, \* RequestControl::notified_origin
  cancelled, bound, wakeup, \* RequestControl::cancelled_, connection_, wakeup_
  flag, expired,  \* the legacy flag is set; the deadline has passed
  notified, slotNotified, \* PoolWaiter::notified, slot_notified
  posted,     \* waiters with a posted call of PoolWaiter::notify
  pool, count, waiters,   \* Impl::pool, connection_counts, pool_waiters
  active,     \* Impl::active
  link,       \* state of each Connection
  stopper,    \* the threads inside RequestControl::cancel
  closing,    \* connections AsyncClient::cancel still has to close
  controls,   \* requests AsyncClient::cancel still has to cancel
  cancelAlls, \* calls of AsyncClient::cancel so far
  overlap     \* history: requests alive while AsyncClient::cancel ran

reqVars  == <<origin, reused, attempt, redirects, digest>>
ctlVars  == <<cancelled, flag, expired>>
waitVars == <<notified, slotNotified, waiters>>
poolVars == <<pool, count, active>>
userVars == <<flag, expired, closing, controls, cancelAlls, overlap>>
vars == <<pc, loop, origin, conn, reused, attempt, redirects, digest, result,
          notifiedOrigin, cancelled, bound, wakeup, flag, expired, notified,
          slotNotified, posted, pool, count, waiters, active, link, stopper,
          closing, controls, cancelAlls, overlap>>

(* Positions of a request's coroutine.  It is suspended in resume_on when   *)
(* posted*, in a PoolAwaiter when wait*, in the transport when connecting,  *)
(* handshake or io; it holds the loop in the others from admit on.          *)
Waiting   == {"waitAdmit", "waitAcquire"}
Running   == {"admit", "parkAdmit", "acquire", "take", "parkAcquire",
              "connected", "leased", "finish", "exit"}
Holding   == {"connecting", "connected", "handshake", "leased", "io", "finish"}
Positions == Waiting \cup Running \cup Holding \cup
             {"new", "precheck", "postedAdmit", "postedAcquire", "exitOff", "done"}
Results   == {"none", "ok", "cancelled", "timeout", "failed", "aborted"}
Links     == {"connecting", "open", "closed"}
Phases    == {"idle", "marked", "closing", "waking", "ended"}
Agents    == Requests \cup {All}
Idle      == [phase |-> "idle", req |-> NoReq, conn |-> NoConn, wake |-> FALSE]

RequestTypes ==
  /\ pc \in [Requests -> Positions] /\ loop \in Requests \cup {NoReq}
  /\ origin \in [Requests -> Origins]
  /\ conn \in [Requests -> Conns \cup {NoConn}]
  /\ reused \in [Requests -> BOOLEAN] /\ attempt \in [Requests -> {0, 1}]
  /\ redirects \in [Requests -> 0..MaxRedirects]
  /\ digest \in [Requests -> BOOLEAN] /\ result \in [Requests -> Results]
ControlTypes ==
  /\ notifiedOrigin \in [Requests -> Origins \cup {NoOrigin}]
  /\ cancelled \in [Requests -> BOOLEAN] /\ wakeup \in [Requests -> BOOLEAN]
  /\ bound \in [Requests -> Conns \cup {NoConn}]
  /\ flag \in [Requests -> BOOLEAN] /\ expired \in [Requests -> BOOLEAN]
WaiterTypes ==
  /\ notified \in [Requests -> BOOLEAN] /\ slotNotified \in [Requests -> BOOLEAN]
  /\ posted \subseteq Requests /\ waiters \in [Origins -> Seq(Requests)]
PoolTypes ==
  /\ pool \in [Origins -> Seq(Conns)] /\ count \in [Origins -> Nat]
  /\ active \subseteq Conns /\ link \in [Conns -> Links]
StopTypes ==
  /\ stopper \in [Agents -> [phase : Phases, req : Requests \cup {NoReq},
                             conn : Conns \cup {NoConn}, wake : BOOLEAN]]
  /\ closing \subseteq Conns /\ controls \subseteq Requests
  /\ cancelAlls \in 0..MaxCancelAll /\ overlap \subseteq Requests

(* Every variable holds what the member it models can hold: in particular   *)
(* no retry beyond the second attempt, no redirect beyond the limit, no     *)
(* slot count below zero (size_t) and only real connections in the pool.    *)
TypeOK == RequestTypes /\ ControlTypes /\ WaiterTypes /\ PoolTypes /\ StopTypes

Init ==
  /\ pc = [r \in Requests |-> "new"] /\ loop = NoReq
  /\ origin \in [Requests -> Origins]
  /\ conn = [r \in Requests |-> NoConn]
  /\ reused = [r \in Requests |-> FALSE]
  /\ attempt = [r \in Requests |-> 0]
  /\ redirects = [r \in Requests |-> 0]
  /\ digest = [r \in Requests |-> FALSE]
  /\ result = [r \in Requests |-> "none"]
  /\ notifiedOrigin = [r \in Requests |-> NoOrigin]
  /\ cancelled = [r \in Requests |-> FALSE]
  /\ bound = [r \in Requests |-> NoConn]
  /\ wakeup = [r \in Requests |-> FALSE]
  /\ flag = [r \in Requests |-> FALSE]
  /\ expired = [r \in Requests |-> FALSE]
  /\ notified = [r \in Requests |-> FALSE]
  /\ slotNotified = [r \in Requests |-> FALSE]
  /\ posted = {}
  /\ pool = [o \in Origins |-> <<>>]
  /\ count = [o \in Origins |-> 0]
  /\ waiters = [o \in Origins |-> <<>>]
  /\ active = {}
  /\ link = [c \in Conns |-> "closed"]
  /\ stopper = [a \in Agents |-> Idle]
  /\ closing = {} /\ controls = {} /\ cancelAlls = 0 /\ overlap = {}

-----------------------------------------------------------------------------
(* Shared pieces of the handlers.                                           *)

(* The cancelled() lambda: the control's flag or the legacy one.            *)
Stopped(r) == cancelled[r] \/ flag[r]

(* cancelled() calls control->cancel() when it finds the legacy flag set;   *)
(* the connection that would close is the one its callers discard.          *)
SeenStop(r) == cancelled' = [cancelled EXCEPT ![r] = Stopped(r)]

(* request()'s test for a saturated origin.                                 *)
Full(o) == MaxConnections # 0 /\ count[o] >= MaxConnections /\ pool[o] = <<>>

(* Requests registered in the controls list: link() until ~Registration.    *)
Live == {r \in Requests : pc[r] \notin {"new", "done"}}

(* A Connection object nothing refers to any more.                          *)
Unreferenced(c) ==
  /\ \A r \in Requests : conn[r] # c /\ bound[r] # c
  /\ \A o \in Origins : \A i \in DOMAIN pool[o] : pool[o][i] # c
  /\ \A a \in Agents : stopper[a].conn # c
  /\ c \notin active \cup closing

(* Mutant: looks at the head of the queue only, not past notified waiters.  *)
WakeFront(o) ==
  LET q == waiters[o]
      wake == q # <<>> /\ ~notified[Head(q)]
  IN  /\ waiters' = [waiters EXCEPT ![o] = IF q = <<>> THEN q ELSE Tail(q)]
      /\ notified' = IF wake THEN [notified EXCEPT ![Head(q)] = TRUE] ELSE notified
      /\ slotNotified' = IF wake THEN [slotNotified EXCEPT ![Head(q)] = TRUE]
                         ELSE slotNotified

(* wake_pool_waiter: drop waiters that are already notified and notify the  *)
(* first one that is not.                                                   *)
WakeWaiter(o) ==
  LET q == waiters[o]
  IN  \/ \E k \in DOMAIN q :
           /\ ~notified[q[k]] /\ \A j \in 1..(k - 1) : notified[q[j]]
           /\ waiters' = [waiters EXCEPT ![o] = SubSeq(q, k + 1, Len(q))]
           /\ notified' = [notified EXCEPT ![q[k]] = TRUE]
           /\ slotNotified' = [slotNotified EXCEPT ![q[k]] = TRUE]
      \/ /\ \A k \in DOMAIN q : notified[q[k]]
         /\ waiters' = [waiters EXCEPT ![o] = <<>>]
         /\ UNCHANGED <<notified, slotNotified>>

(* release_slot: give the slot back, then wake a waiter.                    *)
ReleaseSlot(o) ==
  /\ count' = [count EXCEPT ![o] = IF @ # 0 THEN @ - 1 ELSE @]
  /\ pool' = IF count'[o] = 0 /\ count[o] # 0
             THEN [pool EXCEPT ![o] = <<>>] ELSE pool
  /\ WakeWaiter(o)

(* Mutant: closes the connection and forgets to release its slot.           *)
DiscardKeepsSlot(r) ==
  /\ bound' = [bound EXCEPT ![r] = NoConn]
  /\ active' = active \ {conn[r]}
  /\ link' = [link EXCEPT ![conn[r]] = "closed"]
  /\ conn' = [conn EXCEPT ![r] = NoConn]
  /\ WakeWaiter(origin[r]) /\ UNCHANGED <<pool, count>>

(* unbind, discard: leave active, close, release the slot.                  *)
Discard(r) ==
  /\ bound' = [bound EXCEPT ![r] = NoConn]
  /\ active' = active \ {conn[r]}
  /\ link' = [link EXCEPT ![conn[r]] = "closed"]
  /\ conn' = [conn EXCEPT ![r] = NoConn]
  /\ ReleaseSlot(origin[r])

(* co_return out of the coroutine; the frame is torn down by Leave.         *)
Return(r, res) ==
  /\ pc' = [pc EXCEPT ![r] = "exit"] /\ loop' = r
  /\ result' = [result EXCEPT ![r] = res]

(* The coroutine keeps running on the loop at position p.                   *)
Continue(r, p) ==
  /\ pc' = [pc EXCEPT ![r] = p] /\ loop' = r
  /\ UNCHANGED result

(* The coroutine suspends at position p and the loop is free.               *)
Suspend(r, p) ==
  /\ pc' = [pc EXCEPT ![r] = p] /\ loop' = NoReq
  /\ UNCHANGED result

-----------------------------------------------------------------------------
(* request(): registration and admission.                                   *)

Start(r) ==
  /\ pc[r] = "new"
  /\ pc' = [pc EXCEPT ![r] = "precheck"]
  /\ overlap' = IF controls = {} /\ closing = {} /\ stopper[All].phase = "idle"
                THEN overlap ELSE overlap \cup {r}
  /\ UNCHANGED <<loop, reqVars, conn, result, notifiedOrigin, cancelled, bound,
                 wakeup, flag, expired, waitVars, posted, poolVars, link,
                 stopper, closing, controls, cancelAlls>>

(* The checks on the caller's thread, before the coroutine is on the loop.  *)
Precheck(r) ==
  /\ pc[r] = "precheck"
  /\ SeenStop(r)
  /\ LET quit == Stopped(r) \/ expired[r]
     IN  /\ pc' = [pc EXCEPT ![r] = IF quit THEN "exitOff"
                                    ELSE IF Full(origin[r]) THEN "postedAdmit"
                                    ELSE "postedAcquire"]
         /\ result' = [result EXCEPT ![r] = IF Stopped(r) THEN "cancelled"
                                            ELSE IF quit THEN "timeout" ELSE @]
  /\ UNCHANGED <<loop, reqVars, conn, notifiedOrigin, bound, wakeup, waitVars,
                 posted, poolVars, link, stopper, userVars>>

(* The loop drains its queue and resumes the coroutine (resume_on).         *)
Resume(r) ==
  /\ loop = NoReq
  /\ \/ pc[r] = "postedAdmit" /\ Continue(r, "admit")
     \/ pc[r] = "postedAcquire" /\ Continue(r, "acquire")
  /\ UNCHANGED <<reqVars, conn, notifiedOrigin, cancelled, bound, wakeup,
                 waitVars, posted, poolVars, link, stopper, userVars>>

(* One turn of the admission loop in request().                             *)
Admit(r) ==
  /\ loop = r /\ pc[r] = "admit"
  /\ \/ ~Full(origin[r]) /\ Continue(r, "acquire") /\ UNCHANGED cancelled
     \/ /\ Full(origin[r]) /\ SeenStop(r)
        /\ \/ Stopped(r) /\ Return(r, "cancelled")
           \/ ~Stopped(r) /\ expired[r] /\ Return(r, "timeout")
           \/ ~Stopped(r) /\ ~expired[r] /\ Continue(r, "parkAdmit")
  /\ UNCHANGED <<reqVars, conn, notifiedOrigin, bound, wakeup, waitVars,
                 posted, poolVars, link, stopper, userVars>>

(* Mutant: installs the wakeup without looking at cancelled_ again.         *)
SetWakeupOnly(r) ==
  /\ wakeup' = [wakeup EXCEPT ![r] = TRUE]
  /\ notified' = [notified EXCEPT ![r] = FALSE]

(* RequestControl::set_wakeup by a waiter: the wakeup runs at once, on the  *)
(* loop, when the request is already cancelled.                             *)
SetWakeup(r) ==
  /\ wakeup' = [wakeup EXCEPT ![r] = TRUE]
  /\ notified' = [notified EXCEPT ![r] = cancelled[r]]

(* PoolAwaiter::await_suspend: queue a waiter and install the wakeup.       *)
Park(r) ==
  /\ loop = r
  /\ \/ pc[r] = "parkAdmit" /\ Suspend(r, "waitAdmit")
     \/ pc[r] = "parkAcquire" /\ Suspend(r, "waitAcquire")
  /\ waiters' = [waiters EXCEPT ![origin[r]] = Append(@, r)]
  /\ notifiedOrigin' = [notifiedOrigin EXCEPT ![r] = NoOrigin]
  /\ SetWakeup(r)
  /\ slotNotified' = [slotNotified EXCEPT ![r] = FALSE]
  /\ UNCHANGED <<reqVars, conn, cancelled, bound, posted, poolVars, link,
                 stopper, userVars>>

(* The posted wakeup of a cancelling thread reaches the loop.               *)
Notify(r) ==
  /\ loop = NoReq /\ r \in posted
  /\ posted' = posted \ {r}
  /\ notified' = [notified EXCEPT ![r] = TRUE]
  /\ UNCHANGED <<pc, loop, reqVars, conn, result, notifiedOrigin, cancelled,
                 bound, wakeup, slotNotified, waiters, poolVars, link, stopper,
                 userVars>>

(* await_resume leaves the queue if wake_pool_waiter has not taken it off.  *)
Unqueued(q, r) ==
  IF \E k \in DOMAIN q : q[k] = r
  THEN LET k == CHOOSE k \in DOMAIN q : q[k] = r
       IN  SubSeq(q, 1, k - 1) \o SubSeq(q, k + 1, Len(q))
  ELSE q

(* Mutant: notify() leaves the waiter's timer as it was.                    *)
DueUnrestarted(r) == r \in WithFlag \/ expired[r]

(* The timer runs out after notify, at the deadline, or every millisecond   *)
(* when there is a legacy flag to poll.                                     *)
TimerDue(r) == notified[r] \/ r \in WithFlag \/ expired[r]

(* PoolWaiter::ready and await_resume.                                      *)
(* The waiter dies here, and with it what weak_ptrs to it could still do.   *)
Ready(r) ==
  /\ loop = NoReq /\ pc[r] \in Waiting
  /\ TimerDue(r)
  /\ Continue(r, IF pc[r] = "waitAdmit" THEN "admit" ELSE "acquire")
  /\ wakeup' = [wakeup EXCEPT ![r] = FALSE]
  /\ waiters' = [waiters EXCEPT ![origin[r]] = Unqueued(@, r)]
  /\ notifiedOrigin' = [notifiedOrigin EXCEPT ![r] =
                          IF slotNotified[r] THEN origin[r] ELSE @]
  /\ notified' = [notified EXCEPT ![r] = FALSE]
  /\ slotNotified' = [slotNotified EXCEPT ![r] = FALSE]
  /\ posted' = posted \ {r}
  /\ stopper' = [a \in Agents |-> IF stopper[a].req = r
                                  THEN [stopper[a] EXCEPT !.wake = FALSE]
                                  ELSE stopper[a]]
  /\ UNCHANGED <<reqVars, conn, cancelled, bound, poolVars, link, userVars>>

-----------------------------------------------------------------------------
(* acquire(): an idle connection, a new one, or the queue.                  *)

Acquire(r) ==
  /\ loop = r /\ pc[r] = "acquire"
  /\ SeenStop(r)
  /\ \/ Stopped(r) /\ Return(r, "cancelled")
     \/ ~Stopped(r) /\ expired[r] /\ Return(r, "timeout")
     \/ ~Stopped(r) /\ ~expired[r] /\ Continue(r, "take")
  /\ UNCHANGED <<reqVars, conn, notifiedOrigin, bound, wakeup, waitVars,
                 posted, poolVars, link, stopper, userVars>>

(* Mutant: binds without looking at cancelled_ again.                       *)
BindOnly(r, c, state) ==
  /\ bound' = [bound EXCEPT ![r] = c]
  /\ link' = [link EXCEPT ![c] = state]

(* RequestControl::bind: a cancelled request's connection closes at once.   *)
Bind(r, c, state) ==
  /\ bound' = [bound EXCEPT ![r] = c]
  /\ link' = [link EXCEPT ![c] = IF cancelled[r] THEN "closed" ELSE state]

(* Mutant: reads entries.back() and leaves it in the pool.                  *)
Peeked(q, k) == SubSeq(q, 1, k)

(* What is left of an idle list when the entries from k on are popped.      *)
Popped(q, k) == SubSeq(q, 1, k - 1)

(* The most recently pooled connection that is open is checked out; those   *)
(* above it in the pool had been closed and give their slots back.          *)
TakeIdle(r) ==
  LET o == origin[r]
  IN  /\ loop = r /\ pc[r] = "take"
      /\ \E k \in DOMAIN pool[o] :
           /\ link[pool[o][k]] = "open"
           /\ \A j \in (k + 1)..Len(pool[o]) : link[pool[o][j]] # "open"
           /\ conn' = [conn EXCEPT ![r] = pool[o][k]]
           /\ pool' = [pool EXCEPT ![o] = Popped(@, k)]
           /\ count' = [count EXCEPT ![o] = @ - (Len(pool[o]) - k)]
           /\ active' = active \cup {pool[o][k]}
           /\ Bind(r, pool[o][k], "open")
      /\ Continue(r, "leased")
      /\ reused' = [reused EXCEPT ![r] = TRUE]
      /\ notifiedOrigin' = [notifiedOrigin EXCEPT ![r] = NoOrigin]
      /\ UNCHANGED <<origin, attempt, redirects, digest, cancelled, wakeup,
                     waitVars, posted, stopper, userVars>>

(* Mutant: off by one at the limit.                                         *)
SlotFreeOffByOne(n) == MaxConnections = 0 \/ n <= MaxConnections

(* acquire() may reserve another slot beside the n counted ones.            *)
SlotFree(n) == MaxConnections = 0 \/ n < MaxConnections

(* No idle connection is open: reserve a slot and connect, or wait.         *)
TakeSlot(r) ==
  LET o == origin[r]
      left == count[o] - Len(pool[o])
  IN  /\ loop = r /\ pc[r] = "take"
      /\ \A k \in DOMAIN pool[o] : link[pool[o][k]] # "open"
      /\ pool' = [pool EXCEPT ![o] = <<>>]
      /\ \/ /\ SlotFree(left)
            /\ count' = [count EXCEPT ![o] = left + 1]
            /\ notifiedOrigin' = [notifiedOrigin EXCEPT ![r] = NoOrigin]
            /\ \E c \in Conns :
                 /\ Unreferenced(c)
                 /\ conn' = [conn EXCEPT ![r] = c]
                 /\ Bind(r, c, "connecting")
            /\ Suspend(r, "connecting")
         \/ /\ ~SlotFree(left)
            /\ count' = [count EXCEPT ![o] = left]
            /\ Continue(r, "parkAcquire")
            /\ UNCHANGED <<notifiedOrigin, conn, bound, link>>
      /\ UNCHANGED <<reqVars, cancelled, wakeup, waitVars, posted, active,
                     stopper, userVars>>

(* The transport connected; the coroutine is resumed from finish_connect.   *)
ConnectOk(r) ==
  /\ loop = NoReq /\ pc[r] = "connecting" /\ link[conn[r]] = "connecting"
  /\ link' = [link EXCEPT ![conn[r]] = "open"]
  /\ Continue(r, "connected")
  /\ UNCHANGED <<reqVars, conn, notifiedOrigin, cancelled, bound, wakeup,
                 waitVars, posted, poolVars, stopper, userVars>>

(* Connecting, the proxy tunnel or the TLS handshake failed, or the         *)
(* connection was closed under them: fail, fail_connection.                 *)
ConnectFail(r) ==
  /\ loop = NoReq /\ pc[r] \in {"connecting", "handshake"}
  /\ Discard(r)
  /\ Return(r, IF cancelled[r] THEN "cancelled"
               ELSE IF link[conn[r]] = "closed" THEN "aborted" ELSE "failed")
  /\ UNCHANGED <<reqVars, notifiedOrigin, cancelled, wakeup, posted, stopper,
                 userVars>>

(* acquire() after connecting: cancelled, on to the handshake, or leased.   *)
Connected(r) ==
  /\ loop = r /\ pc[r] = "connected"
  /\ SeenStop(r)
  /\ \/ Stopped(r) /\ Discard(r) /\ Return(r, "cancelled") /\ UNCHANGED reused
     \/ /\ ~Stopped(r)
        /\ \/ origin[r] \in SecureOrigins /\ Suspend(r, "handshake")
              /\ UNCHANGED <<active, reused>>
           \/ /\ origin[r] \notin SecureOrigins /\ Continue(r, "leased")
              /\ active' = active \cup {conn[r]}
              /\ reused' = [reused EXCEPT ![r] = FALSE]
        /\ UNCHANGED <<conn, bound, link, pool, count, waitVars>>
  /\ UNCHANGED <<origin, attempt, redirects, digest, notifiedOrigin, wakeup,
                 posted, stopper, userVars>>

HandshakeOk(r) ==
  /\ loop = NoReq /\ pc[r] = "handshake"
  /\ Continue(r, "leased")
  /\ active' = active \cup {conn[r]}
  /\ reused' = [reused EXCEPT ![r] = FALSE]
  /\ UNCHANGED <<origin, conn, attempt, redirects, digest, notifiedOrigin,
                 cancelled, bound, wakeup, waitVars, posted, pool, count, link,
                 stopper, userVars>>

-----------------------------------------------------------------------------
(* exchange(): one attempt over a leased connection.                        *)

Leased(r) ==
  /\ loop = r /\ pc[r] = "leased"
  /\ SeenStop(r)
  /\ \/ Stopped(r) /\ Discard(r) /\ Return(r, "cancelled")
     \/ ~Stopped(r) /\ expired[r] /\ Discard(r) /\ Return(r, "timeout")
     \/ /\ ~Stopped(r) /\ ~expired[r] /\ Suspend(r, "io")
        /\ UNCHANGED <<conn, bound, active, link, pool, count, waitVars>>
  /\ UNCHANGED <<reqVars, notifiedOrigin, wakeup, posted, stopper, userVars>>

(* write_request or read_response failed.  started: a response head arrived *)
(* before the failure, so the request is not sent again.                    *)
IoFail(r) ==
  /\ loop = NoReq /\ pc[r] = "io"
  /\ SeenStop(r)
  /\ Discard(r)
  /\ \E started \in BOOLEAN :
       LET retry == ~started /\ reused[r] /\ attempt[r] = 0 /\ r \in Idempotent
       IN  \/ Stopped(r) /\ Return(r, "cancelled") /\ UNCHANGED attempt
           \/ /\ ~Stopped(r) /\ retry /\ Continue(r, "acquire")
              /\ attempt' = [attempt EXCEPT ![r] = 1]
           \/ /\ ~Stopped(r) /\ ~retry /\ UNCHANGED attempt
              /\ Return(r, IF link[conn[r]] = "closed" THEN "aborted" ELSE "failed")
  /\ UNCHANGED <<origin, reused, redirects, digest, notifiedOrigin, wakeup,
                 posted, stopper, userVars>>

(* The response is complete.  It may still be, a moment after another       *)
(* thread called close(): open_ is already false but the posted             *)
(* close_on_loop has not run.                                               *)
IoOk(r) ==
  /\ loop = NoReq /\ pc[r] = "io"
  /\ SeenStop(r)
  /\ \/ Stopped(r) /\ Discard(r) /\ Return(r, "cancelled")
     \/ /\ ~Stopped(r) /\ Continue(r, "finish")
        /\ UNCHANGED <<conn, bound, active, link, pool, count, waitVars>>
  /\ UNCHANGED <<reqVars, notifiedOrigin, wakeup, posted, stopper, userVars>>

(* release(): pool the connection when it is reusable, open and the pool    *)
(* has room, and wake a waiter; otherwise close it and release the slot.    *)
Release(r) ==
  LET o == origin[r]  c == conn[r]
  IN  /\ bound' = [bound EXCEPT ![r] = NoConn]
      /\ conn' = [conn EXCEPT ![r] = NoConn]
      /\ active' = active \ {c}
      /\ \E reusable \in BOOLEAN :
           IF reusable /\ link[c] = "open" /\ Len(pool[o]) < PoolSize
           THEN /\ pool' = [pool EXCEPT ![o] = Append(@, c)]
                /\ WakeWaiter(o) /\ UNCHANGED <<count, link>>
           ELSE /\ link' = [link EXCEPT ![c] = "closed"]
                /\ ReleaseSlot(o)

(* Mutant: off by one at max_redirects.                                     *)
MayRedirectOffByOne(r) == redirects[r] <= MaxRedirects

(* exchange() follows another redirect.                                     *)
MayRedirect(r) == redirects[r] < MaxRedirects

(* What follows a released lease: the answer, a digest challenge answered   *)
(* once, or a redirect, each a new exchange() that starts over in acquire.  *)
Finish(r) ==
  /\ loop = r /\ pc[r] = "finish"
  /\ Release(r)
  /\ \/ Return(r, "ok") /\ UNCHANGED <<origin, attempt, redirects, digest>>
     \/ /\ r \in Challenged /\ ~digest[r] /\ Continue(r, "acquire")
        /\ digest' = [digest EXCEPT ![r] = TRUE]
        /\ attempt' = [attempt EXCEPT ![r] = 0]
        /\ UNCHANGED <<origin, redirects>>
     \/ /\ r \in Redirected /\ ~MayRedirect(r) /\ Return(r, "failed")
        /\ UNCHANGED <<origin, attempt, redirects, digest>>
     \/ /\ r \in Redirected /\ MayRedirect(r) /\ Continue(r, "acquire")
        /\ redirects' = [redirects EXCEPT ![r] = @ + 1]
        /\ digest' = [digest EXCEPT ![r] = FALSE]
        /\ attempt' = [attempt EXCEPT ![r] = 0]
        /\ \E o \in Origins : origin' = [origin EXCEPT ![r] = o]
  /\ UNCHANGED <<reused, notifiedOrigin, cancelled, wakeup, posted, stopper,
                 userVars>>

(* Mutant: the frame goes while the callback still runs.                    *)
CallbackDetached(r) == stopper[r].phase \in Phases

(* ~stop_callback waits for a callback running on another thread.           *)
CallbackOver(r) == stopper[r].phase \in {"idle", "ended"}

(* ~Registration hands an unused slot notification on.                      *)
HandOn(r) == IF notifiedOrigin[r] # NoOrigin
             THEN WakeWaiter(notifiedOrigin[r]) ELSE UNCHANGED waitVars

(* The frame of request() is torn down: ~stop_callback, then ~Registration  *)
(* unlinks the control.                                                     *)
Leave(r) ==
  /\ pc[r] = "exitOff" \/ (pc[r] = "exit" /\ loop = r)
  /\ CallbackOver(r)
  /\ HandOn(r)
  /\ notifiedOrigin' = [notifiedOrigin EXCEPT ![r] = NoOrigin]
  /\ pc' = [pc EXCEPT ![r] = "done"]
  /\ loop' = IF pc[r] = "exit" THEN NoReq ELSE loop
  /\ reused' = [reused EXCEPT ![r] = FALSE]
  /\ attempt' = [attempt EXCEPT ![r] = 0]
  /\ redirects' = [redirects EXCEPT ![r] = 0]
  /\ digest' = [digest EXCEPT ![r] = FALSE]
  /\ UNCHANGED <<origin, conn, result, cancelled, bound, wakeup, posted,
                 poolVars, link, stopper, userVars>>

-----------------------------------------------------------------------------
(* The outside world: the legacy flag, deadlines, cancelling threads.       *)

SetFlag(r) ==
  /\ r \in WithFlag /\ ~flag[r] /\ pc[r] # "done"
  /\ flag' = [flag EXCEPT ![r] = TRUE]
  /\ UNCHANGED <<pc, loop, reqVars, conn, result, notifiedOrigin, cancelled,
                 bound, wakeup, expired, waitVars, posted, poolVars, link,
                 stopper, closing, controls, cancelAlls, overlap>>

Expire(r) ==
  /\ r \in WithDeadline /\ ~expired[r] /\ pc[r] # "done"
  /\ expired' = [expired EXCEPT ![r] = TRUE]
  /\ UNCHANGED <<pc, loop, reqVars, conn, result, notifiedOrigin, cancelled,
                 bound, wakeup, flag, waitVars, posted, poolVars, link,
                 stopper, closing, controls, cancelAlls, overlap>>

(* RequestControl::cancel, step by step: set cancelled_; under the mutex    *)
(* copy the connection and the wakeup; close the one; call the other.       *)
StopUnchanged == <<pc, loop, reqVars, conn, result, notifiedOrigin, bound,
                   wakeup, waitVars, poolVars, flag, expired, cancelAlls, overlap>>

(* A stop_token's callback runs once, on the thread that requests the stop. *)
StopMark(r) ==
  /\ r \in WithStopToken /\ r \in Live /\ stopper[r].phase = "idle"
  /\ cancelled' = [cancelled EXCEPT ![r] = TRUE]
  /\ stopper' = [stopper EXCEPT ![r] = [Idle EXCEPT !.phase = "marked", !.req = r]]
  /\ UNCHANGED <<StopUnchanged, posted, link, closing, controls>>

(* AsyncClient::cancel turns to the next of the controls it has pinned.     *)
AllMark(r) ==
  /\ r \in controls /\ stopper[All].phase = "idle"
  /\ controls' = controls \ {r}
  /\ cancelled' = [cancelled EXCEPT ![r] = TRUE]
  /\ stopper' = [stopper EXCEPT ![All] = [Idle EXCEPT !.phase = "marked", !.req = r]]
  /\ UNCHANGED <<StopUnchanged, posted, link, closing>>

StopSnapshot(a) ==
  /\ stopper[a].phase = "marked"
  /\ stopper' = [stopper EXCEPT ![a].phase = "closing",
                                ![a].conn = bound[stopper[a].req],
                                ![a].wake = wakeup[stopper[a].req]]
  /\ UNCHANGED <<StopUnchanged, cancelled, posted, link, closing, controls>>

StopClose(a) ==
  /\ stopper[a].phase = "closing"
  /\ stopper' = [stopper EXCEPT ![a].phase = "waking", ![a].conn = NoConn]
  /\ link' = IF stopper[a].conn = NoConn THEN link
             ELSE [link EXCEPT ![stopper[a].conn] = "closed"]
  /\ UNCHANGED <<StopUnchanged, cancelled, posted, closing, controls>>

StopWake(a) ==
  /\ stopper[a].phase = "waking"
  /\ posted' = IF stopper[a].wake THEN posted \cup {stopper[a].req} ELSE posted
  /\ stopper' = [stopper EXCEPT ![a] =
                   IF a = All THEN Idle ELSE [Idle EXCEPT !.phase = "ended"]]
  /\ UNCHANGED <<StopUnchanged, cancelled, link, closing, controls>>

(* AsyncClient::cancel copies the live controls and active connections      *)
(* under the mutex, cancels the controls, then closes the connections.      *)
CancelAll ==
  /\ cancelAlls < MaxCancelAll /\ controls = {} /\ closing = {}
  /\ stopper[All].phase = "idle"
  /\ cancelAlls' = cancelAlls + 1
  /\ controls' = Live /\ closing' = active /\ overlap' = overlap \cup Live
  /\ UNCHANGED <<pc, loop, reqVars, conn, result, notifiedOrigin, cancelled,
                 bound, wakeup, flag, expired, waitVars, posted, poolVars,
                 link, stopper>>

CloseActive(c) ==
  /\ c \in closing /\ controls = {} /\ stopper[All].phase = "idle"
  /\ closing' = closing \ {c}
  /\ link' = [link EXCEPT ![c] = "closed"]
  /\ UNCHANGED <<StopUnchanged, cancelled, posted, stopper, controls>>

(* Every request is over and no thread is cancelling.                       *)
Quiescent ==
  /\ \A r \in Requests : pc[r] = "done" /\ stopper[r].phase \in {"idle", "ended"}
  /\ controls = {} /\ closing = {} /\ stopper[All].phase = "idle" /\ posted = {}
  /\ UNCHANGED vars

-----------------------------------------------------------------------------
(* Steps the loop takes by itself; the transport's answers; the threads     *)
(* that cancel; what users decide.                                          *)
LoopStep(r) == \/ Precheck(r) \/ Resume(r) \/ Admit(r) \/ Park(r) \/ Notify(r)
               \/ Ready(r) \/ Acquire(r) \/ TakeIdle(r) \/ TakeSlot(r)
               \/ Connected(r) \/ Leased(r) \/ Finish(r) \/ Leave(r)
IoStep(r)   == \/ ConnectOk(r) \/ ConnectFail(r) \/ HandshakeOk(r)
               \/ IoFail(r) \/ IoOk(r)
StopStep(a) == StopSnapshot(a) \/ StopClose(a) \/ StopWake(a)
UserStep(r) == Start(r) \/ SetFlag(r) \/ Expire(r) \/ StopMark(r)

Next == \/ \E r \in Requests : LoopStep(r) \/ IoStep(r) \/ UserStep(r) \/ AllMark(r)
        \/ \E a \in Agents : StopStep(a)
        \/ \E c \in Conns : CloseActive(c)
        \/ CancelAll \/ Quiescent

Spec == Init /\ [][Next]_vars

(* libuv keeps serving timers, posted callbacks and closed handles, and the *)
(* operating system runs every thread; nothing is assumed of peers.         *)
ClosedFails(r) == /\ pc[r] \in {"connecting", "handshake", "io"}
                  /\ link[conn[r]] = "closed"
                  /\ ConnectFail(r) \/ IoFail(r)
LoopFairness == /\ \A r \in Requests : /\ WF_vars(LoopStep(r))
                                       /\ WF_vars(ClosedFails(r))
                                       /\ WF_vars(AllMark(r))
                /\ \A a \in Agents : WF_vars(StopStep(a))
                /\ \A c \in Conns : WF_vars(CloseActive(c))
LoopSpec == Spec /\ LoopFairness

(* What connect, write and read timeouts give: no operation of the          *)
(* transport stays under way for ever.                                      *)
TransportEnds == \A r \in Requests : WF_vars(IoStep(r))

-----------------------------------------------------------------------------
(* Properties.                                                              *)

Holders(o) == {r \in Requests : origin[r] = o /\ pc[r] \in Holding}

(* Every slot counted in connection_counts belongs to one idle connection   *)
(* or to one request between acquire() and release()/discard(): no path     *)
(* (failed connect, stale idle entry, retry, redirect, cancellation) leaks  *)
(* a slot or frees it twice.                                                *)
SlotAccounting ==
  \A o \in Origins : count[o] = Len(pool[o]) + Cardinality(Holders(o))

(* An origin never has more connections, idle and leased, than              *)
(* max_connections_per_origin, nor more idle ones than connection_pool_size.*)
WithinLimits ==
  \A o \in Origins :
    /\ MaxConnections # 0 =>
         Len(pool[o]) + Cardinality(Holders(o)) <= MaxConnections
    /\ Len(pool[o]) <= PoolSize

(* Exclusive checkout: a connection is leased to at most one request, is    *)
(* not idle in the pool meanwhile, and is pooled at most once.              *)
ExclusiveLease ==
  /\ \A r, s \in Requests : r # s /\ conn[r] # NoConn => conn[r] # conn[s]
  /\ \A o \in Origins : \A i \in DOMAIN pool[o] :
       /\ \A r \in Requests : conn[r] # pool[o][i]
       /\ \A p \in Origins : \A j \in DOMAIN pool[p] :
            pool[o][i] = pool[p][j] => o = p /\ i = j

(* Slot notifications on their way: waiters woken by wake_pool_waiter and   *)
(* requests that still carry notified_origin.                               *)
Tokens(o) == {r \in Requests : \/ pc[r] \in Waiting /\ slotNotified[r] /\ origin[r] = o
                               \/ notifiedOrigin[r] = o}

(* No lost wakeup: while a queued request has not been woken, every slot    *)
(* that is free or idle is announced to some other request, whatever        *)
(* cancellations and deadlines do between the wakeup and the acquisition.   *)
NoLostWakeup ==
  \A o \in Origins :
    (\E i \in DOMAIN waiters[o] : ~notified[waiters[o][i]]) =>
      /\ MaxConnections # 0
      /\ MaxConnections <= Cardinality(Holders(o)) + Cardinality(Tokens(o))

(* bind/cancel hand-shake: once a request is cancelled and no thread is in  *)
(* the middle of cancelling it, the connection bound to it is closed, in    *)
(* whatever order bind() and cancel() took the control's mutex.             *)
CancelReachesConnection ==
  \A r \in Requests :
    cancelled[r] /\ bound[r] # NoConn
      => \/ link[bound[r]] = "closed"
         \/ \E a \in Agents : /\ stopper[a].req = r
                              /\ stopper[a].phase \in {"marked", "closing"}

(* Exact cancellation: a request that nobody cancelled never has its        *)
(* connection closed under it by the stop of another request, although      *)
(* cancel() closes the connection after it has dropped the mutex and the    *)
(* pool may have leased it again.  Only a request alive while               *)
(* AsyncClient::cancel runs on another thread can be hit by that cancel.    *)
ExactCancellation ==
  \A r \in Requests : result[r] = "aborted" => r \in overlap

(* "Requests waiting for a connection respect cancellation and deadlines":  *)
(* a queued request whose flag is set or whose time is up ends, even when   *)
(* no peer ever answers and no slot ever comes free.  AsyncClient::cancel   *)
(* and stop tokens end a request wherever it stands, queued, connecting,    *)
(* shaking hands or transferring: the flag, the bound connection and the    *)
(* wakeup together reach every suspension point.                            *)
CancelledEnds ==
  \A r \in Requests :
    (\/ pc[r] \in Waiting /\ (flag[r] \/ expired[r])
     \/ pc[r] # "new" /\ cancelled[r]) ~> (pc[r] = "done")

(* When operations of the transport end, so does every request: none is     *)
(* left queued behind a slot nobody announces, and no slot is lost on an    *)
(* error path.                                                              *)
EveryRequestEnds ==
  TransportEnds => \A r \in Requests : (pc[r] # "new") ~> (pc[r] = "done")

(* The pool implements the abstract allocator: a request holds the slot of  *)
(* its origin from the moment acquire() reserves or checks one out until    *)
(* release(), discard() or fail() gives it back, and the slots in use are   *)
(* what connection_counts holds beyond the idle connections.                *)
Slots == INSTANCE SlotAllocator WITH
  Clients <- Requests, Keys <- Origins, NoKey <- NoOrigin,
  Limit <- MaxConnections, NoAnswer <- "none", Answers <- Results \ {"none"},
  holds <- [r \in Requests |-> IF pc[r] \in Holding THEN origin[r] ELSE NoOrigin],
  used <- [o \in Origins |-> count[o] - Len(pool[o])],
  answer <- result

(* Refinement of SlotAllocator: whatever way a request gives up its slot,   *)
(* retry, redirect, answer or failure, the same step takes it out of the    *)
(* count, no other step changes the count of slots in use, none is taken    *)
(* beyond the limit, and a request answers once.                            *)
ImplementsAllocator == Slots!Spec
=============================================================================
