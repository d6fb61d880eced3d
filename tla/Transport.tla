----------------------------- MODULE Transport -----------------------------
(***************************************************************************)
(* Connection (src/src/runtime.cpp): connect over a list of addresses,     *)
(* accept, read, write, the TLS layer, the two timers and close, as a      *)
(* libuv loop runs them.                                                   *)
(*                                                                         *)
(* Everything but close() happens on the loop.  finish_read, finish_write  *)
(* and finish_connect resume a coroutine inside the callback that calls    *)
(* them: the coroutine may read, write or close before the callback goes   *)
(* on.  `stack' is the loop thread's call stack, its top first; libuv      *)
(* calls back only when it is empty.                                       *)
(***************************************************************************)
EXTENDS Naturals, Sequences, FiniteSets

CONSTANTS
  Coros,        \* coroutines that use the connection
  Main,         \* the one that connects, or serves an accepted connection
  NoCoro,
  Addresses,    \* addresses the host name resolves to; one Connection each
  MaxOps,       \* bound on the operations of a coroutine
  MaxImmediate, \* consecutive writes without a turn of the loop (64)
  MaxPieces     \* bound on the ciphertext pieces one TLS call produces

ASSUME TransportAssumption ==
  /\ Main \in Coros /\ NoCoro \notin Coros /\ Addresses \in Nat \ {0}
  /\ {MaxOps, MaxImmediate, MaxPieces} \subseteq Nat

VARIABLES
  stack,   \* the loop's pending calls and resumed coroutines
  posted,  \* connections whose close_on_loop another thread has posted
  conn,    \* the Connection objects, one per attempt
  cur,     \* the attempt, and the connection the coroutines share
  known,   \* PendingConnect::addresses: the name is resolved
  ready,   \* connect() or accept() has returned a connection
  st,      \* what each coroutine is doing
  res,     \* the result its last operation was resumed with
  ops,     \* operations it has begun
  tls,     \* the TLS operation it is in
  wbio,    \* ciphertext waiting in the write BIO
  secure   \* ssl_ is set

vars == <<stack, posted, conn, cur, known, ready, st, res, ops, tls, wbio, secure>>

Conns == 1..Addresses
Handles == {"tcp", "read_timer", "write_timer"}
Results == {"none", "ok", "data", "eof", "busy", "closed", "error", "resolve", "connect",
            "timeout", "cancelled"}

NewConn ==
  [open |-> FALSE, closing |-> FALSE, keep |-> FALSE, handles |-> {}, count |-> 0,
   connecting |-> FALSE, request |-> "none", reader |-> NoCoro, started |-> FALSE,
   rtimer |-> FALSE, writer |-> NoCoro, writes |-> <<>>, wtimer |-> FALSE, immediate |-> 0]

NoTls == [op |-> "none", ssl |-> "none", at |-> "none"]

Init ==
  /\ stack = <<>> /\ posted = {} /\ cur = 0 /\ known = FALSE /\ ready = FALSE
  /\ conn = [k \in Conns |-> NewConn]
  /\ st = [c \in Coros |-> "idle"] /\ res = [c \in Coros |-> "none"]
  /\ ops = [c \in Coros |-> 0] /\ tls = [c \in Coros |-> NoTls]
  /\ wbio = 0 /\ secure \in BOOLEAN

-----------------------------------------------------------------------------
(* The call stack.                                                          *)

Call(f, k, r) == [call |-> f, conn |-> k, coro |-> NoCoro, result |-> r]
Resume(c) == [call |-> "resume", conn |-> 0, coro |-> c, result |-> "none"]

Replace(frames) == stack' = frames \o Tail(stack)
Top(f) == stack # <<>> /\ stack[1].call = f

(* libuv calls back: timers, sockets, posted callbacks.                     *)
Event(frames) == stack = <<>> /\ stack' = frames

(* Coroutine c goes on with result r; resuming one that is not suspended    *)
(* leaves its state alone.                                                  *)
Suspended(c) == st[c] \in {"connect", "read", "write"}
GoesOn(c, r) ==
  IF Suspended(c) THEN st' = [st EXCEPT ![c] = "run"] /\ res' = [res EXCEPT ![c] = r]
                  ELSE UNCHANGED <<st, res>>

Others == <<posted, cur, known, ready, ops, tls, wbio, secure>>

(* Mutant: the timer goes on running.                                       *)
ReadOverKeepsTimer(d) == [d EXCEPT !.reader = NoCoro, !.started = FALSE]

ReadOver(d) == [d EXCEPT !.reader = NoCoro, !.rtimer = FALSE, !.started = FALSE]

(* finish_read: only a pending read is completed.                           *)
FinishRead ==
  /\ Top("finish_read")
  /\ LET k == stack[1].conn
         c == conn[k].reader
     IN  IF c = NoCoro THEN Replace(<<>>) /\ UNCHANGED <<conn, st, res>>
         ELSE /\ conn' = [conn EXCEPT ![k] = ReadOver(@)]
              /\ GoesOn(c, stack[1].result) /\ Replace(<<Resume(c)>>)
  /\ UNCHANGED Others

(* finish_write, which also marks the request as completed.                 *)
WriteOver(d) == [d EXCEPT !.writer = NoCoro, !.wtimer = FALSE,
                          !.writes = [i \in DOMAIN @ |-> FALSE]]

FinishWrite ==
  /\ Top("finish_write")
  /\ LET k == stack[1].conn
         c == conn[k].writer
     IN  IF c = NoCoro THEN Replace(<<>>) /\ UNCHANGED <<conn, st, res>>
         ELSE /\ conn' = [conn EXCEPT ![k] = WriteOver(@)]
              /\ GoesOn(c, stack[1].result) /\ Replace(<<Resume(c)>>)
  /\ UNCHANGED Others

(* Mutant: a connect that has ended can end again.                          *)
AlwaysPending(k) == TRUE

(* pending_connect_ is set and not completed.                               *)
ConnectPending(k) == conn[k].connecting

(* finish_connect: a failure closes the connection, then the coroutine goes *)
(* on.                                                                      *)
FinishConnect ==
  /\ Top("finish_connect")
  /\ LET k == stack[1].conn
         r == stack[1].result
         d == [conn[k] EXCEPT !.connecting = FALSE, !.rtimer = FALSE,
                              !.open = (r = "ok") \/ @]
     IN  IF ~ConnectPending(k) THEN Replace(<<>>) /\ UNCHANGED <<conn, st, res>>
         ELSE /\ conn' = [conn EXCEPT ![k] = d] /\ GoesOn(Main, r)
              /\ Replace((IF r = "ok" THEN <<>> ELSE <<Call("close", k, "none")>>)
                         \o <<Resume(Main)>>)
  /\ ready' = (ready \/ (ConnectPending(stack[1].conn) /\ stack[1].result = "ok"))
  /\ UNCHANGED <<posted, cur, known, ops, tls, wbio, secure>>

(* What close_on_loop does in turn, each with the coroutine it resumes.     *)
CloseCalls(k) ==
  <<Call("finish_read", k, "cancelled"), Call("finish_write", k, "cancelled"),
    Call("finish_connect", k, "cancelled"), Call("handles", k, "none")>>

CloseOnLoop ==
  /\ Top("close")
  /\ LET k == stack[1].conn
     IN  IF conn[k].closing THEN Replace(<<>>) /\ UNCHANGED conn
         ELSE /\ conn' = [conn EXCEPT ![k].closing = TRUE, ![k].open = FALSE]
              /\ Replace(CloseCalls(k))
  /\ UNCHANGED <<st, res, Others>>

(* Mutant: the handles are counted as one.                                  *)
CountedAsOne(d) == [d EXCEPT !.count = IF d.handles = {} THEN 0 ELSE 1,
                             !.keep = d.handles # {}]

(* uv_close on every handle; without any the connection lets go of itself.  *)
HandlesClosing(d) == [d EXCEPT !.count = Cardinality(d.handles), !.keep = d.handles # {}]

CloseHandles ==
  /\ Top("handles") /\ Replace(<<>>)
  /\ conn' = [conn EXCEPT ![stack[1].conn] = HandlesClosing(@)]
  /\ UNCHANGED <<st, res, Others>>

(* libuv reports a closed handle, the socket's after the requests on it.    *)
CloseCallback(k, h) ==
  /\ Event(<<>>) /\ conn[k].closing /\ h \in conn[k].handles
  /\ h = "tcp" => conn[k].writes = <<>> /\ conn[k].request # "connect"
  /\ conn' = [conn EXCEPT ![k].handles = @ \ {h}, ![k].count = @ - 1,
                          ![k].keep = @ /\ conn[k].count # 1]
  /\ UNCHANGED <<st, res, Others>>

-----------------------------------------------------------------------------
(* connect()                                                                *)

Running(c) == Top("resume") /\ stack[1].coro = c /\ st[c] = "run"

(* A coroutine's first step; the others join once there is a connection.    *)
Start(c) ==
  /\ st[c] = "idle" /\ (c # Main => ready /\ ~secure) /\ (c = Main => cur = 0)
  /\ Event(<<Resume(c)>>) /\ st' = [st EXCEPT ![c] = "run"]
  /\ UNCHANGED <<conn, res, Others>>

(* uv_tcp_init, uv_timer_init, uv_timer_init: the handles made before one   *)
(* of them fails.                                                           *)
Made == {{}, {"tcp"}, {"tcp", "read_timer"}, Handles}

(* The observer closes the connection: its request is cancelled already.    *)
ObserverCloses(k) == <<Call("close", k, "none"), Call("start", k, "none")>>

(* One attempt: a new Connection; the caller's time may be over before it.  *)
Attempt ==
  /\ Running(Main) /\ ~ready /\ res[Main] = "none" /\ cur < Addresses
  /\ LET k == cur + 1
         d == [NewConn EXCEPT !.keep = TRUE, !.connecting = TRUE]
     IN  /\ cur' = k /\ st' = [st EXCEPT ![Main] = "connect"] /\ UNCHANGED res
         /\ \E made \in Made :
              /\ conn' = [conn EXCEPT ![k] = [d EXCEPT !.handles = made]]
              /\ IF made # Handles THEN Replace(<<Call("finish_connect", k, "connect")>>)
                 ELSE Replace(<<Call("start", k, "none")>>) \/ Replace(ObserverCloses(k))
  /\ UNCHANGED <<posted, known, ready, ops, tls, wbio, secure>>

TimeIsUp ==
  /\ Running(Main) /\ ~ready /\ res[Main] = "none"
  /\ res' = [res EXCEPT ![Main] = "timeout"] /\ UNCHANGED <<stack, conn, st, Others>>

(* ... then the timer and, unless an address is known, the resolver.        *)
StartConnect ==
  /\ Top("start")
  /\ LET k == stack[1].conn
     IN  IF ~ConnectPending(k) THEN Replace(<<>>) /\ UNCHANGED conn
         ELSE \/ /\ Replace(<<>>)
                 /\ conn' = [conn EXCEPT ![k].rtimer = TRUE, ![k].request =
                                           IF known THEN "connect" ELSE "resolve"]
              \/ /\ Replace(<<Call("finish_connect", k,
                                   IF known THEN "connect" ELSE "resolve")>>)
                 /\ conn' = [conn EXCEPT ![k].rtimer = TRUE]
  /\ UNCHANGED <<st, res, Others>>

(* The resolver's callback starts the first connection.                     *)
Resolved(k) ==
  /\ conn[k].request = "resolve"
  /\ \/ /\ ~ConnectPending(k) /\ Event(<<>>)
        /\ conn' = [conn EXCEPT ![k].request = "none"] /\ UNCHANGED known
     \/ /\ ConnectPending(k) /\ Event(<<Call("finish_connect", k, "resolve")>>)
        /\ conn' = [conn EXCEPT ![k].request = "none"] /\ UNCHANGED known
     \/ /\ ConnectPending(k) /\ known' = TRUE
        /\ \/ Event(<<>>) /\ conn' = [conn EXCEPT ![k].request = "connect"]
           \/ /\ Event(<<Call("finish_connect", k, "connect")>>)
              /\ conn' = [conn EXCEPT ![k].request = "none"]
  /\ UNCHANGED <<posted, cur, ready, st, res, ops, tls, wbio, secure>>

(* The connect request's callback.                                          *)
TcpConnected(k) ==
  /\ conn[k].request = "connect"
  /\ conn' = [conn EXCEPT ![k].request = "none"]
  /\ IF ConnectPending(k)
     THEN \E r \in {"ok", "connect"} : Event(<<Call("finish_connect", k, r)>>)
     ELSE Event(<<>>)
  /\ UNCHANGED <<st, res, Others>>

(* A failed attempt goes on with the next address, unless the caller        *)
(* cancelled it or its time is over.                                        *)
MayTryNext == res[Main] \in {"connect", "resolve"} /\ known /\ cur < Addresses

NextAddress ==
  /\ Running(Main) /\ ~ready /\ MayTryNext
  /\ res' = [res EXCEPT ![Main] = "none"] /\ UNCHANGED <<stack, conn, st, Others>>

(* Connection::accept, called for a listener's connection.                  *)
Accept ==
  /\ cur = 0 /\ st[Main] = "idle" /\ cur' = 1
  /\ \E made \in Made, ok \in BOOLEAN :
       LET d == [NewConn EXCEPT !.keep = TRUE, !.handles = made]
       IN  IF made = Handles /\ ok
           THEN /\ conn' = [conn EXCEPT ![1] = [d EXCEPT !.open = TRUE]]
                /\ Event(<<Resume(Main)>>)
                /\ st' = [st EXCEPT ![Main] = "run"] /\ res' = [res EXCEPT ![Main] = "ok"]
           ELSE /\ conn' = [conn EXCEPT ![1] = d] /\ Event(<<Call("close", 1, "none")>>)
                /\ st' = [st EXCEPT ![Main] = "done"] /\ UNCHANGED res
  /\ ready' = conn'[1].open /\ UNCHANGED <<posted, known, ops, tls, wbio, secure>>

-----------------------------------------------------------------------------
(* Reading and writing the socket                                           *)

(* ReadAwaiter: at the end, refused, or suspended with the timer running.   *)
RawRead(c) ==
  LET d == conn[cur]
  IN  \/ /\ ~d.open \/ d.reader # NoCoro
         /\ res' = [res EXCEPT ![c] = IF d.open THEN "busy" ELSE "eof"]
         /\ UNCHANGED <<stack, conn, st>>
      \/ /\ d.open /\ d.reader = NoCoro /\ UNCHANGED res
         /\ st' = [st EXCEPT ![c] = "read"]
         /\ \E ok \in BOOLEAN :
              /\ conn' = [conn EXCEPT ![cur].reader = c, ![cur].rtimer = TRUE,
                                      ![cur].started = ok]
              /\ Replace(IF ok THEN <<>> ELSE <<Call("finish_read", cur, "error")>>)

(* WriteAwaiter::await_ready: closed, refused, or a small write the socket  *)
(* takes or fails at once, while no request is queued before it ...         *)
WriteAtOnce(c) ==
  LET d == conn[cur]
  IN  /\ \/ /\ ~d.open \/ d.writer # NoCoro
            /\ res' = [res EXCEPT ![c] = IF d.open THEN "busy" ELSE "closed"]
            /\ UNCHANGED conn
         \/ /\ d.open /\ d.writer = NoCoro /\ d.immediate < MaxImmediate /\ d.writes = <<>>
            /\ \/ /\ res' = [res EXCEPT ![c] = "ok"]
                  /\ conn' = [conn EXCEPT ![cur].immediate = @ + 1]
               \/ res' = [res EXCEPT ![c] = "error"] /\ UNCHANGED conn
      /\ UNCHANGED <<stack, st>>

(* ... and await_suspend: the rest of it becomes a request with a timer.    *)
WriteQueued(c) ==
  LET d == conn[cur]
      q == [d EXCEPT !.writer = c, !.wtimer = TRUE, !.immediate = 0]
  IN  /\ d.open /\ d.writer = NoCoro /\ UNCHANGED res
      /\ st' = [st EXCEPT ![c] = "write"]
      /\ \/ /\ conn' = [conn EXCEPT ![cur] = [q EXCEPT !.writes = Append(@, TRUE)]]
            /\ Replace(<<>>)
         \/ conn' = [conn EXCEPT ![cur] = q] /\ Replace(<<Call("finish_write", cur, "error")>>)

RawWrite(c) == WriteAtOnce(c) \/ WriteQueued(c)

(* read_callback: bytes, end of file or an error.                           *)
ReadCallback(k) ==
  /\ conn[k].started /\ ~conn[k].closing
  /\ \E r \in {"data", "eof", "error"} : Event(<<Call("finish_read", k, r)>>)
  /\ UNCHANGED <<conn, st, res, Others>>

(* write_callback; that of a request already completed changes nothing.     *)
WriteCallback(k) ==
  /\ conn[k].writes # <<>>
  /\ conn' = [conn EXCEPT ![k].writes = Tail(@)]
  /\ IF Head(conn[k].writes)
     THEN \E r \in {"ok", "error"} : Event(<<Call("finish_write", k, r)>>)
     ELSE Event(<<>>)
  /\ UNCHANGED <<st, res, Others>>

(* Mutant: a timer that only starts again.                                  *)
ReadTimeoutRearmed(k) == conn[k].rtimer /\ UNCHANGED vars

(* read_timeout and write_timeout: the operation ends, its coroutine runs,  *)
(* and then the connection is closed.                                       *)
ReadTimeout(k) ==
  /\ conn[k].rtimer /\ ~conn[k].closing
  /\ conn' = [conn EXCEPT ![k].rtimer = FALSE]
  /\ Event(<<Call(IF conn[k].connecting THEN "finish_connect" ELSE "finish_read",
                  k, "timeout"), Call("close", k, "none")>>)
  /\ UNCHANGED <<st, res, Others>>

WriteTimeout(k) ==
  /\ conn[k].wtimer /\ ~conn[k].closing
  /\ conn' = [conn EXCEPT ![k].wtimer = FALSE]
  /\ Event(<<Call("finish_write", k, "timeout"), Call("close", k, "none")>>)
  /\ UNCHANGED <<st, res, Others>>

(* close() on another thread: open_ falls at once, the rest is posted.      *)
CloseFromThread(k) ==
  /\ k <= cur /\ conn[k].keep /\ k \notin posted /\ ~conn[k].closing
  /\ conn' = [conn EXCEPT ![k].open = FALSE] /\ posted' = posted \cup {k}
  /\ UNCHANGED <<stack, cur, known, ready, st, res, ops, tls, wbio, secure>>

Drain(k) ==
  /\ k \in posted /\ Event(<<Call("close", k, "none")>>) /\ posted' = posted \ {k}
  /\ UNCHANGED <<conn, cur, known, ready, st, res, ops, tls, wbio, secure>>

-----------------------------------------------------------------------------
(* A coroutine that has the connection does as it likes, one thing after    *)
(* the other.                                                               *)
Free(c) == Running(c) /\ ready /\ tls[c] = NoTls
Counted(c) == ops[c] < MaxOps /\ ops' = [ops EXCEPT ![c] = @ + 1]

UserRead(c) ==
  /\ Free(c) /\ ~secure /\ Counted(c) /\ RawRead(c)
  /\ UNCHANGED <<posted, cur, known, ready, tls, wbio, secure>>

UserWrite(c) ==
  /\ Free(c) /\ ~secure /\ Counted(c) /\ RawWrite(c)
  /\ UNCHANGED <<posted, cur, known, ready, tls, wbio, secure>>

(* close() on the loop runs close_on_loop at once.                          *)
UserClose(c) ==
  /\ Free(c) /\ ~conn[cur].closing
  /\ conn' = [conn EXCEPT ![cur].open = FALSE]
  /\ stack' = <<Call("close", cur, "none")>> \o stack
  /\ UNCHANGED <<st, res, Others>>

(* It is finished, or the connection could not be made.                     *)
Leave(c) ==
  /\ Running(c) /\ tls[c] = NoTls
  /\ ready \/ (res[Main] # "none" /\ ~MayTryNext)
  /\ st' = [st EXCEPT ![c] = "done"] /\ Replace(<<>>)
  /\ UNCHANGED <<conn, res, Others>>

-----------------------------------------------------------------------------
(* TLS: read(), write() and handshake() of a secure connection.  What the   *)
(* library decides is an outcome; ciphertext goes through the write BIO.    *)

Outcomes(op) ==
  CASE op = "read"      -> {"data", "eof", "error", "want_read", "want_write"}
    [] op = "write"     -> {"ok", "more", "error", "want_read", "want_write"}
    [] op = "handshake" -> {"ok", "error", "want_read", "want_write"}
Again == {"more", "want_read", "want_write"}

(* SSL_read_ex, SSL_write_ex or SSL_do_handshake.                           *)
Ssl(c, op) ==
  /\ \E r \in Outcomes(op), n \in 0..MaxPieces :
       /\ r \in Again => ops[c] < MaxOps
       /\ tls' = [tls EXCEPT ![c] = [op |-> op, ssl |-> r, at |-> "flush"]]
       /\ wbio' = wbio + n
  /\ ops' = [ops EXCEPT ![c] = @ + 1]
  /\ UNCHANGED <<stack, posted, conn, cur, known, ready, st, res, secure>>

TlsBegin(c, op) == Free(c) /\ secure /\ ops[c] < MaxOps /\ Ssl(c, op)

TlsEnd(c, r) ==
  /\ tls' = [tls EXCEPT ![c] = NoTls] /\ res' = [res EXCEPT ![c] = r]
  /\ UNCHANGED <<stack, posted, conn, cur, known, ready, st, ops, wbio, secure>>

TlsAt(c, a) == Running(c) /\ tls[c].op # "none" /\ tls[c].at = a
TlsGoto(c, a) == tls' = [tls EXCEPT ![c].at = a]

(* flush_tls: one piece after the other, until the BIO is empty.            *)
Flush(c) ==
  /\ TlsAt(c, "flush") /\ wbio > 0 /\ wbio' = wbio - 1
  /\ RawWrite(c) /\ TlsGoto(c, "flushed")
  /\ UNCHANGED <<posted, cur, known, ready, ops, secure>>

Flushed(c) ==
  /\ TlsAt(c, "flushed")
  /\ \/ res[c] # "ok" /\ TlsEnd(c, res[c])
     \/ /\ res[c] = "ok" /\ TlsGoto(c, "flush")
        /\ UNCHANGED <<stack, posted, conn, cur, known, ready, st, res, ops, wbio, secure>>

(* With nothing left to flush the outcome counts: done, again, or read.     *)
TlsOutcome(c) ==
  /\ TlsAt(c, "flush") /\ wbio = 0
  /\ \/ tls[c].ssl \notin Again /\ TlsEnd(c, tls[c].ssl)
     \/ tls[c].ssl \in {"more", "want_write"} /\ Ssl(c, tls[c].op)
     \/ /\ tls[c].ssl = "want_read" /\ RawRead(c) /\ TlsGoto(c, "fed")
        /\ UNCHANGED <<posted, cur, known, ready, ops, wbio, secure>>

(* Bytes go to the library; the end of the stream ends a read, and is an    *)
(* error of the others.                                                     *)
Fed(c) ==
  /\ TlsAt(c, "fed")
  /\ \/ res[c] = "data" /\ (Ssl(c, tls[c].op) \/ TlsEnd(c, "error"))
     \/ res[c] = "eof" /\ TlsEnd(c, IF tls[c].op = "read" THEN "eof" ELSE "error")
     \/ res[c] \notin {"data", "eof"} /\ TlsEnd(c, res[c])

-----------------------------------------------------------------------------
Calls == \/ FinishRead \/ FinishWrite \/ FinishConnect \/ CloseOnLoop \/ CloseHandles
         \/ Attempt \/ TimeIsUp \/ StartConnect \/ NextAddress
Coroutine(c) == \/ UserRead(c) \/ UserWrite(c) \/ UserClose(c) \/ Leave(c)
                \/ \E op \in {"read", "write", "handshake"} : TlsBegin(c, op)
                \/ Flush(c) \/ Flushed(c) \/ TlsOutcome(c) \/ Fed(c)
Loop == Calls \/ \E c \in Coros : Coroutine(c)
Timers(k) == ReadTimeout(k) \/ WriteTimeout(k)
Peer(k) == Resolved(k) \/ TcpConnected(k) \/ ReadCallback(k) \/ WriteCallback(k)

(* Nobody waits for anything.                                               *)
Ended == stack = <<>> /\ (\A c \in Coros : ~Suspended(c)) /\ UNCHANGED vars

Next == \/ Loop \/ Accept \/ \E c \in Coros : Start(c)
        \/ \E k \in Conns : \/ Timers(k) \/ Peer(k) \/ CloseFromThread(k) \/ Drain(k)
                            \/ \E h \in Handles : CloseCallback(k, h)
        \/ Ended

Spec == Init /\ [][Next]_vars

(* The loop runs what it was given, timers that stay armed fire, posted     *)
(* callbacks are drained.  Nothing is asked of the peer.                    *)
FairSpec == /\ Spec /\ WF_vars(Loop)
            /\ \A k \in Conns : WF_vars(Timers(k)) /\ WF_vars(Drain(k))

-----------------------------------------------------------------------------
(* Every variable holds what it can hold.                                   *)
TypeOK ==
  /\ posted \subseteq Conns /\ cur \in 0..Addresses /\ known \in BOOLEAN
  /\ st \in [Coros -> {"idle", "run", "connect", "read", "write", "done"}]
  /\ res \in [Coros -> Results] /\ wbio \in Nat

(* A suspended operation is resumed exactly once: a coroutine has a frame   *)
(* on the loop's stack just when it runs, whichever of completion, timer    *)
(* and close reaches it, and however they nest.                             *)
OperationResumedOnce ==
  \A c \in Coros :
    Cardinality({i \in DOMAIN stack : stack[i].call = "resume" /\ stack[i].coro = c})
      = IF st[c] = "run" THEN 1 ELSE 0

(* Between two callbacks a timer is armed just when an operation waits for  *)
(* it: no read, write or connect without a limit, and no timer left behind  *)
(* to close an idle connection of the pool.                                 *)
TimerPerOperation ==
  stack = <<>> => \A k \in Conns : LET d == conn[k] IN
    ~d.closing => /\ d.rtimer <=> (d.connecting \/ d.reader # NoCoro)
                  /\ d.wtimer <=> d.writer # NoCoro

(* The connection keeps itself alive while libuv can still call back with a *)
(* pointer to it, and a closing one that has come to rest has no operation  *)
(* pending and cannot be open.                                              *)
KeptWhileInUse ==
  \A k \in Conns : LET d == conn[k] IN
    /\ d.handles # {} \/ (\E i \in DOMAIN d.writes : d.writes[i]) => d.keep
    /\ d.closing => ~d.open
    /\ d.closing /\ stack = <<>> => d.reader = NoCoro /\ d.writer = NoCoro /\ ~d.connecting

(* Every suspended operation ends, even if the peer never answers.          *)
OperationEnds == \A c \in Coros : Suspended(c) ~> ~Suspended(c)
=============================================================================
