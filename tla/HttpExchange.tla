---------------------------- MODULE HttpExchange ----------------------------
(* HTTP/1.x messages between one client coroutine and the server sessions   *)
(* of the connections it opens: how a request and a response are framed     *)
(* (write_request, RequestBodySink, build_response_head, write_response,    *)
(* send_response, send_file, ChunkSink), how the other side finds their     *)
(* ends (read_request_head, read_request_body, read_response), and when     *)
(* each of them decides to use the connection again (exchange, serve).      *)
(*                                                                          *)
(* A message is a sequence of tokens: a head, then units of body (length or *)
(* end-of-stream framing) or chunks and a last chunk.  A reader of a length *)
(* takes whatever comes next, as bytes are bytes; BodyReader models how one *)
(* message is put together from arbitrary pieces.  The id in a token is the *)
(* number of the client's request; no code looks at it.                     *)
EXTENDS Naturals, Sequences

CONSTANTS
  NumRequests,      \* requests the client makes, one after the other
  MaxConns,         \* connections it may open
  Requests,         \* what it may ask for
  Answers,          \* what handlers may answer
  MaxUnits,         \* units a chunked request body may have
  MaxBody,          \* max_body_size
  MaxServed,        \* keep_alive_max_requests
  MaxFaults         \* failures of the network, of producers and handlers, timeouts, a stop

ASSUME ExchangeAssumption ==
  /\ {NumRequests, MaxConns, MaxUnits, MaxBody, MaxServed, MaxFaults} \subseteq Nat
  /\ \A r \in Requests :
       /\ r.version \in {10, 11} /\ r.size \in Nat /\ {r.keep, r.expect} \subseteq BOOLEAN
       /\ r.body \in {"buffered", "length", "chunked"}    \* size is the declared length
  /\ \A a \in Answers :
       /\ a.kind \in {"buffered", "stream", "file", "missing"}
       /\ a.status \in 200..599 /\ a.size \in Nat

VARIABLES
  client,    \* the coroutine in AsyncClient::Impl::exchange
  idle,      \* the pooled connection, 0 if there is none
  net,       \* the connections opened so far: bytes under way, who has closed
  sess,      \* per connection the coroutine in Server::Impl::serve
  handled,   \* how often a handler was called for a request
  stopping,  \* Server::Impl::stopping
  blamed,    \* connections on which something went wrong
  repeatable, \* requests a second attempt may be made for
  faults     \* failures so far

vars == <<client, idle, net, sess, handled, stopping, blamed, repeatable, faults>>

Conns == DOMAIN net

(* One of the failures the model may choose.                                *)
Fault == faults < MaxFaults /\ faults' = faults + 1

(* Tokens.  A response to a request whose body never arrived has no id of   *)
(* its own and carries the one of the request it followed.                  *)
RequestHead(k, r) == [t |-> "request", id |-> k, req |-> r]
ResponseHead(k, status, framing, length, keep, size) ==
  [t |-> "response", id |-> k, status |-> status, framing |-> framing, length |-> length,
   keep |-> keep, size |-> size]
Units(k, n) == [i \in 1..n |-> [t |-> "data", id |-> k]]
Chunk(k, n) == <<[t |-> "chunk", id |-> k, n |-> n]>>
LastChunk(k) == <<[t |-> "last", id |-> k]>>

status_has_no_body(status) == status \in 100..199 \cup {204, 205, 304}
idempotent_method(method) == method \in {"GET", "HEAD", "OPTIONS"}

(* Bytes written to a connection that is cut are lost.                      *)
(* Nobody reads what is left when both have closed.                         *)
Settled(n) == IF n.cOpen \/ n.sOpen THEN n ELSE [n EXCEPT !.up = <<>>, !.down = <<>>]
Written(n, dir, tokens) == IF n.cut THEN n ELSE [n EXCEPT ![dir] = @ \o tokens]
(* A write may fail once the peer has closed or the connection is cut.      *)
WriteMayFail(n, peer) == n.cut \/ ~n[peer]

NewConn == [up |-> <<>>, down |-> <<>>, cOpen |-> TRUE, sOpen |-> TRUE, cut |-> FALSE]
NewSession == [pc |-> "head", count |-> 0, id |-> 0, req |-> [method |-> "none"],
               route |-> "none", left |-> 0, read |-> 0, complete |-> TRUE, error |-> 0,
               framing |-> "none", reusable |-> FALSE]

NewRequest == [pc |-> "acquire", k |-> 0, req |-> [method |-> "none"], conn |-> 0,
               reused |-> FALSE, attempt |-> 0, left |-> 0, resp |-> [t |-> "none"],
               got |-> <<>>, result |-> "none"]

Init ==
  /\ client = [NewRequest EXCEPT !.pc = "idle"]
  /\ idle = 0
  /\ net = <<>>
  /\ sess = <<>>
  /\ handled = [k \in 1..NumRequests |-> 0]
  /\ stopping = FALSE
  /\ blamed = {}
  /\ repeatable = {}
  /\ faults = 0

---------------------------------------------------------------------------
(* The client.                                                              *)

c0 == client.conn
Streamed(r) == r.body # "buffered"

Begin(r) ==
  /\ client.pc = "idle"
  /\ client.k < NumRequests
  /\ client' = [NewRequest EXCEPT !.k = client.k + 1, !.req = r]
  /\ UNCHANGED faults
  /\ repeatable' = repeatable \cup
                   (IF idempotent_method(r.method) /\ ~Streamed(r) THEN {client.k + 1} ELSE {})
  /\ UNCHANGED <<idle, net, sess, handled, stopping, blamed>>

(* acquire(): the pooled connection or a new one; ConnectionPool has the    *)
(* rest of it.                                                              *)
Acquire ==
  /\ client.pc = "acquire"
  /\ \/ /\ idle # 0
        /\ client' = [client EXCEPT !.pc = "write", !.conn = idle, !.reused = TRUE]
        /\ idle' = 0
        /\ UNCHANGED <<net, sess>>
     \/ /\ idle = 0
        /\ Len(net) < MaxConns
        /\ client' = [client EXCEPT !.pc = "write", !.conn = Len(net) + 1, !.reused = FALSE]
        /\ net' = Append(net, NewConn)
        /\ sess' = Append(sess, NewSession)
        /\ UNCHANGED idle
  /\ UNCHANGED <<handled, stopping, blamed>>

(* Mutant: repeats whatever was asked for.                                  *)
MayRetryAny(started) == ~started /\ client.reused /\ client.attempt = 0

MayRetry(started) ==
  /\ ~started
  /\ client.reused
  /\ client.attempt = 0
  /\ idempotent_method(client.req.method)
  /\ ~Streamed(client.req)

(* discard() and another attempt, or the error is the result.               *)
Fails(retry) ==
  /\ net' = [net EXCEPT ![c0] = Settled([@ EXCEPT !.cOpen = FALSE])]
  /\ client' = [NewRequest EXCEPT
                  !.k = client.k, !.conn = c0, !.attempt = 1,
                  !.req = IF retry THEN client.req ELSE @,
                  !.pc = IF retry THEN "acquire" ELSE "idle",
                  !.result = IF retry THEN "none" ELSE "failed"]
  /\ UNCHANGED <<idle, sess, handled, stopping>>

Blame(c) == blamed' = blamed \cup {c}

(* write_request(): the head with a buffered body, or the head alone.       *)
WriteRequest ==
  /\ client.pc = "write"
  /\ ~(client.req.body = "chunked" /\ client.req.version = 10)
  /\ net' = [net EXCEPT ![c0] =
               Written(@, "up", <<RequestHead(client.k, client.req)>> \o
                                (IF Streamed(client.req) THEN <<>>
                                                         ELSE Units(client.k, client.req.size)))]
  /\ client' = [client EXCEPT !.pc = IF Streamed(client.req) THEN "produce" ELSE "read",
                              !.left = IF client.req.body = "chunked" THEN MaxUnits
                                                                      ELSE client.req.size]
  /\ UNCHANGED <<idle, sess, handled, stopping, blamed>>

(* HTTP/1.0 has no chunks: an error before anything is written.             *)
WriteRefused ==
  /\ client.pc = "write"
  /\ client.req.body = "chunked"
  /\ client.req.version = 10
  /\ Fails(MayRetry(FALSE))
  /\ Blame(c0)

ClientWriteFails ==
  /\ \/ client.pc = "write"
     \/ client.pc = "produce" /\ (client.req.body = "chunked" \/ client.left > 0)
  /\ WriteMayFail(net[c0], "sOpen")
  /\ Fails(MayRetry(FALSE))
  /\ UNCHANGED blamed

(* The producer writes n units, as one chunk or as they are.  The sink      *)
(* takes no more than the declared length.                                  *)
ProducerWrites(n) ==
  /\ client.pc = "produce"
  /\ n <= client.left
  /\ net' = [net EXCEPT ![c0] =
               Written(@, "up", IF client.req.body = "chunked" THEN Chunk(client.k, n)
                                                               ELSE Units(client.k, n))]
  /\ client' = [client EXCEPT !.left = @ - n]
  /\ UNCHANGED <<idle, sess, handled, stopping, blamed>>

(* finish() after a producer that kept to the declared length.              *)
ProducerEnds ==
  /\ client.pc = "produce"
  /\ client.req.body = "length" => client.left = 0
  /\ net' = [net EXCEPT ![c0] =
               Written(@, "up", IF client.req.body = "chunked" THEN LastChunk(client.k) ELSE <<>>)]
  /\ client' = [client EXCEPT !.pc = "read"]
  /\ UNCHANGED <<idle, sess, handled, stopping, blamed>>

(* The producer throws, writes too much or ends short of the length, or the *)
(* progress callback refuses.                                               *)
ProducerFails ==
  /\ client.pc = "produce"
  /\ Fault
  /\ Fails(FALSE)
  /\ Blame(c0)
  /\ UNCHANGED repeatable

no_body(method, status) == method = "HEAD" \/ status_has_no_body(status)

(* release(): pooled if both messages allow it and nothing says close.      *)
Release(n, keep) ==
  /\ client' = [NewRequest EXCEPT !.pc = "idle", !.k = client.k, !.conn = c0, !.result = "ok",
                                  !.resp = client.resp, !.got = client.got]
  /\ IF client.req.keep /\ keep
       THEN net' = [net EXCEPT ![c0] = n] /\ idle' = c0
       ELSE net' = [net EXCEPT ![c0] = Settled([n EXCEPT !.cOpen = FALSE])] /\ UNCHANGED idle

(* One turn of read_response()'s loop: a head is read.                      *)
ReadHead ==
  /\ client.pc = "read"
  /\ net[c0].down # <<>>
  /\ LET tok == Head(net[c0].down)
         n == [net[c0] EXCEPT !.down = Tail(@)]
     IN  /\ tok.t = "response"
         /\ IF tok.status \in 100..199
              THEN net' = [net EXCEPT ![c0] = n] /\ UNCHANGED client
              ELSE /\ net' = [net EXCEPT ![c0] = n]
                   /\ client' = [client EXCEPT !.pc = "body", !.resp = tok,
                        !.left = IF no_body(client.req.method, tok.status) THEN 0 ELSE tok.length]
  /\ UNCHANGED <<idle, sess, handled, stopping, blamed>>

(* Mutant: reads to the end of the stream when the server says close.       *)
BodyFramingUntilClose ==
  IF no_body(client.req.method, client.resp.status) THEN "length"
  ELSE IF client.resp.keep THEN client.resp.framing ELSE "eof"

(* How the end of the body is found; until_eof is the last resort.          *)
BodyFraming ==
  IF no_body(client.req.method, client.resp.status) THEN "length" ELSE client.resp.framing

ReadUnit ==
  /\ client.pc = "body"
  /\ net[c0].down # <<>>
  /\ LET tok == Head(net[c0].down)
     IN  /\ \/ BodyFraming = "length" /\ client.left > 0
            \/ BodyFraming = "chunked" /\ tok.t = "chunk"
            \/ BodyFraming = "eof"
         /\ client' = [client EXCEPT !.got = Append(@, tok.id),
                                     !.left = IF BodyFraming = "length" THEN @ - 1 ELSE @]
  /\ net' = [net EXCEPT ![c0].down = Tail(@)]
  /\ UNCHANGED <<idle, sess, handled, stopping, blamed>>

Over(n) == n.down = <<>> /\ ~n.sOpen /\ ~n.cut

ReadEnds ==
  /\ client.pc = "body"
  /\ \/ BodyFraming = "length" /\ client.left = 0 /\ Release(net[c0], client.resp.keep)
     \/ /\ BodyFraming = "chunked"
        /\ net[c0].down # <<>>
        /\ Head(net[c0].down).t = "last"
        /\ Release([net[c0] EXCEPT !.down = Tail(@)], client.resp.keep)
     \/ BodyFraming = "eof" /\ Over(net[c0]) /\ Release(net[c0], FALSE)
  /\ UNCHANGED <<sess, handled, stopping, blamed>>

(* More of the body is to come.                                             *)
InBody == client.pc = "body" /\ ~(BodyFraming = "length" /\ client.left = 0)
Starved == InBody /\ net[c0].down = <<>>

(* The stream ends inside the message, or what comes is not what must.      *)
ReadFails ==
  /\ client.pc = "read" \/ InBody
  /\ \/ net[c0].cut
     \/ Over(net[c0]) /\ (client.pc = "body" => BodyFraming # "eof")
     \/ /\ net[c0].down # <<>>
        /\ LET t == Head(net[c0].down).t
           IN  IF client.pc = "read" THEN t # "response"
               ELSE BodyFraming = "chunked" /\ t \notin {"chunk", "last"}
  /\ Fails(MayRetry(client.pc = "body"))
  /\ UNCHANGED blamed

(* A timeout is an error like another; a cancelled request is not retried.  *)
GivesUp ==
  /\ client.pc \in {"write", "produce", "read", "body"}
  /\ Fault
  /\ \E retry \in {FALSE, MayRetry(client.pc = "body")} : Fails(retry)
  /\ Blame(c0)
  /\ UNCHANGED repeatable

ClientStep ==
  \/ \E r \in Requests : Begin(r)
  \/ /\ \/ Acquire
        \/ WriteRequest
        \/ WriteRefused
        \/ \E n \in 1..2 : ProducerWrites(n)
        \/ ProducerEnds
        \/ ReadHead
        \/ ReadUnit
        \/ ReadEnds
        \/ ReadFails
        \/ ClientWriteFails
     /\ UNCHANGED <<repeatable, faults>>

---------------------------------------------------------------------------
(* The server: one session per connection.                                  *)

Closed(c) == [NewSession EXCEPT !.pc = "closed"]
CloseConn(c, tokens) ==
  net' = [net EXCEPT ![c] = Settled([Written(@, "down", tokens) EXCEPT !.sOpen = FALSE])]

(* write_response() and send_response(): is there no body to send?          *)
omit_body(method, status) == method = "HEAD" \/ status_has_no_body(status)

(* An answer of serve()'s own, which always ends the session: 400, 408, 413.*)
AnswerAndClose(c, status) ==
  LET size == IF omit_body(sess[c].req.method, status) THEN 0 ELSE 1
  IN  /\ CloseConn(c, <<ResponseHead(sess[c].id, status, "length", 1, FALSE, size)>>
                       \o Units(sess[c].id, size))
      /\ sess' = [sess EXCEPT ![c] = Closed(c)]

Chunked(r) == r.body = "chunked"
Gone(c) == ~net[c].cOpen \/ net[c].cut

(* read_request_body() answers an expectation before it looks at the body.  *)
Continue(c) ==
  IF sess[c].req.expect THEN <<ResponseHead(sess[c].id, 100, "none", 0, TRUE, 0)>> ELSE <<>>

(* A head is parsed and a route found, plain or streaming.  A body that is  *)
(* declared empty is complete.                                              *)
ReadRequestHead(c) ==
  /\ sess[c].pc = "head"
  /\ ~stopping
  /\ net[c].up # <<>>
  /\ Head(net[c].up).t = "request"
  /\ LET tok == Head(net[c].up)
         complete == ~Chunked(tok.req) /\ tok.req.size = 0
         expected == ~complete \/ tok.req.expect
     IN  \E route \in {"plain", "stream"} :
           sess' = [sess EXCEPT ![c] = [@ EXCEPT
             !.id = tok.id, !.req = tok.req, !.route = route, !.left = tok.req.size,
             !.read = 0, !.complete = complete, !.error = 0,
             !.pc = IF route = "stream"
                      THEN IF tok.req.size > MaxBody THEN "too large" ELSE "stream"
                      ELSE IF expected THEN "consume" ELSE "handler"]]
  /\ net' = [net EXCEPT ![c].up = Tail(@)]
  /\ UNCHANGED <<client, idle, handled, stopping, blamed>>

(* A declared length above the limit of the stream route.                   *)
RefuseLength(c) ==
  /\ sess[c].pc = "too large"
  /\ AnswerAndClose(c, 413)
  /\ Blame(c)
  /\ UNCHANGED <<client, idle, handled, stopping>>

(* No head: bytes that are none, the end of the stream, or the server stops.*)
NoRequestHead(c) ==
  /\ sess[c].pc = "head"
  /\ \/ /\ IF net[c].up = <<>> THEN Gone(c) ELSE Head(net[c].up).t # "request"
        /\ AnswerAndClose(c, 400)
        /\ UNCHANGED blamed
     \/ /\ stopping
        /\ CloseConn(c, <<>>)
        /\ sess' = [sess EXCEPT ![c] = Closed(c)]
        /\ Blame(c)
  /\ UNCHANGED <<client, idle, handled, stopping>>

(* Mutant: only the first request has a timeout.                            *)
HeadTimeoutFirst(c) ==
  /\ sess[c].pc = "head" /\ sess[c].count = 0
  /\ CloseConn(c, <<>>)
  /\ sess' = [sess EXCEPT ![c] = Closed(c)]
  /\ Blame(c)
  /\ UNCHANGED <<client, idle, handled, stopping>>

(* The timeout of the first request or of keep-alive: no answer.  No excuse *)
(* for a client that is still waiting for the rest of a response.           *)
HeadTimeout(c) ==
  /\ sess[c].pc = "head"
  /\ CloseConn(c, <<>>)
  /\ sess' = [sess EXCEPT ![c] = Closed(c)]
  /\ IF client.conn = c /\ Starved THEN UNCHANGED blamed ELSE Blame(c)
  /\ UNCHANGED <<client, idle, handled, stopping>>

(* dispatch_stream(): the handler runs first and decides about the body.    *)
StreamHandler(c) ==
  /\ sess[c].pc = "stream"
  /\ handled' = [handled EXCEPT ![sess[c].id] = @ + 1]
  /\ \/ ~sess[c].complete /\ sess' = [sess EXCEPT ![c].pc = "consume"] /\ UNCHANGED blamed
     \/ /\ sess' = [sess EXCEPT ![c].pc = "answer"]
        /\ IF sess[c].complete THEN UNCHANGED blamed ELSE Blame(c)
  /\ UNCHANGED <<client, idle, net, stopping>>

(* read_request_body(): 100 Continue, then a look at the declared length.   *)
ConsumeBody(c) ==
  /\ sess[c].pc = "consume"
  /\ net' = [net EXCEPT ![c] = Written(@, "down", Continue(c))]
  /\ sess' = [sess EXCEPT ![c].pc = "body"]
  /\ UNCHANGED <<client, idle, handled, stopping, blamed>>

(* The body is whole: a plain route's handler is next, a stream handler     *)
(* goes on.                                                                 *)
Whole(s) ==
  [s EXCEPT !.complete = TRUE, !.read = 0, !.pc = IF s.route = "plain" THEN "handler" ELSE "answer"]
TooLarge(s, n) == s.read + n > MaxBody

ReadRequestUnit(c) ==
  /\ sess[c].pc = "body"
  /\ LET s == sess[c]
     IN  \/ /\ ~Chunked(s.req) /\ s.left = 0
            /\ sess' = [sess EXCEPT ![c] = Whole(s)]
            /\ UNCHANGED net
         \/ /\ net[c].up # <<>>
            /\ LET tok == Head(net[c].up)
               IN  \/ /\ ~Chunked(s.req) /\ s.left > 0 /\ s.req.size <= MaxBody
                      /\ sess' = [sess EXCEPT ![c].left = @ - 1]
                   \/ /\ Chunked(s.req) /\ tok.t = "chunk" /\ ~TooLarge(s, tok.n)
                      /\ sess' = [sess EXCEPT ![c].read = @ + tok.n]
                   \/ /\ Chunked(s.req) /\ tok.t = "last"
                      /\ sess' = [sess EXCEPT ![c] = Whole(s)]
            /\ net' = [net EXCEPT ![c].up = Tail(@)]
  /\ UNCHANGED <<client, idle, handled, stopping, blamed>>

(* The body is too large, malformed, cut off or late: an answer of serve()  *)
(* on a plain route, an error for the handler on a stream route.            *)
BodyFails(c, status) ==
  IF sess[c].route = "plain" THEN AnswerAndClose(c, status)
  ELSE sess' = [sess EXCEPT ![c] = [@ EXCEPT !.pc = "answer", !.error = status,
                                                 !.left = 0, !.read = 0]] /\ UNCHANGED net

RequestBodyFails(c) ==
  /\ sess[c].pc = "body"
  /\ LET s == sess[c]
     IN  \/ /\ ~Chunked(s.req) /\ s.req.size > MaxBody
            /\ BodyFails(c, 413)
            /\ Blame(c)
         \/ /\ Chunked(s.req) /\ net[c].up # <<>>
            /\ Head(net[c].up).t = "chunk" /\ TooLarge(s, Head(net[c].up).n)
            /\ BodyFails(c, 413)
            /\ Blame(c)
         \/ /\ IF net[c].up = <<>> THEN Gone(c)
               ELSE Chunked(s.req) /\ Head(net[c].up).t \notin {"chunk", "last"}
            /\ BodyFails(c, 400)
            /\ UNCHANGED blamed
  /\ UNCHANGED <<client, idle, handled, stopping>>

BodyTimeout(c) ==
  /\ sess[c].pc = "body"
  /\ Fault
  /\ BodyFails(c, 408)
  /\ Blame(c)
  /\ UNCHANGED <<client, idle, handled, stopping, repeatable>>

(* dispatch(): the handler of a plain route has the whole request.          *)
PlainHandler(c) ==
  /\ sess[c].pc = "handler"
  /\ handled' = [handled EXCEPT ![sess[c].id] = @ + 1]
  /\ sess' = [sess EXCEPT ![c].pc = "answer"]
  /\ UNCHANGED <<client, idle, net, stopping, blamed>>

(* Mutant: does not ask whether the handler has read the body.              *)
KeepsAliveUnread(s) == s.req.keep /\ s.count + 1 < MaxServed /\ ~stopping

(* serve() before send_response(): may another request follow?              *)
KeepsAlive(s) ==
  s.req.keep /\ s.complete /\ s.count + 1 < MaxServed /\ ~stopping

(* build_response_head(): the fields that frame the body.                   *)
WireFraming(status, framing) ==
  IF status \in 100..199 \cup {204} THEN "none"
  ELSE IF status = 205 THEN "length" ELSE framing
WireLength(status, framing, size) == IF status # 205 /\ framing = "length" THEN size ELSE 0

(* After an error of its body a stream route's response that has no content *)
(* of its own gives way to one about the error; a file is no content here.  *)
Chosen(s, a) ==
  IF s.error # 0 /\ a.status = 200 /\ a.kind # "stream" /\ (a.kind = "buffered" => a.size = 0)
  THEN [kind |-> "buffered", status |-> s.error, size |-> 1]
  ELSE a

(* The handler's response is sent: buffered with its head, a file or stream *)
(* after it.  A file that does not open is a buffered 500 that closes.      *)
SendResponse(c, response) ==
  /\ sess[c].pc = "answer"
  /\ LET s == sess[c]
         a == Chosen(s, response)
         missing == a.kind = "missing"
         framing == IF a.kind # "stream" THEN "length"
                    ELSE IF s.req.version >= 11 THEN "chunked" ELSE "eof"
         code == IF missing THEN 500 ELSE a.status
         keep == KeepsAlive(s) /\ ~missing /\ framing # "eof"
         omit == omit_body(s.req.method, code)
         head == ResponseHead(s.id, code, WireFraming(code, framing),
                              WireLength(code, framing, a.size), keep, IF omit THEN 0 ELSE a.size)
         whole == a.kind \in {"buffered", "missing"}
     IN  /\ net' = [net EXCEPT ![c] =
                      Written(@, "down", <<head>> \o (IF whole /\ ~omit THEN Units(s.id, a.size)
                                                                      ELSE <<>>))]
         /\ sess' = [sess EXCEPT ![c] = [NewSession EXCEPT
                       !.pc = IF whole \/ omit THEN "sent" ELSE "transfer", !.count = s.count,
                       !.id = s.id, !.left = IF whole \/ omit THEN 0 ELSE a.size,
                       !.framing = framing, !.reusable = KeepsAlive(s)]]
  /\ UNCHANGED <<client, idle, handled, stopping, blamed>>

(* Mutant: ends a chunked body without its last chunk.                      *)
TransferUnended(c) ==
  /\ sess[c].pc = "transfer"
  /\ IF sess[c].left > 0
     THEN /\ net' = [net EXCEPT ![c] = Written(@, "down",
                       IF sess[c].framing = "chunked" THEN Chunk(sess[c].id, 1)
                                                      ELSE Units(sess[c].id, 1))]
          /\ sess' = [sess EXCEPT ![c].left = @ - 1]
     ELSE sess' = [sess EXCEPT ![c].pc = "sent"] /\ UNCHANGED net
  /\ UNCHANGED <<client, idle, handled, stopping, blamed>>

(* send_file() and ChunkSink: a block at a time, and the last chunk.        *)
Transfer(c) ==
  /\ sess[c].pc = "transfer"
  /\ LET s == sess[c]
     IN  IF s.left > 0
         THEN /\ net' = [net EXCEPT ![c] = Written(@, "down",
                           IF s.framing = "chunked" THEN Chunk(s.id, 1) ELSE Units(s.id, 1))]
              /\ sess' = [sess EXCEPT ![c].left = @ - 1]
         ELSE /\ net' = [net EXCEPT ![c] = Written(@, "down",
                           IF s.framing = "chunked" THEN LastChunk(s.id) ELSE <<>>)]
              /\ sess' = [sess EXCEPT ![c].pc = "sent"]
  /\ UNCHANGED <<client, idle, handled, stopping, blamed>>

(* send_response() returns an error, or throws: the session is over.        *)
Abort(c) ==
  /\ sess[c].pc \in {"transfer", "sent"}
  /\ CloseConn(c, <<>>)
  /\ sess' = [sess EXCEPT ![c] = Closed(c)]
  /\ Blame(c)
  /\ UNCHANGED <<client, idle, handled, stopping>>

(* A write meets a peer that is gone ...                                    *)
SendFails(c) == WriteMayFail(net[c], "cOpen") /\ Abort(c)

(* ... or the stream handler throws, the file is shorter than it was, or    *)
(* the write times out.                                                     *)
TransferFails(c) == Fault /\ Abort(c) /\ UNCHANGED repeatable

(* The end of serve()'s loop: another turn, or close.                       *)
NextRequest(c) ==
  /\ sess[c].pc = "sent"
  /\ IF sess[c].reusable /\ sess[c].count + 1 < MaxServed
     THEN /\ sess' = [sess EXCEPT ![c] = [NewSession EXCEPT !.count = sess[c].count + 1,
                                                          !.framing = sess[c].framing]]
          /\ UNCHANGED net
     ELSE /\ sess' = [sess EXCEPT ![c] = Closed(c)]
          /\ CloseConn(c, <<>>)
  /\ UNCHANGED <<client, idle, handled, stopping, blamed>>

---------------------------------------------------------------------------
(* The network and the thread that stops the server.                        *)

Cut(c) ==
  /\ ~net[c].cut
  /\ net[c].cOpen \/ net[c].sOpen
  /\ Fault
  /\ net' = [net EXCEPT ![c] = [@ EXCEPT !.cut = TRUE, !.up = <<>>, !.down = <<>>]]
  /\ Blame(c)
  /\ UNCHANGED <<client, idle, sess, handled, stopping, repeatable>>

(* Bytes that reach a closed socket reset the connection: what the peer has *)
(* not read yet is lost.                                                    *)
Reset(c) ==
  /\ \/ ~net[c].sOpen /\ net[c].up # <<>> /\ net[c].cOpen
     \/ ~net[c].cOpen /\ net[c].down # <<>> /\ net[c].sOpen
  /\ ~net[c].cut
  /\ net' = [net EXCEPT ![c] = [@ EXCEPT !.cut = TRUE, !.up = <<>>, !.down = <<>>]]
  /\ UNCHANGED <<client, idle, sess, handled, stopping, blamed, repeatable, faults>>

Stop ==
  /\ ~stopping
  /\ Fault
  /\ stopping' = TRUE
  /\ UNCHANGED <<client, idle, net, sess, handled, blamed, repeatable>>

---------------------------------------------------------------------------
SessionStep(c) ==
  /\ \/ ReadRequestHead(c)
     \/ RefuseLength(c)
     \/ NoRequestHead(c)
     \/ HeadTimeout(c)
     \/ StreamHandler(c)
     \/ ConsumeBody(c)
     \/ ReadRequestUnit(c)
     \/ RequestBodyFails(c)
     \/ PlainHandler(c)
     \/ \E a \in Answers : SendResponse(c, a)
     \/ Transfer(c)
     \/ SendFails(c)
     \/ NextRequest(c)
  /\ UNCHANGED <<repeatable, faults>>

Next ==
  \/ ClientStep
  \/ ProducerFails
  \/ GivesUp
  \/ \E c \in Conns :
       SessionStep(c) \/ BodyTimeout(c) \/ TransferFails(c) \/ Cut(c) \/ Reset(c)
  \/ Stop

Spec == Init /\ [][Next]_vars

(* Handlers and producers come to an end, and the loops of both sides serve *)
(* what arrives and the timer of a session that waits for a head.  Nothing  *)
(* is assumed of the client's own timeouts.                                 *)
FairSpec ==
  /\ Spec
  /\ WF_vars(ClientStep)
  /\ \A c \in 1..MaxConns : WF_vars(c \in Conns /\ SessionStep(c))

---------------------------------------------------------------------------
(* A response is the answer to the request it is returned for, and its body *)
(* is what the handler produced for it: no bytes of another message, none   *)
(* missing.  Only a body that ends with the connection can be cut short     *)
(* unnoticed.                                                               *)
AnswersItsRequest ==
  client.result = "ok" =>
    /\ client.resp.id = client.k
    /\ \A i \in DOMAIN client.got : client.got[i] = client.k
    /\ \/ Len(client.got) = client.resp.size
       \/ client.resp.framing = "eof" /\ client.conn \in blamed

(* A handler runs at most once for a request that is not safe to repeat or  *)
(* whose body is a stream, whatever is lost between the two sides, and at   *)
(* most twice for any request.                                              *)
HandledOnce ==
  \A k \in 1..NumRequests : handled[k] <= IF k \in repeatable THEN 2 ELSE 1

(* Both sides agree where messages end.  When a session looks for a request *)
(* the next bytes are the head of the client's current one, and on a pooled *)
(* connection nothing is left of the last response.                         *)
BoundariesAgree ==
  /\ \A c \in Conns :
       sess[c].pc = "head" /\ net[c].up # <<>> =>
         Head(net[c].up).t = "request" /\ (net[c].cOpen => Head(net[c].up).id = client.k)
  /\ idle # 0 => net[idle].down = <<>>

(* A request fails only on a connection on which something went wrong: a    *)
(* limit, a failing producer or handler, a timeout, the network or a stop.  *)
(* In particular a server that will close says so before the client can     *)
(* pick the connection again.                                               *)
FailureHasCause == client.result = "failed" => client.conn \in blamed

(* Every request comes to its end without the help of a client timeout.     *)
RequestEnds == (client.pc # "idle") ~> (client.pc = "idle")

(* "chunked in HTTP/1.1 and connection-delimited in HTTP/1.0": once a body  *)
(* was sent that only the end of the connection delimits, the session does  *)
(* not wait for another request on it.                                      *)
ConnectionDelimited == \A c \in Conns : sess[c].pc = "head" => sess[c].framing # "eof"
=============================================================================
