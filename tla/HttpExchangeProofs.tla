------------------------ MODULE HttpExchangeProofs ------------------------
(***************************************************************************)
(* Proofs about HttpExchange, for any number of requests and connections,  *)
(* any kinds of requests and answers and any bounds: that both sides agree *)
(* where messages end, that a client gets the answer to what it asked,     *)
(* that a request fails only where something went wrong, and that a        *)
(* handler runs no more often than a request may be repeated.              *)
(*                                                                         *)
(* The invariant looks at one connection at a time: n is the network's     *)
(* part of it, s its session, role what the client does with it, cl the    *)
(* client, and calm says that nothing has gone wrong on it.                *)
(***************************************************************************)
EXTENDS HttpExchange, TLAPS, FiniteSetTheorems, SequenceTheorems

-----------------------------------------------------------------------------
(* What the variables hold.                                                 *)
Asks == Requests \cup {[method |-> "none"]}
Ids == 0..NumRequests
Framings == {"none", "length", "chunked", "eof"}
Calls == [t : {"request"}, id : Ids, req : Requests]
Replies == [t : {"response"}, id : Ids, status : 100..599, framing : Framings, length : Nat,
            keep : BOOLEAN, size : Nat]
Pieces == [t : {"data"}, id : Ids] \cup [t : {"chunk"}, id : Ids, n : Nat] \cup [t : {"last"}, id : Ids]
Links == [up : Seq(Calls \cup Pieces), down : Seq(Replies \cup Pieces),
          cOpen : BOOLEAN, sOpen : BOOLEAN, cut : BOOLEAN]

Reading == {"too large", "stream", "consume", "body"}
Serving == Reading \cup {"handler", "answer"}
Sending == {"transfer", "sent"}
Errors == {0} \cup 400..499
Sessions == [pc : Serving \cup Sending \cup {"head", "closed"}, count : Nat, id : Ids, req : Asks,
             route : {"none", "plain", "stream"}, left : Nat, read : Nat, complete : BOOLEAN,
             error : Errors, framing : Framings, reusable : BOOLEAN]

Exchanging == {"produce", "read", "body"}
Using == Exchanging \cup {"write"}
Clients == [pc : Using \cup {"idle", "acquire"}, k : Ids, req : Asks, conn : Nat, reused : BOOLEAN,
            attempt : 0..1, left : Nat, resp : Replies \cup {[t |-> "none"]}, got : Seq(Ids),
            result : {"none", "ok", "failed"}]

-----------------------------------------------------------------------------
(* From the client to the server.                                           *)

(* The session looks for a head, now or when its response is out.           *)
NextHead(s) == s.pc = "head" \/ (s.pc \in Sending /\ s.reusable)
Asked(n, s) == NextHead(s) /\ n.up # <<>>

(* Units of a declared length that the producer still has to write; whether *)
(* the client can still write body at all.                                  *)
More(role, cl) == IF role = "produce" THEN cl.left ELSE 0
NoMore(role, cl) == role = "produce" => ~Chunked(cl.req) /\ cl.left = 0
Consumed(n, role, cl) == n.up = <<>> /\ NoMore(role, cl)

(* b is what is under way of a body of which need units or chunks up to the *)
(* last are missing: no more than that, and on a calm connection no less.   *)
RestOfLength(need, b, role, cl, calm) ==
  /\ \A i \in DOMAIN b : b[i].t = "data"
  /\ Len(b) + More(role, cl) <= need
  /\ role \in Exchanging /\ calm => Len(b) + More(role, cl) = need
RestOfChunks(b, role, calm) ==
  /\ \A i \in DOMAIN b : b[i].t \in {"chunk", "last"} /\
                         (b[i].t = "last" => i = Len(b) /\ role # "produce")
  /\ role \in Exchanging /\ calm => role = "produce" \/ (b # <<>> /\ b[Len(b)].t = "last")
Rest(r, need, b, role, cl, calm) ==
  IF Chunked(r) THEN RestOfChunks(b, role, calm) ELSE RestOfLength(need, b, role, cl, calm)

(* What a session has before it is what its state expects.                  *)
Upward(n, s, role, cl, calm) ==
  /\ Asked(n, s) => /\ n.up[1] \in Calls
                    /\ Rest(n.up[1].req, n.up[1].req.size, Tail(n.up), role, cl, calm)
  /\ s.pc \in Reading => /\ Rest(s.req, s.left, n.up, role, cl, calm)
                         /\ s.complete => ~Chunked(s.req) /\ s.left = 0
  /\ s.pc = "handler" => s.complete /\ Consumed(n, role, cl)
  /\ s.pc = "answer" /\ (s.complete \/ calm) => Consumed(n, role, cl)
  /\ s.pc \in Serving => s.req \in Requests /\ s.route # "none"
  /\ s.pc \in {"too large", "stream"} => s.route = "stream"
  /\ s.pc \in Sending /\ s.reusable => s.count + 1 < MaxServed

-----------------------------------------------------------------------------
(* From the server to the client.                                           *)

(* A session whose client waits for nothing.                                *)
Quiet(s) == s.pc = "transfer" => s.left = 0 /\ s.framing = "length"

(* Between two exchanges: the session waits, or has closed for a reason.    *)
Rested(n, s, calm) ==
  /\ s.pc = "closed" \/ (NextHead(s) /\ n.up = <<>>)
  /\ n.down = <<>> /\ Quiet(s)
  /\ calm => s.pc # "closed"

(* What comes behind 100 Continue.                                          *)
Interim(tok) == tok.t = "response" /\ tok.status \in 100..199
Strip(d) == IF d # <<>> /\ Interim(d[1]) THEN Tail(d) ELSE d

NoBody(h, cl) == no_body(cl.req.method, h.status)
Owed(s) == IF s.pc = "transfer" THEN s.left ELSE 0
Exact(n, s, calm) == ~n.cut /\ (s.pc # "closed" \/ calm)

(* Of h's body g pieces are read, b is under way and the rest is owed: what *)
(* the head promises, and all of it unless the session was broken off.      *)
Amount(n, s, h, g, calm) ==
  /\ g + Owed(s) <= h.size
  /\ Exact(n, s, calm) => g + Owed(s) = h.size
BodyOfUnits(n, s, h, g, b, calm) ==
  /\ \A i \in DOMAIN b : b[i].t = "data"
  /\ Amount(n, s, h, g + Len(b), calm)
BodyOfChunks(n, s, h, g, b, calm) ==
  /\ \A i \in DOMAIN b : b[i].t \in {"chunk", "last"} /\ (b[i].t = "last" => i = Len(b))
  /\ IF b # <<>> /\ b[Len(b)].t = "last"
     THEN g + Len(b) - 1 = h.size /\ s.pc # "transfer"
     ELSE Amount(n, s, h, g + Len(b), calm) /\ (Exact(n, s, calm) => s.pc = "transfer")
Body(n, s, h, g, b, cl, calm) ==
  /\ \A i \in DOMAIN b : b[i].id = cl.k
  /\ NoBody(h, cl) => b = <<>> /\ g = 0 /\ h.size = 0 /\ s.pc # "transfer"
  /\ ~NoBody(h, cl) =>
       /\ h.framing # "none"
       /\ s.pc = "transfer" => s.framing = h.framing
       /\ h.framing \in {"length", "eof"} => BodyOfUnits(n, s, h, g, b, calm)
       /\ h.framing = "chunked" => BodyOfChunks(n, s, h, g, b, calm)

(* The head h of a response, and what it says about the connection.         *)
Final(h, cl) ==
  /\ h \in Replies /\ h.id = cl.k /\ h.status >= 200
  /\ h.framing = "length" /\ ~NoBody(h, cl) => h.length = h.size
  /\ h.framing = "eof" => ~h.keep
Answered(n, s, h, role, cl, calm) ==
  /\ s.pc \in Sending => s.id = cl.k /\ (h.keep => s.reusable)
  /\ s.pc = "closed" /\ calm => ~h.keep
  /\ NextHead(s) \/ calm => Consumed(n, role, cl)
Answer(n, s, h, g, b, role, cl, calm) ==
  Final(h, cl) /\ Answered(n, s, h, role, cl, calm) /\ Body(n, s, h, g, b, cl, calm)

(* While the client's request is not served yet, is being served and has    *)
(* been answered.                                                           *)
Waiting(n, s, role, cl) ==
  /\ role # "body" /\ n.up[1].id = cl.k /\ n.up[1].req = cl.req
  /\ n.down = <<>> /\ Quiet(s)
Served(n, s, role, cl) ==
  /\ role # "body" /\ s.id = cl.k /\ s.req = cl.req /\ Strip(n.down) = <<>>
  /\ s.pc \in {"too large", "stream", "consume"} => n.down = <<>>
Replied(n, s, role, cl, calm) ==
  IF role = "body" THEN Answer(n, s, cl.resp, Len(cl.got), n.down, role, cl, calm)
  ELSE LET d == Strip(n.down)
       IN  /\ d # <<>> => Answer(n, s, d[1], 0, Tail(d), role, cl, calm)
           /\ d = <<>> => n.cut \/ (s.pc = "closed" /\ ~calm)
Exchange(n, s, role, cl, calm) ==
  /\ Asked(n, s) => Waiting(n, s, role, cl)
  /\ s.pc \in Serving => Served(n, s, role, cl)
  /\ ~Asked(n, s) /\ s.pc \notin Serving => Replied(n, s, role, cl, calm)

-----------------------------------------------------------------------------
(* The invariant.                                                           *)

Opened(n, s, role, calm) ==
  /\ n.cOpen <=> role # "gone"
  /\ n.sOpen <=> s.pc # "closed"
  /\ n.cut => n.up = <<>> /\ n.down = <<>>
  /\ n.cOpen /\ calm => ~n.cut

Good(n, s, role, cl, calm) ==
  /\ Opened(n, s, role, calm)
  /\ Upward(n, s, role, cl, calm)
  /\ role \in {"idle", "write"} => Rested(n, s, calm)
  /\ role \in Exchanging => Exchange(n, s, role, cl, calm)

(* What the client does with a connection.                                  *)
RoleOf(cl, pooled, c) ==
  IF cl.pc \in Using /\ cl.conn = c THEN cl.pc ELSE IF c = pooled THEN "idle" ELSE "gone"
Role(c) == RoleOf(client, idle, c)
Calm(c) == c \notin blamed

(* What the client has of its response.                                     *)
Got(cl) ==
  /\ cl.pc # "idle" => cl.result = "none" /\ (cl.pc # "body" => cl.got = <<>>)
  /\ cl.pc = "body" =>
       /\ cl.resp \in Replies /\ cl.resp.id = cl.k
       /\ \A i \in DOMAIN cl.got : cl.got[i] = cl.k
       /\ NoBody(cl.resp, cl) => cl.left = 0 /\ cl.got = <<>> /\ cl.resp.size = 0
       /\ ~NoBody(cl.resp, cl) =>
            /\ cl.resp.framing # "none"
            /\ cl.resp.framing = "length" => Len(cl.got) + cl.left = cl.resp.size

(* The client has one connection, or one is pooled.                         *)
Owner(cl, pooled, conns) ==
  /\ pooled \in conns \cup {0}
  /\ cl.pc \in Using => cl.conn \in conns
  /\ cl.pc \in Using \/ (cl.pc = "acquire" /\ cl.attempt = 1) => pooled = 0
  /\ cl.pc # "idle" => cl.req \in Requests /\ cl.k \in 1..NumRequests
  /\ cl.pc = "produce" => Streamed(cl.req)

Types ==
  /\ client \in Clients /\ net \in Seq(Links) /\ sess \in Seq(Sessions) /\ Len(sess) = Len(net)

ExchangeInv ==
  /\ Types /\ Got(client) /\ Owner(client, idle, Conns)
  /\ \A c \in Conns : Good(net[c], sess[c], Role(c), client, Calm(c))

-----------------------------------------------------------------------------
(* Sequences.                                                               *)

(* Taking the first element.                                                *)
LEMMA TailOf ==
  ASSUME NEW S, NEW q \in Seq(S), q # <<>>
  PROVE  /\ Head(q) = q[1] /\ q[1] \in S /\ Tail(q) \in Seq(S)
         /\ Len(q) \in Nat \ {0} /\ Len(Tail(q)) = Len(q) - 1
         /\ DOMAIN q = 1..Len(q) /\ DOMAIN Tail(q) = 1..(Len(q) - 1)
         /\ \A i \in 1..(Len(q) - 1) : Tail(q)[i] = q[i + 1]
         /\ Tail(q) = <<>> <=> Len(q) = 1
<1>1. /\ Tail(q) \in Seq(S) /\ Len(Tail(q)) = Len(q) - 1 /\ Len(q) \in Nat \ {0}
      /\ \A i \in 1..Len(Tail(q)) : Tail(q)[i] = q[i + 1]
  BY HeadTailProperties, EmptySeq
<1>2. /\ DOMAIN q = 1..Len(q) /\ DOMAIN Tail(q) = 1..(Len(q) - 1) BY <1>1, LenProperties
<1>3. Head(q) = q[1] OBVIOUS
<1>4. q[1] \in S
  <2>1. 1 \in 1..Len(q) BY <1>1
  <2> QED BY <2>1, ElementOfSeq
<1>5. Tail(q) = <<>> <=> Len(q) = 1
  <2>1. Len(q) = 1 <=> Len(Tail(q)) = 0 BY <1>1
  <2>2. PICK u \in Seq(S) : u = Tail(q) BY <1>1, Zenon
  <2>3. u = <<>> <=> Len(u) = 0 BY EmptySeq, Zenon
  <2> QED BY <2>1, <2>2, <2>3
<1> QED BY <1>1, <1>2, <1>3, <1>4, <1>5

(* Putting one sequence behind another.                                     *)
LEMMA CatOf ==
  ASSUME NEW S, NEW p \in Seq(S), NEW q \in Seq(S)
  PROVE  /\ p \o q \in Seq(S) /\ Len(p \o q) = Len(p) + Len(q) /\ {Len(p), Len(q)} \subseteq Nat
         /\ DOMAIN p = 1..Len(p) /\ DOMAIN q = 1..Len(q) /\ DOMAIN (p \o q) = 1..(Len(p) + Len(q))
         /\ \A i \in DOMAIN p : (p \o q)[i] = p[i]
         /\ \A i \in DOMAIN q : (p \o q)[Len(p) + i] = q[i]
         /\ \A i \in DOMAIN (p \o q) : i \in DOMAIN p \/ i - Len(p) \in DOMAIN q
         /\ p = <<>> => p \o q = q
         /\ q = <<>> => p \o q = p
         /\ p \o q = <<>> => p = <<>> /\ q = <<>>
<1>1. /\ p \o q \in Seq(S) /\ Len(p \o q) = Len(p) + Len(q)
      /\ \A i \in 1..(Len(p) + Len(q)) : (p \o q)[i] = IF i <= Len(p) THEN p[i] ELSE q[i - Len(p)]
  BY ConcatProperties
<1>2. /\ Len(p) \in Nat /\ Len(q) \in Nat
      /\ DOMAIN p = 1..Len(p) /\ DOMAIN q = 1..Len(q) /\ DOMAIN (p \o q) = 1..(Len(p) + Len(q))
  BY <1>1, LenProperties
<1>3. \A i \in DOMAIN p : (p \o q)[i] = p[i] BY <1>1, <1>2
<1>4. \A i \in DOMAIN q : (p \o q)[Len(p) + i] = q[i]
  <2>1. ASSUME NEW i \in DOMAIN q PROVE (p \o q)[Len(p) + i] = q[i]
    <3>1. Len(p) + i \in 1..(Len(p) + Len(q)) /\ ~(Len(p) + i <= Len(p)) /\ Len(p) + i - Len(p) = i
      BY <1>2, <2>1
    <3> QED BY <1>1, <3>1
  <2> QED BY <2>1
<1>5. \A i \in DOMAIN (p \o q) : i \in DOMAIN p \/ i - Len(p) \in DOMAIN q BY <1>2
<1>6. /\ p = <<>> => p \o q = q
      /\ q = <<>> => p \o q = p
      /\ p \o q = <<>> => p = <<>> /\ q = <<>>
  <2>1. p = <<>> => p \o q = q BY ConcatEmptySeq
  <2>2. q = <<>> => p \o q = p BY ConcatEmptySeq
  <2>3. p \o q = <<>> => p = <<>> /\ q = <<>>
    <3>1. SUFFICES ASSUME p \o q = <<>> PROVE p = <<>> /\ q = <<>> OBVIOUS
    <3>2. Len(p) = 0 /\ Len(q) = 0 BY <1>1, <1>2, <3>1
    <3>3. PICK u \in Seq(S), v \in Seq(S) : u = p /\ v = q OBVIOUS
    <3>4. (u = <<>> <=> Len(u) = 0) /\ (v = <<>> <=> Len(v) = 0) BY EmptySeq
    <3> QED BY <3>2, <3>3, <3>4
  <2> QED BY <2>1, <2>2, <2>3, Zenon
<1> QED BY <1>1, <1>2, <1>3, <1>4, <1>5, <1>6, Zenon

(* One element behind a sequence.                                           *)
LEMMA OneMore ==
  ASSUME NEW S, NEW q \in Seq(S), NEW x \in S
  PROVE  /\ <<x>> \in Seq(S) /\ q \o <<x>> \in Seq(S) /\ Len(q \o <<x>>) = Len(q) + 1
         /\ DOMAIN (q \o <<x>>) = 1..(Len(q) + 1) /\ DOMAIN q = 1..Len(q) /\ Len(q) \in Nat
         /\ \A i \in DOMAIN q : (q \o <<x>>)[i] = q[i]
         /\ (q \o <<x>>)[Len(q) + 1] = x /\ q \o <<x>> # <<>>
<1>1. <<x>> \in Seq(S) /\ Len(<<x>>) = 1 /\ <<x>>[1] = x /\ <<x>> # <<>> OBVIOUS
<1>2. PICK y \in Seq(S) : y = <<x>> BY <1>1
<1> QED BY <1>1, <1>2, CatOf

(* The units of a body.                                                     *)
LEMMA UnitsAre ==
  ASSUME NEW k \in Ids, NEW m \in Nat
  PROVE  /\ Units(k, m) \in Seq(Pieces) /\ Len(Units(k, m)) = m /\ DOMAIN Units(k, m) = 1..m
         /\ \A i \in 1..m : Units(k, m)[i].t = "data" /\ Units(k, m)[i].id = k
         /\ m = 0 => Units(k, m) = <<>>
<1>1. \A i \in 1..m : Units(k, m)[i] = [t |-> "data", id |-> k] BY DEF Units
<1>2. [t |-> "data", id |-> k] \in Pieces BY DEF Pieces
<1>3. Units(k, m) \in [1..m -> Pieces] BY <1>1, <1>2 DEF Units
<1>4. Units(k, m) \in Seq(Pieces) BY <1>3
<1>5. Len(Units(k, m)) = m BY <1>3
<1> QED BY <1>1, <1>3, <1>4, <1>5, EmptySeq

-----------------------------------------------------------------------------
(* Bodies of requests.                                                      *)

Roles == Using \cup {"idle", "gone"}

(* A session takes the next piece of a body.                                *)
LEMMA RestTaken ==
  ASSUME NEW r, NEW need \in Nat, NEW b \in Seq(Calls \cup Pieces), b # <<>>,
         NEW role \in Roles, NEW cl \in Clients, NEW calm \in BOOLEAN,
         Rest(r, need, b, role, cl, calm)
  PROVE  /\ ~Chunked(r) => need > 0 /\ Rest(r, need - 1, Tail(b), role, cl, calm)
         /\ Chunked(r) => b[1].t \in {"chunk", "last"}
         /\ Chunked(r) /\ b[1].t = "chunk" => \A m : Rest(r, m, Tail(b), role, cl, calm)
         /\ Chunked(r) /\ b[1].t = "last" => Tail(b) = <<>> /\ role # "produce"
         /\ b[1].t # "request"
<1> PICK u : u = Tail(b) OBVIOUS
<1>1. /\ Len(b) \in Nat \ {0} /\ Len(u) = Len(b) - 1 /\ DOMAIN b = 1..Len(b)
      /\ DOMAIN u = 1..(Len(b) - 1) /\ \A i \in DOMAIN u : u[i] = b[i + 1] /\ i + 1 \in DOMAIN b
      /\ u = <<>> <=> Len(b) = 1
  BY TailOf
<1>2. More(role, cl) \in Nat BY DEF More, Clients
<1>3. CASE ~Chunked(r)
  <2>1. RestOfLength(need, b, role, cl, calm) BY <1>3 DEF Rest
  <2>2. need > 0 /\ RestOfLength(need - 1, u, role, cl, calm)
    BY <1>1, <1>2, <2>1 DEF RestOfLength
  <2>3. b[1].t = "data" BY <1>1, <2>1 DEF RestOfLength
  <2> QED BY <1>3, <2>2, <2>3 DEF Rest
<1>4. CASE Chunked(r)
  <2>1. RestOfChunks(b, role, calm) BY <1>4 DEF Rest
  <2>2. b[1].t \in {"chunk", "last"} /\ (b[1].t = "last" => Len(b) = 1 /\ role # "produce")
    BY <1>1, <2>1 DEF RestOfChunks
  <2>3. ASSUME b[1].t = "chunk" PROVE RestOfChunks(u, role, calm)
    <3>1. \A i \in DOMAIN u : u[i].t \in {"chunk", "last"} /\
                              (u[i].t = "last" => i = Len(u) /\ role # "produce")
      BY <1>1, <2>1 DEF RestOfChunks
    <3>2. ASSUME role \in Exchanging, calm, role # "produce" PROVE u # <<>> /\ u[Len(u)].t = "last"
      <4>1. b[Len(b)].t = "last" BY <2>1, <3>2 DEF RestOfChunks
      <4>2. Len(b) # 1 BY <2>3, <4>1
      <4>3. Len(u) \in DOMAIN u /\ Len(u) + 1 = Len(b) BY <1>1, <4>2
      <4> QED BY <1>1, <4>1, <4>2, <4>3
    <3> QED BY <3>1, <3>2 DEF RestOfChunks
  <2> QED BY <1>1, <1>4, <2>2, <2>3 DEF Rest
<1> QED BY <1>3, <1>4

(* Less is known when something has gone wrong, and when the client is gone.*)
LEMMA RestWeaker ==
  ASSUME NEW r, NEW need \in Nat, NEW b \in Seq(Calls \cup Pieces),
         NEW role \in Roles, NEW cl \in Clients, NEW calm \in BOOLEAN,
         Rest(r, need, b, role, cl, calm)
  PROVE  /\ \A c \in BOOLEAN : (c => calm) => Rest(r, need, b, role, cl, c)
         /\ \A x : Rest(r, need, b, "gone", x, calm)
<1>1. More(role, cl) \in Nat BY DEF More, Clients
<1>2. Len(b) \in Nat OBVIOUS
<1>3. \A x : More("gone", x) = 0 BY DEF More
<1> QED BY <1>1, <1>2, <1>3 DEF Rest, RestOfLength, RestOfChunks, Exchanging

(* Both.                                                                    *)
LEMMA RestGone ==
  ASSUME NEW r, NEW need \in Nat, NEW b \in Seq(Calls \cup Pieces),
         NEW role \in Roles, NEW cl \in Clients, NEW calm \in BOOLEAN,
         Rest(r, need, b, role, cl, calm), NEW d, NEW mood \in BOOLEAN, mood => calm
  PROVE  Rest(r, need, b, "gone", d, mood)
<1>1. Rest(r, need, b, role, cl, mood) BY RestWeaker
<1> QED BY <1>1, RestWeaker

(* A client that only waits has written all it will write.                  *)
LEMMA RestSpent ==
  ASSUME NEW r, NEW b \in Seq(Calls \cup Pieces), NEW role, NEW cl \in Clients, NEW calm,
         ~Chunked(r), Rest(r, 0, b, role, cl, calm)
  PROVE  b = <<>> /\ (role = "produce" => cl.left = 0)
<1>1. More(role, cl) \in Nat BY DEF More, Clients
<1>2. Len(b) \in Nat /\ (Len(b) = 0 => b = <<>>) BY EmptySeq
<1>3. Len(b) + More(role, cl) <= 0 BY DEF Rest, RestOfLength
<1> QED BY <1>1, <1>2, <1>3 DEF More

(* The producer writes m units of a body with a length.                     *)
LEMMA RestProduced ==
  ASSUME NEW r, NEW need \in Nat, NEW b \in Seq(Calls \cup Pieces), NEW cl \in Clients,
         NEW calm \in BOOLEAN, Rest(r, need, b, "produce", cl, calm), ~Chunked(r),
         NEW k \in Ids, NEW m \in Nat, m <= cl.left, NEW d \in Clients, d.left = cl.left - m
  PROVE  /\ b \o Units(k, m) \in Seq(Calls \cup Pieces)
         /\ Rest(r, need, b \o Units(k, m), "produce", d, calm)
<1>1. PICK u : u = Units(k, m) OBVIOUS
<1>2. u \in Seq(Calls \cup Pieces) /\ Len(u) = m /\ \A i \in DOMAIN u : u[i].t = "data"
  BY <1>1, UnitsAre, SeqMonotonic
<1>3. PICK v : v = b \o u OBVIOUS
<1>4. /\ v \in Seq(Calls \cup Pieces) /\ Len(v) = Len(b) + m /\ {Len(b), m} \subseteq Nat
      /\ \A i \in DOMAIN v : (i \in DOMAIN b /\ v[i] = b[i]) \/
                             (i - Len(b) \in DOMAIN u /\ v[i] = u[i - Len(b)])
  <2>1. /\ v \in Seq(Calls \cup Pieces) /\ Len(v) = Len(b) + Len(u) /\ {Len(b), Len(u)} \subseteq Nat
        /\ \A i \in DOMAIN b : v[i] = b[i]
        /\ \A i \in DOMAIN u : v[Len(b) + i] = u[i]
        /\ \A i \in DOMAIN v : i \in DOMAIN b \/ i - Len(b) \in DOMAIN u
        /\ DOMAIN v = 1..(Len(b) + Len(u))
    <3>1. u \in Seq(Calls \cup Pieces) BY <1>2
    <3> QED BY <3>1, <1>3, CatOf
  <2>2. ASSUME NEW i \in DOMAIN v, i - Len(b) \in DOMAIN u PROVE v[i] = u[i - Len(b)]
    <3>1. Len(b) + (i - Len(b)) = i BY <2>1, <2>2
    <3> QED BY <2>1, <2>2, <3>1
  <2> QED BY <1>2, <2>1, <2>2
<1>5. RestOfLength(need, b, "produce", cl, calm) BY DEF Rest
<1>6. More("produce", cl) = cl.left /\ More("produce", d) = cl.left - m /\ cl.left \in Nat
  BY DEF More, Clients
<1>7. RestOfLength(need, v, "produce", d, calm)
  <2>1. \A i \in DOMAIN v : v[i].t = "data" BY <1>2, <1>4, <1>5 DEF RestOfLength
  <2>2. Len(v) + (cl.left - m) = Len(b) + cl.left BY <1>4, <1>6
  <2> QED BY <1>5, <1>6, <2>1, <2>2 DEF RestOfLength
<1> QED BY <1>1, <1>3, <1>4, <1>7 DEF Rest

(* A chunk, or the last one with which the producer ends.                   *)
LEMMA RestChunked ==
  ASSUME NEW r, NEW need, NEW b \in Seq(Calls \cup Pieces), NEW cl, NEW calm \in BOOLEAN,
         Rest(r, need, b, "produce", cl, calm), Chunked(r),
         NEW tok \in Pieces, NEW role, NEW d,
         \/ tok.t = "chunk" /\ role = "produce"
         \/ tok.t = "last" /\ role = "read"
  PROVE  /\ b \o <<tok>> \in Seq(Calls \cup Pieces)
         /\ Rest(r, need, b \o <<tok>>, role, d, calm)
<1>1. PICK v : v = b \o <<tok>> OBVIOUS
<1>2. /\ v \in Seq(Calls \cup Pieces) /\ Len(v) = Len(b) + 1 /\ Len(b) \in Nat
      /\ DOMAIN v = 1..(Len(b) + 1) /\ DOMAIN b = 1..Len(b)
      /\ \A i \in DOMAIN b : v[i] = b[i]
      /\ v[Len(b) + 1] = tok /\ v # <<>>
  <2>1. tok \in Calls \cup Pieces OBVIOUS
  <2> QED BY <1>1, <2>1, OneMore
<1>3. RestOfChunks(b, "produce", calm) BY DEF Rest
<1>4. \A i \in DOMAIN b : v[i].t = "chunk" BY <1>2, <1>3 DEF RestOfChunks
<1>5. RestOfChunks(v, role, calm)
  <2>1. \A i \in DOMAIN v : i \in DOMAIN b \/ i = Len(b) + 1 BY <1>2
  <2> QED BY <1>2, <1>4, <2>1 DEF RestOfChunks, Exchanging
<1> QED BY <1>1, <1>2, <1>5 DEF Rest

-----------------------------------------------------------------------------
(* One connection and what a step does to it.                               *)

Fit(n, s, role, cl, calm) ==
  /\ n \in Links /\ s \in Sessions /\ role \in Roles /\ cl \in Clients /\ calm \in BOOLEAN
  /\ role \in Using => cl.pc = role /\ cl.req \in Requests
  /\ Got(cl) /\ Good(n, s, role, cl, calm)

(* The response is not whole yet.                                           *)
Lacks(cl) == ~NoBody(cl.resp, cl) /\ (cl.resp.framing = "length" => cl.left > 0)

(* What has been answered on a connection stays so when the session closes. *)
LEMMA AnswerClosed ==
  ASSUME NEW n \in Links, NEW s \in Sessions, NEW h, NEW g \in Nat, NEW b \in Seq(Replies \cup Pieces),
         NEW role \in Roles, NEW cl \in Clients, NEW calm \in BOOLEAN,
         Answer(n, s, h, g, b, role, cl, calm),
         NEW m \in Links, NEW t \in Sessions, NEW mood \in BOOLEAN, t.pc = "closed",
         m.up = n.up, m.cut = n.cut,
         mood => calm /\ ~n.cut /\ \/ s.pc = "sent" /\ ~s.reusable
                                   \/ /\ s.pc = "head" /\ b = <<>> /\ ~NoBody(h, cl)
                                      /\ h.framing = "length" => g < h.size
  PROVE  Answer(m, t, h, g, b, role, cl, mood)
<1>1. Final(h, cl) /\ Answered(n, s, h, role, cl, calm) /\ Body(n, s, h, g, b, cl, calm) BY DEF Answer
<1>2. h.size \in Nat /\ h.framing \in Framings /\ h.keep \in BOOLEAN BY <1>1 DEF Final, Replies
<1>3. Owed(t) = 0 /\ Owed(s) \in Nat /\ ~NextHead(t) BY DEF Owed, Sessions, NextHead, Sending
<1>4. Len(b) \in Nat /\ (b = <<>> => Len(b) = 0) BY EmptySeq
<1>5. ASSUME mood PROVE ~h.keep
  <2>1. CASE s.pc = "sent" /\ ~s.reusable BY <1>1, <2>1 DEF Answered, Sending
  <2>2. CASE /\ s.pc = "head" /\ b = <<>> /\ ~NoBody(h, cl) /\ (h.framing = "length" => g < h.size)
    <3>1. Exact(n, s, calm) /\ Owed(s) = 0 BY <1>5, <2>2 DEF Exact, Owed
    <3>2. h.framing # "chunked" BY <1>1, <2>2, <3>1 DEF Body, BodyOfChunks
    <3>3. h.framing # "length"
      <4>1. ASSUME h.framing = "length" PROVE FALSE
        <5>1. Amount(n, s, h, g + Len(b), calm) BY <1>1, <2>2, <4>1 DEF Body, BodyOfUnits
        <5> QED BY <1>2, <1>4, <2>2, <3>1, <4>1, <5>1 DEF Amount
      <4> QED BY <4>1
    <3> QED BY <1>1, <1>2, <2>2, <3>2, <3>3 DEF Final, Framings, Body
  <2> QED BY <1>5, <2>1, <2>2
<1>6. Answered(m, t, h, role, cl, mood)
  BY <1>1, <1>3, <1>5 DEF Answered, Sending, Consumed
<1>7. Exact(m, t, mood) => Exact(n, s, calm) /\ s.pc # "transfer" BY DEF Exact
<1>8. \A x \in Nat : Amount(n, s, h, x, calm) => Amount(m, t, h, x, mood)
  <2>1. s.pc # "transfer" => Owed(s) = 0 BY DEF Owed
  <2> QED BY <1>2, <1>3, <1>7, <2>1 DEF Amount
<1>9. Body(m, t, h, g, b, cl, mood)
  <2>1. g + Len(b) \in Nat BY <1>4
  <2>2. BodyOfUnits(n, s, h, g, b, calm) => BodyOfUnits(m, t, h, g, b, mood)
    BY <1>8, <2>1 DEF BodyOfUnits
  <2>3. BodyOfChunks(n, s, h, g, b, calm) => BodyOfChunks(m, t, h, g, b, mood)
    BY <1>7, <1>8, <2>1 DEF BodyOfChunks
  <2> QED BY <1>1, <2>2, <2>3 DEF Body
<1> QED BY <1>1, <1>6, <1>9 DEF Answer

(* It does so when its last response is sent, or when its client waits for  *)
(* more than the session will ever send.                                    *)
Excused(n, s, role, cl) ==
  \/ s.pc = "sent" /\ ~s.reusable
  \/ role = "body" /\ s.pc = "head" /\ n.down = <<>> /\ Lacks(cl)

(* The session closes its side, with nothing more to say.                   *)
LEMMA Hangup ==
  ASSUME NEW n, NEW s, NEW role, NEW cl, NEW calm, Fit(n, s, role, cl, calm),
         NEW m \in Links, NEW t \in Sessions, NEW mood \in BOOLEAN, t.pc = "closed",
         m.cOpen = n.cOpen, ~m.sOpen, m.cut = n.cut,
         n.cOpen => m.up = n.up /\ m.down = n.down,
         ~n.cOpen => m.up = <<>> /\ m.down = <<>>,
         mood => calm, mood /\ n.cOpen => Excused(n, s, role, cl)
  PROVE  Fit(m, t, role, cl, mood)
<1>1. /\ n \in Links /\ s \in Sessions /\ role \in Roles /\ cl \in Clients /\ calm \in BOOLEAN
      /\ Opened(n, s, role, calm) /\ Upward(n, s, role, cl, calm) /\ Got(cl)
      /\ role \in {"idle", "write"} => Rested(n, s, calm)
      /\ role \in Exchanging => Exchange(n, s, role, cl, calm)
  BY DEF Fit, Good
<1>2. ~NextHead(t) /\ ~Asked(m, t) /\ t.pc \notin Serving /\ Quiet(t)
  BY DEF NextHead, Asked, Sending, Serving, Reading, Quiet
<1>3. Opened(m, t, role, mood) BY <1>1 DEF Opened
<1>4. Upward(m, t, role, cl, mood)
  BY <1>2 DEF Upward, Serving, Reading, Sending
<1>5. ASSUME role \in {"idle", "write"} PROVE Rested(m, t, mood)
  <2>1. n.cOpen /\ n.down = <<>> /\ (s.pc = "sent" => s.reusable)
    BY <1>1, <1>5 DEF Opened, Rested, NextHead
  <2>2. ~mood BY <1>5, <2>1 DEF Excused
  <2> QED BY <1>2, <2>1, <2>2 DEF Rested
<1>6. n \in Links /\ s \in Sessions /\ role \in Roles /\ cl \in Clients /\ calm \in BOOLEAN BY <1>1
<1>7. ASSUME role \in Exchanging PROVE Replied(m, t, role, cl, mood)
  <2>1. n.cOpen /\ Exchange(n, s, role, cl, calm) BY <1>1, <1>7 DEF Opened, Exchanging
  <2>2. mood => ~n.cut /\ calm BY <1>1, <2>1 DEF Opened
  <2>3. Strip(<<>>) = <<>> BY DEF Strip
  <2>4. m.up = n.up /\ m.down = n.down BY <2>1
  <2>5. CASE Asked(n, s) \/ s.pc \in Serving
    <3>1. role # "body" /\ Strip(n.down) = <<>>
      BY <2>1, <2>3, <2>5 DEF Exchange, Waiting, Served
    <3>2. ~mood BY <2>1, <2>5, <3>1 DEF Excused, Asked, NextHead, Serving, Reading
    <3> QED BY <2>1, <3>1, <3>2 DEF Replied
  <2>6. CASE ~Asked(n, s) /\ s.pc \notin Serving
    <3>1. Replied(n, s, role, cl, calm) BY <2>1, <2>6 DEF Exchange
    <3>2. CASE role = "body"
      <4>1. Answer(n, s, cl.resp, Len(cl.got), n.down, role, cl, calm) BY <3>1, <3>2 DEF Replied
      <4>2. n.down \in Seq(Replies \cup Pieces) /\ Len(cl.got) \in Nat /\ cl.left \in Nat
        BY <1>1 DEF Links, Clients
      <4>3. Lacks(cl) => ~NoBody(cl.resp, cl) /\
                         (cl.resp.framing = "length" => Len(cl.got) < cl.resp.size)
        <5>1. cl.pc = "body" BY <3>2 DEF Fit, Using, Exchanging
        <5>2. cl.resp.size \in Nat BY <1>1, <5>1 DEF Got, Replies
        <5> QED BY <1>1, <4>2, <5>1, <5>2 DEF Lacks, Got
      <4>4. mood => calm /\ ~n.cut /\
              \/ s.pc = "sent" /\ ~s.reusable
              \/ /\ s.pc = "head" /\ n.down = <<>> /\ ~NoBody(cl.resp, cl)
                 /\ cl.resp.framing = "length" => Len(cl.got) < cl.resp.size
        BY <2>1, <2>2, <4>3 DEF Excused
      <4>5. Answer(m, t, cl.resp, Len(cl.got), n.down, role, cl, mood)
        <5>0. PICK h, g, b : h = cl.resp /\ g = Len(cl.got) /\ b = n.down OBVIOUS
        <5>1. Answer(n, s, h, g, b, role, cl, calm) /\ g \in Nat /\ b \in Seq(Replies \cup Pieces)
          BY <4>1, <4>2, <5>0
        <5>2. mood => calm /\ ~n.cut /\ \/ s.pc = "sent" /\ ~s.reusable
                                        \/ /\ s.pc = "head" /\ b = <<>> /\ ~NoBody(h, cl)
                                           /\ h.framing = "length" => g < h.size
          BY <4>4, <5>0
        <5>3. Answer(m, t, h, g, b, role, cl, mood) BY <1>6, <2>4, <5>1, <5>2, AnswerClosed
        <5> QED BY <5>0, <5>3
      <4> QED BY <2>1, <3>2, <4>5 DEF Replied
    <3>3. CASE role # "body"
      <4>0. PICK d : d = Strip(n.down) OBVIOUS
      <4>1. d = <<>> => n.cut \/ (s.pc = "closed" /\ ~calm) BY <3>1, <3>3, <4>0 DEF Replied
      <4>2. ASSUME d # <<>> PROVE Answer(m, t, d[1], 0, Tail(d), role, cl, mood)
        <5>0. Answer(n, s, d[1], 0, Tail(d), role, cl, calm) BY <3>1, <3>3, <4>0, <4>2 DEF Replied
        <5>1. Tail(d) \in Seq(Replies \cup Pieces)
          <6>1. n.down \in Seq(Replies \cup Pieces) BY <1>1 DEF Links
          <6>2. d \in Seq(Replies \cup Pieces) BY <4>0, <6>1, TailOf DEF Strip
          <6> QED BY <4>2, <6>2, TailOf
        <5>2. mood => calm /\ ~n.cut /\ s.pc = "sent" /\ ~s.reusable BY <2>1, <2>2, <3>3 DEF Excused
        <5>3. PICK h, g, b : h = d[1] /\ g = 0 /\ b = Tail(d) OBVIOUS
        <5>4. Answer(n, s, h, g, b, role, cl, calm) /\ g \in Nat /\ b \in Seq(Replies \cup Pieces)
          BY <5>3, <5>0, <5>1
        <5>5. mood => calm /\ ~n.cut /\ \/ s.pc = "sent" /\ ~s.reusable
                                        \/ /\ s.pc = "head" /\ b = <<>> /\ ~NoBody(h, cl)
                                           /\ h.framing = "length" => g < h.size
          BY <5>2
        <5>6. Answer(m, t, h, g, b, role, cl, mood) BY <1>6, <2>4, <5>4, <5>5, AnswerClosed
        <5> QED BY <5>3, <5>6
      <4> QED BY <2>1, <2>2, <3>3, <4>0, <4>1, <4>2 DEF Replied
    <3> QED BY <3>2, <3>3
  <2> QED BY <2>5, <2>6
<1> QED BY <1>1, <1>2, <1>3, <1>4, <1>5, <1>7 DEF Fit, Good, Exchange

-----------------------------------------------------------------------------
(* What is written to the client.                                           *)

Downs == Replies \cup Pieces

(* The first element of two sequences is that of the first one.             *)
LEMMA TailCat ==
  ASSUME NEW S, NEW p \in Seq(S), p # <<>>, NEW q \in Seq(S)
  PROVE  Tail(p \o q) = Tail(p) \o q /\ (p \o q)[1] = p[1] /\ p \o q # <<>>
<1>1. PICK r \in Seq(S) : r = p \o q BY CatOf
<1>2. PICK u \in Seq(S) : u = Tail(p) BY TailOf
<1>3. PICK v \in Seq(S) : v = u \o q BY CatOf
<1>4. /\ {Len(p), Len(q)} \subseteq Nat /\ Len(p) > 0 /\ Len(u) = Len(p) - 1
      /\ \A i \in 1..(Len(p) - 1) : u[i] = p[i + 1]
  BY <1>2, TailOf
<1>5. /\ Len(r) = Len(p) + Len(q)
      /\ \A i \in 1..(Len(p) + Len(q)) : r[i] = IF i <= Len(p) THEN p[i] ELSE q[i - Len(p)]
  BY <1>1, ConcatProperties
<1>6. /\ Len(v) = Len(u) + Len(q)
      /\ \A i \in 1..(Len(u) + Len(q)) : v[i] = IF i <= Len(u) THEN u[i] ELSE q[i - Len(u)]
  BY <1>3, ConcatProperties
<1>7. r # <<>> /\ r[1] = p[1] BY <1>4, <1>5, EmptySeq
<1>8. PICK w \in Seq(S) : w = Tail(r) BY <1>7, TailOf
<1>9. Len(w) = Len(r) - 1 /\ \A i \in 1..(Len(r) - 1) : w[i] = r[i + 1] BY <1>7, <1>8, TailOf
<1>10. Len(w) = Len(v) BY <1>4, <1>5, <1>6, <1>9
<1>11. ASSUME NEW i \in 1..Len(w) PROVE w[i] = v[i]
  <2>1. i \in 1..(Len(r) - 1) /\ i + 1 \in 1..(Len(p) + Len(q)) /\ i \in 1..(Len(u) + Len(q))
    BY <1>4, <1>5, <1>6, <1>9, <1>10
  <2>2. w[i] = IF i + 1 <= Len(p) THEN p[i + 1] ELSE q[i + 1 - Len(p)]
    BY <1>5, <1>9, <2>1
  <2>3. v[i] = IF i <= Len(u) THEN u[i] ELSE q[i - Len(u)] BY <1>6, <2>1
  <2>4. CASE i + 1 <= Len(p)
    <3>1. i <= Len(u) /\ i \in 1..(Len(p) - 1) BY <1>4, <2>1, <2>4
    <3> QED BY <1>4, <2>2, <2>3, <2>4, <3>1
  <2>5. CASE ~(i + 1 <= Len(p))
    <3>1. ~(i <= Len(u)) /\ i + 1 - Len(p) = i - Len(u) BY <1>4, <2>1, <2>5
    <3> QED BY <2>2, <2>3, <2>5, <3>1
  <2> QED BY <2>4, <2>5
<1>12. w = v BY <1>10, <1>11, SeqEqual
<1> QED BY <1>1, <1>2, <1>3, <1>7, <1>8, <1>12

(* The first thing that is not 100 Continue.                                *)
LEMMA StripNew ==
  ASSUME NEW d \in Seq(Downs), Strip(d) = <<>>, NEW x \in Seq(Downs), x # <<>>, ~Interim(x[1])
  PROVE  d \o x \in Seq(Downs) /\ Strip(d \o x) = x
<1>1. d \o x \in Seq(Downs) BY CatOf
<1>2. CASE d = <<>>
  <2>1. d \o x = x BY <1>2, CatOf
  <2> QED BY <1>1, <2>1 DEF Strip
<1>3. CASE d # <<>>
  <2>1. Interim(d[1]) /\ Tail(d) = <<>> BY <1>3 DEF Strip
  <2>2. Tail(d \o x) = Tail(d) \o x /\ (d \o x)[1] = d[1] /\ d \o x # <<>> BY <1>3, TailCat
  <2>3. Tail(d) \o x = x BY <2>1, CatOf, EmptySeq
  <2> QED BY <1>1, <2>1, <2>2, <2>3 DEF Strip
<1> QED BY <1>2, <1>3

(* More behind it.                                                          *)
LEMMA StripMore ==
  ASSUME NEW d \in Seq(Downs), Strip(d) # <<>>, NEW x \in Seq(Downs)
  PROVE  /\ d \o x \in Seq(Downs) /\ Strip(d \o x) = Strip(d) \o x /\ Strip(d \o x) # <<>>
         /\ Strip(d \o x)[1] = Strip(d)[1] /\ Tail(Strip(d \o x)) = Tail(Strip(d)) \o x
         /\ Tail(Strip(d)) \in Seq(Downs)
<1>1. PICK e \in Seq(Downs) : e = Strip(d) BY TailOf DEF Strip
<1>2. e # <<>> /\ d # <<>> BY <1>1 DEF Strip
<1>3. Tail(d \o x) = Tail(d) \o x /\ (d \o x)[1] = d[1] /\ d \o x # <<>> BY <1>2, TailCat
<1>4. Strip(d \o x) = e \o x BY <1>1, <1>2, <1>3 DEF Strip
<1>5. Tail(e \o x) = Tail(e) \o x /\ (e \o x)[1] = e[1] /\ e \o x # <<>> BY <1>2, TailCat
<1>6. Tail(e) \in Seq(Downs) BY <1>2, TailOf
<1>7. d \o x \in Seq(Downs) BY CatOf
<1> QED BY <1>1, <1>4, <1>5, <1>6, <1>7

(* A response whose head is just written is answered: x is its head with as *)
(* much of its body, and the session sends the rest, or has closed.         *)
LEMMA FreshAnswer ==
  ASSUME NEW n \in Links, NEW m \in Links, NEW t \in Sessions, NEW role \in Roles, NEW cl \in Clients,
         NEW mood \in BOOLEAN, role # "body", role \in Exchanging,
         Strip(n.down) = <<>>, NEW h \in Replies, Final(h, cl), NEW y \in Seq(Pieces),
         n.cut => n.down = <<>>, m.cut = n.cut,
         m.down = (IF n.cut THEN n.down ELSE n.down \o (<<h>> \o y)),
         Answered(m, t, h, role, cl, mood), Body(m, t, h, 0, y, cl, mood)
  PROVE  Replied(m, t, role, cl, mood)
<1>1. CASE n.cut
  <2>1. Strip(m.down) = <<>> BY <1>1 DEF Strip
  <2> QED BY <1>1, <2>1 DEF Replied
<1>2. CASE ~n.cut
  <2>1. PICK x : x = <<h>> \o y OBVIOUS
  <2>2. <<h>> \in Seq(Downs) /\ y \in Seq(Downs) BY SeqMonotonic DEF Downs
  <2>3. x \in Seq(Downs) /\ x # <<>> /\ x[1] = h
    <3>1. <<h>> # <<>> /\ <<h>>[1] = h OBVIOUS
    <3>2. PICK g \in Seq(Downs) : g = <<h>> BY <2>2
    <3> QED BY <2>1, <2>2, <3>1, <3>2, CatOf, TailCat
  <2>4. Tail(x) = y
    <3>1. PICK g \in Seq(Downs) : g = <<h>> BY <2>2
    <3>2. g # <<>> /\ Tail(g) = <<>> BY <3>1
    <3>3. Tail(g \o y) = Tail(g) \o y BY <2>2, <3>2, TailCat
    <3>4. <<>> \o y = y BY <2>2, ConcatEmptySeq
    <3> QED BY <2>1, <3>1, <3>2, <3>3, <3>4
  <2>5. ~Interim(h)
    <3>1. PICK v \in 100..599 : v = h.status BY DEF Replies
    <3>2. v >= 200 BY <3>1 DEF Final
    <3>3. v \notin 100..199 BY <3>2
    <3> QED BY <3>1, <3>3 DEF Interim
  <2>6. n.down \in Seq(Downs) BY DEF Links, Downs
  <2>7. Strip(m.down) = x BY <1>2, <2>1, <2>3, <2>5, <2>6, StripNew
  <2>8. Answer(m, t, h, 0, y, role, cl, mood) BY DEF Answer
  <2> QED BY <2>3, <2>4, <2>7, <2>8 DEF Replied
<1> QED BY <1>1, <1>2

-----------------------------------------------------------------------------
(* The session serves a request.                                            *)

(* A session at work has a request of this client, or of one that is gone.  *)
LEMMA AtWork ==
  ASSUME NEW n, NEW s, NEW role, NEW cl, NEW calm, Fit(n, s, role, cl, calm), s.pc \in Serving
  PROVE  /\ role \in Exchanging \cup {"gone"} /\ ~NextHead(s) /\ n.sOpen
         /\ role \in Exchanging => Served(n, s, role, cl) /\ n.cOpen /\ (calm => ~n.cut)
         /\ role = "gone" => ~n.cOpen
         /\ n.cut => n.up = <<>> /\ n.down = <<>>
         /\ s.req \in Requests
<1>1. ~NextHead(s) /\ s.pc # "closed" BY DEF NextHead, Serving, Sending, Reading
<1>2. role \notin {"idle", "write"} BY <1>1 DEF Fit, Good, Rested
<1>3. role \in Roles /\ Opened(n, s, role, calm) /\ Upward(n, s, role, cl, calm)
      /\ (role \in Exchanging => Exchange(n, s, role, cl, calm))
  BY DEF Fit, Good
<1> QED BY <1>1, <1>2, <1>3 DEF Roles, Using, Opened, Upward, Exchange, Exchanging

(* A step of it that leaves it at work.                                     *)
LEMMA ServingStep ==
  ASSUME NEW n, NEW s, NEW role, NEW cl, NEW calm, Fit(n, s, role, cl, calm), s.pc \in Serving,
         NEW m \in Links, NEW t \in Sessions, NEW mood \in BOOLEAN, mood => calm,
         t.pc \in Serving, t.id = s.id, t.req = s.req,
         m.cOpen = n.cOpen, m.sOpen = n.sOpen, m.cut = n.cut,
         m.cut => m.up = <<>> /\ m.down = <<>>,
         role \in Exchanging => /\ Strip(m.down) = <<>>
                                /\ t.pc \in {"too large", "stream", "consume"} => m.down = <<>>,
         Upward(m, t, role, cl, mood)
  PROVE  Fit(m, t, role, cl, mood)
<1>1. ~NextHead(t) /\ t.pc # "closed" BY DEF NextHead, Serving, Sending, Reading
<1>2. /\ role \in Exchanging \cup {"gone"} /\ n.sOpen
      /\ role \in Exchanging => Served(n, s, role, cl) /\ n.cOpen /\ (calm => ~n.cut)
      /\ role = "gone" => ~n.cOpen
  BY AtWork
<1>3. Opened(m, t, role, mood)
  <2>1. m.cOpen <=> role # "gone" BY <1>2 DEF Exchanging
  <2>2. m.cOpen /\ mood => ~m.cut BY <1>2
  <2> QED BY <1>1, <1>2, <2>1, <2>2 DEF Opened
<1>4. role \in Exchanging => Served(m, t, role, cl) BY <1>2 DEF Served
<1>5. role \notin {"idle", "write"} BY <1>2 DEF Exchanging
<1> QED BY <1>1, <1>3, <1>4, <1>5 DEF Fit, Good, Exchange, Asked

(* A body of which nothing is missing has been consumed.                    *)
LEMMA BodyConsumed ==
  ASSUME NEW n, NEW s, NEW role, NEW cl, NEW calm, Fit(n, s, role, cl, calm), s.pc \in Reading,
         ~Chunked(s.req), s.left = 0
  PROVE  Consumed(n, role, cl)
<1>1. /\ n.up \in Seq(Calls \cup Pieces) /\ role \in Roles /\ cl \in Clients /\ calm \in BOOLEAN
      /\ Rest(s.req, 0, n.up, role, cl, calm)
  BY DEF Fit, Good, Upward, Links
<1>2. n.up = <<>> /\ (role = "produce" => cl.left = 0) BY <1>1, RestSpent
<1>3. role = "produce" => ~Chunked(cl.req)
  <2>1. ASSUME role = "produce" PROVE s.req = cl.req
    <3>1. role \in Exchanging /\ s.pc \in Serving BY <2>1 DEF Exchanging, Serving
    <3>2. Served(n, s, role, cl) BY <3>1, AtWork
    <3> QED BY <3>2 DEF Served
  <2> QED BY <2>1
<1> QED BY <1>2, <1>3 DEF Consumed, NoMore

(* A head is read.                                                          *)
LEMMA HeadRead ==
  ASSUME NEW n, NEW s, NEW role, NEW cl, NEW calm, Fit(n, s, role, cl, calm),
         s.pc = "head", n.up # <<>>,
         NEW m \in Links, NEW t \in Sessions, NEW tok, tok = n.up[1],
         m.cOpen = n.cOpen, m.sOpen = n.sOpen, m.cut = n.cut, m.down = n.down, m.up = Tail(n.up),
         t.pc \in Reading \cup {"handler"}, t.id = tok.id, t.req = tok.req, t.left = tok.req.size,
         t.complete => ~Chunked(tok.req) /\ tok.req.size = 0,
         t.pc = "handler" => t.complete,
         t.route # "none", t.pc \in {"too large", "stream"} => t.route = "stream",
         t.pc # "body"
  PROVE  Fit(m, t, role, cl, calm)
<1>1. Asked(n, s) /\ NextHead(s) /\ s.pc # "closed" BY DEF Asked, NextHead
<1>2. /\ n \in Links /\ role \in Roles /\ cl \in Clients /\ calm \in BOOLEAN /\ Got(cl)
      /\ role \in Using => cl.pc = role /\ cl.req \in Requests
      /\ Opened(n, s, role, calm) /\ Upward(n, s, role, cl, calm)
      /\ role \in {"idle", "write"} => Rested(n, s, calm)
      /\ role \in Exchanging => Exchange(n, s, role, cl, calm)
  BY DEF Fit, Good
<1>3. tok \in Calls /\ Rest(t.req, t.left, m.up, role, cl, calm) BY <1>1, <1>2 DEF Upward
<1>4. role \notin {"idle", "write"} BY <1>1, <1>2 DEF Rested
<1>5. role \in Exchanging => Waiting(n, s, role, cl) BY <1>1, <1>2 DEF Exchange
<1>6. role \in Exchanging => t.req = cl.req BY <1>5 DEF Waiting
<1>7. ASSUME t.complete PROVE Consumed(m, role, cl)
  <2>1. Rest(t.req, 0, m.up, role, cl, calm) /\ ~Chunked(t.req) BY <1>3, <1>7
  <2>2. m.up \in Seq(Calls \cup Pieces) BY DEF Links
  <2>3. m.up = <<>> /\ (role = "produce" => cl.left = 0)
    <3>1. PICK r, b, l, mood : r = t.req /\ b = m.up /\ l = cl /\ mood = calm OBVIOUS
    <3>2. b \in Seq(Calls \cup Pieces) /\ ~Chunked(r) BY <2>1, <2>2, <3>1
    <3>3. Rest(r, 0, b, role, l, mood) BY <2>1, <3>1
    <3>4. l \in Clients BY <1>2, <3>1
    <3>5. b = <<>> /\ (role = "produce" => l.left = 0) BY <3>2, <3>3, <3>4, RestSpent
    <3> QED BY <3>1, <3>5
  <2>4. role = "produce" => ~Chunked(cl.req) BY <1>6, <2>1 DEF Exchanging
  <2> QED BY <2>3, <2>4 DEF Consumed, NoMore
<1>8. /\ t.pc \in Serving /\ ~NextHead(t) /\ t.pc # "closed" /\ t.pc \notin Sending /\ t.pc # "answer"
  BY DEF Serving, Reading, NextHead, Sending
<1>9. t.req \in Requests BY <1>3 DEF Calls
<1>10. Upward(m, t, role, cl, calm) BY <1>3, <1>7, <1>8, <1>9 DEF Upward, Asked
<1>11. Opened(m, t, role, calm)
  <2>1. n.cut => FALSE BY <1>2 DEF Opened
  <2> QED BY <1>1, <1>2, <1>8, <2>1 DEF Opened
<1>12. role \in Exchanging => Served(m, t, role, cl)
  <2>1. Strip(<<>>) = <<>> BY DEF Strip
  <2> QED BY <1>5, <2>1 DEF Served, Waiting
<1> QED BY <1>2, <1>4, <1>8, <1>10, <1>11, <1>12 DEF Fit, Good, Exchange, Asked

(* An answer of serve()'s own, after which the session closes.              *)
LEMMA AnswersAndCloses ==
  ASSUME NEW n, NEW s, NEW role, NEW cl, NEW calm, Fit(n, s, role, cl, calm), s.pc \in Serving,
         NEW m \in Links, NEW t \in Sessions, NEW mood \in BOOLEAN, NEW h \in Replies,
         h.id = s.id, h.status >= 200, h.framing = "length", h.length = 1, ~h.keep,
         h.size = (IF omit_body(s.req.method, h.status) THEN 0 ELSE 1),
         t.pc = "closed", m.cOpen = n.cOpen, ~m.sOpen, m.cut = n.cut,
         n.cOpen => /\ m.up = n.up
                    /\ m.down = (IF n.cut THEN n.down ELSE n.down \o (<<h>> \o Units(s.id, h.size))),
         ~n.cOpen => m.up = <<>> /\ m.down = <<>>,
         mood => calm /\ ~n.cOpen
  PROVE  Fit(m, t, role, cl, mood)
<1>1. /\ n \in Links /\ s \in Sessions /\ role \in Roles /\ cl \in Clients /\ calm \in BOOLEAN /\ Got(cl)
      /\ role \in Using => cl.pc = role /\ cl.req \in Requests
      /\ Opened(n, s, role, calm)
  BY DEF Fit, Good
<1>2. /\ role \in Exchanging \cup {"gone"}
      /\ role \in Exchanging => Served(n, s, role, cl) /\ n.cOpen
      /\ role = "gone" => ~n.cOpen
      /\ n.cut => n.up = <<>> /\ n.down = <<>>
  BY AtWork
<1>3. ~NextHead(t) /\ ~Asked(m, t) /\ t.pc \notin Serving /\ t.pc \notin Sending /\ Owed(t) = 0
  BY DEF NextHead, Asked, Sending, Serving, Reading, Owed
<1>4. Opened(m, t, role, mood)
  <2>1. m.cOpen <=> role # "gone" BY <1>2 DEF Exchanging
  <2>2. m.cut => m.up = <<>> /\ m.down = <<>> BY <1>2
  <2> QED BY <2>1, <2>2 DEF Opened
<1>5. Upward(m, t, role, cl, mood) BY <1>3 DEF Upward, Serving, Reading
<1>6. ASSUME role \in Exchanging PROVE Replied(m, t, role, cl, mood)
  <2>1. /\ role # "body" /\ s.id = cl.k /\ s.req = cl.req /\ Strip(n.down) = <<>> /\ n.cOpen /\ ~mood
    BY <1>2, <1>6 DEF Served
  <2>2. PICK y : y = Units(s.id, h.size) OBVIOUS
  <2>3. h.size \in {0, 1} /\ s.id \in Ids BY <1>1 DEF Sessions
  <2>4. /\ y \in Seq(Pieces) /\ Len(y) = h.size /\ DOMAIN y = 1..h.size
        /\ \A i \in 1..h.size : y[i].t = "data" /\ y[i].id = s.id
        /\ h.size = 0 => y = <<>>
    BY <2>2, <2>3, UnitsAre
  <2>5. NoBody(h, cl) <=> omit_body(s.req.method, h.status)
    BY <2>1 DEF NoBody, no_body, omit_body
  <2>6. Final(h, cl) BY <2>1, <2>5 DEF Final
  <2>7. Answered(m, t, h, role, cl, mood) BY <1>3, <2>1 DEF Answered
  <2>8. Amount(m, t, h, 0 + Len(y), mood) BY <1>3, <2>3, <2>4 DEF Amount
  <2>9. Body(m, t, h, 0, y, cl, mood)
    <3>1. \A i \in DOMAIN y : y[i].id = cl.k /\ y[i].t = "data" BY <2>1, <2>4
    <3>2. NoBody(h, cl) => y = <<>> /\ h.size = 0 BY <2>4, <2>5
    <3>3. BodyOfUnits(m, t, h, 0, y, mood) BY <3>1, <2>8 DEF BodyOfUnits
    <3> QED BY <1>3, <3>1, <3>2, <3>3 DEF Body, Sending
  <2>10. m.down = (IF n.cut THEN n.down ELSE n.down \o (<<h>> \o y)) BY <2>1, <2>2
  <2>11. n.cut => n.down = <<>> BY <1>2
  <2>12. n \in Links /\ role \in Roles /\ cl \in Clients BY <1>1
  <2> QED BY <1>6, <2>1, <2>4, <2>6, <2>7, <2>9, <2>10, <2>11, <2>12, FreshAnswer
<1>7. role \notin {"idle", "write"} BY <1>2 DEF Exchanging
<1> QED BY <1>1, <1>3, <1>4, <1>5, <1>6, <1>7 DEF Fit, Good, Exchange

(* A handler is called, or the session turns to the body.                   *)
LEMMA Dispatched ==
  ASSUME NEW n, NEW s, NEW role, NEW cl, NEW calm, Fit(n, s, role, cl, calm),
         NEW t \in Sessions, NEW mood \in BOOLEAN, mood => calm,
         t.id = s.id, t.req = s.req, t.left = s.left, t.complete = s.complete, t.route = s.route,
         \/ s.pc = "handler" /\ t.pc = "answer"
         \/ s.pc = "stream" /\ t.pc = "consume"
         \/ s.pc = "stream" /\ t.pc = "answer" /\ (mood => s.complete)
  PROVE  Fit(n, t, role, cl, mood)
<1>1. /\ n \in Links /\ s \in Sessions /\ role \in Roles /\ cl \in Clients /\ calm \in BOOLEAN
      /\ Upward(n, s, role, cl, calm)
  BY DEF Fit, Good
<1>2. s.pc \in Serving /\ t.pc \in Serving /\ ~NextHead(t) /\ t.pc \notin Sending \cup {"handler"}
  BY DEF Serving, Reading, NextHead, Sending
<1>3. /\ role \in Exchanging => Served(n, s, role, cl)
      /\ n.cut => n.up = <<>> /\ n.down = <<>>
      /\ s.req \in Requests
  BY <1>2, AtWork
<1>4. t.pc = "answer" /\ (s.complete \/ mood) => Consumed(n, role, cl)
  <2>1. CASE s.pc = "handler" BY <1>1, <2>1 DEF Upward
  <2>2. CASE s.pc = "stream"
    <3>1. s.pc \in Reading BY <2>2 DEF Reading
    <3>2. s.complete => ~Chunked(s.req) /\ s.left = 0 BY <1>1, <3>1 DEF Upward
    <3> QED BY <2>2, <3>1, <3>2, BodyConsumed
  <2> QED BY <2>1, <2>2
<1>5. ASSUME t.pc = "consume" PROVE Rest(s.req, s.left, n.up, role, cl, mood) /\
                                    (s.complete => ~Chunked(s.req) /\ s.left = 0)
  <2>1. s.pc \in Reading BY <1>5 DEF Reading
  <2>2. /\ Rest(s.req, s.left, n.up, role, cl, calm)
        /\ s.complete => ~Chunked(s.req) /\ s.left = 0
    BY <1>1, <2>1 DEF Upward
  <2>3. n.up \in Seq(Calls \cup Pieces) /\ s.left \in Nat BY <1>1 DEF Links, Sessions
  <2> QED BY <1>1, <2>2, <2>3, RestWeaker
<1>6. t.pc \in Reading => t.pc = "consume" BY DEF Reading
<1>7. s.route # "none" BY <1>1, <1>2 DEF Upward
<1>8. Upward(n, t, role, cl, mood)
  BY <1>2, <1>3, <1>4, <1>5, <1>6, <1>7 DEF Upward, Asked
<1>9. role \in Exchanging => Strip(n.down) = <<>> /\ (t.pc = "consume" => n.down = <<>>)
  BY <1>3 DEF Served
<1>10. ~(t.pc \in {"too large", "stream"}) OBVIOUS
<1>11. n.cOpen = n.cOpen OBVIOUS
<1> QED BY <1>1, <1>2, <1>3, <1>8, <1>9, <1>10, <1>11, ServingStep

(* 100 Continue, with nothing before it.                                    *)
LEMMA StripInterim ==
  ASSUME NEW h \in Replies, h.status \in 100..199
  PROVE  Strip(<<>>) = <<>> /\ Strip(<<>> \o <<h>>) = <<>> /\ <<>> \o <<h>> \in Seq(Downs)
<1>1. h \in Downs BY DEF Downs
<1>2. <<h>> \in Seq(Downs) BY <1>1
<1>3. PICK g \in Seq(Downs) : g = <<h>> BY <1>2
<1>4. g # <<>> /\ g[1] = h /\ Tail(g) = <<>> BY <1>3
<1>5. Interim(h) BY DEF Interim, Replies
<1>6. <<>> \o g = g BY ConcatEmptySeq
<1> QED BY <1>2, <1>3, <1>4, <1>5, <1>6 DEF Strip

(* It is sent, if it is expected.                                           *)
LEMMA Continued ==
  ASSUME NEW n, NEW s, NEW role, NEW cl, NEW calm, Fit(n, s, role, cl, calm), s.pc = "consume",
         NEW m \in Links, NEW t \in Sessions, t.pc = "body",
         t.id = s.id, t.req = s.req, t.left = s.left, t.complete = s.complete, t.route = s.route,
         m.cOpen = n.cOpen, m.sOpen = n.sOpen, m.cut = n.cut, m.up = n.up,
         n.cut => m.down = n.down, n.down = <<>> => Strip(m.down) = <<>>
  PROVE  Fit(m, t, role, cl, calm)
<1>1. /\ n \in Links /\ s \in Sessions /\ role \in Roles /\ cl \in Clients /\ calm \in BOOLEAN
      /\ Upward(n, s, role, cl, calm)
  BY DEF Fit, Good
<1>2. /\ s.pc \in Serving /\ s.pc \in Reading /\ t.pc \in Serving /\ t.pc \in Reading
      /\ ~NextHead(t) /\ t.pc \notin Sending
  BY DEF Serving, Reading, NextHead, Sending
<1>3. /\ role \in Exchanging => Served(n, s, role, cl)
      /\ n.cut => n.up = <<>> /\ n.down = <<>>
      /\ s.req \in Requests
  BY <1>2, AtWork
<1>4. Upward(m, t, role, cl, calm) BY <1>1, <1>2 DEF Upward, Asked
<1>5. role \in Exchanging => Strip(m.down) = <<>> BY <1>3 DEF Served
<1>6. ~(t.pc \in {"too large", "stream", "consume"}) OBVIOUS
<1>7. m.cut => m.up = <<>> /\ m.down = <<>> BY <1>3
<1>8. PICK mood \in BOOLEAN : mood = calm BY <1>1
<1>9. mood => calm BY <1>8
<1>10. Upward(m, t, role, cl, mood) BY <1>4, <1>8
<1>11. Fit(m, t, role, cl, mood) BY <1>2, <1>5, <1>6, <1>7, <1>9, <1>10, ServingStep
<1> QED BY <1>8, <1>11

(* The session takes a piece of the body.                                   *)
LEMMA PieceRead ==
  ASSUME NEW n, NEW s, NEW role, NEW cl, NEW calm, Fit(n, s, role, cl, calm), s.pc = "body",
         n.up # <<>>, NEW m \in Links, NEW t \in Sessions,
         t.id = s.id, t.req = s.req, t.route = s.route,
         m.cOpen = n.cOpen, m.sOpen = n.sOpen, m.cut = n.cut, m.up = Tail(n.up), m.down = n.down,
         \/ /\ ~Chunked(s.req) /\ s.left > 0
            /\ t.pc = "body" /\ t.complete = s.complete /\ t.left = s.left - 1
         \/ /\ Chunked(s.req) /\ n.up[1].t = "chunk"
            /\ t.pc = "body" /\ t.complete = s.complete /\ t.left = s.left
         \/ /\ Chunked(s.req) /\ n.up[1].t = "last"
            /\ t.pc \in {"handler", "answer"} /\ t.complete
  PROVE  Fit(m, t, role, cl, calm)
<1>1. /\ n \in Links /\ s \in Sessions /\ role \in Roles /\ cl \in Clients /\ calm \in BOOLEAN
      /\ Upward(n, s, role, cl, calm)
  BY DEF Fit, Good
<1>2. /\ s.pc \in Serving /\ s.pc \in Reading /\ t.pc \in Serving
      /\ t.pc \notin {"too large", "stream", "consume"}
      /\ ~NextHead(t) /\ t.pc \notin Sending
  BY DEF Serving, Reading, NextHead, Sending
<1>3. /\ role \in Exchanging => Served(n, s, role, cl)
      /\ n.cut => n.up = <<>> /\ n.down = <<>>
      /\ s.req \in Requests
  BY <1>2, AtWork
<1>4. /\ n.up \in Seq(Calls \cup Pieces) /\ s.left \in Nat
      /\ Rest(s.req, s.left, n.up, role, cl, calm)
      /\ s.complete => ~Chunked(s.req) /\ s.left = 0
      /\ s.route # "none"
  BY <1>1, <1>2 DEF Links, Sessions, Upward
<1>5. /\ ~Chunked(s.req) => Rest(s.req, s.left - 1, m.up, role, cl, calm)
      /\ Chunked(s.req) /\ n.up[1].t = "chunk" => Rest(s.req, t.left, m.up, role, cl, calm)
      /\ Chunked(s.req) /\ n.up[1].t = "last" => m.up = <<>> /\ role # "produce"
  BY <1>1, <1>4, RestTaken
<1>6. Upward(m, t, role, cl, calm)
  <2>1. CASE t.pc = "body"
    <3>1. Rest(t.req, t.left, m.up, role, cl, calm) BY <1>5, <2>1
    <3>2. ~s.complete
      <4>1. CASE ~Chunked(s.req) /\ s.left > 0 BY <1>4, <4>1
      <4>2. CASE Chunked(s.req) BY <1>4, <4>2
      <4> QED BY <2>1, <4>1, <4>2
    <3>4. t.complete => ~Chunked(t.req) /\ t.left = 0 BY <2>1, <3>2
    <3> QED BY <1>2, <1>3, <1>4, <2>1, <3>1, <3>4 DEF Upward, Asked
  <2>2. CASE t.pc \in {"handler", "answer"}
    <3>1. Consumed(m, role, cl) /\ t.complete BY <1>5, <2>2 DEF Consumed, NoMore
    <3>2. t.pc \notin Reading BY <2>2 DEF Reading
    <3> QED BY <1>2, <1>3, <1>4, <2>2, <3>1, <3>2 DEF Upward, Asked
  <2> QED BY <2>1, <2>2
<1>7. role \in Exchanging => Strip(m.down) = <<>> BY <1>3 DEF Served
<1>8. ~n.cut BY <1>3
<1>9. PICK mood \in BOOLEAN : mood = calm BY <1>1
<1>10. mood => calm BY <1>9
<1>11. Upward(m, t, role, cl, mood) BY <1>6, <1>9
<1>12. Fit(m, t, role, cl, mood) BY <1>2, <1>7, <1>8, <1>10, <1>11, ServingStep
<1> QED BY <1>9, <1>12

(* The body is whole, or the handler of a stream route is told that it is   *)
(* not.                                                                     *)
LEMMA BodyEnds ==
  ASSUME NEW n, NEW s, NEW role, NEW cl, NEW calm, Fit(n, s, role, cl, calm), s.pc = "body",
         NEW t \in Sessions, NEW mood \in BOOLEAN, mood => calm,
         t.id = s.id, t.req = s.req, t.route = s.route,
         \/ ~Chunked(s.req) /\ s.left = 0 /\ t.pc \in {"handler", "answer"} /\ t.complete
         \/ t.pc = "answer" /\ t.complete = s.complete /\ (mood => n.up = <<>> /\ role = "gone")
  PROVE  Fit(n, t, role, cl, mood)
<1>1. /\ n \in Links /\ s \in Sessions /\ role \in Roles /\ cl \in Clients /\ calm \in BOOLEAN
      /\ Upward(n, s, role, cl, calm)
  BY DEF Fit, Good
<1>2. /\ s.pc \in Serving /\ s.pc \in Reading /\ t.pc \in Serving
      /\ t.pc \notin {"too large", "stream", "consume"} /\ t.pc \notin Reading
      /\ ~NextHead(t) /\ t.pc \notin Sending
  BY DEF Serving, Reading, NextHead, Sending
<1>3. /\ role \in Exchanging => Served(n, s, role, cl)
      /\ n.cut => n.up = <<>> /\ n.down = <<>>
      /\ s.req \in Requests
  BY <1>2, AtWork
<1>4. (s.complete => ~Chunked(s.req) /\ s.left = 0) /\ s.route # "none" BY <1>1, <1>2 DEF Upward
<1>5. ~Chunked(s.req) /\ s.left = 0 => Consumed(n, role, cl) BY <1>2, BodyConsumed
<1>6. mood /\ n.up = <<>> /\ role = "gone" => Consumed(n, role, cl) BY DEF Consumed, NoMore
<1>7. t.complete \/ mood => Consumed(n, role, cl) BY <1>4, <1>5, <1>6
<1>8. t.pc = "handler" => t.complete OBVIOUS
<1>9. Upward(n, t, role, cl, mood)
  BY <1>2, <1>3, <1>4, <1>7, <1>8 DEF Upward, Asked
<1>10. role \in Exchanging => Strip(n.down) = <<>> BY <1>3 DEF Served
<1> QED BY <1>1, <1>2, <1>3, <1>9, <1>10, ServingStep

-----------------------------------------------------------------------------
(* The session answers.                                                     *)

(* A response is sent whole, or its head with the body still to come.       *)
LEMMA Responded ==
  ASSUME NEW n, NEW s, NEW role, NEW cl, NEW calm, Fit(n, s, role, cl, calm), s.pc = "answer",
         NEW m \in Links, NEW t \in Sessions, NEW h \in Replies, NEW size \in Nat,
         NEW framing \in {"length", "chunked", "eof"}, NEW whole \in BOOLEAN, NEW omit \in BOOLEAN,
         NEW y \in Seq(Pieces), whole /\ ~omit => y = Units(s.id, size), ~whole \/ omit => y = <<>>,
         omit <=> omit_body(s.req.method, h.status),
         h.id = s.id, h.status >= 200, h.framing = WireFraming(h.status, framing),
         h.length = WireLength(h.status, framing, size), h.size = (IF omit THEN 0 ELSE size),
         h.keep => t.reusable /\ framing # "eof", whole => framing = "length",
         t.pc = (IF whole \/ omit THEN "sent" ELSE "transfer"),
         t.left = (IF whole \/ omit THEN 0 ELSE size),
         t.id = s.id, t.framing = framing, t.reusable => s.complete /\ t.count + 1 < MaxServed,
         m.cOpen = n.cOpen, m.sOpen = n.sOpen, m.cut = n.cut, m.up = n.up,
         m.down = (IF n.cut THEN n.down ELSE n.down \o (<<h>> \o y))
  PROVE  Fit(m, t, role, cl, calm)
<1>1. /\ n \in Links /\ s \in Sessions /\ role \in Roles /\ cl \in Clients /\ calm \in BOOLEAN /\ Got(cl)
      /\ role \in Using => cl.pc = role /\ cl.req \in Requests
      /\ Opened(n, s, role, calm)
      /\ s.complete \/ calm => Consumed(n, role, cl)
  BY DEF Fit, Good, Upward
<1>2. /\ role \in Exchanging \cup {"gone"} /\ n.sOpen
      /\ role \in Exchanging => Served(n, s, role, cl)
      /\ n.cut => n.up = <<>> /\ n.down = <<>>
  <2>1. s.pc \in Serving BY DEF Serving
  <2> QED BY <2>1, AtWork
<1>3. t.pc \in Sending /\ t.pc \notin Serving /\ t.pc # "closed" /\ t.pc # "head"
  BY DEF Sending, Serving, Reading
<1>4. NextHead(t) <=> t.reusable BY <1>3 DEF NextHead
<1>5. Consumed(n, role, cl) => Consumed(m, role, cl) BY DEF Consumed
<1>6. t.reusable \/ calm => Consumed(m, role, cl) BY <1>1, <1>5
<1>7. ~Asked(m, t) BY <1>4, <1>6 DEF Asked, Consumed
<1>8. Opened(m, t, role, calm) BY <1>1, <1>2, <1>3 DEF Opened
<1>9. Upward(m, t, role, cl, calm)
  <2>1. t.pc \notin Reading \cup {"handler", "answer"} BY <1>3 DEF Serving
  <2>2. t.pc \notin {"too large", "stream"} BY <2>1 DEF Reading
  <2> QED BY <1>3, <1>7, <2>1, <2>2 DEF Upward
<1>10. ASSUME role \in Exchanging PROVE Replied(m, t, role, cl, calm)
  <2>1. role # "body" /\ s.id = cl.k /\ s.req = cl.req /\ Strip(n.down) = <<>>
    BY <1>2, <1>10 DEF Served
  <2>2. NoBody(h, cl) <=> omit BY <2>1 DEF NoBody, no_body, omit_body
  <2>3. ~omit => h.framing = framing /\ h.length = (IF framing = "length" THEN size ELSE 0)
    <3>1. PICK v \in 100..599 : v = h.status BY DEF Replies
    <3>2. ~omit => v \notin 100..199 \cup {204, 205} BY <3>1 DEF omit_body, status_has_no_body
    <3>3. ~omit => WireFraming(v, framing) = framing
      BY <3>2 DEF WireFraming
    <3>4. ~omit => WireLength(v, framing, size) = (IF framing = "length" THEN size ELSE 0)
      BY <3>2 DEF WireLength
    <3> QED BY <3>1, <3>3, <3>4
  <2>4. h.framing = "eof" => framing = "eof" BY DEF WireFraming
  <2>5. Final(h, cl) BY <2>1, <2>2, <2>3, <2>4 DEF Final
  <2>6. Answered(m, t, h, role, cl, calm) BY <1>3, <1>4, <1>6, <2>1 DEF Answered
  <2>7. Owed(t) = t.left /\ t.left \in Nat BY DEF Owed, Sessions
  <2>8. /\ \A i \in DOMAIN y : y[i].t = "data" /\ y[i].id = cl.k
        /\ whole /\ ~omit => Len(y) = size
        /\ ~(whole /\ ~omit) => y = <<>> /\ Len(y) = 0
    <3>0. s.id \in Ids BY <1>1 DEF Sessions
    <3>1. PICK id \in Ids : id = s.id BY <3>0
    <3>2. PICK u : u = Units(s.id, size) OBVIOUS
    <3>3. /\ Len(u) = size /\ DOMAIN u = 1..size
          /\ \A i \in 1..size : u[i].t = "data" /\ u[i].id = cl.k
      <4>1. u = Units(id, size) /\ id = cl.k BY <2>1, <3>1, <3>2
      <4>2. /\ Len(Units(id, size)) = size /\ DOMAIN Units(id, size) = 1..size
            /\ \A i \in 1..size : Units(id, size)[i].t = "data" /\ Units(id, size)[i].id = id
        BY UnitsAre
      <4> QED BY <4>1, <4>2
    <3>4. CASE whole /\ ~omit BY <3>2, <3>3, <3>4
    <3>5. CASE ~(whole /\ ~omit)
      <4>1. y = <<>> BY <3>5
      <4>2. Len(y) = 0 /\ DOMAIN y = {} BY <4>1
      <4> QED BY <3>5, <4>1, <4>2
    <3> QED BY <3>4, <3>5
  <2>9. ~omit => Amount(m, t, h, 0 + Len(y), calm)
    <3>1. ~omit => h.size = size /\ t.left = (IF whole THEN 0 ELSE size) OBVIOUS
    <3>2. ~omit => Len(y) = (IF whole THEN size ELSE 0) BY <2>8
    <3>3. ASSUME ~omit PROVE 0 + Len(y) + Owed(t) = h.size
      <4>1. PICK o \in Nat : o = Owed(t) BY <2>7
      <4>2. o = (IF whole THEN 0 ELSE size) /\ Len(y) = (IF whole THEN size ELSE 0) /\ h.size = size
        BY <2>7, <3>1, <3>2, <3>3, <4>1
      <4>3. CASE whole BY <4>1, <4>2, <4>3
      <4>4. CASE ~whole BY <4>1, <4>2, <4>4
      <4> QED BY <4>3, <4>4
    <3>4. h.size \in Nat BY DEF Replies
    <3> QED BY <3>3, <3>4 DEF Amount
  <2>10. Body(m, t, h, 0, y, cl, calm)
    <3>1. NoBody(h, cl) => y = <<>> /\ h.size = 0 /\ t.pc # "transfer" BY <2>2, <2>8
    <3>2. ASSUME ~omit PROVE /\ BodyOfUnits(m, t, h, 0, y, calm)
                             /\ h.framing = "chunked" => BodyOfChunks(m, t, h, 0, y, calm)
                             /\ h.framing # "none" /\ t.framing = h.framing
      <4>1. BodyOfUnits(m, t, h, 0, y, calm) BY <2>8, <2>9, <3>2 DEF BodyOfUnits
      <4>2. ASSUME h.framing = "chunked" PROVE BodyOfChunks(m, t, h, 0, y, calm)
        <5>1. ~whole BY <2>3, <3>2, <4>2
        <5>2. y = <<>> /\ DOMAIN y = {} /\ t.pc = "transfer" BY <2>8, <3>2, <5>1
        <5> QED BY <2>9, <3>2, <5>2 DEF BodyOfChunks
      <4>3. h.framing # "none" /\ t.framing = h.framing BY <2>3, <3>2
      <4> QED BY <4>1, <4>2, <4>3
    <3>3. \A i \in DOMAIN y : y[i].id = cl.k BY <2>8
    <3> QED BY <2>2, <3>1, <3>2, <3>3 DEF Body
  <2>11. n.cut => n.down = <<>> BY <1>2
  <2>12. PICK mood \in BOOLEAN : mood = calm BY <1>1
  <2>13. Answered(m, t, h, role, cl, mood) /\ Body(m, t, h, 0, y, cl, mood) BY <2>6, <2>10, <2>12
  <2>14. Replied(m, t, role, cl, mood)
    <3>1. n \in Links /\ role \in Roles /\ cl \in Clients BY <1>1
    <3>2. role # "body" /\ Strip(n.down) = <<>> BY <2>1
    <3> QED BY <1>10, <2>5, <2>11, <2>12, <2>13, <3>1, <3>2, FreshAnswer
  <2> QED BY <2>12, <2>14
<1>11. role \notin {"idle", "write"} BY <1>2 DEF Exchanging
<1> QED BY <1>1, <1>3, <1>7, <1>8, <1>9, <1>10, <1>11 DEF Fit, Good, Exchange

(* What an answer under way says of a session that sends its body.          *)
LEMMA AnswerUnderWay ==
  ASSUME NEW n \in Links, NEW s \in Sessions, NEW h, NEW g \in Nat, NEW b \in Seq(Downs),
         NEW role, NEW cl, NEW calm,
         Answer(n, s, h, g, b, role, cl, calm), s.pc = "transfer"
  PROVE  /\ ~NoBody(h, cl) /\ s.framing = h.framing /\ s.id = cl.k
         /\ h.size \in Nat /\ s.left \in Nat /\ g + Len(b) + s.left <= h.size
         /\ ~n.cut => g + Len(b) + s.left = h.size
         /\ h.framing \in {"length", "chunked", "eof"}
         /\ h.framing # "chunked" => \A i \in DOMAIN b : b[i].t = "data"
         /\ h.framing = "chunked" => \A i \in DOMAIN b : b[i].t = "chunk"
<1>1. Final(h, cl) /\ Answered(n, s, h, role, cl, calm) /\ Body(n, s, h, g, b, cl, calm) BY DEF Answer
<1>2. h.size \in Nat /\ s.left \in Nat /\ Len(b) \in Nat BY <1>1 DEF Final, Replies, Sessions
<1>3. h.framing \in Framings BY <1>1 DEF Final, Replies
<1>4. /\ ~NoBody(h, cl) /\ s.framing = h.framing /\ h.framing \in {"length", "chunked", "eof"}
      /\ h.framing # "chunked" => BodyOfUnits(n, s, h, g, b, calm)
      /\ h.framing = "chunked" => BodyOfChunks(n, s, h, g, b, calm)
  BY <1>1, <1>3 DEF Body, Framings
<1>5. s.id = cl.k BY <1>1 DEF Answered, Sending
<1>6. Owed(s) = s.left /\ (~n.cut => Exact(n, s, calm)) BY DEF Owed, Exact
<1>7. h.framing = "chunked" => /\ \A i \in DOMAIN b : b[i].t = "chunk"
                               /\ Amount(n, s, h, g + Len(b), calm)
  <2>1. ASSUME h.framing = "chunked" PROVE ~(b # <<>> /\ b[Len(b)].t = "last")
    BY <1>4, <2>1 DEF BodyOfChunks
  <2>2. ASSUME h.framing = "chunked", NEW i \in DOMAIN b PROVE b[i].t = "chunk"
    <3>1. b # <<>> BY <2>2
    <3> QED BY <1>4, <2>1, <2>2, <3>1 DEF BodyOfChunks
  <2> QED BY <1>4, <2>1, <2>2 DEF BodyOfChunks
<1>8. h.framing # "chunked" => /\ \A i \in DOMAIN b : b[i].t = "data"
                               /\ Amount(n, s, h, g + Len(b), calm)
  BY <1>4 DEF BodyOfUnits
<1>9. Amount(n, s, h, g + Len(b), calm) BY <1>7, <1>8
<1>10. /\ g + Len(b) + s.left <= h.size
       /\ ~n.cut => g + Len(b) + s.left = h.size
  BY <1>6, <1>9 DEF Amount
<1> QED BY <1>2, <1>4, <1>5, <1>7, <1>8, <1>10

(* And that it stays one with c under way and x left to send.               *)
LEMMA AnswerGoesOn ==
  ASSUME NEW n \in Links, NEW s \in Sessions, NEW h, NEW g \in Nat, NEW b \in Seq(Downs),
         NEW role, NEW cl, NEW calm,
         Answer(n, s, h, g, b, role, cl, calm), s.pc = "transfer",
         NEW m \in Links, NEW t \in Sessions, NEW c \in Seq(Downs),
         t.pc \in Sending, t.id = s.id, t.framing = s.framing, t.reusable = s.reusable,
         m.up = n.up, m.cut = n.cut,
         \A i \in DOMAIN c : c[i].id = cl.k,
         h.framing # "chunked" => BodyOfUnits(m, t, h, g, c, calm),
         h.framing = "chunked" => BodyOfChunks(m, t, h, g, c, calm)
  PROVE  Answer(m, t, h, g, c, role, cl, calm)
<1>1. Final(h, cl) /\ Answered(n, s, h, role, cl, calm) BY DEF Answer
<1>2. ~NoBody(h, cl) /\ s.framing = h.framing /\ h.framing \in {"length", "chunked", "eof"}
  BY AnswerUnderWay
<1>3. t.pc \notin {"head", "closed"} /\ s.pc \in Sending /\ s.pc \notin {"head", "closed"}
  BY DEF Sending
<1>4. NextHead(t) <=> NextHead(s) BY <1>3 DEF NextHead
<1>5. Answered(m, t, h, role, cl, calm) BY <1>1, <1>3, <1>4 DEF Answered, Consumed
<1>6. Body(m, t, h, g, c, cl, calm) BY <1>2 DEF Body
<1> QED BY <1>1, <1>5, <1>6 DEF Answer

(* One piece more is written, or the last chunk.                            *)
LEMMA AnswerMore ==
  ASSUME NEW n \in Links, NEW s \in Sessions, NEW h, NEW g \in Nat, NEW b \in Seq(Downs),
         NEW role, NEW cl, NEW calm,
         Answer(n, s, h, g, b, role, cl, calm), s.pc = "transfer", ~n.cut,
         NEW m \in Links, NEW t \in Sessions, NEW tok \in Pieces, tok.id = s.id,
         t.id = s.id, t.framing = s.framing, t.reusable = s.reusable,
         m.up = n.up, m.cut = n.cut,
         \/ /\ s.left > 0 /\ t.pc = "transfer" /\ t.left = s.left - 1
            /\ tok.t = (IF s.framing = "chunked" THEN "chunk" ELSE "data")
         \/ s.left = 0 /\ t.pc = "sent" /\ s.framing = "chunked" /\ tok.t = "last"
  PROVE  b \o <<tok>> \in Seq(Downs) /\ Answer(m, t, h, g, b \o <<tok>>, role, cl, calm)
<1>1. /\ ~NoBody(h, cl) /\ s.framing = h.framing /\ s.id = cl.k
      /\ h.size \in Nat /\ s.left \in Nat /\ g + Len(b) + s.left = h.size
      /\ h.framing \in {"length", "chunked", "eof"}
      /\ h.framing # "chunked" => \A i \in DOMAIN b : b[i].t = "data"
      /\ h.framing = "chunked" => \A i \in DOMAIN b : b[i].t = "chunk"
  BY AnswerUnderWay
<1>2. \A i \in DOMAIN b : b[i].id = cl.k BY DEF Answer, Body
<1>3. PICK c : c = b \o <<tok>> OBVIOUS
<1>4. /\ c \in Seq(Downs) /\ Len(c) = Len(b) + 1 /\ Len(b) \in Nat
      /\ DOMAIN c = 1..(Len(b) + 1) /\ DOMAIN b = 1..Len(b)
      /\ \A i \in DOMAIN b : c[i] = b[i]
      /\ c[Len(b) + 1] = tok /\ c # <<>>
  <2>1. tok \in Downs BY DEF Downs
  <2> QED BY <1>3, <2>1, OneMore
<1>5. \A i \in DOMAIN c : i \in DOMAIN b \/ i = Len(b) + 1 BY <1>4
<1>6. \A i \in DOMAIN c : c[i].id = cl.k BY <1>1, <1>2, <1>4, <1>5
<1>7. t.pc \in Sending /\ t.pc # "closed" BY DEF Sending
<1>8. CASE /\ s.left > 0 /\ t.pc = "transfer" /\ t.left = s.left - 1
           /\ tok.t = (IF s.framing = "chunked" THEN "chunk" ELSE "data")
  <2>1. g + Len(c) + Owed(t) = h.size BY <1>1, <1>4, <1>8 DEF Owed
  <2>2. Amount(m, t, h, g + Len(c), calm) BY <1>1, <2>1 DEF Amount
  <2>3. ASSUME h.framing # "chunked" PROVE BodyOfUnits(m, t, h, g, c, calm)
    <3>1. \A i \in DOMAIN c : c[i].t = "data" BY <1>1, <1>4, <1>5, <1>8, <2>3
    <3> QED BY <2>2, <3>1 DEF BodyOfUnits
  <2>4. ASSUME h.framing = "chunked" PROVE BodyOfChunks(m, t, h, g, c, calm)
    <3>1. \A i \in DOMAIN c : c[i].t = "chunk" BY <1>1, <1>4, <1>5, <1>8, <2>4
    <3>2. Len(c) \in DOMAIN c BY <1>4
    <3> QED BY <1>8, <2>2, <3>1, <3>2 DEF BodyOfChunks
  <2>5. Answer(m, t, h, g, c, role, cl, calm) BY <1>4, <1>6, <1>7, <2>3, <2>4, AnswerGoesOn
  <2> QED BY <1>3, <1>4, <2>5
<1>9. CASE s.left = 0 /\ t.pc = "sent" /\ s.framing = "chunked" /\ tok.t = "last"
  <2>1. g + Len(c) - 1 = h.size BY <1>1, <1>4, <1>9
  <2>2. \A i \in DOMAIN c : c[i].t \in {"chunk", "last"} /\ (c[i].t = "last" => i = Len(c))
    BY <1>1, <1>4, <1>5, <1>9
  <2>3. c[Len(c)].t = "last" BY <1>4, <1>9
  <2>4. BodyOfChunks(m, t, h, g, c, calm) BY <1>4, <1>9, <2>1, <2>2, <2>3 DEF BodyOfChunks
  <2>5. Answer(m, t, h, g, c, role, cl, calm) BY <1>1, <1>4, <1>6, <1>7, <1>9, <2>4, AnswerGoesOn
  <2> QED BY <1>3, <1>4, <2>5
<1> QED BY <1>8, <1>9

(* Nothing is written: the last block is out, or the connection is cut.     *)
LEMMA AnswerSame ==
  ASSUME NEW n \in Links, NEW s \in Sessions, NEW h, NEW g \in Nat, NEW b \in Seq(Downs),
         NEW role, NEW cl, NEW calm,
         Answer(n, s, h, g, b, role, cl, calm), s.pc = "transfer",
         NEW m \in Links, NEW t \in Sessions,
         t.id = s.id, t.framing = s.framing, t.reusable = s.reusable,
         m.up = n.up, m.cut = n.cut,
         \/ s.left = 0 /\ t.pc = "sent" /\ (s.framing = "chunked" => n.cut)
         \/ s.left > 0 /\ t.pc = "transfer" /\ t.left = s.left - 1 /\ n.cut
  PROVE  Answer(m, t, h, g, b, role, cl, calm)
<1>1. /\ ~NoBody(h, cl) /\ s.framing = h.framing /\ s.id = cl.k
      /\ h.size \in Nat /\ s.left \in Nat /\ g + Len(b) + s.left <= h.size
      /\ ~n.cut => g + Len(b) + s.left = h.size
      /\ h.framing \in {"length", "chunked", "eof"}
      /\ h.framing # "chunked" => \A i \in DOMAIN b : b[i].t = "data"
      /\ h.framing = "chunked" => \A i \in DOMAIN b : b[i].t = "chunk"
  BY AnswerUnderWay
<1>2. \A i \in DOMAIN b : b[i].id = cl.k BY DEF Answer, Body
<1>3. t.pc \in Sending BY DEF Sending
<1>4. Len(b) \in Nat /\ (b # <<>> => Len(b) \in DOMAIN b) BY EmptySeq
<1>5. Owed(t) \in Nat /\ Owed(t) <= s.left /\ (~n.cut => Owed(t) = s.left)
  <2>1. CASE s.left = 0 /\ t.pc = "sent" BY <1>1, <2>1 DEF Owed
  <2>2. CASE s.left > 0 /\ t.pc = "transfer" /\ t.left = s.left - 1 /\ n.cut
    BY <1>1, <2>2 DEF Owed
  <2> QED BY <2>1, <2>2
<1>6. Exact(m, t, calm) => ~n.cut BY DEF Exact
<1>7. Amount(m, t, h, g + Len(b), calm) BY <1>1, <1>4, <1>5, <1>6 DEF Amount
<1>8. h.framing # "chunked" => BodyOfUnits(m, t, h, g, b, calm) BY <1>1, <1>7 DEF BodyOfUnits
<1>9. ASSUME h.framing = "chunked" PROVE BodyOfChunks(m, t, h, g, b, calm)
  <2>1. n.cut BY <1>1, <1>9
  <2> QED BY <1>1, <1>4, <1>6, <1>7, <1>9, <2>1 DEF BodyOfChunks
<1> QED BY <1>2, <1>3, <1>8, <1>9, AnswerGoesOn

(* A block of the body, the last chunk, or nothing after a body of a length.*)
LEMMA Transferred ==
  ASSUME NEW n, NEW s, NEW role, NEW cl, NEW calm, Fit(n, s, role, cl, calm), s.pc = "transfer",
         NEW m \in Links, NEW t \in Sessions, NEW tok \in Pieces, tok.id = s.id,
         t.id = s.id, t.framing = s.framing, t.reusable = s.reusable, t.count = s.count,
         \/ /\ s.left > 0 /\ t.pc = "transfer" /\ t.left = s.left - 1
            /\ tok.t = (IF s.framing = "chunked" THEN "chunk" ELSE "data")
         \/ s.left = 0 /\ t.pc = "sent" /\ tok.t = "last",
         m.cOpen = n.cOpen, m.sOpen = n.sOpen, m.cut = n.cut, m.up = n.up,
         m.down = (IF ~n.cut /\ (s.left > 0 \/ s.framing = "chunked") THEN n.down \o <<tok>>
                                                                     ELSE n.down)
  PROVE  Fit(m, t, role, cl, calm)
<1>1. /\ n \in Links /\ s \in Sessions /\ role \in Roles /\ cl \in Clients /\ calm \in BOOLEAN /\ Got(cl)
      /\ role \in Using => cl.pc = role /\ cl.req \in Requests
      /\ Opened(n, s, role, calm) /\ Upward(n, s, role, cl, calm)
      /\ role \in {"idle", "write"} => Rested(n, s, calm)
      /\ role \in Exchanging => Exchange(n, s, role, cl, calm)
  BY DEF Fit, Good
<1>2. /\ s.pc \notin Serving \cup {"head", "closed"} /\ s.pc \in Sending
      /\ t.pc \notin Serving \cup {"head", "closed"} /\ t.pc \in Sending
      /\ NextHead(s) <=> NextHead(t)
  BY DEF Serving, Reading, Sending, NextHead
<1>3. Asked(m, t) <=> Asked(n, s) BY <1>2 DEF Asked
<1>4. n.cut => n.up = <<>> /\ n.down = <<>> /\ m.down = n.down BY <1>1 DEF Opened
<1>5. Opened(m, t, role, calm) BY <1>1, <1>2, <1>4 DEF Opened
<1>6. Upward(m, t, role, cl, calm)
  <2>1. t.pc \notin Reading \cup {"handler", "answer", "too large", "stream"}
    BY <1>2 DEF Serving, Reading
  <2> QED BY <1>1, <1>2, <1>3, <2>1 DEF Upward
<1>7. Quiet(s) => Quiet(t) /\ s.left = 0 /\ m.down = n.down
  <2>1. Quiet(s) => s.left = 0 /\ s.framing # "chunked" BY DEF Quiet
  <2>2. t.pc = "sent" => Quiet(t) BY DEF Quiet
  <2> QED BY <2>1, <2>2
<1>8. role \in {"idle", "write"} => Rested(m, t, calm) BY <1>1, <1>2, <1>7 DEF Rested
<1>9. n.down \in Seq(Downs) /\ cl.got \in Seq(Ids) BY <1>1 DEF Links, Clients, Downs
<1>10. s.left \in Nat BY <1>1 DEF Sessions
<1>11. ASSUME NEW h, NEW g \in Nat, NEW b \in Seq(Downs), Answer(n, s, h, g, b, role, cl, calm)
       PROVE  /\ m.down = n.down => Answer(m, t, h, g, b, role, cl, calm)
              /\ m.down # n.down => Answer(m, t, h, g, b \o <<tok>>, role, cl, calm)
  <2>1. CASE ~n.cut /\ (s.left > 0 \/ s.framing = "chunked")
    <3>1. Answer(m, t, h, g, b \o <<tok>>, role, cl, calm)
      BY <1>1, <1>10, <1>11, <2>1, AnswerMore
    <3>2. m.down # n.down
      <4>1. tok \in Downs BY DEF Downs
      <4>2. PICK d \in Seq(Downs) : d = n.down BY <1>9
      <4>3. Len(d \o <<tok>>) = Len(d) + 1 /\ Len(d) \in Nat BY <4>1, OneMore
      <4>4. d \o <<tok>> # d BY <4>3
      <4> QED BY <2>1, <4>2, <4>4
    <3> QED BY <3>1, <3>2
  <2>2. CASE ~(~n.cut /\ (s.left > 0 \/ s.framing = "chunked"))
    <3>1. Answer(m, t, h, g, b, role, cl, calm) BY <1>1, <1>10, <1>11, <2>2, AnswerSame
    <3> QED BY <2>2, <3>1
  <2> QED BY <2>1, <2>2
<1>12. ASSUME role \in Exchanging PROVE Exchange(m, t, role, cl, calm)
  <2>1. Exchange(n, s, role, cl, calm) BY <1>1, <1>12
  <2>2. CASE Asked(n, s)
    <3>1. Waiting(n, s, role, cl) BY <2>1, <2>2 DEF Exchange
    <3>2. Waiting(m, t, role, cl) BY <1>7, <3>1 DEF Waiting
    <3> QED BY <1>2, <1>3, <2>2, <3>2 DEF Exchange
  <2>3. CASE ~Asked(n, s)
    <3>1. Replied(n, s, role, cl, calm) BY <1>2, <2>1, <2>3 DEF Exchange
    <3>2. CASE role = "body"
      <4>1. Answer(n, s, cl.resp, Len(cl.got), n.down, role, cl, calm) BY <3>1, <3>2 DEF Replied
      <4>2. Len(cl.got) \in Nat BY <1>9
      <4>3. /\ m.down = n.down => Answer(m, t, cl.resp, Len(cl.got), n.down, role, cl, calm)
            /\ m.down # n.down => Answer(m, t, cl.resp, Len(cl.got), n.down \o <<tok>>, role, cl, calm)
        BY <1>9, <1>11, <4>1, <4>2
      <4>4. m.down # n.down => m.down = n.down \o <<tok>> OBVIOUS
      <4>5. Answer(m, t, cl.resp, Len(cl.got), m.down, role, cl, calm) BY <4>3, <4>4
      <4> QED BY <1>2, <1>3, <2>3, <3>2, <4>5 DEF Exchange, Replied
    <3>3. CASE role # "body" /\ Strip(n.down) = <<>>
      <4>1. n.cut BY <1>2, <3>1, <3>3 DEF Replied
      <4> QED BY <1>2, <1>3, <1>4, <2>3, <3>3, <4>1 DEF Exchange, Replied
    <3>4. CASE role # "body" /\ Strip(n.down) # <<>>
      <4>1. PICK d : d = Strip(n.down) OBVIOUS
      <4>2. Answer(n, s, d[1], 0, Tail(d), role, cl, calm) BY <3>1, <3>4, <4>1 DEF Replied
      <4>3. tok \in Downs BY DEF Downs
      <4>4. <<tok>> \in Seq(Downs) BY <4>3
      <4>5. PICK x \in Seq(Downs) : x = <<tok>> BY <4>4
      <4>6. /\ Strip(n.down \o x) # <<>> /\ Strip(n.down \o x)[1] = d[1]
            /\ Tail(Strip(n.down \o x)) = Tail(d) \o x /\ Tail(d) \in Seq(Downs)
        BY <1>9, <3>4, <4>1, StripMore
      <4>7. /\ m.down = n.down => Answer(m, t, d[1], 0, Tail(d), role, cl, calm)
            /\ m.down # n.down => Answer(m, t, d[1], 0, Tail(d) \o <<tok>>, role, cl, calm)
        BY <1>11, <4>2, <4>6
      <4>8. m.down # n.down => m.down = n.down \o x BY <4>5
      <4>9. /\ Strip(m.down) # <<>>
            /\ Answer(m, t, Strip(m.down)[1], 0, Tail(Strip(m.down)), role, cl, calm)
        <5>1. CASE m.down = n.down BY <3>4, <4>1, <4>7, <5>1
        <5>2. CASE m.down # n.down BY <4>5, <4>6, <4>7, <4>8, <5>2
        <5> QED BY <5>1, <5>2
      <4> QED BY <1>2, <1>3, <2>3, <3>4, <4>9 DEF Exchange, Replied
    <3> QED BY <3>2, <3>3, <3>4
  <2> QED BY <2>2, <2>3
<1> QED BY <1>1, <1>5, <1>6, <1>8, <1>12 DEF Fit, Good

(* Another turn of serve()'s loop.                                          *)
LEMMA NextTurn ==
  ASSUME NEW n, NEW s, NEW role, NEW cl, NEW calm, Fit(n, s, role, cl, calm),
         s.pc = "sent", s.reusable, NEW t \in Sessions, t.pc = "head"
  PROVE  Fit(n, t, role, cl, calm)
<1>1. /\ n \in Links /\ s \in Sessions /\ role \in Roles /\ cl \in Clients /\ calm \in BOOLEAN /\ Got(cl)
      /\ role \in Using => cl.pc = role /\ cl.req \in Requests
      /\ Opened(n, s, role, calm) /\ Upward(n, s, role, cl, calm)
      /\ role \in {"idle", "write"} => Rested(n, s, calm)
      /\ role \in Exchanging => Exchange(n, s, role, cl, calm)
  BY DEF Fit, Good
<1>2. /\ NextHead(s) /\ NextHead(t) /\ Quiet(s) /\ Quiet(t) /\ Owed(s) = 0 /\ Owed(t) = 0
      /\ s.pc \notin Serving /\ t.pc \notin Serving /\ t.pc \notin Sending
  BY DEF NextHead, Quiet, Owed, Serving, Reading, Sending
<1>3. Asked(n, t) <=> Asked(n, s) BY <1>2 DEF Asked
<1>4. Opened(n, t, role, calm) BY <1>1 DEF Opened
<1>5. Upward(n, t, role, cl, calm) BY <1>1, <1>2, <1>3 DEF Upward, Serving, Reading
<1>6. role \in {"idle", "write"} => Rested(n, t, calm) BY <1>1, <1>2 DEF Rested
<1>7. ASSUME NEW h, NEW g, NEW b, Answer(n, s, h, g, b, role, cl, calm)
      PROVE  Answer(n, t, h, g, b, role, cl, calm)
  <2>1. Final(h, cl) /\ Answered(n, s, h, role, cl, calm) /\ Body(n, s, h, g, b, cl, calm)
    BY <1>7 DEF Answer
  <2>2. Answered(n, t, h, role, cl, calm) BY <1>2, <2>1 DEF Answered
  <2>3. Exact(n, t, calm) <=> Exact(n, s, calm) BY DEF Exact
  <2>4. \A x : Amount(n, s, h, x, calm) => Amount(n, t, h, x, calm) BY <1>2, <2>3 DEF Amount
  <2>5. Body(n, t, h, g, b, cl, calm)
    BY <2>1, <2>3, <2>4 DEF Body, BodyOfUnits, BodyOfChunks
  <2> QED BY <2>1, <2>2, <2>5 DEF Answer
<1>8. ASSUME role \in Exchanging PROVE Exchange(n, t, role, cl, calm)
  <2>1. Exchange(n, s, role, cl, calm) BY <1>1, <1>8
  <2>2. Waiting(n, s, role, cl) => Waiting(n, t, role, cl) BY <1>2 DEF Waiting
  <2>3. Replied(n, s, role, cl, calm) => Replied(n, t, role, cl, calm) BY <1>7 DEF Replied
  <2> QED BY <1>2, <1>3, <2>1, <2>2, <2>3 DEF Exchange
<1> QED BY <1>1, <1>4, <1>5, <1>6, <1>8 DEF Fit, Good

-----------------------------------------------------------------------------
(* The network.                                                             *)

(* What is under way is lost.                                               *)
LEMMA AnswerLost ==
  ASSUME NEW n \in Links, NEW s \in Sessions, NEW h, NEW g \in Nat, NEW b \in Seq(Downs),
         NEW role, NEW cl, NEW calm, Answer(n, s, h, g, b, role, cl, calm),
         NEW m \in Links, m.cut, m.up = <<>>, NEW mood, ~mood
  PROVE  Answer(m, s, h, g, <<>>, role, cl, mood)
<1>1. Final(h, cl) /\ Answered(n, s, h, role, cl, calm) /\ Body(n, s, h, g, b, cl, calm) BY DEF Answer
<1>2. Answered(m, s, h, role, cl, mood) BY <1>1 DEF Answered, Consumed
<1>3. h.size \in Nat /\ Owed(s) \in Nat BY <1>1 DEF Final, Replies, Owed, Sessions
<1>4. Len(b) \in Nat /\ (b # <<>> => Len(b) > 0) BY EmptySeq
<1>5. ~Exact(m, s, mood) BY DEF Exact
<1>6. PICK e \in Seq(Downs) : e = <<>> BY EmptySeq
<1>7. Len(e) = 0 /\ DOMAIN e = {} BY <1>6
<1>8. ASSUME NEW x \in Nat, x <= g + Len(b), Amount(n, s, h, g + Len(b), calm)
      PROVE  Amount(m, s, h, x, mood)
  <2>1. g + Len(b) + Owed(s) <= h.size BY <1>8 DEF Amount
  <2>2. x + Owed(s) <= h.size BY <1>3, <1>4, <1>8, <2>1
  <2> QED BY <1>5, <2>2 DEF Amount
<1>9. BodyOfUnits(n, s, h, g, b, calm) => BodyOfUnits(m, s, h, g, e, mood)
  <2>1. g + Len(e) \in Nat /\ g + Len(e) <= g + Len(b) BY <1>4, <1>7
  <2> QED BY <1>7, <1>8, <2>1 DEF BodyOfUnits
<1>10. BodyOfChunks(n, s, h, g, b, calm) => BodyOfChunks(m, s, h, g, e, mood)
  <2>1. g + Len(e) = g BY <1>7
  <2>2. CASE b # <<>> /\ b[Len(b)].t = "last"
    <3>1. ASSUME BodyOfChunks(n, s, h, g, b, calm) PROVE BodyOfChunks(m, s, h, g, e, mood)
      <4>1. g + Len(b) - 1 = h.size /\ s.pc # "transfer" BY <2>2, <3>1 DEF BodyOfChunks
      <4>2. Owed(s) = 0 BY <4>1 DEF Owed
      <4>3. g + 0 <= h.size BY <1>3, <1>4, <2>2, <4>1
      <4>4. Amount(m, s, h, g, mood) BY <1>5, <4>2, <4>3 DEF Amount
      <4> QED BY <1>5, <1>6, <1>7, <2>1, <4>4 DEF BodyOfChunks
    <3> QED BY <3>1
  <2>3. CASE ~(b # <<>> /\ b[Len(b)].t = "last")
    <3>1. ASSUME BodyOfChunks(n, s, h, g, b, calm) PROVE BodyOfChunks(m, s, h, g, e, mood)
      <4>1. Amount(n, s, h, g + Len(b), calm) BY <2>3, <3>1 DEF BodyOfChunks
      <4>2. g <= g + Len(b) BY <1>4
      <4>3. Amount(m, s, h, g, mood) BY <1>8, <4>1, <4>2
      <4> QED BY <1>5, <1>6, <1>7, <2>1, <4>3 DEF BodyOfChunks
    <3> QED BY <3>1
  <2> QED BY <2>2, <2>3
<1>11. Body(m, s, h, g, e, cl, mood) BY <1>1, <1>6, <1>7, <1>9, <1>10 DEF Body
<1> QED BY <1>1, <1>2, <1>6, <1>11 DEF Answer

(* A connection is cut or reset.                                            *)
LEMMA Severed ==
  ASSUME NEW n, NEW s, NEW role, NEW cl, NEW calm, Fit(n, s, role, cl, calm),
         NEW m \in Links, m.cut, m.up = <<>>, m.down = <<>>, m.cOpen = n.cOpen, m.sOpen = n.sOpen,
         NEW mood \in BOOLEAN, mood => calm /\ ~n.cOpen
  PROVE  Fit(m, s, role, cl, mood)
<1>1. /\ n \in Links /\ s \in Sessions /\ role \in Roles /\ cl \in Clients /\ calm \in BOOLEAN /\ Got(cl)
      /\ role \in Using => cl.pc = role /\ cl.req \in Requests
      /\ Opened(n, s, role, calm) /\ Upward(n, s, role, cl, calm)
      /\ role \in {"idle", "write"} => Rested(n, s, calm)
      /\ role \in Exchanging => Exchange(n, s, role, cl, calm)
  BY DEF Fit, Good
<1>2. ~Asked(m, s) BY DEF Asked
<1>3. Opened(m, s, role, mood) BY <1>1 DEF Opened
<1>4. role # "gone" => ~mood BY <1>1 DEF Opened
<1>5. Consumed(n, role, cl) => Consumed(m, role, cl) BY DEF Consumed
<1>6. s.pc \in Reading => Rest(s.req, s.left, m.up, role, cl, mood)
  <2>1. ASSUME s.pc \in Reading PROVE Rest(s.req, s.left, <<>>, role, cl, mood)
    <3>1. Rest(s.req, s.left, n.up, role, cl, calm) BY <1>1, <2>1 DEF Upward
    <3>2. More(role, cl) \in Nat /\ s.left \in Nat BY <1>1 DEF More, Clients, Sessions
    <3>3. PICK e \in Seq(Downs) : e = <<>> BY EmptySeq
    <3>4. Len(e) = 0 /\ DOMAIN e = {} BY <3>3
    <3>5. Len(n.up) \in Nat BY <1>1 DEF Links
    <3>6. role \in Exchanging => ~mood BY <1>4 DEF Exchanging
    <3>7. RestOfChunks(e, role, mood) BY <3>4, <3>6 DEF RestOfChunks
    <3>8. RestOfLength(s.left, n.up, role, cl, calm) => RestOfLength(s.left, e, role, cl, mood)
      BY <3>2, <3>4, <3>5, <3>6 DEF RestOfLength
    <3> QED BY <3>1, <3>3, <3>7, <3>8 DEF Rest
  <2> QED BY <2>1
<1>7. Upward(m, s, role, cl, mood) BY <1>1, <1>2, <1>5, <1>6 DEF Upward
<1>8. role \in {"idle", "write"} => Rested(m, s, mood) BY <1>1, <1>4 DEF Rested
<1>9. ASSUME role \in Exchanging PROVE Exchange(m, s, role, cl, mood)
  <2>1. Exchange(n, s, role, cl, calm) /\ ~mood BY <1>1, <1>4, <1>9 DEF Exchanging
  <2>2. Strip(<<>>) = <<>> BY DEF Strip
  <2>3. Served(n, s, role, cl) => Served(m, s, role, cl) BY <2>2 DEF Served
  <2>4. ASSUME s.pc \notin Serving PROVE Replied(m, s, role, cl, mood)
    <3>1. CASE role = "body"
      <4>1. Replied(n, s, role, cl, calm) BY <2>1, <2>4, <3>1 DEF Exchange, Waiting
      <4>2. Answer(n, s, cl.resp, Len(cl.got), n.down, role, cl, calm) BY <3>1, <4>1 DEF Replied
      <4>3. n.down \in Seq(Downs) /\ Len(cl.got) \in Nat BY <1>1 DEF Links, Clients, Downs
      <4>4. PICK h, g : h = cl.resp /\ g = Len(cl.got) OBVIOUS
      <4>5. n \in Links /\ s \in Sessions /\ g \in Nat /\ m.cut /\ m.up = <<>> /\ m.down = <<>> /\ ~mood
        BY <1>1, <2>1, <4>3, <4>4
      <4>6. Answer(n, s, h, g, n.down, role, cl, calm) BY <4>2, <4>4
      <4>7. Answer(m, s, h, g, <<>>, role, cl, mood) BY <4>3, <4>5, <4>6, AnswerLost
      <4> QED BY <3>1, <4>4, <4>5, <4>7 DEF Replied
    <3>2. CASE role # "body" BY <2>2, <3>2 DEF Replied
    <3> QED BY <3>1, <3>2
  <2> QED BY <1>2, <2>1, <2>3, <2>4 DEF Exchange
<1> QED BY <1>1, <1>3, <1>7, <1>8, <1>9 DEF Fit, Good

(* A session that closes with a request before it does so for a reason.     *)
LEMMA UnreadHasCause ==
  ASSUME NEW n, NEW s, NEW role, NEW cl, NEW calm, Fit(n, s, role, cl, calm),
         ~n.sOpen, n.cOpen, n.up # <<>>
  PROVE  ~calm
<1>1. /\ Opened(n, s, role, calm) /\ role \in Roles
      /\ role \in {"idle", "write"} => Rested(n, s, calm)
      /\ role \in Exchanging => Exchange(n, s, role, cl, calm)
  BY DEF Fit, Good
<1>2. s.pc = "closed" /\ role # "gone" /\ ~n.cut BY <1>1 DEF Opened
<1>3. CASE role \in {"idle", "write"} BY <1>1, <1>2, <1>3 DEF Rested
<1>4. CASE role \in Exchanging
  <2>1. ~NextHead(s) /\ ~Asked(n, s) /\ s.pc \notin Serving
    BY <1>2 DEF NextHead, Asked, Sending, Serving, Reading
  <2>2. Replied(n, s, role, cl, calm) BY <1>1, <1>4, <2>1 DEF Exchange
  <2>3. \A h, g, b : Answer(n, s, h, g, b, role, cl, calm) => ~calm
    BY DEF Answer, Answered, Consumed
  <2> QED BY <1>2, <2>2, <2>3 DEF Replied
<1> QED BY <1>1, <1>2, <1>3, <1>4 DEF Roles, Using

-----------------------------------------------------------------------------
(* The client takes a connection and leaves it.                             *)

(* A connection it does not use does not depend on what it does.            *)
LEMMA Detached ==
  ASSUME NEW n, NEW s, NEW role, NEW cl, NEW calm, Fit(n, s, role, cl, calm),
         role \in {"idle", "gone"}, NEW d \in Clients, Got(d)
  PROVE  Fit(n, s, role, d, calm)
<1>1. /\ role \notin Using /\ role \notin Exchanging /\ role # "produce" /\ role # "write"
      /\ \A x : More(role, x) = 0
  BY DEF Using, Exchanging, More
<1>2. \A r, need, b : Rest(r, need, b, role, cl, calm) => Rest(r, need, b, role, d, calm)
  BY <1>1 DEF Rest, RestOfLength, RestOfChunks
<1>3. Upward(n, s, role, cl, calm) => Upward(n, s, role, d, calm)
  BY <1>1, <1>2 DEF Upward, Consumed, NoMore
<1> QED BY <1>1, <1>3 DEF Fit, Good

(* acquire() takes the pooled connection.                                   *)
LEMMA Taken ==
  ASSUME NEW n, NEW s, NEW cl, NEW calm, Fit(n, s, "idle", cl, calm),
         NEW d \in Clients, d.pc = "write", d.req \in Requests, d.result = "none", d.got = <<>>
  PROVE  Fit(n, s, "write", d, calm)
<1>1. \A x : More("idle", x) = 0 /\ More("write", x) = 0 BY DEF More
<1>2. \A r, need, b : Rest(r, need, b, "idle", cl, calm) => Rest(r, need, b, "write", d, calm)
  BY <1>1 DEF Rest, RestOfLength, RestOfChunks, Exchanging
<1>3. Upward(n, s, "idle", cl, calm) => Upward(n, s, "write", d, calm)
  BY <1>2 DEF Upward, Consumed, NoMore
<1>4. Opened(n, s, "idle", calm) => Opened(n, s, "write", calm) BY DEF Opened
<1>5. Got(d) BY DEF Got
<1>6. "write" \in Roles /\ "write" \notin Exchanging BY DEF Roles, Using, Exchanging
<1> QED BY <1>3, <1>4, <1>5, <1>6 DEF Fit, Good

(* Or opens one.                                                            *)
LEMMA Fresh ==
  ASSUME NEW n \in Links, n.up = <<>>, n.down = <<>>, n.cOpen, n.sOpen, ~n.cut,
         NEW s \in Sessions, s.pc = "head", NEW calm \in BOOLEAN,
         NEW d \in Clients, d.pc = "write", d.req \in Requests, d.result = "none", d.got = <<>>
  PROVE  Fit(n, s, "write", d, calm)
<1>1. NextHead(s) /\ ~Asked(n, s) /\ Quiet(s) /\ s.pc \notin Serving \cup Sending
  BY DEF NextHead, Asked, Quiet, Serving, Reading, Sending
<1>2. Upward(n, s, "write", d, calm) BY <1>1 DEF Upward, Serving, Reading
<1>3. Opened(n, s, "write", calm) BY DEF Opened
<1>4. Rested(n, s, calm) BY <1>1 DEF Rested
<1>5. Got(d) BY DEF Got
<1>6. "write" \in Roles /\ "write" \notin Exchanging BY DEF Roles, Using, Exchanging
<1> QED BY <1>2, <1>3, <1>4, <1>5, <1>6 DEF Fit, Good

(* It closes the connection, done with it or not.                           *)
LEMMA Left ==
  ASSUME NEW n, NEW s, NEW role, NEW cl, NEW calm, Fit(n, s, role, cl, calm),
         NEW m \in Links, ~m.cOpen, m.sOpen = n.sOpen, m.cut = n.cut,
         m.up = (IF n.sOpen THEN n.up ELSE <<>>), m.cut => m.down = <<>>,
         NEW d \in Clients, Got(d), NEW mood \in BOOLEAN, mood => calm
  PROVE  Fit(m, s, "gone", d, mood)
<1>1. /\ n \in Links /\ s \in Sessions /\ role \in Roles /\ cl \in Clients /\ calm \in BOOLEAN
      /\ Opened(n, s, role, calm) /\ Upward(n, s, role, cl, calm)
  BY DEF Fit, Good
<1>2. Opened(m, s, "gone", mood) BY <1>1 DEF Opened
<1>3. "gone" \in Roles /\ "gone" \notin Using \cup Exchanging \cup {"idle", "write", "produce"}
  BY DEF Roles, Using, Exchanging
<1>4. n.up \in Seq(Calls \cup Pieces) /\ s.left \in Nat BY <1>1 DEF Links, Sessions
<1>5. ASSUME s.pc # "closed" PROVE Upward(m, s, "gone", d, mood)
  <2>1. m.up = n.up BY <1>1, <1>5 DEF Opened
  <2>2. Asked(m, s) <=> Asked(n, s) BY <2>1 DEF Asked
  <2>3. ASSUME Asked(n, s) PROVE /\ n.up[1] \in Calls
                                 /\ Rest(n.up[1].req, n.up[1].req.size, Tail(n.up), "gone", d, mood)
    <3>0. /\ n.up[1] \in Calls
          /\ Rest(n.up[1].req, n.up[1].req.size, Tail(n.up), role, cl, calm)
      BY <1>1, <2>3 DEF Upward
    <3>1. Tail(n.up) \in Seq(Calls \cup Pieces) BY <1>4, <2>3, TailOf DEF Asked
    <3>2. n.up[1].req.size \in Nat BY <3>0, ExchangeAssumption DEF Calls
    <3>3. PICK need \in Nat : need = n.up[1].req.size BY <3>2
    <3>4. PICK b \in Seq(Calls \cup Pieces) : b = Tail(n.up) BY <3>1
    <3>5. Rest(n.up[1].req, need, b, role, cl, calm) BY <3>3, <3>0, <3>4
    <3>6. Rest(n.up[1].req, need, b, "gone", d, mood) BY <1>1, <3>5, RestGone
    <3> QED BY <3>3, <3>0, <3>6, <3>4
  <2>4. ASSUME s.pc \in Reading PROVE Rest(s.req, s.left, n.up, "gone", d, mood)
    <3>1. Rest(s.req, s.left, n.up, role, cl, calm) BY <1>1, <2>4 DEF Upward
    <3> QED BY <1>1, <1>4, <3>1, RestGone
  <2>5. Consumed(n, role, cl) => Consumed(m, "gone", d) BY <2>1 DEF Consumed, NoMore
  <2> QED BY <1>1, <2>1, <2>2, <2>3, <2>4, <2>5 DEF Upward
<1>6. ASSUME s.pc = "closed" PROVE Upward(m, s, "gone", d, mood)
  BY <1>6 DEF Upward, Asked, NextHead, Sending, Serving, Reading
<1> QED BY <1>1, <1>2, <1>3, <1>5, <1>6 DEF Fit, Good

-----------------------------------------------------------------------------
(* The client sends a request.                                              *)

(* A head and what is written of the body right behind it.                  *)
LEMMA HeadFirst ==
  ASSUME NEW x \in Calls, NEW b \in Seq(Pieces)
  PROVE  /\ <<x>> \o b \in Seq(Calls \cup Pieces) /\ <<x>> \o b # <<>>
         /\ (<<x>> \o b)[1] = x /\ Tail(<<x>> \o b) = b /\ b \in Seq(Calls \cup Pieces)
<1>1. <<x>> \in Seq(Calls \cup Pieces) /\ b \in Seq(Calls \cup Pieces) BY SeqMonotonic
<1>2. PICK g \in Seq(Calls \cup Pieces) : g = <<x>> BY <1>1
<1>3. g # <<>> /\ g[1] = x /\ Tail(g) = <<>> BY <1>2
<1>4. Tail(g \o b) = Tail(g) \o b /\ (g \o b)[1] = g[1] /\ g \o b # <<>> BY <1>1, <1>3, TailCat
<1>5. <<>> \o b = b BY <1>1, ConcatEmptySeq
<1>6. g \o b \in Seq(Calls \cup Pieces) BY <1>1, CatOf
<1> QED BY <1>1, <1>2, <1>3, <1>4, <1>5, <1>6

(* write_request().                                                         *)
LEMMA Requested ==
  ASSUME NEW n, NEW s, NEW cl, NEW calm, Fit(n, s, "write", cl, calm),
         NEW m \in Links, NEW d \in Clients, d.pc = (IF Streamed(cl.req) THEN "produce" ELSE "read"),
         d.k = cl.k, d.req = cl.req, d.result = "none", d.got = <<>>,
         d.left = (IF cl.req.body = "chunked" THEN MaxUnits ELSE cl.req.size),
         m.cOpen = n.cOpen, m.sOpen = n.sOpen, m.cut = n.cut, m.down = n.down,
         NEW head, head = RequestHead(cl.k, cl.req), NEW b \in Seq(Pieces),
         Streamed(cl.req) => b = <<>>, ~Streamed(cl.req) => b = Units(cl.k, cl.req.size),
         m.up = (IF n.cut THEN n.up ELSE n.up \o (<<head>> \o b))
  PROVE  Fit(m, s, d.pc, d, calm)
<1>1. /\ n \in Links /\ s \in Sessions /\ cl \in Clients /\ calm \in BOOLEAN
      /\ Opened(n, s, "write", calm) /\ Upward(n, s, "write", cl, calm) /\ Rested(n, s, calm)
      /\ cl.req \in Requests
  BY DEF Fit, Good, Using
<1>2. cl.req.size \in Nat /\ cl.req.body \in {"buffered", "length", "chunked"} /\ cl.k \in Ids
  BY <1>1, ExchangeAssumption DEF Clients
<1>3. d.pc \in {"produce", "read"} /\ d.pc \in Roles /\ d.pc \in Exchanging
      /\ d.pc \notin {"idle", "write", "gone", "body"}
  BY DEF Roles, Using, Exchanging
<1>4. n.cOpen /\ n.down = <<>> /\ Quiet(s) /\ (calm => ~n.cut /\ s.pc # "closed")
      /\ (s.pc = "closed" \/ (NextHead(s) /\ n.up = <<>>))
      /\ (n.cut => n.up = <<>>)
  BY <1>1 DEF Opened, Rested
<1>5. Opened(m, s, d.pc, calm) BY <1>1, <1>3, <1>4 DEF Opened
<1>6. Got(d) BY <1>3 DEF Got
<1>7. CASE s.pc = "closed"
  <2>1. ~NextHead(s) /\ ~Asked(m, s) /\ s.pc \notin Serving \cup Sending
    BY <1>7 DEF NextHead, Asked, Sending, Serving, Reading
  <2>2. Upward(m, s, d.pc, d, calm) BY <2>1 DEF Upward, Serving, Reading
  <2>3. Strip(m.down) = <<>> BY <1>4 DEF Strip
  <2>4. Replied(m, s, d.pc, d, calm) BY <1>3, <1>4, <1>7, <2>3 DEF Replied
  <2> QED BY <1>1, <1>3, <1>5, <1>6, <2>1, <2>2, <2>4 DEF Fit, Good, Exchange
<1>8. CASE s.pc # "closed"
  <2>1. NextHead(s) /\ n.up = <<>> /\ s.pc \notin Serving
    BY <1>4, <1>8 DEF NextHead, Sending, Serving, Reading
  <2>2. CASE n.cut
    <3>1. ~Asked(m, s) BY <2>1, <2>2 DEF Asked
    <3>2. Upward(m, s, d.pc, d, calm) BY <1>1, <2>1, <3>1 DEF Upward, Serving, Reading
    <3>3. Strip(m.down) = <<>> BY <1>4 DEF Strip
    <3>4. Replied(m, s, d.pc, d, calm) BY <1>3, <2>2, <3>3 DEF Replied
    <3> QED BY <1>1, <1>3, <1>5, <1>6, <2>1, <3>1, <3>2, <3>4 DEF Fit, Good, Exchange
  <2>3. CASE ~n.cut
    <3>1. head \in Calls /\ head.id = cl.k /\ head.req = cl.req
      BY <1>1, <1>2 DEF RequestHead, Calls
    <3>2. PICK u : u = <<head>> \o b OBVIOUS
    <3>3. u \in Seq(Calls \cup Pieces) /\ u # <<>> /\ u[1] = head /\ Tail(u) = b
          /\ b \in Seq(Calls \cup Pieces)
      BY <3>1, <3>2, HeadFirst
    <3>4. m.up = u
      <4>1. <<>> \o u = u BY <3>3, ConcatEmptySeq
      <4> QED BY <2>1, <2>3, <3>2, <4>1
    <3>5. Asked(m, s) BY <2>1, <3>3, <3>4 DEF Asked
    <3>6. Rest(cl.req, cl.req.size, b, d.pc, d, calm)
      <4>1. CASE cl.req.body = "buffered"
        <5>1. ~Streamed(cl.req) /\ ~Chunked(cl.req) /\ d.pc = "read" BY <4>1 DEF Streamed, Chunked
        <5>2. PICK v : v = Units(cl.k, cl.req.size) OBVIOUS
        <5>3. Len(v) = cl.req.size /\ \A i \in DOMAIN v : v[i].t = "data" BY <1>2, <5>2, UnitsAre
        <5>4. b = v BY <5>1, <5>2
        <5>5. More("read", d) = 0 BY DEF More
        <5>6. RestOfLength(cl.req.size, v, "read", d, calm) BY <1>2, <5>3, <5>5 DEF RestOfLength
        <5> QED BY <5>1, <5>4, <5>6 DEF Rest
      <4>2. CASE cl.req.body # "buffered"
        <5>1. d.pc = "produce" /\ b = <<>> BY <4>2 DEF Streamed
        <5>2. Len(b) = 0 /\ DOMAIN b = {} BY <5>1
        <5>3. More("produce", d) = d.left BY DEF More
        <5>4. CASE Chunked(cl.req)
          <6>1. RestOfChunks(b, "produce", calm) BY <5>2 DEF RestOfChunks
          <6> QED BY <5>1, <5>4, <6>1 DEF Rest
        <5>5. CASE ~Chunked(cl.req)
          <6>1. d.left = cl.req.size BY <5>5 DEF Chunked
          <6>2. RestOfLength(cl.req.size, b, "produce", d, calm)
            BY <1>2, <5>2, <5>3, <6>1 DEF RestOfLength
          <6> QED BY <5>1, <5>5, <6>2 DEF Rest
        <5> QED BY <5>4, <5>5
      <4> QED BY <4>1, <4>2
    <3>7. Upward(m, s, d.pc, d, calm)
      <4>1. m.up[1] \in Calls /\ Rest(m.up[1].req, m.up[1].req.size, Tail(m.up), d.pc, d, calm)
        BY <3>1, <3>3, <3>4, <3>6
      <4> QED BY <1>1, <2>1, <4>1 DEF Upward, Serving, Reading
    <3>8. Waiting(m, s, d.pc, d) BY <1>3, <1>4, <3>1, <3>3, <3>4 DEF Waiting
    <3> QED BY <1>1, <1>3, <1>5, <1>6, <2>1, <3>5, <3>7, <3>8 DEF Fit, Good, Exchange
  <2> QED BY <2>2, <2>3
<1> QED BY <1>7, <1>8

(* x may follow on what the producer has written, unless it gets lost.      *)
Extends(x, cl, role, d, calm) ==
  \A need \in Nat : \A b \in Seq(Calls \cup Pieces) :
    Rest(cl.req, need, b, "produce", cl, calm) =>
      /\ b \o x \in Seq(Calls \cup Pieces) /\ Rest(cl.req, need, b \o x, role, d, calm)
      /\ ~calm => Rest(cl.req, need, b, role, d, calm)

(* The producer writes x: it may, so the body is not whole before; or it    *)
(* ends.                                                                    *)
LEMMA Produced ==
  ASSUME NEW n, NEW s, NEW cl, NEW calm, Fit(n, s, "produce", cl, calm),
         NEW m \in Links, NEW role \in {"produce", "read"}, NEW d \in Clients, d.pc = role,
         d.k = cl.k, d.req = cl.req, d.result = "none", d.got = <<>>,
         m.cOpen = n.cOpen, m.sOpen = n.sOpen, m.cut = n.cut, m.down = n.down,
         NEW x \in Seq(Calls \cup Pieces), m.up = (IF n.cut THEN n.up ELSE n.up \o x),
         Extends(x, cl, role, d, calm),
         NoMore("produce", cl) => x = <<>> /\ NoMore(role, d)
  PROVE  Fit(m, s, role, d, calm)
<1>1. /\ n \in Links /\ s \in Sessions /\ cl \in Clients /\ calm \in BOOLEAN
      /\ Opened(n, s, "produce", calm) /\ Upward(n, s, "produce", cl, calm)
      /\ Exchange(n, s, "produce", cl, calm)
      /\ cl.req \in Requests
  BY DEF Fit, Good, Using, Exchanging
<1>2. role \in Roles /\ role \in Exchanging /\ role \notin {"idle", "write", "gone", "body"}
  BY DEF Roles, Using, Exchanging
<1>3. Got(d) BY DEF Got
<1>4. n.cOpen /\ (n.cut => n.up = <<>> /\ ~calm) BY <1>1 DEF Opened
<1>5. Opened(m, s, role, calm) BY <1>1, <1>2, <1>4 DEF Opened
<1>6. n.up \in Seq(Calls \cup Pieces) /\ s.left \in Nat BY <1>1 DEF Links, Sessions
<1>7. Consumed(n, "produce", cl) => Consumed(m, role, d)
  <2>1. ASSUME Consumed(n, "produce", cl) PROVE Consumed(m, role, d)
    <3>1. n.up = <<>> /\ x = <<>> /\ NoMore(role, d) BY <2>1 DEF Consumed
    <3>2. <<>> \o x = x BY ConcatEmptySeq
    <3> QED BY <3>1, <3>2 DEF Consumed
  <2> QED BY <2>1
<1>8. CASE Asked(n, s)
  <2>1. Waiting(n, s, "produce", cl) /\ NextHead(s) /\ n.up # <<>> BY <1>1, <1>8 DEF Exchange, Asked
  <2>2. s.pc \notin Serving BY <2>1 DEF NextHead, Sending, Serving, Reading
  <2>3. n.up[1] \in Calls /\ Rest(cl.req, cl.req.size, Tail(n.up), "produce", cl, calm)
    BY <1>1, <1>8, <2>1 DEF Upward, Waiting
  <2>4. cl.req.size \in Nat BY <1>1, ExchangeAssumption
  <2>5. Tail(n.up) \in Seq(Calls \cup Pieces) BY <1>6, <2>1, TailOf
  <2>6. Rest(cl.req, cl.req.size, Tail(n.up) \o x, role, d, calm) BY <2>3, <2>4, <2>5 DEF Extends
  <2>7. m.up = n.up \o x BY <1>4, <2>1
  <2>8. m.up # <<>> /\ m.up[1] = n.up[1] /\ Tail(m.up) = Tail(n.up) \o x
    <3>1. PICK p \in Seq(Calls \cup Pieces) : p = n.up BY <1>6
    <3>2. p # <<>> BY <2>1, <3>1
    <3>3. Tail(p \o x) = Tail(p) \o x /\ (p \o x)[1] = p[1] /\ p \o x # <<>>
      BY <3>2, TailCat
    <3> QED BY <2>7, <3>1, <3>3
  <2>9. Waiting(m, s, role, d) BY <1>2, <2>1, <2>8 DEF Waiting
  <2>10. m.up[1].req = cl.req BY <2>1, <2>8 DEF Waiting
  <2>11. m.up[1] \in Calls /\ Rest(m.up[1].req, m.up[1].req.size, Tail(m.up), role, d, calm)
    BY <2>3, <2>6, <2>8, <2>10
  <2>12. Upward(m, s, role, d, calm)
    BY <1>1, <2>2, <2>11 DEF Upward, Serving, Reading
  <2>13. Asked(m, s) BY <2>1, <2>8 DEF Asked
  <2> QED BY <1>1, <1>2, <1>3, <1>5, <2>2, <2>9, <2>12, <2>13 DEF Fit, Good, Exchange
<1>9. CASE s.pc \in Serving
  <2>1. Served(n, s, "produce", cl) BY <1>1, <1>9 DEF Exchange
  <2>2. ~NextHead(s) /\ s.pc \notin Sending BY <1>9 DEF NextHead, Sending, Serving, Reading
  <2>3. s.pc \in Reading => Rest(s.req, s.left, m.up, role, d, calm)
    <3>1. ASSUME s.pc \in Reading PROVE Rest(cl.req, s.left, m.up, role, d, calm)
      <4>1. Rest(cl.req, s.left, n.up, "produce", cl, calm) BY <1>1, <2>1, <3>1 DEF Upward, Served
      <4>2. /\ Rest(cl.req, s.left, n.up \o x, role, d, calm)
            /\ ~calm => Rest(cl.req, s.left, n.up, role, d, calm)
        BY <1>6, <4>1 DEF Extends
      <4> QED BY <1>4, <4>2
    <3> QED BY <2>1, <3>1 DEF Served
  <2>4. Upward(m, s, role, d, calm) BY <1>1, <1>7, <2>2, <2>3 DEF Upward, Asked
  <2>5. Served(m, s, role, d) BY <1>2, <2>1 DEF Served
  <2> QED BY <1>1, <1>2, <1>3, <1>5, <1>9, <2>2, <2>4, <2>5 DEF Fit, Good, Exchange, Asked
<1>10. CASE ~Asked(n, s) /\ s.pc \notin Serving
  <2>1. Replied(n, s, "produce", cl, calm) BY <1>1, <1>10 DEF Exchange
  <2>2. \A h, g, b : Answer(n, s, h, g, b, "produce", cl, calm) =>
                       Answer(m, s, h, g, b, role, d, calm) /\ (NextHead(s) => Consumed(m, role, d))
    <3>1. ASSUME NEW h, NEW g, NEW b, Answer(n, s, h, g, b, "produce", cl, calm)
          PROVE  Answer(m, s, h, g, b, role, d, calm) /\ (NextHead(s) => Consumed(m, role, d))
      <4>1. /\ Final(h, cl) /\ Answered(n, s, h, "produce", cl, calm)
            /\ Body(n, s, h, g, b, cl, calm)
        BY <3>1 DEF Answer
      <4>2. NoBody(h, d) <=> NoBody(h, cl) BY DEF NoBody
      <4>3. Final(h, d) BY <4>1, <4>2 DEF Final
      <4>4. Answered(m, s, h, role, d, calm) /\ (NextHead(s) => Consumed(m, role, d))
        BY <1>7, <4>1 DEF Answered
      <4>5. Exact(m, s, calm) <=> Exact(n, s, calm) BY DEF Exact
      <4>6. Body(m, s, h, g, b, d, calm)
        BY <4>1, <4>2, <4>5 DEF Body, BodyOfUnits, BodyOfChunks, Amount
      <4> QED BY <4>3, <4>4, <4>6 DEF Answer
    <3> QED BY <3>1
  <2>3. ~Asked(m, s)
    <3>1. CASE Strip(n.down) # <<>>
      <4>1. NextHead(s) => Consumed(m, role, d) BY <2>1, <2>2, <3>1 DEF Replied
      <4> QED BY <4>1 DEF Asked, Consumed
    <3>2. CASE Strip(n.down) = <<>>
      <4>1. n.cut \/ s.pc = "closed" BY <2>1, <3>2 DEF Replied
      <4>2. s.pc = "closed" => ~NextHead(s) BY DEF NextHead, Sending
      <4> QED BY <1>4, <4>1, <4>2 DEF Asked
    <3> QED BY <3>1, <3>2
  <2>4. Replied(m, s, role, d, calm) BY <1>2, <2>1, <2>2 DEF Replied
  <2>5. Upward(m, s, role, d, calm)
    <3>1. s.pc \notin Reading \cup {"handler", "answer", "too large", "stream"}
      BY <1>10 DEF Serving, Reading
    <3> QED BY <1>1, <2>3, <3>1 DEF Upward, Serving
  <2> QED BY <1>1, <1>2, <1>3, <1>5, <1>10, <2>3, <2>4, <2>5 DEF Fit, Good, Exchange
<1> QED BY <1>8, <1>9, <1>10

-----------------------------------------------------------------------------
(* The client reads its response.                                           *)

(* Something that is no 100 Continue has come: it is the response.          *)
LEMMA ResponseCame ==
  ASSUME NEW n, NEW s, NEW cl, NEW calm, Fit(n, s, "read", cl, calm), n.down # <<>>
  PROVE  /\ n.down[1].t = "response" /\ Tail(n.down) \in Seq(Downs) /\ ~Asked(n, s)
         /\ ~Interim(n.down[1]) => /\ Answer(n, s, n.down[1], 0, Tail(n.down), "read", cl, calm)
                                   /\ s.pc \notin Serving
         /\ Interim(n.down[1]) => /\ Strip(Tail(n.down)) = Tail(n.down)
                                  /\ s.pc \in Serving => Tail(n.down) = <<>>
<1>1. /\ n \in Links /\ n.down \in Seq(Downs) /\ Exchange(n, s, "read", cl, calm)
  BY DEF Fit, Good, Exchanging, Links, Downs
<1>2. ~Asked(n, s) BY <1>1 DEF Exchange, Waiting
<1>3. PICK d \in Seq(Downs) : d = n.down BY <1>1
<1>4. PICK e \in Seq(Downs) : e = Tail(d) BY <1>3, TailOf
<1>5. s.pc \in Serving => Strip(d) = <<>> BY <1>1, <1>3 DEF Exchange, Served
<1>6. s.pc \notin Serving => Replied(n, s, "read", cl, calm) BY <1>1, <1>2 DEF Exchange
<1>7. CASE Interim(d[1])
  <2>1. Strip(d) = e /\ d[1].t = "response" BY <1>3, <1>4, <1>7 DEF Strip, Interim
  <2>2. s.pc \in Serving => e = <<>> BY <1>5, <2>1
  <2>3. Strip(e) = e
    <3>1. CASE e = <<>> BY <3>1 DEF Strip
    <3>2. CASE e # <<>>
      <4>1. Final(e[1], cl) BY <1>3, <1>6, <2>1, <2>2, <3>2 DEF Replied, Answer
      <4>2. PICK v \in 100..599 : v = e[1].status BY <4>1 DEF Final, Replies
      <4>3. v >= 200 BY <4>1, <4>2 DEF Final
      <4>4. v \notin 100..199 BY <4>3
      <4>5. ~Interim(e[1]) BY <4>2, <4>4 DEF Interim
      <4> QED BY <3>2, <4>5 DEF Strip
    <3> QED BY <3>1, <3>2
  <2> QED BY <1>2, <1>3, <1>4, <1>7, <2>1, <2>2, <2>3
<1>8. CASE ~Interim(d[1])
  <2>1. Strip(d) = d BY <1>8 DEF Strip
  <2>2. s.pc \notin Serving BY <1>3, <1>5, <2>1
  <2>3. Answer(n, s, d[1], 0, e, "read", cl, calm) BY <1>3, <1>4, <1>6, <2>1, <2>2 DEF Replied
  <2>4. d[1].t = "response" BY <2>3 DEF Answer, Final, Replies
  <2> QED BY <1>2, <1>3, <1>4, <1>8, <2>2, <2>3, <2>4
<1> QED BY <1>7, <1>8

(* 100 Continue is dropped.                                                 *)
LEMMA InterimRead ==
  ASSUME NEW n, NEW s, NEW cl, NEW calm, Fit(n, s, "read", cl, calm), n.down # <<>>,
         Interim(n.down[1]), NEW m \in Links,
         m.cOpen = n.cOpen, m.sOpen = n.sOpen, m.cut = n.cut, m.up = n.up, m.down = Tail(n.down)
  PROVE  Fit(m, s, "read", cl, calm)
<1>1. /\ n \in Links /\ s \in Sessions /\ cl \in Clients /\ calm \in BOOLEAN /\ Got(cl)
      /\ cl.pc = "read" /\ cl.req \in Requests
      /\ Opened(n, s, "read", calm) /\ Upward(n, s, "read", cl, calm)
      /\ Exchange(n, s, "read", cl, calm)
  BY DEF Fit, Good, Using, Exchanging
<1>2. /\ ~Asked(n, s) /\ Strip(Tail(n.down)) = Tail(n.down)
      /\ s.pc \in Serving => Tail(n.down) = <<>>
  BY ResponseCame
<1>3. ~Asked(m, s) BY <1>2 DEF Asked
<1>4. ~n.cut BY <1>1 DEF Opened
<1>5. Opened(m, s, "read", calm) BY <1>1, <1>4 DEF Opened
<1>6. Upward(m, s, "read", cl, calm) BY <1>1, <1>3 DEF Upward, Consumed
<1>7. ASSUME s.pc \in Serving PROVE Served(m, s, "read", cl)
  <2>1. Served(n, s, "read", cl) BY <1>1, <1>7 DEF Exchange
  <2> QED BY <1>2, <1>7, <2>1 DEF Served, Strip
<1>8. ASSUME s.pc \notin Serving PROVE Replied(m, s, "read", cl, calm)
  <2>1. Replied(n, s, "read", cl, calm) BY <1>1, <1>2, <1>8 DEF Exchange
  <2>2. Strip(n.down) = Tail(n.down) BY DEF Strip
  <2>3. \A h, g, b : Answer(n, s, h, g, b, "read", cl, calm) => Answer(m, s, h, g, b, "read", cl, calm)
    <3>1. Exact(m, s, calm) <=> Exact(n, s, calm) BY DEF Exact
    <3>2. Consumed(n, "read", cl) => Consumed(m, "read", cl) BY DEF Consumed
    <3> QED BY <3>1, <3>2 DEF Answer, Answered, Body, BodyOfUnits, BodyOfChunks, Amount
  <2> QED BY <1>2, <2>1, <2>2, <2>3 DEF Replied
<1>9. "read" \in Roles /\ "read" \notin {"idle", "write"} BY DEF Roles, Using, Exchanging
<1> QED BY <1>1, <1>3, <1>5, <1>6, <1>7, <1>8, <1>9 DEF Fit, Good, Exchange

(* The head of the response is read.                                        *)
LEMMA ResponseRead ==
  ASSUME NEW n, NEW s, NEW cl, NEW calm, Fit(n, s, "read", cl, calm), n.down # <<>>,
         ~Interim(n.down[1]), NEW m \in Links,
         m.cOpen = n.cOpen, m.sOpen = n.sOpen, m.cut = n.cut, m.up = n.up, m.down = Tail(n.down),
         NEW d \in Clients, d.pc = "body", d.k = cl.k, d.req = cl.req, d.result = cl.result,
         d.got = cl.got, d.resp = n.down[1],
         d.left = (IF NoBody(n.down[1], cl) THEN 0 ELSE n.down[1].length)
  PROVE  Fit(m, s, "body", d, calm)
<1>0. /\ n \in Links /\ s \in Sessions /\ cl \in Clients /\ calm \in BOOLEAN /\ Got(cl)
      /\ cl.pc = "read" /\ cl.req \in Requests
      /\ Opened(n, s, "read", calm) /\ Upward(n, s, "read", cl, calm)
  BY DEF Fit, Good, Using, Exchanging
<1>1. PICK h, b : h = n.down[1] /\ b = Tail(n.down) OBVIOUS
<1>2. ~Asked(n, s) /\ s.pc \notin Serving /\ Answer(n, s, h, 0, b, "read", cl, calm)
  BY <1>1, ResponseCame
<1>3. ~Asked(m, s) BY <1>2 DEF Asked
<1>4. ~n.cut BY <1>0 DEF Opened
<1>5. Opened(m, s, "body", calm) BY <1>0, <1>4 DEF Opened
<1>6. s.pc \notin Reading \cup {"handler", "answer", "too large", "stream"}
  BY <1>2 DEF Serving, Reading
<1>7. Upward(m, s, "body", d, calm) BY <1>0, <1>2, <1>3, <1>6 DEF Upward
<1>8. /\ Final(h, cl) /\ Answered(n, s, h, "read", cl, calm) /\ Body(n, s, h, 0, b, cl, calm)
  BY <1>2 DEF Answer
<1>9. NoBody(h, d) <=> NoBody(h, cl) BY DEF NoBody
<1>10. cl.got = <<>> /\ cl.result = "none" BY <1>0 DEF Got
<1>11. d.got = <<>> /\ Len(d.got) = 0 /\ DOMAIN d.got = {} BY <1>10
<1>12. Got(d)
  <2>1. h \in Replies /\ h.id = d.k /\ h.size \in Nat /\ d.resp = h BY <1>1, <1>8 DEF Final, Replies
  <2>2. NoBody(h, d) => d.left = 0 /\ h.size = 0 BY <1>1, <1>8, <1>9 DEF Body
  <2>3. ~NoBody(h, d) => h.framing # "none" BY <1>8, <1>9 DEF Body
  <2>4. ~NoBody(h, d) /\ h.framing = "length" => Len(d.got) + d.left = h.size
    BY <1>1, <1>8, <1>9, <1>11, <2>1 DEF Final
  <2> QED BY <1>10, <1>11, <2>1, <2>2, <2>3, <2>4 DEF Got
<1>13. Answer(m, s, h, 0, b, "body", d, calm)
  <2>1. Final(h, d) BY <1>8, <1>9 DEF Final
  <2>2. Consumed(n, "read", cl) => Consumed(m, "body", d) BY DEF Consumed, NoMore
  <2>3. Answered(m, s, h, "body", d, calm) BY <1>8, <2>2 DEF Answered
  <2>4. Exact(m, s, calm) <=> Exact(n, s, calm) BY DEF Exact
  <2>5. Body(m, s, h, 0, b, d, calm)
    BY <1>8, <1>9, <2>4 DEF Body, BodyOfUnits, BodyOfChunks, Amount
  <2> QED BY <2>1, <2>3, <2>5 DEF Answer
<1>14. Replied(m, s, "body", d, calm) BY <1>1, <1>11, <1>13 DEF Replied
<1>15. "body" \in Roles /\ "body" \notin {"idle", "write"} BY DEF Roles, Using, Exchanging
<1> QED BY <1>0, <1>2, <1>3, <1>5, <1>7, <1>12, <1>14, <1>15 DEF Fit, Good, Exchange

(* What the client knows while it reads a body.                             *)
LEMMA InBodyOf ==
  ASSUME NEW n, NEW s, NEW cl, NEW calm, Fit(n, s, "body", cl, calm)
  PROVE  /\ n \in Links /\ s \in Sessions /\ cl \in Clients /\ calm \in BOOLEAN /\ Got(cl)
         /\ cl.pc = "body" /\ cl.req \in Requests /\ n.cOpen /\ (calm => ~n.cut)
         /\ n.down \in Seq(Downs) /\ Len(cl.got) \in Nat /\ cl.left \in Nat
         /\ cl.resp \in Replies /\ cl.resp.size \in Nat /\ cl.resp.framing \in Framings
         /\ ~Asked(n, s) /\ s.pc \notin Serving
         /\ Answer(n, s, cl.resp, Len(cl.got), n.down, "body", cl, calm)
<1>1. /\ n \in Links /\ s \in Sessions /\ cl \in Clients /\ calm \in BOOLEAN /\ Got(cl)
      /\ cl.pc = "body" /\ cl.req \in Requests
      /\ Opened(n, s, "body", calm) /\ Exchange(n, s, "body", cl, calm)
  BY DEF Fit, Good, Using, Exchanging
<1>2. n.down \in Seq(Downs) /\ Len(cl.got) \in Nat /\ cl.left \in Nat
  BY <1>1 DEF Links, Clients, Downs
<1>3. cl.resp \in Replies /\ cl.resp.size \in Nat /\ cl.resp.framing \in Framings
  BY <1>1 DEF Got, Replies
<1>4. ~Asked(n, s) /\ s.pc \notin Serving BY <1>1 DEF Exchange, Waiting, Served
<1>5. Answer(n, s, cl.resp, Len(cl.got), n.down, "body", cl, calm) BY <1>1, <1>4 DEF Exchange, Replied
<1>6. n.cOpen /\ (calm => ~n.cut) BY <1>1 DEF Opened
<1> QED BY <1>1, <1>2, <1>3, <1>4, <1>5, <1>6

(* How the client finds the end of the body.                                *)
FramingOf(cl) == IF NoBody(cl.resp, cl) THEN "length" ELSE cl.resp.framing

(* The end of a chunked body, if it has come, is behind everything else.    *)
LEMMA ChunkRead ==
  ASSUME NEW n \in Links, NEW s, NEW h, NEW g \in Nat, NEW b \in Seq(Downs), NEW calm,
         BodyOfChunks(n, s, h, g, b, calm), h.size \in Nat, b # <<>>, b[1].t = "chunk",
         NEW m \in Links, m.cut = n.cut
  PROVE  BodyOfChunks(m, s, h, g + 1, Tail(b), calm)
<1>1. PICK u \in Seq(Downs) : u = Tail(b) BY TailOf
<1>2. /\ Len(b) \in Nat \ {0} /\ Len(u) = Len(b) - 1 /\ DOMAIN b = 1..Len(b)
      /\ DOMAIN u = 1..(Len(b) - 1) /\ \A i \in DOMAIN u : u[i] = b[i + 1] /\ i + 1 \in DOMAIN b
      /\ u = <<>> <=> Len(b) = 1
  BY <1>1, TailOf
<1>3. Exact(m, s, calm) <=> Exact(n, s, calm) BY DEF Exact
<1>4. \A i \in DOMAIN b : b[i].t \in {"chunk", "last"} /\ (b[i].t = "last" => i = Len(b))
  BY DEF BodyOfChunks
<1>5. \A i \in DOMAIN u : u[i].t \in {"chunk", "last"} /\ (u[i].t = "last" => i = Len(u))
  BY <1>2, <1>4
<1>6. g + 1 + Len(u) = g + Len(b) BY <1>2
<1>7. CASE b[Len(b)].t = "last"
  <2>1. Len(b) # 1 BY <1>7
  <2>2. u # <<>> /\ Len(u) \in DOMAIN u /\ Len(u) + 1 = Len(b) BY <1>2, <2>1
  <2>3. u[Len(u)].t = "last" BY <1>2, <1>7, <2>2
  <2>4. g + Len(b) - 1 = h.size /\ s.pc # "transfer" BY <1>7 DEF BodyOfChunks
  <2>5. g + 1 + Len(u) - 1 = h.size BY <1>2, <1>6, <2>4
  <2> QED BY <1>1, <1>5, <2>2, <2>3, <2>4, <2>5 DEF BodyOfChunks
<1>8. CASE b[Len(b)].t # "last"
  <2>1. Amount(n, s, h, g + Len(b), calm) /\ (Exact(n, s, calm) => s.pc = "transfer")
    BY <1>8 DEF BodyOfChunks
  <2>2. Amount(m, s, h, g + 1 + Len(u), calm) /\ (Exact(m, s, calm) => s.pc = "transfer")
    BY <1>3, <1>6, <2>1 DEF Amount
  <2>3. ~(u # <<>> /\ u[Len(u)].t = "last")
    <3>1. ASSUME u # <<>> PROVE u[Len(u)].t # "last"
      <4>1. Len(u) \in DOMAIN u /\ Len(u) + 1 = Len(b) BY <1>2, <3>1
      <4> QED BY <1>2, <1>8, <4>1
    <3> QED BY <3>1
  <2> QED BY <1>1, <1>5, <2>2, <2>3 DEF BodyOfChunks
<1> QED BY <1>7, <1>8

(* A unit or a chunk is read.                                               *)
LEMMA UnitRead ==
  ASSUME NEW n, NEW s, NEW cl, NEW calm, Fit(n, s, "body", cl, calm), n.down # <<>>,
         NEW m \in Links,
         m.cOpen = n.cOpen, m.sOpen = n.sOpen, m.cut = n.cut, m.up = n.up, m.down = Tail(n.down),
         NEW d \in Clients, d.pc = "body", d.k = cl.k, d.req = cl.req, d.result = cl.result,
         d.resp = cl.resp, d.got = Append(cl.got, n.down[1].id),
         \/ FramingOf(cl) = "length" /\ cl.left > 0 /\ d.left = cl.left - 1
         \/ FramingOf(cl) = "chunked" /\ n.down[1].t = "chunk"
         \/ FramingOf(cl) = "eof"
  PROVE  Fit(m, s, "body", d, calm)
<1>0. /\ n \in Links /\ s \in Sessions /\ cl \in Clients /\ calm \in BOOLEAN /\ Got(cl)
      /\ cl.pc = "body" /\ cl.req \in Requests
      /\ n.down \in Seq(Downs) /\ Len(cl.got) \in Nat /\ cl.left \in Nat
      /\ cl.resp \in Replies /\ cl.resp.size \in Nat /\ cl.resp.framing \in Framings
      /\ ~Asked(n, s) /\ s.pc \notin Serving
      /\ Answer(n, s, cl.resp, Len(cl.got), n.down, "body", cl, calm)
  BY InBodyOf
<1>1. Opened(n, s, "body", calm) /\ Upward(n, s, "body", cl, calm) BY DEF Fit, Good
<1>2. PICK h, g, b : h = cl.resp /\ g = Len(cl.got) /\ b = n.down OBVIOUS
<1>3. /\ Final(h, cl) /\ Answered(n, s, h, "body", cl, calm) /\ Body(n, s, h, g, b, cl, calm)
      /\ g \in Nat /\ b \in Seq(Downs) /\ b # <<>> /\ h.size \in Nat
  BY <1>2, <1>0 DEF Answer
<1>4. ~NoBody(h, cl) BY <1>3 DEF Body
<1>5. FramingOf(cl) = h.framing BY <1>2, <1>4 DEF FramingOf
<1>6. PICK u \in Seq(Downs) : u = Tail(b) BY <1>3, TailOf
<1>7. /\ Len(b) \in Nat \ {0} /\ Len(u) = Len(b) - 1 /\ DOMAIN b = 1..Len(b)
      /\ DOMAIN u = 1..(Len(b) - 1) /\ \A i \in DOMAIN u : u[i] = b[i + 1] /\ i + 1 \in DOMAIN b
  BY <1>3, <1>6, TailOf
<1>8. b[1].id = cl.k BY <1>3, <1>7 DEF Body
<1>9. \A i \in DOMAIN u : u[i].id = cl.k BY <1>3, <1>7 DEF Body
<1>10. /\ Len(d.got) = g + 1 /\ DOMAIN d.got = 1..(g + 1)
       /\ \A i \in 1..(g + 1) : d.got[i] = cl.k
  <2>1. cl.got \in Seq(Ids) /\ cl.k \in Ids /\ d.got = Append(cl.got, cl.k)
    BY <1>2, <1>0, <1>8 DEF Clients
  <2>2. PICK q \in Seq(Ids) : q = cl.got BY <2>1
  <2>3. /\ Len(d.got) = Len(q) + 1 /\ \A i \in 1..Len(q) : d.got[i] = q[i]
        /\ d.got[Len(q) + 1] = cl.k /\ d.got \in Seq(Ids)
    BY <2>1, <2>2, AppendProperties
  <2>4. \A i \in 1..g : q[i] = cl.k
    <3>1. DOMAIN cl.got = 1..g BY <1>2, <2>1
    <3> QED BY <1>0, <2>2, <3>1 DEF Got
  <2>5. DOMAIN d.got = 1..Len(d.got) BY <2>3
  <2>6. \A i \in 1..(g + 1) : i \in 1..g \/ i = g + 1 BY <1>3
  <2> QED BY <1>2, <2>2, <2>3, <2>4, <2>5, <2>6
<1>11. NoBody(h, d) <=> NoBody(h, cl) BY DEF NoBody
<1>12. Got(d)
  <2>1. d.result = "none" BY <1>0 DEF Got
  <2>2. h \in Replies /\ h.id = d.k /\ d.resp = h /\ h.framing # "none" BY <1>2, <1>0, <1>3, <1>4 DEF Body, Got
  <2>3. ASSUME h.framing = "length" PROVE Len(d.got) + d.left = h.size
    <3>1. d.left = cl.left - 1 BY <1>5, <2>3
    <3>2. g + cl.left = h.size BY <1>2, <1>0, <1>4, <2>3 DEF Got
    <3> QED BY <1>0, <1>3, <1>10, <3>1, <3>2
  <2> QED BY <1>4, <1>10, <1>11, <2>1, <2>2, <2>3 DEF Got
<1>13. ~n.cut BY <1>2, <1>1, <1>3 DEF Opened
<1>14. Exact(m, s, calm) <=> Exact(n, s, calm) BY DEF Exact
<1>15. Answer(m, s, h, g + 1, u, "body", d, calm)
  <2>1. Final(h, d) BY <1>3, <1>11 DEF Final
  <2>2. Consumed(n, "body", cl) => Consumed(m, "body", d) BY DEF Consumed, NoMore
  <2>3. Answered(m, s, h, "body", d, calm) BY <1>3, <2>2 DEF Answered
  <2>4. h.framing \in {"length", "eof"} => BodyOfUnits(m, s, h, g + 1, u, calm)
    <3>1. ASSUME h.framing \in {"length", "eof"} PROVE BodyOfUnits(m, s, h, g + 1, u, calm)
      <4>1. BodyOfUnits(n, s, h, g, b, calm) BY <1>3, <1>4, <3>1 DEF Body
      <4>2. g + 1 + Len(u) = g + Len(b) BY <1>3, <1>7
      <4>3. Amount(m, s, h, g + 1 + Len(u), calm) BY <1>14, <4>1, <4>2 DEF BodyOfUnits, Amount
      <4>4. \A i \in DOMAIN u : u[i].t = "data" BY <1>7, <4>1 DEF BodyOfUnits
      <4> QED BY <4>3, <4>4 DEF BodyOfUnits
    <3> QED BY <3>1
  <2>5. h.framing = "chunked" => BodyOfChunks(m, s, h, g + 1, u, calm)
    <3>1. ASSUME h.framing = "chunked" PROVE BodyOfChunks(m, s, h, g + 1, u, calm)
      <4>1. BodyOfChunks(n, s, h, g, b, calm) BY <1>3, <1>4, <3>1 DEF Body
      <4>2. b[1].t = "chunk" BY <1>2, <1>5, <3>1
      <4> QED BY <1>0, <1>3, <1>6, <4>1, <4>2, ChunkRead
    <3> QED BY <3>1
  <2>6. Body(m, s, h, g + 1, u, d, calm) BY <1>3, <1>4, <1>9, <1>11, <2>4, <2>5 DEF Body
  <2> QED BY <2>1, <2>3, <2>6 DEF Answer
<1>16. Replied(m, s, "body", d, calm) BY <1>2, <1>6, <1>10, <1>15 DEF Replied
<1>17. ~Asked(m, s) BY <1>0 DEF Asked
<1>18. s.pc \notin Reading \cup {"handler", "answer", "too large", "stream"}
  BY <1>0 DEF Serving, Reading
<1>19. Upward(m, s, "body", d, calm) BY <1>0, <1>1, <1>17, <1>18 DEF Upward
<1>20. Opened(m, s, "body", calm) BY <1>1, <1>13 DEF Opened
<1>21. "body" \in Roles /\ "body" \notin {"idle", "write"} BY DEF Roles, Using, Exchanging
<1> QED BY <1>0, <1>12, <1>16, <1>17, <1>19, <1>20, <1>21 DEF Fit, Good, Exchange

(* The client has found the end of the body: what it has is the answer to   *)
(* its request, and nothing of it is left behind.                           *)
LEMMA BodyWhole ==
  ASSUME NEW n, NEW s, NEW cl, NEW calm, Fit(n, s, "body", cl, calm),
         \/ FramingOf(cl) = "length" /\ cl.left = 0
         \/ FramingOf(cl) = "chunked" /\ n.down # <<>> /\ n.down[1].t = "last"
         \/ FramingOf(cl) = "eof" /\ n.down = <<>> /\ ~n.sOpen /\ ~n.cut
  PROVE  /\ cl.resp.id = cl.k /\ \A i \in DOMAIN cl.got : cl.got[i] = cl.k
         /\ Len(cl.got) = cl.resp.size \/ (cl.resp.framing = "eof" /\ ~calm)
         /\ FramingOf(cl) = "length" => n.down = <<>> /\ Quiet(s)
         /\ FramingOf(cl) = "chunked" => Tail(n.down) = <<>> /\ Quiet(s)
<1>0. /\ n \in Links /\ s \in Sessions /\ cl \in Clients /\ calm \in BOOLEAN /\ Got(cl)
      /\ cl.pc = "body" /\ n.cOpen
      /\ n.down \in Seq(Downs) /\ Len(cl.got) \in Nat /\ cl.left \in Nat
      /\ cl.resp \in Replies /\ cl.resp.size \in Nat /\ cl.resp.framing \in Framings
      /\ Answer(n, s, cl.resp, Len(cl.got), n.down, "body", cl, calm)
  BY InBodyOf
<1>1. PICK h, g, b : h = cl.resp /\ g = Len(cl.got) /\ b = n.down OBVIOUS
<1>2. /\ Body(n, s, h, g, b, cl, calm) /\ Opened(n, s, "body", calm)
      /\ g \in Nat /\ b \in Seq(Downs) /\ h.size \in Nat /\ s.left \in Nat
  BY <1>1, <1>0 DEF Answer, Fit, Good, Sessions
<1>3. cl.resp.id = cl.k /\ \A i \in DOMAIN cl.got : cl.got[i] = cl.k BY <1>0 DEF Got
<1>4. Len(b) \in Nat /\ (Len(b) = 0 <=> b = <<>>) BY <1>2, EmptySeq
<1>5. Owed(s) \in Nat /\ (s.pc # "transfer" => Quiet(s)) /\ (s.pc = "transfer" => Owed(s) = s.left)
  BY <1>2 DEF Owed, Quiet
<1>6. CASE FramingOf(cl) = "length" /\ cl.left = 0
  <2>1. CASE NoBody(h, cl)
    <3>1. b = <<>> /\ g = 0 /\ h.size = 0 /\ s.pc # "transfer" BY <1>2, <2>1 DEF Body
    <3> QED BY <1>1, <1>3, <1>5, <1>6, <3>1
  <2>2. CASE ~NoBody(h, cl)
    <3>1. h.framing = "length" BY <1>1, <1>6, <2>2 DEF FramingOf
    <3>2. g = h.size BY <1>1, <1>0, <1>6, <2>2, <3>1 DEF Got
    <3>3. g + Len(b) + Owed(s) <= h.size
      BY <1>2, <2>2, <3>1 DEF Body, BodyOfUnits, Amount
    <3>4. Len(b) = 0 /\ Owed(s) = 0 BY <1>2, <1>4, <1>5, <3>2, <3>3
    <3>5. Quiet(s) BY <1>2, <1>5, <2>2, <3>1, <3>4 DEF Body, Quiet
    <3> QED BY <1>1, <1>3, <1>4, <1>6, <3>2, <3>4, <3>5
  <2> QED BY <2>1, <2>2
<1>7. CASE FramingOf(cl) = "chunked" /\ b # <<>> /\ b[1].t = "last"
  <2>1. ~NoBody(h, cl) /\ h.framing = "chunked" BY <1>1, <1>7 DEF FramingOf
  <2>2. BodyOfChunks(n, s, h, g, b, calm) BY <1>2, <2>1 DEF Body
  <2>3. 1 \in DOMAIN b BY <1>2, <1>4, <1>7
  <2>4. Len(b) = 1 BY <1>7, <2>2, <2>3 DEF BodyOfChunks
  <2>5. g + Len(b) - 1 = h.size /\ s.pc # "transfer" BY <1>7, <2>2, <2>4 DEF BodyOfChunks
  <2>6. g = h.size BY <1>2, <2>4, <2>5
  <2>7. Tail(b) = <<>> BY <1>2, <1>7, <2>4, TailOf
  <2> QED BY <1>1, <1>3, <1>5, <1>7, <2>5, <2>6, <2>7
<1>8. CASE FramingOf(cl) = "eof" /\ b = <<>> /\ ~n.sOpen /\ ~n.cut
  <2>1. ~NoBody(h, cl) /\ h.framing = "eof" BY <1>1, <1>8 DEF FramingOf
  <2>2. s.pc = "closed" BY <1>2, <1>8 DEF Opened
  <2>3. Amount(n, s, h, g + Len(b), calm) BY <1>2, <2>1 DEF Body, BodyOfUnits
  <2>4. Owed(s) = 0 /\ Len(b) = 0 BY <1>4, <1>8, <2>2 DEF Owed
  <2>5. calm => g + Len(b) + Owed(s) = h.size BY <1>8, <2>3 DEF Amount, Exact
  <2>6. calm => g = h.size BY <1>2, <2>4, <2>5
  <2> QED BY <1>1, <1>3, <1>8, <2>1, <2>6
<1> QED BY <1>1, <1>6, <1>7, <1>8

(* release(): nothing keeps the connection from being used again.           *)
LEMMA Pooled ==
  ASSUME NEW n, NEW s, NEW cl, NEW calm, Fit(n, s, "body", cl, calm), cl.resp.keep, Quiet(s),
         NEW m \in Links, m.down = <<>>,
         m.cOpen = n.cOpen, m.sOpen = n.sOpen, m.cut = n.cut, m.up = n.up,
         NEW d \in Clients, Got(d)
  PROVE  Fit(m, s, "idle", d, calm)
<1>1. /\ n \in Links /\ s \in Sessions /\ cl \in Clients /\ calm \in BOOLEAN
      /\ ~Asked(n, s) /\ s.pc \notin Serving
      /\ Answered(n, s, cl.resp, "body", cl, calm)
  BY InBodyOf DEF Answer
<1>2. Opened(n, s, "body", calm) /\ Upward(n, s, "body", cl, calm) BY DEF Fit, Good
<1>3. s.pc \in Sending \cup {"head", "closed"} BY <1>1 DEF Sessions
<1>4. s.pc # "closed" => NextHead(s) BY <1>1, <1>3 DEF Answered, NextHead
<1>5. NextHead(s) => m.up = <<>> BY <1>1 DEF Answered, Consumed
<1>6. calm => s.pc # "closed" BY <1>1 DEF Answered
<1>7. Rested(m, s, calm) BY <1>4, <1>5, <1>6 DEF Rested
<1>8. Opened(m, s, "idle", calm) BY <1>2 DEF Opened
<1>9. Upward(m, s, "idle", d, calm)
  <2>1. ~Asked(m, s) BY <1>1 DEF Asked
  <2>2. s.pc \notin Reading \cup {"handler", "answer", "too large", "stream"}
    BY <1>1 DEF Serving, Reading
  <2> QED BY <1>1, <1>2, <2>1, <2>2 DEF Upward
<1>10. "idle" \in Roles /\ "idle" \notin Using \cup Exchanging BY DEF Roles, Using, Exchanging
<1> QED BY <1>1, <1>7, <1>8, <1>9, <1>10 DEF Fit, Good

(* A response that does not come, or ends too early, has a cause.           *)
LEMMA ReadHasCause ==
  ASSUME NEW n, NEW s, NEW role, NEW cl, NEW calm, Fit(n, s, role, cl, calm),
         role = "read" \/ (role = "body" /\ ~(FramingOf(cl) = "length" /\ cl.left = 0)),
         \/ n.cut
         \/ n.down = <<>> /\ ~n.sOpen /\ (role = "body" => FramingOf(cl) # "eof")
         \/ /\ n.down # <<>>
            /\ IF role = "read" THEN n.down[1].t # "response"
               ELSE FramingOf(cl) = "chunked" /\ n.down[1].t \notin {"chunk", "last"}
  PROVE  ~calm
<1>1. /\ n \in Links /\ s \in Sessions /\ role \in Roles /\ cl \in Clients /\ calm \in BOOLEAN
      /\ Opened(n, s, role, calm) /\ Exchange(n, s, role, cl, calm)
  BY DEF Fit, Good, Exchanging
<1>2. CASE n.cut BY <1>1, <1>2 DEF Opened
<1>3. CASE role = "read"
  <2>1. CASE n.down # <<>> BY <1>2, <1>3, <2>1, ResponseCame
  <2>2. CASE n.down = <<>> /\ ~n.sOpen
    <3>1. s.pc = "closed" BY <1>1, <2>2 DEF Opened
    <3>2. ~Asked(n, s) /\ s.pc \notin Serving
      BY <3>1 DEF Asked, NextHead, Sending, Serving, Reading
    <3>3. Replied(n, s, role, cl, calm) BY <1>1, <3>2 DEF Exchange
    <3>4. Strip(n.down) = <<>> BY <2>2 DEF Strip
    <3> QED BY <1>2, <1>3, <3>3, <3>4 DEF Replied
  <2> QED BY <1>2, <1>3, <2>1, <2>2
<1>4. CASE role = "body" /\ ~n.cut
  <2>0. /\ Got(cl) /\ cl.pc = "body" /\ n.down \in Seq(Downs)
        /\ Len(cl.got) \in Nat /\ cl.left \in Nat /\ cl.resp.size \in Nat
        /\ cl.resp.framing \in Framings
        /\ Answer(n, s, cl.resp, Len(cl.got), n.down, "body", cl, calm)
    BY <1>4, InBodyOf
  <2>1. PICK h, g, b : h = cl.resp /\ g = Len(cl.got) /\ b = n.down OBVIOUS
  <2>2. /\ Body(n, s, h, g, b, cl, calm) /\ g \in Nat /\ b \in Seq(Downs) /\ h.size \in Nat
        /\ h.framing \in Framings /\ Final(h, cl)
    BY <2>1, <2>0 DEF Answer
  <2>3. ~NoBody(h, cl) /\ FramingOf(cl) = h.framing
    BY <1>4, <2>1, <2>0 DEF Got, FramingOf
  <2>4. CASE b # <<>>
    <3>1. h.framing = "chunked" /\ b[1].t \notin {"chunk", "last"} BY <1>4, <2>1, <2>3, <2>4
    <3>2. 1 \in DOMAIN b BY <2>2, <2>4, TailOf
    <3> QED BY <2>2, <2>3, <3>1, <3>2 DEF Body, BodyOfChunks
  <2>5. CASE b = <<>>
    <3>1. s.pc = "closed" /\ h.framing \in {"length", "chunked"}
      BY <1>1, <1>4, <2>1, <2>2, <2>3, <2>5 DEF Opened, Framings, Body
    <3>2. ASSUME calm PROVE FALSE
      <4>1. Exact(n, s, calm) /\ Owed(s) = 0 /\ Len(b) = 0
        BY <1>4, <2>5, <3>1, <3>2 DEF Exact, Owed
      <4>2. h.framing # "chunked"
        <5>1. ASSUME h.framing = "chunked" PROVE FALSE
          <6>1. BodyOfChunks(n, s, h, g, b, calm) BY <2>2, <2>3, <5>1 DEF Body
          <6> QED BY <2>5, <3>1, <4>1, <6>1 DEF BodyOfChunks
        <5> QED BY <5>1
      <4>3. h.framing = "length" BY <3>1, <4>2
      <4>4. g + Len(b) + Owed(s) = h.size
        BY <2>2, <2>3, <4>1, <4>3 DEF Body, BodyOfUnits, Amount
      <4>5. g + cl.left = h.size BY <2>1, <2>0, <2>3, <4>3 DEF Got
      <4>6. cl.left = 0 BY <2>0, <2>2, <4>1, <4>4, <4>5
      <4> QED BY <1>4, <2>3, <4>3, <4>6
    <3> QED BY <3>2
  <2> QED BY <2>4, <2>5
<1> QED BY <1>2, <1>3, <1>4

(* And a request that cannot be written.                                    *)
LEMMA WriteHasCause ==
  ASSUME NEW n, NEW s, NEW role, NEW cl, NEW calm, Fit(n, s, role, cl, calm), n.cut \/ ~n.sOpen,
         \/ role = "write"
         \/ role = "produce" /\ (Chunked(cl.req) \/ cl.left > 0)
  PROVE  ~calm
<1>1. /\ n \in Links /\ s \in Sessions /\ role \in Roles /\ cl \in Clients /\ calm \in BOOLEAN
      /\ Opened(n, s, role, calm)
      /\ role = "write" => Rested(n, s, calm)
      /\ role = "produce" => Exchange(n, s, role, cl, calm)
  BY DEF Fit, Good, Exchanging
<1>2. CASE n.cut BY <1>1, <1>2 DEF Opened
<1>3. CASE ~n.cut
  <2>1. s.pc = "closed" BY <1>1, <1>3 DEF Opened
  <2>2. CASE role = "write" BY <1>1, <2>1, <2>2 DEF Rested
  <2>3. CASE role = "produce" /\ (Chunked(cl.req) \/ cl.left > 0)
    <3>1. ~Asked(n, s) /\ s.pc \notin Serving
      BY <2>1 DEF Asked, NextHead, Sending, Serving, Reading
    <3>2. Replied(n, s, role, cl, calm) BY <1>1, <2>3, <3>1 DEF Exchange
    <3>3. cl.left \in Nat BY <1>1 DEF Clients
    <3>4. ~NoMore(role, cl) BY <2>3, <3>3 DEF NoMore
    <3>5. \A h, g, b : Answer(n, s, h, g, b, role, cl, calm) => ~calm
      BY <3>4 DEF Answer, Answered, Consumed
    <3> QED BY <1>3, <2>3, <3>2, <3>5 DEF Replied
  <2> QED BY <2>2, <2>3
<1> QED BY <1>2, <1>3

-----------------------------------------------------------------------------
(* From one connection to all of them.                                      *)

(* What the invariant says of one connection.                               *)
LEMMA FitOf ==
  ASSUME ExchangeInv, NEW c \in Conns
  PROVE  /\ Fit(net[c], sess[c], Role(c), client, Calm(c))
         /\ net[c] \in Links /\ sess[c] \in Sessions /\ c \in 1..Len(net) /\ c \in 1..Len(sess)
         /\ client \in Clients
<1>1. /\ client \in Clients /\ net \in Seq(Links) /\ sess \in Seq(Sessions) /\ Len(sess) = Len(net)
      /\ Got(client) /\ Owner(client, idle, Conns)
      /\ Good(net[c], sess[c], Role(c), client, Calm(c))
  BY DEF ExchangeInv, Types
<1>2. c \in 1..Len(net) /\ c \in 1..Len(sess) BY <1>1 DEF Conns
<1>3. net[c] \in Links /\ sess[c] \in Sessions BY <1>1, <1>2
<1>4. Role(c) \in Roles /\ (Role(c) \in Using => client.pc = Role(c) /\ client.req \in Requests)
  <2>1. client.pc \in Using => client.pc # "idle" BY DEF Using, Exchanging
  <2>2. "idle" \notin Using /\ "gone" \notin Using BY DEF Using, Exchanging
  <2> QED BY <1>1, <2>1, <2>2 DEF Role, RoleOf, Roles, Owner
<1>5. Calm(c) \in BOOLEAN BY DEF Calm
<1> QED BY <1>1, <1>2, <1>3, <1>4, <1>5 DEF Fit

(* A step of one session or of the network on one connection.               *)
LEMMA SessionFrame ==
  ASSUME ExchangeInv, NEW c \in Conns, UNCHANGED <<client, idle>>,
         NEW m \in Links, NEW t \in Sessions,
         net' = [net EXCEPT ![c] = m], sess' = [sess EXCEPT ![c] = t],
         blamed' = blamed \/ blamed' = blamed \cup {c},
         Fit(m, t, Role(c), client, c \notin blamed')
  PROVE  ExchangeInv'
<1>1. /\ client \in Clients /\ net \in Seq(Links) /\ sess \in Seq(Sessions) /\ Len(sess) = Len(net)
      /\ Got(client) /\ Owner(client, idle, Conns)
      /\ \A x \in Conns : Good(net[x], sess[x], Role(x), client, Calm(x))
  BY DEF ExchangeInv, Types
<1>2. c \in 1..Len(net) /\ c \in 1..Len(sess) BY FitOf
<1>3. /\ net' \in Seq(Links) /\ sess' \in Seq(Sessions) /\ Len(net') = Len(net) /\ Len(sess') = Len(sess)
      /\ \A x \in 1..Len(net) : net'[x] = IF x = c THEN m ELSE net[x]
      /\ \A x \in 1..Len(sess) : sess'[x] = IF x = c THEN t ELSE sess[x]
  BY <1>1, <1>2, ExceptSeq
<1>4. Conns = 1..Len(net) /\ Conns' = 1..Len(net) BY <1>1, <1>3 DEF Conns
<1>5. \A x \in Conns : Role(x)' = Role(x) BY DEF Role
<1>6. ASSUME NEW x \in Conns PROVE Good(net'[x], sess'[x], Role(x), client, x \notin blamed')
  <2>1. CASE x = c BY <1>1, <1>3, <1>4, <2>1 DEF Fit
  <2>2. CASE x # c
    <3>1. (x \notin blamed') = Calm(x) BY <2>2 DEF Calm
    <3> QED BY <1>1, <1>3, <1>4, <2>2, <3>1
  <2> QED BY <2>1, <2>2
<1>7. Types' BY <1>1, <1>3 DEF Types
<1>8. Owner(client, idle, Conns)' BY <1>1, <1>4 DEF Owner
<1> QED BY <1>1, <1>4, <1>5, <1>6, <1>7, <1>8 DEF ExchangeInv, Calm

(* A step of the client on the connection it uses; the others it does not.  *)
LEMMA ClientFrame ==
  ASSUME ExchangeInv, NEW c \in Conns, UNCHANGED sess,
         NEW d \in Clients, client' = d, Got(d), Owner(d, idle', Conns),
         NEW m \in Links, net' = [net EXCEPT ![c] = m],
         blamed' = blamed \/ blamed' = blamed \cup {c},
         Fit(m, sess[c], RoleOf(d, idle', c), d, c \notin blamed'),
         \A x \in Conns : x # c => Role(x) \in {"idle", "gone"} /\ RoleOf(d, idle', x) = Role(x)
  PROVE  ExchangeInv'
<1>1. /\ client \in Clients /\ net \in Seq(Links) /\ sess \in Seq(Sessions) /\ Len(sess) = Len(net)
      /\ \A x \in Conns : Good(net[x], sess[x], Role(x), client, Calm(x))
  BY DEF ExchangeInv, Types
<1>2. c \in 1..Len(net) BY FitOf
<1>3. /\ net' \in Seq(Links) /\ Len(net') = Len(net)
      /\ \A x \in 1..Len(net) : net'[x] = IF x = c THEN m ELSE net[x]
  BY <1>1, <1>2, ExceptSeq
<1>4. Conns = 1..Len(net) /\ Conns' = Conns BY <1>1, <1>3 DEF Conns
<1>5. ASSUME NEW x \in Conns PROVE Good(net'[x], sess[x], RoleOf(d, idle', x), d, x \notin blamed')
  <2>1. CASE x = c BY <1>2, <1>3, <2>1 DEF Fit
  <2>2. CASE x # c
    <3>1. (x \notin blamed') = Calm(x) BY <2>2 DEF Calm
    <3>2. Fit(net[x], sess[x], Role(x), d, Calm(x)) BY <2>2, FitOf, Detached
    <3>3. net'[x] = net[x] BY <1>3, <1>4, <2>2
    <3> QED BY <2>2, <3>1, <3>2, <3>3 DEF Fit
  <2> QED BY <2>1, <2>2
<1>6. Types' BY <1>1, <1>3 DEF Types
<1>7. Got(client)' /\ Owner(client, idle, Conns)' BY <1>4
<1>8. \A x \in Conns : Good(net[x], sess[x], Role(x), client, Calm(x))'
  BY <1>5 DEF Role, Calm
<1> QED BY <1>4, <1>6, <1>7, <1>8 DEF ExchangeInv

-----------------------------------------------------------------------------
(* Steps of the sessions.                                                   *)

(* The states a session starts from and ends in.                            *)
LEMMA ClosedSession ==
  ASSUME NEW c
  PROVE  Closed(c) \in Sessions /\ Closed(c).pc = "closed" /\ NewSession \in Sessions
<1>0. 0 \in Ids /\ 0 \in Errors BY ExchangeAssumption DEF Ids, Errors
<1>1. NewSession \in Sessions
  BY <1>0 DEF NewSession, Sessions, Asks, Framings
<1>2. PICK s \in Sessions : s = NewSession BY <1>1
<1>3. [s EXCEPT !.pc = "closed"] \in Sessions /\ [s EXCEPT !.pc = "closed"].pc = "closed"
  BY DEF Sessions
<1> QED BY <1>1, <1>2, <1>3 DEF Closed

(* The head of the request that waits is read, whatever its route.          *)
LEMMA ReadRequestHeadInv ==
  ASSUME ExchangeInv, NEW c \in Conns, ReadRequestHead(c)
  PROVE  ExchangeInv'
<1>0. PICK n, s : n = net[c] /\ s = sess[c] OBVIOUS
<1>1. /\ Fit(n, s, Role(c), client, Calm(c)) /\ n \in Links /\ s \in Sessions
  BY <1>0, FitOf
<1>2. s.pc = "head" /\ n.up # <<>> BY <1>0 DEF ReadRequestHead
<1>3. PICK tok : tok = Head(n.up) OBVIOUS
<1>4. n.up \in Seq(Calls \cup Pieces) BY <1>1 DEF Links
<1>5. tok = n.up[1] /\ Tail(n.up) \in Seq(Calls \cup Pieces) BY <1>2, <1>3, <1>4, TailOf
<1>6. tok \in Calls
  <2>1. Asked(n, s) BY <1>2 DEF Asked, NextHead
  <2>2. n.up[1] \in Calls BY <1>1, <2>1 DEF Fit, Good, Upward
  <2> QED BY <1>5, <2>2
<1>7. tok.id \in Ids /\ tok.req \in Requests /\ tok.req.size \in Nat
  BY <1>6, ExchangeAssumption DEF Calls
<1>8. PICK complete \in BOOLEAN : complete = (~Chunked(tok.req) /\ tok.req.size = 0) OBVIOUS
<1>9. PICK route \in {"plain", "stream"} :
        sess' = [sess EXCEPT ![c] = [s EXCEPT
             !.id = tok.id, !.req = tok.req, !.route = route, !.left = tok.req.size,
             !.read = 0, !.complete = complete, !.error = 0,
             !.pc = IF route = "stream"
                      THEN IF tok.req.size > MaxBody THEN "too large" ELSE "stream"
                      ELSE IF ~complete \/ tok.req.expect THEN "consume" ELSE "handler"]]
  BY <1>0, <1>3, <1>8 DEF ReadRequestHead
<1>10. PICK pc : pc = IF route = "stream"
                      THEN IF tok.req.size > MaxBody THEN "too large" ELSE "stream"
                      ELSE IF ~complete \/ tok.req.expect THEN "consume" ELSE "handler"
  OBVIOUS
<1>11. /\ pc \in Serving /\ pc \in Reading \cup {"handler"} /\ pc # "body" /\ (pc = "handler" => complete)
       /\ pc \in {"too large", "stream"} => route = "stream"
  BY <1>10 DEF Serving, Reading
<1>12. PICK t : t = [s EXCEPT
             !.id = tok.id, !.req = tok.req, !.route = route, !.left = tok.req.size,
             !.read = 0, !.complete = complete, !.error = 0, !.pc = pc]
  OBVIOUS
<1>13. /\ t \in Sessions /\ t.pc = pc /\ t.id = tok.id /\ t.req = tok.req /\ t.route = route
       /\ t.left = tok.req.size /\ t.complete = complete
  <2>0. PICK id, req, left : id = tok.id /\ req = tok.req /\ left = tok.req.size OBVIOUS
  <2>1. id \in Ids /\ req \in Requests /\ left \in Nat /\ pc \in Serving BY <1>7, <1>11, <2>0
  <2>2. t = [s EXCEPT !.id = id, !.req = req, !.route = route, !.left = left,
                      !.read = 0, !.complete = complete, !.error = 0, !.pc = pc]
    BY <1>12, <2>0
  <2>3. s \in Sessions BY <1>1
  <2>4. 0 \in Errors BY DEF Errors
  <2>5. /\ t \in Sessions /\ t.pc = pc /\ t.id = id /\ t.req = req /\ t.route = route
        /\ t.left = left /\ t.complete = complete
    BY <2>1, <2>2, <2>3, <2>4 DEF Sessions, Asks
  <2> QED BY <2>0, <2>5
<1>14. PICK m : m = [n EXCEPT !.up = Tail(n.up)] OBVIOUS
<1>15. /\ m \in Links /\ m.cOpen = n.cOpen /\ m.sOpen = n.sOpen /\ m.cut = n.cut /\ m.down = n.down
       /\ m.up = Tail(n.up)
  BY <1>1, <1>5, <1>14 DEF Links
<1>16. sess' = [sess EXCEPT ![c] = t] BY <1>9, <1>10, <1>12
<1>17. net' = [net EXCEPT ![c] = m] BY <1>0, <1>14 DEF ReadRequestHead
<1>18. route # "none" OBVIOUS
<1>19. Fit(m, t, Role(c), client, Calm(c))
  BY <1>1, <1>2, <1>5, <1>8, <1>11, <1>13, <1>15, <1>18, HeadRead
<1>20. UNCHANGED <<client, idle, blamed>> BY DEF ReadRequestHead
<1>21. Calm(c) = (c \notin blamed') BY <1>20 DEF Calm
<1> QED BY <1>13, <1>15, <1>16, <1>17, <1>19, <1>20, <1>21, SessionFrame

(* What is left of a connection when it is written to ...                   *)
LEMMA WrittenIs ==
  ASSUME NEW n \in Links
  PROVE  /\ \A x \in Seq(Downs) : \E m \in Links :
              /\ m = Written(n, "down", x)
              /\ m.cOpen = n.cOpen /\ m.sOpen = n.sOpen /\ m.cut = n.cut /\ m.up = n.up
              /\ m.down = (IF n.cut THEN n.down ELSE n.down \o x)
         /\ \A x \in Seq(Calls \cup Pieces) : \E m \in Links :
              /\ m = Written(n, "up", x)
              /\ m.cOpen = n.cOpen /\ m.sOpen = n.sOpen /\ m.cut = n.cut /\ m.down = n.down
              /\ m.up = (IF n.cut THEN n.up ELSE n.up \o x)
<1>1. ASSUME NEW x \in Seq(Downs)
      PROVE  \E m \in Links :
              /\ m = Written(n, "down", x)
              /\ m.cOpen = n.cOpen /\ m.sOpen = n.sOpen /\ m.cut = n.cut /\ m.up = n.up
              /\ m.down = (IF n.cut THEN n.down ELSE n.down \o x)
  <2>1. CASE n.cut BY <2>1 DEF Written
  <2>2. CASE ~n.cut
    <3>1. n.down \o x \in Seq(Downs) BY CatOf DEF Links, Downs
    <3>2. PICK d \in Seq(Downs) : d = n.down \o x BY <3>1
    <3>3. PICK m : m = [n EXCEPT !.down = d] OBVIOUS
    <3>4. /\ m \in Links /\ m.cOpen = n.cOpen /\ m.sOpen = n.sOpen /\ m.cut = n.cut /\ m.up = n.up
          /\ m.down = d
      BY <3>3 DEF Links, Downs
    <3>5. m = Written(n, "down", x) BY <2>2, <3>2, <3>3 DEF Written
    <3> QED BY <2>2, <3>2, <3>4, <3>5
  <2> QED BY <2>1, <2>2
<1>2. ASSUME NEW x \in Seq(Calls \cup Pieces)
      PROVE  \E m \in Links :
              /\ m = Written(n, "up", x)
              /\ m.cOpen = n.cOpen /\ m.sOpen = n.sOpen /\ m.cut = n.cut /\ m.down = n.down
              /\ m.up = (IF n.cut THEN n.up ELSE n.up \o x)
  <2>1. CASE n.cut BY <2>1 DEF Written
  <2>2. CASE ~n.cut
    <3>1. n.up \o x \in Seq(Calls \cup Pieces) BY CatOf DEF Links
    <3>2. PICK d \in Seq(Calls \cup Pieces) : d = n.up \o x BY <3>1
    <3>3. PICK m : m = [n EXCEPT !.up = d] OBVIOUS
    <3>4. /\ m \in Links /\ m.cOpen = n.cOpen /\ m.sOpen = n.sOpen /\ m.cut = n.cut /\ m.down = n.down
          /\ m.up = d
      BY <3>3 DEF Links
    <3>5. m = Written(n, "up", x) BY <2>2, <3>2, <3>3 DEF Written
    <3> QED BY <2>2, <3>2, <3>4, <3>5
  <2> QED BY <2>1, <2>2
<1> QED BY <1>1, <1>2

(* ... and when one side closes it.                                         *)
LEMMA SettledIs ==
  ASSUME NEW n \in Links
  PROVE  \E m \in Links :
           /\ m = Settled(n) /\ m.cOpen = n.cOpen /\ m.sOpen = n.sOpen /\ m.cut = n.cut
           /\ m.up = (IF n.cOpen \/ n.sOpen THEN n.up ELSE <<>>)
           /\ m.down = (IF n.cOpen \/ n.sOpen THEN n.down ELSE <<>>)
<1>1. CASE n.cOpen \/ n.sOpen BY <1>1 DEF Settled
<1>2. CASE ~(n.cOpen \/ n.sOpen)
  <2>0. PICK x \in Seq(Downs), y \in Seq(Calls \cup Pieces) : x = <<>> /\ y = <<>> BY EmptySeq
  <2>1. PICK m : m = [n EXCEPT !.up = y, !.down = x] OBVIOUS
  <2>2. /\ m \in Links /\ m.cOpen = n.cOpen /\ m.sOpen = n.sOpen /\ m.cut = n.cut
        /\ m.up = y /\ m.down = x
    BY <2>1 DEF Links, Downs
  <2>3. m = Settled(n) BY <1>2, <2>0, <2>1 DEF Settled
  <2> QED BY <1>2, <2>0, <2>2, <2>3
<1> QED BY <1>1, <1>2

(* What becomes of a connection when the session writes a last time and     *)
(* closes it.                                                               *)
LEMMA CloseConnIs ==
  ASSUME NEW c \in Conns, net[c] \in Links, NEW x \in Seq(Downs), CloseConn(c, x)
  PROVE  \E m \in Links :
           /\ net' = [net EXCEPT ![c] = m]
           /\ m.cOpen = net[c].cOpen /\ ~m.sOpen /\ m.cut = net[c].cut
           /\ net[c].cOpen => /\ m.up = net[c].up
                              /\ m.down = (IF net[c].cut THEN net[c].down ELSE net[c].down \o x)
           /\ ~net[c].cOpen => m.up = <<>> /\ m.down = <<>>
<1>1. PICK n \in Links : n = net[c] OBVIOUS
<1>2. PICK w \in Links :
        /\ w = Written(n, "down", x)
        /\ w.cOpen = n.cOpen /\ w.sOpen = n.sOpen /\ w.cut = n.cut /\ w.up = n.up
        /\ w.down = (IF n.cut THEN n.down ELSE n.down \o x)
  BY WrittenIs
<1>3. PICK v : v = [w EXCEPT !.sOpen = FALSE] OBVIOUS
<1>4. /\ v \in Links /\ v.cOpen = w.cOpen /\ ~v.sOpen /\ v.cut = w.cut
      /\ v.up = w.up /\ v.down = w.down
  BY <1>3 DEF Links
<1>5. PICK m \in Links :
        /\ m = Settled(v) /\ m.cOpen = v.cOpen /\ m.sOpen = v.sOpen /\ m.cut = v.cut
        /\ m.up = (IF v.cOpen \/ v.sOpen THEN v.up ELSE <<>>)
        /\ m.down = (IF v.cOpen \/ v.sOpen THEN v.down ELSE <<>>)
  BY <1>4, SettledIs
<1>6. net' = [net EXCEPT ![c] = m] BY <1>1, <1>2, <1>3, <1>5 DEF CloseConn
<1>7. m.cOpen = n.cOpen /\ ~m.sOpen /\ m.cut = n.cut BY <1>2, <1>4, <1>5
<1>8. n.cOpen => m.up = n.up /\ m.down = (IF n.cut THEN n.down ELSE n.down \o x)
  BY <1>2, <1>4, <1>5
<1>9. ~n.cOpen => m.up = <<>> /\ m.down = <<>> BY <1>2, <1>4, <1>5
<1> QED BY <1>1, <1>6, <1>7, <1>8, <1>9

(* The session closes, with nothing more to say.                            *)
LEMMA HangsUp ==
  ASSUME ExchangeInv, NEW c \in Conns, CloseConn(c, <<>>), sess' = [sess EXCEPT ![c] = Closed(c)],
         UNCHANGED <<client, idle>>, blamed' = blamed \/ blamed' = blamed \cup {c},
         c \notin blamed' /\ net[c].cOpen => Excused(net[c], sess[c], Role(c), client)
  PROVE  ExchangeInv'
<1>0. PICK n, s : n = net[c] /\ s = sess[c] OBVIOUS
<1>1. Fit(n, s, Role(c), client, Calm(c)) /\ n \in Links /\ s \in Sessions BY <1>0, FitOf
<1>2. PICK x \in Seq(Downs) : x = <<>> BY EmptySeq
<1>3. n.down \in Seq(Downs) /\ n.down \o x = n.down BY <1>1, <1>2, CatOf DEF Links, Downs
<1>4. PICK m \in Links :
        /\ net' = [net EXCEPT ![c] = m]
        /\ m.cOpen = n.cOpen /\ ~m.sOpen /\ m.cut = n.cut
        /\ n.cOpen => m.up = n.up /\ m.down = (IF n.cut THEN n.down ELSE n.down \o x)
        /\ ~n.cOpen => m.up = <<>> /\ m.down = <<>>
  BY <1>0, <1>1, <1>2, CloseConnIs
<1>5. PICK t \in Sessions : t = Closed(c) /\ t.pc = "closed" BY ClosedSession
<1>6. PICK mood \in BOOLEAN : mood = (c \notin blamed') OBVIOUS
<1>7. (mood => Calm(c)) /\ (mood /\ n.cOpen => Excused(n, s, Role(c), client)) BY <1>0, <1>6 DEF Calm
<1>8. n.cOpen => m.up = n.up /\ m.down = n.down BY <1>3, <1>4
<1>9. m.cOpen = n.cOpen /\ ~m.sOpen /\ m.cut = n.cut BY <1>4
<1>10. ~n.cOpen => m.up = <<>> /\ m.down = <<>> BY <1>4
<1>11. t.pc = "closed" BY <1>5
<1>12. Fit(m, t, Role(c), client, mood) BY <1>1, <1>7, <1>8, <1>9, <1>10, <1>11, Hangup
<1> QED BY <1>4, <1>5, <1>6, <1>12, SessionFrame

(* The session sends an answer of its own, and closes.                      *)
LEMMA GivesAnswer ==
  ASSUME ExchangeInv, NEW c \in Conns, NEW status \in 400..499, AnswerAndClose(c, status),
         UNCHANGED <<client, idle>>, blamed' = blamed \/ blamed' = blamed \cup {c},
         \/ sess[c].pc \in Serving /\ (c \notin blamed' => ~net[c].cOpen \/ net[c].cut)
         \/ ~net[c].cOpen \/ net[c].cut
  PROVE  ExchangeInv'
<1>0. PICK n, s : n = net[c] /\ s = sess[c] OBVIOUS
<1>1. Fit(n, s, Role(c), client, Calm(c)) /\ n \in Links /\ s \in Sessions BY <1>0, FitOf
<1>2. PICK size \in {0, 1} : size = IF omit_body(s.req.method, status) THEN 0 ELSE 1 OBVIOUS
<1>3. PICK h : h = ResponseHead(s.id, status, "length", 1, FALSE, size) OBVIOUS
<1>4. /\ h \in Replies /\ h.id = s.id /\ h.status = status /\ h.framing = "length" /\ h.length = 1
      /\ ~h.keep /\ h.size = size /\ s.id \in Ids
  BY <1>1, <1>3 DEF ResponseHead, Replies, Framings, Sessions
<1>5. PICK y \in Seq(Pieces) : y = Units(s.id, size) BY <1>4, UnitsAre
<1>6. <<h>> \o y \in Seq(Downs)
  <2>1. h \in Downs BY <1>4 DEF Downs
  <2>2. <<h>> \in Seq(Downs) /\ y \in Seq(Downs) BY <2>1, SeqMonotonic DEF Downs
  <2> QED BY <2>2, CatOf
<1>7. PICK x \in Seq(Downs) : x = <<h>> \o y BY <1>6
<1>8. CloseConn(c, x) /\ sess' = [sess EXCEPT ![c] = Closed(c)]
  BY <1>0, <1>2, <1>3, <1>5, <1>7 DEF AnswerAndClose
<1>9. PICK m \in Links :
        /\ net' = [net EXCEPT ![c] = m]
        /\ m.cOpen = n.cOpen /\ ~m.sOpen /\ m.cut = n.cut
        /\ n.cOpen => m.up = n.up /\ m.down = (IF n.cut THEN n.down ELSE n.down \o x)
        /\ ~n.cOpen => m.up = <<>> /\ m.down = <<>>
  BY <1>0, <1>1, <1>8, CloseConnIs
<1>10. PICK t \in Sessions : t = Closed(c) /\ t.pc = "closed" BY ClosedSession
<1>11. PICK mood \in BOOLEAN : mood = (c \notin blamed') OBVIOUS
<1>12. mood => Calm(c)
  <2>1. blamed \subseteq blamed' OBVIOUS
  <2> QED BY <1>11, <2>1 DEF Calm
<1>13. n.cOpen /\ Calm(c) => ~n.cut BY <1>1 DEF Fit, Good, Opened
<1>14. Fit(m, t, Role(c), client, mood)
  <2>1. CASE ~n.cOpen \/ n.cut
    <3>1. (mood => Calm(c)) /\ ~(mood /\ n.cOpen)
      BY <1>12, <1>13, <2>1
    <3>2. n.cOpen => m.up = n.up /\ m.down = n.down BY <1>9, <2>1
    <3>3. m.cOpen = n.cOpen /\ ~m.sOpen /\ m.cut = n.cut BY <1>9
    <3>4. ~n.cOpen => m.up = <<>> /\ m.down = <<>> BY <1>9
    <3>5. t.pc = "closed" BY <1>10
    <3> QED BY <1>1, <3>1, <3>2, <3>3, <3>4, <3>5, Hangup
  <2>2. CASE s.pc \in Serving /\ (mood => ~n.cOpen \/ n.cut)
    <3>1. mood => Calm(c) /\ ~n.cOpen BY <1>12, <1>13, <2>2
    <3>2. h.status >= 200 BY <1>4
    <3>3. h.size = (IF omit_body(s.req.method, h.status) THEN 0 ELSE 1) BY <1>2, <1>4
    <3>4. n.cOpen => /\ m.up = n.up
                     /\ m.down = (IF n.cut THEN n.down ELSE n.down \o (<<h>> \o Units(s.id, h.size)))
      BY <1>4, <1>5, <1>7, <1>9
    <3>5. ~n.cOpen => m.up = <<>> /\ m.down = <<>> BY <1>9
    <3>6. m.cOpen = n.cOpen /\ ~m.sOpen /\ m.cut = n.cut BY <1>9
    <3>7. s.pc \in Serving /\ t.pc = "closed" BY <1>10, <2>2
    <3>8. /\ h \in Replies /\ h.id = s.id /\ h.framing = "length" /\ h.length = 1 /\ ~h.keep
      BY <1>4
    <3> QED BY <1>1, <3>1, <3>2, <3>3, <3>4, <3>5, <3>6, <3>7, <3>8, AnswersAndCloses
  <2> QED BY <1>0, <1>11, <2>1, <2>2
<1> QED BY <1>8, <1>9, <1>10, <1>11, <1>14, SessionFrame

(* A declared length above the limit is refused.                            *)
LEMMA RefuseLengthInv ==
  ASSUME ExchangeInv, NEW c \in Conns, RefuseLength(c)
  PROVE  ExchangeInv'
<1>1. sess[c].pc \in Serving BY DEF RefuseLength, Serving, Reading
<1>2. AnswerAndClose(c, 413) /\ blamed' = blamed \cup {c} /\ UNCHANGED <<client, idle>>
  BY DEF RefuseLength, Blame
<1> QED BY <1>1, <1>2, GivesAnswer

(* What is before a session that looks for a head is one, so there is none  *)
(* only when nothing more comes, or when the server stops.                  *)
LEMMA NoRequestHeadInv ==
  ASSUME ExchangeInv, NEW c \in Conns, NoRequestHead(c)
  PROVE  ExchangeInv'
<1>0. PICK n, s : n = net[c] /\ s = sess[c] OBVIOUS
<1>1. s.pc = "head" /\ UNCHANGED <<client, idle>> BY <1>0 DEF NoRequestHead
<1>2. CASE /\ IF net[c].up = <<>> THEN Gone(c) ELSE Head(net[c].up).t # "request"
           /\ AnswerAndClose(c, 400)
           /\ UNCHANGED blamed
  <2>1. n.up = <<>>
    <3>1. SUFFICES ASSUME n.up # <<>> PROVE FALSE OBVIOUS
    <3>2. /\ Fit(n, s, Role(c), client, Calm(c)) /\ n.up \in Seq(Calls \cup Pieces)
      BY <1>0, FitOf DEF Links
    <3>3. Asked(n, s) BY <1>1, <3>1 DEF Asked, NextHead
    <3>4. n.up[1] \in Calls BY <3>2, <3>3 DEF Fit, Good, Upward
    <3>5. Head(n.up) = n.up[1] BY <3>1, <3>2, TailOf
    <3> QED BY <1>0, <1>2, <3>1, <3>4, <3>5 DEF Calls
  <2>2. ~net[c].cOpen \/ net[c].cut BY <1>0, <1>2, <2>1 DEF Gone
  <2> QED BY <1>1, <1>2, <2>2, GivesAnswer
<1>3. CASE stopping /\ CloseConn(c, <<>>) /\ sess' = [sess EXCEPT ![c] = Closed(c)] /\ Blame(c)
  BY <1>1, <1>3, HangsUp DEF Blame
<1> QED BY <1>2, <1>3 DEF NoRequestHead

(* A timeout is to blame, unless the client waits in vain on its side.      *)
LEMMA HeadTimeoutInv ==
  ASSUME ExchangeInv, NEW c \in Conns, HeadTimeout(c)
  PROVE  ExchangeInv'
<1>1. /\ CloseConn(c, <<>>) /\ sess' = [sess EXCEPT ![c] = Closed(c)] /\ UNCHANGED <<client, idle>>
      /\ sess[c].pc = "head"
      /\ IF client.conn = c /\ Starved THEN UNCHANGED blamed ELSE blamed' = blamed \cup {c}
  BY DEF HeadTimeout, Blame
<1>2. CASE client.conn = c /\ Starved
  <2>1. /\ client.pc = "body" /\ net[c].down = <<>>
        /\ ~(BodyFraming = "length" /\ client.left = 0)
    BY <1>2 DEF Starved, InBody, c0
  <2>2. Role(c) = "body" BY <1>2, <2>1 DEF Role, RoleOf, Using, Exchanging
  <2>3. Got(client) /\ client.left \in Nat BY FitOf DEF Fit, Clients
  <2>4. Lacks(client) BY <2>1, <2>3 DEF Lacks, Got, BodyFraming, NoBody
  <2>5. Excused(net[c], sess[c], Role(c), client) BY <1>1, <2>1, <2>2, <2>4 DEF Excused
  <2> QED BY <1>1, <1>2, <2>5, HangsUp
<1>3. CASE ~(client.conn = c /\ Starved) BY <1>1, <1>3, HangsUp
<1> QED BY <1>2, <1>3

(* A step that leaves the network alone.                                    *)
LEMMA SessionAlone ==
  ASSUME ExchangeInv, NEW c \in Conns, UNCHANGED <<client, idle, net>>,
         NEW t \in Sessions, sess' = [sess EXCEPT ![c] = t],
         blamed' = blamed \/ blamed' = blamed \cup {c},
         Fit(net[c], t, Role(c), client, c \notin blamed')
  PROVE  ExchangeInv'
<1>1. net \in Seq(Links) /\ net[c] \in Links /\ c \in 1..Len(net)
  BY FitOf DEF ExchangeInv, Types
<1>2. PICK m \in Links : m = net[c] BY <1>1
<1>3. net' = [net EXCEPT ![c] = m] BY <1>1, <1>2
<1> QED BY <1>2, <1>3, SessionFrame

(* The handler of a stream route runs; if it does not want the rest of the  *)
(* body the connection is to blame.                                         *)
LEMMA StreamHandlerInv ==
  ASSUME ExchangeInv, NEW c \in Conns, StreamHandler(c)
  PROVE  ExchangeInv'
<1>0. PICK n, s : n = net[c] /\ s = sess[c] OBVIOUS
<1>1. Fit(n, s, Role(c), client, Calm(c)) /\ n \in Links /\ s \in Sessions BY <1>0, FitOf
<1>2. PICK pc \in {"consume", "answer"} :
        /\ sess' = [sess EXCEPT ![c].pc = pc]
        /\ pc = "answer" /\ ~s.complete => blamed' = blamed \cup {c}
        /\ pc = "consume" \/ s.complete => UNCHANGED blamed
  BY <1>0 DEF StreamHandler, Blame
<1>3. PICK t : t = [s EXCEPT !.pc = pc] OBVIOUS
<1>4. /\ t \in Sessions /\ t.pc = pc /\ t.id = s.id /\ t.req = s.req /\ t.left = s.left
      /\ t.complete = s.complete /\ t.route = s.route
  BY <1>1, <1>2, <1>3 DEF Sessions, Serving, Reading
<1>5. sess' = [sess EXCEPT ![c] = t] BY <1>0, <1>2, <1>3
<1>6. s.pc = "stream" /\ UNCHANGED <<client, idle, net>> BY <1>0 DEF StreamHandler
<1>7. PICK mood \in BOOLEAN : mood = (c \notin blamed') OBVIOUS
<1>8. (mood => Calm(c)) /\ (mood /\ pc = "answer" => s.complete) /\ (blamed' = blamed \/ blamed' = blamed \cup {c})
  BY <1>2, <1>7 DEF Calm
<1>9. mood => Calm(c) BY <1>8
<1>10. \/ s.pc = "handler" /\ t.pc = "answer"
       \/ s.pc = "stream" /\ t.pc = "consume"
       \/ s.pc = "stream" /\ t.pc = "answer" /\ (mood => s.complete)
  BY <1>2, <1>4, <1>6, <1>8
<1>11. Fit(n, t, Role(c), client, mood) BY <1>1, <1>4, <1>9, <1>10, Dispatched
<1> QED BY <1>0, <1>4, <1>5, <1>6, <1>7, <1>8, <1>11, SessionAlone

(* The handler of a plain route runs.                                       *)
LEMMA PlainHandlerInv ==
  ASSUME ExchangeInv, NEW c \in Conns, PlainHandler(c)
  PROVE  ExchangeInv'
<1>0. PICK n, s : n = net[c] /\ s = sess[c] OBVIOUS
<1>1. Fit(n, s, Role(c), client, Calm(c)) /\ n \in Links /\ s \in Sessions BY <1>0, FitOf
<1>2. PICK t : t = [s EXCEPT !.pc = "answer"] OBVIOUS
<1>3. /\ t \in Sessions /\ t.pc = "answer" /\ t.id = s.id /\ t.req = s.req /\ t.left = s.left
      /\ t.complete = s.complete /\ t.route = s.route
  BY <1>1, <1>2 DEF Sessions, Serving, Reading
<1>4. sess' = [sess EXCEPT ![c] = t] /\ s.pc = "handler" /\ UNCHANGED <<client, idle, net, blamed>>
  BY <1>0, <1>2 DEF PlainHandler
<1>5. PICK mood \in BOOLEAN : mood = (c \notin blamed') OBVIOUS
<1>6. mood => Calm(c) BY <1>4, <1>5 DEF Calm
<1>7. \/ s.pc = "handler" /\ t.pc = "answer"
      \/ s.pc = "stream" /\ t.pc = "consume"
      \/ s.pc = "stream" /\ t.pc = "answer" /\ (mood => s.complete)
  BY <1>3, <1>4
<1>8. Fit(n, t, Role(c), client, mood) BY <1>1, <1>3, <1>6, <1>7, Dispatched
<1> QED BY <1>0, <1>3, <1>4, <1>5, <1>8, SessionAlone

(* 100 Continue is sent if the request asks for it.                         *)
LEMMA ConsumeBodyInv ==
  ASSUME ExchangeInv, NEW c \in Conns, ConsumeBody(c)
  PROVE  ExchangeInv'
<1>0. PICK n, s : n = net[c] /\ s = sess[c] OBVIOUS
<1>1. Fit(n, s, Role(c), client, Calm(c)) /\ n \in Links /\ s \in Sessions BY <1>0, FitOf
<1>2. s.pc = "consume" /\ UNCHANGED <<client, idle, blamed>> BY <1>0 DEF ConsumeBody
<1>3. PICK x : x = Continue(c) OBVIOUS
<1>4. x \in Seq(Downs) /\ Strip(<<>>) = <<>> /\ Strip(<<>> \o x) = <<>>
  <2>1. CASE s.req.expect
    <3>1. PICK h : h = ResponseHead(s.id, 100, "none", 0, TRUE, 0) OBVIOUS
    <3>2. h \in Replies /\ h.status \in 100..199
      BY <1>1, <3>1 DEF ResponseHead, Replies, Framings, Sessions
    <3>3. h \in Downs BY <3>2 DEF Downs
    <3>4. <<h>> \in Seq(Downs) BY <3>3
    <3>5. x = <<h>> BY <1>0, <1>3, <2>1, <3>1 DEF Continue
    <3> QED BY <3>2, <3>4, <3>5, StripInterim
  <2>2. CASE ~s.req.expect
    <3>1. x = <<>> BY <1>0, <1>3, <2>2 DEF Continue
    <3>2. <<>> \in Seq(Downs) BY EmptySeq
    <3> QED BY <3>1, <3>2, ConcatEmptySeq DEF Strip
  <2> QED BY <2>1, <2>2
<1>5. PICK m \in Links :
        /\ m = Written(n, "down", x)
        /\ m.cOpen = n.cOpen /\ m.sOpen = n.sOpen /\ m.cut = n.cut /\ m.up = n.up
        /\ m.down = (IF n.cut THEN n.down ELSE n.down \o x)
  BY <1>1, <1>4, WrittenIs
<1>6. net' = [net EXCEPT ![c] = m] BY <1>0, <1>3, <1>5 DEF ConsumeBody
<1>7. PICK t : t = [s EXCEPT !.pc = "body"] OBVIOUS
<1>8. /\ t \in Sessions /\ t.pc = "body" /\ t.id = s.id /\ t.req = s.req /\ t.left = s.left
      /\ t.complete = s.complete /\ t.route = s.route
  BY <1>1, <1>7 DEF Sessions, Serving, Reading
<1>9. sess' = [sess EXCEPT ![c] = t] BY <1>0, <1>7 DEF ConsumeBody
<1>10. (n.cut => m.down = n.down) /\ (n.down = <<>> => Strip(m.down) = <<>>) BY <1>4, <1>5
<1>11. m.cOpen = n.cOpen /\ m.sOpen = n.sOpen /\ m.cut = n.cut /\ m.up = n.up BY <1>5
<1>12. Fit(m, t, Role(c), client, Calm(c)) BY <1>1, <1>2, <1>8, <1>10, <1>11, Continued
<1>13. Calm(c) = (c \notin blamed') BY <1>2 DEF Calm
<1> QED BY <1>2, <1>6, <1>8, <1>9, <1>12, <1>13, SessionFrame

(* The session after the whole body.                                        *)
LEMMA WholeIs ==
  ASSUME NEW s \in Sessions, s.route # "none"
  PROVE  \E t \in Sessions :
           /\ t = Whole(s) /\ t.pc \in {"handler", "answer"} /\ t.complete
           /\ t.id = s.id /\ t.req = s.req /\ t.route = s.route
<1>1. PICK pc : pc = IF s.route = "plain" THEN "handler" ELSE "answer" OBVIOUS
<1>2. PICK t : t = [s EXCEPT !.complete = TRUE, !.read = 0, !.pc = pc] OBVIOUS
<1>3. pc \in Serving /\ pc \in {"handler", "answer"} BY <1>1 DEF Serving
<1>4. t \in Sessions /\ t.pc = pc /\ t.complete /\ t.id = s.id /\ t.req = s.req /\ t.route = s.route
  BY <1>2, <1>3 DEF Sessions
<1>5. t = Whole(s) BY <1>1, <1>2 DEF Whole
<1> QED BY <1>3, <1>4, <1>5

(* A piece of the body is read, or the body is whole.                       *)
LEMMA ReadRequestUnitInv ==
  ASSUME ExchangeInv, NEW c \in Conns, ReadRequestUnit(c)
  PROVE  ExchangeInv'
<1>0. PICK n, s : n = net[c] /\ s = sess[c] OBVIOUS
<1>1. Fit(n, s, Role(c), client, Calm(c)) /\ n \in Links /\ s \in Sessions BY <1>0, FitOf
<1>2. s.pc = "body" /\ UNCHANGED <<client, idle, blamed>> BY <1>0 DEF ReadRequestUnit
<1>3. Calm(c) = (c \notin blamed') /\ Calm(c) \in BOOLEAN BY <1>2 DEF Calm
<1>4. s.route # "none" /\ Upward(n, s, Role(c), client, Calm(c))
  BY <1>1, <1>2 DEF Fit, Good, Upward, Serving, Reading
<1>5. PICK w \in Sessions :
        /\ w = Whole(s) /\ w.pc \in {"handler", "answer"} /\ w.complete
        /\ w.id = s.id /\ w.req = s.req /\ w.route = s.route
  BY <1>1, <1>4, WholeIs
<1>6. CASE ~Chunked(s.req) /\ s.left = 0 /\ sess' = [sess EXCEPT ![c] = Whole(s)] /\ UNCHANGED net
  <2>1. PICK mood \in BOOLEAN : mood = Calm(c) BY <1>3
  <2>2. mood => Calm(c) BY <2>1
  <2>3. w.id = s.id /\ w.req = s.req /\ w.route = s.route BY <1>5
  <2>4. \/ ~Chunked(s.req) /\ s.left = 0 /\ w.pc \in {"handler", "answer"} /\ w.complete
        \/ w.pc = "answer" /\ w.complete = s.complete /\ (mood => n.up = <<>> /\ Role(c) = "gone")
    BY <1>5, <1>6
  <2>5. Fit(n, w, Role(c), client, mood) BY <1>1, <1>2, <2>2, <2>3, <2>4, BodyEnds
  <2> QED BY <1>0, <1>2, <1>3, <1>5, <1>6, <2>1, <2>5, SessionAlone
<1>7. ASSUME n.up # <<>>, net' = [net EXCEPT ![c].up = Tail(@)],
             NEW t \in Sessions, sess' = [sess EXCEPT ![c] = t],
             t.id = s.id, t.req = s.req, t.route = s.route,
             \/ /\ ~Chunked(s.req) /\ s.left > 0
                /\ t.pc = "body" /\ t.complete = s.complete /\ t.left = s.left - 1
             \/ /\ Chunked(s.req) /\ n.up[1].t = "chunk"
                /\ t.pc = "body" /\ t.complete = s.complete /\ t.left = s.left
             \/ /\ Chunked(s.req) /\ n.up[1].t = "last"
                /\ t.pc \in {"handler", "answer"} /\ t.complete
      PROVE  ExchangeInv'
  <2>1. n.up \in Seq(Calls \cup Pieces) BY <1>1 DEF Links
  <2>2. Tail(n.up) \in Seq(Calls \cup Pieces) BY <1>7, <2>1, TailOf
  <2>3. PICK m : m = [n EXCEPT !.up = Tail(n.up)] OBVIOUS
  <2>4. m \in Links BY <1>1, <2>2, <2>3 DEF Links
  <2>5. m.cOpen = n.cOpen /\ m.sOpen = n.sOpen /\ m.cut = n.cut /\ m.up = Tail(n.up) /\ m.down = n.down
    BY <1>1, <2>2, <2>3 DEF Links
  <2>6. net' = [net EXCEPT ![c] = m] BY <1>0, <1>7, <2>3
  <2>7. Fit(m, t, Role(c), client, Calm(c)) BY <1>1, <1>2, <1>7, <2>4, <2>5, PieceRead
  <2> QED BY <1>2, <1>3, <1>7, <2>4, <2>6, <2>7, SessionFrame
<1>8. CASE /\ n.up # <<>> /\ net' = [net EXCEPT ![c].up = Tail(@)]
           /\ \/ /\ ~Chunked(s.req) /\ s.left > 0
                 /\ sess' = [sess EXCEPT ![c].left = @ - 1]
              \/ /\ Chunked(s.req) /\ Head(n.up).t = "chunk"
                 /\ sess' = [sess EXCEPT ![c].read = @ + Head(n.up).n]
              \/ /\ Chunked(s.req) /\ Head(n.up).t = "last"
                 /\ sess' = [sess EXCEPT ![c] = Whole(s)]
  <2>1. n.up \in Seq(Calls \cup Pieces) BY <1>1 DEF Links
  <2>2. Head(n.up) = n.up[1] /\ n.up[1] \in Calls \cup Pieces BY <1>8, <2>1, TailOf
  <2>3. CASE ~Chunked(s.req) /\ s.left > 0 /\ sess' = [sess EXCEPT ![c].left = @ - 1]
    <3>1. PICK left \in Nat : left = s.left - 1 BY <1>1, <2>3 DEF Sessions
    <3>2. PICK t : t = [s EXCEPT !.left = left] OBVIOUS
    <3>3. /\ t \in Sessions /\ t.pc = "body" /\ t.left = left /\ t.complete = s.complete
          /\ t.id = s.id /\ t.req = s.req /\ t.route = s.route
      BY <1>1, <1>2, <3>2 DEF Sessions
    <3>4. sess' = [sess EXCEPT ![c] = t] BY <1>0, <2>3, <3>1, <3>2
    <3> QED BY <1>7, <1>8, <2>3, <3>1, <3>3, <3>4
  <2>4. CASE Chunked(s.req) /\ Head(n.up).t = "chunk" /\ sess' = [sess EXCEPT ![c].read = @ + Head(n.up).n]
    <3>1. n.up[1].n \in Nat BY <2>2, <2>4 DEF Calls, Pieces
    <3>2. PICK read \in Nat : read = s.read + n.up[1].n BY <1>1, <3>1 DEF Sessions
    <3>3. PICK t : t = [s EXCEPT !.read = read] OBVIOUS
    <3>4. /\ t \in Sessions /\ t.pc = "body" /\ t.left = s.left /\ t.complete = s.complete
          /\ t.id = s.id /\ t.req = s.req /\ t.route = s.route
      BY <1>1, <1>2, <3>3 DEF Sessions
    <3>5. sess' = [sess EXCEPT ![c] = t] BY <1>0, <2>2, <2>4, <3>2, <3>3
    <3> QED BY <1>7, <1>8, <2>2, <2>4, <3>4, <3>5
  <2>5. CASE Chunked(s.req) /\ Head(n.up).t = "last" /\ sess' = [sess EXCEPT ![c] = Whole(s)]
    BY <1>5, <1>7, <1>8, <2>2, <2>5
  <2> QED BY <1>8, <2>3, <2>4, <2>5
<1> QED BY <1>0, <1>6, <1>8 DEF ReadRequestUnit

(* The body cannot be read: a plain route answers and closes, the handler   *)
(* of a stream route gets the error.                                        *)
LEMMA BodyFailsInv ==
  ASSUME ExchangeInv, NEW c \in Conns, NEW status \in 400..499, sess[c].pc = "body",
         BodyFails(c, status), UNCHANGED <<client, idle>>,
         \/ blamed' = blamed \cup {c}
         \/ blamed' = blamed /\ net[c].up = <<>> /\ Gone(c)
  PROVE  ExchangeInv'
<1>0. PICK n, s : n = net[c] /\ s = sess[c] OBVIOUS
<1>1. Fit(n, s, Role(c), client, Calm(c)) /\ n \in Links /\ s \in Sessions BY <1>0, FitOf
<1>2. s.pc = "body" /\ s.pc \in Serving BY <1>0 DEF Serving, Reading
<1>3. PICK mood \in BOOLEAN : mood = (c \notin blamed') OBVIOUS
<1>4. (mood => Calm(c)) /\ (mood => n.up = <<>> /\ (~n.cOpen \/ n.cut))
  BY <1>0, <1>3 DEF Calm, Gone
<1>5. CASE s.route = "plain"
  <2>1. AnswerAndClose(c, status) BY <1>0, <1>5 DEF BodyFails
  <2>2. c \notin blamed' => ~n.cOpen \/ n.cut BY <1>3, <1>4
  <2>3. c \notin blamed' => ~net[c].cOpen \/ net[c].cut BY <1>0, <2>2
  <2>4. \/ sess[c].pc \in Serving /\ (c \notin blamed' => ~net[c].cOpen \/ net[c].cut)
        \/ ~net[c].cOpen \/ net[c].cut
    BY <1>0, <1>2, <2>3
  <2>5. blamed' = blamed \/ blamed' = blamed \cup {c} OBVIOUS
  <2> QED BY <2>1, <2>4, <2>5, GivesAnswer, Zenon
<1>6. CASE s.route # "plain"
  <2>1. PICK t : t = [s EXCEPT !.pc = "answer", !.error = status, !.left = 0, !.read = 0] OBVIOUS
  <2>2. status \in Errors BY DEF Errors
  <2>3. t \in Sessions BY <1>1, <2>1, <2>2 DEF Sessions, Serving
  <2>4. t.pc = "answer" /\ t.id = s.id /\ t.req = s.req /\ t.route = s.route /\ t.complete = s.complete
    BY <1>1, <2>1 DEF Sessions
  <2>5. sess' = [sess EXCEPT ![c] = t] /\ UNCHANGED net BY <1>0, <1>6, <2>1 DEF BodyFails
  <2>6. mood => Role(c) = "gone"
    <3>1. mood => ~n.cOpen BY <1>1, <1>4 DEF Fit, Good, Opened
    <3> QED BY <1>1, <3>1 DEF Fit, Good, Opened
  <2>7. mood => n.up = <<>> /\ Role(c) = "gone" BY <1>4, <2>6
  <2>8. mood => Calm(c) BY <1>4
  <2>9. \/ ~Chunked(s.req) /\ s.left = 0 /\ t.pc \in {"handler", "answer"} /\ t.complete
        \/ t.pc = "answer" /\ t.complete = s.complete /\ (mood => n.up = <<>> /\ Role(c) = "gone")
    BY <2>4, <2>7
  <2>10. Fit(n, t, Role(c), client, mood) BY <1>1, <1>2, <2>3, <2>4, <2>8, <2>9, BodyEnds
  <2> QED BY <1>0, <1>3, <2>3, <2>5, <2>10, SessionAlone
<1> QED BY <1>5, <1>6

(* It is too large, ends early, or does not come in time.                   *)
LEMMA RequestBodyFailsInv ==
  ASSUME ExchangeInv, NEW c \in Conns, RequestBodyFails(c)
  PROVE  ExchangeInv'
<1>0. PICK n, s : n = net[c] /\ s = sess[c] OBVIOUS
<1>1. Fit(n, s, Role(c), client, Calm(c)) /\ n \in Links /\ s \in Sessions BY <1>0, FitOf
<1>2. s.pc = "body" /\ UNCHANGED <<client, idle>> BY <1>0 DEF RequestBodyFails
<1>3. CASE BodyFails(c, 413) /\ Blame(c) BY <1>0, <1>2, <1>3, BodyFailsInv DEF Blame
<1>4. CASE /\ IF n.up = <<>> THEN Gone(c) ELSE Chunked(s.req) /\ Head(n.up).t \notin {"chunk", "last"}
           /\ BodyFails(c, 400) /\ UNCHANGED blamed
  <2>1. n.up = <<>>
    <3>1. SUFFICES ASSUME n.up # <<>> PROVE FALSE OBVIOUS
    <3>2. /\ n.up \in Seq(Calls \cup Pieces) /\ s.left \in Nat /\ Role(c) \in Roles /\ client \in Clients
          /\ Calm(c) \in BOOLEAN /\ Rest(s.req, s.left, n.up, Role(c), client, Calm(c))
      BY <1>1, <1>2 DEF Fit, Good, Upward, Links, Sessions, Reading
    <3>3. Chunked(s.req) => n.up[1].t \in {"chunk", "last"} BY <3>1, <3>2, RestTaken
    <3>4. Head(n.up) = n.up[1] BY <3>1, <3>2, TailOf
    <3> QED BY <1>4, <3>1, <3>3, <3>4
  <2> QED BY <1>0, <1>2, <1>4, <2>1, BodyFailsInv
<1> QED BY <1>0, <1>3, <1>4 DEF RequestBodyFails

(* The rest of the body comes too late.                                     *)
LEMMA BodyTimeoutInv ==
  ASSUME ExchangeInv, NEW c \in Conns, BodyTimeout(c)
  PROVE  ExchangeInv'
<1>1. /\ sess[c].pc = "body" /\ BodyFails(c, 408) /\ UNCHANGED <<client, idle>>
      /\ blamed' = blamed \cup {c}
  BY DEF BodyTimeout, Blame
<1> QED BY <1>1, BodyFailsInv

(* One unit of a body.                                                      *)
LEMMA UnitIs ==
  ASSUME NEW k \in Ids
  PROVE  Units(k, 1) = <<[t |-> "data", id |-> k]>>
<1>1. PICK x : x = [t |-> "data", id |-> k] OBVIOUS
<1>2. x \in Pieces BY <1>1 DEF Pieces
<1>3. Units(k, 1) \in Seq(Pieces) /\ Len(Units(k, 1)) = 1
  <2>1. PICK one \in Nat : one = 1 OBVIOUS
  <2>2. Units(k, one) \in Seq(Pieces) /\ Len(Units(k, one)) = one BY UnitsAre
  <2> QED BY <2>1, <2>2
<1>4. Units(k, 1)[1] = x BY <1>1 DEF Units
<1>5. <<x>> \in Seq(Pieces) /\ Len(<<x>>) = 1 /\ <<x>>[1] = x BY <1>2
<1>6. Units(k, 1) = <<x>> BY <1>3, <1>4, <1>5, SeqEqual
<1> QED BY <1>1, <1>6

(* A piece of the response's body is sent, or its end.                      *)
LEMMA TransferInv ==
  ASSUME ExchangeInv, NEW c \in Conns, Transfer(c)
  PROVE  ExchangeInv'
<1>0. PICK n, s : n = net[c] /\ s = sess[c] OBVIOUS
<1>1. Fit(n, s, Role(c), client, Calm(c)) /\ n \in Links /\ s \in Sessions BY <1>0, FitOf
<1>2. s.pc = "transfer" /\ UNCHANGED <<client, idle, blamed>> BY <1>0 DEF Transfer
<1>3. Calm(c) = (c \notin blamed') BY <1>2 DEF Calm
<1>4. s.id \in Ids /\ s.left \in Nat BY <1>1 DEF Sessions
<1>5. PICK tok \in Pieces :
        /\ s.left > 0 => tok = IF s.framing = "chunked" THEN [t |-> "chunk", id |-> s.id, n |-> 1]
                                                        ELSE [t |-> "data", id |-> s.id]
        /\ s.left = 0 => tok = [t |-> "last", id |-> s.id]
  <2>1. [t |-> "chunk", id |-> s.id, n |-> 1] \in Pieces BY <1>4 DEF Pieces
  <2>2. [t |-> "data", id |-> s.id] \in Pieces BY <1>4 DEF Pieces
  <2>3. [t |-> "last", id |-> s.id] \in Pieces BY <1>4 DEF Pieces
  <2>4. PICK x \in Pieces, y \in Pieces, z \in Pieces :
          /\ x = [t |-> "chunk", id |-> s.id, n |-> 1]
          /\ y = [t |-> "data", id |-> s.id] /\ z = [t |-> "last", id |-> s.id]
    BY <2>1, <2>2, <2>3
  <2> QED BY <1>4, <2>4
<1>6. tok.id = s.id BY <1>4, <1>5
<1>7. /\ s.left > 0 => tok.t = (IF s.framing = "chunked" THEN "chunk" ELSE "data")
      /\ s.left = 0 => tok.t = "last"
  BY <1>4, <1>5
<1>8. PICK x : x = IF s.left > 0 \/ s.framing = "chunked" THEN <<tok>> ELSE <<>> OBVIOUS
<1>9. x \in Seq(Downs)
  <2>1. tok \in Downs BY DEF Downs
  <2>2. <<tok>> \in Seq(Downs) /\ <<>> \in Seq(Downs) BY <2>1, EmptySeq
  <2> QED BY <1>8, <2>2
<1>10. PICK m \in Links :
        /\ m = Written(n, "down", x)
        /\ m.cOpen = n.cOpen /\ m.sOpen = n.sOpen /\ m.cut = n.cut /\ m.up = n.up
        /\ m.down = (IF n.cut THEN n.down ELSE n.down \o x)
  BY <1>1, <1>9, WrittenIs
<1>11. m.cOpen = n.cOpen /\ m.sOpen = n.sOpen /\ m.cut = n.cut /\ m.up = n.up BY <1>10
<1>12. m.down = (IF ~n.cut /\ (s.left > 0 \/ s.framing = "chunked") THEN n.down \o <<tok>> ELSE n.down)
  <2>1. n.down \in Seq(Downs) BY <1>1 DEF Links, Downs
  <2>2. n.down \o <<>> = n.down BY <2>1, ConcatEmptySeq
  <2> QED BY <1>8, <1>10, <2>2
<1>13. CASE s.left > 0
  <2>1. PICK left \in Nat : left = s.left - 1 BY <1>4, <1>13
  <2>2. PICK t : t = [s EXCEPT !.left = left] OBVIOUS
  <2>3. /\ t \in Sessions /\ t.id = s.id /\ t.framing = s.framing /\ t.reusable = s.reusable
        /\ t.count = s.count /\ t.pc = "transfer" /\ t.left = s.left - 1
    BY <1>1, <1>2, <2>1, <2>2 DEF Sessions
  <2>4. sess' = [sess EXCEPT ![c] = t] BY <1>0, <1>13, <2>1, <2>2 DEF Transfer
  <2>5. x = IF s.framing = "chunked" THEN Chunk(s.id, 1) ELSE Units(s.id, 1)
    BY <1>4, <1>5, <1>8, <1>13, UnitIs DEF Chunk
  <2>6. net' = [net EXCEPT ![c] = m] BY <1>0, <1>10, <1>13, <2>5 DEF Transfer
  <2>7. \/ /\ s.left > 0 /\ t.pc = "transfer" /\ t.left = s.left - 1
           /\ tok.t = (IF s.framing = "chunked" THEN "chunk" ELSE "data")
        \/ s.left = 0 /\ t.pc = "sent" /\ tok.t = "last"
    BY <1>7, <1>13, <2>3
  <2>8. Fit(m, t, Role(c), client, Calm(c))
    BY <1>1, <1>2, <1>6, <1>11, <1>12, <2>3, <2>7, Transferred
  <2> QED BY <1>2, <1>3, <2>3, <2>4, <2>6, <2>8, SessionFrame
<1>14. CASE ~(s.left > 0)
  <2>0. s.left = 0 BY <1>4, <1>14
  <2>2. PICK t : t = [s EXCEPT !.pc = "sent"] OBVIOUS
  <2>3. /\ t \in Sessions /\ t.id = s.id /\ t.framing = s.framing /\ t.reusable = s.reusable
        /\ t.count = s.count /\ t.pc = "sent"
    BY <1>1, <2>2 DEF Sessions, Sending
  <2>4. sess' = [sess EXCEPT ![c] = t] BY <1>0, <1>14, <2>2 DEF Transfer
  <2>5. x = IF s.framing = "chunked" THEN LastChunk(s.id) ELSE <<>>
    BY <1>5, <1>8, <2>0 DEF LastChunk
  <2>6. net' = [net EXCEPT ![c] = m] BY <1>0, <1>10, <1>14, <2>5 DEF Transfer
  <2>7. \/ /\ s.left > 0 /\ t.pc = "transfer" /\ t.left = s.left - 1
           /\ tok.t = (IF s.framing = "chunked" THEN "chunk" ELSE "data")
        \/ s.left = 0 /\ t.pc = "sent" /\ tok.t = "last"
    BY <1>7, <2>0, <2>3
  <2>8. Fit(m, t, Role(c), client, Calm(c))
    BY <1>1, <1>2, <1>6, <1>11, <1>12, <2>3, <2>7, Transferred
  <2> QED BY <1>2, <1>3, <2>3, <2>4, <2>6, <2>8, SessionFrame
<1> QED BY <1>13, <1>14

(* A response that cannot be sent ends the session.                         *)
LEMMA AbortInv ==
  ASSUME ExchangeInv, NEW c \in Conns, Abort(c)
  PROVE  ExchangeInv'
<1>1. /\ CloseConn(c, <<>>) /\ sess' = [sess EXCEPT ![c] = Closed(c)] /\ UNCHANGED <<client, idle>>
      /\ blamed' = blamed \cup {c}
  BY DEF Abort, Blame
<1> QED BY <1>1, HangsUp

(* After the response: another turn, or the session closes as it has said.  *)
LEMMA NextRequestInv ==
  ASSUME ExchangeInv, NEW c \in Conns, NextRequest(c)
  PROVE  ExchangeInv'
<1>0. PICK n, s : n = net[c] /\ s = sess[c] OBVIOUS
<1>1. Fit(n, s, Role(c), client, Calm(c)) /\ n \in Links /\ s \in Sessions BY <1>0, FitOf
<1>2. s.pc = "sent" /\ UNCHANGED <<client, idle, blamed>> BY <1>0 DEF NextRequest
<1>3. s.reusable => s.count + 1 < MaxServed
  BY <1>1, <1>2 DEF Fit, Good, Upward, Sending
<1>4. CASE s.reusable /\ s.count + 1 < MaxServed
  <2>1. PICK new \in Sessions : new = NewSession BY ClosedSession
  <2>2. new.pc = "head" BY <2>1 DEF NewSession
  <2>3. PICK count \in Nat : count = s.count + 1 BY <1>1 DEF Sessions
  <2>4. PICK framing \in Framings : framing = s.framing BY <1>1 DEF Sessions
  <2>5. PICK t : t = [new EXCEPT !.count = count, !.framing = framing] OBVIOUS
  <2>6. t \in Sessions /\ t.pc = "head" BY <2>2, <2>5 DEF Sessions
  <2>7. sess' = [sess EXCEPT ![c] = t] /\ UNCHANGED net
    BY <1>0, <1>4, <2>1, <2>3, <2>4, <2>5 DEF NextRequest
  <2>8. Fit(n, t, Role(c), client, Calm(c)) BY <1>1, <1>2, <1>4, <2>6, NextTurn
  <2>9. Calm(c) = (c \notin blamed') BY <1>2 DEF Calm
  <2> QED BY <1>0, <1>2, <2>6, <2>7, <2>8, <2>9, SessionAlone
<1>5. CASE ~(s.reusable /\ s.count + 1 < MaxServed)
  <2>1. CloseConn(c, <<>>) /\ sess' = [sess EXCEPT ![c] = Closed(c)] BY <1>0, <1>5 DEF NextRequest
  <2>2. Excused(n, s, Role(c), client) BY <1>2, <1>3, <1>5 DEF Excused
  <2> QED BY <1>0, <1>2, <2>1, <2>2, HangsUp
<1> QED BY <1>4, <1>5

(* The network cuts a connection, or resets one whose peer has closed.      *)
LEMMA SeveredInv ==
  ASSUME ExchangeInv, NEW c \in Conns, UNCHANGED <<client, idle, sess>>,
         net' = [net EXCEPT ![c] = [@ EXCEPT !.cut = TRUE, !.up = <<>>, !.down = <<>>]],
         blamed' = blamed \/ blamed' = blamed \cup {c},
         c \notin blamed' => Calm(c) /\ ~net[c].cOpen
  PROVE  ExchangeInv'
<1>0. PICK n, s : n = net[c] /\ s = sess[c] OBVIOUS
<1>1. /\ Fit(n, s, Role(c), client, Calm(c)) /\ n \in Links /\ s \in Sessions /\ c \in 1..Len(sess)
  BY <1>0, FitOf
<1>2. PICK x \in Seq(Downs), y \in Seq(Calls \cup Pieces) : x = <<>> /\ y = <<>> BY EmptySeq
<1>3. PICK m : m = [n EXCEPT !.cut = TRUE, !.up = y, !.down = x] OBVIOUS
<1>4. m \in Links /\ m.cut /\ m.up = y /\ m.down = x /\ m.cOpen = n.cOpen /\ m.sOpen = n.sOpen
  BY <1>1, <1>3 DEF Links, Downs
<1>5. net' = [net EXCEPT ![c] = m] BY <1>0, <1>2, <1>3
<1>6. PICK mood \in BOOLEAN : mood = (c \notin blamed') OBVIOUS
<1>7. mood => Calm(c) /\ ~n.cOpen BY <1>0, <1>6
<1>8. m.cut /\ m.up = <<>> /\ m.down = <<>> /\ m.cOpen = n.cOpen /\ m.sOpen = n.sOpen
  BY <1>2, <1>4
<1>9. Fit(m, s, Role(c), client, mood) BY <1>1, <1>4, <1>7, <1>8, Severed
<1>10. sess' = [sess EXCEPT ![c] = s]
  <2>1. sess \in Seq(Sessions) BY DEF ExchangeInv, Types
  <2> QED BY <1>0, <1>1, <2>1
<1> QED BY <1>1, <1>4, <1>5, <1>6, <1>9, <1>10, SessionFrame

(* The network loses the connection ...                                     *)
LEMMA CutInv ==
  ASSUME ExchangeInv, NEW c \in Conns, Cut(c)
  PROVE  ExchangeInv'
<1>1. /\ net' = [net EXCEPT ![c] = [@ EXCEPT !.cut = TRUE, !.up = <<>>, !.down = <<>>]]
      /\ blamed' = blamed \cup {c} /\ UNCHANGED <<client, idle, sess>>
  BY DEF Cut, Blame
<1> QED BY <1>1, SeveredInv

(* ... or a closed side resets it.                                          *)
LEMMA ResetInv ==
  ASSUME ExchangeInv, NEW c \in Conns, Reset(c)
  PROVE  ExchangeInv'
<1>1. /\ net' = [net EXCEPT ![c] = [@ EXCEPT !.cut = TRUE, !.up = <<>>, !.down = <<>>]]
      /\ UNCHANGED <<client, idle, sess, blamed>>
      /\ \/ ~net[c].sOpen /\ net[c].up # <<>> /\ net[c].cOpen
         \/ ~net[c].cOpen
  BY DEF Reset
<1>2. Fit(net[c], sess[c], Role(c), client, Calm(c)) BY FitOf
<1>3. ~net[c].sOpen /\ net[c].up # <<>> /\ net[c].cOpen => ~Calm(c) BY <1>2, UnreadHasCause
<1>4. c \notin blamed' => Calm(c) BY <1>1 DEF Calm
<1>5. c \notin blamed' => Calm(c) /\ ~net[c].cOpen BY <1>1, <1>3, <1>4
<1> QED BY <1>1, <1>5, SeveredInv

(* A step that does not touch what the invariant is about.                  *)
LEMMA AloneInv ==
  ASSUME ExchangeInv, UNCHANGED <<client, idle, net, sess, blamed>>
  PROVE  ExchangeInv'
<1>1. Conns' = Conns BY DEF Conns
<1>2. \A c \in Conns : Role(c)' = Role(c) /\ Calm(c)' = Calm(c) BY DEF Role, Calm
<1>3. Types' BY DEF ExchangeInv, Types
<1>4. Owner(client, idle, Conns)' BY <1>1 DEF ExchangeInv
<1> QED BY <1>1, <1>2, <1>3, <1>4 DEF ExchangeInv

(* What stands in for the handler's answer, and what its head says.         *)
LEMMA ChosenIs ==
  ASSUME NEW s \in Sessions, NEW response \in Answers
  PROVE  \E a : /\ a = Chosen(s, response)
                /\ a.kind \in {"buffered", "stream", "file", "missing"}
                /\ a.status \in 200..599 /\ a.size \in Nat
<1>1. /\ response.kind \in {"buffered", "stream", "file", "missing"}
      /\ response.status \in 200..599 /\ response.size \in Nat
  BY ExchangeAssumption
<1>2. PICK a : a = Chosen(s, response) OBVIOUS
<1>3. CASE a = response BY <1>1, <1>2, <1>3
<1>4. CASE a # response
  <2>1. s.error # 0 /\ a = [kind |-> "buffered", status |-> s.error, size |-> 1]
    BY <1>2, <1>4 DEF Chosen
  <2>2. s.error \in 200..599 BY <2>1 DEF Sessions, Errors
  <2> QED BY <1>2, <2>1, <2>2
<1> QED BY <1>3, <1>4

(* The session answers.                                                     *)
LEMMA SendResponseInv ==
  ASSUME ExchangeInv, NEW c \in Conns, NEW response \in Answers, SendResponse(c, response)
  PROVE  ExchangeInv'
<1>0. PICK n, s : n = net[c] /\ s = sess[c] OBVIOUS
<1>1. Fit(n, s, Role(c), client, Calm(c)) /\ n \in Links /\ s \in Sessions BY <1>0, FitOf
<1>2. s.pc = "answer" /\ UNCHANGED <<client, idle, blamed>> BY <1>0 DEF SendResponse
<1>3. s.pc \in Serving BY <1>2 DEF Serving
<1>4. s.req \in Requests BY <1>1, <1>3, AtWork
<1>5. PICK a : /\ a = Chosen(s, response)
               /\ a.kind \in {"buffered", "stream", "file", "missing"}
               /\ a.status \in 200..599 /\ a.size \in Nat
  BY <1>1, ChosenIs
<1>6. PICK framing \in {"length", "chunked", "eof"} :
        framing = IF a.kind # "stream" THEN "length"
                  ELSE IF s.req.version >= 11 THEN "chunked" ELSE "eof"
  OBVIOUS
<1>7. PICK code \in 200..599 : code >= 200 /\ code = IF a.kind = "missing" THEN 500 ELSE a.status
  <2>1. PICK v \in 200..599 : v = a.status BY <1>5
  <2>2. CASE a.kind = "missing" BY <2>2
  <2>3. CASE a.kind # "missing" BY <2>1, <2>3
  <2> QED BY <2>2, <2>3
<1>8. PICK reusable \in BOOLEAN : reusable = KeepsAlive(s)
  <2>1. s.req.keep \in BOOLEAN BY <1>4, ExchangeAssumption
  <2> QED BY <2>1 DEF KeepsAlive
<1>9. reusable => s.complete /\ s.count + 1 < MaxServed BY <1>8 DEF KeepsAlive
<1>10. PICK keep \in BOOLEAN : keep = (reusable /\ ~(a.kind = "missing") /\ framing # "eof") OBVIOUS
<1>11. PICK omit \in BOOLEAN : omit = omit_body(s.req.method, code) BY DEF omit_body
<1>12. PICK whole \in BOOLEAN : whole <=> a.kind = "buffered" \/ a.kind = "missing" OBVIOUS
<1>13. PICK size \in Nat : size = a.size BY <1>5
<1>14. PICK sent \in Nat : sent = IF omit THEN 0 ELSE size OBVIOUS
<1>15. PICK wire \in Framings : wire = WireFraming(code, framing) BY DEF WireFraming, Framings
<1>16. PICK length \in Nat : length = WireLength(code, framing, size) BY DEF WireLength
<1>17. PICK h : h = ResponseHead(s.id, code, wire, length, keep, sent) OBVIOUS
<1>18. /\ h \in Replies /\ h.id = s.id /\ h.status = code /\ h.framing = wire /\ h.length = length
       /\ h.keep = keep /\ h.size = sent /\ s.id \in Ids
  BY <1>1, <1>17 DEF ResponseHead, Replies, Sessions
<1>19. PICK y \in Seq(Pieces) : y = IF whole /\ ~omit THEN Units(s.id, size) ELSE <<>>
  <2>1. Units(s.id, size) \in Seq(Pieces) BY <1>18, UnitsAre
  <2>2. <<>> \in Seq(Pieces) BY EmptySeq
  <2> QED BY <2>1, <2>2
<1>20. PICK x \in Seq(Downs) : x = <<h>> \o y
  <2>1. h \in Downs BY <1>18 DEF Downs
  <2>2. <<h>> \in Seq(Downs) /\ y \in Seq(Downs) BY <2>1, SeqMonotonic DEF Downs
  <2> QED BY <2>2, CatOf
<1>21. PICK m \in Links :
        /\ m = Written(n, "down", x)
        /\ m.cOpen = n.cOpen /\ m.sOpen = n.sOpen /\ m.cut = n.cut /\ m.up = n.up
        /\ m.down = (IF n.cut THEN n.down ELSE n.down \o x)
  BY <1>1, WrittenIs
<1>22. net' = [net EXCEPT ![c] = m]
  <2> DEFINE keeps == KeepsAlive(s) /\ ~(a.kind = "missing") /\ framing # "eof"
             head == ResponseHead(s.id, code, WireFraming(code, framing),
                                  WireLength(code, framing, a.size), keeps,
                                  IF omit_body(s.req.method, code) THEN 0 ELSE a.size)
             body == IF a.kind \in {"buffered", "missing"} /\ ~omit_body(s.req.method, code)
                     THEN Units(s.id, a.size) ELSE <<>>
  <2>1. net' = [net EXCEPT ![c] = Written(@, "down", <<head>> \o body)]
    BY <1>0, <1>5, <1>6, <1>7 DEF SendResponse
  <2>2. keeps = keep BY <1>8, <1>10
  <2>3. (IF omit_body(s.req.method, code) THEN 0 ELSE a.size) = sent BY <1>11, <1>13, <1>14
  <2>4. head = h BY <1>13, <1>15, <1>16, <1>17, <2>2, <2>3
  <2>5. body = y BY <1>11, <1>12, <1>13, <1>19
  <2> HIDE DEF head, body
  <2> QED BY <1>0, <1>20, <1>21, <2>1, <2>4, <2>5
<1>23. PICK pc \in Sending : pc = IF whole \/ omit THEN "sent" ELSE "transfer" BY DEF Sending
<1>24. PICK left \in Nat : left = IF whole \/ omit THEN 0 ELSE size OBVIOUS
<1>25. PICK new \in Sessions : new = NewSession BY ClosedSession
<1>26. PICK t : t = [new EXCEPT !.pc = pc, !.count = s.count, !.id = s.id, !.left = left,
                               !.framing = framing, !.reusable = reusable]
  OBVIOUS
<1>27. /\ t \in Sessions /\ t.pc = pc /\ t.count = s.count /\ t.id = s.id /\ t.left = left
       /\ t.framing = framing /\ t.reusable = reusable
  <2>1. s.count \in Nat /\ s.id \in Ids /\ framing \in Framings BY <1>1 DEF Sessions, Framings
  <2>2. PICK count \in Nat, id \in Ids, f \in Framings : count = s.count /\ id = s.id /\ f = framing
    BY <2>1
  <2>3. t = [new EXCEPT !.pc = pc, !.count = count, !.id = id, !.left = left,
                        !.framing = f, !.reusable = reusable]
    BY <1>26, <2>2
  <2>4. /\ t \in Sessions /\ t.pc = pc /\ t.count = count /\ t.id = id /\ t.left = left
        /\ t.framing = f /\ t.reusable = reusable
    BY <2>3 DEF Sessions
  <2> QED BY <2>2, <2>4
<1>28. sess' = [sess EXCEPT ![c] = t]
  <2> DEFINE over == a.kind \in {"buffered", "missing"} \/ omit_body(s.req.method, code)
  <2>1. sess' = [sess EXCEPT ![c] = [NewSession EXCEPT
                       !.pc = IF over THEN "sent" ELSE "transfer", !.count = s.count,
                       !.id = s.id, !.left = IF over THEN 0 ELSE a.size,
                       !.framing = framing, !.reusable = KeepsAlive(s)]]
    BY <1>0, <1>5, <1>6, <1>7 DEF SendResponse
  <2>2. over <=> whole \/ omit BY <1>11, <1>12
  <2>3. pc = (IF over THEN "sent" ELSE "transfer") BY <1>23, <2>2
  <2>4. left = (IF over THEN 0 ELSE a.size) BY <1>13, <1>24, <2>2
  <2> HIDE DEF over
  <2> QED BY <1>8, <1>25, <1>26, <2>1, <2>3, <2>4
<1>29. omit <=> omit_body(s.req.method, h.status) BY <1>11, <1>18
<1>30. h.status >= 200
  <2>1. code >= 200 BY <1>7
  <2> QED BY <1>18, <2>1
<1>31. h.framing = WireFraming(h.status, framing) BY <1>15, <1>18
<1>32. h.length = WireLength(h.status, framing, size) BY <1>16, <1>18
<1>33. h.size = (IF omit THEN 0 ELSE size) BY <1>14, <1>18
<1>34. h.keep => t.reusable /\ framing # "eof" BY <1>10, <1>18, <1>27
<1>35. whole => framing = "length" BY <1>6, <1>12
<1>36. t.pc = (IF whole \/ omit THEN "sent" ELSE "transfer") BY <1>23, <1>27
<1>37. t.left = (IF whole \/ omit THEN 0 ELSE size) BY <1>24, <1>27
<1>38. t.reusable => s.complete /\ t.count + 1 < MaxServed BY <1>9, <1>27
<1>39. m.cOpen = n.cOpen /\ m.sOpen = n.sOpen /\ m.cut = n.cut /\ m.up = n.up BY <1>21
<1>40. m.down = (IF n.cut THEN n.down ELSE n.down \o (<<h>> \o y)) BY <1>20, <1>21
<1>41. h.id = s.id /\ h \in Replies /\ t.id = s.id /\ t.framing = framing BY <1>18, <1>27
<1>42. (whole /\ ~omit => y = Units(s.id, size)) /\ (~whole \/ omit => y = <<>>) BY <1>19
<1>43. /\ framing \in {"length", "chunked", "eof"} /\ whole \in BOOLEAN /\ omit \in BOOLEAN
       /\ y \in Seq(Pieces) /\ size \in Nat /\ m \in Links /\ t \in Sessions
  BY <1>6, <1>11, <1>12, <1>13, <1>19, <1>21, <1>27
<1>44. PICK role, cl, calm : role = Role(c) /\ cl = client /\ calm = Calm(c) OBVIOUS
<1>45. Fit(n, s, role, cl, calm) /\ s.pc = "answer" BY <1>1, <1>2, <1>44
<1>46. Fit(m, t, role, cl, calm)
  BY <1>45, <1>43, <1>29, <1>30, <1>31, <1>32, <1>33, <1>34, <1>35, <1>36, <1>37, <1>38,
     <1>39, <1>40, <1>41, <1>42, Responded
<1>47. Fit(m, t, Role(c), client, Calm(c)) BY <1>44, <1>46
<1>48. Calm(c) = (c \notin blamed') BY <1>2 DEF Calm
<1> QED BY <1>2, <1>22, <1>27, <1>28, <1>47, <1>48, SessionFrame

-----------------------------------------------------------------------------
(* Steps of the client.                                                     *)

(* While it uses a connection.                                              *)
LEMMA InUse ==
  ASSUME ExchangeInv, client.pc \in Using
  PROVE  \E c \in Conns :
           /\ c = client.conn /\ c # 0 /\ idle = 0 /\ Role(c) = client.pc
           /\ Fit(net[c], sess[c], client.pc, client, Calm(c))
           /\ net[c] \in Links /\ sess[c] \in Sessions /\ client \in Clients
           /\ client.req \in Requests /\ client.k \in 1..NumRequests /\ client.k \in Ids
           /\ client.result = "none" /\ (client.pc # "body" => client.got = <<>>)
           /\ client.pc = "produce" => Streamed(client.req)
<1>1. client.pc # "idle" BY DEF Using, Exchanging
<1>2. PICK c \in Conns : c = client.conn BY DEF ExchangeInv, Owner
<1>3. /\ idle = 0 /\ client.req \in Requests /\ client.k \in 1..NumRequests
      /\ client.pc = "produce" => Streamed(client.req)
      /\ client.result = "none" /\ (client.pc # "body" => client.got = <<>>)
  BY <1>1 DEF ExchangeInv, Owner, Got
<1>4. Role(c) = client.pc BY <1>2 DEF Role, RoleOf
<1>5. /\ Fit(net[c], sess[c], Role(c), client, Calm(c)) /\ net[c] \in Links /\ sess[c] \in Sessions
      /\ client \in Clients /\ c \in 1..Len(net)
  BY <1>2, FitOf
<1>6. c # 0 /\ client.k \in Ids BY <1>3, <1>5 DEF Clients
<1> QED BY <1>2, <1>3, <1>4, <1>5, <1>6

(* The connections it does not use stay as they are.                        *)
LEMMA ClientMoves ==
  ASSUME ExchangeInv, client.pc \in Using, NEW c \in Conns, c = client.conn, UNCHANGED sess,
         NEW d \in Clients, client' = d, d.pc \in Using => d.conn = c,
         idle' \in {0, c}, Owner(d, idle', Conns),
         NEW m \in Links, net' = [net EXCEPT ![c] = m],
         blamed' = blamed \/ blamed' = blamed \cup {c},
         Fit(m, sess[c], RoleOf(d, idle', c), d, c \notin blamed')
  PROVE  ExchangeInv'
<1>1. PICK x \in Conns : x = client.conn /\ x # 0 /\ idle = 0 BY InUse
<1>2. ASSUME NEW y \in Conns, y # c
      PROVE  Role(y) \in {"idle", "gone"} /\ RoleOf(d, idle', y) = Role(y)
  <2>1. y # 0 BY FitOf
  <2> QED BY <1>1, <1>2, <2>1 DEF Role, RoleOf
<1>3. Got(d) BY DEF Fit
<1> QED BY <1>2, <1>3, ClientFrame

(* A step before it has a connection or after.                              *)
LEMMA ClientAlone ==
  ASSUME ExchangeInv, client.pc \notin Using, UNCHANGED <<idle, net, sess, blamed>>,
         NEW d \in Clients, client' = d, d.pc \notin Using, Got(d), Owner(d, idle, Conns)
  PROVE  ExchangeInv'
<1>1. Conns' = Conns BY DEF Conns
<1>2. ASSUME NEW c \in Conns PROVE Good(net[c], sess[c], RoleOf(d, idle, c), d, Calm(c))
  <2>1. Role(c) \in {"idle", "gone"} /\ RoleOf(d, idle, c) = Role(c) BY DEF Role, RoleOf
  <2>2. Fit(net[c], sess[c], Role(c), d, Calm(c)) BY <2>1, FitOf, Detached
  <2> QED BY <2>1, <2>2 DEF Fit
<1>3. Types' BY DEF ExchangeInv, Types
<1> QED BY <1>1, <1>2, <1>3 DEF ExchangeInv, Role, Calm

(* A request starts from a clean sheet.                                     *)
LEMMA NewRequestIs ==
  \E e \in Clients :
    /\ e = NewRequest /\ e.pc = "acquire" /\ e.k = 0 /\ e.conn = 0 /\ e.attempt = 0
    /\ e.result = "none" /\ e.got = <<>>
<1>0. 0 \in Ids BY ExchangeAssumption DEF Ids
<1>1. PICK g \in Seq(Ids) : g = <<>> BY EmptySeq
<1>2. PICK e : e = [pc |-> "acquire", k |-> 0, req |-> [method |-> "none"], conn |-> 0,
                    reused |-> FALSE, attempt |-> 0, left |-> 0, resp |-> [t |-> "none"],
                    got |-> g, result |-> "none"]
  OBVIOUS
<1>3. e \in Clients BY <1>0, <1>2 DEF Clients, Asks
<1>4. /\ e.pc = "acquire" /\ e.k = 0 /\ e.conn = 0 /\ e.attempt = 0 /\ e.result = "none" /\ e.got = g
  BY <1>2
<1>5. e = NewRequest BY <1>1, <1>2 DEF NewRequest
<1> QED BY <1>1, <1>3, <1>4, <1>5

(* The client begins, with any request.                                     *)
LEMMA BeginInv ==
  ASSUME ExchangeInv, NEW r \in Requests, Begin(r)
  PROVE  ExchangeInv'
<1>1. /\ client.pc = "idle" /\ client.k < NumRequests /\ UNCHANGED <<idle, net, sess, blamed>>
      /\ client' = [NewRequest EXCEPT !.k = client.k + 1, !.req = r]
  BY DEF Begin
<1>2. client \in Clients BY DEF ExchangeInv, Types
<1>3. PICK k \in 1..NumRequests : k = client.k + 1 /\ k \in Ids
  <2>1. client.k \in 0..NumRequests /\ NumRequests \in Nat BY <1>2, ExchangeAssumption DEF Clients, Ids
  <2> QED BY <1>1, <2>1 DEF Ids
<1>4. PICK e \in Clients : /\ e = NewRequest /\ e.pc = "acquire" /\ e.k = 0 /\ e.conn = 0 /\ e.attempt = 0
                           /\ e.result = "none" /\ e.got = <<>>
  BY NewRequestIs
<1>5. PICK d : d = [e EXCEPT !.k = k, !.req = r] OBVIOUS
<1>6. /\ d \in Clients /\ d.pc = e.pc /\ d.k = k /\ d.req = r /\ d.attempt = e.attempt
      /\ d.result = e.result /\ d.got = e.got
  BY <1>3, <1>4, <1>5 DEF Clients, Asks
<1>7. client' = d BY <1>1, <1>3, <1>4, <1>5
<1>8. Got(d) BY <1>4, <1>6 DEF Got
<1>9. "idle" \notin Using /\ "acquire" \notin Using BY DEF Using, Exchanging
<1>10. Owner(d, idle, Conns) BY <1>4, <1>6, <1>9 DEF Owner, ExchangeInv
<1>11. client.pc \notin Using /\ d.pc \notin Using BY <1>1, <1>4, <1>6, <1>9
<1> QED BY <1>1, <1>6, <1>7, <1>8, <1>10, <1>11, ClientAlone

(* The connection without its client, when neither is left the bytes go.    *)
LEMMA DiscardedIs ==
  ASSUME NEW n \in Links
  PROVE  \E m \in Links :
           /\ m = Settled([n EXCEPT !.cOpen = FALSE])
           /\ ~m.cOpen /\ m.sOpen = n.sOpen /\ m.cut = n.cut
           /\ m.up = (IF n.sOpen THEN n.up ELSE <<>>)
           /\ n.down = <<>> => m.down = <<>>
<1>1. PICK v : v = [n EXCEPT !.cOpen = FALSE] OBVIOUS
<1>2. /\ v \in Links /\ ~v.cOpen /\ v.sOpen = n.sOpen /\ v.cut = n.cut /\ v.up = n.up /\ v.down = n.down
  BY <1>1 DEF Links
<1>3. PICK m \in Links :
           /\ m = Settled(v) /\ m.cOpen = v.cOpen /\ m.sOpen = v.sOpen /\ m.cut = v.cut
           /\ m.up = (IF v.cOpen \/ v.sOpen THEN v.up ELSE <<>>)
           /\ m.down = (IF v.cOpen \/ v.sOpen THEN v.down ELSE <<>>)
  BY <1>2, SettledIs
<1>4. m = Settled([n EXCEPT !.cOpen = FALSE]) BY <1>1, <1>3
<1>5. ~m.cOpen /\ m.sOpen = n.sOpen /\ m.cut = n.cut BY <1>2, <1>3
<1>6. m.up = (IF n.sOpen THEN n.up ELSE <<>>) BY <1>2, <1>3
<1>7. n.down = <<>> => m.down = <<>> BY <1>2, <1>3
<1> QED BY <1>4, <1>5, <1>6, <1>7

(* The client leaves its connection, with a request that failed or may be   *)
(* tried again, or with an answer.                                          *)
LEMMA LeavesInv ==
  ASSUME ExchangeInv, client.pc \in Using, NEW c \in Conns, c = client.conn, UNCHANGED sess,
         NEW d \in Clients, client' = d, d.pc \in {"idle", "acquire"}, idle' = 0,
         d.pc = "acquire" => /\ d.req = client.req /\ d.k = client.k
                             /\ d.result = "none" /\ d.got = <<>>,
         NEW n \in Links, n.sOpen = net[c].sOpen, n.cut = net[c].cut, n.up = net[c].up,
         net[c].down = <<>> => n.down = <<>>,
         net' = [net EXCEPT ![c] = Settled([n EXCEPT !.cOpen = FALSE])],
         blamed' = blamed \/ blamed' = blamed \cup {c}
  PROVE  ExchangeInv'
<1>1. PICK x \in Conns :
        /\ x = client.conn /\ x # 0 /\ idle = 0 /\ Role(x) = client.pc
        /\ Fit(net[x], sess[x], client.pc, client, Calm(x))
        /\ client.req \in Requests /\ client.k \in 1..NumRequests
  BY InUse
<1>2. PICK m \in Links :
           /\ m = Settled([n EXCEPT !.cOpen = FALSE])
           /\ ~m.cOpen /\ m.sOpen = n.sOpen /\ m.cut = n.cut
           /\ m.up = (IF n.sOpen THEN n.up ELSE <<>>)
           /\ n.down = <<>> => m.down = <<>>
  BY DiscardedIs
<1>3. PICK old, s, cl, calm :
        old = net[c] /\ s = sess[c] /\ cl = client /\ calm = Calm(c)
  OBVIOUS
<1>4. PICK role : role = client.pc OBVIOUS
<1>5. Fit(old, s, role, cl, calm) BY <1>1, <1>3, <1>4
<1>6. old.cut => old.down = <<>> BY <1>5 DEF Fit, Good, Opened
<1>7. PICK mood \in BOOLEAN : mood = (c \notin blamed') OBVIOUS
<1>8. mood => calm BY <1>3, <1>7 DEF Calm
<1>9. ~m.cOpen /\ m.sOpen = old.sOpen /\ m.cut = old.cut BY <1>2, <1>3
<1>10. m.up = (IF old.sOpen THEN old.up ELSE <<>>) BY <1>2, <1>3
<1>11. m.cut => m.down = <<>> BY <1>2, <1>3, <1>6
<1>12. d.pc \notin Using /\ d.pc \notin {"body", "produce"} BY DEF Using, Exchanging
<1>13. Got(d) BY <1>12 DEF Got
<1>14. Fit(m, s, "gone", d, mood) BY <1>5, <1>8, <1>9, <1>10, <1>11, <1>13, Left
<1>15. c # 0 BY <1>1
<1>16. RoleOf(d, idle', c) = "gone" BY <1>12, <1>15 DEF RoleOf
<1>17. Owner(d, idle', Conns) BY <1>1, <1>12 DEF Owner
<1>18. Fit(m, sess[c], RoleOf(d, idle', c), d, c \notin blamed') BY <1>3, <1>7, <1>14, <1>16
<1>19. net' = [net EXCEPT ![c] = m] BY <1>2
<1> QED BY <1>2, <1>12, <1>17, <1>18, <1>19, ClientMoves

(* A request fails, or another attempt is made.                             *)
LEMMA FailsInv ==
  ASSUME ExchangeInv, client.pc \in Using, NEW retry \in BOOLEAN, Fails(retry),
         blamed' = blamed \/ blamed' = blamed \cup {client.conn}
  PROVE  /\ ExchangeInv'
         /\ client'.result = (IF retry THEN "none" ELSE "failed")
         /\ client'.conn = client.conn /\ client'.k = client.k
         /\ client'.pc = (IF retry THEN "acquire" ELSE "idle")
<1>1. PICK c \in Conns :
        /\ c = client.conn /\ c # 0 /\ idle = 0 /\ net[c] \in Links /\ client \in Clients
        /\ client.req \in Requests /\ client.k \in Ids
  BY InUse
<1>2. PICK e \in Clients : /\ e = NewRequest /\ e.pc = "acquire" /\ e.k = 0 /\ e.conn = 0 /\ e.attempt = 0
                           /\ e.result = "none" /\ e.got = <<>>
  BY NewRequestIs
<1>3. PICK req \in Asks : req = IF retry THEN client.req ELSE e.req
  BY <1>1, <1>2 DEF Clients, Asks
<1>4. PICK pc \in {"acquire", "idle"} : pc = IF retry THEN "acquire" ELSE "idle" OBVIOUS
<1>5. PICK result \in {"none", "failed"} : result = IF retry THEN "none" ELSE "failed" OBVIOUS
<1>6. PICK k \in Ids, conn \in Nat : k = client.k /\ conn = client.conn BY <1>1 DEF Clients
<1>7. PICK d : d = [e EXCEPT !.k = k, !.conn = conn, !.attempt = 1, !.req = req, !.pc = pc,
                             !.result = result]
  OBVIOUS
<1>8. /\ d \in Clients /\ d.k = k /\ d.conn = conn /\ d.req = req /\ d.pc = pc /\ d.result = result
      /\ d.got = e.got
  <2>1. PICK f : f = [e EXCEPT !.k = k, !.conn = conn, !.req = req] OBVIOUS
  <2>2. f \in Clients /\ f.k = k /\ f.conn = conn /\ f.req = req /\ f.got = e.got
    BY <2>1 DEF Clients
  <2>3. PICK g : g = [f EXCEPT !.attempt = 1, !.pc = pc, !.result = result] OBVIOUS
  <2>4. PICK attempt \in 0..1 : attempt = 1 OBVIOUS
  <2>5. pc \in Using \cup {"idle", "acquire"} /\ result \in {"none", "ok", "failed"} BY <1>4, <1>5
  <2>6. g = [f EXCEPT !.attempt = attempt, !.pc = pc, !.result = result] BY <2>3, <2>4
  <2>7. /\ g \in Clients /\ g.k = f.k /\ g.conn = f.conn /\ g.req = f.req /\ g.got = f.got
        /\ g.pc = pc /\ g.result = result
    BY <2>2, <2>5, <2>6 DEF Clients
  <2>8. g = d BY <1>7, <2>1, <2>3 DEF Clients
  <2> QED BY <2>2, <2>7, <2>8
<1>9. client' = d BY <1>2, <1>3, <1>4, <1>5, <1>6, <1>7 DEF Fails, c0
<1>10. PICK n \in Links : n = net[c] BY <1>1
<1>11. /\ net' = [net EXCEPT ![c] = Settled([n EXCEPT !.cOpen = FALSE])]
       /\ UNCHANGED <<idle, sess>>
  BY <1>1, <1>10 DEF Fails, c0
<1>12. d.pc = "acquire" => /\ d.req = client.req /\ d.k = client.k
                           /\ d.result = "none" /\ d.got = <<>>
  BY <1>2, <1>3, <1>4, <1>5, <1>6, <1>8
<1>13. /\ n.sOpen = net[c].sOpen /\ n.cut = net[c].cut /\ n.up = net[c].up
       /\ net[c].down = <<>> => n.down = <<>>
  BY <1>10
<1>14. d.pc \in {"idle", "acquire"} /\ idle' = 0 BY <1>1, <1>4, <1>8, <1>11
<1>15. ExchangeInv' BY <1>1, <1>8, <1>9, <1>11, <1>12, <1>13, <1>14, LeavesInv
<1> QED BY <1>4, <1>5, <1>6, <1>8, <1>9, <1>15

(* Whether it does so is a truth value.                                     *)
LEMMA MayRetryIs ==
  ASSUME NEW started
  PROVE  MayRetry(started) \in BOOLEAN
BY DEF MayRetry

(* The ways in which an attempt fails: the request cannot be framed ...     *)
LEMMA WriteRefusedInv ==
  ASSUME ExchangeInv, WriteRefused
  PROVE  ExchangeInv'
<1>1. client.pc \in Using BY DEF WriteRefused, Using
<1>2. PICK retry \in BOOLEAN : retry = MayRetry(FALSE) BY MayRetryIs
<1>3. Fails(retry) /\ blamed' = blamed \cup {client.conn} BY <1>2 DEF WriteRefused, Blame, c0
<1> QED BY <1>1, <1>3, FailsInv

(* ... the peer is gone ...                                                 *)
LEMMA ClientWriteFailsInv ==
  ASSUME ExchangeInv, ClientWriteFails
  PROVE  ExchangeInv'
<1>1. client.pc \in Using BY DEF ClientWriteFails, Using, Exchanging
<1>2. PICK retry \in BOOLEAN : retry = MayRetry(FALSE) BY MayRetryIs
<1>3. Fails(retry) /\ UNCHANGED blamed BY <1>2 DEF ClientWriteFails
<1> QED BY <1>1, <1>3, FailsInv

(* ... the producer of the body fails ...                                   *)
LEMMA ProducerFailsInv ==
  ASSUME ExchangeInv, ProducerFails
  PROVE  ExchangeInv'
<1>1. client.pc \in Using BY DEF ProducerFails, Using, Exchanging
<1>2. Fails(FALSE) /\ blamed' = blamed \cup {client.conn} BY DEF ProducerFails, Blame, c0
<1> QED BY <1>1, <1>2, FailsInv

(* ... the response is cut off or malformed ...                             *)
LEMMA ReadFailsInv ==
  ASSUME ExchangeInv, ReadFails
  PROVE  ExchangeInv'
<1>1. client.pc \in Using BY DEF ReadFails, InBody, Using, Exchanging
<1>2. PICK retry \in BOOLEAN : retry = MayRetry(client.pc = "body") BY MayRetryIs
<1>3. Fails(retry) /\ UNCHANGED blamed BY <1>2 DEF ReadFails
<1> QED BY <1>1, <1>3, FailsInv

(* ... or a timeout or a cancellation ends it.                              *)
LEMMA GivesUpInv ==
  ASSUME ExchangeInv, GivesUp
  PROVE  ExchangeInv'
<1>1. client.pc \in Using BY DEF GivesUp, Using, Exchanging
<1>2. PICK retry \in BOOLEAN : Fails(retry) BY MayRetryIs DEF GivesUp
<1>3. blamed' = blamed \cup {client.conn} BY DEF GivesUp, Blame, c0
<1> QED BY <1>1, <1>2, <1>3, FailsInv

(* The client goes on with the connection it uses.                          *)
LEMMA GoesOnInv ==
  ASSUME ExchangeInv, client.pc \in Using, NEW c \in Conns, c = client.conn,
         UNCHANGED <<idle, sess, blamed>>,
         NEW d \in Clients, client' = d, d.pc \in Using, d.conn = client.conn,
         d.req = client.req, d.k = client.k, d.pc = "produce" => Streamed(d.req),
         NEW m \in Links, net' = [net EXCEPT ![c] = m],
         Fit(m, sess[c], d.pc, d, Calm(c))
  PROVE  ExchangeInv'
<1>1. PICK x \in Conns : x = client.conn /\ x # 0 /\ idle = 0
                         /\ client.req \in Requests /\ client.k \in 1..NumRequests
  BY InUse
<1>2. RoleOf(d, idle', c) = d.pc BY DEF RoleOf
<1>3. Calm(c) = (c \notin blamed') BY DEF Calm
<1>4. Owner(d, idle', Conns) BY <1>1 DEF Owner
<1>5. Fit(m, sess[c], RoleOf(d, idle', c), d, c \notin blamed') BY <1>2, <1>3
<1>6. idle' \in {0, c} BY <1>1
<1> QED BY <1>4, <1>5, <1>6, ClientMoves

(* The head of the request, with its body if that is no stream.             *)
LEMMA WriteRequestInv ==
  ASSUME ExchangeInv, WriteRequest
  PROVE  ExchangeInv'
<1>0. client.pc = "write" /\ client.pc \in Using BY DEF WriteRequest, Using
<1>1. PICK c \in Conns :
        /\ c = client.conn /\ c # 0 /\ Fit(net[c], sess[c], client.pc, client, Calm(c))
        /\ net[c] \in Links /\ sess[c] \in Sessions /\ client \in Clients
        /\ client.req \in Requests /\ client.k \in Ids
        /\ client.result = "none" /\ (client.pc # "body" => client.got = <<>>)
  BY <1>0, InUse
<1>2. PICK n, s, cl, calm : n = net[c] /\ s = sess[c] /\ cl = client /\ calm = Calm(c) OBVIOUS
<1>3. PICK req \in Requests : req = cl.req /\ req.size \in Nat BY <1>1, <1>2, ExchangeAssumption
<1>4. PICK head \in Calls : head = RequestHead(cl.k, cl.req)
  <2>1. RequestHead(cl.k, cl.req) \in Calls BY <1>1, <1>2 DEF RequestHead, Calls
  <2> QED BY <2>1
<1>5. PICK b \in Seq(Pieces) : b = IF Streamed(cl.req) THEN <<>> ELSE Units(cl.k, cl.req.size)
  <2>1. Units(cl.k, cl.req.size) \in Seq(Pieces) BY <1>1, <1>2, <1>3, UnitsAre
  <2>2. <<>> \in Seq(Pieces) BY EmptySeq
  <2> QED BY <2>1, <2>2
<1>6. PICK x \in Seq(Calls \cup Pieces) : x = <<head>> \o b BY HeadFirst
<1>7. n \in Links BY <1>1, <1>2
<1>8. PICK m \in Links :
        /\ m = Written(n, "up", x)
        /\ m.cOpen = n.cOpen /\ m.sOpen = n.sOpen /\ m.cut = n.cut /\ m.down = n.down
        /\ m.up = (IF n.cut THEN n.up ELSE n.up \o x)
  BY <1>7, WrittenIs
<1>9. net' = [net EXCEPT ![c] = m] BY <1>1, <1>2, <1>4, <1>5, <1>6, <1>8 DEF WriteRequest, c0
<1>10. PICK left \in Nat : left = IF cl.req.body = "chunked" THEN MaxUnits ELSE cl.req.size
  BY <1>3, ExchangeAssumption
<1>11. PICK pc \in {"produce", "read"} : pc = IF Streamed(cl.req) THEN "produce" ELSE "read" OBVIOUS
<1>12. PICK d : d = [cl EXCEPT !.pc = pc, !.left = left] OBVIOUS
<1>13. pc \in Using /\ cl \in Clients BY <1>1, <1>2 DEF Using, Exchanging
<1>14. /\ d \in Clients /\ d.pc = pc /\ d.left = left /\ d.k = cl.k /\ d.req = cl.req
       /\ d.result = cl.result /\ d.got = cl.got /\ d.conn = cl.conn
  BY <1>12, <1>13 DEF Clients
<1>15. client' = d /\ UNCHANGED <<idle, sess, blamed>>
  BY <1>2, <1>10, <1>11, <1>12 DEF WriteRequest
<1>16. m.cOpen = n.cOpen /\ m.sOpen = n.sOpen /\ m.cut = n.cut /\ m.down = n.down BY <1>8
<1>17. m.up = (IF n.cut THEN n.up ELSE n.up \o (<<head>> \o b)) BY <1>6, <1>8
<1>18. (Streamed(cl.req) => b = <<>>) /\ (~Streamed(cl.req) => b = Units(cl.k, cl.req.size)) BY <1>5
<1>19. d.pc = (IF Streamed(cl.req) THEN "produce" ELSE "read") BY <1>11, <1>14
<1>20. d.left = (IF cl.req.body = "chunked" THEN MaxUnits ELSE cl.req.size) BY <1>10, <1>14
<1>21. d.result = "none" /\ d.got = <<>> /\ d.k = cl.k /\ d.req = cl.req
  BY <1>0, <1>1, <1>2, <1>14
<1>22. Fit(n, s, "write", cl, calm) BY <1>0, <1>1, <1>2
<1>23. head = RequestHead(cl.k, cl.req) BY <1>4
<1>24. Fit(m, s, d.pc, d, calm)
  BY <1>8, <1>14, <1>16, <1>17, <1>18, <1>19, <1>20, <1>21, <1>22, <1>23, Requested
<1>25. d.pc = "produce" => Streamed(d.req) BY <1>14, <1>19
<1> QED BY <1>0, <1>1, <1>2, <1>8, <1>9, <1>13, <1>14, <1>15, <1>24, <1>25, GoesOnInv

(* What the producer adds to a body extends it.                             *)
LEMMA ProducedInv ==
  ASSUME ExchangeInv, client.pc = "produce", UNCHANGED <<idle, sess, blamed>>,
         NEW x \in Seq(Calls \cup Pieces), net' = [net EXCEPT ![client.conn] = Written(@, "up", x)],
         NEW role \in {"produce", "read"}, NEW left \in Nat,
         client' = [client EXCEPT !.pc = role, !.left = left],
         \A calm \in BOOLEAN :
           Extends(x, client, role, [client EXCEPT !.pc = role, !.left = left], calm),
         NoMore("produce", client) => x = <<>> /\ role = "read"
  PROVE  ExchangeInv'
<1>0. client.pc \in Using BY DEF Using, Exchanging
<1>1. PICK c \in Conns :
        /\ c = client.conn /\ c # 0 /\ Fit(net[c], sess[c], client.pc, client, Calm(c))
        /\ net[c] \in Links /\ sess[c] \in Sessions /\ client \in Clients
        /\ client.result = "none" /\ (client.pc # "body" => client.got = <<>>)
        /\ client.pc = "produce" => Streamed(client.req)
  BY <1>0, InUse
<1>2. PICK n, s, cl, calm : n = net[c] /\ s = sess[c] /\ cl = client /\ calm = Calm(c) OBVIOUS
<1>3. n \in Links BY <1>1, <1>2
<1>4. PICK m \in Links :
        /\ m = Written(n, "up", x)
        /\ m.cOpen = n.cOpen /\ m.sOpen = n.sOpen /\ m.cut = n.cut /\ m.down = n.down
        /\ m.up = (IF n.cut THEN n.up ELSE n.up \o x)
  BY <1>3, WrittenIs
<1>5. net' = [net EXCEPT ![c] = m] BY <1>1, <1>2, <1>4
<1>6. PICK d : d = [cl EXCEPT !.pc = role, !.left = left] OBVIOUS
<1>7. role \in Using /\ cl \in Clients BY <1>1, <1>2 DEF Using, Exchanging
<1>8. /\ d \in Clients /\ d.pc = role /\ d.left = left /\ d.k = cl.k /\ d.req = cl.req
      /\ d.result = cl.result /\ d.got = cl.got /\ d.conn = cl.conn
  BY <1>6, <1>7 DEF Clients
<1>9. client' = d BY <1>2, <1>6
<1>10. calm \in BOOLEAN BY <1>2 DEF Calm
<1>11. Extends(x, cl, role, d, calm) BY <1>2, <1>6, <1>10
<1>12. NoMore("produce", cl) => x = <<>> /\ NoMore(role, d) BY <1>2 DEF NoMore
<1>13. m.cOpen = n.cOpen /\ m.sOpen = n.sOpen /\ m.cut = n.cut /\ m.down = n.down BY <1>4
<1>14. m.up = (IF n.cut THEN n.up ELSE n.up \o x) BY <1>4
<1>15. d.result = "none" /\ d.got = <<>> /\ d.k = cl.k /\ d.req = cl.req /\ d.pc = role
  BY <1>1, <1>2, <1>8
<1>16. Fit(n, s, "produce", cl, calm) BY <1>1, <1>2
<1>17. Fit(m, s, role, d, calm)
  BY <1>4, <1>8, <1>11, <1>12, <1>13, <1>14, <1>15, <1>16, Produced
<1>18. Streamed(d.req) BY <1>1, <1>2, <1>8
<1> QED BY <1>0, <1>1, <1>2, <1>4, <1>5, <1>7, <1>8, <1>9, <1>17, <1>18, GoesOnInv

(* Chunks extend a chunked body ...                                         *)
LEMMA ExtendsChunks ==
  ASSUME NEW cl, Chunked(cl.req), NEW tok \in Pieces, NEW role, NEW d, NEW calm \in BOOLEAN,
         \/ tok.t = "chunk" /\ role = "produce"
         \/ tok.t = "last" /\ role = "read"
  PROVE  Extends(<<tok>>, cl, role, d, calm)
<1>1. ASSUME NEW need \in Nat, NEW b \in Seq(Calls \cup Pieces),
             Rest(cl.req, need, b, "produce", cl, calm)
      PROVE  /\ b \o <<tok>> \in Seq(Calls \cup Pieces)
             /\ Rest(cl.req, need, b \o <<tok>>, role, d, calm)
             /\ ~calm => Rest(cl.req, need, b, role, d, calm)
  <2>1. ~calm => RestOfChunks(b, role, calm) BY <1>1 DEF Rest, RestOfChunks
  <2>2. ~calm => Rest(cl.req, need, b, role, d, calm) BY <2>1 DEF Rest
  <2>3. /\ b \o <<tok>> \in Seq(Calls \cup Pieces)
        /\ Rest(cl.req, need, b \o <<tok>>, role, d, calm)
    BY <1>1, RestChunked
  <2> QED BY <2>2, <2>3
<1> QED BY <1>1 DEF Extends

(* ... units one of a declared length ...                                   *)
LEMMA ExtendsUnits ==
  ASSUME NEW cl \in Clients, ~Chunked(cl.req), NEW m \in Nat, m <= cl.left, NEW k \in Ids,
         NEW d \in Clients, d.left = cl.left - m, NEW calm \in BOOLEAN
  PROVE  Extends(Units(k, m), cl, "produce", d, calm)
<1>1. ASSUME NEW need \in Nat, NEW b \in Seq(Calls \cup Pieces),
             Rest(cl.req, need, b, "produce", cl, calm)
      PROVE  /\ b \o Units(k, m) \in Seq(Calls \cup Pieces)
             /\ Rest(cl.req, need, b \o Units(k, m), "produce", d, calm)
             /\ ~calm => Rest(cl.req, need, b, "produce", d, calm)
  <2>1. More("produce", cl) = cl.left /\ More("produce", d) = d.left /\ cl.left \in Nat /\ d.left \in Nat
        /\ Len(b) \in Nat
    BY DEF More, Clients
  <2>2. ~calm => RestOfLength(need, b, "produce", d, calm)
    BY <1>1, <2>1 DEF Rest, RestOfLength
  <2>3. ~calm => Rest(cl.req, need, b, "produce", d, calm) BY <2>2 DEF Rest
  <2>4. /\ b \o Units(k, m) \in Seq(Calls \cup Pieces)
        /\ Rest(cl.req, need, b \o Units(k, m), "produce", d, calm)
    BY <1>1, RestProduced
  <2> QED BY <2>3, <2>4
<1> QED BY <1>1 DEF Extends

(* ... and the end of one of a declared length adds nothing.                *)
LEMMA ExtendsNothing ==
  ASSUME NEW cl \in Clients, ~Chunked(cl.req), cl.left = 0, NEW d, NEW calm \in BOOLEAN
  PROVE  Extends(<<>>, cl, "read", d, calm)
<1>1. ASSUME NEW need \in Nat, NEW b \in Seq(Calls \cup Pieces),
             Rest(cl.req, need, b, "produce", cl, calm)
      PROVE  /\ b \o <<>> \in Seq(Calls \cup Pieces)
             /\ Rest(cl.req, need, b \o <<>>, "read", d, calm)
             /\ ~calm => Rest(cl.req, need, b, "read", d, calm)
  <2>1. More("produce", cl) = 0 /\ More("read", d) = 0 /\ Len(b) \in Nat BY DEF More
  <2>2. RestOfLength(need, b, "read", d, calm)
    BY <1>1, <2>1 DEF Rest, RestOfLength, Exchanging
  <2>3. Rest(cl.req, need, b, "read", d, calm) BY <2>2 DEF Rest
  <2>4. b \o <<>> = b BY ConcatEmptySeq
  <2> QED BY <2>3, <2>4
<1> QED BY <1>1 DEF Extends

(* The producer writes a chunk, or units of the length it has left.         *)
LEMMA ProducerWritesInv ==
  ASSUME ExchangeInv, NEW m \in 1..2, ProducerWrites(m)
  PROVE  ExchangeInv'
<1>0. client.pc = "produce" /\ client.pc \in Using BY DEF ProducerWrites, Using, Exchanging
<1>1. client \in Clients /\ client.k \in Ids BY <1>0, InUse
<1>2. m \in Nat /\ m <= client.left /\ m > 0 BY DEF ProducerWrites
<1>3. PICK left \in Nat : left = client.left - m BY <1>1, <1>2 DEF Clients
<1>4. client' = [client EXCEPT !.left = left] /\ UNCHANGED <<idle, sess, blamed>>
  BY <1>3 DEF ProducerWrites
<1>5. client' = [client EXCEPT !.pc = "produce", !.left = left]
  BY <1>0, <1>1, <1>4 DEF Clients
<1>6. PICK d : d = [client EXCEPT !.pc = "produce", !.left = left] OBVIOUS
<1>7. d \in Clients /\ d.left = client.left - m
  BY <1>0, <1>1, <1>3, <1>6 DEF Clients, Using, Exchanging
<1>8. ~NoMore("produce", client) BY <1>2 DEF NoMore
<1>9. CASE Chunked(client.req)
  <2>1. PICK tok \in Pieces : tok = [t |-> "chunk", id |-> client.k, n |-> m]
    <3>1. [t |-> "chunk", id |-> client.k, n |-> m] \in Pieces BY <1>1, <1>2 DEF Pieces
    <3> QED BY <3>1
  <2>2. tok.t = "chunk" BY <2>1
  <2>3. PICK x \in Seq(Calls \cup Pieces) : x = <<tok>> /\ x = Chunk(client.k, m)
    <3>1. tok \in Calls \cup Pieces OBVIOUS
    <3>2. <<tok>> \in Seq(Calls \cup Pieces) BY <3>1
    <3>3. Chunk(client.k, m) = <<tok>> BY <2>1 DEF Chunk
    <3> QED BY <3>2, <3>3
  <2>4. net' = [net EXCEPT ![client.conn] = Written(@, "up", x)]
    BY <1>9, <2>3 DEF ProducerWrites, c0, Chunked
  <2>5. \A calm \in BOOLEAN : Extends(<<tok>>, client, "produce", d, calm)
    BY <1>9, <2>2, ExtendsChunks
  <2>6. \A calm \in BOOLEAN :
          Extends(x, client, "produce", [client EXCEPT !.pc = "produce", !.left = left], calm)
    BY <1>6, <2>3, <2>5
  <2> QED BY <1>0, <1>4, <1>5, <1>8, <2>4, <2>6, ProducedInv
<1>10. CASE ~Chunked(client.req)
  <2>1. Units(client.k, m) \in Seq(Pieces) BY <1>1, <1>2, UnitsAre
  <2>2. PICK x \in Seq(Calls \cup Pieces) : x = Units(client.k, m)
    <3>1. Units(client.k, m) \in Seq(Calls \cup Pieces) BY <2>1, SeqMonotonic
    <3> QED BY <3>1
  <2>3. net' = [net EXCEPT ![client.conn] = Written(@, "up", x)]
    BY <1>10, <2>2 DEF ProducerWrites, c0, Chunked
  <2>4. \A calm \in BOOLEAN : Extends(Units(client.k, m), client, "produce", d, calm)
    BY <1>1, <1>2, <1>7, <1>10, ExtendsUnits
  <2>5. \A calm \in BOOLEAN :
          Extends(x, client, "produce", [client EXCEPT !.pc = "produce", !.left = left], calm)
    BY <1>6, <2>2, <2>4
  <2> QED BY <1>0, <1>4, <1>5, <1>8, <2>3, <2>5, ProducedInv
<1> QED BY <1>9, <1>10

(* It ends the body.                                                        *)
LEMMA ProducerEndsInv ==
  ASSUME ExchangeInv, ProducerEnds
  PROVE  ExchangeInv'
<1>0. client.pc = "produce" /\ client.pc \in Using BY DEF ProducerEnds, Using, Exchanging
<1>1. client \in Clients /\ client.k \in Ids /\ client.req \in Requests /\ Streamed(client.req)
  BY <1>0, InUse
<1>2. client.left \in Nat BY <1>1 DEF Clients
<1>3. PICK left \in Nat : left = client.left BY <1>2
<1>4. client' = [client EXCEPT !.pc = "read"] /\ UNCHANGED <<idle, sess, blamed>>
  BY DEF ProducerEnds
<1>5. client' = [client EXCEPT !.pc = "read", !.left = left]
  BY <1>1, <1>3, <1>4 DEF Clients
<1>6. PICK d : d = [client EXCEPT !.pc = "read", !.left = left] OBVIOUS
<1>7. CASE Chunked(client.req)
  <2>1. PICK tok \in Pieces : tok = [t |-> "last", id |-> client.k]
    <3>1. [t |-> "last", id |-> client.k] \in Pieces BY <1>1 DEF Pieces
    <3> QED BY <3>1
  <2>2. tok.t = "last" BY <2>1
  <2>3. PICK x \in Seq(Calls \cup Pieces) : x = <<tok>> /\ x = LastChunk(client.k)
    <3>1. tok \in Calls \cup Pieces OBVIOUS
    <3>2. <<tok>> \in Seq(Calls \cup Pieces) BY <3>1
    <3>3. LastChunk(client.k) = <<tok>> BY <2>1 DEF LastChunk
    <3> QED BY <3>2, <3>3
  <2>4. net' = [net EXCEPT ![client.conn] = Written(@, "up", x)]
    BY <1>7, <2>3 DEF ProducerEnds, c0, Chunked
  <2>5. \A calm \in BOOLEAN : Extends(<<tok>>, client, "read", d, calm)
    BY <1>7, <2>2, ExtendsChunks
  <2>6. \A calm \in BOOLEAN :
          Extends(x, client, "read", [client EXCEPT !.pc = "read", !.left = left], calm)
    BY <1>6, <2>3, <2>5
  <2>7. ~NoMore("produce", client) BY <1>7 DEF NoMore
  <2> QED BY <1>0, <1>4, <1>5, <2>4, <2>6, <2>7, ProducedInv
<1>8. CASE ~Chunked(client.req)
  <2>1. client.req.body = "length" BY <1>1, <1>8, ExchangeAssumption DEF Chunked, Streamed
  <2>2. client.left = 0 BY <2>1 DEF ProducerEnds
  <2>3. PICK x \in Seq(Calls \cup Pieces) : x = <<>> BY EmptySeq
  <2>4. net' = [net EXCEPT ![client.conn] = Written(@, "up", x)]
    BY <1>8, <2>3 DEF ProducerEnds, c0, Chunked
  <2>5. \A calm \in BOOLEAN : Extends(<<>>, client, "read", d, calm)
    BY <1>1, <1>8, <2>2, ExtendsNothing
  <2>6. \A calm \in BOOLEAN :
          Extends(x, client, "read", [client EXCEPT !.pc = "read", !.left = left], calm)
    BY <1>6, <2>3, <2>5
  <2> QED BY <1>0, <1>4, <1>5, <2>3, <2>4, <2>6, ProducedInv
<1> QED BY <1>7, <1>8

(* A head comes: of an interim response, or of the one the client waits for.*)
LEMMA ReadHeadInv ==
  ASSUME ExchangeInv, ReadHead
  PROVE  ExchangeInv'
<1>0. client.pc = "read" /\ client.pc \in Using BY DEF ReadHead, Using, Exchanging
<1>1. PICK c \in Conns :
        /\ c = client.conn /\ c # 0 /\ Fit(net[c], sess[c], client.pc, client, Calm(c))
        /\ net[c] \in Links /\ sess[c] \in Sessions /\ client \in Clients
        /\ client.result = "none" /\ (client.pc # "body" => client.got = <<>>)
  BY <1>0, InUse
<1>2. PICK n, s, cl, calm : n = net[c] /\ s = sess[c] /\ cl = client /\ calm = Calm(c) OBVIOUS
<1>3. Fit(n, s, "read", cl, calm) /\ n \in Links /\ cl \in Clients BY <1>0, <1>1, <1>2
<1>4. n.down # <<>> BY <1>1, <1>2 DEF ReadHead, c0
<1>5. n.down \in Seq(Downs) BY <1>3 DEF Links, Downs
<1>6. PICK tok : tok = n.down[1] OBVIOUS
<1>7. tok = Head(n.down) /\ tok \in Downs /\ Tail(n.down) \in Seq(Downs) BY <1>4, <1>5, <1>6, TailOf
<1>8. tok.t = "response" BY <1>1, <1>2, <1>7 DEF ReadHead, c0
<1>9. tok \in Replies BY <1>7, <1>8 DEF Downs, Pieces
<1>10. PICK m : m = [n EXCEPT !.down = Tail(n.down)] OBVIOUS
<1>11. /\ m \in Links /\ m.cOpen = n.cOpen /\ m.sOpen = n.sOpen /\ m.cut = n.cut /\ m.up = n.up
       /\ m.down = Tail(n.down)
  BY <1>3, <1>7, <1>10 DEF Links, Downs
<1>12. net' = [net EXCEPT ![c] = m] /\ UNCHANGED <<idle, sess, blamed>>
  BY <1>1, <1>2, <1>10 DEF ReadHead, c0
<1>13. m.cOpen = n.cOpen /\ m.sOpen = n.sOpen /\ m.cut = n.cut /\ m.up = n.up /\ m.down = Tail(n.down)
  BY <1>11
<1>14. CASE tok.status \in 100..199
  <2>1. Interim(n.down[1]) BY <1>6, <1>8, <1>14 DEF Interim
  <2>2. Fit(m, s, "read", cl, calm) BY <1>3, <1>4, <1>11, <1>13, <2>1, InterimRead
  <2>3. UNCHANGED client BY <1>1, <1>2, <1>7, <1>14 DEF ReadHead, c0
  <2>4. client.pc # "produce" BY <1>0
  <2> QED BY <1>0, <1>1, <1>2, <1>11, <1>12, <2>2, <2>3, <2>4, GoesOnInv
<1>15. CASE tok.status \notin 100..199
  <2>0. ~Interim(n.down[1]) BY <1>6, <1>15 DEF Interim
  <2>1. tok.length \in Nat BY <1>9 DEF Replies
  <2>2. PICK left \in Nat : left = IF NoBody(tok, cl) THEN 0 ELSE tok.length BY <2>1
  <2>3. client' = [cl EXCEPT !.pc = "body", !.resp = tok, !.left = left]
    BY <1>1, <1>2, <1>7, <1>15, <2>2, Zenon DEF ReadHead, c0, NoBody
  <2>4. PICK d : d = [cl EXCEPT !.pc = "body", !.resp = tok, !.left = left] OBVIOUS
  <2>5. "body" \in Using BY DEF Using, Exchanging
  <2>6. /\ d \in Clients /\ d.pc = "body" /\ d.k = cl.k /\ d.req = cl.req /\ d.result = cl.result
        /\ d.got = cl.got /\ d.resp = tok /\ d.left = left /\ d.conn = cl.conn
    BY <1>3, <1>9, <2>4, <2>5 DEF Clients
  <2>7. d.resp = n.down[1] /\ d.left = (IF NoBody(n.down[1], cl) THEN 0 ELSE n.down[1].length)
    BY <1>6, <2>2, <2>6
  <2>8. d.pc = "body" /\ d.k = cl.k /\ d.req = cl.req /\ d.result = cl.result /\ d.got = cl.got
    BY <2>6
  <2>9. Fit(m, s, "body", d, calm) BY <1>3, <1>4, <1>11, <1>13, <2>0, <2>6, <2>7, <2>8, ResponseRead
  <2>10. client' = d /\ d.pc # "produce" BY <2>3, <2>4, <2>6
  <2> QED BY <1>0, <1>1, <1>2, <1>11, <1>12, <2>5, <2>6, <2>9, <2>10, GoesOnInv
<1> QED BY <1>14, <1>15

(* A piece of the body comes.                                               *)
LEMMA ReadUnitInv ==
  ASSUME ExchangeInv, ReadUnit
  PROVE  ExchangeInv'
<1>0. client.pc = "body" /\ client.pc \in Using BY DEF ReadUnit, Using, Exchanging
<1>1. PICK c \in Conns :
        /\ c = client.conn /\ c # 0 /\ Fit(net[c], sess[c], client.pc, client, Calm(c))
        /\ net[c] \in Links /\ sess[c] \in Sessions /\ client \in Clients
  BY <1>0, InUse
<1>2. PICK n, s, cl, calm : n = net[c] /\ s = sess[c] /\ cl = client /\ calm = Calm(c) OBVIOUS
<1>3. Fit(n, s, "body", cl, calm) /\ n \in Links /\ cl \in Clients BY <1>0, <1>1, <1>2
<1>4. n.down # <<>> BY <1>1, <1>2 DEF ReadUnit, c0
<1>5. n.down \in Seq(Downs) BY <1>3 DEF Links, Downs
<1>6. PICK tok : tok = n.down[1] OBVIOUS
<1>7. tok = Head(n.down) /\ tok \in Downs /\ Tail(n.down) \in Seq(Downs) BY <1>4, <1>5, <1>6, TailOf
<1>8. tok.id \in Ids BY <1>7 DEF Downs, Replies, Pieces
<1>9. PICK m : m = [n EXCEPT !.down = Tail(n.down)] OBVIOUS
<1>10. /\ m \in Links /\ m.cOpen = n.cOpen /\ m.sOpen = n.sOpen /\ m.cut = n.cut /\ m.up = n.up
       /\ m.down = Tail(n.down)
  BY <1>3, <1>7, <1>9 DEF Links, Downs
<1>11. net' = [net EXCEPT ![c] = m] /\ UNCHANGED <<idle, sess, blamed>>
  BY <1>1, <1>2, <1>9 DEF ReadUnit, c0
<1>12. BodyFraming = FramingOf(cl) BY <1>2 DEF BodyFraming, FramingOf, NoBody
<1>13. \/ FramingOf(cl) = "length" /\ cl.left > 0
       \/ FramingOf(cl) = "chunked" /\ tok.t = "chunk"
       \/ FramingOf(cl) = "eof"
  BY <1>1, <1>2, <1>7, <1>12 DEF ReadUnit, c0
<1>14. PICK left \in Nat : left = IF FramingOf(cl) = "length" THEN cl.left - 1 ELSE cl.left
  <2>1. cl.left \in Nat BY <1>3 DEF Clients
  <2>2. CASE FramingOf(cl) = "length" BY <1>13, <2>1, <2>2
  <2>3. CASE FramingOf(cl) # "length" BY <2>1, <2>3
  <2> QED BY <2>2, <2>3
<1>15. PICK got \in Seq(Ids) : got = Append(cl.got, tok.id)
  <2>1. cl.got \in Seq(Ids) BY <1>3 DEF Clients
  <2>2. Append(cl.got, tok.id) \in Seq(Ids) BY <1>8, <2>1, AppendProperties
  <2> QED BY <2>2
<1>16. PICK d : d = [cl EXCEPT !.got = got, !.left = left] OBVIOUS
<1>17. /\ d \in Clients /\ d.pc = "body" /\ d.k = cl.k /\ d.req = cl.req /\ d.result = cl.result
       /\ d.got = got /\ d.resp = cl.resp /\ d.left = left /\ d.conn = cl.conn
  BY <1>0, <1>2, <1>3, <1>16 DEF Clients
<1>18. client' = d BY <1>1, <1>2, <1>7, <1>12, <1>14, <1>15, <1>16 DEF ReadUnit, c0
<1>19. d.got = Append(cl.got, n.down[1].id) BY <1>6, <1>15, <1>17
<1>20. d.pc = "body" /\ d.k = cl.k /\ d.req = cl.req /\ d.result = cl.result /\ d.resp = cl.resp
  BY <1>17
<1>21. \/ FramingOf(cl) = "length" /\ cl.left > 0 /\ d.left = cl.left - 1
       \/ FramingOf(cl) = "chunked" /\ n.down[1].t = "chunk"
       \/ FramingOf(cl) = "eof"
  BY <1>6, <1>13, <1>14, <1>17
<1>22. m.cOpen = n.cOpen /\ m.sOpen = n.sOpen /\ m.cut = n.cut /\ m.up = n.up /\ m.down = Tail(n.down)
  BY <1>10
<1>23. Fit(m, s, "body", d, calm) BY <1>3, <1>4, <1>10, <1>17, <1>19, <1>20, <1>21, <1>22, UnitRead
<1>24. d.pc \in Using /\ d.pc # "produce" BY <1>17 DEF Using, Exchanging
<1> QED BY <1>0, <1>1, <1>2, <1>10, <1>11, <1>17, <1>18, <1>23, <1>24, GoesOnInv

(* The response is whole; the connection is pooled or closed.               *)
LEMMA ReadEndsInv ==
  ASSUME ExchangeInv, ReadEnds
  PROVE  ExchangeInv'
<1>0. client.pc = "body" /\ client.pc \in Using BY DEF ReadEnds, Using, Exchanging
<1>1. PICK c \in Conns :
        /\ c = client.conn /\ c # 0 /\ idle = 0 /\ Fit(net[c], sess[c], client.pc, client, Calm(c))
        /\ net[c] \in Links /\ sess[c] \in Sessions /\ client \in Clients
  BY <1>0, InUse
<1>2. PICK n, s, cl, calm : n = net[c] /\ s = sess[c] /\ cl = client /\ calm = Calm(c) OBVIOUS
<1>3. Fit(n, s, "body", cl, calm) /\ n \in Links /\ s \in Sessions /\ cl \in Clients
  BY <1>0, <1>1, <1>2
<1>4. BodyFraming = FramingOf(cl) BY <1>2 DEF BodyFraming, FramingOf, NoBody
<1>5. n.down \in Seq(Downs) BY <1>3 DEF Links, Downs
<1>6. PICK m \in Links, keep \in BOOLEAN :
        /\ Release(m, keep)
        /\ m.cOpen = n.cOpen /\ m.sOpen = n.sOpen /\ m.cut = n.cut /\ m.up = n.up
        /\ n.down = <<>> => m.down = <<>>
        /\ keep => cl.resp.keep /\ m.down = <<>> /\ Quiet(s)
  <2>0. cl.resp.keep \in BOOLEAN BY <1>3, InBodyOf DEF Replies
  <2>1. CASE BodyFraming = "length" /\ client.left = 0 /\ Release(net[c0], client.resp.keep)
    <3>1. FramingOf(cl) = "length" /\ cl.left = 0 BY <1>2, <1>4, <2>1
    <3>2. n.down = <<>> /\ Quiet(s) BY <1>3, <3>1, BodyWhole
    <3>3. PICK keep \in BOOLEAN : keep = cl.resp.keep BY <2>0
    <3>4. Release(n, keep) BY <1>1, <1>2, <2>1, <3>3 DEF c0
    <3> QED BY <1>3, <3>2, <3>3, <3>4
  <2>2. CASE /\ BodyFraming = "chunked" /\ net[c0].down # <<>> /\ Head(net[c0].down).t = "last"
             /\ Release([net[c0] EXCEPT !.down = Tail(@)], client.resp.keep)
    <3>1. FramingOf(cl) = "chunked" /\ n.down # <<>> BY <1>1, <1>2, <1>4, <2>2 DEF c0
    <3>2. n.down[1].t = "last" /\ Tail(n.down) \in Seq(Downs)
      BY <1>1, <1>2, <1>5, <2>2, <3>1, TailOf DEF c0
    <3>3. Tail(n.down) = <<>> /\ Quiet(s) BY <1>3, <3>1, <3>2, BodyWhole
    <3>4. PICK m : m = [n EXCEPT !.down = Tail(n.down)] OBVIOUS
    <3>5. /\ m \in Links /\ m.cOpen = n.cOpen /\ m.sOpen = n.sOpen /\ m.cut = n.cut /\ m.up = n.up
          /\ m.down = Tail(n.down)
      BY <1>3, <3>2, <3>4 DEF Links, Downs
    <3>6. PICK keep \in BOOLEAN : keep = cl.resp.keep BY <2>0
    <3>7. Release(m, keep) BY <1>1, <1>2, <2>2, <3>4, <3>6 DEF c0
    <3> QED BY <3>3, <3>5, <3>6, <3>7
  <2>3. CASE BodyFraming = "eof" /\ Over(net[c0]) /\ Release(net[c0], FALSE)
    <3>1. PICK keep \in BOOLEAN : keep = FALSE OBVIOUS
    <3>2. Release(n, keep) BY <1>1, <1>2, <2>3, <3>1 DEF c0
    <3> QED BY <1>3, <3>1, <3>2
  <2> QED BY <2>1, <2>2, <2>3 DEF ReadEnds
<1>7. PICK e \in Clients : /\ e = NewRequest /\ e.pc = "acquire" /\ e.k = 0 /\ e.conn = 0 /\ e.attempt = 0
                           /\ e.result = "none" /\ e.got = <<>>
  BY NewRequestIs
<1>8. PICK d : d = [e EXCEPT !.pc = "idle", !.k = cl.k, !.conn = cl.conn, !.result = "ok",
                            !.resp = cl.resp, !.got = cl.got]
  OBVIOUS
<1>9. d \in Clients /\ d.pc = "idle"
  <2>1. PICK k \in Ids, conn \in Nat, resp \in Replies, got \in Seq(Ids) :
          k = cl.k /\ conn = cl.conn /\ resp = cl.resp /\ got = cl.got
    BY <1>3, InBodyOf DEF Clients
  <2>2. PICK f : f = [e EXCEPT !.pc = "idle", !.k = k, !.conn = conn] OBVIOUS
  <2>3. f \in Clients /\ f.pc = "idle" BY <2>2 DEF Clients
  <2>4. PICK g : g = [f EXCEPT !.result = "ok", !.resp = resp, !.got = got] OBVIOUS
  <2>5. g \in Clients /\ g.pc = "idle" BY <2>3, <2>4 DEF Clients
  <2>6. g = d BY <1>8, <2>1, <2>2, <2>4 DEF Clients
  <2> QED BY <2>5, <2>6
<1>10. client' = d /\ UNCHANGED <<sess, blamed>>
  BY <1>2, <1>6, <1>7, <1>8 DEF Release, ReadEnds, c0
<1>11. CASE net' = [net EXCEPT ![c] = Settled([m EXCEPT !.cOpen = FALSE])] /\ UNCHANGED idle
  <2>1. m.sOpen = net[c].sOpen /\ m.cut = net[c].cut /\ m.up = net[c].up BY <1>2, <1>6
  <2>2. net[c].down = <<>> => m.down = <<>> BY <1>2, <1>6
  <2>3. d.pc \in {"idle", "acquire"} /\ d.pc # "acquire" /\ idle' = 0 BY <1>1, <1>9, <1>11
  <2> QED BY <1>0, <1>1, <1>9, <1>10, <1>11, <2>1, <2>2, <2>3, LeavesInv
<1>12. CASE keep /\ net' = [net EXCEPT ![c] = m] /\ idle' = c
  <2>1. Got(d) BY <1>9 DEF Got
  <2>2. cl.resp.keep /\ Quiet(s) /\ m.down = <<>> BY <1>6, <1>12
  <2>3. m.cOpen = n.cOpen /\ m.sOpen = n.sOpen /\ m.cut = n.cut /\ m.up = n.up BY <1>6
  <2>4. Fit(m, s, "idle", d, calm) BY <1>3, <1>6, <1>9, <2>1, <2>2, <2>3, Pooled
  <2>5. d.pc \notin Using BY <1>9 DEF Using, Exchanging
  <2>6. RoleOf(d, idle', c) = "idle" BY <1>12, <2>5 DEF RoleOf
  <2>7. Owner(d, idle', Conns) BY <1>9, <1>12, <2>5 DEF Owner
  <2>8. Calm(c) = (c \notin blamed') BY <1>10 DEF Calm
  <2>9. Fit(m, sess[c], RoleOf(d, idle', c), d, c \notin blamed') BY <1>2, <2>4, <2>6, <2>8
  <2> QED BY <1>0, <1>1, <1>6, <1>9, <1>10, <1>12, <2>5, <2>7, <2>9, ClientMoves
<1> QED BY <1>1, <1>6, <1>11, <1>12 DEF Release, c0

(* The pooled connection is taken.                                          *)
LEMMA TakesInv ==
  ASSUME ExchangeInv, Acquire, idle # 0
  PROVE  ExchangeInv'
<1>0. /\ client.pc = "acquire" /\ idle' = 0 /\ UNCHANGED <<net, sess, blamed>>
      /\ client' = [client EXCEPT !.pc = "write", !.conn = idle, !.reused = TRUE]
  BY DEF Acquire
<1>1. PICK c \in Conns : c = idle BY DEF ExchangeInv, Owner
<1>2. "acquire" \notin Using BY DEF Using, Exchanging
<1>3. \A x \in Conns : x # c => Role(x) = "gone" BY <1>0, <1>1, <1>2 DEF Role, RoleOf
<1>4. Role(c) = "idle" BY <1>0, <1>1, <1>2 DEF Role, RoleOf
<1>5. /\ Fit(net[c], sess[c], "idle", client, Calm(c)) /\ net[c] \in Links /\ sess[c] \in Sessions
      /\ client \in Clients /\ c \in 1..Len(net)
  BY <1>1, <1>4, FitOf
<1>6. /\ client.req \in Requests /\ client.k \in 1..NumRequests /\ client.result = "none" /\ client.got = <<>>
      /\ net \in Seq(Links)
  BY <1>0 DEF ExchangeInv, Owner, Got, Types
<1>7. PICK conn \in Nat : conn = c BY <1>1, <1>5
<1>8. PICK d : d = [client EXCEPT !.pc = "write", !.conn = conn, !.reused = TRUE] OBVIOUS
<1>9. /\ d \in Clients /\ d.pc = "write" /\ d.conn = conn /\ d.req = client.req /\ d.k = client.k
      /\ d.result = client.result /\ d.got = client.got
  BY <1>5, <1>8 DEF Clients, Using
<1>10. client' = d BY <1>0, <1>1, <1>7, <1>8
<1>11. d.req \in Requests /\ d.result = "none" /\ d.got = <<>> /\ d.pc = "write" BY <1>6, <1>9
<1>12. PICK n, s, cl, calm : n = net[c] /\ s = sess[c] /\ cl = client /\ calm = Calm(c) OBVIOUS
<1>13. Fit(n, s, "idle", cl, calm) BY <1>5, <1>12
<1>14. Fit(n, s, "write", d, calm) BY <1>9, <1>11, <1>13, Taken
<1>15. "write" \in Using BY DEF Using
<1>16. /\ RoleOf(d, idle', c) = "write"
       /\ \A x \in Conns : x # c => RoleOf(d, idle', x) = "gone"
  <2>1. \A x \in Conns : x # 0 BY FitOf
  <2> QED BY <1>0, <1>7, <1>9, <1>15, <2>1 DEF RoleOf
<1>17. Got(d) BY <1>9, <1>11 DEF Got
<1>18. Owner(d, idle', Conns) BY <1>0, <1>6, <1>7, <1>9 DEF Owner
<1>19. Calm(c) = (c \notin blamed') BY <1>0 DEF Calm
<1>20. Fit(n, sess[c], RoleOf(d, idle', c), d, c \notin blamed') BY <1>12, <1>14, <1>16, <1>19
<1>21. n \in Links /\ net' = [net EXCEPT ![c] = n] BY <1>0, <1>5, <1>6, <1>12
<1>22. \A x \in Conns : x # c => Role(x) \in {"idle", "gone"} /\ RoleOf(d, idle', x) = Role(x)
  BY <1>3, <1>16
<1>23. UNCHANGED sess /\ (blamed' = blamed \/ blamed' = blamed \cup {c}) BY <1>0
<1> QED BY <1>9, <1>23, <1>10, <1>17, <1>18, <1>20, <1>21, <1>22, ClientFrame

(* A new one is opened.                                                     *)
LEMMA OpensInv ==
  ASSUME ExchangeInv, client.pc = "acquire", idle = 0, UNCHANGED <<idle, blamed>>,
         client' = [client EXCEPT !.pc = "write", !.conn = Len(net) + 1, !.reused = FALSE],
         net' = Append(net, NewConn), sess' = Append(sess, NewSession)
  PROVE  ExchangeInv'
<1>1. /\ net \in Seq(Links) /\ sess \in Seq(Sessions) /\ Len(sess) = Len(net) /\ client \in Clients
      /\ client.req \in Requests /\ client.k \in 1..NumRequests /\ client.result = "none" /\ client.got = <<>>
  BY DEF ExchangeInv, Types, Owner, Got
<1>2. PICK n : n = NewConn OBVIOUS
<1>3. /\ n \in Links /\ n.up = <<>> /\ n.down = <<>> /\ n.cOpen /\ n.sOpen /\ ~n.cut
  <2>1. PICK x \in Seq(Downs), y \in Seq(Calls \cup Pieces) : x = <<>> /\ y = <<>> BY EmptySeq
  <2>2. n = [up |-> y, down |-> x, cOpen |-> TRUE, sOpen |-> TRUE, cut |-> FALSE]
    BY <1>2, <2>1 DEF NewConn
  <2>3. n \in Links /\ n.up = y /\ n.down = x /\ n.cOpen /\ n.sOpen /\ ~n.cut
    BY <2>2 DEF Links, Downs
  <2> QED BY <2>1, <2>3
<1>4. PICK s \in Sessions : s = NewSession BY ClosedSession
<1>5. s.pc = "head" BY <1>4 DEF NewSession
<1>6. PICK c \in Nat : c = Len(net) + 1 BY <1>1
<1>7. /\ net' \in Seq(Links) /\ Len(net') = c /\ net'[c] = n
      /\ \A x \in 1..Len(net) : net'[x] = net[x]
  BY <1>1, <1>2, <1>3, <1>6, AppendProperties
<1>8. /\ sess' \in Seq(Sessions) /\ Len(sess') = c /\ sess'[c] = s
      /\ \A x \in 1..Len(net) : sess'[x] = sess[x]
  BY <1>1, <1>4, <1>6, AppendProperties
<1>9. Conns = 1..Len(net) /\ Conns' = 1..c BY <1>1, <1>7 DEF Conns
<1>10. Len(net) \in Nat /\ c \notin Conns /\ Conns' = Conns \cup {c} BY <1>1, <1>6, <1>9
<1>11. PICK d : d = [client EXCEPT !.pc = "write", !.conn = c, !.reused = FALSE] OBVIOUS
<1>12. /\ d \in Clients /\ d.pc = "write" /\ d.conn = c /\ d.req = client.req /\ d.k = client.k
       /\ d.result = client.result /\ d.got = client.got
  BY <1>1, <1>11 DEF Clients, Using
<1>13. client' = d BY <1>6, <1>11
<1>14. d.req \in Requests /\ d.result = "none" /\ d.got = <<>> /\ d.pc = "write" BY <1>1, <1>12
<1>15. PICK calm \in BOOLEAN : calm = Calm(c) BY DEF Calm
<1>16. Fit(n, s, "write", d, calm) BY <1>3, <1>5, <1>12, <1>14, Fresh
<1>17. "write" \in Using /\ "acquire" \notin Using BY DEF Using, Exchanging
<1>18. \A x \in Conns : RoleOf(d, idle', x) = "gone" /\ Role(x) = "gone"
  <2>1. \A x \in Conns : x # 0 /\ x # c BY <1>9, <1>10
  <2> QED BY <1>12, <1>17, <2>1 DEF RoleOf, Role
<1>19. RoleOf(d, idle', c) = "write" BY <1>12, <1>17 DEF RoleOf
<1>20. Got(d) BY <1>12, <1>14 DEF Got
<1>21. ASSUME NEW x \in Conns' PROVE Good(net'[x], sess'[x], RoleOf(d, idle', x), d, x \notin blamed')
  <2>1. CASE x = c BY <1>7, <1>8, <1>15, <1>16, <1>19, <2>1 DEF Fit, Calm
  <2>2. CASE x # c
    <3>1. x \in Conns /\ net'[x] = net[x] /\ sess'[x] = sess[x] BY <1>7, <1>8, <1>9, <1>10, <2>2
    <3>2. Fit(net[x], sess[x], Role(x), client, Calm(x)) BY <3>1, FitOf
    <3>3. Role(x) = "gone" /\ RoleOf(d, idle', x) = "gone" BY <1>18, <3>1
    <3>4. Fit(net[x], sess[x], "gone", d, Calm(x)) BY <1>12, <1>20, <3>2, <3>3, Detached
    <3> QED BY <3>1, <3>3, <3>4 DEF Fit, Calm
  <2> QED BY <2>1, <2>2
<1>22. Types' BY <1>7, <1>8, <1>12, <1>13 DEF Types
<1>23. Owner(client, idle, Conns)' BY <1>1, <1>10, <1>12, <1>13 DEF Owner
<1> QED BY <1>13, <1>20, <1>21, <1>22, <1>23 DEF ExchangeInv, Role, Calm

(* The client takes the pooled connection or opens one.                     *)
LEMMA AcquireInv ==
  ASSUME ExchangeInv, Acquire
  PROVE  ExchangeInv'
<1>1. CASE idle # 0 BY <1>1, TakesInv
<1>2. CASE /\ idle = 0 /\ UNCHANGED idle
           /\ client' = [client EXCEPT !.pc = "write", !.conn = Len(net) + 1, !.reused = FALSE]
           /\ net' = Append(net, NewConn) /\ sess' = Append(sess, NewSession)
  BY <1>2, OpensInv DEF Acquire
<1> QED BY <1>1, <1>2 DEF Acquire

-----------------------------------------------------------------------------
(* The invariant holds, and with it the boundaries of messages.             *)

(* Nothing is open at first.                                                *)
LEMMA InitInv == Init => ExchangeInv
<1> SUFFICES ASSUME Init PROVE ExchangeInv OBVIOUS
<1>1. Conns = {} BY EmptySeq DEF Conns, Init
<1>2. PICK e \in Clients : /\ e = NewRequest /\ e.pc = "acquire" /\ e.k = 0 /\ e.conn = 0 /\ e.attempt = 0
                           /\ e.result = "none" /\ e.got = <<>>
  BY NewRequestIs
<1>3. PICK d : d = [e EXCEPT !.pc = "idle"] OBVIOUS
<1>4. d \in Clients /\ d.pc = "idle" BY <1>3 DEF Clients
<1>5. client = d BY <1>2, <1>3 DEF Init
<1>6. net \in Seq(Links) /\ sess \in Seq(Sessions) /\ Len(sess) = Len(net) BY EmptySeq DEF Init
<1>7. d.pc \notin Using /\ d.pc \notin {"acquire", "body", "produce"} BY <1>4 DEF Using, Exchanging
<1>8. Owner(client, idle, Conns) BY <1>4, <1>5, <1>7 DEF Owner, Init
<1>9. Got(client) BY <1>4, <1>5 DEF Got
<1> QED BY <1>1, <1>4, <1>5, <1>6, <1>8, <1>9 DEF ExchangeInv, Types

(* Every step keeps the invariant.                                          *)
LEMMA NextInv == ExchangeInv /\ [Next]_vars => ExchangeInv'
<1> SUFFICES ASSUME ExchangeInv, [Next]_vars PROVE ExchangeInv' OBVIOUS
<1>1. CASE \E r \in Requests : Begin(r) BY <1>1, BeginInv
<1>2. CASE Acquire BY <1>2, AcquireInv
<1>3. CASE WriteRequest BY <1>3, WriteRequestInv
<1>4. CASE WriteRefused BY <1>4, WriteRefusedInv
<1>5. CASE \E n \in 1..2 : ProducerWrites(n) BY <1>5, ProducerWritesInv
<1>6. CASE ProducerEnds BY <1>6, ProducerEndsInv
<1>7. CASE ReadHead BY <1>7, ReadHeadInv
<1>8. CASE ReadUnit BY <1>8, ReadUnitInv
<1>9. CASE ReadEnds BY <1>9, ReadEndsInv
<1>10. CASE ReadFails BY <1>10, ReadFailsInv
<1>11. CASE ClientWriteFails BY <1>11, ClientWriteFailsInv
<1>12. CASE ProducerFails BY <1>12, ProducerFailsInv
<1>13. CASE GivesUp BY <1>13, GivesUpInv
<1>14. ASSUME NEW c \in Conns, SessionStep(c) PROVE ExchangeInv'
  <2>1. CASE ReadRequestHead(c) BY <2>1, ReadRequestHeadInv
  <2>2. CASE RefuseLength(c) BY <2>2, RefuseLengthInv
  <2>3. CASE NoRequestHead(c) BY <2>3, NoRequestHeadInv
  <2>4. CASE HeadTimeout(c) BY <2>4, HeadTimeoutInv
  <2>5. CASE StreamHandler(c) BY <2>5, StreamHandlerInv
  <2>6. CASE ConsumeBody(c) BY <2>6, ConsumeBodyInv
  <2>7. CASE ReadRequestUnit(c) BY <2>7, ReadRequestUnitInv
  <2>8. CASE RequestBodyFails(c) BY <2>8, RequestBodyFailsInv
  <2>9. CASE PlainHandler(c) BY <2>9, PlainHandlerInv
  <2>10. CASE \E a \in Answers : SendResponse(c, a) BY <2>10, SendResponseInv
  <2>11. CASE Transfer(c) BY <2>11, TransferInv
  <2>12. CASE SendFails(c) BY <2>12, AbortInv DEF SendFails
  <2>13. CASE NextRequest(c) BY <2>13, NextRequestInv
  <2> QED BY <1>14, <2>1, <2>2, <2>3, <2>4, <2>5, <2>6, <2>7, <2>8, <2>9, <2>10, <2>11, <2>12, <2>13
          DEF SessionStep
<1>15. CASE \E c \in Conns : BodyTimeout(c) BY <1>15, BodyTimeoutInv
<1>16. CASE \E c \in Conns : TransferFails(c) BY <1>16, AbortInv DEF TransferFails
<1>17. CASE \E c \in Conns : Cut(c) BY <1>17, CutInv
<1>18. CASE \E c \in Conns : Reset(c) BY <1>18, ResetInv
<1>19. CASE Stop BY <1>19, AloneInv DEF Stop
<1>20. CASE UNCHANGED vars BY <1>20, AloneInv DEF vars
<1> QED BY <1>1, <1>2, <1>3, <1>4, <1>5, <1>6, <1>7, <1>8, <1>9, <1>10, <1>11, <1>12, <1>13, <1>14,
           <1>15, <1>16, <1>17, <1>18, <1>19, <1>20 DEF Next, ClientStep

(* What every connection carries, in both directions, is what its session   *)
(* and the client on it are waiting for.                                    *)
THEOREM ExchangeInvariant == Spec => []ExchangeInv
<1> QED BY InitInv, NextInv, PTL DEF Spec

(* A session that looks for a request finds the head of the client's own,   *)
(* and nothing of a response is left on a pooled connection (serve() keeps  *)
(* it alive, read_body ends, and the client releases it for reuse).         *)
THEOREM BoundariesKept == Spec => []BoundariesAgree
<1>1. ASSUME ExchangeInv PROVE BoundariesAgree
  <2>1. ASSUME NEW c \in Conns, sess[c].pc = "head", net[c].up # <<>>
        PROVE  Head(net[c].up).t = "request" /\ (net[c].cOpen => Head(net[c].up).id = client.k)
    <3>1. PICK n, s : n = net[c] /\ s = sess[c] OBVIOUS
    <3>2. Fit(n, s, Role(c), client, Calm(c)) BY <1>1, <3>1, FitOf
    <3>3. Asked(n, s) /\ NextHead(s) /\ n.up # <<>> BY <2>1, <3>1 DEF Asked, NextHead
    <3>4. n.up \in Seq(Calls \cup Pieces) BY <3>2 DEF Fit, Links
    <3>5. Head(n.up) = n.up[1] BY <3>3, <3>4, TailOf
    <3>6. n.up[1] \in Calls BY <3>2, <3>3 DEF Fit, Good, Upward
    <3>7. ASSUME n.cOpen PROVE n.up[1].id = client.k
      <4>1. Role(c) # "gone" BY <3>2, <3>7 DEF Fit, Good, Opened
      <4>2. s.pc # "closed" BY <2>1, <3>1
      <4>3. Role(c) \notin {"idle", "write"} BY <3>2, <3>3, <4>2 DEF Fit, Good, Rested
      <4>4. Role(c) \in Exchanging BY <3>2, <4>1, <4>3 DEF Fit, Roles, Using
      <4> QED BY <3>2, <3>3, <4>4 DEF Fit, Good, Exchange, Waiting
    <3> QED BY <3>1, <3>5, <3>6, <3>7 DEF Calls
  <2>2. ASSUME idle # 0 PROVE net[idle].down = <<>>
    <3>1. PICK c \in Conns : c = idle BY <1>1, <2>2 DEF ExchangeInv, Owner
    <3>2. client.pc \notin Using BY <1>1, <2>2 DEF ExchangeInv, Owner
    <3>3. Role(c) = "idle" BY <3>1, <3>2 DEF Role, RoleOf
    <3>4. Fit(net[c], sess[c], Role(c), client, Calm(c)) BY <1>1, FitOf
    <3> QED BY <3>1, <3>3, <3>4 DEF Fit, Good, Rested
  <2> QED BY <2>1, <2>2 DEF BoundariesAgree
<1>2. ExchangeInv => BoundariesAgree BY <1>1
<1> QED BY <1>2, ExchangeInvariant, PTL

-----------------------------------------------------------------------------
(* What comes of a request.                                                 *)

(* What a request that has ended has come to.                               *)
Results == AnswersItsRequest /\ FailureHasCause

(* Nothing has come of one that is under way.                               *)
LEMMA ResultsUnderWay ==
  ASSUME ExchangeInv', client'.pc # "idle"
  PROVE  Results'
<1>1. client'.result = "none" BY DEF ExchangeInv, Got
<1> QED BY <1>1 DEF Results, AnswersItsRequest, FailureHasCause

(* What has come of one that has ended stays so.                            *)
LEMMA ResultsStay ==
  ASSUME Results, UNCHANGED client, blamed \subseteq blamed'
  PROVE  Results'
BY DEF Results, AnswersItsRequest, FailureHasCause

(* An attempt that ends without an answer has a cause.                      *)
LEMMA ResultsFail ==
  ASSUME ExchangeInv, client.pc \in Using, NEW retry \in BOOLEAN, Fails(retry),
         blamed' = blamed \/ blamed' = blamed \cup {client.conn}, client.conn \in blamed'
  PROVE  Results'
<1>1. /\ client'.result = (IF retry THEN "none" ELSE "failed") /\ client'.conn = client.conn
  BY FailsInv
<1> QED BY <1>1 DEF Results, AnswersItsRequest, FailureHasCause

(* The connection of a client whose write fails is to blame ...             *)
LEMMA WriteFailureBlamed ==
  ASSUME ExchangeInv, ClientWriteFails
  PROVE  client.conn \in blamed
<1>0. client.pc \in Using BY DEF ClientWriteFails, Using, Exchanging
<1>1. PICK c \in Conns :
        c = client.conn /\ Fit(net[c], sess[c], client.pc, client, Calm(c))
  BY <1>0, InUse
<1>2. PICK n, s, role, cl, calm :
        n = net[c] /\ s = sess[c] /\ role = client.pc /\ cl = client /\ calm = Calm(c)
  OBVIOUS
<1>3. Fit(n, s, role, cl, calm) BY <1>1, <1>2
<1>4. n.cut \/ ~n.sOpen BY <1>1, <1>2 DEF ClientWriteFails, WriteMayFail, c0
<1>5. \/ role = "write"
      \/ role = "produce" /\ (Chunked(cl.req) \/ cl.left > 0)
  BY <1>2 DEF ClientWriteFails, Chunked
<1>6. ~calm BY <1>3, <1>4, <1>5, WriteHasCause
<1> QED BY <1>1, <1>2, <1>6 DEF Calm

(* ... and that of one that does not get what it must.                      *)
LEMMA ReadFailureBlamed ==
  ASSUME ExchangeInv, ReadFails
  PROVE  client.conn \in blamed
<1>0. client.pc \in {"read", "body"} /\ client.pc \in Using
  BY DEF ReadFails, InBody, Using, Exchanging
<1>1. PICK c \in Conns :
        /\ c = client.conn /\ Fit(net[c], sess[c], client.pc, client, Calm(c)) /\ net[c] \in Links
  BY <1>0, InUse
<1>2. PICK n, s, role, cl, calm :
        n = net[c] /\ s = sess[c] /\ role = client.pc /\ cl = client /\ calm = Calm(c)
  OBVIOUS
<1>3. Fit(n, s, role, cl, calm) /\ n.down \in Seq(Downs) BY <1>1, <1>2 DEF Links, Downs
<1>4. BodyFraming = FramingOf(cl) BY <1>2 DEF BodyFraming, FramingOf, NoBody
<1>5. role = "read" \/ (role = "body" /\ ~(FramingOf(cl) = "length" /\ cl.left = 0))
  BY <1>2, <1>4 DEF ReadFails, InBody
<1>6. n.down # <<>> => Head(n.down) = n.down[1] BY <1>3, TailOf
<1>7. \/ n.cut
      \/ n.down = <<>> /\ ~n.sOpen /\ (role = "body" => FramingOf(cl) # "eof")
      \/ /\ n.down # <<>>
         /\ IF role = "read" THEN n.down[1].t # "response"
            ELSE FramingOf(cl) = "chunked" /\ n.down[1].t \notin {"chunk", "last"}
  BY <1>1, <1>2, <1>4, <1>6 DEF ReadFails, Over, c0
<1>8. ~calm BY <1>3, <1>5, <1>7, ReadHasCause
<1> QED BY <1>1, <1>2, <1>8 DEF Calm

(* A response is returned whole.                                            *)
LEMMA ResultsEnd ==
  ASSUME ExchangeInv, ReadEnds
  PROVE  Results'
<1>0. client.pc = "body" /\ client.pc \in Using BY DEF ReadEnds, Using, Exchanging
<1>1. PICK c \in Conns :
        /\ c = client.conn /\ Fit(net[c], sess[c], client.pc, client, Calm(c)) /\ net[c] \in Links
  BY <1>0, InUse
<1>2. PICK n, s, cl, calm : n = net[c] /\ s = sess[c] /\ cl = client /\ calm = Calm(c) OBVIOUS
<1>3. Fit(n, s, "body", cl, calm) /\ n.down \in Seq(Downs) BY <1>0, <1>1, <1>2 DEF Links, Downs
<1>4. BodyFraming = FramingOf(cl) BY <1>2 DEF BodyFraming, FramingOf, NoBody
<1>5. n.down # <<>> => Head(n.down) = n.down[1] BY <1>3, TailOf
<1>6. \/ FramingOf(cl) = "length" /\ cl.left = 0
      \/ FramingOf(cl) = "chunked" /\ n.down # <<>> /\ n.down[1].t = "last"
      \/ FramingOf(cl) = "eof" /\ n.down = <<>> /\ ~n.sOpen /\ ~n.cut
  BY <1>1, <1>2, <1>4, <1>5 DEF ReadEnds, Over, c0
<1>7. /\ cl.resp.id = cl.k /\ \A i \in DOMAIN cl.got : cl.got[i] = cl.k
      /\ Len(cl.got) = cl.resp.size \/ (cl.resp.framing = "eof" /\ ~calm)
  BY <1>3, <1>6, BodyWhole
<1>8. PICK x, keep : Release(x, keep) BY DEF ReadEnds
<1>9. client' = [NewRequest EXCEPT !.pc = "idle", !.k = cl.k, !.conn = c, !.result = "ok",
                                  !.resp = cl.resp, !.got = cl.got]
  BY <1>1, <1>2, <1>8 DEF Release, c0
<1>10. /\ client'.k = cl.k /\ client'.conn = c /\ client'.result = "ok" /\ client'.resp = cl.resp
       /\ client'.got = cl.got
  BY <1>9 DEF NewRequest
<1>11. ~calm => c \in blamed' BY <1>2 DEF ReadEnds, Calm
<1> QED BY <1>7, <1>10, <1>11 DEF Results, AnswersItsRequest, FailureHasCause

(* Every step keeps both.                                                   *)
LEMMA ResultsNext == ExchangeInv /\ Results /\ [Next]_vars => Results'
<1> SUFFICES ASSUME ExchangeInv, Results, [Next]_vars PROVE Results' OBVIOUS
<1>0. ExchangeInv' BY NextInv
<1>1. CASE \E r \in Requests : Begin(r)
  <2>1. client'.pc = "acquire" BY <1>1 DEF Begin, NewRequest
  <2> QED BY <1>0, <2>1, ResultsUnderWay
<1>2. CASE Acquire \/ WriteRequest \/ (\E n \in 1..2 : ProducerWrites(n)) \/ ProducerEnds \/ ReadHead \/ ReadUnit
  <2>1. client \in Clients /\ client.pc # "idle"
    BY <1>2, Zenon DEF Acquire, WriteRequest, ProducerWrites, ProducerEnds, ReadHead, ReadUnit, ExchangeInv, Types
  <2>2. client'.pc # "idle"
    <3>1. CASE Acquire BY <2>1, <3>1 DEF Acquire, Clients
    <3>2. CASE WriteRequest BY <2>1, <3>2 DEF WriteRequest, Clients
    <3>3. CASE \E n \in 1..2 : ProducerWrites(n) BY <2>1, <3>3 DEF ProducerWrites, Clients
    <3>4. CASE ProducerEnds BY <2>1, <3>4 DEF ProducerEnds, Clients
    <3>5. CASE ReadHead BY <2>1, <3>5 DEF ReadHead, Clients
    <3>6. CASE ReadUnit BY <2>1, <3>6 DEF ReadUnit, Clients
    <3> QED BY <1>2, <3>1, <3>2, <3>3, <3>4, <3>5, <3>6
  <2> QED BY <1>0, <2>2, ResultsUnderWay
<1>3. CASE WriteRefused
  <2>1. client.pc \in Using BY <1>3 DEF WriteRefused, Using
  <2>2. PICK retry \in BOOLEAN : retry = MayRetry(FALSE) BY MayRetryIs
  <2>3. Fails(retry) /\ blamed' = blamed \cup {client.conn} BY <1>3, <2>2 DEF WriteRefused, Blame, c0
  <2> QED BY <2>1, <2>3, ResultsFail
<1>4. CASE ReadFails
  <2>1. client.pc \in Using BY <1>4 DEF ReadFails, InBody, Using, Exchanging
  <2>2. PICK retry \in BOOLEAN : retry = MayRetry(client.pc = "body") BY MayRetryIs
  <2>3. Fails(retry) /\ blamed' = blamed BY <1>4, <2>2 DEF ReadFails
  <2>4. client.conn \in blamed' BY <1>4, <2>3, ReadFailureBlamed
  <2> QED BY <2>1, <2>3, <2>4, ResultsFail
<1>5. CASE ClientWriteFails
  <2>1. client.pc \in Using BY <1>5 DEF ClientWriteFails, Using, Exchanging
  <2>2. PICK retry \in BOOLEAN : retry = MayRetry(FALSE) BY MayRetryIs
  <2>3. Fails(retry) /\ blamed' = blamed BY <1>5, <2>2 DEF ClientWriteFails
  <2>4. client.conn \in blamed' BY <1>5, <2>3, WriteFailureBlamed
  <2> QED BY <2>1, <2>3, <2>4, ResultsFail
<1>6. CASE ProducerFails
  <2>1. client.pc \in Using BY <1>6 DEF ProducerFails, Using, Exchanging
  <2>2. Fails(FALSE) /\ blamed' = blamed \cup {client.conn} BY <1>6 DEF ProducerFails, Blame, c0
  <2> QED BY <2>1, <2>2, ResultsFail
<1>7. CASE GivesUp
  <2>1. client.pc \in Using BY <1>7 DEF GivesUp, Using, Exchanging
  <2>2. PICK retry \in BOOLEAN : Fails(retry) BY <1>7, MayRetryIs DEF GivesUp
  <2>3. blamed' = blamed \cup {client.conn} BY <1>7 DEF GivesUp, Blame, c0
  <2> QED BY <2>1, <2>2, <2>3, ResultsFail
<1>8. CASE ReadEnds BY <1>8, ResultsEnd
<1>9. ASSUME NEW c \in Conns,
             SessionStep(c) \/ BodyTimeout(c) \/ TransferFails(c) \/ Cut(c) \/ Reset(c)
      PROVE  Results'
  <2>1. UNCHANGED client
    BY <1>9, Zenon DEF SessionStep, ReadRequestHead, RefuseLength, NoRequestHead, HeadTimeout,
       StreamHandler, ConsumeBody, ReadRequestUnit, RequestBodyFails, PlainHandler, SendResponse, Transfer,
       SendFails, Abort, NextRequest, BodyTimeout, TransferFails, Cut, Reset
  <2>2. blamed \subseteq blamed'
    BY <1>9, Zenon DEF SessionStep, ReadRequestHead, RefuseLength, NoRequestHead, HeadTimeout,
       StreamHandler, ConsumeBody, ReadRequestUnit, RequestBodyFails, PlainHandler, SendResponse, Transfer,
       SendFails, Abort, NextRequest, BodyTimeout, TransferFails, Cut, Reset, Blame
  <2> QED BY <2>1, <2>2, ResultsStay
<1>10. CASE Stop \/ UNCHANGED vars BY <1>10, ResultsStay DEF Stop, vars
<1> QED BY <1>1, <1>2, <1>3, <1>4, <1>5, <1>6, <1>7, <1>8, <1>9, <1>10 DEF Next, ClientStep

(* Both hold in every state.                                                *)
LEMMA ResultsInvariant == Spec => []Results
<1>1. Init => Results
  BY DEF Init, NewRequest, Results, AnswersItsRequest, FailureHasCause
<1> QED BY <1>1, InitInv, NextInv, ResultsNext, PTL DEF Spec

(* A response is the answer to the request it is returned for, and whole,   *)
(* whichever framing read_body took and whatever stale bytes a reused       *)
(* connection might hold.                                                   *)
THEOREM AnswersMatch == Spec => []AnswersItsRequest
<1>1. Results => AnswersItsRequest BY DEF Results
<1> QED BY <1>1, ResultsInvariant, PTL

(* A request fails only on a connection on which something went wrong, not  *)
(* because serve() closed one that its response told the client to keep.    *)
THEOREM FailuresHaveCauses == Spec => []FailureHasCause
<1>1. Results => FailureHasCause BY DEF Results
<1> QED BY <1>1, ResultsInvariant, PTL

-----------------------------------------------------------------------------
(* How often handlers run.                                                  *)

(* A handler is going to be called for the request a session is at, or for  *)
(* the one that is waiting before it.                                       *)
Due(s) ==
  s.pc \in {"stream", "handler"} \/ (s.pc \in {"consume", "body"} /\ s.route = "plain")
Awaits(n, s, k) == (Asked(n, s) /\ n.up[1].id = k) \/ (Due(s) /\ s.id = k)
Pending(k) == {c \in Conns : Awaits(net[c], sess[c], k)}

(* How often request k may still be written.                                *)
Limit(k) == IF k \in repeatable THEN 2 ELSE 1
Chances(k) ==
  IF k > client.k THEN Limit(k)
  ELSE IF k < client.k \/ client.pc = "idle" THEN 0
  ELSE IF client.attempt = 0
    THEN IF client.pc \in {"acquire", "write"} THEN Limit(k) ELSE Limit(k) - 1
    ELSE IF client.pc \in {"acquire", "write"} THEN 1 ELSE 0

(* The calls made, those to come for what was written, and those for what   *)
(* may still be written are within the limit.                               *)
Counted(k) == handled[k] + Cardinality(Pending(k)) + Chances(k) <= Limit(k)
Repeatable(cl) == idempotent_method(cl.req.method) /\ ~Streamed(cl.req)
CountInv ==
  /\ handled \in [1..NumRequests -> Nat]
  /\ client.pc # "idle" /\ Repeatable(client) => client.k \in repeatable
  /\ \A k \in 1..NumRequests : Counted(k)

(* No request has a call to come that it had not before.                    *)
Shrinks == \A k \in 1..NumRequests : Pending(k)' \subseteq Pending(k)

(* A request waits on finitely many connections.                            *)
LEMMA PendingFinite ==
  ASSUME ExchangeInv, NEW k
  PROVE  IsFiniteSet(Pending(k)) /\ Cardinality(Pending(k)) \in Nat
<1>1. IsFiniteSet(1..Len(net))
  BY FS_Interval, LenProperties DEF ExchangeInv, Types
<1>2. Pending(k) \subseteq 1..Len(net) BY DEF Pending, Conns, ExchangeInv, Types
<1>3. IsFiniteSet(Pending(k)) BY <1>1, <1>2, FS_Subset
<1> QED BY <1>3, FS_CardinalityType

(* The same one step later.                                                 *)
LEMMA PendingFiniteNext ==
  ASSUME ExchangeInv', NEW k
  PROVE  IsFiniteSet(Pending(k)') /\ Cardinality(Pending(k)') \in Nat
<1>1. IsFiniteSet(1..Len(net'))
  BY FS_Interval, LenProperties DEF ExchangeInv, Types
<1>2. Pending(k)' \subseteq 1..Len(net') BY DEF Pending, Conns, ExchangeInv, Types
<1>3. IsFiniteSet(Pending(k)') BY <1>1, <1>2, FS_Subset
<1> QED BY <1>3, FS_CardinalityType

(* What the bounds of a request are made of.                                *)
LEMMA ChancesIs ==
  ASSUME ExchangeInv, NEW k \in 1..NumRequests
  PROVE  /\ Limit(k) \in 1..2 /\ Chances(k) \in 0..2
         /\ client.k \in Nat /\ k \in Nat /\ client.attempt \in 0..1 /\ NumRequests \in Nat
<1>1. /\ client.k \in Nat /\ k \in Nat /\ client.attempt \in 0..1 /\ NumRequests \in Nat
  BY ExchangeAssumption DEF ExchangeInv, Types, Clients, Ids
<1>2. Limit(k) \in 1..2 BY DEF Limit
<1>3. Chances(k) \in 0..2 BY <1>1, <1>2 DEF Chances
<1> QED BY <1>1, <1>2, <1>3

(* No request gains a call while its chances do not grow.                   *)
LEMMA CountShrinks ==
  ASSUME ExchangeInv, ExchangeInv', CountInv, Shrinks, UNCHANGED <<handled, repeatable>>,
         NEW k \in 1..NumRequests, Chances(k)' <= Chances(k), Chances(k)' \in Nat
  PROVE  Counted(k)'
<1>1. PICK p, q : p = Cardinality(Pending(k)) /\ q = Cardinality(Pending(k)') OBVIOUS
<1>2. p \in Nat /\ q \in Nat /\ q <= p
  <2>1. IsFiniteSet(Pending(k)) /\ Pending(k)' \subseteq Pending(k) BY PendingFinite DEF Shrinks
  <2>2. Cardinality(Pending(k)') <= Cardinality(Pending(k)) BY <2>1, FS_Subset
  <2> QED BY <1>1, <2>2, PendingFinite, PendingFiniteNext
<1>3. Limit(k)' = Limit(k) BY DEF Limit
<1>4. Limit(k) \in 1..2 /\ Chances(k) \in 0..2 BY ChancesIs
<1>5. PICK h \in Nat : h = handled[k] BY DEF CountInv
<1>6. h + p + Chances(k) <= Limit(k) BY <1>1, <1>5 DEF CountInv, Counted
<1>7. PICK l \in 1..2, x \in 0..2, y \in Nat : l = Limit(k) /\ x = Chances(k) /\ y = Chances(k)'
  BY <1>4
<1>8. h + p + x <= l /\ y <= x BY <1>6, <1>7
<1>9. h + q + y <= l BY <1>2, <1>8
<1>10. handled'[k] = h BY <1>5
<1> QED BY <1>1, <1>3, <1>7, <1>9, <1>10 DEF Counted

(* A step of a session or of the network that calls no handler.             *)
LEMMA CountStays ==
  ASSUME ExchangeInv, ExchangeInv', CountInv, Shrinks, UNCHANGED <<client, handled, repeatable>>
  PROVE  CountInv'
<1>1. ASSUME NEW k \in 1..NumRequests PROVE Counted(k)'
  <2>1. Chances(k)' = Chances(k) BY DEF Chances, Limit
  <2>2. Chances(k) \in 0..2 BY ChancesIs
  <2>3. Chances(k)' <= Chances(k) /\ Chances(k)' \in Nat BY <2>1, <2>2
  <2> QED BY <2>3, CountShrinks
<1> QED BY <1>1 DEF CountInv

(* A step of the client that writes no request.                             *)
LEMMA CountGoesOn ==
  ASSUME ExchangeInv, ExchangeInv', CountInv, Shrinks, UNCHANGED <<handled, repeatable>>,
         client'.k = client.k, client.pc # "idle",
         client'.pc # "idle" => client'.req = client.req,
         NEW k0 \in 1..NumRequests, k0 = client.k, Chances(k0)' <= Chances(k0)
  PROVE  CountInv'
<1>1. ASSUME NEW k \in 1..NumRequests PROVE Counted(k)'
  <2>1. Chances(k) \in 0..2 /\ client.k \in Nat /\ k \in Nat BY ChancesIs
  <2>2. client'.attempt \in 0..1 /\ Limit(k)' \in 1..2
    BY DEF ExchangeInv, Types, Clients, Limit
  <2>3. Chances(k)' \in Nat BY <2>1, <2>2 DEF Chances
  <2>4. CASE k = client.k BY <2>3, <2>4, CountShrinks
  <2>5. CASE k # client.k
    <3>1. Limit(k)' = Limit(k) BY DEF Limit
    <3>2. Chances(k)' = Chances(k) BY <2>1, <2>5, <3>1 DEF Chances
    <3>3. Chances(k)' <= Chances(k) BY <2>1, <3>2
    <3> QED BY <2>3, <3>3, CountShrinks
  <2> QED BY <2>4, <2>5
<1>2. client'.pc # "idle" /\ Repeatable(client') => client'.k \in repeatable'
  BY DEF CountInv, Repeatable
<1> QED BY <1>1, <1>2 DEF CountInv

(* A request that begins has not been written yet.                          *)
LEMMA BeginCount ==
  ASSUME ExchangeInv, ExchangeInv', CountInv, NEW r \in Requests, Begin(r)
  PROVE  CountInv'
<1>0. /\ UNCHANGED <<net, sess, handled>> /\ client.pc = "idle" /\ client.k < NumRequests
      /\ repeatable' = repeatable \cup
                   (IF idempotent_method(r.method) /\ ~Streamed(r) THEN {client.k + 1} ELSE {})
      /\ client' = [NewRequest EXCEPT !.k = client.k + 1, !.req = r]
  BY DEF Begin
<1>1. PICK k1 : k1 = client.k + 1 OBVIOUS
<1>2. client'.k = client.k + 1 /\ client'.req = r /\ client'.pc = "acquire" /\ client'.attempt = 0
  <2>1. client' = [NewRequest EXCEPT !.k = k1, !.req = r] BY <1>0, <1>1
  <2>2. client'.k = k1 /\ client'.req = r /\ client'.pc = "acquire" /\ client'.attempt = 0
    BY <2>1 DEF NewRequest
  <2> QED BY <1>1, <2>2
<1>3. ASSUME NEW k \in 1..NumRequests PROVE Counted(k)'
  <2>1. PICK p : p = Cardinality(Pending(k)) OBVIOUS
  <2>2. Pending(k)' = Pending(k) BY <1>0 DEF Pending, Conns
  <2>3. Cardinality(Pending(k)') = p BY <2>1, <2>2
  <2>4. p \in Nat BY <2>1, PendingFinite
  <2>5. PICK h \in Nat : h = handled[k] BY DEF CountInv
  <2>6. handled'[k] = h BY <1>0, <2>5
  <2>7. client.k \in Nat /\ k \in Nat /\ Limit(k) \in 1..2 BY ChancesIs
  <2>8. h + p + Chances(k) <= Limit(k) BY <2>1, <2>5 DEF CountInv, Counted
  <2>9. CASE k > client.k
    <3>1. Chances(k) = Limit(k) BY <2>7, <2>9 DEF Chances
    <3>2. h = 0 /\ p = 0 BY <2>4, <2>7, <2>8, <3>1
    <3>3. Chances(k)' = Limit(k)' BY <1>2, <2>7, <2>9 DEF Chances
    <3>4. Limit(k)' \in 1..2 BY DEF Limit
    <3>5. h + p + Chances(k)' <= Limit(k)' BY <3>2, <3>3, <3>4
    <3> QED BY <2>3, <2>6, <3>5 DEF Counted
  <2>10. CASE k <= client.k
    <3>1. Chances(k) = 0 BY <1>0, <2>7, <2>10 DEF Chances
    <3>2. Chances(k)' = 0 BY <1>2, <2>7, <2>10 DEF Chances
    <3>3. Limit(k) <= Limit(k)' BY <1>0 DEF Limit
    <3>4. Limit(k)' \in 1..2 BY DEF Limit
    <3>5. h + p + Chances(k)' <= Limit(k)' BY <2>4, <2>7, <2>8, <3>1, <3>2, <3>3, <3>4
    <3> QED BY <2>3, <2>6, <3>5 DEF Counted
  <2> QED BY <2>7, <2>9, <2>10
<1>4. Repeatable(client') => client'.k \in repeatable' BY <1>0, <1>2 DEF Repeatable
<1>5. handled' \in [1..NumRequests -> Nat] BY <1>0 DEF CountInv
<1> QED BY <1>3, <1>4, <1>5 DEF CountInv

(* A request that is written uses up a chance.                              *)
LEMMA WriteCount ==
  ASSUME ExchangeInv, ExchangeInv', CountInv, UNCHANGED <<handled, repeatable>>,
         client.pc = "write", client'.pc \in {"produce", "read"}, client'.k = client.k,
         client'.req = client.req, client'.attempt = client.attempt, NEW c,
         \A k \in 1..NumRequests :
           Pending(k)' \subseteq Pending(k) \cup (IF k = client.k THEN {c} ELSE {})
  PROVE  CountInv'
<1>1. ASSUME NEW k \in 1..NumRequests PROVE Counted(k)'
  <2>1. PICK p, q : p = Cardinality(Pending(k)) /\ q = Cardinality(Pending(k)') OBVIOUS
  <2>2. p \in Nat /\ q \in Nat BY <2>1, PendingFinite, PendingFiniteNext
  <2>3. PICK h \in Nat : h = handled[k] BY DEF CountInv
  <2>4. handled'[k] = h BY <2>3
  <2>5. client.k \in Nat /\ k \in Nat /\ Limit(k) \in 1..2 /\ Chances(k) \in 0..2
        /\ client.attempt \in 0..1
    BY ChancesIs
  <2>6. h + p + Chances(k) <= Limit(k) BY <2>1, <2>3 DEF CountInv, Counted
  <2>7. Limit(k)' = Limit(k) BY DEF Limit
  <2>8. CASE k = client.k
    <3>1. Pending(k)' \subseteq Pending(k) \cup {c} BY <2>8
    <3>2. IsFiniteSet(Pending(k)) BY PendingFinite
    <3>3. /\ IsFiniteSet(Pending(k) \cup {c})
          /\ Cardinality(Pending(k) \cup {c}) = (IF c \in Pending(k) THEN p ELSE p + 1)
      BY <2>1, <3>2, FS_AddElement
    <3>4. q <= Cardinality(Pending(k) \cup {c}) BY <2>1, <3>1, <3>3, FS_Subset
    <3>5. q <= p + 1 BY <2>2, <3>3, <3>4
    <3>6. Chances(k)' + 1 = Chances(k) /\ Chances(k)' \in Nat
      <4>1. CASE client.attempt = 0 BY <2>5, <2>7, <2>8, <4>1 DEF Chances
      <4>2. CASE client.attempt = 1 BY <2>5, <2>8, <4>2 DEF Chances
      <4> QED BY <2>5, <4>1, <4>2
    <3>7. h + q + Chances(k)' <= Limit(k) BY <2>2, <2>5, <2>6, <3>5, <3>6
    <3> QED BY <2>1, <2>4, <2>7, <3>7 DEF Counted
  <2>9. CASE k # client.k
    <3>1. Pending(k)' \subseteq Pending(k) BY <2>9
    <3>2. IsFiniteSet(Pending(k)) BY PendingFinite
    <3>3. q <= p BY <2>1, <3>1, <3>2, FS_Subset
    <3>4. Chances(k)' = Chances(k) BY <2>5, <2>7, <2>9 DEF Chances
    <3>5. h + q + Chances(k)' <= Limit(k) BY <2>2, <2>5, <2>6, <3>3, <3>4
    <3> QED BY <2>1, <2>4, <2>7, <3>5 DEF Counted
  <2> QED BY <2>8, <2>9
<1>2. Repeatable(client') => client'.k \in repeatable' BY DEF CountInv, Repeatable
<1> QED BY <1>1, <1>2 DEF CountInv

(* A call of a handler was due.                                             *)
LEMMA HandlerCount ==
  ASSUME ExchangeInv, ExchangeInv', CountInv, UNCHANGED <<client, repeatable>>,
         NEW c \in Conns, NEW k0, c \in Pending(k0),
         handled' = [handled EXCEPT ![k0] = @ + 1],
         \A k \in 1..NumRequests : Pending(k)' \subseteq Pending(k),
         c \notin Pending(k0)'
  PROVE  CountInv'
<1>1. ASSUME NEW k \in 1..NumRequests PROVE Counted(k)'
  <2>1. PICK p, q : p = Cardinality(Pending(k)) /\ q = Cardinality(Pending(k)') OBVIOUS
  <2>2. p \in Nat /\ q \in Nat BY <2>1, PendingFinite, PendingFiniteNext
  <2>3. PICK h \in Nat : h = handled[k] BY DEF CountInv
  <2>5. Limit(k) \in 1..2 /\ Chances(k) \in 0..2 BY ChancesIs
  <2>6. h + p + Chances(k) <= Limit(k) BY <2>1, <2>3 DEF CountInv, Counted
  <2>7. Limit(k)' = Limit(k) /\ Chances(k)' = Chances(k) BY DEF Limit, Chances
  <2>8. IsFiniteSet(Pending(k)) BY PendingFinite
  <2>9. CASE k = k0
    <3>1. handled'[k] = h + 1 BY <2>3, <2>9 DEF CountInv
    <3>2. Pending(k)' \subseteq Pending(k) \ {c} BY <2>9
    <3>3. /\ IsFiniteSet(Pending(k) \ {c}) /\ Cardinality(Pending(k) \ {c}) = p - 1
      BY <2>1, <2>8, <2>9, FS_RemoveElement
    <3>4. q <= p - 1 BY <2>1, <3>2, <3>3, FS_Subset
    <3>5. h + 1 + q + Chances(k) <= Limit(k) BY <2>2, <2>5, <2>6, <3>4
    <3> QED BY <2>1, <2>7, <3>1, <3>5 DEF Counted
  <2>10. CASE k # k0
    <3>1. handled'[k] = h BY <2>3, <2>10 DEF CountInv
    <3>2. q <= p BY <2>1, <2>8, FS_Subset
    <3>3. h + q + Chances(k) <= Limit(k) BY <2>2, <2>5, <2>6, <3>2
    <3> QED BY <2>1, <2>7, <3>1, <3>3 DEF Counted
  <2> QED BY <2>9, <2>10
<1>2. handled' \in [1..NumRequests -> Nat]
  <2>1. \A k \in 1..NumRequests : handled[k] + 1 \in Nat BY DEF CountInv
  <2> QED BY <2>1 DEF CountInv
<1>3. client'.pc # "idle" /\ Repeatable(client') => client'.k \in repeatable' BY DEF CountInv
<1> QED BY <1>1, <1>2, <1>3 DEF CountInv

(* A step on connection c leaves the others alone.                          *)
LEMMA ShrinksAt ==
  ASSUME ExchangeInv, NEW c \in Conns, NEW m, NEW t,
         net' = [net EXCEPT ![c] = m] \/ (UNCHANGED net /\ m = net[c]),
         sess' = [sess EXCEPT ![c] = t],
         \A k : Awaits(m, t, k) => Awaits(net[c], sess[c], k)
  PROVE  Shrinks /\ \A k : c \in Pending(k)' <=> Awaits(m, t, k)
<1>1. Conns' = Conns /\ c \in DOMAIN net BY DEF Conns
<1>2. DOMAIN sess = DOMAIN net
  <2>1. net \in Seq(Links) /\ sess \in Seq(Sessions) /\ Len(sess) = Len(net)
    BY DEF ExchangeInv, Types
  <2> QED BY <2>1, LenProperties
<1>3. \A x \in Conns : /\ net'[x] = IF x = c THEN m ELSE net[x]
                       /\ sess'[x] = IF x = c THEN t ELSE sess[x]
  BY <1>1, <1>2 DEF Conns
<1>4. \A k : \A x \in Conns : Awaits(net'[x], sess'[x], k) => Awaits(net[x], sess[x], k)
  BY <1>3
<1>5. \A k : c \in Pending(k)' <=> Awaits(m, t, k) BY <1>1, <1>3 DEF Pending
<1> QED BY <1>1, <1>4, <1>5 DEF Shrinks, Pending

(* A session that closes or is to answer awaits no call.                    *)
LEMMA ShrinksShut ==
  ASSUME ExchangeInv, NEW c \in Conns, NEW m,
         net' = [net EXCEPT ![c] = m] \/ (UNCHANGED net /\ m = net[c]),
         NEW t, sess' = [sess EXCEPT ![c] = t], t.pc \in {"closed", "answer"}
  PROVE  Shrinks /\ \A k : c \notin Pending(k)'
<1>1. \A k : ~Awaits(m, t, k) BY DEF Awaits, Asked, NextHead, Sending, Due
<1> QED BY <1>1, ShrinksAt

(* So it is when serve() gives up without an answer ...                     *)
LEMMA ShrinksClose ==
  ASSUME ExchangeInv, NEW c \in Conns, NEW tokens, CloseConn(c, tokens),
         sess' = [sess EXCEPT ![c] = Closed(c)]
  PROVE  Shrinks
<1>1. PICK m : net' = [net EXCEPT ![c] = m] BY DEF CloseConn
<1>2. Closed(c).pc = "closed" BY ClosedSession
<1> QED BY <1>1, <1>2, ShrinksShut

(* ... with one of its own ...                                              *)
LEMMA ShrinksAnswerAndClose ==
  ASSUME ExchangeInv, NEW c \in Conns, NEW status, AnswerAndClose(c, status)
  PROVE  Shrinks
<1> QED BY ShrinksClose DEF AnswerAndClose

(* ... or leaves the failure of the body to the handler of a stream route.  *)
LEMMA ShrinksBodyFails ==
  ASSUME ExchangeInv, NEW c \in Conns, NEW status, BodyFails(c, status)
  PROVE  Shrinks
<1>1. CASE sess[c].route = "plain" BY <1>1, ShrinksAnswerAndClose DEF BodyFails
<1>2. CASE sess[c].route # "plain"
  <2>1. PICK t : t = [sess[c] EXCEPT !.pc = "answer", !.error = status, !.left = 0, !.read = 0]
    OBVIOUS
  <2>2. UNCHANGED net /\ sess' = [sess EXCEPT ![c] = t] BY <1>2, <2>1 DEF BodyFails
  <2>3. sess[c] \in Sessions BY FitOf
  <2>4. t.pc = "answer" BY <2>1, <2>3 DEF Sessions
  <2> QED BY <2>2, <2>4, ShrinksShut
<1> QED BY <1>1, <1>2

(* The head that is read was waiting for its call.                          *)
LEMMA ShrinksReadHead ==
  ASSUME ExchangeInv, NEW c \in Conns, ReadRequestHead(c)
  PROVE  Shrinks
<1>0. sess[c] \in Sessions /\ net[c] \in Links BY FitOf
<1>1. PICK n \in Links, s \in Sessions : n = net[c] /\ s = sess[c] BY <1>0
<1>2. PICK m : m = [n EXCEPT !.up = Tail(n.up)] OBVIOUS
<1>3. net' = [net EXCEPT ![c] = m] BY <1>1, <1>2 DEF ReadRequestHead
<1>4. PICK tok : tok = Head(n.up) OBVIOUS
<1>5. PICK complete \in BOOLEAN, route \in {"plain", "stream"},
           pc \in {"too large", "stream", "consume", "handler"} :
        sess' = [sess EXCEPT ![c] = [s EXCEPT
             !.id = tok.id, !.req = tok.req, !.route = route, !.left = tok.req.size,
             !.read = 0, !.complete = complete, !.error = 0, !.pc = pc]]
  <2>1. PICK complete \in BOOLEAN : complete = (~Chunked(tok.req) /\ tok.req.size = 0) OBVIOUS
  <2>2. PICK route \in {"plain", "stream"} :
          sess' = [sess EXCEPT ![c] = [s EXCEPT
             !.id = tok.id, !.req = tok.req, !.route = route, !.left = tok.req.size,
             !.read = 0, !.complete = complete, !.error = 0,
             !.pc = IF route = "stream"
                      THEN IF tok.req.size > MaxBody THEN "too large" ELSE "stream"
                      ELSE IF ~complete \/ tok.req.expect THEN "consume" ELSE "handler"]]
    BY <1>1, <1>4, <2>1 DEF ReadRequestHead
  <2> QED BY <2>2
<1>6. PICK id, req, left : id = tok.id /\ req = tok.req /\ left = tok.req.size OBVIOUS
<1>7. PICK t : t = [s EXCEPT
             !.id = id, !.req = req, !.route = route, !.left = left,
             !.read = 0, !.complete = complete, !.error = 0, !.pc = pc]
  OBVIOUS
<1>8. t.pc = pc /\ t.id = id BY <1>7 DEF Sessions
<1>9. sess' = [sess EXCEPT ![c] = t] BY <1>5, <1>6, <1>7
<1>10. s.pc = "head" /\ n.up # <<>> BY <1>1 DEF ReadRequestHead
<1>11. tok = n.up[1] BY <1>4, <1>10, TailOf DEF Links
<1>12. ASSUME NEW k, Awaits(m, t, k) PROVE Awaits(n, s, k)
  <2>1. k = id BY <1>5, <1>8, <1>12 DEF Awaits, Asked, NextHead, Sending
  <2> QED BY <1>6, <1>10, <1>11, <2>1 DEF Awaits, Asked, NextHead
<1> QED BY <1>1, <1>3, <1>9, <1>12, ShrinksAt

(* The body of a plain route's request is read before its call.             *)
LEMMA ShrinksBody ==
  ASSUME ExchangeInv, NEW c \in Conns, ConsumeBody(c) \/ ReadRequestUnit(c)
  PROVE  Shrinks
<1>0. sess[c] \in Sessions /\ net[c] \in Links BY FitOf
<1>1. PICK s \in Sessions : s = sess[c] BY <1>0
<1>2. PICK m : net' = [net EXCEPT ![c] = m] \/ (UNCHANGED net /\ m = net[c])
  BY DEF ConsumeBody, ReadRequestUnit
<1>3. PICK t : /\ sess' = [sess EXCEPT ![c] = t]
               /\ \/ t = [s EXCEPT !.pc = "body"] /\ s.pc = "consume"
                  \/ t = Whole(s) /\ s.pc = "body"
                  \/ t = [s EXCEPT !.left = s.left - 1] /\ s.pc = "body"
                  \/ (\E r : t = [s EXCEPT !.read = r]) /\ s.pc = "body"
  BY <1>1 DEF ConsumeBody, ReadRequestUnit
<1>4. /\ t.id = s.id /\ t.route = s.route /\ s.pc \in {"consume", "body"}
      /\ t.pc = "body" \/ (t.pc = IF s.route = "plain" THEN "handler" ELSE "answer")
  <2>1. CASE t = [s EXCEPT !.pc = "body"] /\ s.pc = "consume" BY <2>1 DEF Sessions
  <2>2. CASE t = Whole(s) /\ s.pc = "body"
    <3>1. PICK pc : pc = IF s.route = "plain" THEN "handler" ELSE "answer" OBVIOUS
    <3>2. t = [s EXCEPT !.complete = TRUE, !.read = 0, !.pc = pc] BY <2>2, <3>1 DEF Whole
    <3>3. t.id = s.id /\ t.route = s.route /\ t.pc = pc BY <3>2 DEF Sessions
    <3> QED BY <2>2, <3>1, <3>3
  <2>3. CASE t = [s EXCEPT !.left = s.left - 1] /\ s.pc = "body"
    <3>1. PICK l : t = [s EXCEPT !.left = l] BY <2>3
    <3> QED BY <2>3, <3>1 DEF Sessions
  <2>4. CASE (\E r : t = [s EXCEPT !.read = r]) /\ s.pc = "body" BY <2>4 DEF Sessions
  <2> QED BY <1>3, <2>1, <2>2, <2>3, <2>4
<1>5. ASSUME NEW k, Awaits(m, t, k) PROVE Awaits(net[c], s, k)
  <2>1. Due(t) /\ t.id = k BY <1>4, <1>5 DEF Awaits, Asked, NextHead, Sending
  <2>2. s.route = "plain" BY <1>4, <2>1 DEF Due
  <2>3. Due(s) BY <1>4, <2>2 DEF Due
  <2> QED BY <1>4, <2>1, <2>3 DEF Awaits
<1> QED BY <1>1, <1>2, <1>3, <1>5, ShrinksAt

(* The handler of a plain route answers the request it was due for.         *)
LEMMA PlainHandlerCount ==
  ASSUME ExchangeInv, ExchangeInv', CountInv, UNCHANGED repeatable, NEW c \in Conns, PlainHandler(c)
  PROVE  CountInv'
<1>1. PICK s \in Sessions : s = sess[c] BY FitOf
<1>2. PICK t : t = [s EXCEPT !.pc = "answer"] OBVIOUS
<1>3. t.pc = "answer" BY <1>2 DEF Sessions
<1>4. /\ s.pc = "handler" /\ UNCHANGED <<client, net>> /\ sess' = [sess EXCEPT ![c] = t]
      /\ handled' = [handled EXCEPT ![s.id] = @ + 1]
  BY <1>1, <1>2 DEF PlainHandler
<1>5. c \in Pending(s.id) BY <1>1, <1>4 DEF Pending, Awaits, Due
<1>6. Shrinks /\ \A k : c \notin Pending(k)' BY <1>3, <1>4, ShrinksShut
<1>7. \A k \in 1..NumRequests : Pending(k)' \subseteq Pending(k) BY <1>6 DEF Shrinks
<1>8. PICK k0 : k0 = s.id OBVIOUS
<1>9. c \in Pending(k0) /\ c \notin Pending(k0)' /\ handled' = [handled EXCEPT ![k0] = @ + 1]
  BY <1>4, <1>5, <1>6, <1>8
<1>10. UNCHANGED <<client, repeatable>> BY <1>4
<1> QED BY <1>7, <1>9, <1>10, HandlerCount

(* That of a stream route does too, and no other call follows the body.     *)
LEMMA StreamHandlerCount ==
  ASSUME ExchangeInv, ExchangeInv', CountInv, UNCHANGED repeatable, NEW c \in Conns, StreamHandler(c)
  PROVE  CountInv'
<1>1. PICK s \in Sessions, n \in Links : s = sess[c] /\ n = net[c] /\ Fit(n, s, Role(c), client, Calm(c))
  BY FitOf
<1>2. PICK pc \in {"consume", "answer"} : sess' = [sess EXCEPT ![c] = [s EXCEPT !.pc = pc]]
  BY <1>1 DEF StreamHandler
<1>3. PICK t : t = [s EXCEPT !.pc = pc] OBVIOUS
<1>4. t.pc = pc /\ t.route = s.route BY <1>3 DEF Sessions
<1>5. /\ s.pc = "stream" /\ UNCHANGED <<client, net>> /\ sess' = [sess EXCEPT ![c] = t]
      /\ handled' = [handled EXCEPT ![s.id] = @ + 1]
  BY <1>1, <1>2, <1>3 DEF StreamHandler
<1>6. s.route = "stream" BY <1>1, <1>5 DEF Fit, Good, Upward
<1>7. \A k : ~Awaits(n, t, k) BY <1>4, <1>6 DEF Awaits, Asked, NextHead, Sending, Due
<1>8. c \in Pending(s.id) BY <1>1, <1>5 DEF Pending, Awaits, Due
<1>9. Shrinks /\ \A k : c \notin Pending(k)' BY <1>1, <1>5, <1>7, ShrinksAt
<1>10. \A k \in 1..NumRequests : Pending(k)' \subseteq Pending(k) BY <1>9 DEF Shrinks
<1>11. PICK k0 : k0 = s.id OBVIOUS
<1>12. c \in Pending(k0) /\ c \notin Pending(k0)' /\ handled' = [handled EXCEPT ![k0] = @ + 1]
  BY <1>5, <1>8, <1>9, <1>11
<1>13. UNCHANGED <<client, repeatable>> BY <1>5
<1> QED BY <1>10, <1>12, <1>13, HandlerCount

(* A session that may look for another head has read all of this request.   *)
LEMMA ShrinksSend ==
  ASSUME ExchangeInv, NEW c \in Conns, NEW response, SendResponse(c, response)
  PROVE  Shrinks
<1>1. PICK s \in Sessions, n \in Links : s = sess[c] /\ n = net[c] /\ Fit(n, s, Role(c), client, Calm(c))
  BY FitOf
<1>2. PICK tokens : net' = [net EXCEPT ![c] = Written(n, "down", tokens)]
  <2>1. PICK a : a = Chosen(s, response) OBVIOUS
  <2>2. PICK framing : framing = IF a.kind # "stream" THEN "length"
                                 ELSE IF s.req.version >= 11 THEN "chunked" ELSE "eof"
    OBVIOUS
  <2>3. PICK code : code = IF a.kind = "missing" THEN 500 ELSE a.status OBVIOUS
  <2> DEFINE keeps == KeepsAlive(s) /\ ~(a.kind = "missing") /\ framing # "eof"
             head == ResponseHead(s.id, code, WireFraming(code, framing),
                                  WireLength(code, framing, a.size), keeps,
                                  IF omit_body(s.req.method, code) THEN 0 ELSE a.size)
             body == IF a.kind \in {"buffered", "missing"} /\ ~omit_body(s.req.method, code)
                     THEN Units(s.id, a.size) ELSE <<>>
  <2>4. net' = [net EXCEPT ![c] = Written(@, "down", <<head>> \o body)]
    BY <1>1, <2>1, <2>2, <2>3 DEF SendResponse
  <2> HIDE DEF head, body
  <2> QED BY <1>1, <2>4
<1>3. PICK m : m = Written(n, "down", tokens) OBVIOUS
<1>4. m.up = n.up BY <1>3 DEF Written, Links
<1>5. PICK left, framing, reusable :
        /\ \E pc \in Sending :
             sess' = [sess EXCEPT ![c] = [NewSession EXCEPT
                       !.pc = pc, !.count = s.count, !.id = s.id, !.left = left,
                       !.framing = framing, !.reusable = reusable]]
        /\ reusable = KeepsAlive(s)
  BY <1>1 DEF SendResponse, Sending
<1>6. PICK pc \in Sending :
             sess' = [sess EXCEPT ![c] = [NewSession EXCEPT
                       !.pc = pc, !.count = s.count, !.id = s.id, !.left = left,
                       !.framing = framing, !.reusable = reusable]]
  BY <1>5
<1>7. PICK count, id : count = s.count /\ id = s.id OBVIOUS
<1>8. PICK t : t = [NewSession EXCEPT
                       !.pc = pc, !.count = count, !.id = id, !.left = left,
                       !.framing = framing, !.reusable = reusable]
  OBVIOUS
<1>9. t.pc = pc /\ t.reusable = reusable BY <1>8 DEF NewSession
<1>10. sess' = [sess EXCEPT ![c] = t] BY <1>6, <1>7, <1>8
<1>11. net' = [net EXCEPT ![c] = m] BY <1>2, <1>3
<1>12. s.pc = "answer" BY <1>1 DEF SendResponse
<1>13. reusable => n.up = <<>> BY <1>1, <1>5, <1>12 DEF KeepsAlive, Fit, Good, Upward, Consumed
<1>14. \A k : ~Awaits(m, t, k)
  <2>1. ~Asked(m, t) BY <1>4, <1>6, <1>9, <1>13 DEF Asked, NextHead, Sending
  <2>2. ~Due(t) BY <1>6, <1>9 DEF Due, Sending
  <2> QED BY <2>1, <2>2 DEF Awaits
<1> QED BY <1>10, <1>11, <1>14, ShrinksAt

(* A request that waits goes on waiting while the response is sent, and     *)
(* when the session turns to it.                                            *)
LEMMA ShrinksTransfer ==
  ASSUME ExchangeInv, NEW c \in Conns, Transfer(c)
  PROVE  Shrinks
<1>1. PICK s \in Sessions, n \in Links : s = sess[c] /\ n = net[c] BY FitOf
<1>2. PICK m : /\ net' = [net EXCEPT ![c] = m] \/ (UNCHANGED net /\ m = net[c])
               /\ (\E tokens : m = Written(n, "down", tokens)) \/ m = n
  BY <1>1 DEF Transfer
<1>3. m.up = n.up BY <1>2 DEF Written, Links
<1>4. PICK t : /\ sess' = [sess EXCEPT ![c] = t]
               /\ (\E l : t = [s EXCEPT !.left = l]) \/ t = [s EXCEPT !.pc = "sent"]
  BY <1>1 DEF Transfer
<1>5. s.pc = "transfer" BY <1>1 DEF Transfer
<1>6. t.reusable = s.reusable /\ t.pc \in Sending BY <1>4, <1>5 DEF Sessions, Sending
<1>7. ASSUME NEW k, Awaits(m, t, k) PROVE Awaits(n, s, k)
  <2>1. ~Due(t) BY <1>6 DEF Due, Sending
  <2>2. Asked(m, t) /\ m.up[1].id = k BY <1>7, <2>1 DEF Awaits
  <2>3. Asked(n, s) /\ n.up[1].id = k BY <1>3, <1>5, <1>6, <2>2 DEF Asked, NextHead, Sending
  <2> QED BY <2>3 DEF Awaits
<1> QED BY <1>1, <1>2, <1>4, <1>7, ShrinksAt

(* The session turns to the request that waits, or closes.                  *)
LEMMA ShrinksNext ==
  ASSUME ExchangeInv, NEW c \in Conns, NextRequest(c)
  PROVE  Shrinks
<1>1. PICK s \in Sessions, n \in Links : s = sess[c] /\ n = net[c] BY FitOf
<1>2. CASE s.reusable /\ s.count + 1 < MaxServed
  <2>1. PICK count : sess' = [sess EXCEPT ![c] = [NewSession EXCEPT !.count = count,
                                                       !.framing = s.framing]]
    BY <1>1, <1>2 DEF NextRequest
  <2>2. PICK framing : framing = s.framing OBVIOUS
  <2>3. PICK t : t = [NewSession EXCEPT !.count = count, !.framing = framing] OBVIOUS
  <2>4. t.pc = "head" BY <2>3 DEF NewSession
  <2>5. sess' = [sess EXCEPT ![c] = t] /\ UNCHANGED net BY <1>1, <1>2, <2>1, <2>2, <2>3 DEF NextRequest
  <2>6. ASSUME NEW k, Awaits(n, t, k) PROVE Awaits(n, s, k)
    <3>1. s.pc = "sent" BY <1>1 DEF NextRequest
    <3>2. n.up # <<>> /\ n.up[1].id = k BY <2>4, <2>6 DEF Awaits, Asked, Due
    <3> QED BY <1>2, <3>1, <3>2 DEF Awaits, Asked, NextHead, Sending
  <2> QED BY <1>1, <2>5, <2>6, ShrinksAt
<1>3. CASE ~(s.reusable /\ s.count + 1 < MaxServed)
  BY <1>1, <1>3, ShrinksClose DEF NextRequest
<1> QED BY <1>2, <1>3

(* A step that changes only what is under way on a connection.              *)
LEMMA ShrinksSame ==
  ASSUME ExchangeInv, NEW c \in Conns, UNCHANGED sess, NEW m, net' = [net EXCEPT ![c] = m],
         \A k : Awaits(m, sess[c], k) => Awaits(net[c], sess[c], k)
  PROVE  Shrinks
<1>1. c \in DOMAIN sess /\ sess \in Seq(Sessions)
  BY FitOf, LenProperties DEF ExchangeInv, Types
<1>2. PICK t : t = sess[c] OBVIOUS
<1>3. sess' = [sess EXCEPT ![c] = t] BY <1>1, <1>2
<1> QED BY <1>2, <1>3, ShrinksAt

(* Bytes that are lost or read by the client await no call.                 *)
LEMMA ShrinksUp ==
  ASSUME ExchangeInv, NEW c \in Conns, UNCHANGED sess, NEW m, net' = [net EXCEPT ![c] = m],
         m.up = net[c].up \/ m.up = <<>>
  PROVE  Shrinks
<1>1. \A k : Awaits(m, sess[c], k) => Awaits(net[c], sess[c], k) BY DEF Awaits, Asked
<1> QED BY <1>1, ShrinksSame

(* The network loses what waits.                                            *)
LEMMA ShrinksLost ==
  ASSUME ExchangeInv, NEW c \in Conns, Cut(c) \/ Reset(c)
  PROVE  Shrinks
<1>1. PICK n \in Links : n = net[c] BY FitOf
<1>2. PICK m : m = [n EXCEPT !.cut = TRUE, !.up = <<>>, !.down = <<>>] OBVIOUS
<1>3. m.up = <<>> BY <1>2 DEF Links
<1>4. UNCHANGED sess /\ net' = [net EXCEPT ![c] = m] BY <1>1, <1>2 DEF Cut, Reset
<1> QED BY <1>3, <1>4, ShrinksUp

(* A session calls a handler once for a request that came to it.            *)
LEMMA SessionCount ==
  ASSUME ExchangeInv, ExchangeInv', CountInv, UNCHANGED repeatable, NEW c \in Conns,
         SessionStep(c) \/ BodyTimeout(c) \/ TransferFails(c) \/ Cut(c) \/ Reset(c)
  PROVE  CountInv'
<1>1. CASE PlainHandler(c) BY <1>1, PlainHandlerCount
<1>2. CASE StreamHandler(c) BY <1>2, StreamHandlerCount
<1>3. CASE ~PlainHandler(c) /\ ~StreamHandler(c)
  <2>1. UNCHANGED <<client, handled>>
    BY <1>3, Zenon DEF SessionStep, ReadRequestHead, RefuseLength, NoRequestHead, HeadTimeout,
       ConsumeBody, ReadRequestUnit, RequestBodyFails, SendResponse, Transfer,
       SendFails, Abort, NextRequest, BodyTimeout, TransferFails, Cut, Reset
  <2>2. Shrinks
    <3>1. CASE ReadRequestHead(c) BY <3>1, ShrinksReadHead
    <3>2. CASE RefuseLength(c) BY <3>2, ShrinksAnswerAndClose DEF RefuseLength
    <3>3. CASE NoRequestHead(c)
      <4>1. CASE AnswerAndClose(c, 400) BY <4>1, ShrinksAnswerAndClose
      <4>2. CASE CloseConn(c, <<>>) /\ sess' = [sess EXCEPT ![c] = Closed(c)] BY <4>2, ShrinksClose
      <4> QED BY <3>3, <4>1, <4>2 DEF NoRequestHead
    <3>4. CASE HeadTimeout(c) BY <3>4, ShrinksClose DEF HeadTimeout
    <3>5. CASE ConsumeBody(c) BY <3>5, ShrinksBody
    <3>6. CASE ReadRequestUnit(c) BY <3>6, ShrinksBody
    <3>7. CASE RequestBodyFails(c) BY <3>7, ShrinksBodyFails DEF RequestBodyFails
    <3>8. CASE \E a \in Answers : SendResponse(c, a) BY <3>8, ShrinksSend
    <3>9. CASE Transfer(c) BY <3>9, ShrinksTransfer
    <3>10. CASE Abort(c) BY <3>10, ShrinksClose DEF Abort
    <3>11. CASE NextRequest(c) BY <3>11, ShrinksNext
    <3>12. CASE BodyTimeout(c) BY <3>12, ShrinksBodyFails DEF BodyTimeout
    <3>13. CASE Cut(c) \/ Reset(c) BY <3>13, ShrinksLost
    <3> QED BY <1>3, <3>1, <3>2, <3>3, <3>4, <3>5, <3>6, <3>7, <3>8, <3>9, <3>10, <3>11, <3>12, <3>13,
               Zenon DEF SessionStep, SendFails, TransferFails
  <2> QED BY <2>1, <2>2, CountStays
<1> QED BY <1>1, <1>2, <1>3

(* An attempt that fails leaves one more for a request that may be repeated.*)
LEMMA FailsCount ==
  ASSUME ExchangeInv, ExchangeInv', CountInv, client.pc \in Using, UNCHANGED repeatable,
         NEW retry \in BOOLEAN, Fails(retry), NEW started, retry => MayRetry(started)
  PROVE  CountInv'
<1>1. PICK c \in Conns : /\ c = client.conn /\ net[c] \in Links /\ client.k \in 1..NumRequests
                         /\ client \in Clients
  BY InUse
<1>2. Shrinks
  <2>1. PICK m \in Links : /\ m = Settled([net[c] EXCEPT !.cOpen = FALSE])
                           /\ m.up = (IF net[c].sOpen THEN net[c].up ELSE <<>>)
    BY <1>1, DiscardedIs
  <2>2. net' = [net EXCEPT ![c] = m] /\ UNCHANGED sess BY <1>1, <2>1 DEF Fails, c0
  <2> QED BY <2>1, <2>2, ShrinksUp
<1>3. UNCHANGED handled BY DEF Fails
<1>4. /\ client'.k = client.k /\ client'.attempt = 1
      /\ client'.pc = (IF retry THEN "acquire" ELSE "idle") /\ (retry => client'.req = client.req)
  <2>1. PICK k, conn, req, pc, result :
          /\ client' = [NewRequest EXCEPT !.k = k, !.conn = conn, !.attempt = 1, !.req = req,
                                          !.pc = pc, !.result = result]
          /\ k = client.k /\ pc = (IF retry THEN "acquire" ELSE "idle")
          /\ retry => req = client.req
    BY DEF Fails
  <2>2. client'.k = k /\ client'.attempt = 1 /\ client'.pc = pc /\ client'.req = req
    BY <2>1 DEF NewRequest
  <2> QED BY <2>1, <2>2
<1>5. client.pc # "idle" /\ client.pc # "acquire" BY DEF Using, Exchanging
<1>6. PICK k0 \in 1..NumRequests : k0 = client.k BY <1>1
<1>7. /\ Limit(k0) \in 1..2 /\ Chances(k0) \in 0..2 /\ k0 \in Nat /\ client.attempt \in 0..1
  BY ChancesIs
<1>8. Chances(k0)' <= Chances(k0)
  <2>1. CASE ~retry
    <3>1. Chances(k0)' = 0 BY <1>4, <1>6, <1>7, <2>1 DEF Chances
    <3> QED BY <1>7, <3>1
  <2>2. CASE retry
    <3>1. client.attempt = 0 /\ Repeatable(client) BY <2>2 DEF MayRetry, Repeatable
    <3>2. Limit(k0) = 2 BY <1>5, <1>6, <3>1 DEF CountInv, Limit
    <3>3. Chances(k0)' = 1 BY <1>4, <1>6, <1>7, <2>2 DEF Chances
    <3>4. Chances(k0) \in 1..2 BY <1>5, <1>6, <1>7, <3>1, <3>2 DEF Chances
    <3> QED BY <3>3, <3>4
  <2> QED BY <2>1, <2>2
<1>9. client'.pc # "idle" => client'.req = client.req BY <1>4
<1> QED BY <1>2, <1>3, <1>4, <1>5, <1>6, <1>8, <1>9, CountGoesOn

(* The client has written its request and goes on with the exchange.        *)
LEMMA ExchangingCount ==
  ASSUME ExchangeInv, ExchangeInv', CountInv, Shrinks, UNCHANGED <<handled, repeatable>>,
         client.pc \in Exchanging, client'.pc \in Exchanging, client'.k = client.k,
         client'.req = client.req, client'.attempt = client.attempt
  PROVE  CountInv'
<1>1. client.pc # "idle" /\ client.pc \in Using BY DEF Using, Exchanging
<1>2. PICK k0 \in 1..NumRequests : k0 = client.k BY <1>1, InUse
<1>3. Limit(k0) \in 1..2 /\ Chances(k0) \in 0..2 /\ client.k \in Nat BY ChancesIs
<1>4. Chances(k0)' = Chances(k0) BY <1>2, <1>3 DEF Chances, Limit, Exchanging
<1>5. Chances(k0)' <= Chances(k0) BY <1>3, <1>4
<1> QED BY <1>1, <1>2, <1>5, CountGoesOn

(* What a producer adds is no head, and a session that looks for one does   *)
(* not have it before it.                                                   *)
LEMMA ShrinksProduced ==
  ASSUME ExchangeInv, ExchangeInv', client.pc = "produce", UNCHANGED sess, NEW x \in Seq(Pieces),
         net' = [net EXCEPT ![client.conn] = Written(@, "up", x)]
  PROVE  Shrinks
<1>1. PICK c \in Conns : c = client.conn /\ net[c] \in Links BY InUse DEF Using, Exchanging
<1>2. PICK n \in Links, s \in Sessions : n = net[c] /\ s = sess[c] BY <1>1, FitOf
<1>3. x \in Seq(Calls \cup Pieces) BY SeqMonotonic
<1>4. PICK m \in Links : m = Written(n, "up", x) /\ m.up = (IF n.cut THEN n.up ELSE n.up \o x)
  BY <1>3, WrittenIs
<1>5. net' = [net EXCEPT ![c] = m] BY <1>1, <1>2, <1>4
<1>6. CASE m.up = n.up BY <1>1, <1>2, <1>5, <1>6, ShrinksUp
<1>7. CASE m.up # n.up
  <2>1. n.up \in Seq(Calls \cup Pieces) /\ m.up = n.up \o x BY <1>4, <1>7 DEF Links
  <2>2. CASE n.up = <<>>
    <3>1. m.up = x /\ x # <<>> BY <1>3, <1>7, <2>1, <2>2, CatOf
    <3>2. m.up[1] \in Pieces BY <3>1, TailOf
    <3>3. m.up[1] \notin Calls BY <3>2 DEF Calls, Pieces
    <3>4. c \in Conns' /\ net'[c] = m /\ sess'[c] = s BY <1>2, <1>5 DEF Conns
    <3>5. Good(net'[c], sess'[c], Role(c)', client', Calm(c)') BY <3>4 DEF ExchangeInv
    <3>6. ~Asked(m, s) BY <3>3, <3>4, <3>5 DEF Good, Upward
    <3>7. \A k : Awaits(m, s, k) => Awaits(n, s, k) BY <3>6 DEF Awaits
    <3> QED BY <1>2, <1>5, <3>7, ShrinksSame
  <2>3. CASE n.up # <<>>
    <3>1. m.up[1] = n.up[1]
      <4>1. 1 \in DOMAIN n.up BY <2>1, <2>3, TailOf
      <4> QED BY <1>3, <2>1, <4>1, CatOf
    <3>2. \A k : Awaits(m, s, k) => Awaits(n, s, k) BY <2>3, <3>1 DEF Awaits, Asked
    <3> QED BY <1>2, <1>5, <3>2, ShrinksSame
  <2> QED BY <2>2, <2>3
<1> QED BY <1>6, <1>7

(* The producer writes no second head.                                      *)
LEMMA ProducerCount ==
  ASSUME ExchangeInv, ExchangeInv', CountInv, UNCHANGED repeatable,
         (\E n \in 1..2 : ProducerWrites(n)) \/ ProducerEnds
  PROVE  CountInv'
<1>0. client.pc = "produce" /\ UNCHANGED <<sess, handled>> BY DEF ProducerWrites, ProducerEnds
<1>1. client.pc \in Exchanging /\ client.pc \in Using BY <1>0 DEF Using, Exchanging
<1>2. client \in Clients /\ client.k \in Ids BY <1>1, InUse
<1>3. PICK k \in Ids : k = client.k BY <1>2
<1>4. \E x \in Seq(Pieces) : net' = [net EXCEPT ![client.conn] = Written(@, "up", x)]
  <2>1. ASSUME NEW n \in 1..2, ProducerWrites(n)
        PROVE  \E x \in Seq(Pieces) : net' = [net EXCEPT ![client.conn] = Written(@, "up", x)]
    <3>1. CASE client.req.body = "chunked"
      <4>1. [t |-> "chunk", id |-> k, n |-> n] \in Pieces BY DEF Pieces
      <4>2. Chunk(k, n) \in Seq(Pieces) BY <4>1 DEF Chunk
      <4> QED BY <1>3, <2>1, <3>1, <4>2 DEF ProducerWrites, c0
    <3>2. CASE client.req.body # "chunked"
      <4>1. Units(k, n) \in Seq(Pieces) BY UnitsAre
      <4> QED BY <1>3, <2>1, <3>2, <4>1 DEF ProducerWrites, c0
    <3> QED BY <3>1, <3>2
  <2>2. ASSUME ProducerEnds
        PROVE  \E x \in Seq(Pieces) : net' = [net EXCEPT ![client.conn] = Written(@, "up", x)]
    <3>1. CASE client.req.body = "chunked"
      <4>1. [t |-> "last", id |-> k] \in Pieces BY DEF Pieces
      <4>2. LastChunk(k) \in Seq(Pieces) BY <4>1 DEF LastChunk
      <4> QED BY <1>3, <2>2, <3>1, <4>2 DEF ProducerEnds, c0
    <3>2. CASE client.req.body # "chunked"
      <4>1. <<>> \in Seq(Pieces) BY EmptySeq
      <4> QED BY <2>2, <3>2, <4>1 DEF ProducerEnds, c0
    <3> QED BY <3>1, <3>2
  <2> QED BY <2>1, <2>2
<1>5. Shrinks BY <1>0, <1>4, ShrinksProduced
<1>6. /\ client'.pc \in Exchanging /\ client'.k = client.k /\ client'.req = client.req
      /\ client'.attempt = client.attempt
  <2>1. (\E l : client' = [client EXCEPT !.left = l]) \/ client' = [client EXCEPT !.pc = "read"]
    BY DEF ProducerWrites, ProducerEnds
  <2> QED BY <1>1, <1>2, <2>1 DEF Clients, Exchanging
<1>7. UNCHANGED <<handled, repeatable>> BY <1>0
<1> QED BY <1>1, <1>5, <1>6, <1>7, ExchangingCount

(* The client takes what comes.                                             *)
LEMMA ReadCount ==
  ASSUME ExchangeInv, ExchangeInv', CountInv, UNCHANGED repeatable, ReadHead \/ ReadUnit
  PROVE  CountInv'
<1>0. client.pc \in Exchanging /\ client.pc \in Using /\ UNCHANGED <<sess, handled>>
  BY Zenon DEF ReadHead, ReadUnit, Using, Exchanging
<1>1. PICK c \in Conns : c = client.conn /\ net[c] \in Links /\ client \in Clients BY <1>0, InUse
<1>2. PICK n \in Links : n = net[c] BY <1>1
<1>3. PICK m : m = [n EXCEPT !.down = Tail(n.down)] OBVIOUS
<1>4. net' = [net EXCEPT ![c] = m]
  BY <1>1, <1>2, <1>3, Zenon DEF ReadHead, ReadUnit, c0
<1>5. m.up = n.up BY <1>3 DEF Links
<1>6. Shrinks BY <1>0, <1>2, <1>4, <1>5, ShrinksUp
<1>7. /\ client'.pc \in Exchanging /\ client'.k = client.k /\ client'.req = client.req
      /\ client'.attempt = client.attempt
  <2>1. \/ \E tok, l : client' = [client EXCEPT !.pc = "body", !.resp = tok, !.left = l]
        \/ \E g, l : client' = [client EXCEPT !.got = g, !.left = l]
        \/ UNCHANGED client
    <3>1. CASE ReadHead BY <3>1, Zenon DEF ReadHead
    <3>2. CASE ReadUnit
      <4>1. PICK tok : client' = [client EXCEPT !.got = Append(@, tok.id),
                                     !.left = IF BodyFraming = "length" THEN @ - 1 ELSE @]
        BY <3>2, Zenon DEF ReadUnit
      <4>2. PICK g, l : g = Append(client.got, tok.id)
                        /\ l = IF BodyFraming = "length" THEN client.left - 1 ELSE client.left
        OBVIOUS
      <4>3. client' = [client EXCEPT !.got = g, !.left = l] BY <4>1, <4>2, Zenon
      <4> QED BY <4>3
    <3> QED BY <3>1, <3>2
  <2>2. CASE UNCHANGED client BY <1>0, <2>2
  <2>3. ASSUME NEW tok, NEW l, client' = [client EXCEPT !.pc = "body", !.resp = tok, !.left = l]
        PROVE  /\ client'.pc \in Exchanging /\ client'.k = client.k /\ client'.req = client.req
               /\ client'.attempt = client.attempt
    BY <1>1, <2>3 DEF Clients, Exchanging
  <2>4. ASSUME NEW g, NEW l, client' = [client EXCEPT !.got = g, !.left = l]
        PROVE  /\ client'.pc \in Exchanging /\ client'.k = client.k /\ client'.req = client.req
               /\ client'.attempt = client.attempt
    BY <1>0, <1>1, <2>4 DEF Clients, Exchanging
  <2> QED BY <2>1, <2>2, <2>3, <2>4
<1>8. UNCHANGED <<handled, repeatable>> BY <1>0
<1> QED BY <1>0, <1>6, <1>7, <1>8, ExchangingCount

(* The session of a connection that is taken to write a request is at no    *)
(* other, so the request it writes is the only one to wait there.           *)
LEMMA WriteRequestCount ==
  ASSUME ExchangeInv, ExchangeInv', CountInv, UNCHANGED repeatable, WriteRequest
  PROVE  CountInv'
<1>0. client.pc = "write" /\ client.pc \in Using /\ UNCHANGED <<sess, handled>>
  BY DEF WriteRequest, Using
<1>1. PICK c \in Conns : /\ c = client.conn /\ net[c] \in Links /\ client \in Clients
                         /\ client.k \in 1..NumRequests
                         /\ Fit(net[c], sess[c], client.pc, client, Calm(c))
  BY <1>0, InUse
<1>2. PICK n \in Links, s \in Sessions : n = net[c] /\ s = sess[c] BY <1>1, FitOf
<1>3. PICK b : net' = [net EXCEPT ![c] = Written(n, "up", <<RequestHead(client.k, client.req)>> \o b)]
               /\ b \in Seq(Pieces)
  <2>1. PICK b : b = IF Streamed(client.req) THEN <<>> ELSE Units(client.k, client.req.size) OBVIOUS
  <2>2. net' = [net EXCEPT ![c] = Written(n, "up", <<RequestHead(client.k, client.req)>> \o b)]
    BY <1>1, <1>2, <2>1 DEF WriteRequest, c0
  <2>3. client.req \in Requests BY <1>0, InUse
  <2>4. client.req.size \in Nat /\ client.k \in Ids BY <1>1, <2>3, ExchangeAssumption DEF Clients
  <2>5. Units(client.k, client.req.size) \in Seq(Pieces) BY <2>4, UnitsAre
  <2>6. <<>> \in Seq(Pieces) BY EmptySeq
  <2> QED BY <2>1, <2>2, <2>5, <2>6
<1>4. PICK head \in Calls : head = RequestHead(client.k, client.req) /\ head.id = client.k
  <2>1. client.req \in Requests /\ client.k \in Ids BY <1>0, InUse
  <2>2. RequestHead(client.k, client.req) \in Calls /\ RequestHead(client.k, client.req).id = client.k
    BY <2>1 DEF RequestHead, Calls
  <2> QED BY <2>2
<1>5. PICK x \in Seq(Calls \cup Pieces) : x = <<head>> \o b /\ x[1] = head
  BY <1>3, HeadFirst
<1>6. PICK m \in Links : m = Written(n, "up", x) /\ m.up = (IF n.cut THEN n.up ELSE n.up \o x)
  BY WrittenIs
<1>7. net' = [net EXCEPT ![c] = m] BY <1>3, <1>4, <1>5, <1>6
<1>8. s.pc = "closed" \/ (NextHead(s) /\ n.up = <<>>)
  BY <1>0, <1>1, <1>2 DEF Fit, Good, Rested
<1>9. ASSUME NEW k, k # client.k, Awaits(m, s, k) PROVE Awaits(n, s, k)
  <2>1. ~Due(s) BY <1>8 DEF NextHead, Sending, Due
  <2>2. Asked(m, s) /\ m.up[1].id = k BY <1>9, <2>1 DEF Awaits
  <2>3. n.up = <<>> BY <1>8, <2>2 DEF Asked, NextHead, Sending
  <2>4. CASE n.cut BY <1>6, <2>2, <2>3, <2>4 DEF Asked
  <2>5. CASE ~n.cut
    <3>1. m.up = x BY <1>6, <2>3, <2>5, CatOf DEF Links
    <3> QED BY <1>4, <1>5, <1>9, <2>2, <3>1
  <2> QED BY <2>4, <2>5
<1>10. Conns' = Conns /\ \A y \in Conns : /\ net'[y] = IF y = c THEN m ELSE net[y]
                                          /\ sess'[y] = sess[y]
  BY <1>0, <1>1, <1>7 DEF Conns
<1>11. ASSUME NEW k \in 1..NumRequests
       PROVE  Pending(k)' \subseteq Pending(k) \cup (IF k = client.k THEN {c} ELSE {})
  <2>1. ASSUME NEW y \in Pending(k)', ~(k = client.k /\ y = c) PROVE y \in Pending(k)
    <3>1. y \in Conns /\ Awaits(net'[y], sess'[y], k) BY <1>10, <2>1 DEF Pending
    <3>2. CASE y = c BY <1>2, <1>9, <1>10, <2>1, <3>1, <3>2 DEF Pending
    <3>3. CASE y # c BY <1>10, <3>1, <3>3 DEF Pending
    <3> QED BY <3>2, <3>3
  <2> QED BY <2>1
<1>12. /\ client'.pc \in {"produce", "read"} /\ client'.k = client.k
       /\ client'.req = client.req /\ client'.attempt = client.attempt
  <2>1. PICK pc \in {"produce", "read"} : \E l : client' = [client EXCEPT !.pc = pc, !.left = l]
    BY DEF WriteRequest
  <2> QED BY <1>1, <2>1 DEF Clients
<1>13. UNCHANGED <<handled, repeatable>> BY <1>0
<1> QED BY <1>0, <1>11, <1>12, <1>13, WriteCount

(* A connection that is new has nothing before it.                          *)
LEMMA AcquireCount ==
  ASSUME ExchangeInv, ExchangeInv', CountInv, UNCHANGED repeatable, Acquire
  PROVE  CountInv'
<1>0. client.pc = "acquire" /\ client.pc # "idle" /\ UNCHANGED handled BY DEF Acquire
<1>1. /\ net \in Seq(Links) /\ sess \in Seq(Sessions) /\ Len(sess) = Len(net) /\ client \in Clients
      /\ client.k \in 1..NumRequests
  BY <1>0 DEF ExchangeInv, Types, Owner
<1>2. Shrinks
  <2>1. CASE UNCHANGED <<net, sess>> BY <2>1 DEF Shrinks, Pending, Conns
  <2>2. CASE net' = Append(net, NewConn) /\ sess' = Append(sess, NewSession)
    <3>1. PICK c \in Nat : c = Len(net) + 1 BY <1>1
    <3>2. /\ Conns = 1..Len(net) /\ Conns' = Conns \cup {c}
          /\ net'[c] = NewConn /\ sess'[c] = NewSession
          /\ \A y \in Conns : net'[y] = net[y] /\ sess'[y] = sess[y]
      <4>1. DOMAIN net = 1..Len(net) /\ DOMAIN net' = 1..c /\ Len(net) \in Nat
        BY <1>1, <2>2, <3>1
      <4>2. net'[c] = NewConn /\ sess'[c] = NewSession BY <1>1, <2>2, <3>1
      <4>3. \A y \in 1..Len(net) : net'[y] = net[y] /\ sess'[y] = sess[y] BY <1>1, <2>2
      <4> QED BY <3>1, <4>1, <4>2, <4>3 DEF Conns
    <3>3. \A k : ~Awaits(NewConn, NewSession, k)
      BY DEF Awaits, Asked, Due, NewConn, NewSession
    <3>4. ASSUME NEW k \in 1..NumRequests, NEW y \in Pending(k)' PROVE y \in Pending(k)
      <4>1. y \in Conns' /\ Awaits(net'[y], sess'[y], k) BY <3>4 DEF Pending
      <4>2. y # c BY <3>2, <3>3, <4>1
      <4> QED BY <3>2, <4>1, <4>2 DEF Pending
    <3> QED BY <3>4 DEF Shrinks
  <2> QED BY <2>1, <2>2 DEF Acquire
<1>3. /\ client'.pc = "write" /\ client'.k = client.k /\ client'.req = client.req
      /\ client'.attempt = client.attempt
  <2>1. PICK conn, reused : client' = [client EXCEPT !.pc = "write", !.conn = conn, !.reused = reused]
    BY DEF Acquire
  <2> QED BY <1>1, <2>1 DEF Clients
<1>4. PICK k0 \in 1..NumRequests : k0 = client.k BY <1>1
<1>5. Limit(k0) \in 1..2 /\ Chances(k0) \in 0..2 /\ client.k \in Nat BY ChancesIs
<1>6. Chances(k0)' = Chances(k0) BY <1>0, <1>3, <1>4, <1>5 DEF Chances, Limit
<1>7. Chances(k0)' <= Chances(k0) BY <1>5, <1>6
<1>8. UNCHANGED <<handled, repeatable>> BY <1>0
<1> QED BY <1>0, <1>2, <1>3, <1>4, <1>7, <1>8, CountGoesOn

(* A response that is whole ends the request.                               *)
LEMMA ReadEndsCount ==
  ASSUME ExchangeInv, ExchangeInv', CountInv, UNCHANGED repeatable, ReadEnds
  PROVE  CountInv'
<1>0. client.pc \in Using /\ client.pc # "idle" /\ UNCHANGED <<sess, handled>>
  BY DEF ReadEnds, Using, Exchanging
<1>1. PICK c \in Conns : c = client.conn /\ net[c] \in Links /\ client.k \in 1..NumRequests
  BY <1>0, InUse
<1>2. PICK n \in Links : n = net[c] BY <1>1
<1>3. PICK v, keep : /\ Release(v, keep)
                     /\ v = n \/ v = [n EXCEPT !.down = Tail(n.down)]
  BY <1>1, <1>2 DEF ReadEnds, c0
<1>4. v.up = n.up BY <1>3 DEF Links
<1>5. PICK m : /\ net' = [net EXCEPT ![c] = m]
               /\ m = v \/ m = Settled([v EXCEPT !.cOpen = FALSE])
  BY <1>1, <1>3 DEF Release, c0
<1>6. m.up = n.up \/ m.up = <<>>
  <2>1. CASE m = v BY <1>4, <2>1
  <2>2. CASE m = Settled([v EXCEPT !.cOpen = FALSE])
    <3>1. PICK w : w = [v EXCEPT !.cOpen = FALSE] OBVIOUS
    <3>2. w.up = n.up BY <1>3, <1>4, <3>1 DEF Links
    <3>3. CASE w.cOpen \/ w.sOpen BY <2>2, <3>1, <3>2, <3>3 DEF Settled
    <3>4. CASE ~(w.cOpen \/ w.sOpen)
      <4>1. m = [w EXCEPT !.up = <<>>, !.down = <<>>] BY <2>2, <3>1, <3>4 DEF Settled
      <4> QED BY <1>3, <3>1, <4>1 DEF Links
    <3> QED BY <3>3, <3>4
  <2> QED BY <1>5, <2>1, <2>2
<1>7. Shrinks BY <1>0, <1>2, <1>5, <1>6, ShrinksUp
<1>8. client'.pc = "idle" /\ client'.k = client.k
  <2>1. PICK k, conn, resp, got :
          /\ client' = [NewRequest EXCEPT !.pc = "idle", !.k = k, !.conn = conn, !.result = "ok",
                                          !.resp = resp, !.got = got]
          /\ k = client.k
    BY <1>3 DEF Release
  <2> QED BY <2>1 DEF NewRequest
<1>9. PICK k0 \in 1..NumRequests : k0 = client.k BY <1>1
<1>10. Chances(k0) \in 0..2 /\ client.k \in Nat BY ChancesIs
<1>11. Chances(k0)' = 0 BY <1>8, <1>9, <1>10 DEF Chances
<1>12. Chances(k0)' <= Chances(k0) BY <1>10, <1>11
<1>13. UNCHANGED <<handled, repeatable>> BY <1>0
<1> QED BY <1>0, <1>7, <1>8, <1>9, <1>12, <1>13, CountGoesOn

(* Nothing was called and nothing written at first.                         *)
LEMMA CountInit == Init => CountInv
<1> SUFFICES ASSUME Init PROVE CountInv OBVIOUS
<1>1. ExchangeInv BY InitInv
<1>2. handled \in [1..NumRequests -> Nat] BY DEF Init
<1>3. client.pc = "idle" /\ client.k = 0 BY DEF Init, NewRequest
<1>4. ASSUME NEW k \in 1..NumRequests PROVE Counted(k)
  <2>1. Conns = {} BY EmptySeq DEF Conns, Init
  <2>2. Pending(k) = {} BY <2>1 DEF Pending
  <2>3. Cardinality(Pending(k)) = 0 BY <2>2, FS_EmptySet
  <2>4. handled[k] = 0 BY DEF Init
  <2>5. Limit(k) \in 1..2 /\ k \in Nat /\ NumRequests \in Nat BY <1>1, ChancesIs
  <2>6. Chances(k) = Limit(k) BY <1>3, <2>5 DEF Chances
  <2> QED BY <2>3, <2>4, <2>5, <2>6 DEF Counted
<1> QED BY <1>2, <1>3, <1>4 DEF CountInv

(* Every step keeps the calls within the limit.                             *)
LEMMA CountNext == ExchangeInv /\ CountInv /\ [Next]_vars => CountInv'
<1> SUFFICES ASSUME ExchangeInv, CountInv, [Next]_vars PROVE CountInv' OBVIOUS
<1>0. ExchangeInv' BY NextInv
<1>1. CASE \E r \in Requests : Begin(r) BY <1>0, <1>1, BeginCount
<1>2. CASE /\ UNCHANGED repeatable
           /\ \/ Acquire \/ WriteRequest \/ (\E n \in 1..2 : ProducerWrites(n)) \/ ProducerEnds
              \/ ReadHead \/ ReadUnit \/ ReadEnds
  <2>1. CASE Acquire BY <1>0, <1>2, <2>1, AcquireCount
  <2>2. CASE WriteRequest BY <1>0, <1>2, <2>2, WriteRequestCount
  <2>3. CASE (\E n \in 1..2 : ProducerWrites(n)) \/ ProducerEnds BY <1>0, <1>2, <2>3, ProducerCount
  <2>4. CASE ReadHead \/ ReadUnit BY <1>0, <1>2, <2>4, ReadCount
  <2>5. CASE ReadEnds BY <1>0, <1>2, <2>5, ReadEndsCount
  <2> QED BY <1>2, <2>1, <2>2, <2>3, <2>4, <2>5
<1>3. CASE UNCHANGED repeatable /\ (WriteRefused \/ ClientWriteFails)
  <2>1. client.pc \in Using BY <1>3 DEF WriteRefused, ClientWriteFails, Using, Exchanging
  <2>2. PICK retry \in BOOLEAN : retry = MayRetry(FALSE) BY MayRetryIs
  <2>3. Fails(retry) BY <1>3, <2>2 DEF WriteRefused, ClientWriteFails
  <2> QED BY <1>0, <1>3, <2>1, <2>2, <2>3, FailsCount
<1>4. CASE UNCHANGED repeatable /\ ReadFails
  <2>1. client.pc \in Using BY <1>4 DEF ReadFails, InBody, Using, Exchanging
  <2>2. PICK retry \in BOOLEAN : retry = MayRetry(client.pc = "body") BY MayRetryIs
  <2>3. Fails(retry) BY <1>4, <2>2 DEF ReadFails
  <2> QED BY <1>0, <1>4, <2>1, <2>2, <2>3, FailsCount
<1>5. CASE ProducerFails
  <2>1. client.pc \in Using /\ UNCHANGED repeatable /\ Fails(FALSE)
    BY <1>5 DEF ProducerFails, Using, Exchanging
  <2>2. PICK retry \in BOOLEAN : ~retry /\ Fails(retry) BY <2>1
  <2>3. retry => MayRetry(FALSE) BY <2>2
  <2> QED BY <1>0, <2>1, <2>2, <2>3, FailsCount
<1>6. CASE GivesUp
  <2>1. client.pc \in Using /\ UNCHANGED repeatable BY <1>6 DEF GivesUp, Using, Exchanging
  <2>2. PICK retry \in BOOLEAN : Fails(retry) /\ (retry => MayRetry(client.pc = "body"))
    BY <1>6, MayRetryIs DEF GivesUp
  <2> QED BY <1>0, <2>1, <2>2, FailsCount
<1>7. ASSUME NEW c \in Conns,
             (SessionStep(c) /\ UNCHANGED repeatable) \/ BodyTimeout(c) \/ TransferFails(c) \/ Cut(c) \/ Reset(c)
      PROVE  CountInv'
  <2>1. UNCHANGED repeatable BY <1>7 DEF BodyTimeout, TransferFails, Cut, Reset
  <2> QED BY <1>0, <1>7, <2>1, SessionCount
<1>8. CASE Stop \/ UNCHANGED vars
  <2>1. UNCHANGED <<client, net, sess, handled, repeatable>> BY <1>8 DEF Stop, vars
  <2>2. Shrinks BY <2>1 DEF Shrinks, Pending, Conns
  <2>3. UNCHANGED <<client, handled, repeatable>> BY <2>1
  <2> QED BY <1>0, <2>2, <2>3, CountStays
<1>9. ASSUME NEW c \in Conns, SessionStep(c) PROVE UNCHANGED repeatable
  BY <1>9 DEF SessionStep
<1> QED BY <1>1, <1>2, <1>3, <1>4, <1>5, <1>6, <1>7, <1>8, <1>9 DEF Next, ClientStep

(* A handler runs once for a request, or twice if the request may be        *)
(* repeated, wherever its connection breaks: the client's second attempt    *)
(* asks for an idempotent request that was not streamed.                    *)
THEOREM HandlersOnce == Spec => []HandledOnce
<1>1. ExchangeInv /\ CountInv => HandledOnce
  <2> SUFFICES ASSUME ExchangeInv, CountInv, NEW k \in 1..NumRequests
               PROVE  handled[k] <= Limit(k)
    BY DEF HandledOnce, Limit
  <2>1. PICK p \in Nat, h \in Nat, x \in 0..2, l \in 1..2 :
          p = Cardinality(Pending(k)) /\ h = handled[k] /\ x = Chances(k) /\ l = Limit(k)
    BY PendingFinite, ChancesIs DEF CountInv
  <2>2. h + p + x <= l BY <2>1 DEF CountInv, Counted
  <2>3. h <= l BY <2>2
  <2> QED BY <2>1, <2>3
<1> QED BY <1>1, InitInv, NextInv, CountInit, CountNext, PTL DEF Spec
=============================================================================
